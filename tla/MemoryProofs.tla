---------------------------- MODULE MemoryProofs ----------------------------
(***************************************************************************)
(* Proofs about Builders and Memory: what a builder is asked for is what   *)
(* UCX reads, names and packed buffers have one owner, and memory handles  *)
(* of an orderly program are used while their context is there; for any    *)
(* number of builders, parameters, contexts and handles, and bytes of any  *)
(* size.                                                                   *)
(***************************************************************************)
EXTENDS Memory, ConversionsProofs, FiniteSetTheorems

----------------------------------------------------------------------------
(* The structs.                                                            *)

LEMMA FieldFacts ==
    ASSUME NEW k \in Kind
    PROVE  /\ k \in NamedKind <=> "name" \in FieldsOf[k]
           /\ "arg" \in FieldsOf[k] => "cb" \in FieldsOf[k]
  BY DEF Kind, FieldsOf, NamedKind

LEMMA ArgFacts ==
    ASSUME NEW f, f # "name", NEW v \in Args(f)
    PROVE  /\ v # "unset" /\ v # "taken"
           /\ ToFfi(f, v) \in FfiThreadMode \cup FfiMemoryType
           /\ FromFfi(f, ToFfi(f, v))
                = IF f = "thread_mode" /\ v = "unknown" THEN "multi" ELSE v
  <1>1. CASE f = "thread_mode"
    <2>1. v \in ThreadMode
      BY <1>1 DEF Args
    <2>2. /\ ThreadModeToFfi(v) \in 0 .. 2
          /\ ThreadModeFromFfi(ThreadModeToFfi(v)) = IF v = "unknown" THEN "multi" ELSE v
      BY <2>1, ThreadModeRoundTrip
    <2>3. ToFfi(f, v) = ThreadModeToFfi(v)
      BY <1>1 DEF ToFfi
    <2>4. FromFfi(f, ToFfi(f, v)) = ThreadModeFromFfi(ThreadModeToFfi(v))
      BY <1>1, <2>3 DEF FromFfi
    <2>5. v # "unset" /\ v # "taken"
      BY <2>1 DEF ThreadMode
    <2>6. ThreadModeToFfi(v) \in FfiThreadMode
      BY <2>2 DEF FfiThreadMode
    <2> QED BY <1>1, <2>2, <2>3, <2>4, <2>5, <2>6
  <1>2. CASE f = "memory_type"
    <2>1. v \in MemoryType
      BY <1>2 DEF Args
    <2>2. /\ MemoryTypeToFfi(v) \in FfiMemoryType
          /\ MemoryTypeFromFfi(MemoryTypeToFfi(v)) = v
      BY <2>1, MemoryTypeRoundTrip
    <2>3. ToFfi(f, v) = MemoryTypeToFfi(v)
      BY <1>2 DEF ToFfi
    <2>4. FromFfi(f, ToFfi(f, v)) = MemoryTypeFromFfi(MemoryTypeToFfi(v))
      BY <1>2, <2>3 DEF FromFfi
    <2>5. v # "unset" /\ v # "taken"
      <3>1. DOMAIN MemoryTypes = 1 .. 9
        BY DEF MemoryTypes
      <3>2. \A i \in 1 .. 9 : MemoryTypes[i] # "unset" /\ MemoryTypes[i] # "taken"
        BY DEF MemoryTypes
      <3> QED BY <2>1, <3>1, <3>2 DEF MemoryType
    <2> QED BY <1>2, <2>2, <2>3, <2>4, <2>5
  <1>3. CASE f # "thread_mode" /\ f # "memory_type"
    <2>1. v \in Value
      BY <1>3 DEF Args
    <2>2. ToFfi(f, v) = IF v = "zero" THEN 0 ELSE 1
      BY <1>3 DEF ToFfi
    <2>3. ToFfi(f, v) \in FfiMemoryType
      BY <2>2 DEF FfiMemoryType
    <2>4. FromFfi(f, ToFfi(f, v)) = v
      BY <1>3, <2>1, <2>2 DEF FromFfi, Value
    <2> QED BY <1>3, <2>1, <2>3, <2>4 DEF Value
  <1> QED BY <1>1, <1>2, <1>3

\* A field of a struct is stored, the mask told, and the rest left alone.
LEMMA StoredState ==
    ASSUME NEW k \in Kind, NEW r \in BuilderState(k),
           NEW f \in FieldsOf[k] \ {"name"}, NEW v \in Args(f)
    PROVE  /\ Stored(r, f, v) \in BuilderState(k)
           /\ Stored(r, f, v).name = r.name
           /\ Stored(r, f, v).shared = r.shared
           /\ Stored(r, f, v).mask = r.mask \cup (IF f = "arg" THEN {} ELSE {f})
           /\ \A g \in FieldsOf[k] :
                 /\ Stored(r, f, v).val[g] = IF g = f THEN ToFfi(f, v) ELSE r.val[g]
                 /\ Stored(r, f, v).asked[g] = IF g = f THEN v ELSE r.asked[g]
  <1>1. ToFfi(f, v) \in FfiThreadMode \cup FfiMemoryType
    BY ArgFacts
  <1>2. v \in UNION {Args(g) : g \in FieldsOf[k]}
    OBVIOUS
  <1> DEFINE V == FfiThreadMode \cup FfiMemoryType \cup Cell \cup {Nil}
             A == {"unset"} \cup UNION {Args(g) : g \in FieldsOf[k]}
  <1>3. r \in [mask : SUBSET (FieldsOf[k] \ {"arg"}), val : [FieldsOf[k] -> V],
               name : Cell \cup {Nil}, shared : BOOLEAN, asked : [FieldsOf[k] -> A]]
    BY DEF BuilderState
  <1>4. ToFfi(f, v) \in V /\ v \in A
    BY <1>1, <1>2
  <1> HIDE DEF V, A
  <1>5. PICK y, z : /\ y = [r.val EXCEPT ![f] = ToFfi(f, v)]
                    /\ z = [r.asked EXCEPT ![f] = v]
    OBVIOUS
  <1>6. PICK x : x = r.mask \cup (IF f = "arg" THEN {} ELSE {f})
    OBVIOUS
  <1>7. /\ y \in [FieldsOf[k] -> V] /\ z \in [FieldsOf[k] -> A]
        /\ x \in SUBSET (FieldsOf[k] \ {"arg"})
        /\ \A g \in FieldsOf[k] : /\ y[g] = IF g = f THEN ToFfi(f, v) ELSE r.val[g]
                                 /\ z[g] = IF g = f THEN v ELSE r.asked[g]
    BY <1>3, <1>4, <1>5, <1>6
  <1> DEFINE s == Stored(r, f, v)
  <1>8. s = [r EXCEPT !.mask = x, !.val = y, !.asked = z]
    BY <1>3, <1>5, <1>6 DEF Stored
  <1> HIDE DEF s
  <1>9. /\ s \in [mask : SUBSET (FieldsOf[k] \ {"arg"}), val : [FieldsOf[k] -> V],
                  name : Cell \cup {Nil}, shared : BOOLEAN, asked : [FieldsOf[k] -> A]]
        /\ s.mask = x /\ s.val = y /\ s.asked = z
        /\ s.name = r.name /\ s.shared = r.shared
    BY <1>3, <1>7, <1>8
  <1>10. s \in BuilderState(k)
    BY <1>9 DEF BuilderState, V, A
  <1> QED BY <1>6, <1>7, <1>9, <1>10 DEF s

LEMMA StoredAsked ==
    ASSUME NEW k \in Kind, NEW r \in BuilderState(k),
           NEW f \in FieldsOf[k] \ {"name"}, NEW v \in Args(f),
           StructAsked(k, r), k = "context" => f # "shared"
    PROVE  StructAsked(k, Stored(r, f, v))
  <1> DEFINE s == Stored(r, f, v)
  <1>1. /\ s.shared = r.shared
        /\ s.mask = r.mask \cup (IF f = "arg" THEN {} ELSE {f})
        /\ \A g \in FieldsOf[k] :
              /\ s.val[g] = IF g = f THEN ToFfi(f, v) ELSE r.val[g]
              /\ s.asked[g] = IF g = f THEN v ELSE r.asked[g]
    BY StoredState
  <1>2. v # "unset"
    BY ArgFacts
  <1> HIDE DEF s
  <1>3. ASSUME NEW g \in FieldsOf[k]
        PROVE  /\ s.asked[g] \in Args(g) \cup {"unset"}
               /\ g # "arg" => (g \in s.mask <=> s.asked[g] # "unset")
               /\ g # "name" => s.val[g] = IF s.asked[g] = "unset" THEN 0
                                          ELSE ToFfi(g, s.asked[g])
    <2>1. CASE g = f
      BY <1>1, <1>2, <2>1
    <2>2. CASE g # f
      <3>1. s.asked[g] = r.asked[g] /\ s.val[g] = r.val[g] /\ (g \in s.mask <=> g \in r.mask)
        BY <1>1, <2>2
      <3> QED BY <3>1 DEF StructAsked
    <2> QED BY <2>1, <2>2
  <1>4. ASSUME k = "context"
        PROVE  s.shared <=> s.asked["shared"] = "one"
    <2>1. "shared" \in FieldsOf[k] /\ "shared" # f
      BY <1>4 DEF FieldsOf
    <2> QED BY <1>1, <1>4, <2>1 DEF StructAsked
  <1> QED BY <1>3, <1>4 DEF StructAsked, s

LEMMA StoredName ==
    ASSUME NEW k \in Kind, NEW m, NEW r \in BuilderState(k),
           NEW f \in FieldsOf[k] \ {"name"}, NEW v \in Args(f),
           NEW pointer, NameAsked(k, m, r, pointer)
    PROVE  NameAsked(k, m, Stored(r, f, v), pointer)
  <1> DEFINE s == Stored(r, f, v)
  <1>1. /\ s.name = r.name
        /\ \A g \in FieldsOf[k] :
              /\ s.val[g] = IF g = f THEN ToFfi(f, v) ELSE r.val[g]
              /\ s.asked[g] = IF g = f THEN v ELSE r.asked[g]
    BY StoredState
  <1> HIDE DEF s
  <1>2. k \in NamedKind => s.val["name"] = r.val["name"] /\ s.asked["name"] = r.asked["name"]
    BY <1>1, FieldFacts
  <1> QED BY <1>1, <1>2 DEF NameAsked, s

\* mt_workers_shared: the struct and the copy beside it.
LEMMA SharedStored ==
    ASSUME NEW m, NEW r \in BuilderState("context"), NEW v \in Value,
           StructAsked("context", r), NameAsked("context", m, r, Nil),
           NEW t, t = Stored(r, "shared", v),
           NEW s, s.name = t.name, s.mask = t.mask, s.val = t.val,
           s.asked = t.asked, s.shared <=> v # "zero"
    PROVE  /\ s.name = r.name
           /\ StructAsked("context", s) /\ NameAsked("context", m, s, Nil)
  <1> DEFINE K == "context"
  <1>1. K \in Kind /\ "shared" \in FieldsOf[K] \ {"name"} /\ v \in Args("shared")
    BY DEF Kind, FieldsOf, Args
  <1>2. /\ t \in BuilderState(K)
        /\ t.name = r.name
        /\ t.mask = r.mask \cup {"shared"}
        /\ \A g \in FieldsOf[K] :
              /\ t.val[g] = IF g = "shared" THEN ToFfi("shared", v) ELSE r.val[g]
              /\ t.asked[g] = IF g = "shared" THEN v ELSE r.asked[g]
    BY <1>1, StoredState
  <1>3. NameAsked(K, m, t, Nil)
    BY <1>1, StoredName
  <1>4. v # "unset"
    BY DEF Value
  <1>5. NameAsked(K, m, s, Nil)
    BY <1>3 DEF NameAsked
  <1>6. ASSUME NEW g \in FieldsOf[K]
        PROVE  /\ s.asked[g] \in Args(g) \cup {"unset"}
               /\ g # "arg" => (g \in s.mask <=> s.asked[g] # "unset")
               /\ g # "name" => s.val[g] = IF s.asked[g] = "unset" THEN 0
                                          ELSE ToFfi(g, s.asked[g])
    <2>1. CASE g = "shared"
      BY <1>1, <1>2, <1>4, <2>1
    <2>2. CASE g # "shared"
      <3>1. s.asked[g] = r.asked[g] /\ s.val[g] = r.val[g] /\ (g \in s.mask <=> g \in r.mask)
        BY <1>2, <2>2
      <3> QED BY <3>1 DEF StructAsked
    <2> QED BY <2>1, <2>2
  <1>7. s.shared <=> s.asked["shared"] = "one"
    BY <1>1, <1>2 DEF Value
  <1>8. StructAsked(K, s)
    BY <1>6, <1>7 DEF StructAsked
  <1> QED BY <1>2, <1>5, <1>8

LEMMA RenamedState ==
    ASSUME NEW k \in NamedKind, NEW r \in BuilderState(k), NEW c \in Cell,
           NEW t \in Text, StructAsked(k, r), r.val["name"] = Nil,
           NEW m, m[c] = t
    PROVE  /\ Renamed(r, c, t) \in BuilderState(k)
           /\ Renamed(r, c, t).name = c
           /\ StructAsked(k, Renamed(r, c, t))
           /\ NameAsked(k, m, Renamed(r, c, t), Nil)
  <1>1. k \in Kind /\ "name" \in FieldsOf[k] /\ c # Nil
    BY NilAssumption DEF NamedKind, Kind, FieldsOf
  <1>2. t \in Args("name") /\ t # "unset"
    BY TextAssumption DEF Args
  <1> DEFINE s == Renamed(r, c, t)
             V == FfiThreadMode \cup FfiMemoryType \cup Cell \cup {Nil}
             A == {"unset"} \cup UNION {Args(g) : g \in FieldsOf[k]}
             P == SUBSET (FieldsOf[k] \ {"arg"})
  <1>3. r \in [mask : P, val : [FieldsOf[k] -> V],
               name : Cell \cup {Nil}, shared : BOOLEAN, asked : [FieldsOf[k] -> A]]
    BY DEF BuilderState
  <1>4. t \in A
    BY <1>1, <1>2
  <1>5. r.mask \cup {"name"} \in P
    BY <1>1, <1>3
  <1> HIDE DEF V, A, P
  <1>a. PICK z : z = [r.asked EXCEPT !["name"] = t]
    OBVIOUS
  <1>6. /\ z \in [FieldsOf[k] -> A]
        /\ \A g \in FieldsOf[k] : z[g] = IF g = "name" THEN t ELSE r.asked[g]
    BY <1>1, <1>3, <1>4, <1>a
  <1>7. s = [r EXCEPT !.mask = r.mask \cup {"name"}, !.name = c, !.asked = z]
    BY <1>3, <1>a DEF Renamed
  <1> HIDE DEF s
  <1>8. /\ s \in [mask : P, val : [FieldsOf[k] -> V],
                  name : Cell \cup {Nil}, shared : BOOLEAN, asked : [FieldsOf[k] -> A]]
        /\ s.mask = r.mask \cup {"name"} /\ s.val = r.val /\ s.asked = z
        /\ s.name = c /\ s.shared = r.shared
    BY <1>3, <1>5, <1>6, <1>7
  <1>9. s \in BuilderState(k)
    BY <1>8 DEF BuilderState, V, A, P
  <1>10. StructAsked(k, s)
    <2>1. k = "context" => "shared" \in FieldsOf[k]
      BY DEF FieldsOf
    <2>2. ASSUME NEW g \in FieldsOf[k]
          PROVE  /\ s.asked[g] \in Args(g) \cup {"unset"}
                 /\ g # "arg" => (g \in s.mask <=> s.asked[g] # "unset")
                 /\ g # "name" => s.val[g] = IF s.asked[g] = "unset" THEN 0
                                            ELSE ToFfi(g, s.asked[g])
      <3>1. CASE g = "name"
        BY <1>2, <1>6, <1>8, <3>1
      <3>2. CASE g # "name"
        <4>1. s.asked[g] = r.asked[g] /\ s.val[g] = r.val[g] /\ (g \in s.mask <=> g \in r.mask)
          BY <1>6, <1>8, <3>2
        <4> QED BY <3>2, <4>1 DEF StructAsked
      <3> QED BY <3>1, <3>2
    <2> QED BY <1>6, <1>8, <2>1, <2>2 DEF StructAsked
  <1>11. NameAsked(k, m, s, Nil)
    BY <1>1, <1>6, <1>8 DEF NameAsked
  <1> QED BY <1>8, <1>9, <1>10, <1>11 DEF s

\* build(): the struct of the parameters points to the name,
LEMMA BuiltState ==
    ASSUME NEW k \in Kind, NEW r \in BuilderState(k), StructAsked(k, r),
           NEW m, NameAsked(k, m, r, Nil)
    PROVE  /\ Built(r) \in BuilderState(k)
           /\ Built(r).name = r.name
           /\ StructAsked(k, Built(r))
           /\ NameAsked(k, m, Built(r), Built(r).name)
  <1>1. CASE r.name = Nil
    BY <1>1 DEF Built, NameAsked
  <1>2. CASE r.name # Nil
    <2>1. k \in NamedKind /\ "name" \in FieldsOf[k]
      BY <1>2, FieldFacts DEF NameAsked
    <2> DEFINE s == Built(r)
               V == FfiThreadMode \cup FfiMemoryType \cup Cell \cup {Nil}
               A == {"unset"} \cup UNION {Args(g) : g \in FieldsOf[k]}
               P == SUBSET (FieldsOf[k] \ {"arg"})
    <2>2. r \in [mask : P, val : [FieldsOf[k] -> V],
                 name : Cell \cup {Nil}, shared : BOOLEAN, asked : [FieldsOf[k] -> A]]
      BY DEF BuilderState
    <2>3. r.name \in V
      BY <2>2
    <2> HIDE DEF V, A, P
    <2>a. PICK y : y = [r.val EXCEPT !["name"] = r.name]
      OBVIOUS
    <2>4. /\ y \in [FieldsOf[k] -> V]
          /\ \A g \in FieldsOf[k] : y[g] = IF g = "name" THEN r.name ELSE r.val[g]
      BY <2>1, <2>2, <2>3, <2>a
    <2>5. s = [r EXCEPT !.val = y]
      BY <1>2, <2>2, <2>a DEF Built
    <2> HIDE DEF s
    <2>6. /\ s \in [mask : P, val : [FieldsOf[k] -> V],
                    name : Cell \cup {Nil}, shared : BOOLEAN, asked : [FieldsOf[k] -> A]]
          /\ s.mask = r.mask /\ s.val = y /\ s.asked = r.asked
          /\ s.name = r.name /\ s.shared = r.shared
      BY <2>2, <2>4, <2>5
    <2>7. s \in BuilderState(k)
      BY <2>6 DEF BuilderState, V, A, P
    <2>8. StructAsked(k, s)
      <3>1. \A g \in FieldsOf[k] : g # "name" => s.val[g] = r.val[g]
        BY <2>4, <2>6
      <3> QED BY <2>6, <3>1 DEF StructAsked
    <2>9. NameAsked(k, m, s, s.name)
      BY <1>2, <2>1, <2>4, <2>6 DEF NameAsked
    <2> QED BY <2>6, <2>7, <2>8, <2>9 DEF s
  <1> QED BY <1>1, <1>2

\* and the builder has none any more.
LEMMA LeftoverState ==
    ASSUME NEW k \in Kind, NEW r \in BuilderState(k), StructAsked(k, r),
           NEW m, NameAsked(k, m, r, Nil)
    PROVE  /\ Leftover(r) \in BuilderState(k)
           /\ Leftover(r).name = Nil
           /\ StructAsked(k, Leftover(r))
           /\ NameAsked(k, m, Leftover(r), Nil)
  <1>1. CASE r.name = Nil
    BY <1>1 DEF Leftover
  <1>2. CASE r.name # Nil
    <2>1. k \in NamedKind /\ "name" \in FieldsOf[k]
      BY <1>2, FieldFacts DEF NameAsked
    <2> DEFINE s == Leftover(r)
               V == FfiThreadMode \cup FfiMemoryType \cup Cell \cup {Nil}
               A == {"unset"} \cup UNION {Args(g) : g \in FieldsOf[k]}
               P == SUBSET (FieldsOf[k] \ {"arg"})
    <2>2. r \in [mask : P, val : [FieldsOf[k] -> V],
                 name : Cell \cup {Nil}, shared : BOOLEAN, asked : [FieldsOf[k] -> A]]
      BY DEF BuilderState
    <2>3. "taken" \in A /\ "taken" \in Args("name")
      BY <2>1 DEF Args
    <2> HIDE DEF V, A, P
    <2>a. PICK z : z = [r.asked EXCEPT !["name"] = "taken"]
      OBVIOUS
    <2>4. /\ z \in [FieldsOf[k] -> A]
          /\ \A g \in FieldsOf[k] :
                z[g] = IF g = "name" THEN "taken" ELSE r.asked[g]
      BY <2>1, <2>2, <2>3, <2>a
    <2>5. s = [r EXCEPT !.name = Nil, !.asked = z]
      BY <1>2, <2>2, <2>a DEF Leftover
    <2> HIDE DEF s
    <2>6. /\ s \in [mask : P, val : [FieldsOf[k] -> V],
                    name : Cell \cup {Nil}, shared : BOOLEAN, asked : [FieldsOf[k] -> A]]
          /\ s.mask = r.mask /\ s.val = r.val /\ s.asked = z
          /\ s.name = Nil /\ s.shared = r.shared
      BY <2>2, <2>4, <2>5
    <2>7. s \in BuilderState(k)
      BY <2>6 DEF BuilderState, V, A, P
    <2>8. r.asked["name"] \in Text /\ r.asked["name"] # "unset"
      BY <1>2, <2>1, TextAssumption DEF NameAsked
    <2>9. StructAsked(k, s)
      <3>1. k = "context" => "shared" \in FieldsOf[k]
        BY DEF FieldsOf
      <3>2. ASSUME NEW g \in FieldsOf[k]
            PROVE  /\ s.asked[g] \in Args(g) \cup {"unset"}
                   /\ g # "arg" => (g \in s.mask <=> s.asked[g] # "unset")
                   /\ g # "name" => s.val[g] = IF s.asked[g] = "unset" THEN 0
                                              ELSE ToFfi(g, s.asked[g])
        <4>1. CASE g = "name"
          <5>1. g \in r.mask
            BY <2>8, <4>1 DEF StructAsked
          <5> QED BY <2>3, <2>4, <2>6, <4>1, <5>1
        <4>2. CASE g # "name"
          <5>1. s.asked[g] = r.asked[g] /\ s.val[g] = r.val[g] /\ (g \in s.mask <=> g \in r.mask)
            BY <2>4, <2>6, <4>2
          <5> QED BY <4>2, <5>1 DEF StructAsked
        <4> QED BY <4>1, <4>2
      <3> QED BY <2>4, <2>6, <3>1, <3>2 DEF StructAsked
    <2>10. NameAsked(k, m, s, Nil)
      BY <2>1, <2>4, <2>6 DEF NameAsked
    <2> QED BY <2>6, <2>7, <2>9, <2>10 DEF s
  <1> QED BY <1>1, <1>2

\* Another name's memory says nothing about this one.
LEMMA NameElsewhere ==
    ASSUME NEW k, NEW m, NEW n, NEW r, NEW pointer, NameAsked(k, m, r, pointer),
           r.name # Nil => n[r.name] = m[r.name]
    PROVE  NameAsked(k, n, r, pointer)
  BY DEF NameAsked

----------------------------------------------------------------------------
(* The builders' steps.                                                    *)

\* What the inductive invariant says of a builder.
LEMMA BuilderFacts ==
    ASSUME BuildersInv, NEW b \in Builder, bld[b] # Nil
    PROVE  /\ kind \in Kind
           /\ bld[b] \in BuilderState(kind)
           /\ StructAsked(kind, bld[b])
           /\ NameAsked(kind, mem, bld[b], Nil)
           /\ bld[b].name \in Cell \cup {Nil}
  BY DEF BuildersInv, TypeOK, Faithful, BuilderState

\* The same of built parameters.
LEMMA ParamFacts ==
    ASSUME BuildersInv, NEW p \in Param, par[p] # Nil
    PROVE  /\ kind \in Kind
           /\ par[p] \in BuilderState(kind)
           /\ StructAsked(kind, par[p])
           /\ NameAsked(kind, mem, par[p], par[p].name)
           /\ par[p].name \in Cell \cup {Nil}
  BY DEF BuildersInv, TypeOK, Faithful, BuilderState

LEMMA InitiallyInv == Init => BuildersInv
  <1> SUFFICES ASSUME Init PROVE BuildersInv
    OBVIOUS
  <1>1. /\ \A b \in Builder : bld[b] = Nil
        /\ \A p \in Param : par[p] = Nil
        /\ \A c \in Cell : mem[c] = "freed"
    BY DEF Init
  <1>2. TypeOK
    BY DEF Init, TypeOK
  <1>3. Faithful /\ NamesOwned
    BY <1>1 DEF Faithful, NamesOwned, HasName
  <1> QED BY <1>2, <1>3 DEF BuildersInv

\* A builder is given another struct, and keeps its name.
LEMMA Updated ==
    ASSUME BuildersInv, NEW b \in Builder, bld[b] # Nil,
           NEW r \in BuilderState(kind), r.name = bld[b].name,
           StructAsked(kind, r), NameAsked(kind, mem, r, Nil),
           bld' = [bld EXCEPT ![b] = r], UNCHANGED <<kind, par, mem>>
    PROVE  BuildersInv'
  <1>1. TypeOK
    BY DEF BuildersInv
  <1>2. /\ \A d \in Builder : bld'[d] = IF d = b THEN r ELSE bld[d]
        /\ \A d \in Builder : bld'[d] # Nil <=> bld[d] # Nil
        /\ \A d \in Builder : bld[d] # Nil => bld'[d].name = bld[d].name
    BY <1>1, NilAssumption DEF TypeOK
  <1>3. TypeOK'
    BY <1>1 DEF TypeOK
  <1>4. Faithful'
    <2>1. ASSUME NEW d \in Builder, bld'[d] # Nil
          PROVE  StructAsked(kind, bld'[d]) /\ NameAsked(kind, mem, bld'[d], Nil)
      BY <1>2, <2>1, BuilderFacts
    <2>2. ASSUME NEW p \in Param, par[p] # Nil
          PROVE  StructAsked(kind, par[p]) /\ NameAsked(kind, mem, par[p], par[p].name)
      BY <2>2, ParamFacts
    <2> QED BY <2>1, <2>2 DEF Faithful
  <1>5. NamesOwned'
    <2>1. \A d \in Builder : HasName(bld'[d]) <=> HasName(bld[d])
      BY <1>2 DEF HasName
    <2>2. \A d \in Builder : HasName(bld[d]) => bld'[d].name = bld[d].name
      BY <1>2 DEF HasName
    <2>3. NamesOwned
      BY DEF BuildersInv
    <2>4. \A d, e \in Builder :
             HasName(bld'[d]) /\ HasName(bld'[e]) /\ bld'[d].name = bld'[e].name => d = e
      BY <2>1, <2>2, <2>3 DEF NamesOwned
    <2>5. \A d \in Builder, p \in Param :
             HasName(bld'[d]) /\ HasName(par[p]) => bld'[d].name # par[p].name
      BY <2>1, <2>2, <2>3 DEF NamesOwned
    <2>6. \A c \in Cell : mem[c] # "freed" =>
             \/ \E d \in Builder : bld'[d] # Nil /\ bld'[d].name = c
             \/ \E p \in Param : par[p] # Nil /\ par[p].name = c
      BY <1>2, <2>3 DEF NamesOwned
    <2> QED BY <2>3, <2>4, <2>5, <2>6 DEF NamesOwned
  <1> QED BY <1>3, <1>4, <1>5 DEF BuildersInv

\* Every setter that goes through Setter.
LEMMA SetterStep ==
    ASSUME BuildersInv, NEW k \in Kind, NEW b \in Builder,
           NEW f \in FieldsOf[k] \ {"name"}, NEW v \in Args(f),
           k = "context" => f # "shared", Setter(k, b, f, v)
    PROVE  BuildersInv'
  <1> DEFINE r == Stored(bld[b], f, v)
  <1>1. /\ kind = k /\ bld[b] # Nil
        /\ bld' = [bld EXCEPT ![b] = r] /\ UNCHANGED <<kind, par, mem>>
    BY DEF Setter
  <1>2. /\ bld[b] \in BuilderState(k) /\ StructAsked(k, bld[b])
        /\ NameAsked(k, mem, bld[b], Nil)
    BY <1>1, BuilderFacts
  <1>3. r \in BuilderState(k) /\ r.name = bld[b].name
    BY <1>2, StoredState
  <1>4. StructAsked(k, r)
    BY <1>2, StoredAsked
  <1>5. NameAsked(k, mem, r, Nil)
    BY <1>2, StoredName
  <1> HIDE DEF r
  <1> QED BY <1>1, <1>3, <1>4, <1>5, Updated

LEMMA AddressSliceStep ==
    ASSUME BuildersInv, NEW b \in Builder, NEW v \in Value, AddressSlice(b, v)
    PROVE  BuildersInv'
  <1> DEFINE q == Stored(bld[b], "address", v)
             r == Stored(q, "length", v)
  <1>1. /\ kind = "map" /\ bld[b] # Nil
        /\ bld' = [bld EXCEPT ![b] = r] /\ UNCHANGED <<kind, par, mem>>
    BY DEF AddressSlice
  <1>2. /\ "map" \in Kind
        /\ "address" \in FieldsOf["map"] \ {"name"} /\ "length" \in FieldsOf["map"] \ {"name"}
        /\ v \in Args("address") /\ v \in Args("length")
    BY DEF Kind, FieldsOf, Args
  <1>3. /\ bld[b] \in BuilderState("map") /\ StructAsked("map", bld[b])
        /\ NameAsked("map", mem, bld[b], Nil)
    BY <1>1, BuilderFacts
  <1>4. /\ q \in BuilderState("map") /\ q.name = bld[b].name
        /\ StructAsked("map", q) /\ NameAsked("map", mem, q, Nil)
    <2>1. q \in BuilderState("map") /\ q.name = bld[b].name
      BY <1>2, <1>3, StoredState
    <2>2. StructAsked("map", q)
      BY <1>2, <1>3, StoredAsked
    <2>3. NameAsked("map", mem, q, Nil)
      BY <1>2, <1>3, StoredName
    <2> QED BY <2>1, <2>2, <2>3
  <1> HIDE DEF q
  <1>5. /\ r \in BuilderState("map") /\ r.name = q.name
        /\ StructAsked("map", r) /\ NameAsked("map", mem, r, Nil)
    <2>1. r \in BuilderState("map") /\ r.name = q.name
      BY <1>2, <1>4, StoredState
    <2>2. StructAsked("map", r)
      BY <1>2, <1>4, StoredAsked
    <2>3. NameAsked("map", mem, r, Nil)
      BY <1>2, <1>4, StoredName
    <2> QED BY <2>1, <2>2, <2>3
  <1> HIDE DEF r
  <1> QED BY <1>1, <1>4, <1>5, Updated

LEMMA MtWorkersSharedStep ==
    ASSUME BuildersInv, NEW b \in Builder, NEW v \in Value, MtWorkersShared(b, v)
    PROVE  BuildersInv'
  <1> DEFINE K == "context"
  <1>1. PICK t : t = Stored(bld[b], "shared", v)
    OBVIOUS
  <1>2. PICK r : r = [t EXCEPT !.shared = (v # "zero")]
    OBVIOUS
  <1>3. /\ kind = K /\ bld[b] # Nil
        /\ bld' = [bld EXCEPT ![b] = r] /\ UNCHANGED <<kind, par, mem>>
    BY <1>1, <1>2 DEF MtWorkersShared
  <1>4. /\ bld[b] \in BuilderState(K) /\ StructAsked(K, bld[b])
        /\ NameAsked(K, mem, bld[b], Nil)
    BY <1>3, BuilderFacts
  <1>5. t \in BuilderState(K)
    <2>1. K \in Kind /\ "shared" \in FieldsOf[K] \ {"name"} /\ v \in Args("shared")
      BY DEF Kind, FieldsOf, Args
    <2> QED BY <1>1, <1>4, <2>1, StoredState
  <1>6. /\ r \in BuilderState(K) /\ r.name = t.name /\ r.mask = t.mask
        /\ r.val = t.val /\ r.asked = t.asked
        /\ r.shared <=> v # "zero"
    <2> DEFINE V == FfiThreadMode \cup FfiMemoryType \cup Cell \cup {Nil}
               A == {"unset"} \cup UNION {Args(g) : g \in FieldsOf[K]}
               P == SUBSET (FieldsOf[K] \ {"arg"})
    <2>1. t \in [mask : P, val : [FieldsOf[K] -> V],
                 name : Cell \cup {Nil}, shared : BOOLEAN, asked : [FieldsOf[K] -> A]]
      BY <1>5 DEF BuilderState
    <2> HIDE DEF V, A, P
    <2>2. r \in [mask : P, val : [FieldsOf[K] -> V],
                 name : Cell \cup {Nil}, shared : BOOLEAN, asked : [FieldsOf[K] -> A]]
      BY <1>2, <2>1
    <2>3. r \in BuilderState(K)
      BY <2>2 DEF V, A, P, BuilderState
    <2> QED BY <1>2, <2>1, <2>3
  <1>7. /\ r.name = bld[b].name
        /\ StructAsked(K, r) /\ NameAsked(K, mem, r, Nil)
    BY <1>1, <1>4, <1>6, SharedStored
  <1>8. /\ r \in BuilderState(kind)
        /\ StructAsked(kind, r) /\ NameAsked(kind, mem, r, Nil)
    BY <1>3, <1>6, <1>7
  <1> QED BY <1>3, <1>7, <1>8, Updated

\* A builder without a name appears.
LEMMA Added ==
    ASSUME BuildersInv, NEW b \in Builder, bld[b] = Nil,
           NEW r \in BuilderState(kind), r.name = Nil,
           StructAsked(kind, r), NameAsked(kind, mem, r, Nil),
           bld' = [bld EXCEPT ![b] = r], UNCHANGED <<kind, par, mem>>
    PROVE  BuildersInv'
  <1>1. TypeOK
    BY DEF BuildersInv
  <1>2. /\ \A d \in Builder : bld'[d] = IF d = b THEN r ELSE bld[d]
        /\ \A d \in Builder : d # b => bld'[d] = bld[d]
        /\ bld'[b] = r
    BY <1>1 DEF TypeOK
  <1>3. TypeOK'
    BY <1>1 DEF TypeOK
  <1>4. Faithful'
    <2>1. ASSUME NEW d \in Builder, bld'[d] # Nil
          PROVE  StructAsked(kind, bld'[d]) /\ NameAsked(kind, mem, bld'[d], Nil)
      BY <1>2, <2>1, BuilderFacts
    <2>2. ASSUME NEW p \in Param, par[p] # Nil
          PROVE  StructAsked(kind, par[p]) /\ NameAsked(kind, mem, par[p], par[p].name)
      BY <2>2, ParamFacts
    <2> QED BY <2>1, <2>2 DEF Faithful
  <1>5. NamesOwned'
    <2>1. \A d \in Builder : HasName(bld'[d]) <=> HasName(bld[d])
      BY <1>2 DEF HasName
    <2>2. \A d \in Builder : HasName(bld[d]) => bld'[d].name = bld[d].name
      BY <1>2 DEF HasName
    <2>3. NamesOwned
      BY DEF BuildersInv
    <2>4. \A d, e \in Builder :
             HasName(bld'[d]) /\ HasName(bld'[e]) /\ bld'[d].name = bld'[e].name => d = e
      BY <2>1, <2>2, <2>3 DEF NamesOwned
    <2>5. \A d \in Builder, p \in Param :
             HasName(bld'[d]) /\ HasName(par[p]) => bld'[d].name # par[p].name
      BY <2>1, <2>2, <2>3 DEF NamesOwned
    <2>6. \A c \in Cell : mem[c] # "freed" =>
             \/ \E d \in Builder : bld'[d] # Nil /\ bld'[d].name = c
             \/ \E p \in Param : par[p] # Nil /\ par[p].name = c
      BY <1>2, <2>3 DEF NamesOwned
    <2> QED BY <2>3, <2>4, <2>5, <2>6 DEF NamesOwned
  <1> QED BY <1>3, <1>4, <1>5 DEF BuildersInv

LEMMA NewStep ==
    ASSUME BuildersInv, NEW b \in Builder, New(b)
    PROVE  BuildersInv'
  <1> DEFINE V == FfiThreadMode \cup FfiMemoryType \cup Cell \cup {Nil}
             A == {"unset"} \cup UNION {Args(g) : g \in FieldsOf[kind]}
             P == SUBSET (FieldsOf[kind] \ {"arg"})
  <1>1. PICK y, z : /\ y = [f \in FieldsOf[kind] |-> IF f = "name" THEN Nil ELSE 0]
                    /\ z = [f \in FieldsOf[kind] |-> "unset"]
    OBVIOUS
  <1>2. 0 \in V /\ Nil \in V /\ "unset" \in A /\ {} \in P
    BY DEF FfiThreadMode
  <1> HIDE DEF V, A, P
  <1>3. y \in [FieldsOf[kind] -> V] /\ z \in [FieldsOf[kind] -> A]
    BY <1>1, <1>2
  <1>4. PICK r : r = [mask |-> {}, val |-> y, name |-> Nil, shared |-> FALSE, asked |-> z]
    OBVIOUS
  <1>5. Zeroed = r
    BY <1>1, <1>4 DEF Zeroed
  <1>6. r \in [mask : P, val : [FieldsOf[kind] -> V],
               name : Cell \cup {Nil}, shared : BOOLEAN, asked : [FieldsOf[kind] -> A]]
    BY <1>2, <1>3, <1>4
  <1>7. r \in BuilderState(kind)
    BY <1>6 DEF BuilderState, V, A, P
  <1>8. kind \in Kind
    BY DEF BuildersInv, TypeOK
  <1>9. StructAsked(kind, r)
    <2>1. kind = "context" => "shared" \in FieldsOf[kind]
      BY DEF FieldsOf
    <2> QED BY <1>1, <1>4, <2>1 DEF StructAsked
  <1>10. NameAsked(kind, mem, r, Nil)
    BY <1>1, <1>4, <1>8, FieldFacts DEF NameAsked
  <1> QED BY <1>4, <1>5, <1>7, <1>9, <1>10, Added DEF New

LEMMA CopyStep ==
    ASSUME BuildersInv, NEW b \in Builder, NEW c \in Builder, CopyBuilder(b, c)
    PROVE  BuildersInv'
  <1>1. /\ kind \in {"request", "am"} /\ bld[b] # Nil /\ bld[c] = Nil
        /\ bld' = [bld EXCEPT ![c] = bld[b]] /\ UNCHANGED <<kind, par, mem>>
    BY DEF CopyBuilder
  <1>2. /\ bld[b] \in BuilderState(kind) /\ StructAsked(kind, bld[b])
        /\ NameAsked(kind, mem, bld[b], Nil)
    BY <1>1, BuilderFacts
  <1>3. bld[b].name = Nil
    BY <1>1, <1>2 DEF NameAsked, NamedKind
  <1> QED BY <1>1, <1>2, <1>3, Added

\* name(): the old CString is dropped, the new one has this owner only.
LEMMA NameStep ==
    ASSUME BuildersInv, NEW b \in Builder, NEW t \in Text \cup {NulText}, Name(b, t)
    PROVE  BuildersInv'
  <1>1. CASE t = NulText
    <2>1. UNCHANGED <<kind, bld, par, mem>>
      BY <1>1 DEF Name
    <2> QED BY <2>1 DEF BuildersInv, TypeOK, Faithful, NamesOwned
  <1>2. CASE t # NulText
    <2>1. PICK c \in Cell :
             /\ mem[c] = "freed"
             /\ bld' = [bld EXCEPT ![b] = Renamed(bld[b], c, t)]
             /\ mem' = [MemWithout(bld[b].name) EXCEPT ![c] = t]
      BY <1>2 DEF Name
    <2>2. /\ t \in Text /\ t # "freed" /\ kind \in NamedKind /\ bld[b] # Nil
          /\ UNCHANGED <<kind, par>>
      BY <1>2, TextAssumption DEF Name, Named
    <2>3. /\ bld[b] \in BuilderState(kind) /\ StructAsked(kind, bld[b])
          /\ bld[b].val["name"] = Nil /\ bld[b].name \in Cell \cup {Nil}
      BY <2>2, BuilderFacts DEF NameAsked
    <2>4. TypeOK /\ NamesOwned
      BY DEF BuildersInv
    <2>5. /\ mem' \in [Cell -> Text \cup {"freed"}]
          /\ \A x \in Cell : mem'[x] = IF x = c THEN t
                                       ELSE IF x = bld[b].name THEN "freed" ELSE mem[x]
      <3>1. CASE bld[b].name = Nil
        <4>1. mem' = [mem EXCEPT ![c] = t] /\ \A x \in Cell : x # bld[b].name
          BY <2>1, <3>1, NilAssumption DEF MemWithout
        <4> QED BY <2>2, <2>4, <4>1 DEF TypeOK
      <3>2. CASE bld[b].name # Nil
        <4>1. mem' = [[mem EXCEPT ![bld[b].name] = "freed"] EXCEPT ![c] = t]
          BY <2>1, <3>2 DEF MemWithout
        <4> QED BY <2>2, <2>3, <2>4, <3>2, <4>1 DEF TypeOK
      <3> QED BY <3>1, <3>2
    <2>6. PICK r : r = Renamed(bld[b], c, t)
      OBVIOUS
    <2>7. /\ r \in BuilderState(kind) /\ r.name = c /\ StructAsked(kind, r)
          /\ NameAsked(kind, mem', r, Nil)
      <3>1. mem'[c] = t
        BY <2>5
      <3> QED BY <2>2, <2>3, <2>6, <3>1, RenamedState
    <2>8. r # Nil /\ HasName(r)
      <3>1. r # Nil
        BY <2>2, <2>7, NilAssumption DEF NamedKind, Kind, FieldsOf
      <3> QED BY <2>7, <3>1, NilAssumption DEF HasName
    <2>9. /\ \A d \in Builder : d # b => bld'[d] = bld[d]
          /\ bld'[b] = r
      BY <2>1, <2>4, <2>6 DEF TypeOK
    \* The new address was nobody's, so the others keep their names.
    <2>10. ASSUME NEW d \in Builder, HasName(bld[d])
           PROVE  bld[d].name \in Cell /\ bld[d].name # c /\ mem[bld[d].name] \in Text
      <3>1. bld[d] # Nil /\ bld[d].name \in Cell
        BY <2>10, BuilderFacts DEF HasName
      <3>2. mem[bld[d].name] \in Text
        BY <2>2, <2>10, <3>1, BuilderFacts DEF NameAsked, HasName
      <3> QED BY <2>1, <3>1, <3>2, TextAssumption
    <2>11. ASSUME NEW p \in Param, HasName(par[p])
           PROVE  par[p].name \in Cell /\ par[p].name # c /\ mem[par[p].name] \in Text
      <3>1. par[p] # Nil /\ par[p].name \in Cell
        BY <2>11, ParamFacts DEF HasName
      <3>2. mem[par[p].name] \in Text
        BY <2>2, <2>11, <3>1, ParamFacts DEF NameAsked, HasName
      <3> QED BY <2>1, <3>1, <3>2, TextAssumption
    <2>12. TypeOK'
      <3>1. bld' \in [Builder -> BuilderState(kind) \cup {Nil}]
        BY <2>1, <2>4, <2>6, <2>7 DEF TypeOK
      <3> QED BY <2>2, <2>4, <2>5, <3>1 DEF TypeOK
    <2>13. Faithful'
      <3>1. ASSUME NEW d \in Builder, bld'[d] # Nil
            PROVE  StructAsked(kind, bld'[d]) /\ NameAsked(kind, mem', bld'[d], Nil)
        <4>1. CASE d = b
          BY <2>7, <2>9, <4>1
        <4>2. CASE d # b
          <5>1. bld'[d] = bld[d] /\ bld[d] # Nil
            BY <2>9, <3>1, <4>2
          <5>2. StructAsked(kind, bld[d]) /\ NameAsked(kind, mem, bld[d], Nil)
            BY <5>1, BuilderFacts
          <5>3. bld[d].name # Nil => mem'[bld[d].name] = mem[bld[d].name]
            <6>1. SUFFICES ASSUME bld[d].name # Nil
                           PROVE  mem'[bld[d].name] = mem[bld[d].name]
              OBVIOUS
            <6>2. HasName(bld[d]) /\ bld[d].name \in Cell /\ bld[d].name # c
              BY <2>10, <5>1, <6>1 DEF HasName
            <6>3. bld[d].name # bld[b].name
              BY <2>2, <2>4, <4>2, <6>1, <6>2 DEF NamesOwned, HasName
            <6> QED BY <2>5, <6>2, <6>3
          <5> QED BY <5>1, <5>2, <5>3, NameElsewhere
        <4> QED BY <4>1, <4>2
      <3>2. ASSUME NEW p \in Param, par[p] # Nil
            PROVE  StructAsked(kind, par[p]) /\ NameAsked(kind, mem', par[p], par[p].name)
        <4>1. StructAsked(kind, par[p]) /\ NameAsked(kind, mem, par[p], par[p].name)
          BY <3>2, ParamFacts
        <4>2. par[p].name # Nil => mem'[par[p].name] = mem[par[p].name]
          <5>1. SUFFICES ASSUME par[p].name # Nil
                         PROVE  mem'[par[p].name] = mem[par[p].name]
            OBVIOUS
          <5>2. HasName(par[p]) /\ par[p].name \in Cell /\ par[p].name # c
            BY <2>11, <3>2, <5>1 DEF HasName
          <5>3. par[p].name # bld[b].name
            BY <2>2, <2>4, <5>1, <5>2 DEF NamesOwned, HasName
          <5> QED BY <2>5, <5>2, <5>3
        <4> QED BY <4>1, <4>2, NameElsewhere
      <3> QED BY <2>2, <3>1, <3>2 DEF Faithful
    <2>14. NamesOwned'
      <3>1. \A d, e \in Builder :
               HasName(bld'[d]) /\ HasName(bld'[e]) /\ bld'[d].name = bld'[e].name => d = e
        BY <2>4, <2>7, <2>9, <2>10 DEF NamesOwned
      <3>2. \A d \in Builder, p \in Param :
               HasName(bld'[d]) /\ HasName(par[p]) => bld'[d].name # par[p].name
        BY <2>4, <2>7, <2>9, <2>11 DEF NamesOwned
      <3>3. ASSUME NEW x \in Cell, mem'[x] # "freed"
            PROVE  \/ \E d \in Builder : bld'[d] # Nil /\ bld'[d].name = x
                   \/ \E p \in Param : par[p] # Nil /\ par[p].name = x
        <4>1. CASE x = c
          BY <2>7, <2>8, <2>9, <4>1
        <4>2. CASE x # c
          <5>1. x # bld[b].name /\ mem[x] # "freed"
            BY <2>5, <3>3, <4>2
          <5>2. CASE \E p \in Param : par[p] # Nil /\ par[p].name = x
            BY <5>2
          <5>3. CASE \E d \in Builder : bld[d] # Nil /\ bld[d].name = x
            BY <2>9, <5>1, <5>3
          <5> QED BY <2>4, <5>1, <5>2, <5>3 DEF NamesOwned
        <4> QED BY <4>1, <4>2
      <3> QED BY <2>2, <2>4, <3>1, <3>2, <3>3 DEF NamesOwned
    <2> QED BY <2>12, <2>13, <2>14 DEF BuildersInv
  <1> QED BY <1>1, <1>2

\* build(): the name moves to the parameters, with a pointer to it.
LEMMA BuildStep ==
    ASSUME BuildersInv, NEW b \in Builder, NEW p \in Param, Build(b, p)
    PROVE  BuildersInv'
  <1>1. PICK r, l : r = Built(bld[b]) /\ l = IF kind = "listener" THEN Nil ELSE Leftover(bld[b])
    OBVIOUS
  <1>2. /\ bld[b] # Nil /\ par[p] = Nil
        /\ par' = [par EXCEPT ![p] = r] /\ bld' = [bld EXCEPT ![b] = l]
        /\ UNCHANGED <<kind, mem>>
    BY <1>1 DEF Build
  <1>3. /\ bld[b] \in BuilderState(kind) /\ StructAsked(kind, bld[b])
        /\ NameAsked(kind, mem, bld[b], Nil) /\ kind \in Kind
        /\ bld[b].name \in Cell \cup {Nil}
    BY <1>2, BuilderFacts
  <1>4. TypeOK /\ NamesOwned
    BY DEF BuildersInv
  <1>5. /\ r \in BuilderState(kind) /\ r.name = bld[b].name /\ StructAsked(kind, r)
        /\ NameAsked(kind, mem, r, r.name)
    BY <1>1, <1>3, BuiltState
  <1>6. /\ l \in BuilderState(kind) \cup {Nil}
        /\ l # Nil => /\ l.name = Nil /\ StructAsked(kind, l)
                      /\ NameAsked(kind, mem, l, Nil)
    <2>1. CASE kind = "listener"
      BY <1>1, <2>1
    <2>2. CASE kind # "listener"
      <3>1. l = Leftover(bld[b])
        BY <1>1, <2>2
      <3> QED BY <1>3, <3>1, LeftoverState
    <2> QED BY <2>1, <2>2
  <1>7. r # Nil
    BY <1>3, <1>5, NilAssumption
  <1>8. /\ \A d \in Builder : d # b => bld'[d] = bld[d]
        /\ bld'[b] = l
        /\ \A q \in Param : q # p => par'[q] = par[q]
        /\ par'[p] = r
    BY <1>2, <1>4 DEF TypeOK
  <1>9. TypeOK'
    BY <1>2, <1>4, <1>5, <1>6 DEF TypeOK
  <1>10. Faithful'
    <2>1. ASSUME NEW d \in Builder, bld'[d] # Nil
          PROVE  StructAsked(kind, bld'[d]) /\ NameAsked(kind, mem, bld'[d], Nil)
      <3>1. CASE d = b
        BY <1>6, <1>8, <2>1, <3>1
      <3>2. CASE d # b
        BY <1>8, <2>1, <3>2, BuilderFacts
      <3> QED BY <3>1, <3>2
    <2>2. ASSUME NEW q \in Param, par'[q] # Nil
          PROVE  StructAsked(kind, par'[q]) /\ NameAsked(kind, mem, par'[q], par'[q].name)
      <3>1. CASE q = p
        BY <1>5, <1>8, <3>1
      <3>2. CASE q # p
        BY <1>8, <2>2, <3>2, ParamFacts
      <3> QED BY <3>1, <3>2
    <2> QED BY <1>2, <2>1, <2>2 DEF Faithful
  <1>11. NamesOwned'
    <2>1. ~HasName(bld'[b])
      BY <1>6, <1>8 DEF HasName
    <2>2. HasName(par'[p]) <=> HasName(bld[b])
      BY <1>2, <1>5, <1>7, <1>8 DEF HasName
    <2>3. \A d \in Builder : HasName(bld'[d]) => d # b /\ HasName(bld[d])
      BY <1>8, <2>1
    <2>4. \A d, e \in Builder :
             HasName(bld'[d]) /\ HasName(bld'[e]) /\ bld'[d].name = bld'[e].name => d = e
      BY <1>4, <1>8, <2>3 DEF NamesOwned
    <2>5. \A x, y \in Param :
             HasName(par'[x]) /\ HasName(par'[y]) /\ par'[x].name = par'[y].name => x = y
      <3>1. SUFFICES ASSUME NEW x \in Param, NEW y \in Param, x # y,
                            HasName(par'[x]), HasName(par'[y]), par'[x].name = par'[y].name
                     PROVE  FALSE
        OBVIOUS
      <3>2. CASE x = p
        <4>1. par'[y] = par[y] /\ HasName(bld[b]) /\ bld[b].name = par[y].name
          BY <1>5, <1>8, <2>2, <3>1, <3>2
        <4> QED BY <1>4, <3>1, <4>1 DEF NamesOwned
      <3>3. CASE y = p
        <4>1. par'[x] = par[x] /\ HasName(bld[b]) /\ bld[b].name = par[x].name
          BY <1>5, <1>8, <2>2, <3>1, <3>3
        <4> QED BY <1>4, <3>1, <4>1 DEF NamesOwned
      <3>4. CASE x # p /\ y # p
        BY <1>4, <1>8, <3>1, <3>4 DEF NamesOwned
      <3> QED BY <3>2, <3>3, <3>4
    <2>6. \A d \in Builder, q \in Param :
             HasName(bld'[d]) /\ HasName(par'[q]) => bld'[d].name # par'[q].name
      <3>1. SUFFICES ASSUME NEW d \in Builder, NEW q \in Param,
                            HasName(bld'[d]), HasName(par'[q]), bld'[d].name = par'[q].name
                     PROVE  FALSE
        OBVIOUS
      <3>2. d # b /\ HasName(bld[d]) /\ bld'[d] = bld[d]
        BY <1>8, <2>3, <3>1
      <3>3. CASE q = p
        BY <1>4, <1>5, <1>8, <2>2, <3>1, <3>2, <3>3 DEF NamesOwned
      <3>4. CASE q # p
        BY <1>4, <1>8, <3>1, <3>2, <3>4 DEF NamesOwned
      <3> QED BY <3>3, <3>4
    <2>7. ASSUME NEW x \in Cell, mem[x] # "freed"
          PROVE  \/ \E d \in Builder : bld'[d] # Nil /\ bld'[d].name = x
                 \/ \E q \in Param : par'[q] # Nil /\ par'[q].name = x
      <3>1. CASE bld[b].name = x
        BY <1>5, <1>7, <1>8, <3>1
      <3>2. CASE bld[b].name # x
        <4>1. CASE \E d \in Builder : bld[d] # Nil /\ bld[d].name = x
          BY <1>8, <3>2, <4>1
        <4>2. CASE \E q \in Param : par[q] # Nil /\ par[q].name = x
          BY <1>2, <1>8, <4>2
        <4> QED BY <1>4, <2>7, <4>1, <4>2 DEF NamesOwned
      <3> QED BY <3>1, <3>2
    <2> QED BY <1>2, <2>4, <2>5, <2>6, <2>7 DEF NamesOwned
  <1> QED BY <1>9, <1>10, <1>11 DEF BuildersInv

LEMMA Without ==
    ASSUME TypeOK, NEW n \in Cell \cup {Nil}
    PROVE  /\ MemWithout(n) \in [Cell -> Text \cup {"freed"}]
           /\ \A x \in Cell : MemWithout(n)[x] = IF x = n THEN "freed" ELSE mem[x]
  <1>1. CASE n = Nil
    BY <1>1, NilAssumption DEF MemWithout, TypeOK
  <1>2. CASE n # Nil
    <2>1. MemWithout(n) = [mem EXCEPT ![n] = "freed"]
      BY <1>2 DEF MemWithout
    <2> QED BY <1>2, <2>1 DEF TypeOK
  <1> QED BY <1>1, <1>2

\* Dropping a builder frees its name, which nobody else has.
LEMMA DropBuilderStep ==
    ASSUME BuildersInv, NEW b \in Builder, DropBuilder(b)
    PROVE  BuildersInv'
  <1>1. /\ bld[b] # Nil /\ mem' = MemWithout(bld[b].name)
        /\ bld' = [bld EXCEPT ![b] = Nil] /\ UNCHANGED <<kind, par>>
    BY DEF DropBuilder
  <1>2. TypeOK /\ NamesOwned /\ bld[b].name \in Cell \cup {Nil}
    BY <1>1, BuilderFacts DEF BuildersInv
  <1>3. /\ mem' \in [Cell -> Text \cup {"freed"}]
        /\ \A x \in Cell : mem'[x] = IF x = bld[b].name THEN "freed" ELSE mem[x]
    BY <1>1, <1>2, Without
  <1>4. /\ \A d \in Builder : d # b => bld'[d] = bld[d]
        /\ bld'[b] = Nil
    BY <1>1, <1>2 DEF TypeOK
  <1>5. TypeOK'
    BY <1>1, <1>2, <1>3 DEF TypeOK
  <1>6. Faithful'
    <2>1. ASSUME NEW d \in Builder, bld'[d] # Nil
          PROVE  StructAsked(kind, bld'[d]) /\ NameAsked(kind, mem', bld'[d], Nil)
      <3>1. bld'[d] = bld[d] /\ bld[d] # Nil /\ d # b
        BY <1>4, <2>1
      <3>2. /\ StructAsked(kind, bld[d]) /\ NameAsked(kind, mem, bld[d], Nil)
            /\ bld[d].name \in Cell \cup {Nil}
        BY <3>1, BuilderFacts
      <3>3. bld[d].name # Nil => mem'[bld[d].name] = mem[bld[d].name]
        BY <1>1, <1>2, <1>3, <3>1, <3>2 DEF NamesOwned, HasName
      <3> QED BY <3>1, <3>2, <3>3, NameElsewhere
    <2>2. ASSUME NEW p \in Param, par[p] # Nil
          PROVE  StructAsked(kind, par[p]) /\ NameAsked(kind, mem', par[p], par[p].name)
      <3>1. /\ StructAsked(kind, par[p]) /\ NameAsked(kind, mem, par[p], par[p].name)
            /\ par[p].name \in Cell \cup {Nil}
        BY <2>2, ParamFacts
      <3>2. par[p].name # Nil => mem'[par[p].name] = mem[par[p].name]
        BY <1>1, <1>2, <1>3, <2>2, <3>1 DEF NamesOwned, HasName
      <3> QED BY <3>1, <3>2, NameElsewhere
    <2> QED BY <1>1, <2>1, <2>2 DEF Faithful
  <1>7. NamesOwned'
    <2>1. \A d \in Builder : HasName(bld'[d]) => d # b /\ HasName(bld[d]) /\ bld'[d] = bld[d]
      BY <1>4 DEF HasName
    <2>2. \A d, e \in Builder :
             HasName(bld'[d]) /\ HasName(bld'[e]) /\ bld'[d].name = bld'[e].name => d = e
      BY <1>2, <2>1 DEF NamesOwned
    <2>3. \A d \in Builder, q \in Param :
             HasName(bld'[d]) /\ HasName(par[q]) => bld'[d].name # par[q].name
      BY <1>2, <2>1 DEF NamesOwned
    <2>4. ASSUME NEW x \in Cell, mem'[x] # "freed"
          PROVE  \/ \E d \in Builder : bld'[d] # Nil /\ bld'[d].name = x
                 \/ \E q \in Param : par[q] # Nil /\ par[q].name = x
      <3>1. mem[x] # "freed" /\ bld[b].name # x
        BY <1>3, <2>4
      <3>2. CASE \E d \in Builder : bld[d] # Nil /\ bld[d].name = x
        BY <1>4, <3>1, <3>2
      <3>3. CASE \E q \in Param : par[q] # Nil /\ par[q].name = x
        BY <3>3
      <3> QED BY <1>2, <3>1, <3>2, <3>3 DEF NamesOwned
    <2> QED BY <1>1, <1>2, <2>2, <2>3, <2>4 DEF NamesOwned
  <1> QED BY <1>5, <1>6, <1>7 DEF BuildersInv

LEMMA DropParamsStep ==
    ASSUME BuildersInv, NEW p \in Param, DropParams(p)
    PROVE  BuildersInv'
  <1>1. /\ par[p] # Nil /\ mem' = MemWithout(par[p].name)
        /\ par' = [par EXCEPT ![p] = Nil] /\ UNCHANGED <<kind, bld>>
    BY DEF DropParams
  <1>2. TypeOK /\ NamesOwned /\ par[p].name \in Cell \cup {Nil}
    BY <1>1, ParamFacts DEF BuildersInv
  <1>3. /\ mem' \in [Cell -> Text \cup {"freed"}]
        /\ \A x \in Cell : mem'[x] = IF x = par[p].name THEN "freed" ELSE mem[x]
    BY <1>1, <1>2, Without
  <1>4. /\ \A q \in Param : q # p => par'[q] = par[q]
        /\ par'[p] = Nil
    BY <1>1, <1>2 DEF TypeOK
  <1>5. TypeOK'
    BY <1>1, <1>2, <1>3 DEF TypeOK
  <1>6. Faithful'
    <2>1. ASSUME NEW q \in Param, par'[q] # Nil
          PROVE  StructAsked(kind, par'[q]) /\ NameAsked(kind, mem', par'[q], par'[q].name)
      <3>1. par'[q] = par[q] /\ par[q] # Nil /\ q # p
        BY <1>4, <2>1
      <3>2. /\ StructAsked(kind, par[q]) /\ NameAsked(kind, mem, par[q], par[q].name)
            /\ par[q].name \in Cell \cup {Nil}
        BY <3>1, ParamFacts
      <3>3. par[q].name # Nil => mem'[par[q].name] = mem[par[q].name]
        BY <1>1, <1>2, <1>3, <3>1, <3>2 DEF NamesOwned, HasName
      <3> QED BY <3>1, <3>2, <3>3, NameElsewhere
    <2>2. ASSUME NEW b \in Builder, bld[b] # Nil
          PROVE  StructAsked(kind, bld[b]) /\ NameAsked(kind, mem', bld[b], Nil)
      <3>1. /\ StructAsked(kind, bld[b]) /\ NameAsked(kind, mem, bld[b], Nil)
            /\ bld[b].name \in Cell \cup {Nil}
        BY <2>2, BuilderFacts
      <3>2. bld[b].name # Nil => mem'[bld[b].name] = mem[bld[b].name]
        BY <1>1, <1>2, <1>3, <2>2, <3>1 DEF NamesOwned, HasName
      <3> QED BY <3>1, <3>2, NameElsewhere
    <2> QED BY <1>1, <2>1, <2>2 DEF Faithful
  <1>7. NamesOwned'
    <2>1. \A q \in Param : HasName(par'[q]) => q # p /\ HasName(par[q]) /\ par'[q] = par[q]
      BY <1>4 DEF HasName
    <2>2. \A x, y \in Param :
             HasName(par'[x]) /\ HasName(par'[y]) /\ par'[x].name = par'[y].name => x = y
      BY <1>2, <2>1 DEF NamesOwned
    <2>3. \A d \in Builder, q \in Param :
             HasName(bld[d]) /\ HasName(par'[q]) => bld[d].name # par'[q].name
      BY <1>2, <2>1 DEF NamesOwned
    <2>4. ASSUME NEW x \in Cell, mem'[x] # "freed"
          PROVE  \/ \E d \in Builder : bld[d] # Nil /\ bld[d].name = x
                 \/ \E q \in Param : par'[q] # Nil /\ par'[q].name = x
      <3>1. mem[x] # "freed" /\ par[p].name # x
        BY <1>3, <2>4
      <3>2. CASE \E d \in Builder : bld[d] # Nil /\ bld[d].name = x
        BY <3>2
      <3>3. CASE \E q \in Param : par[q] # Nil /\ par[q].name = x
        BY <1>4, <3>1, <3>3
      <3> QED BY <1>2, <3>1, <3>2, <3>3 DEF NamesOwned
    <2> QED BY <1>1, <1>2, <2>2, <2>3, <2>4 DEF NamesOwned
  <1> QED BY <1>5, <1>6, <1>7 DEF BuildersInv

\* Every setter, and name().
LEMMA SetStep ==
    ASSUME BuildersInv, Set
    PROVE  BuildersInv'
  <1>1. PICK b \in Builder :
        \/ RequestSize(b) \/ ForceImmCmpl(b) \/ NoImmCmpl(b)
        \/ EpSet(b) \/ EpErrHandler(b)
        \/ \E m \in ThreadMode : WorkerSet(b, m)
        \/ \E t \in MemoryType : RequestSet(b, t)
        \/ \E v \in Value :
              \/ Features(b, v) \/ MtWorkersShared(b, v)
              \/ EpErrHandlerArg(b, v) \/ AddressSlice(b, v)
              \/ \E f \in FieldsOf["modify"] : ModifySet(b, f, v)
              \/ \E f \in FieldsOf["map"] : MemMapSet(b, f, v)
              \/ \E f \in FieldsOf["advise"] : MemAdviseSet(b, f, v)
              \/ MemhPackSet(b, v)
              \/ \E f \in FieldsOf["am"] : AmSet(b, f, v)
              \/ \E f \in FieldsOf["listener"] : ListenerSet(b, f, v)
        \/ \E t \in Text \cup {NulText} : Name(b, t)
    BY DEF Set
  <1>2. /\ Kind = {"context", "worker", "ep", "modify", "request", "map", "advise",
                   "pack", "am", "listener"}
        /\ "size" \in FieldsOf["context"] \ {"name"}
        /\ "features" \in FieldsOf["context"] \ {"name"}
        /\ "thread_mode" \in FieldsOf["worker"] \ {"name"}
        /\ {"mode", "cb", "arg"} \subseteq FieldsOf["ep"] \ {"name"}
        /\ {"force_imm", "no_imm", "memory_type"} \subseteq FieldsOf["request"] \ {"name"}
        /\ "flags" \in FieldsOf["pack"] \ {"name"}
    BY DEF Kind, FieldsOf
  <1>3. \A k \in {"modify", "map", "advise", "am", "listener"} :
            \A f \in FieldsOf[k] : f \in FieldsOf[k] \ {"name"} /\ Value \subseteq Args(f)
    BY DEF FieldsOf, Args
  <1>4. /\ \A f \in {"size", "features", "mode", "cb", "arg", "force_imm", "no_imm",
                     "flags"} : Value = Args(f)
        /\ ThreadMode = Args("thread_mode") /\ MemoryType = Args("memory_type")
        /\ "one" \in Value
    BY DEF Args, Value
  <1>5. \A k \in Kind : \A f \in FieldsOf[k] \ {"name"} : \A v \in Args(f) :
            (k = "context" => f # "shared") /\ Setter(k, b, f, v) => BuildersInv'
    BY SetterStep
  <1>6. CASE RequestSize(b)
    BY <1>2, <1>4, <1>5, <1>6 DEF RequestSize
  <1>7. CASE ForceImmCmpl(b)
    BY <1>2, <1>4, <1>5, <1>7 DEF ForceImmCmpl
  <1>8. CASE NoImmCmpl(b)
    BY <1>2, <1>4, <1>5, <1>8 DEF NoImmCmpl
  <1>9. CASE EpSet(b)
    BY <1>2, <1>4, <1>5, <1>9 DEF EpSet
  <1>10. CASE EpErrHandler(b)
    BY <1>2, <1>4, <1>5, <1>10 DEF EpErrHandler
  <1>11. ASSUME NEW m \in ThreadMode, WorkerSet(b, m) PROVE BuildersInv'
    BY <1>2, <1>4, <1>5, <1>11 DEF WorkerSet
  <1>12. ASSUME NEW t \in MemoryType, RequestSet(b, t) PROVE BuildersInv'
    BY <1>2, <1>4, <1>5, <1>12 DEF RequestSet
  <1>13. ASSUME NEW v \in Value PROVE Features(b, v) => BuildersInv'
    BY <1>2, <1>4, <1>5 DEF Features
  <1>14. ASSUME NEW v \in Value PROVE EpErrHandlerArg(b, v) => BuildersInv'
    BY <1>2, <1>4, <1>5 DEF EpErrHandlerArg
  <1>15. ASSUME NEW v \in Value PROVE MemhPackSet(b, v) => BuildersInv'
    BY <1>2, <1>4, <1>5 DEF MemhPackSet
  <1>16. ASSUME NEW v \in Value, NEW f \in FieldsOf["modify"] PROVE ModifySet(b, f, v) => BuildersInv'
    BY <1>2, <1>3, <1>5 DEF ModifySet
  <1>17. ASSUME NEW v \in Value, NEW f \in FieldsOf["map"] PROVE MemMapSet(b, f, v) => BuildersInv'
    BY <1>2, <1>3, <1>5 DEF MemMapSet
  <1>18. ASSUME NEW v \in Value, NEW f \in FieldsOf["advise"] PROVE MemAdviseSet(b, f, v) => BuildersInv'
    BY <1>2, <1>3, <1>5 DEF MemAdviseSet
  <1>19. ASSUME NEW v \in Value, NEW f \in FieldsOf["am"] PROVE AmSet(b, f, v) => BuildersInv'
    BY <1>2, <1>3, <1>5 DEF AmSet
  <1>20. ASSUME NEW v \in Value, NEW f \in FieldsOf["listener"] PROVE ListenerSet(b, f, v) => BuildersInv'
    BY <1>2, <1>3, <1>5 DEF ListenerSet
  <1> QED
    BY <1>1, <1>6, <1>7, <1>8, <1>9, <1>10, <1>11, <1>12, <1>13, <1>14, <1>15, <1>16,
       <1>17, <1>18, <1>19, <1>20, MtWorkersSharedStep, AddressSliceStep, NameStep

LEMMA BuildersNext ==
    ASSUME BuildersInv, Next
    PROVE  BuildersInv'
  BY SetStep, NewStep, DropBuilderStep, CopyStep, BuildStep, DropParamsStep DEF Next

LEMMA BuildersIdle ==
    ASSUME BuildersInv, UNCHANGED vars
    PROVE  BuildersInv'
  BY DEF BuildersInv, TypeOK, Faithful, NamesOwned, HasName, vars

\* The inductive invariant of the builders on their own: new(), the setters,
\* name(), build() and the drops keep it.
THEOREM BuildersSound == Spec => []BuildersInv
  <1>1. BuildersInv /\ [Next]_vars => BuildersInv'
    BY BuildersNext, BuildersIdle
  <1> QED BY InitiallyInv, <1>1, PTL DEF Spec

----------------------------------------------------------------------------
(* Contexts, memory handles and packed buffers.                            *)

LEMMA MemoryInitially == MemoryInit => MemoryInv
  <1> SUFFICES ASSUME MemoryInit PROVE MemoryInv
    OBVIOUS
  <1>2. BuildersInv /\ TypeOK
    BY InitiallyInv DEF MemoryInit, BuildersInv
  <1>3. /\ \A m \in Memh : memh[m] = Nil
        /\ \A q \in Pack : packed[q] = Nil
        /\ ubuf = {} /\ faults = {}
    BY DEF MemoryInit
  <1>4. MemoryTypeOK
    BY <1>2 DEF MemoryInit, MemoryTypeOK
  <1>5. BuffersOwned /\ Framed /\ ContextsOutlive /\ OrderlyIsSafe
    BY <1>3 DEF BuffersOwned, Framed, ContextsOutlive, OrderlyIsSafe
  <1> QED BY <1>2, <1>3, <1>4, <1>5 DEF MemoryInv

\* A step of the builders, or none of anything.
LEMMA MemoryIdle ==
    ASSUME MemoryInv, BuildersInv', UNCHANGED memVars
    PROVE  MemoryInv'
  <1>1. MemoryTypeOK'
    BY DEF MemoryInv, MemoryTypeOK, BuildersInv, memVars
  <1>2. (BuffersOwned /\ Framed)'
    BY DEF MemoryInv, BuffersOwned, PacksOf, Framed, memVars
  <1>3. (ContextsOutlive /\ OrderlyIsSafe)'
    BY DEF MemoryInv, ContextsOutlive, OrderlyIsSafe, memVars
  <1> QED BY <1>1, <1>2, <1>3 DEF MemoryInv, memVars

\* What the builders contribute to a step of this module.
LEMMA BuildersAside ==
    ASSUME MemoryInv, UNCHANGED vars
    PROVE  BuildersInv' /\ TypeOK'
  BY BuildersIdle DEF MemoryInv, BuildersInv

LEMMA HandleFacts ==
    ASSUME MemoryInv, NEW m \in Memh, memh[m] # Nil
    PROVE  memh[m] \in HandleState /\ memh[m].ctx \in Ctx
  BY DEF MemoryInv, MemoryTypeOK, HandleState

LEMMA ContextNewStep ==
    ASSUME MemoryInv, UNCHANGED vars, NEW c \in Ctx, ContextNew(c)
    PROVE  MemoryInv'
  <1>1. BuildersInv' /\ TypeOK'
    BY BuildersAside
  <1>2. /\ ctx' = [ctx EXCEPT ![c] = "live"]
        /\ UNCHANGED <<memh, buffer, packed, ubuf, orderly, faults>>
    BY DEF ContextNew
  <1>3. MemoryTypeOK'
    BY <1>1, <1>2 DEF MemoryInv, MemoryTypeOK
  <1>4. (BuffersOwned /\ Framed /\ OrderlyIsSafe)'
    BY <1>2 DEF MemoryInv, BuffersOwned, PacksOf, Framed, OrderlyIsSafe
  <1>5. ContextsOutlive'
    BY <1>2, HandleFacts DEF MemoryInv, MemoryTypeOK, ContextsOutlive
  <1> QED BY <1>1, <1>2, <1>3, <1>4, <1>5 DEF MemoryInv

\* An orderly program drops a context that has no handles.
LEMMA ContextDropStep ==
    ASSUME MemoryInv, UNCHANGED vars, NEW c \in Ctx, ContextDrop(c)
    PROVE  MemoryInv'
  <1>1. BuildersInv' /\ TypeOK'
    BY BuildersAside
  <1>2. /\ ctx' = [ctx EXCEPT ![c] = "cleaned"]
        /\ orderly' = (orderly /\ HandlesOf(c) = {})
        /\ UNCHANGED <<memh, buffer, packed, ubuf, faults>>
    BY DEF ContextDrop
  <1>3. MemoryTypeOK'
    BY <1>1, <1>2 DEF MemoryInv, MemoryTypeOK
  <1>4. (BuffersOwned /\ Framed)'
    BY <1>2 DEF MemoryInv, BuffersOwned, PacksOf, Framed
  <1>5. OrderlyIsSafe'
    BY <1>2 DEF MemoryInv, OrderlyIsSafe
  <1>6. ContextsOutlive'
    <2>1. SUFFICES ASSUME orderly, HandlesOf(c) = {}, NEW m \in Memh, memh[m] # Nil
                   PROVE  ctx'[memh[m].ctx] = "live"
      BY <1>2 DEF ContextsOutlive
    <2>2. memh[m].ctx # c
      BY <2>1 DEF HandlesOf
    <2>3. ctx[memh[m].ctx] = "live" /\ memh[m].ctx \in Ctx
      BY <2>1, HandleFacts DEF MemoryInv, ContextsOutlive
    <2> QED BY <1>2, <2>2, <2>3 DEF MemoryInv, MemoryTypeOK
  <1> QED BY <1>1, <1>2, <1>3, <1>4, <1>5, <1>6 DEF MemoryInv

\* A handle is made of a context that is there, and may borrow the buffer.
LEMMA MappedStep ==
    ASSUME MemoryInv, UNCHANGED vars, NEW c \in Ctx, NEW m \in Memh,
           NEW of \in {"ucx", "caller", "slice"},
           ctx[c] = "live", memh[m] = Nil, of = "slice" => buffer = "live",
           Mapped(m, c, of),
           UNCHANGED <<ctx, buffer, packed, ubuf, orderly, faults>>
    PROVE  MemoryInv'
  <1>1. BuildersInv' /\ TypeOK'
    BY BuildersAside
  <1>2. PICK h : h = [ctx |-> c, of |-> of]
    OBVIOUS
  <1>3. h \in HandleState /\ h.ctx = c /\ h.of = of
    BY <1>2 DEF HandleState
  <1>4. memh' = [memh EXCEPT ![m] = h] /\ memh \in [Memh -> HandleState \cup {Nil}]
    BY <1>2 DEF Mapped, MemoryInv, MemoryTypeOK
  <1>5. \A n \in Memh : memh'[n] = IF n = m THEN h ELSE memh[n]
    BY <1>4
  <1>6. MemoryTypeOK'
    BY <1>1, <1>3, <1>4 DEF MemoryInv, MemoryTypeOK
  <1>7. (BuffersOwned /\ Framed)'
    BY DEF MemoryInv, BuffersOwned, PacksOf, Framed
  <1>8. OrderlyIsSafe'
    BY <1>3, <1>5 DEF MemoryInv, OrderlyIsSafe
  <1>9. ContextsOutlive'
    BY <1>3, <1>5 DEF MemoryInv, ContextsOutlive
  <1> QED BY <1>1, <1>6, <1>7, <1>8, <1>9 DEF MemoryInv

LEMMA MemMapStep ==
    ASSUME MemoryInv, UNCHANGED vars, NEW c \in Ctx, NEW m \in Memh,
           NEW of \in {"ucx", "caller"}, MemMap(c, m, of)
    PROVE  MemoryInv'
  BY MappedStep DEF MemMap

LEMMA MapSliceStep ==
    ASSUME MemoryInv, UNCHANGED vars, NEW c \in Ctx, NEW m \in Memh, NEW flags,
           MapSlice(c, m, flags)
    PROVE  MemoryInv'
  <1>1. CASE flags >= U32Mod
    <2>1. UNCHANGED memVars
      BY <1>1 DEF MapSlice, memVars
    <2> QED BY <2>1, BuildersAside, MemoryIdle
  <1>2. CASE ~(flags >= U32Mod)
    BY <1>2, MappedStep DEF MapSlice
  <1> QED BY <1>1, <1>2

LEMMA BufferDropStep ==
    ASSUME MemoryInv, UNCHANGED vars, BufferDrop
    PROVE  MemoryInv'
  <1>1. BuildersInv' /\ TypeOK'
    BY BuildersAside
  <1>2. /\ ~Lent /\ buffer' = "freed"
        /\ UNCHANGED <<ctx, memh, packed, ubuf, orderly, faults>>
    BY DEF BufferDrop
  <1>3. MemoryTypeOK'
    BY <1>1, <1>2 DEF MemoryInv, MemoryTypeOK
  <1>4. (BuffersOwned /\ Framed /\ ContextsOutlive)'
    BY <1>2 DEF MemoryInv, BuffersOwned, PacksOf, Framed, ContextsOutlive
  <1>5. OrderlyIsSafe'
    BY <1>2 DEF MemoryInv, OrderlyIsSafe, Lent, Borrows
  <1> QED BY <1>1, <1>2, <1>3, <1>4, <1>5 DEF MemoryInv

\* UCX is called with a handle: only a disorderly program makes that a fault.
LEMMA CalledSafe ==
    ASSUME MemoryInv, faults = {}, NEW m \in Memh, memh[m] # Nil,
           NEW call \in {"use", "unmap"}
    PROVE  /\ Called(m, call) \subseteq {"use", "unmap", "foreign"}
           /\ orderly => Called(m, call) \subseteq {"foreign"}
  BY DEF MemoryInv, ContextsOutlive, Called

LEMMA MemUseStep ==
    ASSUME MemoryInv, faults = {}, UNCHANGED vars, NEW m \in Memh, MemUse(m)
    PROVE  MemoryInv'
  <1>1. BuildersInv' /\ TypeOK'
    BY BuildersAside
  <1>2. /\ UNCHANGED <<ctx, memh, buffer, packed, ubuf, orderly>>
        /\ faults' \subseteq {"use", "unmap", "foreign"}
        /\ orderly => faults' \subseteq {"foreign"}
    BY CalledSafe DEF MemUse
  <1>3. MemoryTypeOK'
    BY <1>1, <1>2 DEF MemoryInv, MemoryTypeOK
  <1>4. (BuffersOwned /\ Framed /\ ContextsOutlive)'
    BY <1>2 DEF MemoryInv, BuffersOwned, PacksOf, Framed, ContextsOutlive
  <1>5. OrderlyIsSafe'
    BY <1>2 DEF MemoryInv, OrderlyIsSafe
  <1> QED BY <1>1, <1>2, <1>3, <1>4, <1>5 DEF MemoryInv

LEMMA MemDropStep ==
    ASSUME MemoryInv, faults = {}, UNCHANGED vars, NEW m \in Memh, MemDrop(m)
    PROVE  MemoryInv'
  <1>1. BuildersInv' /\ TypeOK'
    BY BuildersAside
  <1>2. /\ UNCHANGED <<ctx, buffer, packed, ubuf, orderly>>
        /\ memh' = [memh EXCEPT ![m] = Nil]
        /\ faults' \subseteq {"use", "unmap", "foreign"}
        /\ orderly => faults' \subseteq {"foreign"}
    BY CalledSafe DEF MemDrop
  <1>3. \A n \in Memh : memh'[n] = IF n = m THEN Nil ELSE memh[n]
    BY <1>2 DEF MemoryInv, MemoryTypeOK
  <1>4. MemoryTypeOK'
    BY <1>1, <1>2 DEF MemoryInv, MemoryTypeOK
  <1>5. (BuffersOwned /\ Framed)'
    BY <1>2 DEF MemoryInv, BuffersOwned, PacksOf, Framed
  <1>6. ContextsOutlive'
    BY <1>2, <1>3 DEF MemoryInv, ContextsOutlive
  <1>7. OrderlyIsSafe'
    BY <1>2, <1>3 DEF MemoryInv, OrderlyIsSafe
  <1> QED BY <1>1, <1>2, <1>4, <1>5, <1>6, <1>7 DEF MemoryInv

\* A step that calls UCX with two contexts, or a handle, and packs something
\* or nothing: only packed, ubuf and faults change.
LEMMA PackingKeeps ==
    ASSUME MemoryInv, UNCHANGED vars,
           UNCHANGED <<ctx, memh, buffer, orderly>>,
           faults' \subseteq {"use", "unmap", "foreign"},
           orderly => faults' \subseteq {"foreign"},
           packed' \in [Pack -> PackedState \cup {Nil}], ubuf' \subseteq Buf,
           BuffersOwned', Framed'
    PROVE  MemoryInv'
  <1>1. BuildersInv' /\ TypeOK'
    BY BuildersAside
  <1>2. MemoryTypeOK'
    BY <1>1 DEF MemoryInv, MemoryTypeOK
  <1>3. (ContextsOutlive /\ OrderlyIsSafe)'
    BY DEF MemoryInv, ContextsOutlive, OrderlyIsSafe
  <1> QED BY <1>1, <1>2, <1>3 DEF MemoryInv

\* What UCX packed gets its one owner.
LEMMA PackedAdded ==
    ASSUME MemoryInv, NEW q \in Pack, packed[q] = Nil, NEW u \in Buf \ ubuf,
           NEW s \in PackedState, s.buf = u,
           s.api = "rkey" => /\ s.payload \in Payload
                             /\ FrameRkeyPayload(s.payload) = Succeeded(s.bytes),
           packed' = [packed EXCEPT ![q] = s], ubuf' = ubuf \cup {u}
    PROVE  /\ packed' \in [Pack -> PackedState \cup {Nil}]
           /\ ubuf' \subseteq Buf
           /\ BuffersOwned' /\ Framed'
  <1>1. packed \in [Pack -> PackedState \cup {Nil}] /\ ubuf \subseteq Buf
    BY DEF MemoryInv, MemoryTypeOK
  <1>2. packed' \in [Pack -> PackedState \cup {Nil}] /\ ubuf' \subseteq Buf
    BY <1>1
  <1>3. /\ \A r \in Pack : r # q => packed'[r] = packed[r]
        /\ packed'[q] = s /\ s # Nil
    BY <1>1, MemoryAssumption
  <1>4. \A r \in Pack : packed[r] # Nil => packed[r].buf \in ubuf /\ packed[r].buf # u
    BY DEF MemoryInv, BuffersOwned
  <1>5. BuffersOwned'
    <2>1. \A r \in Pack : packed'[r] # Nil => packed'[r].buf \in ubuf'
      BY <1>3, <1>4
    <2>2. \A r, t \in Pack :
             packed'[r] # Nil /\ packed'[t] # Nil /\ packed'[r].buf = packed'[t].buf => r = t
      BY <1>3, <1>4 DEF MemoryInv, BuffersOwned
    <2>3. ASSUME NEW x \in ubuf' PROVE \E r \in Pack : packed'[r] # Nil /\ packed'[r].buf = x
      <3>1. CASE x = u
        BY <1>3, <3>1
      <3>2. CASE x # u
        <4>1. x \in ubuf
          BY <2>3, <3>2
        <4>2. PICK r \in Pack : packed[r] # Nil /\ packed[r].buf = x
          BY <4>1 DEF MemoryInv, BuffersOwned, PacksOf
        <4> QED BY <1>3, <4>2
      <3> QED BY <3>1, <3>2
    <2>4. \A x \in ubuf' : PacksOf(x)' # {}
      BY <2>3 DEF PacksOf
    <2> QED BY <2>1, <2>2, <2>4 DEF BuffersOwned
  <1>6. Framed'
    <2>1. SUFFICES ASSUME NEW r \in Pack, packed'[r] # Nil, packed'[r].api = "rkey"
                   PROVE  /\ packed'[r].payload \in Payload
                          /\ FrameRkeyPayload(packed'[r].payload) = Succeeded(packed'[r].bytes)
      BY DEF Framed
    <2>2. CASE r = q
      BY <1>3, <2>1, <2>2
    <2>3. CASE r # q
      BY <1>3, <2>1, <2>3 DEF MemoryInv, Framed
    <2> QED BY <2>2, <2>3
  <1> QED BY <1>2, <1>5, <1>6

LEMMA NothingPacked ==
    ASSUME MemoryInv, UNCHANGED <<packed, ubuf>>
    PROVE  /\ packed' \in [Pack -> PackedState \cup {Nil}]
           /\ ubuf' \subseteq Buf
           /\ BuffersOwned' /\ Framed'
  BY DEF MemoryInv, MemoryTypeOK, BuffersOwned, PacksOf, Framed

LEMMA PackMemhStep ==
    ASSUME MemoryInv, faults = {}, UNCHANGED vars, NEW b \in Builder,
           NEW m \in Memh, NEW q \in Pack, PackMemh(b, m, q)
    PROVE  MemoryInv'
  <1>1. /\ UNCHANGED <<ctx, memh, buffer, orderly>> /\ packed[q] = Nil
        /\ faults' \subseteq {"use", "unmap", "foreign"}
        /\ orderly => faults' \subseteq {"foreign"}
    BY CalledSafe DEF PackMemh
  <1>2. CASE UNCHANGED <<packed, ubuf>>
    BY <1>1, <1>2, NothingPacked, PackingKeeps
  <1>3. CASE ~UNCHANGED <<packed, ubuf>>
    <2>1. PICK u \in Buf \ ubuf :
             /\ ubuf' = ubuf \cup {u}
             /\ packed' = [packed EXCEPT
                    ![q] = [api |-> "memh", buf |-> u, payload |-> << >>, bytes |-> << >>]]
      BY <1>3 DEF PackMemh
    <2>2. PICK s : s = [api |-> "memh", buf |-> u, payload |-> << >>, bytes |-> << >>]
      OBVIOUS
    <2>3. s \in PackedState /\ s.buf = u /\ s.api = "memh"
      <3>1. << >> \in Seq(Byte)
        OBVIOUS
      <3> QED BY <2>2, <3>1 DEF PackedState
    <2>4. packed' = [packed EXCEPT ![q] = s] /\ ubuf' = ubuf \cup {u}
      BY <2>1, <2>2
    <2> QED BY <1>1, <2>3, <2>4, PackedAdded, PackingKeeps
  <1> QED BY <1>2, <1>3

\* pack_rkey: a key that can be framed gets an owner, another is released.
LEMMA PackRkeyStep ==
    ASSUME MemoryInv, faults = {}, UNCHANGED vars, NEW c \in Ctx,
           NEW m \in Memh, NEW q \in Pack, PackRkey(c, m, q)
    PROVE  MemoryInv'
  <1>1. /\ UNCHANGED <<ctx, memh, buffer, orderly>> /\ packed[q] = Nil
        /\ faults' \subseteq {"foreign"}
    BY DEF PackRkey, PackedWith
  <1>2. /\ faults' \subseteq {"use", "unmap", "foreign"}
        /\ orderly => faults' \subseteq {"foreign"}
    BY <1>1
  <1>3. CASE UNCHANGED <<packed, ubuf>>
    BY <1>1, <1>2, <1>3, NothingPacked, PackingKeeps
  <1>4. CASE ~UNCHANGED <<packed, ubuf>>
    <2>1. PICK u \in Buf \ ubuf, payload \in Payload :
             IF FromRawParts(payload).ok
             THEN /\ ubuf' = ubuf \cup {u}
                  /\ packed' = [packed EXCEPT
                         ![q] = [api |-> "rkey", buf |-> u, payload |-> payload,
                                 bytes |-> FromRawParts(payload).bytes]]
             ELSE /\ ubuf' = (ubuf \cup {u}) \ {u}
                  /\ UNCHANGED packed
      BY <1>4 DEF PackRkey
    <2>2. CASE FromRawParts(payload).ok
      <3>1. PICK bytes : bytes = ToLeBytes(Len(payload)) \o payload
        OBVIOUS
      <3>2. payload \in Seq(Byte) /\ ~(Len(payload) >= U32Mod)
        BY <2>2, MemoryAssumption DEF FromRawParts, Failed
      <3>3. Len(payload) < U32Mod
        BY <3>2, ModNat
      <3>4. bytes \in Seq(Byte)
        BY <3>1, <3>2, <3>3, FrameBytes
      <3>5. FromRawParts(payload) = Succeeded(bytes)
        BY <3>1, <3>2 DEF FromRawParts
      <3>6. FrameRkeyPayload(payload) = Succeeded(bytes)
        BY <3>1, <3>2 DEF FrameRkeyPayload
      <3>7. FromRawParts(payload).bytes = bytes
        BY <3>5 DEF Succeeded
      <3>8. PICK s : s = [api |-> "rkey", buf |-> u, payload |-> payload, bytes |-> bytes]
        OBVIOUS
      <3>9. s \in PackedState /\ s.buf = u /\ s.payload = payload /\ s.bytes = bytes
        BY <3>4, <3>8 DEF PackedState
      <3>10. packed' = [packed EXCEPT ![q] = s] /\ ubuf' = ubuf \cup {u}
        BY <2>1, <2>2, <3>7, <3>8
      <3>11. s.payload \in Payload /\ FrameRkeyPayload(s.payload) = Succeeded(s.bytes)
        BY <3>6, <3>9
      <3> QED BY <1>1, <1>2, <3>9, <3>10, <3>11, PackedAdded, PackingKeeps
    <2>3. CASE ~FromRawParts(payload).ok
      <3>1. UNCHANGED <<packed, ubuf>>
        BY <2>1, <2>3
      <3> QED BY <1>4, <3>1
    <2> QED BY <2>2, <2>3
  <1> QED BY <1>3, <1>4

LEMMA RemoteKeyPackStep ==
    ASSUME MemoryInv, faults = {}, UNCHANGED vars, NEW c \in Ctx, NEW m \in Memh,
           RemoteKeyPack(c, m)
    PROVE  MemoryInv'
  <1>1. /\ UNCHANGED <<ctx, memh, buffer, packed, orderly>>
        /\ faults' \subseteq {"foreign"}
    BY DEF RemoteKeyPack, PackedWith
  <1>2. ubuf' = ubuf
    BY DEF RemoteKeyPack
  <1> QED BY <1>1, <1>2, NothingPacked, PackingKeeps

LEMMA PackedDropStep ==
    ASSUME MemoryInv, faults = {}, UNCHANGED vars, NEW q \in Pack, PackedDrop(q)
    PROVE  MemoryInv'
  <1>1. /\ packed[q] # Nil /\ ubuf' = ubuf \ {packed[q].buf}
        /\ packed' = [packed EXCEPT ![q] = Nil]
        /\ UNCHANGED <<ctx, memh, buffer, orderly, faults>>
    BY DEF PackedDrop
  <1>2. packed \in [Pack -> PackedState \cup {Nil}] /\ ubuf \subseteq Buf /\ BuffersOwned
    BY DEF MemoryInv, MemoryTypeOK
  <1>3. packed' \in [Pack -> PackedState \cup {Nil}] /\ ubuf' \subseteq Buf
    BY <1>1, <1>2
  <1>4. /\ \A r \in Pack : r # q => packed'[r] = packed[r]
        /\ packed'[q] = Nil
    BY <1>1, <1>2
  <1>5. BuffersOwned'
    <2>1. \A r \in Pack : packed'[r] # Nil => packed'[r].buf \in ubuf'
      BY <1>1, <1>2, <1>4 DEF BuffersOwned
    <2>2. \A r, t \in Pack :
             packed'[r] # Nil /\ packed'[t] # Nil /\ packed'[r].buf = packed'[t].buf => r = t
      BY <1>2, <1>4 DEF BuffersOwned
    <2>3. ASSUME NEW x \in ubuf' PROVE \E r \in Pack : packed'[r] # Nil /\ packed'[r].buf = x
      <3>1. x \in ubuf /\ x # packed[q].buf
        BY <1>1, <2>3
      <3>2. PICK r \in Pack : packed[r] # Nil /\ packed[r].buf = x
        BY <1>2, <3>1 DEF BuffersOwned, PacksOf
      <3> QED BY <1>4, <3>1, <3>2
    <2>4. \A x \in ubuf' : PacksOf(x)' # {}
      BY <2>3 DEF PacksOf
    <2> QED BY <2>1, <2>2, <2>4 DEF BuffersOwned
  <1>6. Framed'
    BY <1>4 DEF MemoryInv, Framed
  <1>7. orderly => faults' \subseteq {"foreign"}
    BY <1>1
  <1>8. faults' \subseteq {"use", "unmap", "foreign"}
    BY <1>1
  <1> QED BY <1>1, <1>3, <1>5, <1>6, <1>7, <1>8, PackingKeeps

LEMMA MemoryStepInv ==
    ASSUME MemoryInv, faults = {}, UNCHANGED vars, MemoryStep
    PROVE  MemoryInv'
  <1>1. ASSUME NEW c \in Ctx,
               ContextNew(c) \/ ContextDrop(c)
        PROVE  MemoryInv'
    BY <1>1, ContextNewStep, ContextDropStep
  <1>2. ASSUME NEW c \in Ctx, NEW m \in Memh,
               \/ \E of \in {"ucx", "caller"} : MemMap(c, m, of)
               \/ \E flags \in {0, U32Mod - 1, U32Mod} : MapSlice(c, m, flags)
               \/ \E q \in Pack : PackRkey(c, m, q)
               \/ RemoteKeyPack(c, m)
        PROVE  MemoryInv'
    BY <1>2, MemMapStep, MapSliceStep, PackRkeyStep, RemoteKeyPackStep
  <1>3. ASSUME NEW m \in Memh,
               \/ MemUse(m) \/ MemDrop(m)
               \/ \E b \in Builder, q \in Pack : PackMemh(b, m, q)
        PROVE  MemoryInv'
    BY <1>3, MemUseStep, MemDropStep, PackMemhStep
  <1>4. ASSUME NEW q \in Pack, PackedDrop(q)
        PROVE  MemoryInv'
    BY <1>4, PackedDropStep
  <1>5. CASE BufferDrop
    BY <1>5, BufferDropStep
  <1> QED BY <1>1, <1>2, <1>3, <1>4, <1>5 DEF MemoryStep

\* The inductive invariant of the builders, contexts, memory handles and
\* packed buffers.
THEOREM MemoryInvHolds == MemorySpec => []MemoryInv
  <1>1. MemoryInv /\ [MemoryNext]_<<vars, memVars>> => MemoryInv'
    <2>1. SUFFICES ASSUME MemoryInv, [MemoryNext]_<<vars, memVars>>
                   PROVE  MemoryInv'
      OBVIOUS
    <2>2. CASE Next /\ UNCHANGED memVars
      <3>1. BuildersInv'
        BY <2>1, <2>2, BuildersNext DEF MemoryInv
      <3> QED BY <2>1, <2>2, <3>1, MemoryIdle
    <2>3. CASE faults = {} /\ MemoryStep /\ UNCHANGED vars
      BY <2>1, <2>3, MemoryStepInv
    <2>4. CASE UNCHANGED <<vars, memVars>>
      BY <2>1, <2>4, BuildersAside, MemoryIdle
    <2> QED BY <2>1, <2>2, <2>3, <2>4 DEF MemoryNext
  <1> QED BY MemoryInitially, <1>1, PTL DEF MemorySpec

----------------------------------------------------------------------------
(* What follows from it.                                                   *)

\* One of two sets has one element and the other none, or both are empty.
LEMMA OneOfTwo ==
    ASSUME NEW S, NEW T,
           \A x, y \in S : x = y, \A x, y \in T : x = y, S = {} \/ T = {}
    PROVE  Cardinality(S) + Cardinality(T) = IF S = {} /\ T = {} THEN 0 ELSE 1
  <1>1. ASSUME NEW X, \A x, y \in X : x = y
        PROVE  Cardinality(X) = IF X = {} THEN 0 ELSE 1
    <2>1. CASE X = {}
      BY <2>1, FS_EmptySet
    <2>2. CASE X # {}
      <3>1. PICK x : X = {x}
        BY <1>1, <2>2
      <3> QED BY <3>1, FS_Singleton
    <2> QED BY <2>1, <2>2
  <1> QED BY <1>1

\* A CString of name() that is not freed has an owner, and a freed one none.
LEMMA NamesHaveOneOwner == BuildersInv => NameOneOwner
  <1> SUFFICES ASSUME BuildersInv, NEW c \in Cell
               PROVE  Cardinality(BuildersOf(c)) + Cardinality(ParamsOf(c))
                          = IF mem[c] = "freed" THEN 0 ELSE 1
    BY DEF NameOneOwner
  <1>1. NamesOwned /\ c # Nil
    BY NilAssumption DEF BuildersInv
  <1>2. /\ \A b \in BuildersOf(c) : b \in Builder /\ HasName(bld[b]) /\ bld[b].name = c
        /\ \A p \in ParamsOf(c) : p \in Param /\ HasName(par[p]) /\ par[p].name = c
    BY <1>1 DEF BuildersOf, ParamsOf, HasName
  <1>3. /\ \A x, y \in BuildersOf(c) : x = y
        /\ \A x, y \in ParamsOf(c) : x = y
        /\ BuildersOf(c) = {} \/ ParamsOf(c) = {}
    BY <1>1, <1>2 DEF NamesOwned
  <1>4. CASE mem[c] = "freed"
    <2>1. BuildersOf(c) = {}
      <3>1. SUFFICES ASSUME NEW b \in BuildersOf(c) PROVE FALSE
        OBVIOUS
      <3>2. b \in Builder /\ bld[b] # Nil /\ bld[b].name = c
        BY DEF BuildersOf
      <3> QED BY <1>1, <1>4, <3>2, BuilderFacts, TextAssumption DEF NameAsked
    <2>2. ParamsOf(c) = {}
      <3>1. SUFFICES ASSUME NEW p \in ParamsOf(c) PROVE FALSE
        OBVIOUS
      <3>2. p \in Param /\ par[p] # Nil /\ par[p].name = c
        BY DEF ParamsOf
      <3> QED BY <1>1, <1>4, <3>2, ParamFacts, TextAssumption DEF NameAsked
    <2> QED BY <1>3, <1>4, <2>1, <2>2, OneOfTwo
  <1>5. CASE mem[c] # "freed"
    <2>1. ~(BuildersOf(c) = {} /\ ParamsOf(c) = {})
      BY <1>1, <1>5 DEF NamesOwned, BuildersOf, ParamsOf
    <2> QED BY <1>3, <1>5, <2>1, OneOfTwo
  <1> QED BY <1>4, <1>5

LEMMA BuffersHaveOneOwner == MemoryInv => PackedOneOwner
  <1> SUFFICES ASSUME MemoryInv, NEW u \in Buf
               PROVE  Cardinality(PacksOf(u)) = IF u \in ubuf THEN 1 ELSE 0
    BY DEF PackedOneOwner
  <1>1. \A x, y \in PacksOf(u) : x = y
    BY DEF MemoryInv, BuffersOwned, PacksOf
  <1>2. u \in ubuf <=> PacksOf(u) # {}
    BY DEF MemoryInv, BuffersOwned, PacksOf
  <1>3. CASE PacksOf(u) = {}
    BY <1>2, <1>3, FS_EmptySet
  <1>4. CASE PacksOf(u) # {}
    <2>1. PICK x : PacksOf(u) = {x}
      BY <1>1, <1>4
    <2> QED BY <1>2, <1>4, <2>1, FS_Singleton
  <1> QED BY <1>3, <1>4

\* build(), name(), the drops and pack_rkey's error paths leave every CString
\* and every packed buffer with exactly one owner.
THEOREM OneOwnerEach == MemorySpec => []OneOwner
  <1>1. MemoryInv => OneOwner
    BY NamesHaveOneOwner, BuffersHaveOneOwner DEF MemoryInv, OneOwner
  <1> QED BY MemoryInvHolds, <1>1, PTL

\* A field of built parameters is read as it was asked for.
LEMMA FieldRead ==
    ASSUME BuildersInv, NEW p \in Param, par[p] # Nil, NEW f \in FieldsOf[kind],
           OwnField(par[p], f)
    PROVE  UcxReads(par[p], f) =
               LET asked == par[p].asked
               IN  CASE f = "thread_mode" /\ asked[f] = "unknown" -> "multi"
                     [] Bit(f) # f /\ asked[Bit(f)] = "unset" -> "unset"
                     [] /\ Bit(f) # f /\ asked[Bit(f)] # "unset"
                        /\ asked[f] = "unset"            -> "zero"
                     [] OTHER                             -> asked[f]
  <1>1. PICK r : r = par[p]
    OBVIOUS
  <1>2. /\ kind \in Kind /\ StructAsked(kind, r) /\ NameAsked(kind, mem, r, r.name)
    BY <1>1, ParamFacts
  <1>3. PICK a : a = r.asked[f]
    OBVIOUS
  <1>4. CASE f = "name"
    <2>1. kind \in NamedKind /\ Bit(f) = f
      BY <1>2, <1>4, FieldFacts DEF Bit
    <2>2. r.val["name"] = r.name /\ (f \in r.mask <=> a # "unset")
      BY <1>2, <1>3, <1>4, <2>1 DEF NameAsked, StructAsked
    <2>3. CASE r.name = Nil
      <3>1. a = "unset"
        BY <1>1, <1>2, <1>3, <1>4, <2>1, <2>3 DEF NameAsked, OwnField
      <3>2. UcxReads(r, f) = "unset"
        BY <1>4, <2>1, <2>2, <2>3, <3>1 DEF UcxReads
      <3> QED BY <1>1, <1>3, <1>4, <2>1, <3>1, <3>2
    <2>4. CASE r.name # Nil
      <3>1. a = mem[r.name] /\ a # "unset" /\ a # "taken"
        BY <1>2, <1>3, <1>4, <2>1, <2>4, TextAssumption DEF NameAsked
      <3>2. UcxReads(r, f) = a
        BY <1>4, <2>1, <2>2, <2>4, <3>1 DEF UcxReads
      <3> QED BY <1>1, <1>3, <1>4, <2>1, <3>1, <3>2
    <2> QED BY <2>3, <2>4
  <1>5. CASE f = "arg"
    <2>1. Bit(f) = "cb" /\ "cb" \in FieldsOf[kind]
      BY <1>2, <1>5, FieldFacts DEF Bit
    <2>2. "cb" \in r.mask <=> r.asked["cb"] # "unset"
      BY <1>2, <2>1 DEF StructAsked
    <2>3. CASE "cb" \notin r.mask
      BY <1>1, <1>5, <2>1, <2>2, <2>3 DEF UcxReads
    <2>4. CASE "cb" \in r.mask
      <3>1. /\ a \in Args(f) \cup {"unset"}
            /\ r.val[f] = IF a = "unset" THEN 0 ELSE ToFfi(f, a)
        BY <1>2, <1>3, <1>5 DEF StructAsked
      <3>2. UcxReads(r, f) = FromFfi(f, r.val[f])
        BY <1>5, <2>1, <2>4 DEF UcxReads
      <3>3. CASE a = "unset"
        <4>1. FromFfi(f, 0) = "zero"
          BY <1>5 DEF FromFfi
        <4> QED BY <1>1, <1>3, <1>5, <2>1, <2>2, <2>4, <3>1, <3>2, <3>3, <4>1
      <3>4. CASE a # "unset"
        <4>1. FromFfi(f, ToFfi(f, a)) = a
          BY <1>5, <3>1, <3>4, ArgFacts
        <4> QED BY <1>1, <1>3, <1>5, <2>1, <2>2, <2>4, <3>1, <3>2, <3>4, <4>1
      <3> QED BY <3>3, <3>4
    <2> QED BY <2>3, <2>4
  <1>6. CASE f # "name" /\ f # "arg"
    <2>1. Bit(f) = f
      BY <1>6 DEF Bit
    <2>2. /\ a \in Args(f) \cup {"unset"}
          /\ f \in r.mask <=> a # "unset"
          /\ r.val[f] = IF a = "unset" THEN 0 ELSE ToFfi(f, a)
      BY <1>2, <1>3, <1>6 DEF StructAsked
    <2>3. CASE a = "unset"
      <3>1. UcxReads(r, f) = "unset"
        BY <2>1, <2>2, <2>3 DEF UcxReads
      <3> QED BY <1>1, <1>3, <1>6, <2>1, <2>3, <3>1
    <2>4. CASE a # "unset"
      <3>1. UcxReads(r, f) = FromFfi(f, ToFfi(f, a))
        BY <1>6, <2>1, <2>2, <2>4 DEF UcxReads
      <3>2. UcxReads(r, f) = IF f = "thread_mode" /\ a = "unknown" THEN "multi" ELSE a
        BY <1>6, <2>2, <2>4, <3>1, ArgFacts
      <3> QED BY <1>1, <1>3, <1>6, <2>1, <2>4, <3>2
    <2> QED BY <2>3, <2>4
  <1> QED BY <1>4, <1>5, <1>6

\* UCX reads from built parameters what the program asked for, whatever
\* became of the builder (the setters, name() and build()).
THEOREM ParametersFaithful == MemorySpec => []UcxReadsAsked
  <1>1. MemoryInv => UcxReadsAsked
    <2>1. ASSUME BuildersInv, NEW p \in Param, par[p] # Nil, Named
          PROVE  par[p].val["name"] \in {Nil, par[p].name}
      BY <2>1, ParamFacts DEF NameAsked, Named
    <2> QED BY <2>1, FieldRead DEF MemoryInv, UcxReadsAsked
  <1> QED BY MemoryInvHolds, <1>1, PTL

\* Context::new admits what asked for a feature and for sharing, only.
THEOREM ContextAdmission == MemorySpec => []AdmissionExact
  <1>1. MemoryInv => AdmissionExact
    <2>1. SUFFICES ASSUME BuildersInv, kind = "context", NEW p \in Param, par[p] # Nil
                   PROVE  Admits(par[p]) <=> /\ par[p].asked["features"] = "one"
                                             /\ par[p].asked["shared"] = "one"
      BY DEF MemoryInv, AdmissionExact
    <2>2. PICK r : r = par[p]
      OBVIOUS
    <2>3. StructAsked("context", r)
      BY <2>1, <2>2, ParamFacts
    <2>4. \A f \in {"features", "shared"} :
             /\ r.asked[f] \in {"zero", "one", "unset"}
             /\ f \in r.mask <=> r.asked[f] # "unset"
             /\ r.val[f] # 0 <=> r.asked[f] = "one"
      <3>1. SUFFICES ASSUME NEW f \in {"features", "shared"}
                     PROVE  /\ r.asked[f] \in {"zero", "one", "unset"}
                            /\ f \in r.mask <=> r.asked[f] # "unset"
                            /\ r.val[f] # 0 <=> r.asked[f] = "one"
        OBVIOUS
      <3>2. f \in FieldsOf["context"] /\ f # "arg" /\ f # "name" /\ Args(f) = {"zero", "one"}
        BY DEF FieldsOf, Args, Value
      <3>3. ToFfi(f, "zero") = 0 /\ ToFfi(f, "one") = 1
        BY DEF ToFfi
      <3>4. /\ r.asked[f] \in Args(f) \cup {"unset"}
            /\ f \in r.mask <=> r.asked[f] # "unset"
            /\ r.val[f] = IF r.asked[f] = "unset" THEN 0 ELSE ToFfi(f, r.asked[f])
        BY <2>3, <3>2 DEF StructAsked
      <3> QED BY <3>2, <3>3, <3>4
    <2>5. r.shared <=> r.asked["shared"] = "one"
      BY <2>3 DEF StructAsked
    <2> QED BY <2>2, <2>4, <2>5 DEF Admits
  <1> QED BY MemoryInvHolds, <1>1, PTL

\* A program that drops its contexts last is safe, and the buffer map_slice
\* registered stays until it is unmapped.
THEOREM OrderlyPrograms == MemorySpec => []OrderlyIsSafe
  <1>1. MemoryInv => OrderlyIsSafe
    BY DEF MemoryInv
  <1> QED BY MemoryInvHolds, <1>1, PTL

\* The conversions of ep.rs, listener.rs and datatype.rs lose nothing.
THEOREM ConversionsLossless == MemorySpec => []ConversionsExact
  <1>1. ConversionsExact
    BY ContigSizesSurvive, AddressesSurvive DEF ConversionsExact
  <1> QED BY <1>1, PTL

\* RemoteKey::unpack finds in as_bytes() of a packed key what UCX packed.
THEOREM PackedKeysUnpack == MemorySpec => []PackedKeyUnpacks
  <1>1. FramingExact
    <2>1. \A b \in ShortBuffer : b \in Seq(Byte)
      <3>1. SUFFICES ASSUME NEW n \in 0 .. 5, NEW b \in [1 .. n -> Byte]
                     PROVE  b \in Seq(Byte)
        BY DEF ShortBuffer
      <3> QED BY SeqDef
    <2> QED BY <2>1, MemoryAssumption, UnframingUndoesFraming, OnlyFramesUnframed DEF FramingExact
  <1>2. MemoryInv => PackedKeyUnpacks
    <2>1. SUFFICES ASSUME MemoryInv, NEW q \in Pack, packed[q] # Nil, packed[q].api = "rkey"
                   PROVE  UnframeRkeyPayload(packed[q].bytes) = Succeeded(packed[q].payload)
      BY <1>1 DEF PackedKeyUnpacks
    <2>2. PICK payload, bytes : payload = packed[q].payload /\ bytes = packed[q].bytes
      OBVIOUS
    <2>3. payload \in Seq(Byte) /\ FrameRkeyPayload(payload) = Succeeded(bytes)
      BY <2>1, <2>2, MemoryAssumption DEF MemoryInv, Framed
    <2>4. FrameRkeyPayload(payload).ok /\ FrameRkeyPayload(payload).bytes = bytes
      BY <2>3 DEF Succeeded
    <2>5. UnframeRkeyPayload(bytes) = Succeeded(payload)
      BY <2>3, <2>4, UnframingUndoesFraming DEF RoundTrips
    <2> QED BY <2>2, <2>5
  <1> QED BY MemoryInvHolds, <1>2, PTL
=============================================================================
