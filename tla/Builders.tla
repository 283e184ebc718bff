------------------------------ MODULE Builders ------------------------------
(***************************************************************************)
(* The parameter builders of ucx-rs: a C struct, the mask that tells UCX   *)
(* which of its fields to read, and, for contexts, workers and endpoints,  *)
(* the CString the struct's name points to.  A setter writes a field and   *)
(* its bit; build() copies the struct and moves the CString out.  Builders *)
(* can be used again after build(), and Params outlive their builder.      *)
(*                                                                         *)
(* A field stands for all fields of its struct that are set alike, and has *)
(* a number, 0 in a zeroed struct; thread modes and memory types have      *)
(* UCX's numbers.  Builders of different kinds share nothing, so a         *)
(* behaviour has builders of one kind.                                     *)
(***************************************************************************)
EXTENDS FiniteSets, Conversions

CONSTANTS
    Builder,        \* variables for builders
    Param,          \* variables for built parameters
    Cell,           \* addresses of heap allocated CStrings
    Text,           \* names without an interior NUL
    NulText,        \* a name with one, which CString::new refuses
    Nil             \* no object; the null pointer

VARIABLES
    kind,           \* which builders this behaviour is about
    bld,            \* the builders
    par,            \* the built parameters
    mem             \* the CString at an address

vars == <<kind, bld, par, mem>>

----------------------------------------------------------------------------
(* The structs.                                                            *)

FieldsOf ==
    [context  |-> {"features", "size", "shared", "name"},
     worker   |-> {"thread_mode", "name"},
     ep       |-> {"mode", "cb", "arg", "name"},
     modify   |-> {"cb", "arg", "user_data"},
     request  |-> {"force_imm", "no_imm", "memory_type"},
     map      |-> {"address", "length"},
     advise   |-> {"address", "length"},
     pack     |-> {"flags"},
     am       |-> {"id", "user_arg"},
     listener |-> {"sockaddr", "conn_handler"}]

Kind == DOMAIN FieldsOf

NamedKind == {"context", "worker", "ep"}
Named == kind \in NamedKind

\* An argument as the setter stores it, and a stored value as UCX reads it.
Value == {"zero", "one"}

ToFfi(f, v) ==
    CASE f = "thread_mode" -> ThreadModeToFfi(v)
      [] f = "memory_type" -> MemoryTypeToFfi(v)
      [] OTHER             -> IF v = "zero" THEN 0 ELSE 1

FromFfi(f, raw) ==
    CASE f = "thread_mode" -> ThreadModeFromFfi(raw)
      [] f = "memory_type" -> MemoryTypeFromFfi(raw)
      [] OTHER             -> IF raw = 0 THEN "zero" ELSE "one"

\* The bit UCX tests before it reads a field: the handler's argument has none
\* of its own.
Bit(f) == IF f = "arg" THEN "cb" ELSE f

\* What a setter of f may be asked for; a name, until build() takes it.
Args(f) ==
    CASE f = "thread_mode" -> ThreadMode
      [] f = "memory_type" -> MemoryType
      [] f = "name"        -> Text \cup {"taken"}
      [] OTHER             -> Value

\* A builder, and what it builds.  The value of the field "name" is an
\* address.  shared is the copy of mt_workers_shared kept beside the struct.
\* asked is a history variable: the argument of the last setter call for a
\* field.
BuilderState(k) ==
    [mask   : SUBSET (FieldsOf[k] \ {"arg"}),
     val    : [FieldsOf[k] -> FfiThreadMode \cup FfiMemoryType \cup Cell \cup {Nil}],
     name   : Cell \cup {Nil},
     shared : BOOLEAN,
     asked  : [FieldsOf[k] -> {"unset"} \cup UNION {Args(f) : f \in FieldsOf[k]}]]

ASSUME NilAssumption ==
    /\ Nil \notin Cell \cup Text
    /\ \A k \in Kind : Nil \notin BuilderState(k)
ASSUME TextAssumption ==
    NulText \notin Text /\ Text \cap {"freed", "taken", "unset"} = {}

Zeroed ==
    [mask   |-> {},
     val    |-> [f \in FieldsOf[kind] |-> IF f = "name" THEN Nil ELSE 0],
     name   |-> Nil,
     shared |-> FALSE,
     asked  |-> [f \in FieldsOf[kind] |-> "unset"]]

Init ==
    /\ kind \in Kind
    /\ bld = [b \in Builder |-> Nil]
    /\ par = [p \in Param |-> Nil]
    /\ mem = [c \in Cell |-> "freed"]

----------------------------------------------------------------------------
(* Builders.                                                               *)

\* ParamsBuilder::new, in every module that has one.
New(b) ==
    /\ bld[b] = Nil
    /\ bld' = [bld EXCEPT ![b] = Zeroed]
    /\ UNCHANGED <<kind, par, mem>>

\* Mutant of Stored: a bit for every field, the handler's argument included.
StoredOwnBit(r, f, v) ==
    [r EXCEPT !.mask = @ \cup {f}, !.val[f] = ToFfi(f, v), !.asked[f] = v]

\* What a setter does to a builder.
Stored(r, f, v) ==
    [r EXCEPT !.mask = @ \cup (IF f = "arg" THEN {} ELSE {f}),
              !.val[f] = ToFfi(f, v),
              !.asked[f] = v]

Setter(k, b, f, v) ==
    /\ kind = k
    /\ bld[b] # Nil
    /\ bld' = [bld EXCEPT ![b] = Stored(bld[b], f, v)]
    /\ UNCHANGED <<kind, par, mem>>

\* context::ParamsBuilder::features; request_size, request_init,
\* request_cleanup, tag_sender_mask and the estimates are the field "size".
Features(b, v) == Setter("context", b, "features", v)
RequestSize(b) == Setter("context", b, "size", "one")

\* Mutant of MtWorkersShared: the copy beside the struct is forgotten.
MtWorkersSharedFieldOnly(b, v) == Setter("context", b, "shared", v)

\* context::ParamsBuilder::mt_workers_shared
MtWorkersShared(b, v) ==
    /\ kind = "context"
    /\ bld[b] # Nil
    /\ bld' = [bld EXCEPT ![b] = [Stored(bld[b], "shared", v)
                                  EXCEPT !.shared = (v # "zero")]]
    /\ UNCHANGED <<kind, par, mem>>

\* The setters of worker::ParamsBuilder; of ep::ParamsBuilder, but for
\* conn_request; of ModifyParamsBuilder.
WorkerSet(b, m) == Setter("worker", b, "thread_mode", m)
EpSet(b) == Setter("ep", b, "mode", "one")
EpErrHandler(b) == Setter("ep", b, "cb", "one")
EpErrHandlerArg(b, v) == Setter("ep", b, "arg", v)
ModifySet(b, f, v) == Setter("modify", b, f, v)

\* RequestParamBuilder: the two flags exclude each other, a call that would
\* set the second one panics.
ForceImmCmpl(b) ==
    /\ bld[b] # Nil
    /\ "no_imm" \notin bld[b].mask
    /\ Setter("request", b, "force_imm", "one")

NoImmCmpl(b) ==
    /\ bld[b] # Nil
    /\ "force_imm" \notin bld[b].mask
    /\ Setter("request", b, "no_imm", "one")

RequestSet(b, t) == Setter("request", b, "memory_type", t)

\* The setters of MemMapParamsBuilder, MemAdviseParamsBuilder and
\* MemhPackParamsBuilder.  address_slice calls two setters.
MemMapSet(b, f, v) == Setter("map", b, f, v)
MemAdviseSet(b, f, v) == Setter("advise", b, f, v)
MemhPackSet(b, v) == Setter("pack", b, "flags", v)

AddressSlice(b, v) ==
    /\ kind = "map"
    /\ bld[b] # Nil
    /\ bld' = [bld EXCEPT ![b] = Stored(Stored(bld[b], "address", v), "length", v)]
    /\ UNCHANGED <<kind, par, mem>>

\* The setters of HandlerParamsBuilder, whose argument has its own bit.
AmSet(b, f, v) == Setter("am", b, f, v)

\* The setters of listener::ParamsBuilder.
ListenerSet(b, f, v) == Setter("listener", b, f, v)

\* Dropping an Option<CString>.
MemWithout(name) == IF name = Nil THEN mem ELSE [mem EXCEPT ![name] = "freed"]

\* The builder with a name at c.  The struct does not point to it yet.
Renamed(r, c, t) ==
    [r EXCEPT !.mask = @ \cup {"name"}, !.name = c, !.asked["name"] = t]

\* name() of the context, worker and endpoint builders.  A name with an
\* interior NUL changes nothing; otherwise the old CString is dropped once the
\* new one is allocated.
Name(b, t) ==
    /\ Named
    /\ bld[b] # Nil
    /\ IF t = NulText THEN UNCHANGED <<bld, mem>>
       ELSE \E c \in {x \in Cell : mem[x] = "freed"} :
                /\ bld' = [bld EXCEPT ![b] = Renamed(bld[b], c, t)]
                /\ mem' = [MemWithout(bld[b].name) EXCEPT ![c] = t]
    /\ UNCHANGED <<kind, par>>

----------------------------------------------------------------------------
(* Built parameters.                                                       *)

\* The struct of the built parameters: only here does it get the name.
Built(r) == IF r.name = Nil THEN r ELSE [r EXCEPT !.val["name"] = r.name]

\* The builder after build(): its name was taken, its mask was not.
Leftover(r) ==
    IF r.name = Nil THEN r
    ELSE [r EXCEPT !.name = Nil, !.asked["name"] = "taken"]

\* Mutant of Build: the pointer is written into the builder's own struct,
\* before the copy.
BuildInPlace(b, p) ==
    /\ bld[b] # Nil
    /\ par[p] = Nil
    /\ par' = [par EXCEPT ![p] = Built(bld[b])]
    /\ bld' = [bld EXCEPT ![b] = Leftover(Built(bld[b]))]
    /\ UNCHANGED <<kind, mem>>

\* build(): by reference, but by value in listener::ParamsBuilder.
Build(b, p) ==
    /\ bld[b] # Nil
    /\ par[p] = Nil
    /\ par' = [par EXCEPT ![p] = Built(bld[b])]
    /\ bld' = [bld EXCEPT ![b] = IF kind = "listener" THEN Nil ELSE Leftover(bld[b])]
    /\ UNCHANGED <<kind, mem>>

\* RequestParamBuilder is Copy, HandlerParamsBuilder is Clone.
CopyBuilder(b, c) ==
    /\ kind \in {"request", "am"}
    /\ bld[b] # Nil
    /\ bld[c] = Nil
    /\ bld' = [bld EXCEPT ![c] = bld[b]]
    /\ UNCHANGED <<kind, par, mem>>

DropBuilder(b) ==
    /\ bld[b] # Nil
    /\ mem' = MemWithout(bld[b].name)
    /\ bld' = [bld EXCEPT ![b] = Nil]
    /\ UNCHANGED <<kind, par>>

\* Also the end of Worker::create_ep, which takes its parameters by value.
DropParams(p) ==
    /\ par[p] # Nil
    /\ mem' = MemWithout(par[p].name)
    /\ par' = [par EXCEPT ![p] = Nil]
    /\ UNCHANGED <<kind, bld>>

\* Context::new: the admission test before ucp_init_version.
Admits(r) ==
    /\ "features" \in r.mask
    /\ r.val["features"] # 0
    /\ r.shared
    /\ "shared" \in r.mask
    /\ r.val["shared"] # 0

\* What UCX finds in a field when it is given r.
UcxReads(r, f) ==
    IF Bit(f) \notin r.mask THEN "unset"
    ELSE IF f # "name" THEN FromFfi(f, r.val[f])
    ELSE IF r.val[f] = Nil THEN "null" ELSE mem[r.val[f]]

----------------------------------------------------------------------------

Set ==
    \E b \in Builder :
        \/ RequestSize(b) \/ ForceImmCmpl(b) \/ NoImmCmpl(b)
        \/ EpSet(b) \/ EpErrHandler(b)
        \/ \E m \in ThreadMode : WorkerSet(b, m)
        \/ \E t \in MemoryType : RequestSet(b, t)
        \/ \E v \in Value :
              \/ Features(b, v) \/ MtWorkersShared(b, v)
              \/ EpErrHandlerArg(b, v) \/ AddressSlice(b, v)
              \/ \E f \in FieldsOf["modify"] : ModifySet(b, f, v)
              \/ \E f \in FieldsOf["map"] : MemMapSet(b, f, v)
              \/ \E f \in FieldsOf["advise"] : MemAdviseSet(b, f, v)
              \/ MemhPackSet(b, v)
              \/ \E f \in FieldsOf["am"] : AmSet(b, f, v)
              \/ \E f \in FieldsOf["listener"] : ListenerSet(b, f, v)
        \/ \E t \in Text \cup {NulText} : Name(b, t)

Next ==
    \/ Set
    \/ \E b \in Builder : New(b) \/ DropBuilder(b)
    \/ \E b, c \in Builder : CopyBuilder(b, c)
    \/ \E b \in Builder, p \in Param : Build(b, p)
    \/ \E p \in Param : DropParams(p)

Spec == Init /\ [][Next]_vars

----------------------------------------------------------------------------
(* Properties.                                                             *)

\* Every variable has its type; the handler's argument adds no mask bit.
TypeOK ==
    /\ kind \in Kind
    /\ bld \in [Builder -> BuilderState(kind) \cup {Nil}]
    /\ par \in [Param -> BuilderState(kind) \cup {Nil}]
    /\ mem \in [Cell -> Text \cup {"freed"}]

BuildersOf(c) == {b \in Builder : bld[b] # Nil /\ bld[b].name = c}
ParamsOf(c) == {p \in Param : par[p] # Nil /\ par[p].name = c}

\* Every CString that name() allocated has one owner, the builder or the
\* parameters build() moved it to: none is leaked, none is dropped twice.
NameOneOwner ==
    \A c \in Cell :
        Cardinality(BuildersOf(c)) + Cardinality(ParamsOf(c))
            = IF mem[c] = "freed" THEN 0 ELSE 1

\* The field is one of r's own: a name that an earlier build() moved out of the
\* builder belongs to the parameters it was moved to.
OwnField(r, f) == f # "name" \/ r.asked[f] # "taken"

\* What the program asked for before build() is what UCX reads from the
\* parameters as long as they live, whatever became of the builder since: set
\* again, renamed, built again, dropped; an unknown thread mode is read as the
\* multi-threaded one.  And parameters never point to the CString of others,
\* also not when the builder was built before.
UcxReadsAsked ==
    \A p \in Param : par[p] # Nil =>
        /\ Named => par[p].val["name"] \in {Nil, par[p].name}
        /\ \A f \in {g \in FieldsOf[kind] : OwnField(par[p], g)} :
            LET asked == par[p].asked
            IN  UcxReads(par[p], f) =
                    CASE f = "thread_mode" /\ asked[f] = "unknown" -> "multi"
                      [] Bit(f) # f /\ asked[Bit(f)] = "unset" -> "unset"
                      [] /\ Bit(f) # f /\ asked[Bit(f)] # "unset"
                         /\ asked[f] = "unset"            -> "zero"
                      [] OTHER                             -> asked[f]

\* Context::new admits exactly the parameters whose program asked for a
\* feature and for sharing, also after it first asked for the opposite.
AdmissionExact ==
    kind = "context" =>
        \A p \in Param : par[p] # Nil =>
            (Admits(par[p]) <=> /\ par[p].asked["features"] = "one"
                                /\ par[p].asked["shared"] = "one")

\* What a setter converts reaches UCX unchanged: the socket addresses of
\* endpoints and listeners, the datatypes of requests.
ConversionsExact ==
    /\ kind \in {"ep", "listener"} => SocketAddrsSurvive
    /\ kind = "request" => ContigExact

----------------------------------------------------------------------------
(* The inductive invariant behind these properties.                        *)

\* A struct of kind k holds what was asked for, converted, and its mask tells
\* which fields were.
StructAsked(k, r) ==
    /\ \A f \in FieldsOf[k] :
          /\ r.asked[f] \in Args(f) \cup {"unset"}
          /\ f # "arg" => (f \in r.mask <=> r.asked[f] # "unset")
          /\ f # "name" => r.val[f] = IF r.asked[f] = "unset" THEN 0
                                     ELSE ToFfi(f, r.asked[f])
    /\ k = "context" => (r.shared <=> r.asked["shared"] = "one")

\* A name in the memory m is the one that was asked for, unless build() took
\* it; pointer is what the struct has for it.
NameAsked(k, m, r, pointer) ==
    IF k \in NamedKind
    THEN /\ r.val["name"] = pointer
         /\ IF r.name = Nil THEN r.asked["name"] \in {"unset", "taken"}
            ELSE m[r.name] \in Text /\ r.asked["name"] = m[r.name]
    ELSE r.name = Nil

\* Builders do not point to their name, built parameters do.
Faithful ==
    /\ \A b \in Builder : bld[b] # Nil =>
          StructAsked(kind, bld[b]) /\ NameAsked(kind, mem, bld[b], Nil)
    /\ \A p \in Param : par[p] # Nil =>
          StructAsked(kind, par[p]) /\ NameAsked(kind, mem, par[p], par[p].name)

HasName(r) == r # Nil /\ r.name # Nil

\* No two owners of a CString, and no CString without an owner.
NamesOwned ==
    /\ \A b, c \in Builder :
          HasName(bld[b]) /\ HasName(bld[c]) /\ bld[b].name = bld[c].name => b = c
    /\ \A p, q \in Param :
          HasName(par[p]) /\ HasName(par[q]) /\ par[p].name = par[q].name => p = q
    /\ \A b \in Builder, p \in Param :
          HasName(bld[b]) /\ HasName(par[p]) => bld[b].name # par[p].name
    /\ \A c \in Cell : mem[c] # "freed" =>
          \/ \E b \in Builder : bld[b] # Nil /\ bld[b].name = c
          \/ \E p \in Param : par[p] # Nil /\ par[p].name = c

\* The inductive invariant, with the type invariant.
BuildersInv == TypeOK /\ Faithful /\ NamesOwned
=============================================================================
