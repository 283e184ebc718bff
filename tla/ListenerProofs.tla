--------------------------- MODULE ListenerProofs ---------------------------
(***************************************************************************)
(* Proofs about Listener, for any finite number of connection requests:    *)
(* the reference count is exact, ListenerState is freed when nobody can    *)
(* be inside it, the listener is destroyed with its last owner, and a      *)
(* request is used once.                                                   *)
(***************************************************************************)
EXTENDS Listener, FiniteSetTheorems, TLAPS

USE ListenerConstants

----------------------------------------------------------------------------
(* Counting.                                                               *)

LEMMA KeepingFinite ==
    /\ IsFiniteSet(Keeping)
    /\ Cardinality(Keeping) \in Nat
    /\ Cardinality(Keeping) <= Cardinality(Req)
    /\ Cardinality(Keeping) = 0 <=> Keeping = {}
    /\ Cardinality(Req) \in Nat
  <1>1. Keeping \subseteq Req
    BY DEF Keeping
  <1>2. /\ IsFiniteSet(Keeping)
        /\ Cardinality(Keeping) <= Cardinality(Req)
    BY <1>1, FS_Subset
  <1> QED BY <1>2, FS_CardinalityType, FS_EmptySet

LEMMA KeepingFiniteNext ==
    /\ Cardinality(Keeping)' \in Nat
    /\ Cardinality(Keeping)' <= Cardinality(Req)
    /\ Cardinality(Keeping)' = 0 <=> Keeping' = {}
  <1>1. (/\ Cardinality(Keeping) \in Nat
         /\ Cardinality(Keeping) <= Cardinality(Req)
         /\ Cardinality(Keeping) = 0 <=> Keeping = {})'
    BY KeepingFinite, PTL
  <1> QED BY <1>1

\* The program's requests before and after a step, but for r.
SameBut(r) ==
    \A q \in Req \ {r} : conn'[q] \in Held <=> conn[q] \in Held

LEMMA KeepingKept ==
    ASSUME UNCHANGED raw, \A q \in Req : conn'[q] \in Held <=> conn[q] \in Held
    PROVE  Cardinality(Keeping)' = Cardinality(Keeping)
  <1>1. Keeping' = Keeping
    BY DEF Keeping
  <1> QED BY <1>1

LEMMA KeepingMore ==
    ASSUME ~raw, UNCHANGED raw, NEW r \in Req, SameBut(r),
           conn[r] \notin Held, conn'[r] \in Held
    PROVE  Cardinality(Keeping)' = Cardinality(Keeping) + 1
  <1>1. Keeping' = Keeping \cup {r} /\ r \notin Keeping
    BY DEF Keeping, SameBut
  <1> QED BY <1>1, KeepingFinite, FS_AddElement

LEMMA KeepingLess ==
    ASSUME ~raw, UNCHANGED raw, NEW r \in Req, SameBut(r),
           conn[r] \in Held, conn'[r] \notin Held
    PROVE  Cardinality(Keeping)' = Cardinality(Keeping) - 1
  <1>1. Keeping' = Keeping \ {r} /\ r \in Keeping
    BY DEF Keeping, SameBut
  <1> QED BY <1>1, KeepingFinite, FS_RemoveElement

\* Requests of a raw callback are not counted.
LEMMA KeepingRaw ==
    ASSUME raw, UNCHANGED raw
    PROVE  Cardinality(Keeping)' = Cardinality(Keeping)
  <1>1. Keeping' = Keeping
    BY DEF Keeping
  <1> QED BY <1>1

LEMMA OwnersNat == Owners \in 0 .. Cardinality(Req) + 2
  BY KeepingFinite DEF Owners

----------------------------------------------------------------------------
(* The reference count.                                                    *)

\* Owners stay as many as they are.
LEMMA CountKept ==
    ASSUME Counted, Owners' = Owners, UNCHANGED <<refs, dropping, mem, handle>>
    PROVE  Counted'
  BY DEF Counted

\* One owner fewer: the last one starts the drop of the state.
LEMMA RefDropped ==
    ASSUME TypeOK, Counted, NEW p \in Proc, DropRef(p),
           Owners >= 1, Owners' = Owners - 1, UNCHANGED <<mem, handle>>
    PROVE  /\ Counted'
           /\ refs' \in 0 .. Cardinality(Req) + 2
           /\ dropping' \in [Proc -> {"no", "load", "destroy", "free"}]
           /\ mem = "live" /\ refs >= 1
           /\ dropping'["cb"] # "no" => p = "cb" /\ Owners' = 0
  <1>1. refs = Owners /\ mem = "live" /\ \A q \in Proc : dropping[q] = "no"
    BY OwnersNat DEF Counted
  <1>2. refs' = refs - 1 /\ refs' \in 0 .. Cardinality(Req) + 2
    BY <1>1, OwnersNat, KeepingFinite DEF DropRef
  <1>3. CASE refs = 1
    <2>1. dropping' = [dropping EXCEPT ![p] = "load"] /\ refs' = 0
      BY <1>2, <1>3 DEF DropRef
    <2>2. /\ dropping'[p] = "load"
          /\ \A q \in Proc \ {p} : dropping'[q] = "no"
          /\ dropping' \in [Proc -> {"no", "load", "destroy", "free"}]
      BY <1>1, <2>1 DEF TypeOK
    <2>3. Owners' = 0
      BY <1>1, <1>3
    <2> QED BY <1>1, <1>2, <2>1, <2>2, <2>3 DEF Counted, Proc
  <1>4. CASE refs # 1
    <2>1. dropping' = dropping /\ refs' > 0
      BY <1>1, <1>2, <1>4, OwnersNat DEF DropRef
    <2>2. dropping' \in [Proc -> {"no", "load", "destroy", "free"}]
      BY <2>1 DEF TypeOK
    <2>3. refs' = Owners' /\ refs' # 0
      BY <1>1, <1>2, <2>1
    <2>4. \A q \in Proc : dropping'[q] = "no"
      BY <1>1, <2>1
    <2>5. Counted'
      BY <1>1, <2>3, <2>4 DEF Counted
    <2>6. refs >= 1
      BY <1>1
    <2> QED BY <1>1, <1>2, <2>1, <2>2, <2>4, <2>5, <2>6 DEF Proc
  <1> QED BY <1>3, <1>4

\* A request the program has is dropped: r goes, nothing else does.
LEMMA RequestDropped ==
    ASSUME TypeOK, Counted, NEW p \in Proc, DropRequest(p),
           NEW r \in Req, conn[r] \in Held, conn'[r] \notin Held, SameBut(r),
           UNCHANGED <<life, raw, mem, handle>>,
           cb'.at \in {"call", "end"} <=> cb.at \in {"call", "end"}
    PROVE  /\ Counted'
           /\ refs' \in 0 .. Cardinality(Req) + 2
           /\ dropping' \in [Proc -> {"no", "load", "destroy", "free"}]
           /\ ~raw /\ dropping'["cb"] # "no" => p = "cb" /\ Owners' = 0
           /\ ~raw => mem = "live" /\ refs >= 1
           /\ raw => UNCHANGED <<refs, dropping>>
  <1>1. CASE raw
    <2>1. Owners' = Owners /\ UNCHANGED <<refs, dropping>>
      BY <1>1, KeepingRaw DEF DropRequest, Owners
    <2> QED BY <1>1, <2>1, CountKept DEF TypeOK
  <1>2. CASE ~raw
    <2>1. Owners' = Owners - 1
      BY <1>2, KeepingLess, KeepingFinite DEF Owners
    <2>2. Owners >= 1
      <3>1. r \in Keeping
        BY <1>2 DEF Keeping
      <3>2. Cardinality(Keeping) # 0
        BY <3>1, KeepingFinite
      <3> QED BY <3>2, KeepingFinite DEF Owners
    <2>3. DropRef(p)
      BY <1>2 DEF DropRequest
    <2> QED BY <1>2, <2>1, <2>2, <2>3, RefDropped
  <1> QED BY <1>1, <1>2

LEMMA InitIndInv == Init => IndInv
  <1> SUFFICES ASSUME Init PROVE IndInv
    OBVIOUS
  <1> USE DEF Init, NoParams, NoCb
  <1>1. Keeping = {} /\ Cardinality(Keeping) = 0
    <2>1. Keeping = {}
      BY DEF Keeping, Held
    <2> QED BY <2>1, FS_EmptySet
  <1>2. TypeOK
    <2>1. 0 \in 0 .. Cardinality(Req) + 2
      BY KeepingFinite
    <2>2. cb \in [at : {"idle", "enter", "call", "end"}, req : Req \cup {Nil}]
      OBVIOUS
    <2>3. NoParams \in [set : BOOLEAN, ptr : Req \cup {Nil}, own : Req \cup {Nil}]
      OBVIOUS
    <2> QED BY <2>1, <2>2, <2>3 DEF TypeOK
  <1>3. Phase /\ CbShape /\ ParamsShape /\ UsesShape /\ WorkerLast
    BY DEF Phase, CbShape, ParamsShape, UsesShape, WorkerLast
  <1>4. Counted
    BY <1>1 DEF Counted, Owners
  <1> QED BY <1>2, <1>3, <1>4 DEF IndInv, Dying

----------------------------------------------------------------------------
(* Creating and dropping the listener.                                     *)

\* No owner comes or goes.
LEMMA OwnersKept ==
    ASSUME UNCHANGED raw,
           \A q \in Req : conn'[q] \in Held <=> conn[q] \in Held,
           life' \in {"ucx", "publish", "open"} <=> life \in {"ucx", "publish", "open"},
           cb'.at \in {"call", "end"} <=> cb.at \in {"call", "end"}
    PROVE  Owners' = Owners
  BY KeepingKept DEF Owners

\* Before there is a state nothing refers to one.
LEMMA NothingYet ==
    ASSUME IndInv, life = "none"
    PROVE  /\ refs = 0 /\ cb.at = "idle"
           /\ \A p \in Proc : dropping[p] = "no"
           /\ Keeping = {} /\ Cardinality(Keeping) = 0
           /\ \A r \in Req : conn[r] \notin Held
  <1>1. refs = 0 /\ mem = "none" /\ ~raw
    BY DEF IndInv, Phase, Counted
  <1>2. Owners = 0
    BY <1>1 DEF IndInv, Counted
  <1>3. Cardinality(Keeping) = 0 /\ cb.at \notin {"call", "end"}
    BY <1>2, KeepingFinite DEF Owners
  <1>4. cb.at = "idle"
    <2>2. cb.at # "enter"
      BY DEF IndInv, Phase, CbShape
    <2>3. cb.at \in {"idle", "enter", "call", "end"}
      BY DEF IndInv, TypeOK
    <2> QED BY <1>3, <2>2, <2>3
  <1>5. \A p \in Proc : dropping[p] = "no"
    BY <1>1 DEF IndInv, Counted
  <1>6. Keeping = {}
    BY <1>3, KeepingFinite
  <1>7. \A r \in Req : conn[r] \notin Held
    BY <1>1, <1>6 DEF Keeping
  <1> QED BY <1>1, <1>3, <1>4, <1>5, <1>6, <1>7

LEMMA CreateStep ==
    ASSUME IndInv, Create
    PROVE  IndInv'
  <1> USE DEF Create, Main
  <1>1. /\ refs' = 1 /\ 1 \in 0 .. Cardinality(Req) + 2
        /\ cb.at = "idle" /\ ~raw
        /\ \A p \in Proc : dropping[p] = "no"
    BY NothingYet, KeepingFinite DEF IndInv, Phase
  <1>2. TypeOK'
    BY <1>1 DEF IndInv, TypeOK
  <1>3. Owners' = 1
    <2>1. Cardinality(Keeping)' = 0
      BY NothingYet, KeepingKept
    <2> QED BY <1>1, <2>1 DEF Owners
  <1>4. Counted'
    BY <1>1, <1>3 DEF Counted
  <1>5. Phase' /\ CbShape' /\ ParamsShape' /\ UsesShape' /\ WorkerLast'
    BY <1>1 DEF IndInv, Phase, CbShape, ParamsShape, UsesShape, WorkerLast
  <1> QED BY <1>2, <1>4, <1>5 DEF IndInv, Dying

LEMMA CreateWithParamsStep ==
    ASSUME IndInv, CreateWithParams
    PROVE  IndInv'
  <1> USE DEF CreateWithParams, Main
  <1>1. /\ refs = 0 /\ cb.at = "idle" /\ ~handle /\ mem = "none" /\ ucxl = "none"
        /\ \A p \in Proc : dropping[p] = "no"
        /\ \A r \in Req : conn[r] \notin Held
    BY NothingYet DEF IndInv, Phase
  <1>2. 0 \in 0 .. Cardinality(Req) + 2 /\ 1 \in 0 .. Cardinality(Req) + 2
    BY KeepingFinite
  <1>3. refs' \in 0 .. Cardinality(Req) + 2
    BY <1>1, <1>2
  <1>4. TypeOK'
    <2>1. /\ life' \in {"open", "failed"}
          /\ raw' \in BOOLEAN /\ handle' \in BOOLEAN
          /\ mem' \in {"none", "live"} /\ ucxl' \in {"none", "live"}
      BY <1>1 DEF IndInv, TypeOK
    <2> QED BY <1>3, <2>1 DEF IndInv, TypeOK
  <1>5. Cardinality(Keeping)' = 0
    <2>1. Keeping' = {}
      BY <1>1 DEF Keeping
    <2> QED BY <2>1, KeepingFiniteNext
  <1>6. Owners' = IF life' = "open" THEN 1 ELSE 0
    BY <1>1, <1>5 DEF Owners
  <1>7. Counted'
    <2>1. CASE life' = "open"
      BY <1>1, <1>6, <2>1 DEF Counted
    <2>2. CASE life' = "failed"
      BY <1>1, <1>6, <2>2 DEF Counted
    <2> QED BY <2>1, <2>2
  <1>8. Phase' /\ CbShape' /\ ParamsShape' /\ UsesShape' /\ WorkerLast'
    BY <1>1 DEF IndInv, Phase, CbShape, ParamsShape, UsesShape, WorkerLast
  <1> QED BY <1>4, <1>7, <1>8 DEF IndInv, Dying

LEMMA CreateReturnStep ==
    ASSUME IndInv, CreateReturn
    PROVE  IndInv'
  <1> USE DEF CreateReturn, Main
  <1>1. CASE life' = "publish" /\ ucxl' = "live" /\ UNCHANGED <<refs, dropping>>
    <2>1. TypeOK'
      BY <1>1 DEF IndInv, TypeOK
    <2>2. Owners' = Owners
      BY <1>1, OwnersKept
    <2>3. Counted'
      BY <1>1, <2>2, CountKept DEF IndInv
    <2> QED BY <1>1, <2>1, <2>3
        DEF IndInv, Dying, Phase, CbShape, ParamsShape, UsesShape, WorkerLast
  <1>2. CASE life' = "failed" /\ DropRef("main") /\ UNCHANGED ucxl
    <2>1. Owners' = Owners - 1 /\ Owners >= 1
      BY <1>2, KeepingFinite, KeepingKept DEF Owners
    <2>2. /\ Counted'
          /\ refs' \in 0 .. Cardinality(Req) + 2
          /\ dropping' \in [Proc -> {"no", "load", "destroy", "free"}]
          /\ dropping'["cb"] = "no"
      BY <1>2, <2>1, RefDropped DEF IndInv, Proc
    <2>3. TypeOK'
      BY <1>2, <2>2 DEF IndInv, TypeOK
    <2> QED BY <1>2, <2>2, <2>3
        DEF IndInv, Dying, Phase, CbShape, ParamsShape, UsesShape, WorkerLast
  <1> QED BY <1>1, <1>2

LEMMA PublishStep ==
    ASSUME IndInv, Publish
    PROVE  IndInv'
  <1> USE DEF Publish, Main
  <1>1. TypeOK'
    BY DEF IndInv, TypeOK
  <1>2. Owners' = Owners
    BY OwnersKept
  <1>3. refs >= 1
    BY KeepingFinite DEF IndInv, Counted, Owners
  <1>4. Counted'
    BY <1>2, <1>3 DEF IndInv, Counted, Phase
  <1> QED BY <1>1, <1>4
      DEF IndInv, Dying, Phase, CbShape, ParamsShape, UsesShape, WorkerLast

LEMMA ListenerQueryStep ==
    ASSUME IndInv, ListenerQuery
    PROVE  IndInv'
  <1> USE DEF ListenerQuery, Main, ListenerUb
  <1>1. handle /\ mem = "live" /\ ucxl = "live"
    BY DEF IndInv, Phase
  <1>2. ub' \subseteq {"dead worker"}
    BY <1>1
  <1>3. TypeOK'
    BY <1>2 DEF IndInv, TypeOK
  <1>4. Owners' = Owners
    BY OwnersKept
  <1>5. Counted'
    BY <1>4, CountKept DEF IndInv
  <1>6. WorkerLast'
    BY <1>1 DEF IndInv, WorkerLast
  <1> QED BY <1>2, <1>3, <1>5, <1>6
      DEF IndInv, Dying, Phase, CbShape, ParamsShape, UsesShape

LEMMA DropListenerStep ==
    ASSUME IndInv, DropListener
    PROVE  IndInv'
  <1> USE DEF DropListener, Main
  <1>1. Owners' = Owners - 1 /\ Owners >= 1
    BY KeepingFinite, KeepingKept DEF Owners
  <1>2. /\ Counted'
        /\ refs' \in 0 .. Cardinality(Req) + 2
        /\ dropping' \in [Proc -> {"no", "load", "destroy", "free"}]
        /\ dropping'["cb"] = "no"
    BY <1>1, RefDropped DEF IndInv, Proc
  <1>3. TypeOK'
    BY <1>2 DEF IndInv, TypeOK
  <1> QED BY <1>2, <1>3
      DEF IndInv, Dying, Phase, CbShape, ParamsShape, UsesShape, WorkerLast

LEMMA DropWorkerStep ==
    ASSUME IndInv, DropWorker
    PROVE  IndInv'
  <1> USE DEF DropWorker, Main
  <1>1. TypeOK'
    BY DEF IndInv, TypeOK
  <1>2. Owners' = Owners
    BY OwnersKept
  <1>3. Counted'
    BY <1>2, CountKept DEF IndInv
  <1>4. WorkerLast'
    <2> SUFFICES ASSUME ~KeepPastWorker
                 PROVE  mem # "live" /\ \A r \in Req : conn[r] \notin Held
      BY DEF IndInv, WorkerLast
    <2>1. \A r \in Req : conn[r] \notin Held
      OBVIOUS
    <2>2. Cardinality(Keeping) = 0
      <3>1. Keeping = {}
        BY <2>1 DEF Keeping
      <3> QED BY <3>1, KeepingFinite
    <2>3. refs = 0
      BY <2>2 DEF IndInv, Counted, Owners
    <2>4. \A p \in Proc : dropping[p] = "no"
      BY DEF Proc
    <2>5. mem # "live"
      BY <2>3, <2>4 DEF IndInv, Counted
    <2> QED BY <2>1, <2>5
  <1> QED BY <1>1, <1>3, <1>4
      DEF IndInv, Dying, Phase, CbShape, ParamsShape, UsesShape

----------------------------------------------------------------------------
(* ListenerState::drop.                                                    *)

\* Who drops the state does so alone, after its last owner.
LEMMA Dropping ==
    ASSUME IndInv, NEW p \in Proc, dropping[p] # "no"
    PROVE  /\ mem = "live" /\ refs = 0
           /\ life \in {"failed", "dropped"}
           /\ \A q \in Proc \ {p} : dropping[q] = "no"
           /\ handle => life = "dropped" /\ ucxl = "live"
  <1>1. mem = "live" /\ refs = 0 /\ \A q \in Proc \ {p} : dropping[q] = "no"
    BY DEF IndInv, Counted
  <1>2. Owners = 0
    BY <1>1 DEF IndInv, Counted
  <1>3. life \notin {"ucx", "publish", "open"}
    BY <1>2, KeepingFinite DEF Owners
  <1>4. life \in {"failed", "dropped"}
    BY <1>1, <1>3 DEF IndInv, TypeOK, Phase
  <1> QED BY <1>1, <1>4 DEF IndInv, Dying, Phase

LEMMA DropLoadStep ==
    ASSUME IndInv, NEW p \in Proc, DropLoad(p)
    PROVE  IndInv'
  <1> USE DEF DropLoad
  <1>1. /\ mem = "live" /\ refs = 0
        /\ \A q \in Proc \ {p} : dropping[q] = "no"
    BY Dropping
  <1>2. /\ dropping' \in [Proc -> {"no", "load", "destroy", "free"}]
        /\ dropping'[p] = IF handle THEN "destroy" ELSE "free"
        /\ \A q \in Proc \ {p} : dropping'[q] = "no"
    BY <1>1 DEF IndInv, TypeOK
  <1>3. TypeOK'
    BY <1>2 DEF IndInv, TypeOK
  <1>4. Owners' = Owners
    BY OwnersKept
  <1>5. Counted'
    BY <1>1, <1>2, <1>4 DEF IndInv, Counted
  <1> QED BY <1>3, <1>5
      DEF IndInv, Dying, Phase, CbShape, ParamsShape, UsesShape, WorkerLast

LEMMA DropDestroyStep ==
    ASSUME IndInv, NEW p \in Proc, DropDestroy(p)
    PROVE  IndInv'
  <1> USE DEF DropDestroy
  <1>1. /\ mem = "live" /\ refs = 0 /\ handle
        /\ life = "dropped" /\ ucxl = "live"
        /\ \A q \in Proc \ {p} : dropping[q] = "no"
    BY Dropping DEF IndInv, Counted
  <1>2. /\ dropping' \in [Proc -> {"no", "load", "destroy", "free"}]
        /\ dropping'[p] = "free"
        /\ \A q \in Proc \ {p} : dropping'[q] = "no"
    BY <1>1 DEF IndInv, TypeOK
  <1>3. TypeOK'
    BY <1>2 DEF IndInv, TypeOK
  <1>4. Owners' = Owners
    BY OwnersKept
  <1>5. Counted'
    BY <1>1, <1>2, <1>4 DEF IndInv, Counted
  <1>6. Phase'
    BY <1>1 DEF IndInv, Phase
  <1>7. WorkerLast' /\ ub' \subseteq {"dead worker"}
    BY <1>1 DEF IndInv, WorkerLast
  <1>8. CbShape'
    <2>1. cb.at = "idle"
      BY DEF IndInv, CbShape, Proc
    <2> QED BY <2>1 DEF IndInv, CbShape
  <1> QED BY <1>3, <1>5, <1>6, <1>7, <1>8
      DEF IndInv, Dying, ParamsShape, UsesShape

LEMMA DropFreeStep ==
    ASSUME IndInv, NEW p \in Proc, DropFree(p)
    PROVE  IndInv'
  <1> USE DEF DropFree
  <1>1. /\ mem = "live" /\ refs = 0 /\ ~handle
        /\ life \in {"failed", "dropped"}
        /\ \A q \in Proc \ {p} : dropping[q] = "no"
    BY Dropping DEF IndInv, Counted
  <1>2. /\ dropping' \in [Proc -> {"no", "load", "destroy", "free"}]
        /\ \A q \in Proc : dropping'[q] = "no"
    BY <1>1 DEF IndInv, TypeOK
  <1>3. TypeOK'
    BY <1>2 DEF IndInv, TypeOK
  <1>4. Owners' = Owners
    BY OwnersKept
  <1>5. Counted'
    BY <1>1, <1>2, <1>4 DEF IndInv, Counted
  <1>6. Phase'
    BY <1>1 DEF IndInv, Phase
  <1> QED BY <1>3, <1>5, <1>6
      DEF IndInv, Dying, CbShape, ParamsShape, UsesShape, WorkerLast

----------------------------------------------------------------------------
(* conn_trampoline.                                                        *)

LEMMA ArriveStep ==
    ASSUME IndInv, NEW r \in Req, Arrive(r)
    PROVE  IndInv'
  <1> USE DEF Arrive
  <1>1. /\ conn' \in [Req -> {"none", "pending", "gone"} \cup Held]
        /\ conn'[r] = "pending"
        /\ \A q \in Req \ {r} : conn'[q] = conn[q]
    BY DEF IndInv, TypeOK
  <1>2. TypeOK'
    BY <1>1 DEF IndInv, TypeOK
  <1>3. \A q \in Req : conn'[q] \in Held <=> conn[q] \in Held
    BY <1>1 DEF Held
  <1>4. Owners' = Owners
    BY <1>3, OwnersKept
  <1>5. Counted'
    BY <1>4, CountKept DEF IndInv
  <1>6. CbShape' /\ ParamsShape' /\ UsesShape'
    BY <1>1 DEF IndInv, CbShape, ParamsShape, UsesShape
  <1> QED BY <1>2, <1>3, <1>5, <1>6 DEF IndInv, Dying, Phase, WorkerLast

LEMMA DeliverStep ==
    ASSUME IndInv, NEW r \in Req, Deliver(r)
    PROVE  IndInv'
  <1> USE DEF Deliver
  <1>1. TypeOK'
    BY DEF IndInv, TypeOK
  <1>2. Owners' = Owners
    BY OwnersKept
  <1>3. Counted'
    BY <1>2, CountKept DEF IndInv
  <1>4. CbShape'
    BY DEF IndInv, CbShape
  <1> QED BY <1>1, <1>3, <1>4
      DEF IndInv, Dying, Phase, ParamsShape, UsesShape, WorkerLast

LEMMA FromRawStep ==
    ASSUME IndInv, NEW r \in Req, FromRaw(r)
    PROVE  IndInv'
  <1> USE DEF FromRaw
  <1>1. /\ conn' \in [Req -> {"none", "pending", "gone"} \cup Held]
        /\ conn'[r] = "kept"
        /\ \A q \in Req \ {r} : conn'[q] = conn[q]
    BY DEF IndInv, TypeOK, Held
  <1>2. TypeOK'
    BY <1>1 DEF IndInv, TypeOK
  <1>3. Owners' = Owners
    BY KeepingRaw DEF Owners
  <1>4. Counted'
    BY <1>3, CountKept DEF IndInv
  <1>5. CbShape' /\ ParamsShape' /\ UsesShape'
    BY <1>1 DEF IndInv, CbShape, ParamsShape, UsesShape
  <1> QED BY <1>2, <1>4, <1>5 DEF IndInv, Dying, Phase, WorkerLast

LEMMA CbTakeRetained ==
    ASSUME IndInv, CbTake, refs > 0
    PROVE  IndInv'
  <1> USE DEF CbTake
  <1>0. /\ refs # 0 /\ refs' = refs + 2
        /\ conn' = [conn EXCEPT ![cb.req] = "made"]
        /\ cb' = [cb EXCEPT !.at = "call"]
        /\ ub' = {}
    <2>1. refs # 0
      BY KeepingFinite DEF IndInv, TypeOK
    <2> QED BY <2>1 DEF TakeRefs
  <1>1. cb.req \in Req /\ ~raw /\ conn[cb.req] = "pending"
    BY DEF IndInv, CbShape
  <1>2. refs = Owners /\ mem = "live" /\ \A p \in Proc : dropping[p] = "no"
    BY <1>0 DEF IndInv, Counted, TypeOK
  <1>4. /\ conn' \in [Req -> {"none", "pending", "gone"} \cup Held]
        /\ conn'[cb.req] = "made"
        /\ \A q \in Req \ {cb.req} : conn'[q] = conn[q]
    BY <1>0, <1>1 DEF IndInv, TypeOK, Held
  <1>5. cb' = [at |-> "call", req |-> cb.req]
    BY <1>0 DEF IndInv, TypeOK
  <1>6. Cardinality(Keeping)' = Cardinality(Keeping) + 1
    BY <1>1, <1>4, KeepingMore DEF SameBut, Held
  <1>7. Owners' = Owners + 2
    BY <1>5, <1>6, KeepingFinite DEF Owners
  <1>8. refs' = Owners' /\ refs' \in 0 .. Cardinality(Req) + 2
    <2>1. refs' = Owners'
      BY <1>0, <1>2, <1>7
    <2>2. (Owners \in 0 .. Cardinality(Req) + 2)'
      BY OwnersNat, PTL
    <2> QED BY <2>1, <2>2
  <1>9. TypeOK'
    BY <1>1, <1>0, <1>4, <1>5, <1>8 DEF IndInv, TypeOK
  <1>10. Counted'
    <2>1. refs' # 0
      BY <1>2, <1>7, <1>8, OwnersNat
    <2> QED BY <1>2, <1>8, <2>1 DEF Counted
  <1>11. CbShape' /\ ParamsShape' /\ UsesShape'
    BY <1>1, <1>4, <1>5 DEF IndInv, CbShape, ParamsShape, UsesShape
  <1>12. Phase' /\ WorkerLast'
    BY <1>2, <1>0, <1>8, <1>1, <1>7 DEF IndInv, Phase, WorkerLast
  <1> QED BY <1>0, <1>9, <1>10, <1>11, <1>12 DEF IndInv, Dying

\* Without a reference the state is being dropped by the program.
LEMMA CbTakeDying ==
    ASSUME IndInv, CbTake, ~(refs > 0)
    PROVE  IndInv'
  <1> USE DEF CbTake, TakeRefs
  <1>1. refs = 0 /\ UNCHANGED <<refs, conn, cb>>
    BY DEF IndInv, TypeOK
  <1>2. ucxl = "live" /\ dropping["cb"] = "no"
    BY DEF IndInv, CbShape
  <1>3. life = "dropped"
    <2>1. Owners = 0
      BY <1>1 DEF IndInv, Counted
    <2>2. life \notin {"ucx", "publish", "open"}
      <3> HIDE DEF CbTake, TakeRefs
      <3> QED BY <2>1, KeepingFinite DEF Owners
    <2> QED BY <1>2, <2>2 DEF IndInv, TypeOK, Phase
  <1>4. handle /\ mem = "live"
    BY <1>2, <1>3 DEF IndInv, TypeOK, Phase
  <1>5. dropping["main"] \in {"load", "destroy"}
    <2>1. dropping["main"] # "no"
      BY <1>1, <1>2, <1>4 DEF IndInv, Counted, Proc
    <2> QED BY <1>4, <2>1 DEF IndInv, Counted, TypeOK, Proc
  <1>6. ub' = {"dying state"}
    BY <1>1, <1>4
  <1>7. TypeOK'
    BY <1>1, <1>6 DEF IndInv, TypeOK
  <1>8. Owners' = Owners
    BY <1>1, OwnersKept
  <1>9. Counted'
    BY <1>1, <1>8, CountKept DEF IndInv
  <1>10. Dying'
    BY <1>1, <1>2, <1>5 DEF Dying
  <1> QED BY <1>1, <1>6, <1>7, <1>9, <1>10
      DEF IndInv, Dying, Phase, CbShape, ParamsShape, UsesShape, WorkerLast

LEMMA CbTakeStep ==
    ASSUME IndInv, CbTake
    PROVE  IndInv'
  BY CbTakeRetained, CbTakeDying

LEMMA CbKeepStep ==
    ASSUME IndInv, CbKeep
    PROVE  IndInv'
  <1> USE DEF CbKeep
  <1>1. cb.req \in Req /\ ~raw
    BY DEF IndInv, CbShape
  <1>2. /\ conn' \in [Req -> {"none", "pending", "gone"} \cup Held]
        /\ conn'[cb.req] = "kept"
        /\ \A q \in Req \ {cb.req} : conn'[q] = conn[q]
    BY <1>1 DEF IndInv, TypeOK, Held
  <1>3. cb' = [at |-> "end", req |-> cb.req]
    BY DEF IndInv, TypeOK
  <1>4. TypeOK'
    BY <1>1, <1>2, <1>3 DEF IndInv, TypeOK
  <1>5. \A q \in Req : conn'[q] \in Held <=> conn[q] \in Held
    BY <1>2 DEF Held
  <1>6. Owners' = Owners
    BY <1>3, <1>5, OwnersKept
  <1>7. Counted'
    BY <1>6, CountKept DEF IndInv
  <1>8. CbShape' /\ ParamsShape' /\ UsesShape'
    BY <1>1, <1>2, <1>3 DEF IndInv, CbShape, ParamsShape, UsesShape
  <1> QED BY <1>4, <1>5, <1>7, <1>8 DEF IndInv, Dying, Phase, WorkerLast

LEMMA CbDropStep ==
    ASSUME IndInv, CbDrop
    PROVE  IndInv'
  <1> USE DEF CbDrop
  <1>1. cb.req \in Req /\ ~raw
    BY DEF IndInv, CbShape
  <1>2. /\ conn' \in [Req -> {"none", "pending", "gone"} \cup Held]
        /\ conn'[cb.req] = "gone"
        /\ \A q \in Req \ {cb.req} : conn'[q] = conn[q]
    BY <1>1 DEF IndInv, TypeOK
  <1>3. cb' = [at |-> "end", req |-> cb.req]
    BY DEF IndInv, TypeOK
  <1>4. Cardinality(Keeping)' = Cardinality(Keeping) - 1
    BY <1>1, <1>2, KeepingLess DEF SameBut, Held
  <1>5. Owners' = Owners - 1 /\ Owners' >= 1
    BY <1>3, <1>4, KeepingFinite, KeepingFiniteNext DEF Owners
  <1>6. /\ refs = Owners /\ mem = "live"
        /\ \A p \in Proc : dropping[p] = "no"
    <2>1. refs = Owners /\ refs # 0
      BY <1>5, OwnersNat DEF IndInv, Counted
    <2> QED BY <2>1 DEF IndInv, Counted, TypeOK
  <1>7. refs' = Owners' /\ refs' \in 0 .. Cardinality(Req) + 2
    BY <1>5, <1>6, OwnersNat, KeepingFinite
  <1>8. TypeOK'
    BY <1>1, <1>2, <1>3, <1>7 DEF IndInv, TypeOK
  <1>9. Counted'
    <2>1. refs' # 0
      BY <1>5, <1>7
    <2> QED BY <1>6, <1>7, <2>1 DEF Counted
  <1>10. CbShape' /\ ParamsShape' /\ UsesShape'
    BY <1>1, <1>2, <1>3 DEF IndInv, CbShape, ParamsShape, UsesShape
  <1>11. Phase'
    <2>1. life = "dropped" => handle
      BY <1>5, <1>6 DEF IndInv, Phase
    <2> QED BY <2>1 DEF IndInv, Phase
  <1>12. WorkerLast'
    BY <1>6 DEF IndInv, WorkerLast
  <1> QED BY <1>8, <1>9, <1>10, <1>11, <1>12 DEF IndInv, Dying

LEMMA CbDropListenerStep ==
    ASSUME IndInv, CbDropListener
    PROVE  IndInv'
  <1> USE DEF CbDropListener
  <1>1. Owners' = Owners - 1 /\ Owners >= 1
    BY KeepingFinite, KeepingKept DEF Owners
  <1>2. /\ Counted'
        /\ refs' \in 0 .. Cardinality(Req) + 2
        /\ dropping' \in [Proc -> {"no", "load", "destroy", "free"}]
        /\ dropping'["cb"] # "no" => Owners' = 0
    BY <1>1, RefDropped DEF IndInv, Proc
  <1>3. TypeOK'
    BY <1>2 DEF IndInv, TypeOK
  <1>4. dropping'["cb"] = "no"
    BY <1>2, KeepingFiniteNext DEF Owners
  <1> QED BY <1>2, <1>3, <1>4
      DEF IndInv, Dying, Phase, CbShape, ParamsShape, UsesShape, WorkerLast

LEMMA CbEndStep ==
    ASSUME IndInv, CbEnd
    PROVE  IndInv'
  <1> USE DEF CbEnd, NoCb
  <1>1. Owners' = Owners - 1 /\ Owners >= 1
    BY KeepingFinite, KeepingKept DEF Owners
  <1>2. /\ Counted'
        /\ refs' \in 0 .. Cardinality(Req) + 2
        /\ dropping' \in [Proc -> {"no", "load", "destroy", "free"}]
        /\ mem = "live" /\ refs >= 1
    BY <1>1, RefDropped DEF IndInv, Proc
  <1>3. cb' \in [at : {"idle", "enter", "call", "end"}, req : Req \cup {Nil}]
    OBVIOUS
  <1>4. TypeOK'
    BY <1>2, <1>3 DEF IndInv, TypeOK
  <1>5. Phase'
    <2>1. refs # 0
      BY <1>2
    <2>2. life = "dropped" => handle
      BY <2>1 DEF IndInv, Phase
    <2> QED BY <2>2 DEF IndInv, Phase
  <1>6. CbShape' /\ ParamsShape' /\ UsesShape' /\ WorkerLast'
    BY DEF IndInv, CbShape, ParamsShape, UsesShape, WorkerLast
  <1> QED BY <1>2, <1>4, <1>5, <1>6 DEF IndInv, Dying

----------------------------------------------------------------------------
(* What becomes of a request.                                              *)

\* A request the program or the handler has is dropped, while others may move
\* between the program, the builder and the parameters.
LEMMA Released ==
    ASSUME IndInv, NEW r \in Req, NEW p \in Proc, DropRequest(p),
           conn[r] \in Held, conn'[r] = "gone",
           \A q \in Req \ {r} :
              \/ conn'[q] = conn[q]
              \/ {conn'[q], conn[q]} \subseteq {"kept", "builder", "params"},
           UNCHANGED <<life, raw, handle, mem, ucxl, worker>>,
           \/ p = "main" /\ cb' = cb /\ conn[r] # "made"
           \/ cb.at = "call" /\ cb.req = r /\ cb' = [cb EXCEPT !.at = "end"]
    PROVE  /\ refs' \in 0 .. Cardinality(Req) + 2
           /\ dropping' \in [Proc -> {"no", "load", "destroy", "free"}]
           /\ Counted' /\ Phase' /\ CbShape'
           /\ ~KeepPastWorker => worker
  <1>1. SameBut(r) /\ conn'[r] \notin Held
    BY DEF SameBut, Held
  <1>2. /\ cb'.at \in {"call", "end"} <=> cb.at \in {"call", "end"}
        /\ cb'.req = cb.req
        /\ cb' = cb \/ cb'.at = "end"
        /\ \/ p = "main" /\ cb' = cb /\ conn[r] # "made"
           \/ cb.at = "call" /\ cb.req = r /\ cb'.at = "end"
    BY DEF IndInv, TypeOK
  <1>3. /\ Counted'
        /\ refs' \in 0 .. Cardinality(Req) + 2
        /\ dropping' \in [Proc -> {"no", "load", "destroy", "free"}]
        /\ ~raw /\ dropping'["cb"] # "no" => p = "cb" /\ Owners' = 0
        /\ ~raw => mem = "live" /\ refs >= 1
        /\ raw => UNCHANGED <<refs, dropping>>
    BY <1>1, <1>2, RequestDropped DEF IndInv
  <1>4. Phase'
    <2>1. life = "dropped" => handle \/ refs' = 0
      <3>1. CASE raw
        BY <1>3, <3>1 DEF IndInv, Phase
      <3>2. CASE ~raw
        <4>1. refs # 0
          BY <1>3, <3>2
        <4> QED BY <4>1 DEF IndInv, Phase
      <3> QED BY <3>1, <3>2
    <2> QED BY <2>1 DEF IndInv, Phase
  <1>5. CbShape'
    <2>1. \A q \in Req \ {r} : /\ conn'[q] = "made" <=> conn[q] = "made"
                              /\ conn[q] = "pending" => conn'[q] = "pending"
      OBVIOUS
    <2>2. conn[r] # "pending"
      BY DEF Held
    <2>3. cb'.at = "enter" => conn'[cb'.req] = "pending"
      BY <1>2, <2>1, <2>2 DEF IndInv, CbShape
    <2>4. cb'.at # "idle" => cb'.req \in Req /\ ~raw' /\ ucxl' = "live"
      BY <1>2 DEF IndInv, CbShape
    <2>6. ASSUME dropping'["cb"] # "no"
          PROVE  cb'.at = "idle"
      <3>1. CASE raw
        BY <1>2, <3>1 DEF IndInv, CbShape
      <3>2. CASE ~raw
        <4>1. p = "cb" /\ Owners' = 0
          BY <1>3, <2>6, <3>2
        <4>2. cb'.at \notin {"call", "end"}
          BY <4>1, KeepingFiniteNext DEF Owners
        <4> QED BY <1>2, <4>1, <4>2
      <3> QED BY <3>1, <3>2
    <2>5. ASSUME NEW q \in Req
          PROVE  conn'[q] = "made" <=> cb'.at = "call" /\ cb'.req = q
      <3>1. conn[q] = "made" <=> cb.at = "call" /\ cb.req = q
        BY DEF IndInv, CbShape
      <3>2. CASE q = r
        <4>1. conn'[q] # "made"
          BY <3>2
        <4>2. ~(cb'.at = "call" /\ cb'.req = q)
          BY <1>2, <3>1, <3>2
        <4> QED BY <4>1, <4>2
      <3>3. CASE q # r
        <4>1. conn'[q] = "made" <=> conn[q] = "made"
          BY <2>1, <3>3
        <4>2. CASE cb' = cb
          BY <3>1, <4>1, <4>2
        <4>3. CASE cb.req = r /\ cb'.at = "end"
          BY <3>1, <3>3, <4>1, <4>3
        <4> QED BY <1>2, <4>2, <4>3
      <3> QED BY <3>2, <3>3
    <2> QED BY <2>3, <2>4, <2>5, <2>6 DEF CbShape
  <1>6. ~KeepPastWorker => worker
    BY DEF IndInv, WorkerLast
  <1> QED BY <1>3, <1>4, <1>5, <1>6

\* UCX is given a request and the listener of a published handle.
LEMMA Rejected ==
    ASSUME IndInv, NEW r \in Req, conn[r] \in Held, conn'[r] = "gone", Reject(r),
           \A q \in Req \ {r} : conn'[q] = conn[q],
           handle, ub = {}
    PROVE  /\ uses' \in [Req -> Nat]
           /\ UsesShape'
           /\ ub' \subseteq {"dead worker"}
           /\ ~KeepPastWorker => ub' = {}
  <1>1. uses[r] = 0
    BY DEF IndInv, UsesShape, Held
  <1>2. /\ uses' \in [Req -> Nat] /\ uses'[r] = 1
        /\ \A q \in Req \ {r} : uses'[q] = uses[q]
    BY <1>1 DEF Reject, IndInv, TypeOK
  <1>3. UsesShape'
    BY <1>2 DEF IndInv, UsesShape
  <1>4. ucxl = "live"
    BY DEF IndInv, TypeOK, Phase
  <1>5. ~KeepPastWorker => worker
    BY DEF IndInv, WorkerLast
  <1> QED BY <1>2, <1>3, <1>4, <1>5 DEF Reject, ListenerUb

LEMMA RejectOwnedStep ==
    ASSUME IndInv, NEW r \in Req, NEW p \in Proc, RejectOwned(r, p)
    PROVE  IndInv'
  <1> USE DEF RejectOwned, Main
  <1>1. /\ conn' \in [Req -> {"none", "pending", "gone"} \cup Held]
        /\ conn'[r] = "gone"
        /\ \A q \in Req \ {r} : conn'[q] = conn[q]
    BY DEF IndInv, TypeOK
  <1>2. conn[r] \in {"kept", "made"} /\ conn[r] \in Held
    BY DEF Held
  <1>3. \/ p = "main" /\ cb' = cb /\ conn[r] # "made"
        \/ cb.at = "call" /\ cb.req = r /\ cb' = [cb EXCEPT !.at = "end"]
    OBVIOUS
  <1>4. cb' \in [at : {"idle", "enter", "call", "end"}, req : Req \cup {Nil}]
    BY DEF IndInv, TypeOK
  <1>5. /\ refs' \in 0 .. Cardinality(Req) + 2
        /\ dropping' \in [Proc -> {"no", "load", "destroy", "free"}]
        /\ Counted' /\ Phase' /\ CbShape'
        /\ ~KeepPastWorker => worker
    BY <1>1, <1>2, <1>3, Released
  <1>6. /\ uses' \in [Req -> Nat]
        /\ UsesShape'
        /\ ub' \subseteq {"dead worker"}
        /\ ~KeepPastWorker => ub' = {}
    <2>1. CASE handle /\ ~raw
      BY <1>1, <1>2, <2>1, Rejected
    <2>2. CASE ~(handle /\ ~raw)
      <3>1. UNCHANGED <<uses, ub>>
        BY <2>2
      <3>2. uses' \in [Req -> Nat] /\ ub' = {}
        BY <3>1 DEF IndInv, TypeOK
      <3>3. UsesShape'
        BY <1>1, <3>1 DEF IndInv, UsesShape
      <3> QED BY <3>2, <3>3
    <2> QED BY <2>1, <2>2
  <1>7. TypeOK'
    BY <1>1, <1>4, <1>5, <1>6 DEF IndInv, TypeOK
  <1>8. ParamsShape'
    BY <1>1, <1>2 DEF IndInv, ParamsShape
  <1>9. WorkerLast'
    BY <1>5, <1>6 DEF WorkerLast
  <1> QED BY <1>5, <1>6, <1>7, <1>8, <1>9 DEF IndInv, Dying

LEMMA ListenerRejectStep ==
    ASSUME IndInv, NEW r \in Req, ListenerReject(r)
    PROVE  IndInv'
  <1> USE DEF ListenerReject, Main
  <1>1. /\ conn' \in [Req -> {"none", "pending", "gone"} \cup Held]
        /\ conn'[r] = "gone"
        /\ \A q \in Req \ {r} : conn'[q] = conn[q]
    BY DEF IndInv, TypeOK
  <1>2. conn[r] \in Held /\ conn[r] # "made" /\ "main" \in Proc
    BY DEF Held, Proc
  <1>3. /\ refs' \in 0 .. Cardinality(Req) + 2
        /\ dropping' \in [Proc -> {"no", "load", "destroy", "free"}]
        /\ Counted' /\ Phase' /\ CbShape'
        /\ ~KeepPastWorker => worker
    BY <1>1, <1>2, Released
  <1>4. handle
    BY DEF IndInv, Phase
  <1>5. /\ uses' \in [Req -> Nat]
        /\ UsesShape'
        /\ ub' \subseteq {"dead worker"}
        /\ ~KeepPastWorker => ub' = {}
    BY <1>1, <1>2, <1>4, Rejected
  <1>6. TypeOK'
    BY <1>1, <1>3, <1>5 DEF IndInv, TypeOK
  <1>7. ParamsShape'
    BY <1>1 DEF IndInv, ParamsShape
  <1>8. WorkerLast'
    BY <1>3, <1>5 DEF WorkerLast
  <1> QED BY <1>3, <1>5, <1>6, <1>7, <1>8 DEF IndInv, Dying

\* A request that may be asked for its attributes has not been used.
LEMMA ConnRequestQueryStep ==
    ASSUME IndInv, NEW r \in Req, ConnRequestQuery(r)
    PROVE  IndInv'
  <1> USE DEF ConnRequestQuery, Main
  <1>1. uses[r] = 0
    BY DEF IndInv, UsesShape
  <1>2. ub' = {}
    BY <1>1
  <1>3. TypeOK'
    BY <1>2 DEF IndInv, TypeOK
  <1>4. Owners' = Owners
    BY OwnersKept
  <1>5. Counted'
    BY <1>4, CountKept DEF IndInv
  <1> QED BY <1>2, <1>3, <1>5
      DEF IndInv, Dying, Phase, CbShape, ParamsShape, UsesShape, WorkerLast

LEMMA DropKeptStep ==
    ASSUME IndInv, NEW r \in Req, DropKept(r)
    PROVE  IndInv'
  <1> USE DEF DropKept, Main
  <1>1. /\ conn' \in [Req -> {"none", "pending", "gone"} \cup Held]
        /\ conn'[r] = "gone"
        /\ \A q \in Req \ {r} : conn'[q] = conn[q]
    BY DEF IndInv, TypeOK
  <1>2. conn[r] \in Held /\ conn[r] # "made" /\ "main" \in Proc
    BY DEF Held, Proc
  <1>3. /\ refs' \in 0 .. Cardinality(Req) + 2
        /\ dropping' \in [Proc -> {"no", "load", "destroy", "free"}]
        /\ Counted' /\ Phase' /\ CbShape'
        /\ ~KeepPastWorker => worker
    BY <1>1, <1>2, Released
  <1>4. TypeOK'
    BY <1>1, <1>3 DEF IndInv, TypeOK
  <1>5. ParamsShape' /\ UsesShape'
    BY <1>1 DEF IndInv, ParamsShape, UsesShape
  <1>6. WorkerLast'
    BY <1>3 DEF WorkerLast
  <1> QED BY <1>3, <1>4, <1>5, <1>6 DEF IndInv, Dying

----------------------------------------------------------------------------
(* The builder and the parameters.                                         *)

LEMMA BuilderConnRequestStep ==
    ASSUME IndInv, NEW r \in Req, BuilderConnRequest(r)
    PROVE  IndInv'
  <1> USE DEF BuilderConnRequest, Main
  <1>1. builder' \in [set : BOOLEAN, ptr : Req \cup {Nil}, own : Req \cup {Nil}]
    OBVIOUS
  <1>2. ~KeepPastWorker => worker
    BY DEF IndInv, WorkerLast, Held
  <1>3. CASE builder.own = Nil
    <2>1. /\ conn' \in [Req -> {"none", "pending", "gone"} \cup Held]
          /\ conn'[r] = "builder"
          /\ \A q \in Req \ {r} : conn'[q] = conn[q]
      BY <1>3 DEF IndInv, TypeOK, Held
    <2>2. TypeOK'
      BY <1>1, <1>3, <2>1 DEF IndInv, TypeOK
    <2>3. \A q \in Req : conn'[q] \in Held <=> conn[q] \in Held
      BY <2>1 DEF Held
    <2>4. Owners' = Owners
      BY <2>3, OwnersKept
    <2>5. Counted'
      BY <1>3, <2>4, CountKept DEF IndInv
    <2>6. CbShape' /\ UsesShape'
      BY <1>3, <2>1 DEF IndInv, CbShape, UsesShape
    <2>7. ParamsShape'
      BY <1>3, <2>1 DEF IndInv, ParamsShape
    <2> QED BY <1>2, <1>3, <2>2, <2>5, <2>6, <2>7 DEF IndInv, Dying, Phase, WorkerLast
  <1>4. CASE builder.own # Nil
    <2> DEFINE o == builder.own
    <2>1. o \in Req /\ conn[o] = "builder" /\ o # r
      BY <1>4 DEF IndInv, TypeOK, ParamsShape
    <2>2. /\ conn' \in [Req -> {"none", "pending", "gone"} \cup Held]
          /\ conn'[r] = "builder" /\ conn'[o] = "gone"
          /\ \A q \in Req \ {r, o} : conn'[q] = conn[q]
      BY <1>4, <2>1 DEF IndInv, TypeOK, Held
    <2>3. \A q \in Req \ {o} :
             \/ conn'[q] = conn[q]
             \/ {conn'[q], conn[q]} \subseteq {"kept", "builder", "params"}
      BY <2>2
    <2>4. conn[o] \in Held /\ conn[o] # "made" /\ "main" \in Proc
      BY <2>1 DEF Held, Proc
    <2>5. DropRequest("main")
      BY <1>4
    <2>6. /\ refs' \in 0 .. Cardinality(Req) + 2
          /\ dropping' \in [Proc -> {"no", "load", "destroy", "free"}]
          /\ Counted' /\ Phase' /\ CbShape'
      BY <2>1, <2>2, <2>3, <2>4, <2>5, Released
    <2>7. TypeOK'
      BY <1>1, <2>2, <2>6 DEF IndInv, TypeOK
    <2>8. ParamsShape'
      BY <2>1, <2>2 DEF IndInv, ParamsShape
    <2>9. UsesShape'
      BY <2>1, <2>2 DEF IndInv, UsesShape
    <2> QED BY <1>2, <2>6, <2>7, <2>8, <2>9 DEF IndInv, Dying, WorkerLast
  <1> QED BY <1>3, <1>4

LEMMA BuildStep ==
    ASSUME IndInv, Build
    PROVE  IndInv'
  <1> USE DEF Build, Main
  <1>1. /\ params' \in [set : BOOLEAN, ptr : Req \cup {Nil}, own : Req \cup {Nil}]
        /\ builder' \in [set : BOOLEAN, ptr : Req \cup {Nil}, own : Req \cup {Nil}]
        /\ params' = builder /\ builder'.own = Nil /\ builder.set
        /\ params.own = Nil
    BY DEF IndInv, TypeOK, ParamsShape
  <1>2. /\ conn' \in [Req -> {"none", "pending", "gone"} \cup Held]
        /\ \A q \in Req : conn'[q] = IF q = builder.own THEN "params" ELSE conn[q]
    BY DEF IndInv, TypeOK, Held
  <1>3. \A q \in Req : q = builder.own <=> conn[q] = "builder"
    BY DEF IndInv, ParamsShape
  <1>4. TypeOK'
    BY <1>1, <1>2 DEF IndInv, TypeOK
  <1>5. \A q \in Req : conn'[q] \in Held <=> conn[q] \in Held
    BY <1>2, <1>3 DEF Held
  <1>6. Owners' = Owners
    BY <1>5, OwnersKept
  <1>7. Counted'
    BY <1>6, CountKept DEF IndInv
  <1>8. CbShape' /\ UsesShape'
    BY <1>2, <1>3 DEF IndInv, CbShape, UsesShape
  <1>9. ParamsShape'
    BY <1>1, <1>2, <1>3 DEF IndInv, ParamsShape
  <1> QED BY <1>4, <1>5, <1>7, <1>8, <1>9 DEF IndInv, Dying, Phase, WorkerLast

\* The parameters go, with the request they own and perhaps after its use.
LEMMA ConsumeStep ==
    ASSUME IndInv, ub = {}, NEW r \in {Nil, params.own}, Consume(r),
           UNCHANGED <<life, raw, handle, mem, ucxl, cb, builder, worker, ub>>
    PROVE  IndInv'
  <1> USE DEF Consume, NoParams
  <1>1. params' \in [set : BOOLEAN, ptr : Req \cup {Nil}, own : Req \cup {Nil}]
    OBVIOUS
  <1>2. CASE params.own = Nil
    <2>1. UNCHANGED <<uses, conn, refs, dropping>>
      BY <1>2
    <2>2. TypeOK'
      BY <1>1, <2>1 DEF IndInv, TypeOK
    <2>3. Owners' = Owners
      BY <2>1, OwnersKept
    <2>4. Counted'
      BY <2>1, <2>3, CountKept DEF IndInv
    <2> QED BY <1>2, <2>1, <2>2, <2>4
        DEF IndInv, Dying, Phase, CbShape, ParamsShape, UsesShape, WorkerLast
  <1>3. CASE params.own # Nil
    <2> DEFINE o == params.own
    <2>1. o \in Req /\ conn[o] = "params" /\ uses[o] = 0
      BY <1>3 DEF IndInv, TypeOK, ParamsShape, UsesShape
    <2>2. /\ conn' \in [Req -> {"none", "pending", "gone"} \cup Held]
          /\ conn'[o] = "gone"
          /\ \A q \in Req \ {o} : conn'[q] = conn[q]
      BY <1>3, <2>1 DEF IndInv, TypeOK
    <2>3. conn[o] \in Held /\ conn[o] # "made" /\ "main" \in Proc
      BY <2>1 DEF Held, Proc
    <2>4. DropRequest("main")
      BY <1>3
    <2>5. /\ refs' \in 0 .. Cardinality(Req) + 2
          /\ dropping' \in [Proc -> {"no", "load", "destroy", "free"}]
          /\ Counted' /\ Phase' /\ CbShape'
          /\ ~KeepPastWorker => worker
      BY <2>1, <2>2, <2>3, <2>4, Released
    <2>6. /\ uses' \in [Req -> Nat] /\ uses'[o] \in {0, 1}
          /\ \A q \in Req \ {o} : uses'[q] = uses[q]
      BY <1>3, <2>1 DEF IndInv, TypeOK
    <2>7. TypeOK'
      BY <1>1, <2>2, <2>5, <2>6 DEF IndInv, TypeOK
    <2>8. UsesShape'
      BY <2>1, <2>2, <2>6 DEF IndInv, UsesShape
    <2>9. ParamsShape'
      BY <2>1, <2>2 DEF IndInv, ParamsShape
    <2> QED BY <2>5, <2>7, <2>8, <2>9 DEF IndInv, Dying, WorkerLast
  <1> QED BY <1>2, <1>3

\* Parameters of a second build own no request.
LEMMA CreateEpNull ==
    ASSUME IndInv, CreateEp, params.own = Nil
    PROVE  IndInv'
  <1>1. /\ UNCHANGED <<life, raw, handle, mem, ucxl, cb, builder, worker,
                        uses, conn, refs, dropping>>
        /\ params' = [set |-> FALSE, ptr |-> Nil, own |-> Nil]
        /\ ub' = {"null request"}
        /\ "dead worker" \notin ub'
    BY DEF CreateEp, Main, Consume, NoParams
  <1>2. TypeOK'
    <2>1. params' \in [set : BOOLEAN, ptr : Req \cup {Nil}, own : Req \cup {Nil}]
      BY <1>1
    <2>2. ub' \subseteq {"dying state", "freed state", "dead worker", "null listener",
                         "null request", "spent request"}
      BY <1>1
    <2>3. UNCHANGED <<life, raw, handle, mem, ucxl, cb, builder, worker,
                      uses, conn, refs, dropping>>
      BY <1>1
    <2> QED BY <2>1, <2>2, <2>3 DEF IndInv, TypeOK
  <1>3. Owners' = Owners
    BY <1>1, OwnersKept
  <1>4. Counted'
    BY <1>1, <1>3, CountKept DEF IndInv
  <1>5. Dying' /\ WorkerLast'
    BY <1>1 DEF IndInv, Dying, WorkerLast
  <1>6. Phase' /\ CbShape' /\ UsesShape'
    BY <1>1 DEF IndInv, Phase, CbShape, UsesShape
  <1>7. ParamsShape'
    <2>1. params'.own = Nil /\ UNCHANGED <<conn, builder>>
      BY <1>1
    <2> QED BY <2>1 DEF IndInv, ParamsShape
  <1> QED BY <1>1, <1>2, <1>4, <1>5, <1>6, <1>7 DEF IndInv

LEMMA CreateEpStep ==
    ASSUME IndInv, CreateEp
    PROVE  IndInv'
  <1>1. CASE params.own = Nil
    BY <1>1, CreateEpNull
  <1>2. CASE params.own # Nil
    BY <1>2, ConsumeStep DEF CreateEp, Main
  <1> QED BY <1>1, <1>2

LEMMA DropParamsStep ==
    ASSUME IndInv, DropParams
    PROVE  IndInv'
  <1> USE DEF DropParams, Main
  <1>1. CASE params.set /\ Consume(Nil) /\ UNCHANGED builder
    BY <1>1, ConsumeStep
  <1>2. CASE /\ builder.set
             /\ builder' = NoParams
             /\ IF builder.own = Nil THEN UNCHANGED <<conn, refs, dropping>>
                ELSE /\ conn' = [conn EXCEPT ![builder.own] = "gone"]
                     /\ DropRequest("main")
             /\ UNCHANGED <<uses, params>>
    <2>1. /\ builder' \in [set : BOOLEAN, ptr : Req \cup {Nil}, own : Req \cup {Nil}]
          /\ builder'.own = Nil
      BY <1>2 DEF NoParams
    <2>2. CASE builder.own = Nil
      <3>1. UNCHANGED <<conn, refs, dropping>>
        BY <1>2, <2>2
      <3>2. TypeOK'
        BY <1>2, <2>1, <3>1 DEF IndInv, TypeOK
      <3>3. Owners' = Owners
        BY <3>1, OwnersKept
      <3>4. Counted'
        BY <3>1, <3>3, CountKept DEF IndInv
      <3> QED BY <1>2, <2>1, <2>2, <3>1, <3>2, <3>4
          DEF IndInv, Dying, Phase, CbShape, ParamsShape, UsesShape, WorkerLast
    <2>3. CASE builder.own # Nil
      <3> DEFINE o == builder.own
      <3>1. o \in Req /\ conn[o] = "builder"
        BY <2>3 DEF IndInv, TypeOK, ParamsShape
      <3>2. /\ conn' \in [Req -> {"none", "pending", "gone"} \cup Held]
            /\ conn'[o] = "gone"
            /\ \A q \in Req \ {o} : conn'[q] = conn[q]
        BY <1>2, <2>3, <3>1 DEF IndInv, TypeOK
      <3>3. conn[o] \in Held /\ conn[o] # "made" /\ "main" \in Proc
        BY <3>1 DEF Held, Proc
      <3>4. DropRequest("main")
        BY <1>2, <2>3
      <3>5. /\ refs' \in 0 .. Cardinality(Req) + 2
            /\ dropping' \in [Proc -> {"no", "load", "destroy", "free"}]
            /\ Counted' /\ Phase' /\ CbShape'
            /\ ~KeepPastWorker => worker
        BY <3>1, <3>2, <3>3, <3>4, Released
      <3>6. TypeOK'
        BY <1>2, <2>1, <3>2, <3>5 DEF IndInv, TypeOK
      <3>7. UsesShape'
        BY <1>2, <3>1, <3>2 DEF IndInv, UsesShape
      <3>8. ParamsShape'
        BY <1>2, <2>1, <3>1, <3>2 DEF IndInv, ParamsShape
      <3> QED BY <3>5, <3>6, <3>7, <3>8 DEF IndInv, Dying, WorkerLast
    <2> QED BY <2>2, <2>3
  <1> QED BY <1>1, <1>2

----------------------------------------------------------------------------
(* The theorems.                                                           *)

LEMMA StutterStep ==
    ASSUME IndInv, UNCHANGED vars
    PROVE  IndInv'
  <1> USE DEF vars
  <1>1. TypeOK'
    BY DEF IndInv, TypeOK
  <1>2. Owners' = Owners
    BY OwnersKept
  <1>3. Counted'
    BY <1>2, CountKept DEF IndInv
  <1> QED BY <1>1, <1>3
      DEF IndInv, Dying, Phase, CbShape, ParamsShape, UsesShape, WorkerLast

LEMMA NextPreserves ==
    ASSUME IndInv, [Next]_vars
    PROVE  IndInv'
  <1>1. CASE Create \/ CreateReturn \/ Publish \/ CreateWithParams
    BY <1>1, CreateStep, CreateReturnStep, PublishStep, CreateWithParamsStep
  <1>2. CASE ListenerQuery \/ DropListener \/ DropWorker
    BY <1>2, ListenerQueryStep, DropListenerStep, DropWorkerStep
  <1>3. CASE \E p \in Proc : DropLoad(p) \/ DropDestroy(p) \/ DropFree(p)
    BY <1>3, DropLoadStep, DropDestroyStep, DropFreeStep
  <1>4. CASE CbTake \/ CbKeep \/ CbDrop \/ CbDropListener \/ CbEnd
    BY <1>4, CbTakeStep, CbKeepStep, CbDropStep, CbDropListenerStep, CbEndStep
  <1>5. CASE Build \/ CreateEp \/ DropParams
    BY <1>5, BuildStep, CreateEpStep, DropParamsStep
  <1>6. CASE \E r \in Req :
                \/ Arrive(r) \/ Deliver(r) \/ FromRaw(r) \/ ConnRequestQuery(r)
                \/ ListenerReject(r) \/ DropKept(r) \/ BuilderConnRequest(r)
                \/ \E p \in Proc : RejectOwned(r, p)
    BY <1>6, ArriveStep, DeliverStep, FromRawStep, ConnRequestQueryStep,
       ListenerRejectStep, DropKeptStep, BuilderConnRequestStep, RejectOwnedStep
  <1>7. CASE UNCHANGED vars
    BY <1>7, StutterStep
  <1> QED BY <1>1, <1>2, <1>3, <1>4, <1>5, <1>6, <1>7 DEF Next

\* Whatever the program, the peers and UCX do with a listener and its requests,
\* in whatever order, the inductive invariant holds: the reference count of
\* ListenerState is the number of its owners, the state is dropped by one of
\* main and conn_trampoline, once, and a request is in one place.
THEOREM IndInvHolds ==
    Spec => []IndInv
  <1>1. Init => IndInv
    BY InitIndInv
  <1>2. IndInv /\ [Next]_vars => IndInv'
    BY NextPreserves
  <1> QED BY <1>1, <1>2, PTL DEF Spec

\* No trampoline finds the ListenerState freed, is inside one that is, or left a
\* request that refers to it: ucp_listener_destroy comes first.  A trampoline may
\* find a state without a reference, and then the program's own drop is still on
\* its way through ucp_listener_destroy.
THEOREM StateOutlives ==
    Spec => []StateOutlivesUsers
  <1>1. IndInv => StateOutlivesUsers
    <2> SUFFICES ASSUME IndInv PROVE StateOutlivesUsers
      OBVIOUS
    <2>1. "freed state" \notin ub
      BY DEF IndInv
    <2>2. ASSUME mem = "freed"
          PROVE  cb.at = "idle" /\ Keeping = {}
      <3>1. Owners = 0
        BY <2>2 DEF IndInv, Counted
      <3>2. Cardinality(Keeping) = 0
        BY <3>1, KeepingFinite DEF Owners
      <3>3. ucxl # "live"
        BY <2>2 DEF IndInv, Phase
      <3> QED BY <3>2, <3>3, KeepingFinite DEF IndInv, CbShape
    <2> QED BY <2>1, <2>2 DEF StateOutlivesUsers, IndInv, Dying
  <1> QED BY <1>1, IndInvHolds, PTL

\* The strong count of a live ListenerState is the number of its owners: the
\* Listener, each request the program holds, and the running trampoline.
THEOREM CountExact ==
    Spec => []RefsExact
  <1>1. IndInv => RefsExact
    BY DEF IndInv, Counted, RefsExact
  <1> QED BY <1>1, IndInvHolds, PTL

\* UCX's listener lives as long as the Listener or a request that keeps it, and
\* no longer: ListenerState::drop has destroyed it when the state is freed.
THEOREM LastOwnerDestroys ==
    Spec => []DestroyedWithLastOwner
  <1>1. IndInv => DestroyedWithLastOwner
    <2> SUFFICES ASSUME IndInv PROVE DestroyedWithLastOwner
      OBVIOUS
    <2>1. life = "open" => IsActive /\ ucxl = "live"
      BY DEF IndInv, Phase, IsActive
    <2>2. ASSUME ucxl = "destroyed"
          PROVE  life = "dropped" /\ Keeping = {}
      <3>1. life = "dropped" /\ ~handle
        BY <2>2 DEF IndInv, TypeOK, Phase
      <3>2. Owners = 0
        BY <3>1 DEF IndInv, Phase, Counted
      <3> QED BY <3>1, <3>2, KeepingFinite DEF Owners
    <2>3. mem = "freed" /\ life = "dropped" => ucxl = "destroyed"
      BY DEF IndInv, Phase
    <2> QED BY <2>1, <2>2, <2>3 DEF DestroyedWithLastOwner
  <1> QED BY <1>1, IndInvHolds, PTL

\* A connection request is passed to UCX at most once, by reject, reject_owned or
\* create_ep, and is never queried afterwards.
THEOREM UsedOnce ==
    Spec => []SingleUse
  <1>1. IndInv => SingleUse
    <2>1. IndInv => \A r \in Req : uses[r] <= 1
      <3> SUFFICES ASSUME IndInv, NEW r \in Req PROVE uses[r] <= 1
        OBVIOUS
      <3>1. uses[r] = 0 \/ uses[r] = 1
        BY DEF IndInv, UsesShape
      <3> QED BY <3>1
    <2>2. IndInv => "spent request" \notin ub
      BY DEF IndInv
    <2> QED BY <2>1, <2>2 DEF SingleUse
  <1> QED BY <1>1, IndInvHolds, PTL

\* reject_owned passes UCX no handle that is not published, and, in a program
\* that drops its requests before the worker, no listener call meets a
\* destroyed worker.
THEOREM ListenerCallsMeetLive ==
    ASSUME KeepPastWorker = FALSE
    PROVE  Spec => []ListenerCallsSound
  <1>1. IndInv => ListenerCallsSound
    BY DEF IndInv, WorkerLast, ListenerCallsSound
  <1> QED BY <1>1, IndInvHolds, PTL
====
