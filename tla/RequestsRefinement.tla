------------------------- MODULE RequestsRefinement -------------------------
(***************************************************************************)
(* TLAPS proof that Requests implements RequestLife.  Under the inductive  *)
(* invariant of RequestsProofs, who has a request can be read off what UCX *)
(* keeps for it; each step of Requests then moves at most one request on,  *)
(* or lets operations end.                                                 *)
(***************************************************************************)
EXTENDS RequestsProofs

\* Who has a request, by its record alone.
RecordOwner(r) ==
    IF ~r.user THEN IF r.phase = "idle" THEN "ucx" ELSE "orphan"
    ELSE IF r.escape = "leaked" THEN "lost"
    ELSE IF r.api \in PlainApi \/ r.escape = "extracted" THEN "loose"
    ELSE IF r.api = "tag" THEN "tag" ELSE "guard"

\* A request that somebody holds is the program's; one that is the program's
\* and not leaked has its one holder.
LEMMA OwnerByRecord ==
    IndInv => \A a \in Addr : OwnerOf(a) = RecordOwner(req[a])
  <1> SUFFICES ASSUME IndInv, NEW a \in Addr
               PROVE  OwnerOf(a) = RecordOwner(req[a])
    OBVIOUS
  <1>1. OneHolder
    BY IndInvOneHolder
  <1>2. CASE ~req[a].user
    <2>1. Holders(a) = {}
      BY <1>2, AddrDecode DEF Holders, IndInv, HandlesMatch, Matches
    <2> QED BY <1>2, <2>1 DEF OwnerOf, RecordOwner
  <1>3. CASE req[a].user /\ req[a].escape = "leaked"
    BY <1>3 DEF OwnerOf, RecordOwner
  <1>4. CASE req[a].user /\ req[a].escape # "leaked"
    <2>1. \E x \in Var \cup {Nil} : Holders(a) = {x}
      BY <1>1, <1>4 DEF OneHolder
    <2> QED BY <1>4, <2>1 DEF OwnerOf, RecordOwner
  <1> QED BY <1>2, <1>3, <1>4

\* The same after a step.
LEMMA OwnerByRecordNext ==
    (IndInv => \A a \in Addr : OwnerOf(a) = RecordOwner(req[a]))'
  BY OwnerByRecord, PTL

----------------------------------------------------------------------------
(* What a step of Requests does to one record.                             *)

Starts(r, s) ==
    /\ r = Idle
    /\ s.user /\ s.phase = "inflight" /\ s.escape = "no"

Extracts(r, s) ==
    /\ RecordOwner(r) \in {"tag", "guard"}
    /\ s = [r EXCEPT !.escape = "extracted"]

GivesBack(r, s) ==
    /\ RecordOwner(r) \in {"tag", "guard", "loose"}
    /\ r.phase # "inflight"
    /\ s = Idle

Abandons(r, s) ==
    /\ RecordOwner(r) = "loose"
    /\ r.phase = "inflight"
    /\ s = Idle \/ s = [r EXCEPT !.user = FALSE]

Loses(r, s) ==
    /\ RecordOwner(r) = "guard"
    /\ s = [r EXCEPT !.escape = "leaked"]

Moves(r, s) ==
    Starts(r, s) \/ Extracts(r, s) \/ GivesBack(r, s) \/ Abandons(r, s) \/ Loses(r, s)

ReqMove ==
    \/ UNCHANGED req
    \/ \A a \in Addr : Advanced(req[a], req'[a])
    \/ \E a \in Addr : \E s \in Request :
          req' = [req EXCEPT ![a] = s] /\ Moves(req[a], s)

\* One record moves: a step of RequestLife for its address.
LEMMA MoveIsLife ==
    ASSUME IndInv, IndInv', NEW a \in Addr, NEW s \in Request,
           req' = [req EXCEPT ![a] = s], Moves(req[a], s)
    PROVE  Life!LifeNext
  <1> DEFINE O == [x \in Addr |-> OwnerOf(x)]
             P == [x \in Addr |-> OwnerOf(x)']
             R == [x \in Addr |-> req[x].phase = "inflight"]
             S == [x \in Addr |-> req'[x].phase = "inflight"]
  <1>1. req \in [Addr -> Request] /\ req[a] \in Request
    BY DEF IndInv, TypeOK
  <1>2. \A x \in Addr : OwnerOf(x) = RecordOwner(req[x])
    BY OwnerByRecord
  <1>3. \A x \in Addr : OwnerOf(x)' = RecordOwner(req'[x])
    BY OwnerByRecordNext DEF RecordOwner
  <1>4. req'[a] = s /\ \A x \in Addr : x # a => req'[x] = req[x]
    BY <1>1
  <1>5. /\ O[a] = RecordOwner(req[a]) /\ R[a] = (req[a].phase = "inflight")
        /\ P = [O EXCEPT ![a] = RecordOwner(s)]
        /\ S = [R EXCEPT ![a] = (s.phase = "inflight")]
    BY <1>2, <1>3, <1>4
  <1>6. CASE Starts(req[a], s)
    <2>1. RecordOwner(req[a]) = "ucx" /\ RecordOwner(s) \in {"tag", "guard", "loose"}
      BY <1>6 DEF Starts, RecordOwner, Idle
    <2>2. PICK k \in {"tag", "guard", "loose"} : RecordOwner(s) = k
      BY <2>1
    <2>3. Life!Start(a, k)
      BY <1>5, <1>6, <2>1, <2>2 DEF Life!Start, Starts
    <2> QED BY <2>3 DEF Life!LifeNext, Life!Held
  <1>7. CASE Extracts(req[a], s)
    <2>1. RecordOwner(s) = "loose" /\ s.phase = req[a].phase
      BY <1>1, <1>7 DEF Extracts, RecordOwner, Request
    <2>2. S = R
      BY <1>5, <2>1
    <2>3. Life!Extract(a)
      BY <1>5, <1>7, <2>1, <2>2 DEF Life!Extract, Extracts
    <2> QED BY <2>3 DEF Life!LifeNext
  <1>8. CASE GivesBack(req[a], s)
    <2>1. RecordOwner(s) = "ucx" /\ s.phase # "inflight"
      BY <1>8 DEF GivesBack, RecordOwner, Idle
    <2>2. S = R /\ ~R[a]
      BY <1>5, <1>8, <2>1 DEF GivesBack
    <2>3. Life!GiveBack(a)
      BY <1>5, <1>8, <2>1, <2>2 DEF Life!GiveBack, Life!Held, GivesBack
    <2> QED BY <2>3 DEF Life!LifeNext
  <1>9. CASE Abandons(req[a], s)
    <2>1. R[a] /\ O[a] = "loose"
      BY <1>5, <1>9 DEF Abandons
    <2>2. CASE s = Idle
      <3>1. RecordOwner(s) = "ucx" /\ s.phase # "inflight"
        BY <2>2 DEF RecordOwner, Idle
      <3>2. Life!Abandon(a)
        BY <1>5, <2>1, <3>1 DEF Life!Abandon
      <3> QED BY <3>2 DEF Life!LifeNext
    <2>3. CASE s = [req[a] EXCEPT !.user = FALSE]
      <3>1. RecordOwner(s) = "orphan" /\ s.phase = "inflight"
        BY <1>1, <1>9, <2>3 DEF Abandons, RecordOwner, Request
      <3>2. S = R
        BY <1>5, <2>1, <3>1
      <3>3. Life!Abandon(a)
        BY <1>5, <2>1, <3>1, <3>2 DEF Life!Abandon
      <3> QED BY <3>3 DEF Life!LifeNext
    <2> QED BY <1>9, <2>2, <2>3 DEF Abandons
  <1>10. CASE Loses(req[a], s)
    <2>1. RecordOwner(s) = "lost" /\ s.phase = req[a].phase
      BY <1>1, <1>10 DEF Loses, RecordOwner, Request
    <2>2. S = R
      BY <1>5, <2>1
    <2>3. Life!Lose(a)
      BY <1>5, <1>10, <2>1, <2>2 DEF Life!Lose, Loses
    <2> QED BY <2>3 DEF Life!LifeNext
  <1> QED BY <1>6, <1>7, <1>8, <1>9, <1>10 DEF Moves

\* Records advance: operations end, and orphans among them go to UCX.
LEMMA AdvanceIsLife ==
    ASSUME IndInv, IndInv', \A a \in Addr : Advanced(req[a], req'[a])
    PROVE  Life!LifeNext
  <1> DEFINE O == [x \in Addr |-> OwnerOf(x)]
             P == [x \in Addr |-> OwnerOf(x)']
             R == [x \in Addr |-> req[x].phase = "inflight"]
             S == [x \in Addr |-> req'[x].phase = "inflight"]
             E == {x \in Addr : R[x] /\ ~S[x]}
  <1>1. \A x \in Addr : O[x] = RecordOwner(req[x]) /\ P[x] = RecordOwner(req'[x])
    BY OwnerByRecord, OwnerByRecordNext DEF RecordOwner
  <1>2. ASSUME NEW x \in Addr
        PROVE  /\ P[x] = IF x \in E /\ O[x] = "orphan" THEN "ucx" ELSE O[x]
               /\ S[x] = (x \notin E /\ R[x])
    <2> DEFINE r == req[x]
               s == req'[x]
    <2>1. r \in Request /\ (~r.user => r.phase \in {"idle", "inflight"})
          /\ (r.phase = "idle" => r = Idle)
      BY DEF IndInv, TypeOK, UnheldShape
    <2>2. CASE s = r
      BY <1>1, <2>2
    <2>3. CASE r.phase = "inflight" /\ r.user
               /\ \E p \in {"done", "failed"} : s = [r EXCEPT !.phase = p]
      <3>1. /\ s.user /\ s.escape = r.escape /\ s.api = r.api
            /\ s.phase # "inflight"
        BY <2>1, <2>3 DEF Request
      <3>2. RecordOwner(s) = RecordOwner(r) /\ RecordOwner(r) # "orphan"
        BY <2>3, <3>1 DEF RecordOwner
      <3> QED BY <1>1, <2>3, <3>1, <3>2
    <2>4. CASE ~r.user /\ s = Idle
      <3>1. RecordOwner(s) = "ucx" /\ s.phase # "inflight"
        BY <2>4 DEF RecordOwner, Idle
      <3>2. RecordOwner(r) = IF r.phase = "idle" THEN "ucx" ELSE "orphan"
        BY <2>4 DEF RecordOwner
      <3> QED BY <1>1, <2>1, <2>4, <3>1, <3>2
    <2>5. Advanced(r, s)
      OBVIOUS
    <2> QED BY <2>2, <2>3, <2>4, <2>5 DEF Advanced
  <1>3. P = [x \in Addr |-> IF x \in E /\ O[x] = "orphan" THEN "ucx" ELSE O[x]]
    BY <1>2
  <1>4. S = [x \in Addr |-> x \notin E /\ R[x]]
    BY <1>2
  <1>5. E \in SUBSET Addr /\ \A x \in E : R[x]
    OBVIOUS
  <1>6. PICK F \in SUBSET Addr : F = E
    BY <1>5
  <1>7. Life!Finish(F)
    BY <1>3, <1>4, <1>5, <1>6 DEF Life!Finish
  <1> QED BY <1>7 DEF Life!LifeNext

----------------------------------------------------------------------------
(* Every step of Requests moves one record or lets records advance.        *)

\* The submitting calls.
LEMMA SubmitMoves ==
    ASSUME IndInv, NEW ret \in Return, NEW api \in GuardKind \cup PlainApi,
           NEW w \in Worker, NEW b \in Buf \cup {Nil}, NEW wr \in BOOLEAN,
           UcxSubmit(ret, api, w, b, wr)
    PROVE  ReqMove
  <1>1. CASE ret \in Addr /\ req[ret] = Idle
             /\ req' = [req EXCEPT ![ret] = Submitted(api, w, b, wr)]
    <2>1. Submitted(api, w, b, wr) \in Request
      BY DEF Submitted, Request
    <2>2. Moves(req[ret], Submitted(api, w, b, wr))
      BY <1>1 DEF Moves, Starts, Submitted
    <2> QED BY <1>1, <2>1, <2>2 DEF ReqMove
  <1>2. CASE UNCHANGED req
    BY <1>2 DEF ReqMove
  <1> QED BY <1>1, <1>2 DEF UcxSubmit, Submitted

\* A record that a plain request holds is loose, one that a guard holds is
\* that guard's.
LEMMA HeldRecord ==
    ASSUME IndInv, NEW x \in Wrapper, NEW a, Matches(x, a)
    PROVE  /\ a \in Addr /\ req[a] \in Request /\ req[a].user
           /\ x.kind = "request" => RecordOwner(req[a]) = "loose"
           /\ x.kind = "tag" => RecordOwner(req[a]) = "tag"
           /\ x.kind \in {"stream", "fetch"} => RecordOwner(req[a]) = "guard"
  BY DEF IndInv, TypeOK, Matches, RecordOwner, GuardKind, PlainApi

\* Giving a record back through ucp_request_free.
LEMMA FreeMoves ==
    ASSUME IndInv, NEW a \in Addr, req[a].user,
           RecordOwner(req[a]) \in {"tag", "guard", "loose"},
           req[a].phase = "inflight" => RecordOwner(req[a]) = "loose",
           req' = [req EXCEPT ![a] = Freed(req[a])]
    PROVE  ReqMove
  <1>1. req[a] \in Request /\ Idle \in Request
    BY DEF IndInv, TypeOK, Idle, PlainApi, Request
  <1>2. [req[a] EXCEPT !.user = FALSE] \in Request
    BY <1>1 DEF Request
  <1>3. Freed(req[a]) \in Request
    BY <1>1, <1>2 DEF Freed
  <1>4. Moves(req[a], Freed(req[a]))
    BY DEF Moves, GivesBack, Abandons, Freed
  <1> QED BY <1>3, <1>4 DEF ReqMove

\* The operations on a request or guard outside of a loop.
LEMMA UseMoves == ASSUME IndInv, Use PROVE ReqMove
  <1>0. own \in [Var -> Wrapper] /\ \A v \in Var :
           own[v].handle # 0 => Matches(own[v], own[v].handle) /\ LiveHandle(own[v].handle)
    BY HeldIsLive DEF IndInv, TypeOK, HandlesMatch
  <1>1. ASSUME NEW v \in Var, DropRequest(v) PROVE ReqMove
    <2>1. CASE own[v].handle = 0
      BY <1>1, <2>1 DEF DropRequest, ReqMove
    <2>2. CASE own[v].handle # 0
      <3>1. req' = [req EXCEPT ![own[v].handle] = Freed(req[own[v].handle])]
            /\ own[v].kind = "request"
        BY <1>0, <1>1, <2>2 DEF DropRequest, ReqAfterFree
      <3> QED BY <1>0, <2>2, <3>1, HeldRecord, FreeMoves
    <2> QED BY <2>1, <2>2
  <1>2. ASSUME NEW v \in Var, CancelAndFree(v) PROVE ReqMove
    <2>1. CASE own[v].handle = 0
      BY <1>2, <2>1 DEF CancelAndFree, ReqMove
    <2>2. CASE own[v].handle # 0
      <3> DEFINE h == own[v].handle
      <3>1. /\ h \in Addr /\ req[h] \in Request /\ req[h].user
            /\ RecordOwner(req[h]) = "loose" /\ Idle \in Request
        BY <1>0, <1>2, <2>2, HeldRecord
           DEF CancelAndFree, Idle, PlainApi, Request
      <3>2. PICK now \in BOOLEAN :
               req' = [req EXCEPT ![h] = Freed(Cancelled(req[h], now))]
        BY <1>0, <1>2, <2>2 DEF CancelAndFree
      <3>3. CASE req[h].phase = "inflight" /\ now
        <4>1. Freed(Cancelled(req[h], now)) = Idle
          BY <3>1, <3>3 DEF Freed, Cancelled, Request
        <4>2. Moves(req[h], Idle)
          BY <3>1, <3>3 DEF Moves, Abandons
        <4> QED BY <3>1, <3>2, <4>1, <4>2 DEF ReqMove
      <3>4. CASE ~(req[h].phase = "inflight" /\ now)
        <4>1. Cancelled(req[h], now) = req[h]
          BY <3>4 DEF Cancelled
        <4> HIDE DEF h
        <4> QED BY <3>1, <3>2, <4>1, FreeMoves
      <3> QED BY <3>3, <3>4
    <2> QED BY <2>1, <2>2
  <1>3. ASSUME NEW v \in Var, CancelRequest(v) PROVE ReqMove
    <2> DEFINE h == own[v].handle
    <2>1. h \in Addr /\ req[h] \in Request /\ req[h].user
      BY <1>0, <1>3, HeldRecord DEF CancelRequest
    <2>2. PICK now \in BOOLEAN : req' = [req EXCEPT ![h] = Cancelled(req[h], now)]
      BY <1>0, <1>3 DEF CancelRequest
    <2>3. Advanced(req[h], Cancelled(req[h], now))
      BY <2>1 DEF Cancelled, Advanced
    <2>4. req \in [Addr -> Request] /\ \A a \in Addr : Advanced(req[a], req[a])
      BY DEF IndInv, TypeOK, Advanced
    <2> HIDE DEF h
    <2>5. \A a \in Addr : Advanced(req[a], req'[a])
      BY <2>1, <2>2, <2>3, <2>4
    <2> QED BY <2>5 DEF ReqMove
  <1>4. ASSUME NEW v \in Var, IntoInner(v) PROVE ReqMove
    <2>1. CASE own[v].handle = 0
      BY <1>4, <2>1, HeldIsLive DEF IntoInner, ReqMove
    <2>2. CASE own[v].handle # 0
      <3> DEFINE h == own[v].handle
                 s == [req[h] EXCEPT !.escape = "extracted"]
      <3>1. /\ h \in Addr /\ req[h] \in Request
            /\ RecordOwner(req[h]) \in {"tag", "guard"}
        BY <1>0, <1>4, <2>2, HeldRecord DEF IntoInner, GuardKind
      <3>2. req' = [req EXCEPT ![h] = s]
        BY <1>0, <1>4, <2>2 DEF IntoInner
      <3>3. s \in Request
        BY <3>1 DEF Request
      <3>4. Moves(req[h], s)
        BY <3>1 DEF Moves, Extracts
      <3> HIDE DEF h, s
      <3> QED BY <3>1, <3>2, <3>3, <3>4 DEF ReqMove
    <2> QED BY <2>1, <2>2
  <1>5. ASSUME NEW v \in Var,
               \/ BeginComplete(v) \/ BeginDrain(v)
               \/ \E w \in Worker : BeginWait(v, w)
        PROVE  ReqMove
    BY <1>5 DEF BeginComplete, BeginDrain, BeginWait, ReqMove
  <1>6. ASSUME NEW w \in Worker, Progress(w) PROVE ReqMove
    BY <1>6, ProgressEffect DEF Progress, ReqMove
  <1> QED BY <1>1, <1>2, <1>3, <1>4, <1>5, <1>6 DEF Use

\* The steps of the bounded loops.
LEMMA LoopMoves == ASSUME IndInv, LoopStep PROVE ReqMove
  <1>1. CASE CompleteCheck
    <2> DEFINE h == own[call.var].handle
    <2>0. own[call.var] \in Wrapper /\ own[call.var].kind = "tag"
          /\ (h = 0 \/ (LiveHandle(h) /\ Matches(own[call.var], h)))
      BY <1>1, HeldIsLive DEF CompleteCheck, IndInv, CallShape, TypeOK, HandlesMatch
    <2>1. CASE CheckFinished(h) = "false" \/ h = 0
      BY <1>1, <2>1, HeldIsLive DEF CompleteCheck, ReqAfterFree, ReqMove
    <2>2. CASE CheckFinished(h) # "false" /\ h # 0
      <3>1. req[h].phase # "inflight"
        BY <2>0, <2>2, CheckFinishedExact
      <3>2. req' = [req EXCEPT ![h] = Freed(req[h])]
        BY <1>1, <2>0, <2>2 DEF CompleteCheck, ReqAfterFree
      <3> HIDE DEF h
      <3>3. /\ h \in Addr /\ req[h] \in Request /\ req[h].user
            /\ RecordOwner(req[h]) = "tag"
        BY <2>0, <2>2, HeldRecord
      <3> QED BY <3>1, <3>2, <3>3, FreeMoves
    <2> QED BY <2>1, <2>2
  <1>2. CASE DrainCheck
    <2> DEFINE h == call.handle
               s == [req[h] EXCEPT !.escape = "leaked"]
    <2>0. /\ own[call.var] \in Wrapper
          /\ own[call.var].kind \in {"stream", "fetch"}
          /\ LiveHandle(h) /\ Matches(own[call.var], h) /\ h # 0
      BY <1>2, HeldIsLive DEF DrainCheck, IndInv, CallShape, TypeOK, HandlesMatch
    <2>1. /\ h \in Addr /\ req[h] \in Request /\ req[h].user
          /\ RecordOwner(req[h]) = "guard"
      BY <2>0, HeldRecord
    <2>2. CASE call.left = 0
      <3>1. req' = [req EXCEPT ![h] = s]
        BY <1>2, <2>2 DEF DrainCheck
      <3>2. s \in Request
        BY <2>1 DEF Request
      <3>3. Moves(req[h], s)
        BY <2>1 DEF Moves, Loses
      <3> HIDE DEF h, s
      <3> QED BY <2>1, <3>1, <3>2, <3>3 DEF ReqMove
    <2>3. CASE call.left # 0 /\ CheckFinished(h) = "false"
      BY <1>2, <2>3 DEF DrainCheck, ReqMove
    <2>4. CASE call.left # 0 /\ CheckFinished(h) # "false"
      <3>1. req[h].phase # "inflight"
        BY <2>0, <2>4, CheckFinishedExact
      <3>2. req' = [req EXCEPT ![h] = Freed(req[h])]
        BY <1>2, <2>0, <2>4 DEF DrainCheck, ReqAfterFree
      <3> HIDE DEF h
      <3> QED BY <2>1, <3>1, <3>2, FreeMoves
    <2> QED BY <2>2, <2>3, <2>4
  <1>3. CASE WaitCheck
    BY <1>3 DEF WaitCheck, ReqMove
  <1>4. CASE LoopProgress
    BY <1>4, ProgressEffect DEF LoopProgress, ReqMove
  <1> QED BY <1>1, <1>2, <1>3, <1>4 DEF LoopStep

\* Every step of Requests.
LEMMA NextMoves == ASSUME IndInv, [Next]_vars PROVE ReqMove
  <1>1. CASE Submit
    <2>1. PICK v \in Var, ret \in Return, w \in Worker :
             \/ \E gw \in Worker, b \in Buf :
                   \/ TagSend(v, ret, w, gw, b)
                   \/ TagRecv(v, ret, w, gw, b)
                   \/ StreamSend(v, ret, w, gw, b)
                   \/ StreamRecv(v, ret, w, gw, b)
                   \/ FetchAmo64(v, ret, w, gw, b)
                   \/ FetchAmo32(v, ret, w, gw, b)
             \/ \E b \in Buf : TagMsgRecv(v, ret, w, b) \/ TagSendSync(v, ret, w, b)
             \/ SubmitPlain(v, ret, w)
      BY <1>1 DEF Submit
    <2>2. \E api \in GuardKind \cup PlainApi, b \in Buf \cup {Nil}, wr \in BOOLEAN :
             UcxSubmit(ret, api, w, b, wr)
      BY <2>1 DEF TagSend, StreamSend, GuardedSend, TagRecv, StreamRecv,
           FetchAmo64, FetchAmo32, GuardedRecv, TagMsgRecv, TagSendSync,
           SubmitPlain, TagSendPtr, TagRecvPtr, RmaPutGet, StreamNbx,
           AmoPost64, AmoPost32, AmSend, AmRecvData, WorkerFlush, EpFlush,
           RmaNbx, AtomicOpNbx, AtomicFaddFswap, AtomicFcswap, AtomicAddSwap,
           AtomicXor, PlainSubmit, GuardKind, PlainApi
    <2> QED BY <2>2, SubmitMoves
  <1>2. CASE Use
    BY <1>2, UseMoves
  <1>3. CASE LoopStep
    BY <1>3, LoopMoves
  <1>4. CASE UNCHANGED vars
    BY <1>4 DEF vars, ReqMove
  <1> QED BY <1>1, <1>2, <1>3, <1>4 DEF Next

----------------------------------------------------------------------------
(* The theorem.                                                            *)

\* Every step of Requests is a step of RequestLife or leaves it alone.
LEMMA StepIsLife ==
    ASSUME IndInv, IndInv', [Next]_vars
    PROVE  Life!LifeNext \/ UNCHANGED Life!life
  <1>1. ReqMove
    BY NextMoves
  <1>2. CASE UNCHANGED req
    <2>1. \A a \in Addr : OwnerOf(a) = OwnerOf(a)'
      BY <1>2, OwnerByRecord, OwnerByRecordNext DEF RecordOwner
    <2> QED BY <1>2, <2>1 DEF Life!life
  <1>3. CASE \A a \in Addr : Advanced(req[a], req'[a])
    BY <1>3, AdvanceIsLife
  <1>4. CASE \E a \in Addr : \E s \in Request :
                req' = [req EXCEPT ![a] = s] /\ Moves(req[a], s)
    BY <1>4, MoveIsLife
  <1> QED BY <1>1, <1>2, <1>3, <1>4 DEF ReqMove

\* Requests implements RequestLife, for any number of requests, variables,
\* buffers and workers and any bound of the loops: a guarded request is given
\* back only after its operation has ended, a tag guard loses none, and what
\* is the program's has one holder.
THEOREM LifeImplemented == Spec => ImplementsLife
  <1>1. Init => Life!LifeInit
    <2> SUFFICES ASSUME Init PROVE Life!LifeInit
      OBVIOUS
    <2>1. \A a \in Addr : OwnerOf(a) = "ucx"
      BY InitIndInv, OwnerByRecord DEF Init, Idle, RecordOwner
    <2>2. \A a \in Addr : (req[a].phase = "inflight") = FALSE
      BY DEF Init, Idle
    <2> QED BY <2>1, <2>2 DEF Life!LifeInit
  <1>2. IndInv /\ IndInv' /\ [Next]_vars => [Life!LifeNext]_(Life!life)
    BY StepIsLife
  <1> QED BY <1>1, <1>2, IndInvHolds, PTL DEF Spec, ImplementsLife, Life!LifeSpec
=============================================================================
