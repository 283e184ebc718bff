--------------------------- MODULE RequestsProofs ---------------------------
(***************************************************************************)
(* TLAPS proofs about Requests and UcxStatus.                              *)
(***************************************************************************)
EXTENDS Requests, TLAPS

USE PtrModAssumption, AddrAssumption, ErrStatusAssumption,
    MaxProgressAssumption, NilAssumption

\* Every status of the decoding table survives the cast to a status pointer
\* and back, for every word width (status_ptr_is_err, status_from_ptr).
THEOREM DecodeRoundTrip ==
    \A s \in DecodeTable : /\ StatusPtrIsErr(AsWord(s))
                           /\ StatusFromPtr(AsWord(s)) = s
  BY DEF DecodeTable, StatusPtrIsErr, AsWord, StatusFromPtr, AsSigned,
         UCS_ERR_LAST

\* An address is never taken for an error or for an immediate status.
LEMMA AddrDecode ==
    \A a \in Addr : /\ a \in Word
                    /\ a # 0
                    /\ StatusPtrToResult(a).tag = "request"
                    /\ StatusPtrToResult(a).handle = a
  BY DEF StatusPtrToResult, StatusPtrIsErr, AsWord, UCS_INPROGRESS, UCS_OK,
         UCS_ERR_LAST, Word

\* An immediate return is never taken for an address.
LEMMA ImmediateDecode ==
    \A ret \in Immediate :
        /\ ret \notin Addr
        /\ StatusPtrToResult(ret).tag # "request"
        /\ StatusPtrToResult(ret).handle = 0
  <1>1. UCS_OK \notin Addr /\ StatusPtrToResult(UCS_OK).tag = "none"
                          /\ StatusPtrToResult(UCS_OK).handle = 0
    BY DEF StatusPtrToResult, StatusPtrIsErr, AsWord, UCS_OK, UCS_ERR_LAST,
           UCS_INPROGRESS
  <1>2. ASSUME NEW s \in ErrStatus
        PROVE  /\ AsWord(s) \notin Addr
               /\ StatusPtrToResult(AsWord(s)).tag = "err"
               /\ StatusPtrToResult(AsWord(s)).handle = 0
    <2>1. s \in -100 .. -1
      BY DEF DecodeTable
    <2>2. StatusPtrIsErr(AsWord(s)) /\ AsWord(s) \notin Addr
      BY <2>1 DEF StatusPtrIsErr, AsWord, UCS_ERR_LAST
    <2> QED BY <2>2 DEF StatusPtrToResult
  <1> QED BY <1>1, <1>2 DEF Immediate

----------------------------------------------------------------------------
(* The inductive invariant holds initially.                                *)

\* The program starts with no handle anywhere, which the invariant allows.
LEMMA InitIndInv == Init => IndInv
  <1> SUFFICES ASSUME Init PROVE IndInv
    OBVIOUS
  <1> USE DEF Init, Idle, Empty, NoCall, GuardKind, PlainApi
  <1>1. TypeOK
    <2>1. Idle \in Request
      BY DEF Request
    <2>2. Empty \in Wrapper
      BY DEF Wrapper, Word
    <2>3. NoCall \in Call
      BY DEF Call, Word
    <2> QED BY <2>1, <2>2, <2>3 DEF TypeOK
  <1>2. CallShape
    BY DEF CallShape
  <1>3. HandlesMatch /\ HandlesDistinct
    BY DEF HandlesMatch, HandlesDistinct
  <1>4. UnheldShape
    BY DEF UnheldShape
  <1> QED BY <1>1, <1>2, <1>3, <1>4 DEF IndInv

----------------------------------------------------------------------------
(* Submitting an operation.                                                *)

Submitted(api, w, b, wr) ==
    [phase |-> "inflight", user |-> TRUE, api |-> api, buf |-> b,
     writes |-> wr, worker |-> w, escape |-> "no"]

\* A wrapper for a request just allocated for it.
LEMMA NewRequestStep ==
    ASSUME IndInv, call = NoCall, NEW v \in Var, NEW a \in Addr, NEW x \in Wrapper,
           NEW api \in GuardKind \cup PlainApi, NEW w \in Worker,
           NEW b \in Buf \cup {Nil}, NEW wr \in BOOLEAN,
           req[a] = Idle, own[v] = Empty, x.handle = a,
           \/ x.kind = api /\ api \in GuardKind /\ x.buf = b /\ x.writes = wr
           \/ x.kind = "request" /\ api \in PlainApi,
           req' = [req EXCEPT ![a] = Submitted(api, w, b, wr)],
           own' = [own EXCEPT ![v] = x],
           UNCHANGED <<call, misuse, aborted>>
    PROVE  IndInv'
  <1> USE AddrDecode DEF GuardKind, PlainApi
  <1>1. req \in [Addr -> Request] /\ own \in [Var -> Wrapper]
    BY DEF IndInv, TypeOK
  <1>2. TypeOK'
    <2>1. Submitted(api, w, b, wr) \in Request
      BY DEF Submitted, Request
    <2> QED BY <2>1 DEF IndInv, TypeOK
  <1>3. \A u \in Var : own[u].handle # a
    BY DEF IndInv, HandlesMatch, Matches, Idle
  <1>4. CallShape'
    BY DEF CallShape, NoCall
  <1>5. HandlesMatch'
    BY <1>1, <1>3 DEF IndInv, HandlesMatch, Matches, Submitted, NoCall
  <1>6. HandlesDistinct'
    BY <1>1, <1>3 DEF IndInv, HandlesDistinct, NoCall
  <1>7. UnheldShape'
    BY <1>1, <1>3 DEF IndInv, UnheldShape, NoCall, Empty, Submitted
  <1> QED BY <1>2, <1>4, <1>5, <1>6, <1>7 DEF IndInv

\* A variable gets, or loses, a wrapper without a handle.
LEMMA InertStep ==
    ASSUME IndInv, call = NoCall, NEW v \in Var, NEW x \in Wrapper,
           own[v].handle = 0, x.handle = 0,
           own' = [own EXCEPT ![v] = x],
           UNCHANGED <<req, call, misuse, aborted>>
    PROVE  IndInv'
  <1>1. req \in [Addr -> Request] /\ own \in [Var -> Wrapper]
    BY DEF IndInv, TypeOK
  <1>2. TypeOK'
    BY DEF IndInv, TypeOK
  <1>3. CallShape'
    BY DEF CallShape, NoCall
  <1>4. HandlesMatch' /\ HandlesDistinct'
    BY <1>1 DEF IndInv, HandlesMatch, HandlesDistinct, Matches, NoCall
  <1>5. UnheldShape'
    BY <1>1, AddrDecode DEF IndInv, UnheldShape, NoCall
  <1> QED BY <1>2, <1>3, <1>4, <1>5 DEF IndInv

\* Nothing changes.
LEMMA StutterStep == ASSUME IndInv, UNCHANGED vars PROVE IndInv'
  BY DEF IndInv, vars, TypeOK, CallShape, HandlesMatch, HandlesDistinct,
         UnheldShape, Matches

\* Ep::tag_send and Ep::stream_send preserve the invariant.
LEMMA GuardedSendStep ==
    ASSUME IndInv, NEW kind \in GuardKind, NEW v \in Var, NEW ret \in Return,
           NEW w \in Worker, NEW gw \in Worker, NEW b \in Buf,
           GuardedSend(kind, v, ret, w, gw, b)
    PROVE  IndInv'
  <1>0. call = NoCall
    BY DEF GuardedSend, Running, IndInv, CallShape
  <1>1. CASE ret \in Addr
    <2>1. ret \notin Immediate
      BY <1>1, ImmediateDecode
    <2>2. Guard(kind, ret, b, FALSE, gw) \in Wrapper
      BY <1>1, AddrDecode DEF Wrapper, Guard
    <2>3. req[ret] = Idle /\ req' = [req EXCEPT ![ret] = Submitted(kind, w, b, FALSE)]
      BY <2>1 DEF GuardedSend, UcxSubmit, Submitted
    <2>4. /\ own[v] = Empty
          /\ own' = [own EXCEPT ![v] = Guard(kind, ret, b, FALSE, gw)]
          /\ UNCHANGED <<call, misuse, aborted>>
      BY <1>1, AddrDecode DEF GuardedSend
    <2> QED BY <1>0, <1>1, <2>2, <2>3, <2>4, NewRequestStep DEF Guard
  <1>2. CASE ret \in Immediate
    <2>1. UNCHANGED vars
      BY <1>2, ImmediateDecode DEF GuardedSend, UcxSubmit, vars
    <2> QED BY <2>1, StutterStep
  <1> QED BY <1>1, <1>2 DEF Return

\* Worker::tag_recv, Ep::stream_recv and the fetching atomics preserve the
\* invariant.
LEMMA GuardedRecvStep ==
    ASSUME IndInv, NEW kind \in GuardKind, NEW v \in Var, NEW ret \in Return,
           NEW w \in Worker, NEW gw \in Worker, NEW b \in Buf,
           GuardedRecv(kind, v, ret, w, gw, b)
    PROVE  IndInv'
  <1>0. call = NoCall
    BY DEF GuardedRecv, Running, IndInv, CallShape
  <1>1. CASE ret \in Addr
    <2>1. ret \notin Immediate
      BY <1>1, ImmediateDecode
    <2>2. Guard(kind, ret, b, TRUE, gw) \in Wrapper
      BY <1>1, AddrDecode DEF Wrapper, Guard
    <2>3. req[ret] = Idle /\ req' = [req EXCEPT ![ret] = Submitted(kind, w, b, TRUE)]
      BY <2>1 DEF GuardedRecv, UcxSubmit, Submitted
    <2>4. /\ own[v] = Empty
          /\ own' = [own EXCEPT ![v] = Guard(kind, ret, b, TRUE, gw)]
          /\ UNCHANGED <<call, misuse, aborted>>
      BY <1>1, AddrDecode DEF GuardedRecv
    <2> QED BY <1>0, <1>1, <2>2, <2>3, <2>4, NewRequestStep DEF Guard
  <1>2. CASE ret \in Immediate
    <2>1. /\ own[v] = Empty
          /\ UNCHANGED <<req, call, misuse, aborted>>
          /\ \/ own' = own
             \/ own' = [own EXCEPT ![v] = Guard(kind, 0, b, TRUE, gw)]
      BY <1>2, ImmediateDecode DEF GuardedRecv, UcxSubmit
    <2>2. Guard(kind, 0, b, TRUE, gw) \in Wrapper
      BY DEF Wrapper, Guard, Word
    <2>3. CASE own' = own
      BY <2>1, <2>3, StutterStep DEF vars
    <2>4. CASE own' = [own EXCEPT ![v] = Guard(kind, 0, b, TRUE, gw)]
      <3>1. own[v].handle = 0 /\ Guard(kind, 0, b, TRUE, gw).handle = 0
        BY <2>1 DEF Empty, Guard
      <3> QED BY <1>0, <2>1, <2>2, <2>4, <3>1, InertStep
    <2> QED BY <2>1, <2>3, <2>4
  <1> QED BY <1>1, <1>2 DEF Return

\* PlainSubmit and TagSendSync differ in what an immediate success leaves.
LEMMA PlainStep ==
    ASSUME IndInv, NEW v \in Var, NEW ret \in Return, NEW w \in Worker,
           NEW api \in PlainApi, NEW b \in Buf \cup {Nil}, NEW wr \in BOOLEAN,
           \/ PlainSubmit(api, v, ret, w, b, wr)
           \/ TagSendSync(v, ret, w, b) /\ api = "tagplain" /\ wr = FALSE
    PROVE  IndInv'
  <1>0. call = NoCall
    BY DEF PlainSubmit, TagSendSync, Running, IndInv, CallShape
  <1>a. UcxSubmit(ret, api, w, b, wr) /\ own[v] = Empty
        /\ UNCHANGED <<call, misuse, aborted>>
    BY DEF PlainSubmit, TagSendSync
  <1>1. CASE ret \in Addr
    <2>1. ret \notin Immediate
      BY <1>1, ImmediateDecode
    <2>2. PlainRequest(ret) \in Wrapper
      BY <1>1, AddrDecode DEF Wrapper, PlainRequest, Empty
    <2>3. req[ret] = Idle /\ req' = [req EXCEPT ![ret] = Submitted(api, w, b, wr)]
      BY <1>a, <2>1 DEF UcxSubmit, Submitted
    <2>4. own' = [own EXCEPT ![v] = PlainRequest(ret)]
      BY <1>1, AddrDecode DEF PlainSubmit, TagSendSync
    <2>5. PlainRequest(ret).handle = ret /\ PlainRequest(ret).kind = "request"
      BY DEF PlainRequest, Empty
    <2> QED BY <1>0, <1>a, <1>1, <2>2, <2>3, <2>4, <2>5, NewRequestStep
  <1>2. CASE ret \in Immediate
    <2>1. UNCHANGED req
      BY <1>a, <1>2, ImmediateDecode DEF UcxSubmit
    <2>2. PlainRequest(0) \in Wrapper /\ PlainRequest(0).handle = 0
      <3>1. 0 \in Word
        BY DEF Word
      <3> QED BY <3>1 DEF Wrapper, PlainRequest
    <2>3. own' = own \/ own' = [own EXCEPT ![v] = PlainRequest(0)]
      BY <1>2, ImmediateDecode DEF PlainSubmit, TagSendSync
    <2>4. CASE own' = own
      BY <1>a, <2>1, <2>4, StutterStep DEF vars
    <2>5. CASE own' = [own EXCEPT ![v] = PlainRequest(0)]
      <3>1. own[v].handle = 0
        BY <1>a DEF Empty
      <3> QED BY <1>0, <1>a, <2>1, <2>2, <2>5, <3>1, InertStep
    <2> QED BY <2>3, <2>4, <2>5
  <1> QED BY <1>1, <1>2 DEF Return

----------------------------------------------------------------------------
(* Giving a request back.                                                  *)

\* A held handle is live, so UCX is never misused with it.
LEMMA HeldIsLive ==
    ASSUME IndInv
    PROVE  /\ \A v \in Var : own[v].handle # 0 => LiveHandle(own[v].handle)
           /\ call.handle # 0 => LiveHandle(call.handle)
           /\ ~LiveHandle(0)
  BY AddrDecode DEF IndInv, HandlesMatch, Matches, LiveHandle

\* The request held by v goes back to UCX and v keeps no handle.  Only a plain
\* request may still be in flight.
LEMMA GiveBackStep ==
    ASSUME IndInv, NEW v \in Var, NEW x \in Wrapper, NEW h, NEW r,
           call.handle = 0, h = own[v].handle, h # 0, x.handle = 0,
           \/ r = Idle
           \/ /\ r = [req[h] EXCEPT !.user = FALSE]
              /\ own[v].kind = "request" /\ req[h].phase = "inflight",
           req' = [req EXCEPT ![h] = r],
           own' = [own EXCEPT ![v] = x],
           call' = NoCall,
           UNCHANGED <<misuse, aborted>>
    PROVE  IndInv'
  <1>1. /\ req \in [Addr -> Request]
        /\ own \in [Var -> Wrapper]
        /\ h \in Addr
        /\ req[h] \in Request
    BY HeldIsLive DEF IndInv, TypeOK, LiveHandle
  <1>2. r \in Request
    <2>1. Idle \in Request
      BY DEF Request, Idle, PlainApi
    <2>2. [req[h] EXCEPT !.user = FALSE] \in Request
      BY <1>1 DEF Request
    <2> QED BY <2>1, <2>2
  <1>3. TypeOK'
    <2>1. NoCall \in Call
      BY DEF NoCall, Call, Word
    <2> QED BY <1>2, <2>1 DEF IndInv, TypeOK
  <1>4. CallShape'
    BY DEF CallShape, NoCall
  <1>5. \A u \in Var : u # v => own[u].handle # h
    BY DEF IndInv, HandlesDistinct
  <1>6. HandlesMatch' /\ HandlesDistinct'
    BY <1>1, <1>5 DEF IndInv, HandlesMatch, HandlesDistinct, Matches, NoCall
  <1>7. UnheldShape'
    <2>1. own[v].kind = "request" =>
             req[h].api \in PlainApi \/ req[h].escape = "extracted"
      BY DEF IndInv, HandlesMatch, Matches
    <2>2. req[h].escape # "leaked"
      BY DEF IndInv, HandlesMatch, Matches, GuardKind, PlainApi, TypeOK, Wrapper
    <2>3. /\ r.phase = "idle" => r = Idle
          /\ ~r.user /\ r.phase \in {"idle", "inflight"}
          /\ r.api \in PlainApi \/ r.escape = "extracted"
          /\ r.escape # "leaked"
      BY <1>1, <2>1, <2>2 DEF Idle, PlainApi, Request
    <2> QED BY <1>1, <1>5, <2>3 DEF IndInv, UnheldShape, NoCall
  <1> QED BY <1>3, <1>4, <1>6, <1>7 DEF IndInv

\* Request::drop, free and release preserve the invariant.
LEMMA DropRequestStep ==
    ASSUME IndInv, NEW v \in Var, DropRequest(v)
    PROVE  IndInv'
  <1>0. call = NoCall
    BY DEF DropRequest, Running, IndInv, CallShape
  <1>1. Empty \in Wrapper
    BY DEF Wrapper, Empty, Word
  <1>2. CASE own[v].handle = 0
    BY <1>0, <1>1, <1>2, InertStep DEF DropRequest, Empty
  <1>3. CASE own[v].handle # 0
    <2>1. LiveHandle(own[v].handle)
      BY <1>3, HeldIsLive
    <2>2. /\ req' = [req EXCEPT ![own[v].handle] = Freed(req[own[v].handle])]
          /\ UNCHANGED <<call, misuse, aborted>>
          /\ own' = [own EXCEPT ![v] = Empty] /\ own[v].kind = "request"
      BY <1>3, <2>1 DEF DropRequest, ReqAfterFree, Misused
    <2> QED BY <1>0, <1>1, <1>3, <2>2, GiveBackStep DEF Empty, Freed, NoCall
  <1> QED BY <1>2, <1>3

\* Request::cancel preserves the invariant.
LEMMA CancelAndFreeStep ==
    ASSUME IndInv, NEW v \in Var, CancelAndFree(v)
    PROVE  IndInv'
  <1>0. call = NoCall
    BY DEF CancelAndFree, Running, IndInv, CallShape
  <1> DEFINE x == [own[v] EXCEPT !.handle = 0]
  <1>1. x \in Wrapper /\ x.handle = 0 /\ own' = [own EXCEPT ![v] = x]
    BY DEF IndInv, TypeOK, Wrapper, Word, CancelAndFree
  <1>2. CASE own[v].handle = 0
    BY <1>0, <1>1, <1>2, InertStep DEF CancelAndFree
  <1>3. CASE own[v].handle # 0
    <2>1. LiveHandle(own[v].handle)
      BY <1>3, HeldIsLive
    <2>2. PICK now \in BOOLEAN :
             req' = [req EXCEPT ![own[v].handle] =
                       Freed(Cancelled(req[own[v].handle], now))]
      BY <1>3, <2>1 DEF CancelAndFree
    <2>3. UNCHANGED <<call, misuse, aborted>> /\ own[v].kind = "request"
      BY <1>3, <2>1 DEF CancelAndFree, Misused
    <2>4. \/ Freed(Cancelled(req[own[v].handle], now)) = Idle
          \/ /\ req[own[v].handle].phase = "inflight"
             /\ Freed(Cancelled(req[own[v].handle], now))
                   = [req[own[v].handle] EXCEPT !.user = FALSE]
      <3>1. req[own[v].handle] \in Request
        BY <2>1 DEF LiveHandle, IndInv, TypeOK
      <3> QED BY <3>1 DEF Freed, Cancelled, Request
    <2> HIDE DEF x
    <2> QED BY <1>0, <1>1, <1>3, <2>2, <2>3, <2>4, GiveBackStep DEF NoCall
  <1> QED BY <1>2, <1>3

----------------------------------------------------------------------------
(* Steps that change a request its holder keeps.                           *)

\* Each request keeps its owner, its operation and its escape, or was freed
\* before it ended and is recycled; ucp_worker_progress and
\* ucp_request_cancel do nothing else.
Advanced(r, s) ==
    \/ s = r
    \/ /\ r.phase = "inflight" /\ r.user
       /\ \E p \in {"done", "failed"} : s = [r EXCEPT !.phase = p]
    \/ ~r.user /\ s = Idle

\* A step in which every request only advances, and the loop at most moves on
\* to its next check, preserves the invariant.
LEMMA AdvanceStep ==
    ASSUME IndInv, req' \in [Addr -> Request],
           \A a \in Addr : Advanced(req[a], req'[a]),
           UNCHANGED own, UNCHANGED misuse, UNCHANGED aborted,
           call' \in Call, call'.fn = call.fn, call'.var = call.var,
           call'.handle = call.handle, call'.fn = "none" => call' = NoCall
    PROVE  IndInv'
  <1>1. req \in [Addr -> Request] /\ own \in [Var -> Wrapper]
    BY DEF IndInv, TypeOK
  <1>2. TypeOK'
    BY DEF IndInv, TypeOK
  <1>3. CallShape'
    BY DEF IndInv, CallShape
  <1>4. \A a \in Addr :
           /\ req[a].user => /\ req'[a].user
                             /\ req'[a].api = req[a].api
                             /\ req'[a].buf = req[a].buf
                             /\ req'[a].writes = req[a].writes
                             /\ req'[a].escape = req[a].escape
                             /\ req'[a].phase = req[a].phase
                                \/ req'[a].phase \in {"done", "failed"}
           /\ ~req[a].user => req'[a] = req[a] \/ req'[a] = Idle
    BY <1>1 DEF Advanced, Request
  <1>5. HandlesMatch' /\ HandlesDistinct'
    BY <1>4 DEF IndInv, HandlesMatch, HandlesDistinct, Matches
  <1>6. UnheldShape'
    <2> SUFFICES ASSUME NEW a \in Addr
                 PROVE  /\ req'[a].phase = "idle" => req'[a] = Idle
                        /\ ~req'[a].user =>
                              /\ req'[a].phase \in {"idle", "inflight"}
                              /\ \/ req'[a].api \in PlainApi
                                 \/ req'[a].escape = "extracted"
                        /\ req'[a].escape = "leaked" =>
                              req'[a].user /\ req'[a].api # "tag"
                        /\ req'[a].user /\ req'[a].escape # "leaked" =>
                              (\E v \in Var : own[v].handle = a)
                              \/ call.handle = a
      BY DEF UnheldShape
    <2>1. CASE req[a].user
      <3>1. req[a].phase # "idle"
        BY <2>1 DEF IndInv, UnheldShape, Idle
      <3> QED BY <2>1, <3>1, <1>4 DEF IndInv, UnheldShape
    <2>2. CASE ~req[a].user
      BY <2>2, <1>4 DEF IndInv, UnheldShape, Idle, PlainApi
    <2>3. req[a].user \in BOOLEAN
      BY <1>1 DEF Request
    <2> QED BY <2>1, <2>2, <2>3
  <1> QED BY <1>2, <1>3, <1>5, <1>6 DEF IndInv

\* ucp_worker_progress only advances requests.
LEMMA ProgressEffect ==
    ASSUME IndInv, NEW w, UcxProgress(w)
    PROVE  /\ req' \in [Addr -> Request]
           /\ \A a \in Addr : Advanced(req[a], req'[a])
  <1>1. req \in [Addr -> Request]
    BY DEF IndInv, TypeOK
  <1>2. PICK out \in [InFlight(w) -> {"inflight", "done", "failed"}] :
           req' = [a \in Addr |-> IF a \in InFlight(w)
                                  THEN Settle(req[a], out[a]) ELSE req[a]]
    BY DEF UcxProgress
  <1>3. ASSUME NEW a \in Addr
        PROVE  req'[a] \in Request /\ Advanced(req[a], req'[a])
    <2>1. CASE a \notin InFlight(w)
      BY <1>1, <1>2, <2>1 DEF Advanced
    <2>2. CASE a \in InFlight(w)
      <3>1. req[a].phase = "inflight" /\ req[a] \in Request
        BY <1>1, <2>2 DEF InFlight
      <3>2. req'[a] = Settle(req[a], out[a]) /\ out[a] \in {"inflight", "done", "failed"}
        BY <1>2, <2>2
      <3>3. CASE out[a] = "inflight"
        <4>1. req'[a] = req[a]
          BY <3>1, <3>2, <3>3 DEF Settle, Request
        <4> QED BY <4>1, <3>1 DEF Advanced
      <3>4. CASE out[a] # "inflight" /\ req[a].user
        <4>1. req'[a] = [req[a] EXCEPT !.phase = out[a]]
          BY <3>2, <3>4 DEF Settle
        <4>2. [req[a] EXCEPT !.phase = out[a]] \in Request
          BY <3>1, <3>2 DEF Request
        <4> QED BY <4>1, <4>2, <3>1, <3>2, <3>4 DEF Advanced
      <3>5. CASE out[a] # "inflight" /\ ~req[a].user
        <4>1. req'[a] = Idle
          BY <3>2, <3>5 DEF Settle
        <4>2. Idle \in Request
          BY DEF Idle, PlainApi, Request
        <4> QED BY <4>1, <4>2, <3>5 DEF Advanced
      <3> QED BY <3>1, <3>3, <3>4, <3>5 DEF Request
    <2> QED BY <2>1, <2>2
  <1> QED BY <1>2, <1>3

\* Worker::progress preserves the invariant.
LEMMA ProgressStep ==
    ASSUME IndInv, NEW w \in Worker, Progress(w)
    PROVE  IndInv'
  <1>1. UcxProgress(w) /\ UNCHANGED <<own, call, misuse, aborted>>
    BY DEF Progress
  <1>2. call \in Call /\ (call.fn = "none" => call = NoCall)
    BY DEF IndInv, TypeOK, CallShape
  <1> QED BY <1>1, <1>2, ProgressEffect, AdvanceStep

\* The progress call inside a bounded loop preserves the invariant.
LEMMA LoopProgressStep ==
    ASSUME IndInv, LoopProgress
    PROVE  IndInv'
  <1>1. /\ UcxProgress(call.worker)
        /\ call' = [call EXCEPT !.at = "check"]
        /\ call.fn # "none"
        /\ UNCHANGED <<own, misuse, aborted>>
    BY DEF LoopProgress
  <1>2. call \in Call
    BY DEF IndInv, TypeOK
  <1>3. /\ call' \in Call /\ call'.fn = call.fn /\ call'.var = call.var
        /\ call'.handle = call.handle
    BY <1>1, <1>2 DEF Call
  <1>4. req' \in [Addr -> Request] /\ \A a \in Addr : Advanced(req[a], req'[a])
    BY <1>1, ProgressEffect
  <1> QED BY <1>1, <1>3, <1>4, AdvanceStep

\* Worker::cancel_request preserves the invariant.
LEMMA CancelRequestStep ==
    ASSUME IndInv, NEW v \in Var, CancelRequest(v)
    PROVE  IndInv'
  <1> DEFINE h == own[v].handle
  <1>1. LiveHandle(h)
    BY HeldIsLive DEF CancelRequest
  <1>2. h \in Addr /\ req[h].user /\ req[h] \in Request
        /\ req \in [Addr -> Request]
    BY <1>1 DEF LiveHandle, IndInv, TypeOK
  <1>3. PICK now \in BOOLEAN : req' = [req EXCEPT ![h] = Cancelled(req[h], now)]
    BY <1>1 DEF CancelRequest
  <1>4. UNCHANGED <<own, call, misuse, aborted>>
    BY <1>1 DEF CancelRequest, Misused
  <1>5. Cancelled(req[h], now) \in Request /\ Advanced(req[h], Cancelled(req[h], now))
    <2>1. CASE req[h].phase = "inflight" /\ now
      <3>1. [req[h] EXCEPT !.phase = "failed"] \in Request
        BY <1>2 DEF Request
      <3> QED BY <2>1, <3>1, <1>2 DEF Cancelled, Advanced
    <2>2. CASE ~(req[h].phase = "inflight" /\ now)
      BY <2>2, <1>2 DEF Cancelled, Advanced
    <2> QED BY <2>1, <2>2
  <1>6. req' \in [Addr -> Request] /\ \A a \in Addr : Advanced(req[a], req'[a])
    <2> HIDE DEF h
    <2>1. ASSUME NEW a \in Addr, a # h PROVE Advanced(req[a], req'[a])
      BY <2>1, <1>2, <1>3 DEF Advanced
    <2> QED BY <1>2, <1>3, <1>5, <2>1
  <1>7. call \in Call /\ (call.fn = "none" => call = NoCall)
    BY DEF IndInv, TypeOK, CallShape
  <1> QED BY <1>4, <1>6, <1>7, AdvanceStep

----------------------------------------------------------------------------
(* Unwrapping a guard and the bounded loops.                               *)

\* Taking the request out of its guard with into_inner preserves the invariant.
LEMMA IntoInnerStep ==
    ASSUME IndInv, NEW v \in Var, IntoInner(v)
    PROVE  IndInv'
  <1>0. call = NoCall /\ own[v].kind \in GuardKind
    BY DEF IntoInner, Running, IndInv, CallShape
  <1>1. UNCHANGED <<call, misuse, aborted>>
    BY DEF IntoInner
  <1>2. 0 \in Word /\ Empty \in Wrapper /\ PlainRequest(0) \in Wrapper
        /\ Empty.handle = 0 /\ PlainRequest(0).handle = 0
    <2>1. 0 \in Word
      BY DEF Word
    <2> QED BY <2>1 DEF Wrapper, Empty, PlainRequest
  <1>3. CASE own[v].handle = 0
    <2>1. UNCHANGED req
      BY <1>3, HeldIsLive DEF IntoInner
    <2>2. \E x \in {Empty, PlainRequest(0)} : own' = [own EXCEPT ![v] = x]
      BY <1>3 DEF IntoInner
    <2> QED BY <1>0, <1>1, <1>2, <1>3, <2>1, <2>2, InertStep
  <1>4. CASE own[v].handle # 0
    <2> DEFINE h == own[v].handle
    <2>1. /\ h \in Addr /\ req[h].user /\ req[h] \in Request /\ h \in Word
          /\ req \in [Addr -> Request] /\ own \in [Var -> Wrapper]
      BY <1>4, HeldIsLive, AddrDecode DEF LiveHandle, IndInv, TypeOK
    <2>2. own' = [own EXCEPT ![v] = PlainRequest(h)]
      BY <1>4 DEF IntoInner
    <2>3. req' = [req EXCEPT ![h] = [req[h] EXCEPT !.escape = "extracted"]]
      BY <1>4, HeldIsLive DEF IntoInner
    <2>4. PlainRequest(h) \in Wrapper /\ PlainRequest(h).kind = "request"
          /\ PlainRequest(h).handle = h
      BY <2>1 DEF Wrapper, PlainRequest
    <2>5. [req[h] EXCEPT !.escape = "extracted"] \in Request
      BY <2>1 DEF Request
    <2>6. \A u \in Var : u # v => own[u].handle # h
      BY <1>4 DEF IndInv, HandlesDistinct
    <2>7. /\ h \in Addr => req'[h].user /\ req'[h].escape = "extracted"
          /\ req'[h].phase = req[h].phase
          /\ \A a \in Addr : a # h => req'[a] = req[a]
      BY <2>1, <2>3 DEF Request
    <2>8. h # 0 /\ req[h].phase # "idle"
      BY <1>4, <2>1 DEF IndInv, UnheldShape, Idle
    <2>9. /\ own'[v] = PlainRequest(h)
          /\ \A u \in Var : u # v => own'[u] = own[u]
      BY <2>1, <2>2
    <2>10. TypeOK'
      BY <1>1, <2>1, <2>2, <2>3, <2>4, <2>5 DEF IndInv, TypeOK
    <2> HIDE DEF h
    <2>11. CallShape'
      BY <1>0, <1>1 DEF CallShape, NoCall
    <2>12. HandlesMatch'
      BY <1>0, <1>1, <2>1, <2>4, <2>6, <2>7, <2>9
         DEF IndInv, HandlesMatch, Matches, NoCall, GuardKind, PlainApi
    <2>13. HandlesDistinct'
      BY <1>0, <1>1, <2>4, <2>6, <2>9 DEF IndInv, HandlesDistinct, NoCall
    <2>14. UnheldShape'
      <3> SUFFICES ASSUME NEW a \in Addr
                   PROVE  /\ req'[a].phase = "idle" => req'[a] = Idle
                          /\ ~req'[a].user =>
                                /\ req'[a].phase \in {"idle", "inflight"}
                                /\ \/ req'[a].api \in PlainApi
                                   \/ req'[a].escape = "extracted"
                          /\ req'[a].escape = "leaked" =>
                                req'[a].user /\ req'[a].api # "tag"
                          /\ req'[a].user /\ req'[a].escape # "leaked" =>
                                (\E u \in Var : own'[u].handle = a)
                                \/ call'.handle = a
        BY DEF UnheldShape
      <3>1. CASE a = h
        BY <3>1, <2>1, <2>4, <2>7, <2>8, <2>9
      <3>2. CASE a # h
        <4>1. \A u \in Var : own[u].handle = a => own'[u].handle = a
          BY <3>2, <2>9 DEF h
        <4> QED BY <3>2, <4>1, <2>7, <1>1 DEF IndInv, UnheldShape
      <3> QED BY <3>1, <3>2
    <2> QED BY <1>1, <2>10, <2>11, <2>12, <2>13, <2>14 DEF IndInv
  <1> QED BY <1>3, <1>4

\* A loop starts, goes on to its next round or ends without touching a request.
LEMMA CallOnlyStep ==
    ASSUME IndInv, UNCHANGED <<req, own, misuse>>, aborted' \in BOOLEAN,
           call' \in Call, call.handle = call'.handle, CallShape',
           call.handle # 0 => call'.var = call.var
    PROVE  IndInv'
  <1>1. TypeOK'
    BY DEF IndInv, TypeOK
  <1>2. HandlesMatch' /\ HandlesDistinct' /\ UnheldShape'
    BY DEF IndInv, HandlesMatch, HandlesDistinct, UnheldShape, Matches
  <1> QED BY <1>1, <1>2 DEF IndInv

\* The loops of wait_request and of TagRequest::complete start on a wrapper of
\* their kind.
LEMMA BeginStep ==
    ASSUME IndInv, NEW v \in Var,
           BeginComplete(v) \/ \E w \in Worker : BeginWait(v, w)
    PROVE  IndInv'
  <1>1. call = NoCall /\ UNCHANGED <<req, own, misuse, aborted>>
    BY DEF BeginComplete, BeginWait, Running, IndInv, CallShape
  <1>2. own[v] \in Wrapper /\ 0 \in Word /\ aborted \in BOOLEAN
    BY DEF IndInv, TypeOK, Word
  <1>3. call' \in Call
    BY <1>2 DEF BeginComplete, BeginWait, Call, Wrapper
  <1>4. call.handle = 0 /\ call'.handle = 0 /\ CallShape'
    BY <1>1 DEF BeginComplete, BeginWait, CallShape, NoCall
  <1> QED BY <1>1, <1>2, <1>3, <1>4, CallOnlyStep

\* Taking the request out of a stream or fetch guard preserves the invariant.
LEMMA BeginDrainStep ==
    ASSUME IndInv, NEW v \in Var, BeginDrain(v)
    PROVE  IndInv'
  <1>0. call = NoCall /\ own[v].kind \in {"stream", "fetch"}
        /\ UNCHANGED <<req, misuse, aborted>>
    BY DEF BeginDrain, Running, IndInv, CallShape
  <1>1. own[v] \in Wrapper /\ 0 \in Word /\ own \in [Var -> Wrapper]
        /\ req \in [Addr -> Request]
    BY DEF IndInv, TypeOK, Word
  <1>2. CASE own[v].handle = 0
    <2>1. Empty \in Wrapper /\ Empty.handle = 0
      BY <1>1 DEF Wrapper, Empty
    <2> QED BY <1>0, <1>2, <2>1, InertStep DEF BeginDrain
  <1>3. CASE own[v].handle # 0
    <2> DEFINE h == own[v].handle
               x == [own[v] EXCEPT !.handle = 0]
    <2>1. /\ own' = [own EXCEPT ![v] = x]
          /\ call' = [fn |-> "drain", var |-> v, handle |-> h,
                      worker |-> own[v].worker, left |-> MaxProgress,
                      at |-> "check"]
      BY <1>3 DEF BeginDrain
    <2>2. /\ x \in Wrapper /\ x.handle = 0 /\ x.kind = own[v].kind
          /\ x.buf = own[v].buf /\ x.writes = own[v].writes
      BY <1>1 DEF Wrapper
    <2>3. /\ own'[v] = x /\ \A u \in Var : u # v => own'[u] = own[u]
          /\ own' \in [Var -> Wrapper]
      BY <1>1, <2>1, <2>2
    <2>4. call' \in Call
      BY <1>1, <2>1 DEF Call, Wrapper
    <2>5. Matches(own[v], h) /\ \A u \in Var : u # v => own[u].handle # h
      BY <1>3 DEF IndInv, HandlesMatch, HandlesDistinct
    <2> HIDE DEF x
    <2>6. TypeOK'
      BY <1>0, <2>3, <2>4 DEF IndInv, TypeOK
    <2>7. CallShape'
      BY <1>0, <1>3, <2>1, <2>2, <2>3 DEF CallShape
    <2>8. HandlesMatch'
      BY <1>0, <1>3, <2>1, <2>2, <2>3, <2>5 DEF IndInv, HandlesMatch, Matches
    <2>9. HandlesDistinct'
      BY <1>0, <1>3, <2>1, <2>2, <2>3, <2>5 DEF IndInv, HandlesDistinct
    <2>10. UnheldShape'
      <3>1. \A a \in Addr : (\E u \in Var : own[u].handle = a) =>
                (\E u \in Var : own'[u].handle = a) \/ call'.handle = a
        BY <2>1, <2>3
      <3> QED BY <1>0, <3>1, AddrDecode DEF IndInv, UnheldShape, NoCall
    <2> QED BY <1>0, <2>6, <2>7, <2>8, <2>9, <2>10 DEF IndInv
  <1> QED BY <1>2, <1>3

\* check_finished() says Ok(false) exactly while the operation is in flight.
LEMMA CheckFinishedExact ==
    ASSUME IndInv, NEW h, h = 0 \/ LiveHandle(h)
    PROVE  CheckFinished(h) = "false" <=> h # 0 /\ req[h].phase = "inflight"
  <1>1. /\ CheckStatus(UCS_OK).tag = "true"
        /\ CheckStatus(UCS_INPROGRESS).tag = "false"
        /\ CheckStatus(UCS_ERR_IO_ERROR).tag = "err"
    BY DEF CheckStatus, StatusPtrIsErr, AsWord, UCS_OK, UCS_INPROGRESS,
           UCS_ERR_IO_ERROR, UCS_ERR_LAST
  <1>2. ~LiveHandle(0)
    BY HeldIsLive
  <1>3. CASE h = 0
    BY <1>3 DEF CheckFinished
  <1>4. CASE h # 0
    <2>1. LiveHandle(h) /\ req[h] \in Request
      BY <1>4 DEF LiveHandle, IndInv, TypeOK
    <2>2. CASE req[h].phase = "inflight"
      <3>1. StatusOf(h) = UCS_INPROGRESS
        BY <2>1, <2>2 DEF StatusOf
      <3> QED BY <1>1, <1>4, <2>2, <3>1 DEF CheckFinished
    <2>3. CASE req[h].phase # "inflight"
      <3>1. StatusOf(h) = UCS_OK \/ StatusOf(h) = UCS_ERR_IO_ERROR
        BY <2>1, <2>3 DEF StatusOf
      <3> QED BY <1>1, <1>4, <2>3, <3>1 DEF CheckFinished
    <2> QED BY <2>2, <2>3
  <1> QED BY <1>3, <1>4

\* One more round keeps everything of the call but its counter.
LEMMA NextRoundCall ==
    ASSUME call \in Call, call.left # 0, NextRound
    PROVE  /\ call' \in Call /\ call'.handle = call.handle
           /\ call'.fn = call.fn /\ call'.var = call.var
  <1>1. call.left - 1 \in 0 .. MaxProgress
    BY DEF Call
  <1>2. call' = [[call EXCEPT !.left = call.left - 1] EXCEPT !.at = "progress"]
    BY DEF NextRound, Call
  <1> DEFINE c == [call EXCEPT !.left = call.left - 1]
  <1>3. c \in Call /\ c.handle = call.handle /\ c.fn = call.fn /\ c.var = call.var
    BY <1>1 DEF Call
  <1>4. call' = [c EXCEPT !.at = "progress"]
    BY <1>2
  <1> HIDE DEF c
  <1>5. /\ call' \in Call /\ call'.handle = c.handle
        /\ call'.fn = c.fn /\ call'.var = c.var
    BY <1>3, <1>4 DEF Call
  <1> QED BY <1>3, <1>5

\* A check of TagRequest::complete preserves the invariant.
LEMMA CompleteCheckStep ==
    ASSUME IndInv, CompleteCheck
    PROVE  IndInv'
  <1> DEFINE v == call.var
             h == own[v].handle
  <1>1. v \in Var /\ own[v].kind = "tag" /\ call.handle = 0 /\ call \in Call
        /\ call.fn = "complete" /\ aborted \in BOOLEAN
    BY DEF CompleteCheck, IndInv, CallShape, TypeOK
  <1>2. h = 0 \/ LiveHandle(h)
    BY <1>1, HeldIsLive
  <1>3. misuse' = misuse
    BY <1>2 DEF CompleteCheck, Checked, Misused
  <1>4. CASE CheckFinished(h) = "false"
    <2>1. UNCHANGED <<req, own>>
      BY <1>4 DEF CompleteCheck
    <2>2. \/ aborted' = TRUE /\ call' = call
          \/ aborted' = aborted /\ call.left # 0 /\ NextRound
      BY <1>4 DEF CompleteCheck
    <2>3. /\ call' \in Call /\ call'.handle = call.handle
          /\ call'.fn = call.fn /\ call'.var = call.var
      BY <1>1, <2>2, NextRoundCall
    <2>4. aborted' \in BOOLEAN
      BY <1>1, <2>2
    <2>5. CallShape'
      BY <1>1, <2>1, <2>3 DEF IndInv, CallShape
    <2> QED BY <1>1, <1>3, <2>1, <2>3, <2>4, <2>5, CallOnlyStep
  <1>5. CASE CheckFinished(h) # "false"
    <2>1. /\ req' = ReqAfterFree(h)
          /\ own' = [own EXCEPT ![v] = Empty]
          /\ call' = NoCall
          /\ UNCHANGED <<misuse, aborted>>
      BY <1>3, <1>5 DEF CompleteCheck
    <2>2. Empty \in Wrapper /\ Empty.handle = 0
      BY DEF Wrapper, Empty, Word
    <2>3. CASE h # 0
      <3>1. LiveHandle(h) /\ req[h].phase # "inflight"
        BY <1>2, <1>5, <2>3, CheckFinishedExact
      <3>2. req' = [req EXCEPT ![h] = Idle]
        BY <2>1, <3>1 DEF ReqAfterFree, Freed
      <3>3. h = own[v].handle
        OBVIOUS
      <3> HIDE DEF h, v
      <3> QED BY <1>1, <2>1, <2>2, <2>3, <3>2, <3>3, GiveBackStep
    <2>4. CASE h = 0
      <3>1. UNCHANGED req
        BY <2>1, <2>4, HeldIsLive DEF ReqAfterFree
      <3>2. own \in [Var -> Wrapper] /\ NoCall \in Call
        BY DEF IndInv, TypeOK, NoCall, Call, Word
      <3>3. own'[v] = Empty /\ \A u \in Var : u # v => own'[u] = own[u]
        BY <1>1, <2>1, <3>2
      <3>4. TypeOK'
        BY <2>1, <2>2, <3>1, <3>2 DEF IndInv, TypeOK
      <3>5. CallShape'
        BY <2>1 DEF CallShape, NoCall
      <3>6. \A u \in Var : own'[u].handle = own[u].handle
                            /\ (own'[u] = own[u] \/ own[u].handle = 0)
        BY <2>2, <2>4, <3>3
      <3>7. HandlesMatch' /\ HandlesDistinct'
        BY <2>1, <2>2, <3>1, <3>3, <3>6
           DEF IndInv, HandlesMatch, HandlesDistinct, Matches, NoCall
      <3>8. UnheldShape'
        BY <1>1, <2>1, <3>1, <3>6, AddrDecode DEF IndInv, UnheldShape, NoCall
      <3> QED BY <2>1, <3>4, <3>5, <3>7, <3>8 DEF IndInv
    <2> QED BY <2>3, <2>4
  <1> QED BY <1>4, <1>5

\* A check of Worker::wait_request preserves the invariant.
LEMMA WaitCheckStep ==
    ASSUME IndInv, WaitCheck
    PROVE  IndInv'
  <1> DEFINE h == own[call.var].handle
  <1>1. call.var \in Var /\ call.handle = 0 /\ call \in Call
        /\ call.fn = "wait" /\ own[call.var].kind = "request"
        /\ aborted \in BOOLEAN
    BY DEF WaitCheck, IndInv, CallShape, TypeOK
  <1>2. h = 0 \/ LiveHandle(h)
    BY <1>1, HeldIsLive
  <1>3. UNCHANGED <<req, own, misuse, aborted>>
    BY <1>2 DEF WaitCheck, Checked, Misused
  <1>4. \/ call' = NoCall
        \/ call.left # 0 /\ NextRound
    BY DEF WaitCheck
  <1>5. CASE call' = NoCall
    <2>1. NoCall \in Call /\ NoCall.handle = 0
      BY DEF NoCall, Call, Word
    <2>2. CallShape'
      BY <1>5 DEF CallShape, NoCall
    <2> QED BY <1>1, <1>3, <1>5, <2>1, <2>2, CallOnlyStep
  <1>6. CASE call.left # 0 /\ NextRound
    <2>1. /\ call' \in Call /\ call'.handle = call.handle
          /\ call'.fn = call.fn /\ call'.var = call.var
      BY <1>1, <1>6, NextRoundCall
    <2>2. CallShape'
      BY <1>1, <1>3, <2>1 DEF IndInv, CallShape
    <2> QED BY <1>1, <1>3, <2>1, <2>2, CallOnlyStep
  <1> QED BY <1>4, <1>5, <1>6

\* The loop of a stream or fetch guard lets go of the request it had taken.
LEMMA DrainEndStep ==
    ASSUME IndInv, call.fn = "drain", NEW r,
           r = Idle \/ r = [req[call.handle] EXCEPT !.escape = "leaked"],
           req' = [req EXCEPT ![call.handle] = r],
           own' = [own EXCEPT ![call.var] = Empty],
           call' = NoCall,
           UNCHANGED <<misuse, aborted>>
    PROVE  IndInv'
  <1> DEFINE v == call.var
             h == call.handle
  <1>1. /\ v \in Var /\ h # 0 /\ own[v].handle = 0
        /\ own[v].kind \in {"stream", "fetch"}
    BY DEF IndInv, CallShape
  <1>2. Matches(own[v], h) /\ \A u \in Var : own[u].handle # h
    BY <1>1 DEF IndInv, HandlesMatch, HandlesDistinct
  <1>3. /\ req \in [Addr -> Request] /\ own \in [Var -> Wrapper]
        /\ h \in Addr /\ req[h] \in Request /\ NoCall \in Call
        /\ Empty \in Wrapper /\ Empty.handle = 0
    BY <1>2 DEF IndInv, TypeOK, Matches, NoCall, Call, Word, Empty, Wrapper
  <1>4. r \in Request
    <2>1. Idle \in Request
      BY DEF Idle, PlainApi, Request
    <2>2. [req[h] EXCEPT !.escape = "leaked"] \in Request
      BY <1>3 DEF Request
    <2> QED BY <2>1, <2>2
  <1>5. /\ r = Idle \/ /\ r.escape = "leaked" /\ r.user /\ r.api # "tag"
                         /\ r.phase # "idle"
    <2>1. req[h].api # "tag" /\ req[h].user /\ req[h].phase # "idle"
      BY <1>1, <1>2, <1>3 DEF Matches, GuardKind, PlainApi, IndInv, UnheldShape, Idle
    <2> QED BY <1>3, <2>1 DEF Request
  <1>6. /\ own'[v] = Empty /\ \A u \in Var : u # v => own'[u] = own[u]
        /\ req'[h] = r /\ \A a \in Addr : a # h => req'[a] = req[a]
    BY <1>1, <1>3
  <1>7. TypeOK'
    BY <1>3, <1>4 DEF IndInv, TypeOK
  <1> HIDE DEF v, h
  <1>8. CallShape'
    BY DEF CallShape, NoCall
  <1>9. HandlesMatch' /\ HandlesDistinct'
    BY <1>1, <1>2, <1>3, <1>6
       DEF IndInv, HandlesMatch, HandlesDistinct, Matches, NoCall
  <1>10. UnheldShape'
    <2>1. \A u \in Var : own'[u].handle = own[u].handle
      BY <1>1, <1>3, <1>6
    <2>2. h = call.handle
      BY DEF h
    <2>3. ASSUME NEW a \in Addr, a # h
          PROVE  req'[a].user /\ req'[a].escape # "leaked" =>
                    \E u \in Var : own'[u].handle = a
      BY <2>1, <2>2, <2>3, <1>6 DEF IndInv, UnheldShape
    <2>4. \A a \in Addr : a # h =>
             /\ req'[a].phase = "idle" => req'[a] = Idle
             /\ ~req'[a].user =>
                   /\ req'[a].phase \in {"idle", "inflight"}
                   /\ req'[a].api \in PlainApi \/ req'[a].escape = "extracted"
             /\ req'[a].escape = "leaked" => req'[a].user /\ req'[a].api # "tag"
      BY <1>6 DEF IndInv, UnheldShape
    <2>5. /\ r.phase = "idle" => r = Idle
          /\ ~r.user => r.phase \in {"idle", "inflight"} /\ r.api \in PlainApi
          /\ r.escape = "leaked" => r.user /\ r.api # "tag"
          /\ r.user => r.escape = "leaked"
      BY <1>5 DEF Idle, PlainApi
    <2> QED BY <1>6, <2>3, <2>4, <2>5 DEF UnheldShape
  <1> QED BY <1>7, <1>8, <1>9, <1>10 DEF IndInv

\* A check of the loop of a stream or fetch guard preserves the invariant.
LEMMA DrainCheckStep ==
    ASSUME IndInv, DrainCheck
    PROVE  IndInv'
  <1>1. call.fn = "drain" /\ LiveHandle(call.handle) /\ call \in Call
        /\ aborted' = aborted /\ aborted \in BOOLEAN /\ call.handle # 0
    BY HeldIsLive DEF DrainCheck, IndInv, CallShape, TypeOK
  <1>2. misuse' = misuse
    BY <1>1 DEF DrainCheck, Checked, Misused
  <1>3. CASE call.left = 0
    BY <1>1, <1>2, <1>3, DrainEndStep DEF DrainCheck
  <1>4. CASE call.left # 0 /\ CheckFinished(call.handle) # "false"
    <2>1. req[call.handle].phase # "inflight"
      BY <1>1, <1>4, CheckFinishedExact
    <2>2. /\ req' = [req EXCEPT ![call.handle] = Idle]
          /\ own' = [own EXCEPT ![call.var] = Empty]
          /\ call' = NoCall
      BY <1>1, <1>4, <2>1 DEF DrainCheck, ReqAfterFree, Freed
    <2> QED BY <1>1, <1>2, <2>2, DrainEndStep
  <1>5. CASE call.left # 0 /\ CheckFinished(call.handle) = "false"
    <2>1. UNCHANGED <<req, own>> /\ NextRound
      BY <1>5 DEF DrainCheck
    <2>2. /\ call' \in Call /\ call'.handle = call.handle
          /\ call'.fn = call.fn /\ call'.var = call.var
      BY <1>1, <1>5, <2>1, NextRoundCall
    <2>3. CallShape'
      BY <1>1, <2>1, <2>2 DEF IndInv, CallShape
    <2> QED BY <1>1, <1>2, <2>1, <2>2, <2>3, CallOnlyStep
  <1> QED BY <1>3, <1>4, <1>5

----------------------------------------------------------------------------
(* The theorems.                                                           *)

\* Every step of the specification preserves the inductive invariant.
THEOREM NextIndInv == IndInv /\ [Next]_vars => IndInv'
  <1> SUFFICES ASSUME IndInv, [Next]_vars PROVE IndInv'
    OBVIOUS
  <1>1. CASE Submit
    <2>1. PICK v \in Var, ret \in Return, w \in Worker :
             \/ \E gw \in Worker, b \in Buf :
                   \/ TagSend(v, ret, w, gw, b)
                   \/ TagRecv(v, ret, w, gw, b)
                   \/ StreamSend(v, ret, w, gw, b)
                   \/ StreamRecv(v, ret, w, gw, b)
                   \/ FetchAmo64(v, ret, w, gw, b)
                   \/ FetchAmo32(v, ret, w, gw, b)
             \/ \E b \in Buf : TagMsgRecv(v, ret, w, b) \/ TagSendSync(v, ret, w, b)
             \/ SubmitPlain(v, ret, w)
      BY <1>1 DEF Submit
    <2>2. ASSUME NEW gw \in Worker, NEW b \in Buf,
                 TagSend(v, ret, w, gw, b) \/ StreamSend(v, ret, w, gw, b)
          PROVE  IndInv'
      BY <2>2, GuardedSendStep DEF TagSend, StreamSend, GuardKind, PlainApi
    <2>3. ASSUME NEW gw \in Worker, NEW b \in Buf,
                 \/ TagRecv(v, ret, w, gw, b)
                 \/ StreamRecv(v, ret, w, gw, b)
                 \/ FetchAmo64(v, ret, w, gw, b)
                 \/ FetchAmo32(v, ret, w, gw, b)
          PROVE  IndInv'
      BY <2>3, GuardedRecvStep DEF TagRecv, StreamRecv, FetchAmo64, FetchAmo32,
                                       GuardKind, PlainApi
    <2>4. ASSUME NEW b \in Buf,
                 TagMsgRecv(v, ret, w, b) \/ TagSendSync(v, ret, w, b)
          PROVE  IndInv'
      BY <2>4, PlainStep DEF TagMsgRecv, PlainApi
    <2>5. ASSUME SubmitPlain(v, ret, w) PROVE IndInv'
      <3>1. PlainSubmit("plain", v, ret, w, Nil, FALSE)
        BY <2>5 DEF SubmitPlain, TagSendPtr, TagRecvPtr, RmaPutGet, StreamNbx,
                    AmoPost64, AmoPost32, AmSend, AmRecvData, WorkerFlush, EpFlush, RmaNbx, AtomicOpNbx,
                    AtomicFaddFswap, AtomicFcswap, AtomicAddSwap, AtomicXor
      <3> QED BY <3>1, PlainStep DEF PlainApi
    <2> QED BY <2>1, <2>2, <2>3, <2>4, <2>5
  <1>2. CASE Use
    <2>1. ASSUME NEW v \in Var, DropRequest(v) PROVE IndInv'
      BY <2>1, DropRequestStep
    <2>2. ASSUME NEW v \in Var, CancelAndFree(v) PROVE IndInv'
      BY <2>2, CancelAndFreeStep
    <2>3. ASSUME NEW v \in Var, CancelRequest(v) PROVE IndInv'
      BY <2>3, CancelRequestStep
    <2>4. ASSUME NEW v \in Var, IntoInner(v) PROVE IndInv'
      BY <2>4, IntoInnerStep
    <2>5. ASSUME NEW v \in Var, BeginDrain(v) PROVE IndInv'
      BY <2>5, BeginDrainStep
    <2>6. ASSUME NEW v \in Var, NEW w \in Worker, BeginWait(v, w)
          PROVE  IndInv'
      BY <2>6, BeginStep
    <2>7. ASSUME NEW v \in Var, BeginComplete(v) PROVE IndInv'
      BY <2>7, BeginStep
    <2>8. ASSUME NEW w \in Worker, Progress(w) PROVE IndInv'
      BY <2>8, ProgressStep
    <2> QED BY <1>2, <2>1, <2>2, <2>3, <2>4, <2>5, <2>6, <2>7, <2>8 DEF Use
  <1>3. CASE LoopStep
    BY <1>3, CompleteCheckStep, DrainCheckStep, WaitCheckStep,
       LoopProgressStep DEF LoopStep
  <1>4. CASE UNCHANGED vars
    BY <1>4, StutterStep
  <1> QED BY <1>1, <1>2, <1>3, <1>4 DEF Next

\* The inductive invariant holds in every state the wrappers can reach.
THEOREM IndInvHolds == Spec => []IndInv
  BY InitIndInv, NextIndInv, PTL DEF Spec

\* Type correctness of the state of the wrappers and of UCX.
THEOREM TypeCorrect == Spec => []TypeOK
  <1>1. IndInv => TypeOK
    BY DEF IndInv
  <1> QED BY <1>1, IndInvHolds, PTL

\* No wrapper ever passes UCX a handle the program does not own: no double
\* free, no use after free, no error code taken for an address.
THEOREM NeverMisused == Spec => []NoMisuse
  <1>1. IndInv => NoMisuse
    BY DEF IndInv, NoMisuse
  <1> QED BY <1>1, IndInvHolds, PTL

\* The buffer of an operation in flight stays borrowed by its guard unless the
\* program extracted the request or a stream or fetch guard leaked it.
THEOREM BuffersPinned == Spec => []InFlightBufferPinned
  <1>1. ASSUME IndInv PROVE InFlightBufferPinned
    <2> SUFFICES ASSUME NEW a \in Addr, req[a].phase = "inflight",
                        req[a].api \in GuardKind, req[a].escape # "extracted",
                        ~(req[a].escape = "leaked" /\ req[a].api # "tag")
                 PROVE  \E v \in Var : Pins(v, a)
      BY DEF InFlightBufferPinned
    <2>1. req[a].user /\ req[a].escape # "leaked" /\ req[a].api \notin PlainApi
      BY <1>1 DEF IndInv, UnheldShape, GuardKind, PlainApi
    <2>2. CASE \E v \in Var : own[v].handle = a
      <3>1. PICK v \in Var : own[v].handle = a
        BY <2>2
      <3>2. Matches(own[v], a) /\ own[v].kind # "empty" /\ own[v] \in Wrapper
        BY <1>1, <3>1, AddrDecode DEF IndInv, HandlesMatch, TypeOK
      <3>3. own[v].kind \in GuardKind
        BY <2>1, <3>2 DEF Matches, Wrapper
      <3> QED BY <3>1, <3>2, <3>3 DEF Pins, Matches
    <2>3. CASE call.handle = a
      <3>1. /\ call.var \in Var /\ Matches(own[call.var], a)
            /\ own[call.var].kind \in GuardKind
        BY <1>1, <2>3, AddrDecode
           DEF IndInv, HandlesMatch, CallShape, GuardKind, PlainApi
      <3> QED BY <2>3, <3>1 DEF Pins, Matches
    <2> QED BY <1>1, <2>1, <2>2, <2>3 DEF IndInv, UnheldShape
  <1> QED BY <1>1, IndInvHolds, PTL

\* The invariant leaves every request that the program has not freed and has
\* not leaked one holder, and no holder to the others.
LEMMA IndInvOneHolder == ASSUME IndInv PROVE OneHolder
  <1> SUFFICES ASSUME NEW a \in Addr
               PROVE  req[a].user /\ req[a].escape # "leaked" <=>
                         \E x \in Var \cup {Nil} : Holders(a) = {x}
    BY DEF OneHolder
  <1>0. a # 0
    BY AddrDecode
  <1>1. ASSUME req[a].user, req[a].escape # "leaked"
        PROVE  \E x \in Var \cup {Nil} : Holders(a) = {x}
    <2>1. CASE call.handle = a
      <3>1. \A v \in Var : own[v].handle # a
        BY <1>0, <2>1 DEF IndInv, HandlesDistinct
      <3>2. Holders(a) = {Nil}
        BY <2>1, <3>1 DEF Holders
      <3> QED BY <3>2
    <2>2. CASE call.handle # a
      <3>1. PICK v \in Var : own[v].handle = a
        BY <1>1, <2>2 DEF IndInv, UnheldShape
      <3>2. \A u \in Var : own[u].handle = a => u = v
        BY <1>0, <3>1 DEF IndInv, HandlesDistinct
      <3>3. Holders(a) = {v}
        BY <2>2, <3>1, <3>2 DEF Holders
      <3> QED BY <3>3
    <2> QED BY <2>1, <2>2
  <1>2. ASSUME NEW x \in Var \cup {Nil}, Holders(a) = {x}
        PROVE  req[a].user /\ req[a].escape # "leaked"
    <2>1. (\E v \in Var : own[v].handle = a) \/ call.handle = a
      BY <1>2 DEF Holders
    <2>2. PICK y \in Wrapper : Matches(y, a) /\ y.kind # "empty"
      <3>1. CASE \E v \in Var : own[v].handle = a
        BY <1>0, <3>1 DEF IndInv, HandlesMatch, TypeOK
      <3>2. CASE call.handle = a
        <4>1. call.var \in Var /\ own[call.var].kind # "empty"
          BY <1>0, <3>2 DEF IndInv, CallShape
        <4> QED BY <1>0, <3>2, <4>1 DEF IndInv, HandlesMatch, TypeOK
      <3> QED BY <2>1, <3>1, <3>2
    <2> QED BY <2>2 DEF Matches, Wrapper
  <1> QED BY <1>1, <1>2

\* Every request the program has not freed and has not leaked has exactly one
\* holder, and nothing else is held.
THEOREM SingleHolder == Spec => []OneHolder
  <1>1. IndInv => OneHolder
    BY IndInvOneHolder
  <1> QED BY <1>1, IndInvHolds, PTL

----------------------------------------------------------------------------
(* Buffers.                                                                *)

\* A variable loses its guard, keeps its borrow, or gets a guard on a buffer
\* that can be borrowed so.
LEMMA BorrowStep ==
    ASSUME IndInv, BorrowsExclusive, NEW v \in Var, NEW x,
           own' = [own EXCEPT ![v] = x],
           \/ x.kind \notin GuardKind
           \/ x.kind = own[v].kind /\ x.buf = own[v].buf /\ x.writes = own[v].writes
           \/ Borrowable(x.buf, x.writes)
    PROVE  BorrowsExclusive'
  <1>1. own \in [Var -> Wrapper]
    BY DEF IndInv, TypeOK
  <1>2. own'[v] = x /\ \A u \in Var : u # v => own'[u] = own[u]
    BY <1>1
  <1> QED BY <1>2 DEF BorrowsExclusive, Borrowable

\* What a step may do to the variables of the program.
OwnMove ==
    \/ UNCHANGED own
    \/ \E v \in Var : \E x \in Wrapper :
          /\ own' = [own EXCEPT ![v] = x]
          /\ \/ x.kind \notin GuardKind
             \/ x.kind = own[v].kind /\ x.buf = own[v].buf
                /\ x.writes = own[v].writes
             \/ Borrowable(x.buf, x.writes)

\* The submitting calls change one variable so.
LEMMA SubmitOwn == ASSUME IndInv, Submit PROVE OwnMove
  <1>0. /\ 0 \in Word /\ \A a \in Addr : a \in Word
        /\ \A ret \in Return : StatusPtrToResult(ret).handle \in Word
    <2>1. 0 \in Word
      BY DEF Word
    <2> QED BY <2>1, AddrDecode, ImmediateDecode DEF Return
  <1>1. PICK v \in Var, ret \in Return, w \in Worker :
           \/ \E gw \in Worker, b \in Buf :
                 \/ TagSend(v, ret, w, gw, b)
                 \/ TagRecv(v, ret, w, gw, b)
                 \/ StreamSend(v, ret, w, gw, b)
                 \/ StreamRecv(v, ret, w, gw, b)
                 \/ FetchAmo64(v, ret, w, gw, b)
                 \/ FetchAmo32(v, ret, w, gw, b)
           \/ \E b \in Buf : TagMsgRecv(v, ret, w, b) \/ TagSendSync(v, ret, w, b)
           \/ SubmitPlain(v, ret, w)
    BY DEF Submit
  <1> DEFINE h == StatusPtrToResult(ret).handle
  <1>2. h \in Word
    BY <1>0
  <1>3. ASSUME NEW kind \in GuardKind, NEW gw \in Worker, NEW b \in Buf,
               NEW wr \in BOOLEAN, Borrowable(b, wr),
               own' = own \/ own' = [own EXCEPT ![v] = Guard(kind, h, b, wr, gw)]
        PROVE  OwnMove
    <2>1. Guard(kind, h, b, wr, gw) \in Wrapper
      BY <1>2 DEF Guard, Wrapper
    <2>2. Guard(kind, h, b, wr, gw).buf = b /\ Guard(kind, h, b, wr, gw).writes = wr
      BY DEF Guard
    <2> HIDE DEF h
    <2> QED BY <1>3, <2>1, <2>2 DEF OwnMove
  <1>4. ASSUME own' = own \/ own' = [own EXCEPT ![v] = PlainRequest(h)]
        PROVE  OwnMove
    <2>1. PlainRequest(h) \in Wrapper /\ PlainRequest(h).kind \notin GuardKind
      BY <1>2 DEF PlainRequest, Wrapper, GuardKind
    <2> HIDE DEF h
    <2> QED BY <1>4, <2>1 DEF OwnMove
  <1>5. ASSUME NEW gw \in Worker, NEW b \in Buf,
               TagSend(v, ret, w, gw, b) \/ StreamSend(v, ret, w, gw, b)
        PROVE  OwnMove
    BY <1>3, <1>5 DEF TagSend, StreamSend, GuardedSend, GuardKind
  <1>6. ASSUME NEW gw \in Worker, NEW b \in Buf,
               \/ TagRecv(v, ret, w, gw, b) \/ StreamRecv(v, ret, w, gw, b)
               \/ FetchAmo64(v, ret, w, gw, b) \/ FetchAmo32(v, ret, w, gw, b)
        PROVE  OwnMove
    BY <1>3, <1>6 DEF TagRecv, StreamRecv, FetchAmo64, FetchAmo32, GuardedRecv,
                      GuardKind
  <1>7. ASSUME NEW b \in Buf, TagMsgRecv(v, ret, w, b) \/ TagSendSync(v, ret, w, b)
        PROVE  OwnMove
    BY <1>4, <1>7 DEF TagMsgRecv, TagSendSync, PlainSubmit
  <1>8. ASSUME SubmitPlain(v, ret, w) PROVE OwnMove
    <2>1. PlainSubmit("plain", v, ret, w, Nil, FALSE)
      BY <1>8 DEF SubmitPlain, TagSendPtr, TagRecvPtr, RmaPutGet, StreamNbx,
           AmoPost64, AmoPost32, AmSend, AmRecvData, WorkerFlush, EpFlush,
           RmaNbx, AtomicOpNbx, AtomicFaddFswap, AtomicFcswap, AtomicAddSwap,
           AtomicXor
    <2> QED BY <1>4, <2>1 DEF PlainSubmit
  <1> QED BY <1>1, <1>5, <1>6, <1>7, <1>8

\* Every step changes at most one variable, and so.
LEMMA NextOwn == ASSUME IndInv, [Next]_vars PROVE OwnMove
  <1>0. /\ own \in [Var -> Wrapper] /\ Empty \in Wrapper
        /\ Empty.kind \notin GuardKind
    BY DEF IndInv, TypeOK, Empty, Wrapper, Word, GuardKind
  <1>1. ASSUME NEW v \in Var, own' = [own EXCEPT ![v] = Empty] PROVE OwnMove
    BY <1>0, <1>1 DEF OwnMove
  <1>2. ASSUME NEW v \in Var, own' = [own EXCEPT ![v].handle = 0] PROVE OwnMove
    <2> DEFINE x == [own[v] EXCEPT !.handle = 0]
    <2>1. /\ x \in Wrapper /\ x.kind = own[v].kind /\ x.buf = own[v].buf
          /\ x.writes = own[v].writes
      BY <1>0 DEF Wrapper, Word
    <2>2. own' = [own EXCEPT ![v] = x]
      BY <1>0, <1>2
    <2> HIDE DEF x
    <2> QED BY <2>1, <2>2 DEF OwnMove
  <1>3. CASE Submit
    BY <1>3, SubmitOwn
  <1>4. CASE Use
    <2>1. ASSUME NEW v \in Var, DropRequest(v) PROVE OwnMove
      BY <1>1, <2>1 DEF DropRequest
    <2>2. ASSUME NEW v \in Var, CancelAndFree(v) PROVE OwnMove
      BY <1>2, <2>2 DEF CancelAndFree
    <2>3. ASSUME NEW v \in Var, IntoInner(v) PROVE OwnMove
      <3>1. PlainRequest(own[v].handle) \in Wrapper
            /\ PlainRequest(own[v].handle).kind \notin GuardKind
        BY <1>0 DEF PlainRequest, Wrapper, GuardKind
      <3>2. \/ own' = [own EXCEPT ![v] = Empty]
            \/ own' = [own EXCEPT ![v] = PlainRequest(own[v].handle)]
        BY <2>3 DEF IntoInner
      <3> QED BY <1>1, <3>1, <3>2 DEF OwnMove
    <2>4. ASSUME NEW v \in Var, BeginDrain(v) PROVE OwnMove
      BY <1>1, <1>2, <2>4 DEF BeginDrain
    <2>5. ASSUME UNCHANGED own PROVE OwnMove
      BY <2>5 DEF OwnMove
    <2> QED BY <1>4, <2>1, <2>2, <2>3, <2>4, <2>5
            DEF Use, CancelRequest, BeginComplete, BeginWait, Progress
  <1>5. CASE LoopStep
    <2>1. ASSUME UNCHANGED own PROVE OwnMove
      BY <2>1 DEF OwnMove
    <2>2. CASE CompleteCheck
      BY <1>1, <2>1, <2>2 DEF CompleteCheck, IndInv, CallShape
    <2>3. CASE DrainCheck
      BY <1>1, <2>1, <2>3 DEF DrainCheck, IndInv, CallShape
    <2> QED BY <1>5, <2>1, <2>2, <2>3 DEF LoopStep, WaitCheck, LoopProgress
  <1>6. CASE UNCHANGED vars
    BY <1>6 DEF vars, OwnMove
  <1> QED BY <1>3, <1>4, <1>5, <1>6 DEF Next

\* Guards share a buffer only to read it, in every state the program reaches.
THEOREM BorrowsHold == Spec => []BorrowsExclusive
  <1>1. Init => BorrowsExclusive
    BY DEF Init, BorrowsExclusive, Empty, GuardKind
  <1>2. IndInv /\ BorrowsExclusive /\ [Next]_vars => BorrowsExclusive'
    <2> SUFFICES ASSUME IndInv, BorrowsExclusive, [Next]_vars
                 PROVE  BorrowsExclusive'
      OBVIOUS
    <2>1. CASE UNCHANGED own
      BY <2>1 DEF BorrowsExclusive
    <2>2. OwnMove
      BY NextOwn
    <2> QED BY <2>1, <2>2, BorrowStep DEF OwnMove
  <1> QED BY <1>1, <1>2, IndInvHolds, PTL DEF Spec

\* Two operations in flight under guards never race on a buffer.
THEOREM BuffersDoNotRace == Spec => []NoBufferRace
  <1>1. ASSUME IndInv, BorrowsExclusive, InFlightBufferPinned PROVE NoBufferRace
    <2> SUFFICES ASSUME NEW a \in Addr, NEW b \in Addr, a # b,
                        req[a].phase = "inflight", req[b].phase = "inflight",
                        req[a].escape = "no", req[b].escape = "no",
                        req[a].api \in GuardKind, req[b].api \in GuardKind,
                        req[a].buf = req[b].buf
                 PROVE  ~req[a].writes /\ ~req[b].writes
      BY DEF NoBufferRace
    <2>1. PICK u \in Var : Pins(u, a)
      BY <1>1 DEF InFlightBufferPinned
    <2>2. PICK v \in Var : Pins(v, b)
      BY <1>1 DEF InFlightBufferPinned
    <2>3. u # v
      BY <1>1, <2>1, <2>2, AddrDecode DEF Pins, IndInv, CallShape
    <2> QED BY <1>1, <2>1, <2>2, <2>3 DEF Pins, BorrowsExclusive
  <1> QED BY <1>1, IndInvHolds, BorrowsHold, BuffersPinned, PTL

\* The queries agree about every request that is held.
THEOREM QueriesTellOneStory == Spec => []QueriesAgree
  <1>1. ASSUME IndInv PROVE QueriesAgree
    <2> SUFFICES ASSUME NEW v \in Var, NEW h, h = own[v].handle
                 PROVE  /\ IsCompleted(h) <=> CheckFinished(h) # "false"
                        /\ Test(h) = "err" <=> CheckFinished(h) = "err"
                        /\ h # 0 => (StreamRecvTest(h) = "err"
                                        <=> CheckFinished(h) = "err")
                        /\ TagRecvTest(h) = "info" =>
                              LiveHandle(h) /\ req[h].phase = "done"
      BY DEF QueriesAgree
    <2>1. h = 0 \/ LiveHandle(h)
      BY <1>1, HeldIsLive
    <2>2. CheckFinished(h) = "false" <=> h # 0 /\ req[h].phase = "inflight"
      BY <1>1, <2>1, CheckFinishedExact
    <2>3. CASE h = 0
      BY <2>2, <2>3 DEF IsCompleted, TagRecvTest, Test, CheckFinished
    <2>4. CASE h # 0
      <3>1. LiveHandle(h) /\ req[h] \in Request /\ req[h].phase # "idle"
        BY <1>1, <2>1, <2>4 DEF LiveHandle, IndInv, TypeOK, UnheldShape, Idle
      <3>2. req[h].phase \in {"inflight", "done", "failed"}
        BY <3>1 DEF Request
      <3>3. /\ IsCompleted(h) <=> CheckFinished(h) # "false"
            /\ TagRecvTest(h) = "info" => LiveHandle(h) /\ req[h].phase = "done"
        BY <2>2, <2>4, <3>1, <3>2
        DEF IsCompleted, TagRecvTest, StatusOf, UCS_OK, UCS_INPROGRESS,
            UCS_ERR_IO_ERROR
      <3>4. CheckFinished(h) = "err" <=> req[h].phase = "failed"
        BY <2>4, <3>1, <3>2, PtrModAssumption
        DEF CheckFinished, CheckStatus, StatusOf, StatusPtrIsErr, AsWord,
            UCS_OK, UCS_INPROGRESS, UCS_ERR_IO_ERROR, UCS_ERR_LAST
      <3>5. StatusToResult(StatusOf(h)) = "err" <=> req[h].phase = "failed"
        BY <3>1, <3>2
        DEF StatusToResult, StatusOf, UCS_OK, UCS_INPROGRESS, UCS_ERR_IO_ERROR
      <3> QED BY <2>4, <3>3, <3>4, <3>5 DEF Test, StreamRecvTest
    <2> QED BY <2>3, <2>4
  <1> QED BY <1>1, IndInvHolds, PTL
=============================================================================
