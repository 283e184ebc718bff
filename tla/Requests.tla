------------------------------ MODULE Requests ------------------------------
(***************************************************************************)
(* Ownership of UCX requests and of the buffers they use: the plain        *)
(* Request (request.rs) and the guards TagRequest (tag.rs), StreamRequest  *)
(* (stream.rs) and FetchAmoRequest (rma/remote_key.rs).                    *)
(*                                                                         *)
(* UCX (external) hands out request addresses, completes operations while  *)
(* a worker progresses, and recycles an address once the operation is over *)
(* and the program has freed it.  The Rust side wraps an address in a      *)
(* program variable; guards keep their buffer borrowed and, when dropped,  *)
(* progress their worker for a bounded number of rounds.  Workers, and     *)
(* hence all their requests, stay on one thread, so at most one blocking   *)
(* call is running.                                                        *)
(***************************************************************************)
EXTENDS UcxStatus

CONSTANTS
    Addr,         \* addresses UCX may use for requests
    Var,          \* program variables that can hold a Request or a guard
    Buf,          \* buffers of the program
    Worker,       \* workers of the program
    ErrStatus,    \* errors a submitting call may return at once
    MaxProgress,  \* rounds of the bounded progress loops (1_000_000)
    Nil           \* no buffer, no worker, no variable

ASSUME AddrAssumption ==
    Addr \subseteq {p \in Word : p > UCS_INPROGRESS /\ p < AsWord(UCS_ERR_LAST)}
ASSUME ErrStatusAssumption == ErrStatus \subseteq DecodeTable
ASSUME MaxProgressAssumption == MaxProgress \in Nat
ASSUME NilAssumption == Nil \notin Buf \cup Worker \cup Var

VARIABLES
    req,      \* what UCX keeps at each request address
    own,      \* what each program variable holds
    call,     \* the blocking call in progress, if any
    misuse,   \* UCX calls made with something that is not a live request
    aborted   \* the process has aborted

vars == <<req, own, call, misuse, aborted>>

GuardKind == {"tag", "stream", "fetch"}

\* What returns a plain Request: the tag functions among it, and the rest.
PlainApi == {"tagplain", "plain"}

\* user: the program has not freed the request.  api, buf, writes, worker:
\* the operation it belongs to.  escape: how its buffer lost its guard.
Request == [phase  : {"idle", "inflight", "done", "failed"},
            user   : BOOLEAN,
            api    : GuardKind \cup PlainApi,
            buf    : Buf \cup {Nil},
            writes : BOOLEAN,
            worker : Worker \cup {Nil},
            escape : {"no", "extracted", "leaked"}]

Idle == [phase |-> "idle", user |-> FALSE, api |-> "plain", buf |-> Nil,
         writes |-> FALSE, worker |-> Nil, escape |-> "no"]

\* handle is Option<NonNull<c_void>>: 0 is None.  buf, writes: the borrow a
\* guard's lifetime parameter keeps alive.
Wrapper == [kind   : GuardKind \cup {"empty", "request"},
            handle : Word,
            buf    : Buf \cup {Nil},
            writes : BOOLEAN,
            worker : Worker \cup {Nil}]

Empty == [kind |-> "empty", handle |-> 0, buf |-> Nil, writes |-> FALSE,
          worker |-> Nil]

PlainRequest(h) == [kind |-> "request", handle |-> h, buf |-> Nil,
                    writes |-> FALSE, worker |-> Nil]

\* fn: TagRequest::complete, the loop of StreamRequest and FetchAmoRequest
\* (free and Drop), or Worker::wait_request.  handle: the request the loop of
\* a stream or fetch guard has taken out of the guard.
Call == [fn     : {"none", "complete", "drain", "wait"},
         var    : Var \cup {Nil},
         handle : Word,
         worker : Worker \cup {Nil},
         left   : 0 .. MaxProgress,
         at     : {"check", "progress"}]

NoCall == [fn |-> "none", var |-> Nil, handle |-> 0, worker |-> Nil,
           left |-> 0, at |-> "check"]

\* The one type invariant of the module.
TypeOK ==
    /\ req \in [Addr -> Request]
    /\ own \in [Var -> Wrapper]
    /\ call \in Call
    /\ misuse \subseteq {"free", "check", "cancel"}
    /\ aborted \in BOOLEAN

Init ==
    /\ req = [a \in Addr |-> Idle]
    /\ own = [v \in Var |-> Empty]
    /\ call = NoCall
    /\ misuse = {}
    /\ aborted = FALSE

----------------------------------------------------------------------------
(* UCX, as the wrappers use it.                                            *)

LiveHandle(h) == h \in Addr /\ req[h].user

\* Calling UCX with a handle the program does not own.
Misused(h, what) == IF LiveHandle(h) THEN misuse ELSE misuse \cup {what}

\* What a submitting call may return, and the request it allocates.
Immediate == {UCS_OK} \cup {AsWord(s) : s \in ErrStatus}
Return == Addr \cup Immediate

UcxSubmit(ret, api, w, b, wr) ==
    \/ /\ ret \in Addr
       /\ req[ret] = Idle
       /\ req' = [req EXCEPT ![ret] =
                    [phase |-> "inflight", user |-> TRUE, api |-> api,
                     buf |-> b, writes |-> wr, worker |-> w,
                     escape |-> "no"]]
    \/ /\ ret \in Immediate
       /\ UNCHANGED req

InFlight(w) == {a \in Addr : req[a].phase = "inflight" /\ req[a].worker = w}

\* An operation that ends after its request was freed recycles the address.
Settle(r, phase) ==
    IF phase = "inflight" \/ r.user THEN [r EXCEPT !.phase = phase] ELSE Idle

\* ucp_worker_progress: any operations of w end, well or badly.
UcxProgress(w) ==
    \E out \in [InFlight(w) -> {"inflight", "done", "failed"}] :
        req' = [a \in Addr |-> IF a \in InFlight(w)
                               THEN Settle(req[a], out[a]) ELSE req[a]]

\* ucp_request_free and ucp_request_release: the address is recycled now, or
\* when the operation ends.
Freed(r) == IF r.phase = "inflight" THEN [r EXCEPT !.user = FALSE] ELSE Idle

ReqAfterFree(h) ==
    IF LiveHandle(h) THEN [req EXCEPT ![h] = Freed(@)] ELSE req

\* ucp_request_check_status
StatusOf(h) ==
    IF ~LiveHandle(h) THEN UCS_OK
    ELSE IF req[h].phase = "inflight" THEN UCS_INPROGRESS
    ELSE IF req[h].phase = "failed" THEN UCS_ERR_IO_ERROR ELSE UCS_OK

----------------------------------------------------------------------------
(* Queries.                                                                *)

\* Request::check_finished: an inert request is complete.
CheckFinished(h) == IF h = 0 THEN "true" ELSE CheckStatus(StatusOf(h)).tag

\* Request::test
Test(h) == IF h = 0 THEN "ok" ELSE StatusToResult(StatusOf(h))

\* Request::is_completed (ucp_request_is_completed)
IsCompleted(h) == h = 0 \/ StatusOf(h) # UCS_INPROGRESS

\* Mutant of TagRecvTest: the status is read by status_to_result, as test does.
TagRecvTestLax(h) ==
    IF h = 0 THEN "none"
    ELSE IF StatusToResult(StatusOf(h)) = "ok" THEN "info" ELSE "err"

\* Request::tag_recv_test and map_tag_recv_test_status: UCX fills in the info
\* only when the receive is over.
TagRecvTest(h) ==
    IF h = 0 \/ StatusOf(h) = UCS_INPROGRESS THEN "none"
    ELSE IF StatusOf(h) = UCS_OK THEN "info" ELSE "err"

\* Request::stream_recv_test
StreamRecvTest(h) == IF h = 0 THEN "err" ELSE StatusToResult(StatusOf(h))

----------------------------------------------------------------------------
(* Submitting operations.                                                  *)

Running == call.fn = "none" /\ ~aborted

\* The borrow checker: a mutable borrow excludes every other borrow.
Borrowable(b, wr) ==
    \A v \in Var : own[v].buf = b => ~own[v].writes /\ ~wr

Guard(kind, h, b, wr, w) ==
    [kind |-> kind, handle |-> h, buf |-> b, writes |-> wr, worker |-> w]

\* Ep::tag_send and Ep::stream_send: no guard when the send is over at once.
\* The worker gw the guard progresses is an argument; nothing in a release
\* build relates it to the worker w of the endpoint.
GuardedSend(kind, v, ret, w, gw, b) ==
    /\ Running
    /\ own[v] = Empty
    /\ Borrowable(b, FALSE)
    /\ UcxSubmit(ret, kind, w, b, FALSE)
    /\ LET res == StatusPtrToResult(ret)
       IN  own' = IF res.tag = "request"
                  THEN [own EXCEPT ![v] = Guard(kind, res.handle, b, FALSE, gw)]
                  ELSE own
    /\ UNCHANGED <<call, misuse, aborted>>

TagSend(v, ret, w, gw, b) == GuardedSend("tag", v, ret, w, gw, b)
StreamSend(v, ret, w, gw, b) == GuardedSend("stream", v, ret, w, gw, b)

\* Mutant of GuardedRecv: a guard without the PhantomData borrow.
GuardedRecvUnborrowed(kind, v, ret, w, gw, b) ==
    /\ Running
    /\ own[v] = Empty
    /\ Borrowable(b, TRUE)
    /\ UcxSubmit(ret, kind, w, b, TRUE)
    /\ LET res == StatusPtrToResult(ret)
       IN  own' = IF res.tag = "err" THEN own
                  ELSE [own EXCEPT ![v] = Guard(kind, res.handle, Nil, FALSE, gw)]
    /\ UNCHANGED <<call, misuse, aborted>>

\* Worker::tag_recv, Ep::stream_recv and the fetching atomics: a guard also
\* when the operation is over at once.
GuardedRecv(kind, v, ret, w, gw, b) ==
    /\ Running
    /\ own[v] = Empty
    /\ Borrowable(b, TRUE)
    /\ UcxSubmit(ret, kind, w, b, TRUE)
    /\ LET res == StatusPtrToResult(ret)
       IN  own' = IF res.tag = "err" THEN own
                  ELSE [own EXCEPT ![v] = Guard(kind, res.handle, b, TRUE, gw)]
    /\ UNCHANGED <<call, misuse, aborted>>

TagRecv(v, ret, w, gw, b) == GuardedRecv("tag", v, ret, w, gw, b)
StreamRecv(v, ret, w, gw, b) == GuardedRecv("stream", v, ret, w, gw, b)
FetchAmo64(v, ret, w, gw, b) == GuardedRecv("fetch", v, ret, w, gw, b)
FetchAmo32(v, ret, w, gw, b) == GuardedRecv("fetch", v, ret, w, gw, b)

\* The calls that return Option<Request>.  The request borrows nothing, not
\* even the slice of the safe functions, whose borrow ends with the call.
PlainSubmit(api, v, ret, w, b, wr) ==
    /\ Running
    /\ own[v] = Empty
    /\ UcxSubmit(ret, api, w, b, wr)
    /\ LET res == StatusPtrToResult(ret)
       IN  own' = IF res.tag = "request"
                  THEN [own EXCEPT ![v] = PlainRequest(res.handle)] ELSE own
    /\ UNCHANGED <<call, misuse, aborted>>

\* The tag and stream calls on raw pointers, put and get, the posted atomics,
\* active messages, and the flushes.  Their buffers, which nothing keeps borrowed
\* either, are left out.
TagSendPtr(v, ret, w) == PlainSubmit("plain", v, ret, w, Nil, FALSE)
TagRecvPtr(v, ret, w) == PlainSubmit("plain", v, ret, w, Nil, FALSE)
RmaPutGet(v, ret, w) == PlainSubmit("plain", v, ret, w, Nil, FALSE)
StreamNbx(v, ret, w) == PlainSubmit("plain", v, ret, w, Nil, FALSE)
AmoPost64(v, ret, w) == PlainSubmit("plain", v, ret, w, Nil, FALSE)
AmoPost32(v, ret, w) == PlainSubmit("plain", v, ret, w, Nil, FALSE)
AmSend(v, ret, w) == PlainSubmit("plain", v, ret, w, Nil, FALSE)
AmRecvData(v, ret, w) == PlainSubmit("plain", v, ret, w, Nil, FALSE)
WorkerFlush(v, ret, w) == PlainSubmit("plain", v, ret, w, Nil, FALSE)
EpFlush(v, ret, w) == PlainSubmit("plain", v, ret, w, Nil, FALSE)

\* The deprecated functions of rma/atomic.rs.  The typed ones write the
\* datatype into a copy of the parameters and call atomic_op_nbx.
RmaNbx(v, ret, w) == PlainSubmit("plain", v, ret, w, Nil, FALSE)
AtomicOpNbx(v, ret, w) == PlainSubmit("plain", v, ret, w, Nil, FALSE)
AtomicFaddFswap(v, ret, w) == AtomicOpNbx(v, ret, w)
AtomicFcswap(v, ret, w) == AtomicOpNbx(v, ret, w)
AtomicAddSwap(v, ret, w) == AtomicOpNbx(v, ret, w)
AtomicXor(v, ret, w) == AtomicOpNbx(v, ret, w)

SubmitPlain(v, ret, w) ==
    \/ TagSendPtr(v, ret, w) \/ TagRecvPtr(v, ret, w) \/ RmaPutGet(v, ret, w)
    \/ StreamNbx(v, ret, w) \/ AmoPost64(v, ret, w) \/ AmoPost32(v, ret, w)
    \/ AmSend(v, ret, w) \/ AmRecvData(v, ret, w)
    \/ WorkerFlush(v, ret, w) \/ EpFlush(v, ret, w)
    \/ RmaNbx(v, ret, w) \/ AtomicOpNbx(v, ret, w)
    \/ AtomicFaddFswap(v, ret, w) \/ AtomicFcswap(v, ret, w)
    \/ AtomicAddSwap(v, ret, w) \/ AtomicXor(v, ret, w)

\* Worker::tag_msg_recv, into a mutable slice.
TagMsgRecv(v, ret, w, b) ==
    Borrowable(b, TRUE) /\ PlainSubmit("tagplain", v, ret, w, b, TRUE)

\* Ep::tag_send_sync: an inert Request when the send is over at once.
TagSendSync(v, ret, w, b) ==
    /\ Running
    /\ own[v] = Empty
    /\ Borrowable(b, FALSE)
    /\ UcxSubmit(ret, "tagplain", w, b, FALSE)
    /\ LET res == StatusPtrToResult(ret)
       IN  own' = IF res.tag = "err" THEN own
                  ELSE [own EXCEPT ![v] = PlainRequest(res.handle)]
    /\ UNCHANGED <<call, misuse, aborted>>

\* The functions that wrap the returned word unread: tag_send_sync_nbx,
\* tag_msg_recv_nb, am_recv_data_nbx.
SubmitUnclassified(v, ret, w) ==
    /\ Running
    /\ own[v] = Empty
    /\ UcxSubmit(ret, "plain", w, Nil, FALSE)
    /\ own' = [own EXCEPT ![v] = PlainRequest(ret)]
    /\ UNCHANGED <<call, misuse, aborted>>

----------------------------------------------------------------------------
(* Plain requests.                                                         *)

\* Request::drop and Request::free (ucp_request_free), Request::release
\* (ucp_request_release): take the handle, give it back.
DropRequest(v) ==
    /\ Running
    /\ own[v].kind = "request"
    /\ LET h == own[v].handle
       IN  IF h = 0 THEN UNCHANGED <<req, misuse>>
           ELSE /\ req' = ReqAfterFree(h)
                /\ misuse' = Misused(h, "free")
    /\ own' = [own EXCEPT ![v] = Empty]
    /\ UNCHANGED <<call, aborted>>

\* ucp_request_cancel may end the operation at once or leave it running.
Cancelled(r, now) ==
    IF r.phase = "inflight" /\ now THEN [r EXCEPT !.phase = "failed"] ELSE r

\* Mutant of CancelAndFree: the handle is taken and cancelled, never freed.
CancelNoFree(v) ==
    /\ Running
    /\ own[v].kind = "request"
    /\ LET h == own[v].handle
       IN  req' = IF LiveHandle(h)
                  THEN [req EXCEPT ![h] = Cancelled(@, TRUE)] ELSE req
    /\ own' = [own EXCEPT ![v].handle = 0]
    /\ UNCHANGED <<call, misuse, aborted>>

\* Mutant of CancelAndFree: cancel and free, but the wrapper keeps its handle.
CancelKeepsHandle(v) ==
    /\ Running
    /\ own[v].kind = "request"
    /\ own[v].handle # 0
    /\ req' = ReqAfterFree(own[v].handle)
    /\ misuse' = Misused(own[v].handle, "cancel")
    /\ UNCHANGED <<own, call, aborted>>

\* Request::cancel: take, cancel, free; the wrapper stays, inert.
CancelAndFree(v) ==
    /\ Running
    /\ own[v].kind = "request"
    /\ LET h == own[v].handle
       IN  IF h = 0 THEN UNCHANGED <<req, misuse>>
           ELSE /\ \E now \in BOOLEAN :
                      req' = IF LiveHandle(h)
                             THEN [req EXCEPT ![h] = Freed(Cancelled(@, now))]
                             ELSE req
                /\ misuse' = Misused(h, "cancel")
    /\ own' = [own EXCEPT ![v].handle = 0]
    /\ UNCHANGED <<call, aborted>>

\* Worker::cancel_request: cancel only; the program still owns the request.
CancelRequest(v) ==
    /\ Running
    /\ own[v].kind = "request"
    /\ own[v].handle # 0
    /\ LET h == own[v].handle
       IN  /\ \E now \in BOOLEAN :
                 req' = IF LiveHandle(h)
                        THEN [req EXCEPT ![h] = Cancelled(@, now)] ELSE req
           /\ misuse' = Misused(h, "cancel")
    /\ UNCHANGED <<own, call, aborted>>

\* TagRequest::into_inner, StreamRequest::into_inner and
\* FetchAmoRequest::into_inner: the request without its borrow.
IntoInner(v) ==
    /\ Running
    /\ own[v].kind \in GuardKind
    /\ LET h == own[v].handle
       IN  /\ own' = [own EXCEPT ![v] = IF h = 0 /\ own[v].kind # "tag"
                                        THEN Empty ELSE PlainRequest(h)]
           /\ req' = IF LiveHandle(h)
                     THEN [req EXCEPT ![h].escape = "extracted"] ELSE req
    /\ UNCHANGED <<call, misuse, aborted>>

----------------------------------------------------------------------------
(* The bounded progress loops.                                             *)

\* Worker::progress, called by the program.
Progress(w) ==
    /\ Running
    /\ UcxProgress(w)
    /\ UNCHANGED <<own, call, misuse, aborted>>

\* TagRequest::free and TagRequest::drop both run complete().
BeginComplete(v) ==
    /\ Running
    /\ own[v].kind = "tag"
    /\ call' = [fn |-> "complete", var |-> v, handle |-> 0,
                worker |-> own[v].worker, left |-> MaxProgress, at |-> "check"]
    /\ UNCHANGED <<req, own, misuse, aborted>>

\* StreamRequest::{free, drop} and FetchAmoRequest::{free, drop}: a guard
\* whose request is None just goes away; otherwise the request is taken out.
BeginDrain(v) ==
    /\ Running
    /\ own[v].kind \in {"stream", "fetch"}
    /\ IF own[v].handle = 0
       THEN own' = [own EXCEPT ![v] = Empty] /\ UNCHANGED call
       ELSE /\ own' = [own EXCEPT ![v].handle = 0]
            /\ call' = [fn |-> "drain", var |-> v, handle |-> own[v].handle,
                        worker |-> own[v].worker, left |-> MaxProgress,
                        at |-> "check"]
    /\ UNCHANGED <<req, misuse, aborted>>

\* Worker::wait_request
BeginWait(v, w) ==
    /\ Running
    /\ own[v].kind = "request"
    /\ call' = [fn |-> "wait", var |-> v, handle |-> 0, worker |-> w,
                left |-> MaxProgress, at |-> "check"]
    /\ UNCHANGED <<req, own, misuse, aborted>>

Checked(h) == IF h = 0 THEN misuse ELSE Misused(h, "check")

\* One more round: the loop goes on to Worker::progress.
NextRound == call' = [call EXCEPT !.left = @ - 1, !.at = "progress"]

\* TagRequest::complete, the match on check_finished(): a pending operation
\* with no rounds left aborts the process, anything but Ok(false) frees.
CompleteCheck ==
    /\ ~aborted
    /\ call.fn = "complete"
    /\ call.at = "check"
    /\ LET h == own[call.var].handle
       IN  IF CheckFinished(h) = "false"
           THEN /\ IF call.left = 0
                   THEN aborted' = TRUE /\ UNCHANGED call
                   ELSE NextRound /\ UNCHANGED aborted
                /\ misuse' = Checked(h)
                /\ UNCHANGED <<req, own>>
           ELSE /\ req' = ReqAfterFree(h)
                /\ own' = [own EXCEPT ![call.var] = Empty]
                /\ call' = NoCall
                /\ misuse' = Checked(h)
                /\ UNCHANGED aborted

\* Mutant of DrainCheck: the loop frees the request when it runs out of rounds.
DrainCheckFrees ==
    /\ call.fn = "drain"
    /\ call.at = "check"
    /\ IF call.left > 0 /\ CheckFinished(call.handle) = "false"
       THEN NextRound /\ UNCHANGED <<req, own, misuse>>
       ELSE /\ req' = ReqAfterFree(call.handle)
            /\ misuse' = Misused(call.handle, "free")
            /\ own' = [own EXCEPT ![call.var] = Empty]
            /\ call' = NoCall
    /\ UNCHANGED aborted

\* The loop of the stream and fetch guards: out of rounds, the request is
\* forgotten; Ok(true) and Err free it.
DrainCheck ==
    /\ call.fn = "drain"
    /\ call.at = "check"
    /\ IF call.left = 0
       THEN /\ req' = [req EXCEPT ![call.handle].escape = "leaked"]
            /\ own' = [own EXCEPT ![call.var] = Empty]
            /\ call' = NoCall
            /\ UNCHANGED misuse
       ELSE /\ misuse' = Checked(call.handle)
            /\ IF CheckFinished(call.handle) = "false"
               THEN NextRound /\ UNCHANGED <<req, own>>
               ELSE /\ req' = ReqAfterFree(call.handle)
                    /\ own' = [own EXCEPT ![call.var] = Empty]
                    /\ call' = NoCall
    /\ UNCHANGED aborted

\* Worker::wait_request: returns Ok(false) when out of rounds.
WaitCheck ==
    /\ call.fn = "wait"
    /\ call.at = "check"
    /\ LET h == own[call.var].handle
       IN  IF call.left = 0 THEN call' = NoCall /\ UNCHANGED misuse
           ELSE /\ misuse' = Checked(h)
                /\ IF CheckFinished(h) = "false" THEN NextRound
                   ELSE call' = NoCall
    /\ UNCHANGED <<req, own, aborted>>

\* The call to Worker::progress inside the loops.
LoopProgress ==
    /\ call.fn # "none"
    /\ call.at = "progress"
    /\ UcxProgress(call.worker)
    /\ call' = [call EXCEPT !.at = "check"]
    /\ UNCHANGED <<own, misuse, aborted>>

LoopStep == CompleteCheck \/ DrainCheck \/ WaitCheck \/ LoopProgress

----------------------------------------------------------------------------

Submit ==
    \E v \in Var, ret \in Return, w \in Worker :
        \/ \E gw \in Worker, b \in Buf :
              \/ TagSend(v, ret, w, gw, b)
              \/ TagRecv(v, ret, w, gw, b)
              \/ StreamSend(v, ret, w, gw, b)
              \/ StreamRecv(v, ret, w, gw, b)
              \/ FetchAmo64(v, ret, w, gw, b)
              \/ FetchAmo32(v, ret, w, gw, b)
        \/ \E b \in Buf : TagMsgRecv(v, ret, w, b) \/ TagSendSync(v, ret, w, b)
        \/ SubmitPlain(v, ret, w)

Use ==
    \/ \E v \in Var :
          \/ DropRequest(v)
          \/ CancelAndFree(v)
          \/ CancelRequest(v)
          \/ IntoInner(v)
          \/ BeginComplete(v)
          \/ BeginDrain(v)
          \/ \E w \in Worker : BeginWait(v, w)
    \/ \E w \in Worker : Progress(w)

Next == Submit \/ Use \/ LoopStep

Spec == Init /\ [][Next]_vars

\* The same program with the unclassified functions.
UnclassifiedSpec ==
    Init /\ [][Next \/ \E v \in Var, ret \in Return, w \in Worker :
                        SubmitUnclassified(v, ret, w)]_vars

----------------------------------------------------------------------------
(* Safety.                                                                 *)

\* Every UCX call on a request names a request the program owns: no double
\* free, no status check after a free, no error code treated as an address
\* (Request::drop, cancel, the guards' loops, status_ptr_to_result).
NoMisuse == misuse = {}

\* v's guard still borrows the buffer of the operation at address a.
Pins(v, a) ==
    /\ own[v].kind \in GuardKind
    /\ own[v].buf = req[a].buf
    /\ own[v].writes = req[a].writes
    /\ own[v].handle = a \/ (call.handle = a /\ call.var = v)

\* An operation submitted through a guarded call keeps its buffer borrowed for
\* as long as UCX uses it.  The only ways out are the unsafe into_inner and,
\* for stream and fetch guards but never for TagRequest, the deliberate leak
\* at the end of the bounded loop.
InFlightBufferPinned ==
    \A a \in Addr :
        req[a].phase = "inflight" /\ req[a].api \in GuardKind =>
            \/ \E v \in Var : Pins(v, a)
            \/ req[a].escape = "extracted"
            \/ req[a].escape = "leaked" /\ req[a].api # "tag"

\* UCX never writes a buffer that another operation in flight uses, as long
\* as both were submitted through guarded calls and neither lost its guard
\* (stream.rs: the buffer cannot be reused).
NoBufferRace ==
    \A a, b \in Addr :
        a # b /\ req[a].phase = "inflight" /\ req[b].phase = "inflight"
              /\ req[a].escape = "no" /\ req[b].escape = "no"
              /\ {req[a].api, req[b].api} \subseteq GuardKind
              /\ req[a].buf = req[b].buf
        => ~req[a].writes /\ ~req[b].writes

\* A request is lost only by the deliberate leak: whatever the program has not
\* freed is held by exactly one variable or by the running loop (Drop,
\* into_inner, ManuallyDrop in check_finished, take()).
Holders(a) == {v \in Var : own[v].handle = a} \cup
              (IF call.handle = a THEN {Nil} ELSE {})

OneHolder ==
    \A a \in Addr :
        req[a].user /\ req[a].escape # "leaked" <=>
            \E x \in Var \cup {Nil} : Holders(a) = {x}

\* The queries tell one story of every request held: the cheap one says that
\* it is over exactly when the decoding one does not say that it is pending;
\* test and stream_recv_test, which tell errors by their sign, report one
\* exactly when check_finished does, which classifies the status as a word;
\* and tag_recv_test reads the metadata, uninitialized until UCX fills it in,
\* of no receive but a completed one.
QueriesAgree ==
    \A h \in {own[v].handle : v \in Var} :
        /\ IsCompleted(h) <=> CheckFinished(h) # "false"
        /\ Test(h) = "err" <=> CheckFinished(h) = "err"
        /\ h # 0 => (StreamRecvTest(h) = "err" <=> CheckFinished(h) = "err")
        /\ TagRecvTest(h) = "info" => LiveHandle(h) /\ req[h].phase = "done"

----------------------------------------------------------------------------
(* What the wrappers promise.                                              *)

\* Who has the request at a, in terms of RequestLife: an address that is held
\* by nobody, by two, or after it was given back belongs to none of them.
OwnerOf(a) ==
    IF ~req[a].user
    THEN IF Holders(a) # {} THEN "dangling"
         ELSE IF req[a].phase = "idle" THEN "ucx" ELSE "orphan"
    ELSE IF req[a].escape = "leaked" THEN "lost"
    ELSE IF \A x \in Var \cup {Nil} : Holders(a) # {x} THEN "unheld"
    ELSE IF req[a].api \in PlainApi \/ req[a].escape = "extracted" THEN "loose"
    ELSE IF req[a].api = "tag" THEN "tag" ELSE "guard"

Life == INSTANCE RequestLife WITH
            owner <- [a \in Addr |-> OwnerOf(a)],
            running <- [a \in Addr |-> req[a].phase = "inflight"]

\* Requests implements RequestLife: a guarded request is given back only after
\* its operation has ended, a tag guard never loses one, and each step of a
\* wrapper, loops included, hands on at most one request.
ImplementsLife == Life!LifeSpec

----------------------------------------------------------------------------
(* The inductive invariant behind the safety properties.                   *)

\* The running loop and the variable it works on fit together.
CallShape ==
    /\ call.fn = "none" => call = NoCall
    /\ call.fn # "none" => call.var \in Var
    /\ call.fn = "complete" => own[call.var].kind = "tag"
    /\ call.fn = "wait" => own[call.var].kind = "request"
    /\ call.fn = "drain" <=> call.handle # 0
    /\ call.fn = "drain" => /\ own[call.var].kind \in {"stream", "fetch"}
                            /\ own[call.var].handle = 0

\* Wrapper x holds address a: the request is owned and not leaked, and it is
\* the one a guard of that kind, buffer and access was made for.
Matches(x, a) ==
    /\ a \in Addr
    /\ req[a].user
    /\ x.kind \in GuardKind => /\ req[a].escape = "no"
                               /\ req[a].api = x.kind
                               /\ req[a].buf = x.buf
                               /\ req[a].writes = x.writes
    /\ x.kind = "request" => \/ req[a].escape = "extracted"
                             \/ req[a].api \in PlainApi /\ req[a].escape = "no"

HandlesMatch ==
    /\ \A v \in Var : own[v].handle # 0 => Matches(own[v], own[v].handle)
    /\ \A v \in Var : own[v].kind = "empty" => own[v].handle = 0
    /\ call.handle # 0 => Matches(own[call.var], call.handle)

HandlesDistinct ==
    /\ \A u, v \in Var : u # v /\ own[u].handle # 0
                            => own[u].handle # own[v].handle
    /\ \A v \in Var : call.handle # 0 => own[v].handle # call.handle

\* Requests the program does not hold: free ones, freed ones still running
\* (never under a guard), and leaked ones (never a TagRequest's).
UnheldShape ==
    \A a \in Addr :
        /\ req[a].phase = "idle" => req[a] = Idle
        /\ ~req[a].user => /\ req[a].phase \in {"idle", "inflight"}
                           /\ req[a].api \in PlainApi \/ req[a].escape = "extracted"
        /\ req[a].escape = "leaked" => req[a].user /\ req[a].api # "tag"
        /\ req[a].user /\ req[a].escape # "leaked" =>
              (\E v \in Var : own[v].handle = a) \/ call.handle = a

\* The inductive invariant: the handles in variables and in the running loop
\* are distinct, live and match what they were made for, and nothing else the
\* program must free is out of reach.
IndInv ==
    /\ TypeOK
    /\ misuse = {}
    /\ CallShape
    /\ HandlesMatch
    /\ HandlesDistinct
    /\ UnheldShape

\* What the borrow checker keeps: two guards share a buffer only to read it.
\* With IndInv, it is inductive as well.
BorrowsExclusive ==
    \A u, v \in Var :
        u # v /\ {own[u].kind, own[v].kind} \subseteq GuardKind
              /\ own[u].buf = own[v].buf
        => ~own[u].writes /\ ~own[v].writes

----------------------------------------------------------------------------
(* What comments and documentation say, checked against the code.          *)

\* CHANGELOG.md: "Dropping or reusing the buffer while a tag request is pending
\* no longer compiles".
TagBufferNotReusable ==
    \A a \in Addr :
        req[a].phase = "inflight" /\ req[a].api \in {"tag", "tagplain"}
            /\ req[a].escape = "no"
        => ~Borrowable(req[a].buf, TRUE)
=============================================================================
