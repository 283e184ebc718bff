----------------------------- MODULE Endpoints -----------------------------
(***************************************************************************)
(* The end of an endpoint: Ep::drop, Ep::destroy, Ep::disconnect_nb and    *)
(* Ep::close (ep/mod.rs) against Worker::drop (worker/worker.rs), on the   *)
(* one thread that owns them, in every order the program can drop them.    *)
(* An endpoint does not borrow its worker: it holds a reference to the     *)
(* worker's alive flag (an Arc<AtomicBool>), and the calls that end it     *)
(* skip UCX when the flag is down.  The address of a flag is used again    *)
(* once nobody holds a reference.                                          *)
(***************************************************************************)
EXTENDS Integers, FiniteSets

CONSTANTS
    Worker, Ep,
    Flag,        \* addresses of alive flags
    MaxRounds,   \* rounds of Ep::close and of Worker::drop (1_000_000)
    Nil

ASSUME EndpointsAssumption ==
    MaxRounds \in Nat /\ Nil \notin Worker \cup Ep \cup Flag

VARIABLES
    worker,   \* each worker as UCX knows it
    flagOf,   \* the flag each Worker value holds
    up,       \* the flags
    ep,       \* each endpoint: its worker, its Rust owner, its UCX state
    req,      \* the close request of each endpoint and who has it
    call,     \* the Ep::close or Worker::drop in progress, and the worker with
              \* which it makes progress
    ub        \* UCX calls on an endpoint or a request that UCX does not have

vars == <<worker, flagOf, up, ep, req, call, ub>>

\* owned: there is an Ep value; flag: the reference it holds, or leaked.
\* closes: UCX calls that gave the endpoint up.
NoEp == [worker |-> Nil, owned |-> FALSE, flag |-> Nil, ucx |-> "none",
         closes |-> 0]
NoReq == [status |-> "none", by |-> "none"]
NoCall == [fn |-> "none", of |-> Nil, with |-> Nil, at |-> "check", left |-> 0]

\* The calls on an endpoint, and the one on its close request.  Those that end
\* it read the flag, but for close.
EpCall == {"drop", "destroy", "disconnect", "close", "use", "request_free"}
Flagged == {"drop", "destroy", "disconnect"}

\* The one type invariant of the module.
TypeOK ==
    /\ worker \in [Worker -> {"none", "live", "destroyed"}]
    /\ flagOf \in [Worker -> Flag \cup {Nil}]
    /\ up \in [Flag -> BOOLEAN]
    /\ ep \in [Ep -> [worker : Worker \cup {Nil}, owned : BOOLEAN,
                      flag : Flag \cup {Nil},
                      ucx : {"none", "open", "closing", "closed"}, closes : 0 .. 2]]
    /\ req \in [Ep -> [status : {"none", "inflight", "done", "failed"},
                       by : {"none", "close", "program", "leaked"}]]
    /\ call \in [fn : {"none", "close", "drop"}, of : Worker \cup Ep \cup {Nil},
                 with : Worker \cup {Nil}, at : {"check", "progress", "destroy"},
                 left : 0 .. MaxRounds]
    /\ ub \subseteq EpCall

Init ==
    /\ worker = [w \in Worker |-> "none"]
    /\ flagOf = [w \in Worker |-> Nil]
    /\ up = [f \in Flag |-> FALSE]
    /\ ep = [e \in Ep |-> NoEp]
    /\ req = [e \in Ep |-> NoReq]
    /\ call = NoCall
    /\ ub = {}

\* The thread runs no loop; after undefined behaviour nothing is modelled.
Idle == call = NoCall /\ ub = {}

\* The UCX call finds the endpoint there.
Valid(e) == ep[e].ucx = "open" /\ worker[ep[e].worker] = "live"

Calls(e, fn) == ub' = IF Valid(e) THEN ub ELSE ub \cup {fn}

Alive(e) == up[ep[e].flag]

\* The Ep value is gone and UCX has given the endpoint up (st), or not.  Its
\* reference to the flag is dropped (ref is Nil) or, by the functions that wrap
\* the Ep in ManuallyDrop, leaked.
GaveUp(e, st, ref) ==
    ep' = [ep EXCEPT ![e] = [worker |-> ep[e].worker, owned |-> FALSE,
                             flag |-> ref, ucx |-> st,
                             closes |-> ep[e].closes + 1]]

Skipped(e, ref) ==
    ep' = [ep EXCEPT ![e] = [@ EXCEPT !.owned = FALSE, !.flag = ref]]

LeakedRef(e) == ep[e].flag

\* Every reference was dropped, none leaked: the allocation can be used again.
Unreferenced(f) ==
    /\ \A w \in Worker : flagOf[w] # f
    /\ \A e \in Ep : ep[e].flag # f

----------------------------------------------------------------------------

\* Worker::new: UCX creates the worker, the flag is allocated.
WorkerNew(w, f) ==
    /\ Idle
    /\ worker[w] = "none"
    /\ Unreferenced(f)
    /\ worker' = [worker EXCEPT ![w] = "live"]
    /\ flagOf' = [flagOf EXCEPT ![w] = f]
    /\ up' = [up EXCEPT ![f] = TRUE]
    /\ UNCHANGED <<ep, req, call, ub>>

\* Ep::new
EpNew(e, w) ==
    /\ Idle
    /\ ep[e] = NoEp
    /\ worker[w] = "live"
    /\ ep' = [ep EXCEPT ![e] = [worker |-> w, owned |-> TRUE, flag |-> flagOf[w],
                                ucx |-> "open", closes |-> 0]]
    /\ UNCHANGED <<worker, flagOf, up, req, call, ub>>

\* Ep::query, evaluate_perf, modify, print_info and all other calls on an
\* endpoint: the handle goes to UCX, the flag is not read.
EpUse(e) ==
    /\ Idle
    /\ ep[e].owned
    /\ Calls(e, "use")
    /\ UNCHANGED <<worker, flagOf, up, ep, req, call>>

\* Mutant of EpDrop: the alive flag is not read.
EpDropUnchecked(e) ==
    /\ Idle
    /\ ep[e].owned
    /\ Calls(e, "drop")
    /\ GaveUp(e, "closed", Nil)
    /\ UNCHANGED <<worker, flagOf, up, req, call>>

\* Ep::drop: a close that does not end at once leaves its request leaked; a
\* failed one has released the endpoint.
EpDrop(e) ==
    /\ Idle
    /\ ep[e].owned
    /\ IF ~Alive(e)
       THEN Skipped(e, Nil) /\ UNCHANGED <<req, ub>>
       ELSE /\ Calls(e, "drop")
            /\ \/ GaveUp(e, "closed", Nil) /\ UNCHANGED req
               \/ /\ GaveUp(e, "closing", Nil)
                  /\ req' = [req EXCEPT ![e] = [status |-> "inflight",
                                                by |-> "leaked"]]
    /\ UNCHANGED <<worker, flagOf, up, call>>

\* Ep::destroy
EpDestroy(e) ==
    /\ Idle
    /\ ep[e].owned
    /\ IF ~Alive(e)
       THEN Skipped(e, LeakedRef(e)) /\ UNCHANGED ub
       ELSE Calls(e, "destroy") /\ GaveUp(e, "closed", LeakedRef(e))
    /\ UNCHANGED <<worker, flagOf, up, req, call>>

\* Ep::disconnect_nb: a pending disconnect gives its request to the caller.  A
\* failed one has left the endpoint alone and ucp_ep_destroy follows on the same
\* thread: like a disconnect that is over at once, it ends with the endpoint
\* closed, once.
EpDisconnectNb(e) ==
    /\ Idle
    /\ ep[e].owned
    /\ IF ~Alive(e)
       THEN Skipped(e, LeakedRef(e)) /\ UNCHANGED <<req, ub>>
       ELSE /\ Calls(e, "disconnect")
            /\ \/ GaveUp(e, "closed", LeakedRef(e)) /\ UNCHANGED req
               \/ /\ GaveUp(e, "closing", LeakedRef(e))
                  /\ req' = [req EXCEPT ![e] = [status |-> "inflight",
                                                by |-> "program"]]
    /\ UNCHANGED <<worker, flagOf, up, call>>

\* Mutant of EpClose: Ep::drop runs as well (no ManuallyDrop).
EpCloseDrops(e, w) ==
    /\ Idle
    /\ ep[e].owned
    /\ worker[w] = "live"
    /\ Calls(e, "close")
    /\ ep' = [ep EXCEPT ![e] = [@ EXCEPT !.owned = FALSE, !.flag = Nil,
                                         !.ucx = "closed", !.closes = @ + 2]]
    /\ UNCHANGED <<worker, flagOf, up, req, call>>

\* Ep::close, which does not read the alive flag.  w, the worker to progress, is
\* an argument that nothing relates to the endpoint.  No request to wait for
\* (also on an error), or the loop.
EpClose(e, w) ==
    /\ Idle
    /\ ep[e].owned
    /\ worker[w] = "live"
    /\ Calls(e, "close")
    /\ \/ GaveUp(e, "closed", LeakedRef(e)) /\ UNCHANGED <<req, call>>
       \/ /\ GaveUp(e, "closing", LeakedRef(e))
          /\ req' = [req EXCEPT ![e] = [status |-> "inflight", by |-> "close"]]
          /\ call' = [fn |-> "close", of |-> e, with |-> w, at |-> "check",
                     left |-> MaxRounds]
    /\ UNCHANGED <<worker, flagOf, up>>

Leaked(e) == req' = [req EXCEPT ![e].by = "leaked"]

\* Mutant of CloseCheck: the request is freed when the rounds are used up.
CloseCheckFrees ==
    LET e == call.of
    IN  /\ call.fn = "close" /\ call.at = "check"
        /\ \/ /\ call.left > 0 /\ req[e].status = "inflight"
              /\ call' = [call EXCEPT !.left = @ - 1, !.at = "progress"]
              /\ UNCHANGED req
           \/ /\ call.left = 0 \/ req[e].status # "inflight"
              /\ req' = [req EXCEPT ![e].by = "none"]
              /\ call' = NoCall
        /\ UNCHANGED <<worker, flagOf, up, ep, ub>>

\* The loop of Ep::close: Ok(true) frees the request; an error, and the end of
\* the rounds, leak it.
CloseCheck ==
    LET e == call.of
    IN  /\ call.fn = "close" /\ call.at = "check"
        /\ \/ /\ call.left = 0 \/ req[e].status = "failed"
              /\ Leaked(e)
              /\ call' = NoCall
           \/ /\ call.left > 0 /\ req[e].status = "done"
              /\ req' = [req EXCEPT ![e] = NoReq]
              /\ call' = NoCall
           \/ /\ call.left > 0 /\ req[e].status = "inflight"
              /\ call' = [call EXCEPT !.left = @ - 1, !.at = "progress"]
              /\ UNCHANGED req
        /\ UNCHANGED <<worker, flagOf, up, ep, ub>>

\* The caller of disconnect_nb drops its request, in flight or not: the request
\* is the worker's, and Request::drop does not know whether that is there.
DropRequest(e) ==
    /\ Idle
    /\ req[e].by = "program"
    /\ ub' = IF worker[ep[e].worker] = "live" THEN ub ELSE ub \cup {"request_free"}
    /\ req' = [req EXCEPT ![e].by = "none"]
    /\ UNCHANGED <<worker, flagOf, up, ep, call>>

\* ucp_worker_progress on w: closes end.
UcxProgress(w) ==
    \E out \in [{e \in Ep : ep[e].worker = w /\ req[e].status = "inflight"}
                   -> {"inflight", "done", "failed"}] :
        /\ req' = [e \in Ep |-> IF e \in DOMAIN out
                                THEN [req[e] EXCEPT !.status = out[e]] ELSE req[e]]
        /\ ep' = [e \in Ep |-> IF e \in DOMAIN out /\ out[e] # "inflight"
                               THEN [ep[e] EXCEPT !.ucx = "closed"] ELSE ep[e]]

Progress(w) ==
    /\ Idle
    /\ worker[w] = "live"
    /\ UcxProgress(w)
    /\ UNCHANGED <<worker, flagOf, up, call, ub>>

LoopProgress ==
    /\ call.at = "progress"
    /\ UcxProgress(call.with)
    /\ call' = [call EXCEPT !.at = "check"]
    /\ UNCHANGED <<worker, flagOf, up, ub>>

\* Worker::drop: the flag, the flush, which may be over at once,
WorkerDrop(w) ==
    /\ Idle
    /\ worker[w] = "live"
    /\ up' = [up EXCEPT ![flagOf[w]] = FALSE]
    /\ call' = [fn |-> "drop", of |-> w, with |-> w, at |-> "check",
                left |-> MaxRounds]
    /\ UNCHANGED <<worker, flagOf, ep, req, ub>>

\* Mutant of WorkerDropCheck: the rounds are not counted.
WorkerDropCheckUncounted ==
    /\ call.fn = "drop" /\ call.at = "check"
    /\ call' \in {[call EXCEPT !.at = "destroy"], [call EXCEPT !.at = "progress"]}
    /\ UNCHANGED <<worker, flagOf, up, ep, req, ub>>

\* the bounded loop on the flush request,
WorkerDropCheck ==
    /\ call.fn = "drop" /\ call.at = "check"
    /\ \/ call' = [call EXCEPT !.at = "destroy"]
       \/ /\ call.left > 0
          /\ call' = [call EXCEPT !.left = @ - 1, !.at = "progress"]
    /\ UNCHANGED <<worker, flagOf, up, ep, req, ub>>

\* and ucp_worker_destroy, which takes the worker's endpoints with it.  Then the
\* fields of the Worker go, its reference to the flag among them.
WorkerDestroy ==
    /\ call.at = "destroy"
    /\ worker' = [worker EXCEPT ![call.of] = "destroyed"]
    /\ ep' = [e \in Ep |-> IF ep[e].worker = call.of
                           THEN [ep[e] EXCEPT !.ucx = "closed"] ELSE ep[e]]
    /\ flagOf' = [flagOf EXCEPT ![call.of] = Nil]
    /\ call' = NoCall
    /\ UNCHANGED <<up, req, ub>>

LoopStep == ub = {} /\ (CloseCheck \/ LoopProgress \/ WorkerDropCheck \/ WorkerDestroy)

Next ==
    \/ \E e \in Ep :
          \/ EpDrop(e) \/ EpDestroy(e) \/ EpDisconnectNb(e)
          \/ EpUse(e) \/ DropRequest(e)
          \/ \E w \in Worker : EpNew(e, w) \/ EpClose(e, w)
    \/ \E w \in Worker, f \in Flag : WorkerNew(w, f)
    \/ \E w \in Worker : Progress(w) \/ WorkerDrop(w)
    \/ LoopStep

Spec == Init /\ [][Next]_vars

\* The loops run on the calling thread and do not block.
FairSpec == Spec /\ WF_vars(LoopStep)

----------------------------------------------------------------------------
(* Properties.                                                             *)

\* The worker has started to go, or is gone.
Gone(w) == worker[w] = "destroyed" \/ (call.fn = "drop" /\ call.of = w)

\* The flag that a Worker or an Ep refers to tells whether that worker is there.
FlagTells ==
    /\ \A w \in Worker : worker[w] = "live" =>
          flagOf[w] \in Flag /\ (up[flagOf[w]] <=> ~Gone(w))
    /\ \A e \in Ep : ep[e].owned =>
          ep[e].flag \in Flag /\ (Alive(e) <=> ~Gone(ep[e].worker))

NoDanglingEpCall == ub \cap Flagged = {}

\* An endpoint is given up to UCX at most once, whichever of the four ways its
\* owner takes (ManuallyDrop in destroy, disconnect_nb and close), and not
\* forgotten by any of them: without its Ep value it is closed, closing, or its
\* worker was already being dropped.
GivenUpOnce ==
    \A e \in Ep :
        /\ ep[e].closes <= 1
        /\ ep[e].ucx = "open" /\ ~ep[e].owned => Gone(ep[e].worker)

\* Ep::close never frees a close request that is still in flight.
CloseFreesFinished ==
    [][\A e \in Ep : req[e].by = "close" /\ req'[e].by = "none"
            => req[e].status # "inflight"]_vars

\* Ep::close and Worker::drop end, whatever UCX does.
LoopsEnd == (call # NoCall /\ ub = {}) ~> (call = NoCall)
=============================================================================
