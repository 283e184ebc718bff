------------------------------ MODULE MtWorker ------------------------------
(***************************************************************************)
(* MtWorker (worker/worker.rs): a worker shared by threads behind a mutex, *)
(* with the debug ProgressGuard, the recovery from a poisoned mutex, the   *)
(* drop of the last handle, and the endpoints, which stay on their thread  *)
(* and use neither the mutex nor a handle.                                 *)
(*                                                                         *)
(* A thread whose pc is at a UCX location is inside that UCX call: the     *)
(* step that leads there enters the call, the next one returns from it.    *)
(***************************************************************************)
EXTENDS Integers

CONSTANTS
    Thread,
    Handle,     \* MtWorker values: the first one and the clones
    Creator,    \* the thread that created the worker
    Ops,        \* the operations the program uses
    MaxCalls,   \* calls each thread makes
    MaxRounds,  \* rounds of wait_request and of Worker::drop (1_000_000)
    Nil

\* "short" stands for fence, arm, get_efd, cancel_request and pack_address:
\* one UCX call under the lock.
LockedOp == {"short", "signal", "wait", "flush", "create_ep", "progress",
             "with_worker"}
Op == LockedOp \cup {"wait_request", "new", "drop", "ep_drop"}

ASSUME ThreadAssumption == Creator \in Thread /\ Nil \notin Thread
ASSUME OpsAssumption == Ops \subseteq LockedOp
ASSUME BoundsAssumption == MaxCalls \in Nat /\ MaxRounds \in Nat

VARIABLES
    mode,         \* thread mode UCX granted to the worker
    owner,        \* the thread that owns each MtWorker value
    lock,         \* holder of MtWorkerInner::worker
    poisoned,     \* the mutex's poison flag
    progressing,  \* Worker::progressing
    alive,        \* Worker::alive, shared with the endpoints
    ucx,          \* the worker as UCX knows it
    event,        \* a wakeup is pending on the worker's event fd
    pc,           \* the call each thread is in
    calls,        \* calls each thread has made
    request,      \* the Request each thread holds
    ep,           \* the endpoint each thread holds
    panicked      \* operations that have panicked

sync == <<lock, poisoned, progressing>>
worker == <<mode, alive, ucx, event>>
held == <<request, ep>>
vars == <<sync, worker, held, owner, pc, calls, panicked>>

\* "ucx" is inside the one UCX call of op; "progress", "flush", "destroy",
\* "check" and "close" are inside ucp_worker_progress, ucp_worker_flush_nbx,
\* ucp_worker_destroy, ucp_request_check_status and ucp_ep_close_nbx.
PC == [op   : Op \cup {"none"},
       at   : {"idle", "lock", "body", "enter", "store", "load", "ucx",
               "progress", "flush", "destroy", "check", "close"},
       left : 0 .. MaxRounds]

At(op, at, left) == [op |-> op, at |-> at, left |-> left]
NoOp == At("none", "idle", 0)

\* The one type invariant of the module.
TypeOK ==
    /\ mode \in {"single", "serialized", "multi"}
    /\ owner \in [Handle -> Thread \cup {Nil}]
    /\ lock \in Thread \cup {Nil}
    /\ poisoned \in BOOLEAN
    /\ progressing \in BOOLEAN
    /\ alive \in BOOLEAN
    /\ ucx \in {"live", "destroyed"}
    /\ event \in BOOLEAN
    /\ pc \in [Thread -> PC]
    /\ calls \in [Thread -> 0 .. MaxCalls]
    /\ request \in [Thread -> {"none", "inflight", "done"}]
    /\ ep \in [Thread -> {"none", "open"}]
    /\ panicked \subseteq Op

\* The creator is inside MtWorker::new with the only Worker.
Init ==
    /\ mode \in {"single", "serialized", "multi"}
    /\ owner = [h \in Handle |-> Nil]
    /\ lock = Nil
    /\ poisoned = FALSE
    /\ progressing = FALSE
    /\ alive = TRUE
    /\ ucx = "live"
    /\ event = FALSE
    /\ pc = [t \in Thread |-> IF t = Creator THEN At("new", "ucx", 0) ELSE NoOp]
    /\ calls = [t \in Thread |-> 0]
    /\ request = [t \in Thread |-> "none"]
    /\ ep = [t \in Thread |-> "none"]
    /\ panicked = {}

Goto(t, op, at, left) == pc' = [pc EXCEPT ![t] = At(op, at, left)]
Return(t) == pc' = [pc EXCEPT ![t] = NoOp]

----------------------------------------------------------------------------
(* Handles.                                                                *)

\* MtWorker::new: when the query fails, or grants a mode other than SERIALIZED
\* and MULTI, the worker is dropped.
New(t) ==
    /\ pc[t].op = "new"
    /\ \/ /\ mode \in {"serialized", "multi"}
          /\ \E h \in Handle : owner' = [owner EXCEPT ![h] = t]
          /\ Return(t)
       \/ /\ Goto(t, "drop", "store", 0)
          /\ UNCHANGED owner
    /\ UNCHANGED <<sync, worker, held, calls, panicked>>

\* MtWorker::clone; the clone is kept or moved to another thread.
Clone(t, u) ==
    /\ pc[t] = NoOp
    /\ \E h \in Handle : owner[h] = t
    /\ \E g \in Handle : owner[g] = Nil /\ owner' = [owner EXCEPT ![g] = u]
    /\ UNCHANGED <<sync, worker, held, pc, calls, panicked>>

\* Mutant of DropHandle: a thread's own last handle drops the worker.
DropHandleOwnLast(t, h) ==
    /\ pc[t] = NoOp
    /\ owner[h] = t
    /\ owner' = [owner EXCEPT ![h] = Nil]
    /\ IF \A g \in Handle \ {h} : owner[g] # t
       THEN Goto(t, "drop", "store", 0) ELSE UNCHANGED pc
    /\ UNCHANGED <<sync, worker, held, calls, panicked>>

\* Dropping an MtWorker drops its Arc; the last one drops the Worker, on this
\* thread and without the mutex.
DropHandle(t, h) ==
    /\ pc[t] = NoOp
    /\ owner[h] = t
    /\ owner' = [owner EXCEPT ![h] = Nil]
    /\ IF \A g \in Handle \ {h} : owner[g] = Nil
       THEN Goto(t, "drop", "store", 0) ELSE UNCHANGED pc
    /\ UNCHANGED <<sync, worker, held, calls, panicked>>

----------------------------------------------------------------------------
(* Calls under the mutex.                                                  *)

\* The methods of MtWorker that lock first; the caller owns a handle.
Begin(t, op) ==
    /\ pc[t] = NoOp
    /\ calls[t] < MaxCalls
    /\ \E h \in Handle : owner[h] = t
    /\ op \in Ops
    /\ Goto(t, op, "lock", IF op = "with_worker" THEN MaxRounds ELSE 0)
    /\ calls' = [calls EXCEPT ![t] = @ + 1]
    /\ UNCHANGED <<sync, worker, held, owner, panicked>>

\* Where a call goes once it holds the mutex.
Locked(op) ==
    CASE op \in {"progress", "wait_request"} -> "enter"
      [] op = "with_worker"                  -> "body"
      [] OTHER                               -> "ucx"

\* Mutant of Acquire: lock().unwrap() panics on a poisoned mutex.
AcquireUnwrap(t) ==
    /\ pc[t].at = "lock"
    /\ lock = Nil
    /\ IF poisoned
       THEN panicked' = panicked \cup {pc[t].op} /\ Return(t) /\ UNCHANGED lock
       ELSE /\ lock' = t
            /\ Goto(t, pc[t].op, Locked(pc[t].op), pc[t].left)
            /\ UNCHANGED panicked
    /\ UNCHANGED <<poisoned, progressing, worker, held, owner, calls>>

\* Mutant of Acquire: the operation does not wait for the mutex.
AcquireHeld(t) ==
    /\ pc[t].at = "lock"
    /\ lock' = t
    /\ Goto(t, pc[t].op, Locked(pc[t].op), pc[t].left)
    /\ UNCHANGED <<poisoned, progressing, worker, held, owner, calls, panicked>>

\* MtWorker::lock: a poisoned mutex is entered like any other.
Acquire(t) ==
    /\ pc[t].at = "lock"
    /\ lock = Nil
    /\ lock' = t
    /\ Goto(t, pc[t].op, Locked(pc[t].op), pc[t].left)
    /\ UNCHANGED <<poisoned, progressing, worker, held, owner, calls, panicked>>

\* The UCX call of a short operation returns and the guard is dropped.
\* ucp_worker_wait returns only when an event is pending, and holds the mutex
\* until then; flush may leave a request, create_ep may fail.
ShortReturn(t) ==
    /\ pc[t].at = "ucx"
    /\ pc[t].op # "new"
    /\ pc[t].op = "wait" => event
    /\ event' = CASE pc[t].op = "wait"   -> FALSE
                  [] pc[t].op = "signal" -> TRUE
                  [] OTHER               -> event
    /\ request' \in IF pc[t].op = "flush"
                    THEN {request, [request EXCEPT ![t] = "inflight"]}
                    ELSE {request}
    /\ ep' \in IF pc[t].op = "create_ep"
               THEN {ep, [ep EXCEPT ![t] = "open"]} ELSE {ep}
    /\ lock' = Nil
    /\ Return(t)
    /\ UNCHANGED <<mode, alive, ucx, poisoned, progressing, owner, calls, panicked>>

\* Traffic wakes the worker.
Traffic ==
    /\ ucx = "live" /\ ~event
    /\ event' = TRUE
    /\ UNCHANGED <<mode, alive, ucx, sync, held, owner, pc, calls, panicked>>

\* Mutant of BodyEnd: the guard is forgotten when the closure panics.
BodyEndForgotten(t) ==
    /\ pc[t].at = "body"
    /\ \E panics \in BOOLEAN :
          /\ lock' = IF panics THEN lock ELSE Nil
          /\ panicked' = IF panics THEN panicked \cup {pc[t].op} ELSE panicked
          /\ poisoned' = (poisoned \/ panics)
    /\ Return(t)
    /\ UNCHANGED <<progressing, worker, held, owner, calls>>

\* MtWorker::with_worker: the closure progresses the worker,
BodyProgress(t) ==
    /\ pc[t].at = "body"
    /\ pc[t].left > 0
    /\ Goto(t, "with_worker", "enter", pc[t].left - 1)
    /\ UNCHANGED <<sync, worker, held, owner, calls, panicked>>

\* and ends; a panic drops the guard while unwinding, which poisons the mutex.
BodyEnd(t) ==
    /\ pc[t].at = "body"
    /\ \E panics \in BOOLEAN :
          /\ panicked' = IF panics THEN panicked \cup {pc[t].op} ELSE panicked
          /\ poisoned' = (poisoned \/ panics)
    /\ lock' = Nil
    /\ Return(t)
    /\ UNCHANGED <<progressing, worker, held, owner, calls>>

----------------------------------------------------------------------------
(* Worker::progress and the loops around it.                               *)

\* ProgressGuard::new: panics when the flag is set already.
ProgressEnter(t) ==
    /\ pc[t].at = "enter"
    /\ IF progressing
       THEN /\ panicked' = panicked \cup {pc[t].op}
            /\ poisoned' = (poisoned \/ lock = t)
            /\ lock' = IF lock = t THEN Nil ELSE lock
            /\ Return(t)
            /\ UNCHANGED progressing
       ELSE /\ progressing' = TRUE
            /\ Goto(t, pc[t].op, "progress", pc[t].left)
            /\ UNCHANGED <<lock, poisoned, panicked>>
    /\ UNCHANGED <<worker, held, owner, calls>>

\* Any requests in flight, of any thread, complete.
Complete ==
    \E done \in SUBSET {u \in Thread : request[u] = "inflight"} :
        request' = [u \in Thread |-> IF u \in done THEN "done" ELSE request[u]]

\* Where a call goes when ucp_worker_progress has returned.
Progressed(t) ==
    CASE pc[t].op = "progress"    -> Return(t)
      [] pc[t].op = "with_worker" -> Goto(t, "with_worker", "body", pc[t].left)
      [] OTHER                    -> Goto(t, pc[t].op, "check", pc[t].left)

\* Mutant of ProgressReturn: the flag stays set.
ProgressReturnSticky(t) ==
    /\ pc[t].at = "progress"
    /\ Complete
    /\ lock' = IF pc[t].op \in {"progress", "wait_request"} THEN Nil ELSE lock
    /\ Progressed(t)
    /\ UNCHANGED <<progressing, poisoned, worker, ep, owner, calls, panicked>>

\* ucp_worker_progress returns, the ProgressGuard and then the mutex guard of
\* MtWorker::progress are dropped.
ProgressReturn(t) ==
    /\ pc[t].at = "progress"
    /\ Complete
    /\ progressing' = FALSE
    /\ lock' = IF pc[t].op \in {"progress", "wait_request"} THEN Nil ELSE lock
    /\ Progressed(t)
    /\ UNCHANGED <<poisoned, worker, ep, owner, calls, panicked>>

\* MtWorker::wait_request: the first round checks without the mutex.
BeginWaitRequest(t) ==
    /\ pc[t] = NoOp
    /\ calls[t] < MaxCalls
    /\ \E h \in Handle : owner[h] = t
    /\ request[t] # "none"
    /\ Goto(t, "wait_request", "check", MaxRounds)
    /\ calls' = [calls EXCEPT ![t] = @ + 1]
    /\ UNCHANGED <<sync, worker, held, owner, panicked>>

\* Mutant of WaitRequestCheck: no end to the rounds.
WaitRequestCheckUnbounded(t) ==
    /\ pc[t].op = "wait_request"
    /\ pc[t].at = "check"
    /\ IF request[t] = "done"
       THEN Return(t)
       ELSE Goto(t, "wait_request", "lock", pc[t].left - 1)
    /\ UNCHANGED <<sync, worker, held, owner, calls, panicked>>

\* Returns when the request is done or the rounds are used up.
WaitRequestCheck(t) ==
    /\ pc[t].op = "wait_request"
    /\ pc[t].at = "check"
    /\ IF pc[t].left = 0 \/ request[t] = "done"
       THEN Return(t)
       ELSE Goto(t, "wait_request", "lock", pc[t].left - 1)
    /\ UNCHANGED <<sync, worker, held, owner, calls, panicked>>

----------------------------------------------------------------------------
(* Worker::drop.                                                           *)

\* Mutant of DropStore: the flag is cleared after the worker is destroyed.
DropStoreLate(t) ==
    /\ pc[t].at = "store"
    /\ Goto(t, "drop", "flush", 0)
    /\ UNCHANGED <<sync, worker, held, owner, calls, panicked>>

\* alive.store(false), then the flush is submitted.
DropStore(t) ==
    /\ pc[t].at = "store"
    /\ alive' = FALSE
    /\ Goto(t, "drop", "flush", 0)
    /\ UNCHANGED <<mode, ucx, event, sync, held, owner, calls, panicked>>

\* The flush is over at once, fails, or leaves a request to wait for.
DropFlush(t) ==
    /\ pc[t].at = "flush"
    /\ \/ Goto(t, "drop", "destroy", 0)
       \/ Goto(t, "drop", "check", MaxRounds)
    /\ UNCHANGED <<sync, worker, held, owner, calls, panicked>>

\* Mutant of DropCheck: the rounds are not counted.
DropCheckUnbounded(t) ==
    /\ pc[t].op = "drop"
    /\ pc[t].at = "check"
    /\ \/ Goto(t, "drop", "destroy", 0)
       \/ Goto(t, "drop", "enter", pc[t].left)
    /\ UNCHANGED <<sync, worker, held, owner, calls, panicked>>

\* The flush request is done, failed or pending; the last round does not wait.
DropCheck(t) ==
    /\ pc[t].op = "drop"
    /\ pc[t].at = "check"
    /\ \/ Goto(t, "drop", "destroy", 0)
       \/ /\ pc[t].left > 0
          /\ Goto(t, "drop", "enter", pc[t].left - 1)
    /\ UNCHANGED <<sync, worker, held, owner, calls, panicked>>

DropDestroy(t) ==
    /\ pc[t].at = "destroy"
    /\ ucx' = "destroyed"
    /\ Return(t)
    /\ UNCHANGED <<mode, alive, event, sync, held, owner, calls, panicked>>

----------------------------------------------------------------------------
(* Ep::drop and Ep::destroy, on the endpoint's thread.                     *)

BeginEpDrop(t) ==
    /\ pc[t] = NoOp
    /\ ep[t] = "open"
    /\ Goto(t, "ep_drop", "load", 0)
    /\ UNCHANGED <<sync, worker, held, owner, calls, panicked>>

\* worker_alive.load: a dead worker skips the close.
EpLoad(t) ==
    /\ pc[t].at = "load"
    /\ IF alive
       THEN Goto(t, "ep_drop", "close", 0) /\ UNCHANGED ep
       ELSE Return(t) /\ ep' = [ep EXCEPT ![t] = "none"]
    /\ UNCHANGED <<sync, worker, request, owner, calls, panicked>>

EpClose(t) ==
    /\ pc[t].at = "close"
    /\ ep' = [ep EXCEPT ![t] = "none"]
    /\ Return(t)
    /\ UNCHANGED <<sync, worker, request, owner, calls, panicked>>

----------------------------------------------------------------------------

Start(t) ==
    \/ \E u \in Thread : Clone(t, u)
    \/ \E h \in Handle : DropHandle(t, h)
    \/ \E op \in LockedOp : Begin(t, op)
    \/ BeginWaitRequest(t)
    \/ BeginEpDrop(t)

\* The steps of a call that has started.
Step(t) ==
    \/ New(t) \/ Acquire(t) \/ ShortReturn(t) \/ BodyProgress(t) \/ BodyEnd(t)
    \/ ProgressEnter(t) \/ ProgressReturn(t) \/ WaitRequestCheck(t)
    \/ DropStore(t) \/ DropFlush(t) \/ DropCheck(t) \/ DropDestroy(t)
    \/ EpLoad(t) \/ EpClose(t)

Next == Traffic \/ \E t \in Thread : Start(t) \/ Step(t)

Spec == Init /\ [][Next]_vars

\* The operating system keeps running every thread that can run.  Traffic may
\* never come, and no thread has to make a call.
FairSpec == Spec /\ \A t \in Thread : WF_vars(Step(t))

----------------------------------------------------------------------------
(* Properties.                                                             *)

\* t is inside a UCX call on the worker, made through an MtWorker or by the
\* drop of the last one.  Two calls are left out, both made without the mutex:
\* wait_request's ucp_request_check_status (at "check"), which names a request
\* and not the worker, and an Ep's ucp_ep_close_nbx (at "close").  What is left
\* is less than the doc of MtWorker says ("Every operation takes the internal
\* mutex for its duration").
InWorker(t) == pc[t].at \in {"ucx", "progress", "flush", "destroy"}

\* UCX's SERIALIZED mode: no two threads are ever in UCX calls on the worker
\* at once, the calls of Worker::drop included, which take no lock.
\* A worker that was granted SINGLE is only ever used, and destroyed, by its
\* creator (MtWorker::new refuses it).
OneThreadInWorker ==
    /\ \A t, u \in Thread : InWorker(t) /\ InWorker(u) => t = u
    /\ mode = "single" => \A t \in Thread : InWorker(t) => t = Creator

\* No UCX call on the worker, whichever thread makes it, finds the worker
\* destroyed by the drop of the last handle; nor does the check of a request
\* in wait_request, which is made between two rounds without the mutex.
NoUseAfterDestroy ==
    \A t \in Thread : InWorker(t) \/ pc[t].at = "check" => ucx = "live"

\* The only panic that leaves an MtWorker method is the panic of a with_worker
\* closure: the ProgressGuard never fires behind the mutex and a poisoned
\* mutex is recovered.
OnlyClosuresPanic == panicked \subseteq {"with_worker"}

Shared == INSTANCE SharedWorker WITH
              home <- IF mode = "single" THEN {Creator} ELSE Thread,
              users <- {t \in Thread : InWorker(t)},
              closing <- IF alive THEN {} ELSE {t \in Thread : pc[t].op = "drop"},
              gone <- ucx = "destroyed"

\* MtWorker implements SharedWorker.  The thread that drops the last handle
\* takes the alive flag down, so that an endpoint dropped afterwards never
\* reaches UCX, before it enters the worker for the last time, and nobody
\* enters it from then on (MtWorker's Arc, Worker::drop).
ImplementsShared == Shared!SharedSpec

Waiting(t) == pc[t].op = "wait" /\ pc[t].at = "ucx"

\* Every call returns, whatever the other threads do, panicking closures
\* included: only a thread that stays in ucp_worker_wait, with the mutex, can
\* stop the others (calls are bounded: the mutex is not fair).
CallsReturn ==
    ([]<>(\A u \in Thread : ~Waiting(u))) =>
        \A t \in Thread : (pc[t].op # "none") ~> (pc[t].op = "none")

\* The drop of the last handle destroys the worker: the flush loop of
\* Worker::drop is bounded.
LastDropDestroys ==
    ((\A h \in Handle : owner[h] = Nil) /\ pc[Creator].op # "new")
        ~> (ucx = "destroyed")

----------------------------------------------------------------------------
(* The inductive invariant behind the safety properties.                   *)

\* Calls made through a handle, and those of the thread that has the worker
\* to itself.
Calling(t) == pc[t].op \in LockedOp \cup {"wait_request"}
Alone(t) == pc[t].op \in {"new", "drop"}

\* Where a call can be.
CallShape(t) ==
    /\ pc[t].at = "idle" <=> pc[t].op = "none"
    /\ pc[t].op = "new" => pc[t].at = "ucx"
    /\ pc[t].op = "ep_drop" <=> pc[t].at \in {"load", "close"}
    /\ pc[t].at = "ucx" => Calling(t) \/ pc[t].op = "new"
    /\ pc[t].at = "body" => pc[t].op = "with_worker"
    /\ pc[t].at = "lock" => Calling(t)
    /\ pc[t].at \in {"enter", "progress"} =>
          pc[t].op \in {"progress", "wait_request", "with_worker", "drop"}
    /\ pc[t].at = "check" => pc[t].op \in {"wait_request", "drop"}
    /\ pc[t].at \in {"store", "flush", "destroy"} => pc[t].op = "drop"

\* A thread between Acquire and the release of the mutex.
Inside(t) ==
    Calling(t) /\ pc[t].at \in {"ucx", "body", "enter", "progress"}

\* The mutex is held by the thread inside, and the flag of ProgressGuard is up
\* while a thread is in ucp_worker_progress.
Guarded ==
    /\ \A t \in Thread : lock = t <=> Inside(t)
    /\ progressing <=> \E t \in Thread : pc[t].at = "progress"

\* Calls are made with a handle.  A thread that has the worker to itself is
\* the only one, there is no handle then, and the worker is still there.
Owned ==
    /\ \A t \in Thread : Calling(t) => \E h \in Handle : owner[h] = t
    /\ \A t \in Thread : Alone(t) =>
          /\ ucx = "live"
          /\ \A h \in Handle : owner[h] = Nil
          /\ \A u \in Thread : Alone(u) => u = t
    /\ ucx = "destroyed" => \A h \in Handle : owner[h] = Nil

\* The alive flag goes down at the beginning of Worker::drop, and stays down.
Announced ==
    alive <=> /\ ucx = "live"
              /\ \A t \in Thread : pc[t].op = "drop" => pc[t].at = "store"

\* A worker that was granted SINGLE never gets a handle.
AtHome ==
    /\ \A t \in Thread : pc[t].op = "new" => t = Creator
    /\ mode = "single" => /\ \A h \in Handle : owner[h] = Nil
                          /\ \A t \in Thread : Alone(t) => t = Creator

\* The inductive invariant, with the type invariant: of the threads in a call
\* one holds the mutex, or one has the worker to itself.
IndInv ==
    /\ TypeOK
    /\ \A t \in Thread : CallShape(t)
    /\ Guarded
    /\ Owned
    /\ Announced
    /\ AtHome
    /\ OnlyClosuresPanic

----------------------------------------------------------------------------
(* What comments and documentation say, checked against the code.          *)

\* Worker::signal: "Signal the worker to wake up from [`Self::wait`]."  A call
\* of MtWorker::signal wakes a thread blocked in MtWorker::wait.
SignalWakes ==
    \A t, u \in Thread :
        (Waiting(t) /\ pc[u].op = "signal") ~> ~Waiting(t)
=============================================================================
