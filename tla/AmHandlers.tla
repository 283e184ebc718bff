----------------------------- MODULE AmHandlers -----------------------------
(***************************************************************************)
(* Active-message handlers (am.rs): Worker::am_register_handler,           *)
(* am_register, am_unregister, the trampoline UCX calls, and the life of   *)
(* the closures up to the end of Worker::drop.                             *)
(*                                                                         *)
(* UCX looks a handler up when a message arrives and may run it on several *)
(* threads at once (MULTI), so a callback can still be on its way when its *)
(* id has been given another handler.                                      *)
(***************************************************************************)
EXTENDS UcxStatus

CONSTANTS
    Id,        \* active-message ids
    Handler,   \* AmHandler allocations
    Slot,      \* callbacks UCX may run at once
    MaxSends,  \* messages that arrive
    Raw, Nil   \* a callback registered with am_register; no handler

ASSUME AmAssumption ==
    {Raw, Nil} \cap Handler = {} /\ Nil \notin Slot /\ MaxSends \in Nat

VARIABLES
    table,     \* UCX's handler for each id
    retained,  \* Worker::am_handlers
    state,     \* each AmHandler: allocated or not, its closure running or not
    reg,       \* the am_register_handler call in progress
    run,       \* the callback in each slot
    sent,      \* messages that have arrived
    worker,    \* the stages of Worker::drop
    toUcx,     \* the last status a trampoline returned to UCX
    ub         \* a freed AmHandler was used

vars == <<table, retained, state, reg, run, sent, worker, toUcx, ub>>

NoReg == [id |-> Nil, h |-> Nil]
NoRun == [at |-> "idle", h |-> Nil]

\* lock: the slot whose trampoline holds the mutex.  panics: the closure has
\* panicked.  again: it was invoked after that.
Fresh == [mem |-> "none", lock |-> Nil, poisoned |-> FALSE, panics |-> FALSE,
          again |-> FALSE]

\* The one type invariant of the module.  A trampoline returns UCS_OK or an
\* error: UCS_INPROGRESS would make UCX keep the message for a release that
\* never comes.
TypeOK ==
    /\ table \in [Id -> Handler \cup {Raw, Nil}]
    /\ retained \subseteq Handler
    /\ state \in [Handler -> [mem : {"none", "live", "freed"},
                              lock : Slot \cup {Nil}, poisoned : BOOLEAN,
                              panics : BOOLEAN, again : BOOLEAN]]
    /\ reg \in [id : Id \cup {Nil}, h : Handler \cup {Nil}]
    /\ run \in [Slot -> [at : {"idle", "enter", "lock", "call"},
                         h : Handler \cup {Raw, Nil}]]
    /\ sent \in 0 .. MaxSends
    /\ worker \in {"live", "dropping", "destroyed", "gone"}
    /\ toUcx \in -100 .. UCS_OK
    /\ ub \in BOOLEAN

Init ==
    /\ table = [i \in Id |-> Nil]
    /\ retained = {}
    /\ state = [h \in Handler |-> Fresh]
    /\ reg = NoReg
    /\ run = [s \in Slot |-> NoRun]
    /\ sent = 0
    /\ worker = "live"
    /\ toUcx = UCS_OK
    /\ ub = FALSE

Free(h) == [state EXCEPT ![h].mem = "freed"]

----------------------------------------------------------------------------
(* Registration, on the thread that owns the worker.                       *)

\* am_register_handler: the Arc is made and UCX is called with its address.
\* UCX refuses, and the Arc is dropped; or installs it,
RegisterHandler(i, h) ==
    /\ ~ub /\ worker = "live" /\ reg = NoReg
    /\ state[h].mem = "none"
    /\ \/ /\ state' = [state EXCEPT ![h].mem = "live"]
          /\ table' = [table EXCEPT ![i] = h]
          /\ reg' = [id |-> i, h |-> h]
       \/ /\ state' = Free(h)
          /\ UNCHANGED <<table, reg>>
    /\ UNCHANGED <<retained, run, sent, worker, toUcx, ub>>

\* and then it is pushed on am_handlers; nothing is ever removed from it.
RetainHandler ==
    /\ ~ub /\ reg # NoReg
    /\ retained' = retained \cup {reg.h}
    /\ reg' = NoReg
    /\ UNCHANGED <<table, state, run, sent, worker, toUcx, ub>>

\* am_register with a raw callback, and am_unregister.
RegisterRaw(i) ==
    /\ ~ub /\ worker = "live" /\ reg = NoReg
    /\ table' = [table EXCEPT ![i] = Raw]
    /\ UNCHANGED <<retained, state, reg, run, sent, worker, toUcx, ub>>

Unregister(i) ==
    /\ ~ub /\ worker = "live" /\ reg = NoReg
    /\ table' = [table EXCEPT ![i] = Nil]
    /\ UNCHANGED <<retained, state, reg, run, sent, worker, toUcx, ub>>

----------------------------------------------------------------------------
(* am_trampoline.                                                          *)

\* A message for an id with a handler arrives; UCX reads the handler.
Dispatch(s, i) ==
    /\ ~ub /\ worker \in {"live", "dropping"}
    /\ sent < MaxSends
    /\ run[s] = NoRun
    /\ table[i] # Nil
    /\ run' = [run EXCEPT ![s] = [at |-> "enter", h |-> table[i]]]
    /\ sent' = sent + 1
    /\ UNCHANGED <<table, retained, state, reg, worker, toUcx, ub>>

\* A raw callback runs without this crate.
RawReturn(s) ==
    /\ ~ub
    /\ run[s].at = "enter" /\ run[s].h = Raw
    /\ run' = [run EXCEPT ![s] = NoRun]
    /\ UNCHANGED <<table, retained, state, reg, sent, worker, toUcx, ub>>

\* The trampoline reads the AmHandler; a null header or data pointer with a
\* length is refused before the closure is reached.
Enter(s) ==
    /\ ~ub
    /\ run[s].at = "enter" /\ run[s].h \in Handler
    /\ ub' = (state[run[s].h].mem # "live")
    /\ \/ /\ run' = [run EXCEPT ![s] = NoRun]
          /\ toUcx' = UCS_ERR_INVALID_PARAM
       \/ /\ run' = [run EXCEPT ![s].at = "lock"]
          /\ UNCHANGED toUcx
    /\ UNCHANGED <<table, retained, state, reg, sent, worker>>

\* Mutant of Lock: the closure is called without its mutex.
LockNone(s) ==
    /\ ~ub
    /\ run[s].at = "lock"
    /\ run' = [run EXCEPT ![s].at = "call"]
    /\ UNCHANGED <<table, retained, state, reg, sent, worker, toUcx, ub>>

\* handler.inner.lock(): a poisoned mutex refuses the message.
Lock(s) ==
    LET h == run[s].h
    IN  /\ ~ub
        /\ run[s].at = "lock"
        /\ state[h].lock = Nil
        /\ IF state[h].poisoned
           THEN /\ run' = [run EXCEPT ![s] = NoRun]
                /\ toUcx' = UCS_ERR_IO_ERROR
                /\ UNCHANGED state
           ELSE /\ run' = [run EXCEPT ![s].at = "call"]
                /\ state' = [state EXCEPT ![h].lock = s,
                                          ![h].again = @ \/ state[h].panics]
                /\ UNCHANGED toUcx
        /\ UNCHANGED <<table, retained, reg, sent, worker, ub>>

\* What the closure does: Ok(()), Err(status) or a panic.
Outcome == [end : {"ok", "panic"}, status : {UCS_OK}] \cup
           [end : {"err"}, status : {UCS_OK, UCS_INPROGRESS, UCS_ERR_CANCELED}]

\* Mutant of ReportedStatus: an Err goes to UCX as it is.
ReportedStatusUnchecked(o) ==
    CASE o.end = "ok"    -> UCS_OK
      [] o.end = "panic" -> UCS_ERR_IO_ERROR
      [] o.end = "err"   -> o.status

\* The match on catch_unwind: an Err that is no error is not shown to UCX.
ReportedStatus(o) ==
    CASE o.end = "ok"    -> UCS_OK
      [] o.end = "panic" -> UCS_ERR_IO_ERROR
      [] o.end = "err"   -> IF o.status < 0 THEN o.status
                            ELSE UCS_ERR_INVALID_PARAM

\* Mutant of Finish: a panic leaves the mutex locked.
FinishLocked(s) ==
    /\ ~ub
    /\ run[s].at = "call"
    /\ \E o \in Outcome :
          state' = IF o.end = "panic" THEN state
                   ELSE [state EXCEPT ![run[s].h].lock = Nil]
    /\ run' = [run EXCEPT ![s] = NoRun]
    /\ UNCHANGED <<table, retained, reg, sent, worker, toUcx, ub>>

\* The closure ends and the guard is dropped.  catch_unwind has already caught
\* a panic then, so the mutex is not poisoned by it.
Finish(s) ==
    /\ ~ub
    /\ run[s].at = "call"
    /\ \E o \in Outcome :
          /\ toUcx' = ReportedStatus(o)
          /\ state' = [state EXCEPT ![run[s].h].lock = Nil,
                                    ![run[s].h].panics = @ \/ (o.end = "panic")]
    /\ run' = [run EXCEPT ![s] = NoRun]
    /\ UNCHANGED <<table, retained, reg, sent, worker, ub>>

Callback(s) == RawReturn(s) \/ Enter(s) \/ Lock(s) \/ Finish(s)

----------------------------------------------------------------------------
(* Worker::drop.                                                           *)

\* The flush loop progresses the worker: messages still arrive.
BeginDrop ==
    /\ ~ub /\ worker = "live" /\ reg = NoReg
    /\ worker' = "dropping"
    /\ UNCHANGED <<table, retained, state, reg, run, sent, toUcx, ub>>

\* Mutant of Destroy: the closures are dropped before the worker.
DestroyFieldsFirst ==
    /\ ~ub /\ worker = "dropping"
    /\ state' = [h \in Handler |-> IF h \in retained
                                   THEN [state[h] EXCEPT !.mem = "freed"]
                                   ELSE state[h]]
    /\ worker' = "destroyed"
    /\ UNCHANGED <<table, retained, reg, run, sent, toUcx, ub>>

\* ucp_worker_destroy returns when no callback is running any more.
Destroy ==
    /\ ~ub /\ worker = "dropping"
    /\ \A s \in Slot : run[s] = NoRun
    /\ worker' = "destroyed"
    /\ UNCHANGED <<table, retained, state, reg, run, sent, toUcx, ub>>

\* Mutant of DropFields: only the handlers still installed are dropped.
DropFieldsInstalled ==
    /\ ~ub /\ worker = "destroyed"
    /\ state' = [h \in Handler |-> IF \E i \in Id : table[i] = h
                                   THEN [state[h] EXCEPT !.mem = "freed"]
                                   ELSE state[h]]
    /\ retained' = {}
    /\ worker' = "gone"
    /\ UNCHANGED <<table, reg, run, sent, toUcx, ub>>

\* The fields are dropped after Worker::drop returns.
DropFields ==
    /\ ~ub /\ worker = "destroyed"
    /\ state' = [h \in Handler |-> IF h \in retained
                                   THEN [state[h] EXCEPT !.mem = "freed"]
                                   ELSE state[h]]
    /\ retained' = {}
    /\ worker' = "gone"
    /\ UNCHANGED <<table, reg, run, sent, toUcx, ub>>

Next ==
    \/ \E i \in Id : RegisterRaw(i) \/ Unregister(i)
                     \/ \E h \in Handler : RegisterHandler(i, h)
    \/ RetainHandler
    \/ \E s \in Slot : Callback(s) \/ \E i \in Id : Dispatch(s, i)
    \/ BeginDrop \/ Destroy \/ DropFields

Spec == Init /\ [][Next]_vars

\* Closures return, as the documentation of am_register_handler asks, and UCX
\* runs every callback it has started; Worker::drop runs to its end.  Messages
\* are bounded, so a mutex that is not fair starves nobody.
FairSpec ==
    /\ Spec
    /\ \A s \in Slot : WF_vars(Callback(s))
    /\ WF_vars(Destroy) /\ WF_vars(DropFields)

----------------------------------------------------------------------------
(* Properties.                                                             *)

\* A closure is never used after it was dropped, although its id may have been
\* given another handler, or none, while the message was on its way, and
\* although messages arrive during Worker::drop.
NoFreedHandler == ~ub

\* An FnMut closure is entered by one callback at a time.
ClosureExclusive ==
    \A s, u \in Slot :
        run[s].at = "call" /\ run[u].at = "call" /\ run[s].h = run[u].h => s = u

\* Every callback UCX starts returns, panicking closures included.
CallbacksReturn == \A s \in Slot : (run[s] # NoRun) ~> (run[s] = NoRun)

\* A worker that is being dropped is destroyed, and every closure it was given
\* is freed: none leaks, however often ids were registered again.
DropEnds == (worker = "dropping") ~>
              (worker = "gone" /\ \A h \in Handler : state[h].mem # "live")

----------------------------------------------------------------------------
(* The inductive invariant behind the safety properties.                   *)

\* A callback that has started is for a raw callback or an AmHandler, and past
\* the first step for an AmHandler; UCX runs it until it destroys the worker.
RunShape(s) ==
    run[s] # NoRun =>
        /\ run[s].at # "idle"
        /\ run[s].h \in Handler \cup {Raw}
        /\ run[s].at \in {"lock", "call"} => run[s].h \in Handler
        /\ worker \in {"live", "dropping"}

\* The worker is about to retain the handler of a registration.
RegShape == reg # NoReg => reg.h \in Handler /\ worker = "live"

\* The worker keeps exactly the closures that are allocated, but for the one
\* UCX has and the worker does not have yet; in the end it keeps none.
RetainedLive ==
    /\ \A h \in Handler : state[h].mem = "live" <=> h \in retained \/ reg.h = h
    /\ worker = "gone" => retained = {}

\* What UCX may call is allocated, until the worker is gone.
CalledLive ==
    worker # "gone" =>
        /\ \A i \in Id : table[i] \in Handler => state[table[i]].mem = "live"
        /\ \A s \in Slot : run[s].h \in Handler => state[run[s].h].mem = "live"

\* A closure's mutex is held by the callback that is in the closure.
LockShape ==
    \A h \in Handler, s \in Slot :
        state[h].lock = s <=> run[s].at = "call" /\ run[s].h = h

\* The inductive invariant, with the type invariant: what UCX may still call is
\* retained, although its id may have another handler by now.
IndInv ==
    /\ TypeOK
    /\ \A s \in Slot : RunShape(s)
    /\ RegShape
    /\ RetainedLive
    /\ CalledLive
    /\ LockShape
    /\ NoFreedHandler

----------------------------------------------------------------------------
(* What comments and documentation say, checked against the code.          *)

\* am_trampoline: "A panic poisons the mutex. Do not invoke a possibly
\* inconsistent handler again".
PanickedNotInvokedAgain == \A h \in Handler : ~state[h].again
=============================================================================
