------------------------------ MODULE Listener ------------------------------
(***************************************************************************)
(* A listener (listener.rs) and the life of the connection requests it     *)
(* delivers, up to the endpoint parameters that consume them               *)
(* (ep/params.rs, Worker::create_ep, Ep::new).                             *)
(*                                                                         *)
(* The program (process "main") creates the listener, keeps or gives up    *)
(* requests and drops everything; conn_trampoline (process "cb") runs when *)
(* UCX delivers a request.  The two interleave: Listener is Send, so that  *)
(* the worker may be progressed by another thread; a callback inside the   *)
(* program's own Worker::progress is the case where main takes no step.    *)
(* ListenerState is reference counted: the count and the life of the       *)
(* allocation are explicit.  A listener made from parameters has a raw     *)
(* callback of the program instead, whose requests (ConnRequest::from_raw) *)
(* have a ListenerState of their own, with no handle, and keep nothing     *)
(* alive.  After undefined behaviour the model stops.                      *)
(***************************************************************************)
EXTENDS Integers, FiniteSets

CONSTANTS
    Req,             \* connection requests UCX may deliver
    Nil,             \* no request
    KeepPastWorker   \* the program may keep requests after it drops the worker

ASSUME ListenerConstants ==
    /\ Nil \notin Req /\ IsFiniteSet(Req)
    /\ KeepPastWorker \in BOOLEAN

VARIABLES
    life,     \* the Listener value of the program
    raw,      \* it was made from parameters, with a raw callback
    handle,   \* ListenerState::handle is not 0
    refs,     \* strong count of the ListenerState Arc
    mem,      \* the ListenerState allocation
    ucxl,     \* the listener as UCX knows it
    dropping, \* where main and cb are in ListenerState::drop
    conn,     \* where the ConnRequest of each request is
    uses,     \* UCX calls that consumed each request
    cb,       \* the running conn_trampoline
    builder,  \* ep::ParamsBuilder: the raw pointer and the owned request
    params,   \* ep::Params built from it
    worker,   \* the worker is live
    ub        \* kinds of undefined behaviour met

vars == <<life, raw, handle, refs, mem, ucxl, dropping, conn, uses, cb, builder,
          params, worker, ub>>

Proc == {"main", "cb"}
Held == {"made", "kept", "builder", "params"}
NoParams == [set |-> FALSE, ptr |-> Nil, own |-> Nil]
NoCb == [at |-> "idle", req |-> Nil]

\* The one type invariant of the module.
TypeOK ==
    /\ life \in {"none", "ucx", "publish", "open", "dropped", "failed"}
    /\ {raw, handle} \subseteq BOOLEAN
    /\ refs \in 0 .. Cardinality(Req) + 2
    /\ mem \in {"none", "live", "freed"}
    /\ ucxl \in {"none", "live", "destroyed"}
    /\ dropping \in [Proc -> {"no", "load", "destroy", "free"}]
    /\ conn \in [Req -> {"none", "pending", "gone"} \cup Held]
    /\ uses \in [Req -> Nat]
    /\ cb \in [at : {"idle", "enter", "call", "end"}, req : Req \cup {Nil}]
    /\ {builder, params} \subseteq
          [set : BOOLEAN, ptr : Req \cup {Nil}, own : Req \cup {Nil}]
    /\ worker \in BOOLEAN
    /\ ub \subseteq {"dying state", "freed state", "dead worker", "null listener",
                     "null request", "spent request"}

Init ==
    /\ life = "none"
    /\ raw = FALSE
    /\ handle = FALSE
    /\ refs = 0
    /\ mem = "none"
    /\ ucxl = "none"
    /\ dropping = [p \in Proc |-> "no"]
    /\ conn = [r \in Req |-> "none"]
    /\ uses = [r \in Req |-> 0]
    /\ cb = NoCb
    /\ builder = NoParams
    /\ params = NoParams
    /\ worker = TRUE
    /\ ub = {}

----------------------------------------------------------------------------
(* The reference count.                                                    *)

\* p drops one Arc<ListenerState>; the last one starts ListenerState::drop.
DropRef(p) ==
    /\ refs' = refs - 1
    /\ dropping' = IF refs = 1 THEN [dropping EXCEPT ![p] = "load"] ELSE dropping

\* p drops a request, and with it the reference it has to the listener's
\* state; a request from_raw has a state of its own.
DropRequest(p) == IF raw THEN UNCHANGED <<refs, dropping>> ELSE DropRef(p)

\* The program can take its next step.
Main == ub = {} /\ dropping["main"] = "no"

----------------------------------------------------------------------------
(* Listener::create_with_params and Listener::create_with_conn_handler.    *)

\* The state is allocated when UCX has returned a handle.
CreateWithParams ==
    /\ Main /\ worker
    /\ life = "none"
    /\ raw' = TRUE
    /\ \/ /\ life' = "open"
          /\ handle' = TRUE
          /\ refs' = 1
          /\ mem' = "live"
          /\ ucxl' = "live"
       \/ /\ life' = "failed"
          /\ UNCHANGED <<handle, refs, mem, ucxl>>
    /\ UNCHANGED <<dropping, conn, uses, cb, builder, params, worker, ub>>

\* The state is allocated with handle 0 and its address passed to UCX.
Create ==
    /\ Main /\ worker
    /\ life = "none"
    /\ life' = "ucx"
    /\ refs' = 1
    /\ mem' = "live"
    /\ UNCHANGED <<raw, handle, ucxl, dropping, conn, uses, cb, builder, params,
                   worker, ub>>

\* ucp_listener_create returns; on an error the state is dropped.
CreateReturn ==
    /\ Main
    /\ life = "ucx"
    /\ \/ /\ life' = "publish"
          /\ ucxl' = "live"
          /\ UNCHANGED <<refs, dropping>>
       \/ /\ life' = "failed"
          /\ DropRef("main")
          /\ UNCHANGED ucxl
    /\ UNCHANGED <<raw, handle, mem, conn, uses, cb, builder, params, worker, ub>>

\* The handle is stored in the state.
Publish ==
    /\ Main
    /\ life = "publish"
    /\ handle' = TRUE
    /\ life' = "open"
    /\ UNCHANGED <<raw, refs, mem, ucxl, dropping, conn, uses, cb, builder, params,
                   worker, ub>>

\* What a call with the listener's handle finds.
ListenerUb ==
    (IF handle THEN {} ELSE {"null listener"})
        \cup (IF worker /\ ucxl = "live" THEN {} ELSE {"dead worker"})

\* Listener::query
ListenerQuery ==
    /\ Main
    /\ life = "open"
    /\ ub' = ub \cup ListenerUb
    /\ UNCHANGED <<life, raw, handle, refs, mem, ucxl, dropping, conn, uses, cb,
                   builder, params, worker>>

\* Listener::is_active
IsActive == handle

\* Dropping the Listener drops its Arc.
DropListener ==
    /\ Main
    /\ life = "open"
    /\ life' = "dropped"
    /\ DropRef("main")
    /\ UNCHANGED <<raw, handle, mem, ucxl, conn, uses, cb, builder, params, worker, ub>>

\* Worker::drop, after the Listener as THREADING.md asks; ucp_worker_destroy
\* waits for a running callback.
DropWorker ==
    /\ Main
    /\ worker
    /\ life \in {"none", "failed", "dropped"}
    /\ cb.at = "idle" /\ dropping["cb"] = "no"
    /\ ~KeepPastWorker => \A r \in Req : conn[r] \notin Held
    /\ worker' = FALSE
    /\ UNCHANGED <<life, raw, handle, refs, mem, ucxl, dropping, conn, uses, cb,
                   builder, params, ub>>

----------------------------------------------------------------------------
(* ListenerState::drop.                                                    *)

\* A handle that was never published is not destroyed.
DropLoad(p) ==
    /\ ub = {}
    /\ dropping[p] = "load"
    /\ dropping' = [dropping EXCEPT ![p] = IF handle THEN "destroy" ELSE "free"]
    /\ UNCHANGED <<life, raw, handle, refs, mem, ucxl, conn, uses, cb, builder,
                   params, worker, ub>>

\* Mutant of DropDestroy: the state is released without destroying the listener.
DropNoDestroy(p) ==
    /\ ub = {}
    /\ dropping[p] = "destroy"
    /\ handle' = FALSE
    /\ dropping' = [dropping EXCEPT ![p] = "free"]
    /\ UNCHANGED <<life, raw, refs, mem, ucxl, conn, uses, cb, builder, params,
                   worker, ub>>

\* ucp_listener_destroy waits for a callback that another thread is in; the
\* handle is reset.
DropDestroy(p) ==
    /\ ub = {}
    /\ dropping[p] = "destroy"
    /\ p = "cb" \/ cb.at = "idle"
    /\ ub' = IF worker /\ ucxl = "live" THEN ub ELSE ub \cup {"dead worker"}
    /\ ucxl' = "destroyed"
    /\ handle' = FALSE
    /\ dropping' = [dropping EXCEPT ![p] = "free"]
    /\ UNCHANGED <<life, raw, refs, mem, conn, uses, cb, builder, params, worker>>

\* The callback and the allocation are released.
DropFree(p) ==
    /\ ub = {}
    /\ dropping[p] = "free"
    /\ mem' = "freed"
    /\ dropping' = [dropping EXCEPT ![p] = "no"]
    /\ UNCHANGED <<life, raw, handle, refs, ucxl, conn, uses, cb, builder, params,
                   worker, ub>>

----------------------------------------------------------------------------
(* conn_trampoline.                                                        *)

\* A peer connects.
Arrive(r) ==
    /\ ub = {}
    /\ conn[r] = "none"
    /\ ucxl = "live"
    /\ conn' = [conn EXCEPT ![r] = "pending"]
    /\ UNCHANGED <<life, raw, handle, refs, mem, ucxl, dropping, uses, cb, builder,
                   params, worker, ub>>

\* UCX calls the trampoline, from the program's Worker::progress or on a
\* thread of its own; until ucp_listener_destroy, also when the last reference
\* is gone.
Deliver(r) ==
    /\ ub = {} /\ ~raw
    /\ conn[r] = "pending"
    /\ ucxl = "live" /\ worker
    /\ cb.at = "idle"
    /\ dropping["cb"] = "no"
    /\ cb' = [at |-> "enter", req |-> r]
    /\ UNCHANGED <<life, raw, handle, refs, mem, ucxl, dropping, conn, uses, builder,
                   params, worker, ub>>

\* A raw callback wraps the request and keeps it: ConnRequest::from_raw.
FromRaw(r) ==
    /\ ub = {} /\ raw
    /\ conn[r] = "pending"
    /\ ucxl = "live" /\ worker
    /\ conn' = [conn EXCEPT ![r] = "kept"]
    /\ UNCHANGED <<life, raw, handle, refs, mem, ucxl, dropping, uses, cb,
                   builder, params, worker, ub>>

\* n references are taken through arg.  Arc::increment_strong_count wants one
\* to exist: without it the state is being dropped, or freed.
TakeRefs(n) ==
    \/ /\ refs > 0
       /\ refs' = refs + n
       /\ conn' = [conn EXCEPT ![cb.req] = "made"]
       /\ cb' = [cb EXCEPT !.at = "call"]
       /\ UNCHANGED ub
    \/ /\ refs = 0
       /\ ub' = ub \cup {IF mem = "live" THEN "dying state" ELSE "freed state"}
       /\ UNCHANGED <<refs, conn, cb>>

\* Mutant of CbTake: the request borrows the listener's reference.
CbTakeNoIncrement ==
    /\ ub = {}
    /\ cb.at = "enter"
    /\ TakeRefs(1)
    /\ UNCHANGED <<life, raw, handle, mem, ucxl, dropping, uses, builder, params, worker>>

\* One reference for the ConnRequest, one for callback_state.
CbTake ==
    /\ ub = {}
    /\ cb.at = "enter"
    /\ TakeRefs(2)
    /\ UNCHANGED <<life, raw, handle, mem, ucxl, dropping, uses, builder, params, worker>>

\* The handler moves the request out,
CbKeep ==
    /\ ub = {}
    /\ cb.at = "call"
    /\ conn[cb.req] = "made"
    /\ conn' = [conn EXCEPT ![cb.req] = "kept"]
    /\ cb' = [cb EXCEPT !.at = "end"]
    /\ UNCHANGED <<life, raw, handle, refs, mem, ucxl, dropping, uses, builder,
                   params, worker, ub>>

\* Mutant of CbDrop: the request's reference is dropped twice.
CbDropTwice ==
    /\ ub = {}
    /\ cb.at = "call"
    /\ conn[cb.req] = "made"
    /\ conn' = [conn EXCEPT ![cb.req] = "gone"]
    /\ refs' = refs - 2
    /\ cb' = [cb EXCEPT !.at = "end"]
    /\ UNCHANGED <<life, raw, handle, mem, ucxl, dropping, uses, builder, params,
                   worker, ub>>

\* or drops it, by returning or by a panic that catch_unwind contains,
CbDrop ==
    /\ ub = {}
    /\ cb.at = "call"
    /\ conn[cb.req] = "made"
    /\ conn' = [conn EXCEPT ![cb.req] = "gone"]
    /\ refs' = refs - 1
    /\ cb' = [cb EXCEPT !.at = "end"]
    /\ UNCHANGED <<life, raw, handle, mem, ucxl, dropping, uses, builder, params,
                   worker, ub>>

\* and may drop the Listener while it runs.
CbDropListener ==
    /\ ub = {}
    /\ cb.at = "call"
    /\ life = "open"
    /\ life' = "dropped"
    /\ DropRef("cb")
    /\ UNCHANGED <<raw, handle, mem, ucxl, conn, uses, cb, builder, params, worker, ub>>

\* The trampoline's own reference is dropped and it returns to UCX.
CbEnd ==
    /\ ub = {}
    /\ cb.at = "end"
    /\ DropRef("cb")
    /\ cb' = NoCb
    /\ UNCHANGED <<life, raw, handle, mem, ucxl, conn, uses, builder, params, worker, ub>>

----------------------------------------------------------------------------
(* What becomes of a request.                                              *)

\* ucp_listener_reject consumes the request.
Reject(r) ==
    /\ uses' = [uses EXCEPT ![r] = @ + 1]
    /\ ub' = ub \cup ListenerUb

\* Mutant of RejectOwned: no test for an unpublished handle.
RejectOwnedUnchecked(r, p) ==
    /\ ub = {}
    /\ \/ p = "main" /\ Main /\ conn[r] = "kept" /\ UNCHANGED cb
       \/ p = "cb" /\ cb.at = "call" /\ cb.req = r /\ conn[r] = "made"
          /\ cb' = [cb EXCEPT !.at = "end"]
    /\ Reject(r)
    /\ conn' = [conn EXCEPT ![r] = "gone"]
    /\ DropRequest(p)
    /\ UNCHANGED <<life, raw, handle, mem, ucxl, builder, params, worker>>

\* ConnRequest::reject_owned, by the program or inside the handler: a handle
\* not yet published, or the missing one of a raw request, is an error.  The
\* request is dropped either way.
RejectOwned(r, p) ==
    /\ ub = {}
    /\ \/ p = "main" /\ Main /\ conn[r] = "kept" /\ UNCHANGED cb
       \/ p = "cb" /\ cb.at = "call" /\ cb.req = r /\ conn[r] = "made"
          /\ cb' = [cb EXCEPT !.at = "end"]
    /\ IF handle /\ ~raw THEN Reject(r) ELSE UNCHANGED <<uses, ub>>
    /\ conn' = [conn EXCEPT ![r] = "gone"]
    /\ DropRequest(p)
    /\ UNCHANGED <<life, raw, handle, mem, ucxl, builder, params, worker>>

\* Mutant of ListenerReject: the request is borrowed, not consumed.
ListenerRejectBorrows(r) ==
    /\ Main
    /\ life = "open"
    /\ conn[r] = "kept"
    /\ Reject(r)
    /\ UNCHANGED <<life, raw, handle, refs, mem, ucxl, dropping, conn, cb, builder,
                   params, worker>>

\* Listener::reject and ConnRequest::reject.
ListenerReject(r) ==
    /\ Main
    /\ life = "open"
    /\ conn[r] = "kept"
    /\ Reject(r)
    /\ conn' = [conn EXCEPT ![r] = "gone"]
    /\ DropRequest("main")
    /\ UNCHANGED <<life, raw, handle, mem, ucxl, cb, builder, params, worker>>

\* ConnRequest::query and conn_request_query
ConnRequestQuery(r) ==
    /\ ub = {}
    /\ \/ Main /\ conn[r] = "kept"
       \/ cb.at = "call" /\ cb.req = r /\ conn[r] = "made"
    /\ ub' = IF uses[r] = 0 THEN ub ELSE ub \cup {"spent request"}
    /\ UNCHANGED <<life, raw, handle, refs, mem, ucxl, dropping, conn, uses, cb,
                   builder, params, worker>>

\* Dropping a request answers nothing.
DropKept(r) ==
    /\ Main
    /\ conn[r] = "kept"
    /\ conn' = [conn EXCEPT ![r] = "gone"]
    /\ DropRequest("main")
    /\ UNCHANGED <<life, raw, handle, mem, ucxl, uses, cb, builder, params, worker, ub>>

\* ep::ParamsBuilder::conn_request; a request set before is dropped.
BuilderConnRequest(r) ==
    /\ Main
    /\ conn[r] = "kept"
    /\ builder' = [set |-> TRUE, ptr |-> r, own |-> r]
    /\ IF builder.own = Nil
       THEN /\ conn' = [conn EXCEPT ![r] = "builder"]
            /\ UNCHANGED <<refs, dropping>>
       ELSE /\ conn' = [conn EXCEPT ![r] = "builder", ![builder.own] = "gone"]
            /\ DropRequest("main")
    /\ UNCHANGED <<life, raw, handle, mem, ucxl, uses, cb, params, worker, ub>>

\* ep::ParamsBuilder::build: the request moves out of the builder, its raw
\* pointer is copied and stays; build may be called again.
Build ==
    /\ Main
    /\ builder.set /\ ~params.set
    /\ params' = builder
    /\ builder' = [builder EXCEPT !.own = Nil]
    /\ conn' = IF builder.own = Nil THEN conn
               ELSE [conn EXCEPT ![builder.own] = "params"]
    /\ UNCHANGED <<life, raw, handle, refs, mem, ucxl, dropping, uses, cb, worker, ub>>

\* ucp_ep_create consumes the request it is given; the Params are dropped.
Consume(r) ==
    /\ uses' = IF r = Nil THEN uses ELSE [uses EXCEPT ![r] = @ + 1]
    /\ IF params.own = Nil THEN UNCHANGED <<conn, refs, dropping>>
       ELSE /\ conn' = [conn EXCEPT ![params.own] = "gone"]
            /\ DropRequest("main")
    /\ params' = NoParams

\* Worker::create_ep: the pointer is taken again from the owned request.  Params
\* of a second build own none: UCX is told of a request and finds null.
CreateEp ==
    /\ Main /\ worker
    /\ params.set
    /\ ub' = IF params.own = Nil THEN ub \cup {"null request"} ELSE ub
    /\ Consume(params.own)
    /\ UNCHANGED <<life, raw, handle, mem, ucxl, cb, builder, worker>>

\* Ep::new: the pointer the builder wrote.
EpNew ==
    /\ Main /\ worker
    /\ params.set
    /\ Consume(params.ptr)
    /\ UNCHANGED <<life, raw, handle, mem, ucxl, cb, builder, worker, ub>>

\* The builder or the Params go out of scope with the request they own.
DropParams ==
    /\ Main
    /\ \/ /\ params.set /\ Consume(Nil) /\ UNCHANGED builder
       \/ /\ builder.set
          /\ builder' = NoParams
          /\ IF builder.own = Nil THEN UNCHANGED <<conn, refs, dropping>>
             ELSE /\ conn' = [conn EXCEPT ![builder.own] = "gone"]
                  /\ DropRequest("main")
          /\ UNCHANGED <<uses, params>>
    /\ UNCHANGED <<life, raw, handle, mem, ucxl, cb, worker, ub>>

----------------------------------------------------------------------------

Next ==
    \/ Create \/ CreateReturn \/ Publish \/ CreateWithParams
    \/ ListenerQuery \/ DropListener \/ DropWorker
    \/ \E p \in Proc : DropLoad(p) \/ DropDestroy(p) \/ DropFree(p)
    \/ CbTake \/ CbKeep \/ CbDrop \/ CbDropListener \/ CbEnd
    \/ Build \/ CreateEp \/ DropParams
    \/ \E r \in Req :
          \/ Arrive(r) \/ Deliver(r) \/ FromRaw(r) \/ ConnRequestQuery(r)
          \/ ListenerReject(r) \/ DropKept(r) \/ BuilderConnRequest(r)
          \/ \E p \in Proc : RejectOwned(r, p)

Spec == Init /\ [][Next]_vars

\* The same program, using Ep::new as well as Worker::create_ep.
EpNewSpec == Init /\ [][Next \/ EpNew]_vars

----------------------------------------------------------------------------
(* Properties.                                                             *)

\* The requests that keep the listener's state alive.
Keeping == {r \in Req : conn[r] \in Held /\ ~raw}

\* ListenerState's drop destroys the UCX listener before the allocation goes
\* (listener.rs:56), which is enough for this much: no trampoline finds the state
\* freed, or is inside it, or has left a request that refers to it.  One may find
\* a state that has no reference left (TrampolineArgRetained), but only while the
\* program's drop has not come to the end of ucp_listener_destroy: never when the
\* trampoline's own thread dropped the last reference.
StateOutlivesUsers ==
    /\ "freed state" \notin ub
    /\ "dying state" \in ub => dropping["main"] \in {"load", "destroy"}
    /\ mem = "freed" => cb.at = "idle" /\ Keeping = {}

\* conn_trampoline's SAFETY comment (listener.rs:93): arg points to a state that
\* the Listener or a request retains.  Not so when UCX enters the trampoline and
\* the last of them is dropped on another thread.
TrampolineArgRetained == ub \cap {"dying state", "freed state"} = {}

Owners ==
    Cardinality(Keeping)
        + (IF life \in {"ucx", "publish", "open"} THEN 1 ELSE 0)
        + (IF cb.at \in {"call", "end"} THEN 1 ELSE 0)

\* The strong count is the number of its owners: the Listener (or the function
\* creating it), the requests the program holds, and the running trampoline.
\* One too few frees the state early, one too many leaks it.
RefsExact == mem = "live" => refs = Owners

\* UCX's listener is destroyed exactly when its last owner is gone: never
\* under a Listener, to which is_active would say so, or under a request that
\* keeps it, and always afterwards.
DestroyedWithLastOwner ==
    /\ life = "open" => IsActive /\ ucxl = "live"
    /\ ucxl = "destroyed" => life = "dropped" /\ Keeping = {}
    /\ mem = "freed" /\ life = "dropped" => ucxl = "destroyed"

\* reject_owned never passes UCX a listener that was not published yet, or none
\* for a request that came from a raw callback; and no listener call is made
\* after the worker is destroyed, the one of the last owner's drop included.
ListenerCallsSound == ub \cap {"null listener", "dead worker"} = {}

\* A connection request is single use: rejected or accepted at most once, and
\* not queried afterwards.
SingleUse == "spent request" \notin ub /\ \A r \in Req : uses[r] <= 1

----------------------------------------------------------------------------
(* The inductive invariant behind these properties.                        *)

\* What there is of the listener in each stage of its life.
Phase ==
    /\ life = "none" => ~raw /\ ~handle /\ mem = "none" /\ ucxl = "none"
    /\ life = "ucx" => ~raw /\ ~handle /\ mem = "live" /\ ucxl = "none"
    /\ life = "publish" => ~raw /\ ~handle /\ mem = "live" /\ ucxl = "live"
    /\ life = "open" => handle /\ mem = "live" /\ ucxl = "live"
    /\ life = "failed" => ~handle /\ ucxl = "none"
    /\ life = "dropped" => /\ mem # "none"
                           /\ ucxl = IF handle THEN "live" ELSE "destroyed"
                           /\ handle \/ refs = 0
    /\ mem = "freed" => ~handle /\ life \in {"failed", "dropped"}

\* The count is that of the owners, and the last one has not left a state
\* behind that is not being dropped, once.
Counted ==
    /\ refs = Owners
    /\ mem # "live" => refs = 0
    /\ (\E p \in Proc : dropping[p] # "no") <=> mem = "live" /\ refs = 0
    /\ \A p, q \in Proc : dropping[p] # "no" /\ dropping[q] # "no" => p = q
    /\ \A p \in Proc : /\ dropping[p] = "destroy" => handle
                       /\ dropping[p] = "free" => ~handle

\* The running trampoline and its request: UCX's listener is there, and the
\* trampoline does not drop the state from within.
CbShape ==
    /\ cb.at # "idle" => cb.req \in Req /\ ~raw /\ ucxl = "live"
    /\ cb.at = "enter" => conn[cb.req] = "pending"
    /\ dropping["cb"] # "no" => cb.at = "idle"
    /\ \A r \in Req : conn[r] = "made" <=> cb.at = "call" /\ cb.req = r

\* The requests the builder and the parameters own.
ParamsShape ==
    /\ \A r \in Req : /\ conn[r] = "builder" <=> builder.own = r
                      /\ conn[r] = "params" <=> params.own = r
    /\ builder.own # Nil => builder.set
    /\ params.own # Nil => params.set

\* A request that was used is gone.
UsesShape ==
    \A r \in Req : uses[r] \in {0, 1} /\ (uses[r] = 1 => conn[r] = "gone")

\* The worker is dropped last, in a program that does not keep requests.
WorkerLast ==
    ~KeepPastWorker =>
        /\ "dead worker" \notin ub
        /\ ~worker => mem # "live" /\ \A r \in Req : conn[r] \notin Held

\* A trampoline finds the count at zero only inside the program's drop.
Dying ==
    "dying state" \in ub => /\ refs = 0 /\ ucxl = "live"
                            /\ dropping["main"] \in {"load", "destroy"}

\* The inductive invariant, with the type invariant: the count is exact, the
\* state is dropped once, and UCX's listener is there while a trampoline is.
IndInv ==
    /\ TypeOK
    /\ Phase
    /\ Counted
    /\ CbShape
    /\ ParamsShape
    /\ UsesShape
    /\ WorkerLast
    /\ Dying
    /\ ub \subseteq {"dead worker", "dying state", "null request"}
=============================================================================
