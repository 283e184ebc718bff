# A TLA+ model of ucx-rs

ucx-rs wraps UCX, a C communication library, in safe Rust types. What can go
wrong in such a crate is hardly in its arithmetic. It is in ownership: a request
freed twice or never, a buffer given back to the program while UCX still writes
it, a worker destroyed under an endpoint or a callback, a closure called from C
after it was dropped. The modules here model who owns what, through every call,
callback, loop and drop of the crate, and check that nothing is used after it is
gone.

Paths below are relative to the repository's `src/` directory; UCX itself
is external and is modelled by what the wrappers rely on (see *Assumptions about
UCX*).

## Inventory

| Part | State it keeps | Operations | Hard behaviour | Module |
|---|---|---|---|---|
| Status decoding (`status.rs`) | none | `status_ptr_is_err`, `status_from_ptr`, `status_ptr_to_result`, `status_to_result` | one machine word is an address, a status or null; boundary values | `UcxStatus` |
| Requests (`request.rs`) | a handle UCX must get back once | `check_finished`, `is_completed`, `test`, `cancel`, `Drop`, `from_raw` | double free, use after free, lost handles, queries that disagree | `Requests`, `RequestLife` |
| Tags, streams, RMA, atomics (`tag.rs`, `stream.rs`, `rma/`) | guards: a request with a borrow of its buffer | submissions, `into_inner`, the bounded loop in the guard's drop, `tag_recv_test` | the loop runs out of rounds; the wrong worker is progressed; receive information read too early | `Requests` |
| Worker (`worker/worker.rs`) | `alive`, `progressing`, `am_handlers` | `progress`, `wait_request`, `flush`, `create_ep`, `Drop` | messages arrive during the drop | `MtWorker`, `AmHandlers`, `Endpoints` |
| MtWorker (`worker/worker.rs`) | a worker behind `Arc<Mutex>` | all of `Worker`, `with_worker`, `Clone`, `Drop` | threads, poisoning, the last drop without the mutex | `MtWorker`, `SharedWorker` |
| Endpoints (`ep/mod.rs`) | UCX handle, the worker's `alive` flag | `new`, `destroy`, `disconnect_nb`, `close`, `Drop`, uses | teardown order; which worker a flag belongs to once its address is reused | `Endpoints`, `MtWorker` |
| Remote keys (`rma/remote_key.rs`) | UCX handle, the worker's `alive` flag | `pack`, `unpack`, `compare`, `rkey_ptr`, `Drop` | a drop that does not read the flag; a frame whose length is the sender's | `Handles`, `RkeyFraming`, `Memory` |
| Stream data, worker addresses (`stream.rs`, `worker/address.rs`) | a UCX buffer and a borrow of its owner | receive, pack, `Drop` | one word is data, nothing or an error | `Handles` |
| Endpoint parameters (`ep/params.rs`) | field mask, owned connection request | setters, `conn_request`, `build` | the builder used after `build` | `Listener` (`conn_request`), `Builders` |
| Listener (`listener.rs`) | `ListenerState`, shared with callbacks and requests | three ways to create, `conn_trampoline`, `from_raw`, queries, rejects, `Drop` | reference counting across a C callback | `Listener` |
| Active messages (`am.rs`) | closures retained by the worker | register, unregister, trampoline | reregistration under a message, panics, concurrent callbacks | `AmHandlers` |
| The other parameter builders (`context.rs`, `worker/params.rs`, `memh.rs`, `am.rs`, `listener.rs`, `request.rs`) | a C struct, its field mask, an owned name | setters, `name`, `build` | pointers into a builder that changes or goes away | `Builders` |
| Contexts, memory handles (`context.rs`, `config.rs`, `memh.rs`) | one UCX handle each; packed buffers | `new`, `map`, `map_slice`, `pack_memh`, `pack_rkey`, `Drop` | a context dropped under its handles; a packed buffer without an owner | `Memory`, `Builders` |
| Conversions (`dt.rs`, `thread_mode.rs`, `memory_type.rs`, `ep/attr.rs`) | none | thread modes, memory types, datatypes, socket addresses | byte order, shifts | `Conversions`, `Bytes` |
| Bindings (`bindings.rs`, `ffi.rs`) | none | generated | none | external |

How the parts interact: every submission in `tag.rs`, `stream.rs`, `rma/` and
`am.rs` ends in `status_ptr_to_result`; guards and `wait_request` call
`Worker::progress`, which runs UCX, which runs `am_trampoline` and
`conn_trampoline`; endpoints read the flag that `Worker::drop` clears; connection
requests share the listener's state and end in `ep::Params`.

What makes each part correct:
- requests: each goes back to UCX once; the buffer of an operation in flight
  stays borrowed;
- MtWorker: one thread at a time in the worker, none after it is destroyed, no
  call stuck;
- active messages: UCX never calls a freed closure, a closure runs once at a time;
- listener: the state lives exactly as long as its owners;
- endpoints: each is closed once, and never through a destroyed worker;
- keys, stream data, addresses: the guarded calls reach UCX with what UCX has,
  and the unguarded ones do in a program that drops things in the documented
  order;
- memory: a packed buffer has one owner, also on the error paths, and what was
  packed is what is unpacked;
- builders: UCX reads from the built parameters what the program set, whatever
  happens to the builder afterwards.

## Modules

`UcxStatus` holds the decoding of a `ucs_status_ptr_t` as operators on words of
`PtrMod` values: statuses are negative numbers wrapped into the word, as the
pointer casts do. `Requests` and `AmHandlers` extend it.

`Requests` is the core. `req` is a request as UCX sees it (phase, the buffer it
uses and whether it writes it, whether the program still has to free it), `own`
the program's variables that hold a `Request` or a guard, `call` the one bounded
loop the program is in. A submission is one action per API; its parameter `ret`
ranges over every word UCX may return, and the action applies
`StatusPtrToResult` to it. Guards borrow: `Borrowable` is the borrow checker's
rule for the buffers of guards. The loops are three actions each, so that UCX
completes operations between a check and the next round: `CompleteCheck` is
`TagRequest::complete` (aborts the process when out of rounds), `DrainCheck` the
stream and fetch guards (forgets the request), `WaitCheck` is
`Worker::wait_request`. `misuse` collects UCX calls on a word that is not a
request the program owns. Requests of UCX reuse addresses: an address is free
again as soon as UCX is done with it and the program has freed it.
`CheckFinished`, `Test`, `IsCompleted`, `TagRecvTest` and `StreamRecvTest` are
what the crate's queries answer about a status of UCX. The receive information
itself is not modelled, only whether it is read.

`RequestLife` is the abstract specification: the request at an address belongs
to UCX, to one object of the program, or to nobody (an orphan that UCX takes back
when it ends, or one lost for good). Its steps say what each kind of owner may do.
`ImplementsLife` in `Requests` instantiates it with an owner computed from `req`,
`own` and `call`; `RequestsRefinement` proves that `Requests` implements it.

`MtWorker` gives every thread a program counter (`pc`) over the locations of one
call; at a UCX location the thread is inside that call. `lock`, `poisoned`,
`progressing` and `alive` are the crate's fields. Handles are values owned by a
thread; dropping the last one runs `Worker::drop` on that thread, without the
mutex. Endpoints belong to a thread and use no mutex, as in the code. `InWorker`
leaves out the two UCX calls made without the mutex, the check of
`wait_request`, which names a request, and an endpoint's close: it is less than
`worker/worker.rs:123` says ("Every operation takes the internal mutex for its
duration").

`SharedWorker` is the abstract specification of a worker that threads share: one
of them at a time is in it, the one that gives it up says so before it enters it
for the last time, is the only one in it from then on, and destroys it. It knows
no mutex, handles or locations. `ImplementsShared` in `MtWorker` instantiates it
with the threads inside UCX calls and the `alive` flag.

`AmHandlers` splits registration in the UCX call and the push on `am_handlers`
that follows it, so that messages arrive in between. `table` is UCX's, `retained`
the worker's vector, and each `Slot` a callback in progress.

`Listener` counts the references of `ListenerState` and follows its `Drop` step
by step, with the trampoline as a second process, which UCX may enter as long as
its listener is there, also after the last reference has gone. A trampoline that
finds the count at zero is recorded in `ub` ("dying state", or "freed state") and
nothing more is modelled. `builder` and `params` carry a
request into an endpoint. A listener made from parameters (`raw`) has the
program's own callback, whose requests (`ConnRequest::from_raw`) have a state of
their own that keeps nothing alive.

`Endpoints` puts two workers and their endpoints on one thread and takes them
down in every order; the loops of `Ep::close` and `Worker::drop` are stepwise.
The alive flag is an allocation: an address is used again as soon as no `Worker`,
`Ep` or `RemoteKey` refers to it, so that a stale reference would be noticed.
`destroy`, `disconnect_nb` and `close` wrap the `Ep` in `ManuallyDrop` and so leak
its reference (`LeakedRef`): that address is never used again. A `disconnect_nb`
that fails and calls `ucp_ep_destroy` has the same effect as one that is over at
once, since both calls are made on the one thread. The `Request` of a pending
`disconnect_nb` may be dropped at any time; after its worker, the free is recorded
in `ub`.

`Handles` composes `Endpoints` with remote keys, stream data and worker
addresses. It adds two guards to the steps of `Endpoints`, both the borrow
checker's: an `Ep` is not consumed while `StreamData` borrows it, a `Worker` is
not dropped while a `WorkerAddress` does. `bad` and `ub` collect UCX calls on
something UCX does not have; after one, nothing more is modelled. `RkeyFraming`
is the wire format of a packed key, over the little-endian integers of `Bytes`.

`Builders` has one record per builder and per built `Params`: the mask, the
struct's fields, the owned `CString` and, as history, what the program asked for.
`mem` is the heap the names live in, with addresses that are given out again. A
setter is one action per builder type; fields that are set alike share one model
field. The kind of builder is chosen at the start, since builders of different
kinds share nothing. Setters store what `Conversions` makes of their argument
(thread modes, memory types as UCX's numbers), and `UcxReads` converts it back.
`Conversions` also has the socket addresses, on machines of either byte order, and
the datatypes.

`Memory` composes the packing builders with contexts, memory handles and the
buffers UCX packs handles and keys into.
`orderly` is a history variable: no context was dropped before its handles.

`MC*` modules declare the model values of the instances. Operators named
"Mutant of ..." are faulty versions of an operator, kept next to it to show that
the property they are paired with in `PROJECT.json` would notice.

Each of the modules that are proved about ends with its inductive invariant
(`IndInv`, `HInv`, `MemoryInv`), which contains its type invariant. The run of the
module checks it too: that it holds is cheap to find out there, that it is
inductive and holds for all constants is what the proofs add.

## Runs

Passing runs:

- `requests` (190071 states): two addresses, two variables, two workers, one
  buffer, two rounds. Two addresses and two variables let a request be freed and
  its address given out again while the other is in use; two workers let a loop
  progress the wrong one; one buffer makes every pair of operations compete for
  it. The error statuses are one from the middle and the last of UCX's range,
  the boundary of `status_ptr_is_err`. It shows `NoMisuse`, `InFlightBufferPinned`,
  `NoBufferRace`, `OneHolder`, that the queries tell one story (`QueriesAgree`),
  that every step is one of `RequestLife` (`ImplementsLife`), and `IndInv`, the
  invariant the proofs rest on, which contains the type invariant.
- `mt_worker` (183610 states): two threads, two handles, every operation, two
  calls of each thread and one round in the loops. It shows that
  SERIALIZED is respected (`OneThreadInWorker`) even by the drop that takes no
  lock, that a SINGLE worker never leaves its thread, that no panic but a
  closure's leaves a method, that every step is one of `SharedWorker`
  (`ImplementsShared`; among other things, the `alive` flag goes down before the
  drop's flush, not after), and that calls return (`CallsReturn`) unless some
  thread stays in `ucp_worker_wait` for ever.
- `am_handlers` (113024 states): two ids, two closures, two callbacks at once and
  four messages, enough for a message to be overtaken by a registration for its
  id, and for two messages to reach one closure at once.
- `listener` (4558 states up to symmetry): three requests, one more than can be
  set on a builder and built at once; both kinds of listener; callbacks at every
  point of the program's drops. `StateOutlivesUsers` says what survives the race
  that `listener_race` shows: no trampoline finds the state freed, because the
  UCX listener is destroyed before the allocation goes, and one that finds it
  without references does so before `ucp_listener_destroy` has returned.
- `endpoints` (841108 states): `Handles` with two endpoints and two keys on any of
  two workers, two addresses for flags, one datum, one round. Two of each let an
  object outlive its worker while the other is about to take over the flag's
  address. The buffers a key is unpacked from are a whole frame, an empty one, a
  truncated and an extended one and one too short for a length. It shows that the
  flags tell the truth (`FlagsTell`), that what is guarded is sound
  (`GuardedCallsSound`, `StreamDataPinsEp`), that an endpoint is given up once
  (`GivenUpOnce`), and that what is not guarded goes wrong only with an object
  that has outlived its worker (`DanglesOnlyOutlived`): the order `THREADING.md`
  asks for is enough.
- `builders` (198080 states up to symmetry): `Memory` with two builders of any
  kind (two, since `RequestParamBuilder` is `Copy`), one `Params` at a time, two
  names' worth of heap, two contexts, one memory handle, one packed buffer at a
  time, bytes of two values. `UcxReadsAsked` is the property of interest: it fails
  as soon as a pointer or a bit is written in the wrong one of the two structs
  `build` handles. It is about a struct's own fields: a name that an earlier
  `build` moved out is not asked for again (see below). `OneOwner` is about names
  and packed buffers on every error path, `PackedKeyUnpacks` about the two sides of the wire format,
  `OrderlyIsSafe` about contexts and registered buffers.

Runs whose property states a document or comment, and which TLC refutes:

- `requests_unclassified`: `tag_send_sync_nbx`, `tag_msg_recv_nb` and
  `am_recv_data_nbx` make a `Request` of whatever word UCX returned.
- `requests_tag_buffer`: `tag_send_sync` and `tag_msg_recv` leave the buffer
  unborrowed while the operation is in flight.
- `mt_worker_signal`: `MtWorker::signal` needs the mutex `MtWorker::wait` holds.
- `am_panicked`: a panic does not poison the closure's mutex, because
  `catch_unwind` is inside the guard's scope, so the closure is called again.
- `listener_race`: UCX has entered `conn_trampoline`, or enters it, while another
  thread drops the last `Listener` or request. The destructor is what tells UCX
  to stop, so the trampoline can find a count of zero and take a reference to a
  state that is about to be freed, where the comment at `listener.rs:93` says that
  `arg` is retained. `THREADING.md` does not exclude it: callbacks may run on UCX's
  own thread under `MULTI`.
- `listener_handle_reuse`: `ParamsBuilder::build` leaves the raw connection
  request behind, and `Ep::new` trusts it.

Smaller disagreements seen while modelling, without a run: `Request::test`
(`request.rs:135`) and `stream_recv_test` (`stream.rs:110`) report `Ok` for an
operation in flight, since `status_to_result` makes `UCS_INPROGRESS` a success,
against `request.rs:35` and `stream.rs:101`; the stream and fetch guards (`stream.rs:244`, `rma/remote_key.rs:89`) and `Ep::close` (`ep/mod.rs:206`)
call the request they leak in flight, but their loops do not check again after
the last round, so it may have completed; `am.rs:140` says one callback is
retained where all are; `MtWorker::wait_request` checks its request without the
mutex that `worker/worker.rs:123` says every operation holds; an endpoint's drop
loads `alive` and closes without excluding `Worker::drop` on another thread,
where `ep/mod.rs:105` says the call is skipped once the worker is destroyed
(`THREADING.md:120` asks the program for the right order); `MemHandle::query`
(`memh.rs:107`) leaves the field mask of its zeroed attributes empty, so UCX fills
in nothing; `pack_rkey` and `RemoteKey::pack` take a context that nothing compares
with the memory handle's own (the fault "foreign" of `Memory`); `Ep::drop` takes a
failed close for a release of the endpoint, `disconnect_nb` (`ep/mod.rs:128`) for the
opposite; a builder built twice
keeps the bit of a name it no longer has, so UCX reads a null name, against the
comment at `context.rs:117`, and an endpoint builder built twice the bit of a
connection request it no longer has, so that `Worker::create_ep` passes a null one
("null request" in `Listener`); the typed functions of `rma/atomic.rs` store the
operand's datatype without its mask bit, so UCX does not read it.

`KeepPastWorker` of `Listener` names what the passing run assumes the program
does not do, following the order of `THREADING.md:120`. With
`KeepPastWorker = TRUE` a connection request kept longer than the worker
reaches a destroyed worker, and `ListenerCallsSound` fails.

### Bounds

`MaxProgress` and `MaxRounds` stand for the 1000000 rounds of the
loops: the loops test only whether rounds are left, so zero, the last and an
earlier round are the cases that differ. `MaxCalls` and `MaxSends` bound the
calls of a thread and the messages; without them the mutexes, which are not fair,
could starve a caller for ever. `PtrMod` replaces the 2^64 values of a word;
statuses take its top 100 values, addresses lie below them. `PtrMod` must exceed
256 so that both fit. `ByteMod` is the number of values of a byte, two in the
run, so that a key whose length just does not fit in four bytes has sixteen bytes.

### Fairness

- `MtWorker`: weak fairness on the steps of each thread's call; the operating
  system runs a runnable thread. Starting a call and network traffic are not fair.
- `AmHandlers`: weak fairness on running callbacks (closures are expected to
  return) and on the steps of `Worker::drop`.
- `Handles`: weak fairness on the loops of `Endpoints`, which run on the calling thread and do
  not block. UCX is never assumed to complete anything.

Deadlock is not checked: a program may stop when it has nothing left to do, and
every run reaches such states once its values are used up. What must go on is
stated as `CallsReturn`, `LastDropDestroys`, `CallbacksReturn`, `DropEnds` and
`LoopsEnd`.

## Proofs

All theorems hold for any values of the constants that satisfy the assumptions
named in the modules.

### Requests

`RequestsProofs` proves, for any sets of addresses, variables, buffers and
workers and any number of rounds, from the assumptions named in `UcxStatus` and
`Requests` (addresses are nonzero words below the error range and above
`UCS_INPROGRESS`, error statuses are those of the decoding table, and `Nil` is none
of the values):

- `DecodeRoundTrip`: a status that UCX returns in a word is classified as an
  error and decoded to itself;
- `TypeCorrect`, `NeverMisused`, `BuffersPinned`, `SingleHolder`,
  `BuffersDoNotRace`, `QueriesTellOneStory`: `TypeOK`, `NoMisuse`,
  `InFlightBufferPinned`, `OneHolder`, `NoBufferRace` and `QueriesAgree` are
  invariants.

None of them is inductive. That a free is legitimate depends on the handle in the
variable being live; that it stays live depends on no other variable holding
it; and that a loop may free what it took out of a guard depends on the guard
having been emptied. `IndInv` says this: `CallShape` ties the running loop to the
variable it works on, `HandlesMatch` says every handle is live and is the request
its wrapper was made for, `HandlesDistinct` that no two places hold the same
handle, `UnheldShape` what requests without a holder look like. `IndInvHolds`
proves it by one lemma per action; the other invariants follow from it, with the
exclusivity of borrows added for `NoBufferRace`.

`RequestsRefinement` proves `LifeImplemented`, `Spec => ImplementsLife`: initial
states map to initial states, and under `IndInv` every action maps to one of
`RequestLife` or to a stutter, by one lemma per action.

### Handles

`HandlesProofs` is about any number of workers, endpoints, flags, keys, stream data
and rounds, from `EndpointsAssumption`, `PtrModAssumption` and
`DataAddrAssumption` (data lies where addresses do). The inductive invariant
`HInv` (`HInvHolds`), which contains the type invariant, says what a reference to a flag is good for: `RefersTo(f, w)`,
f is the flag of w while w is there, and afterwards a flag that is down and no
worker's. `FlagShape` says that workers have flags of their own, up until the drop
begins; `EpShape`, `KeyShape` and `DataShape` that whatever is owned refers to its
own worker and, while that worker is there, is open. It is needed because a stale
flag is harmful only two steps later, when its address belongs to another worker.
From it:

- `FlagsAreTrue`, `GuardsSuffice`, `EpGivenUpOnce`, `StreamDataPinned`: the
  invariants `FlagsTell`, `GuardedCallsSound`, `GivenUpOnce` and
  `StreamDataPinsEp` of the run;
- `OnlyOutlivedDangle`, `CloseNeverFreesInFlight`: the action properties
  `DanglesOnlyOutlived` and `CloseFreesFinished`;
- `EndpointsImplemented`: `HandlesSpec => Spec`, the composition is a behaviour of
  `Endpoints`, so that what holds of endpoints alone holds among keys and data.

### MtWorker

`MtWorkerProofs` is about any number of threads, handles, calls and rounds and any
subset of the operations, from `ThreadAssumption`, `OpsAssumption` and
`BoundsAssumption`. That one thread is in the worker is not inductive: it
follows from the mutex for methods, but the drop of the last handle takes none.
`IndInv` therefore says when a thread is inside (`Guarded`: the mutex is held by
exactly the thread between its acquire and its release, and `ProgressGuard`'s flag
is up exactly while it is in `ucp_worker_progress`), and that a thread that has the
worker to itself, in `new` or in the drop, is the only one, with no handle left
through which a call could be made (`Owned`); `CallShape` ties a call to the
locations it can be at, `Announced` the `alive` flag to the progress of the drop,
`AtHome` SINGLE workers to their creator. `IndInvHolds` has one lemma per action.
From it:

- `WorkerSerialized`, `WorkerOutlivesCalls`, `MethodsDoNotPanic`: the invariants
  `OneThreadInWorker`, `NoUseAfterDestroy` and `OnlyClosuresPanic`;
- `SharedImplemented`: `Spec => ImplementsShared`, one lemma per action again.

### Active messages

`AmHandlersProofs` is about any ids, closures, concurrent callbacks and number of
messages, from `AmAssumption`. UCX may call a closure that its id no longer
belongs to, when a message was overtaken by a registration; that it is still
allocated is not visible in `table`. `IndInv` says that the allocated closures
are those the worker retains and the one about to be retained (`RetainedLive`),
that everything in UCX's table or in a running callback is allocated until the
worker is gone (`CalledLive`), and who holds a closure's mutex (`LockShape`).

- `NoClosureUsedFreed`, `ClosuresExclusive`: the invariants `NoFreedHandler` and
  `ClosureExclusive`;
- `NoClosureLeaks`: when the worker is gone, no closure is allocated.

### Listener

`ListenerProofs` is about any finite set of requests (`ListenerConstants`; the
count of references is a cardinality), the race of `listener_race` included. The
theorems are about `Spec`, whose requests end in `Worker::create_ep`: `Ep::new`
breaks `SingleUse` (run `listener_handle_reuse`).

`IndInv` follows the listener through the stages of its life (`Phase`), says that
the count is that of the owners and that exactly one of the program and the
trampoline is dropping a state whose count is zero (`Counted`), that UCX's listener
is there while a trampoline runs and that a trampoline which drops the last
reference has left its state (`CbShape`), that a count of zero is met only while the
program's drop has not come through `ucp_listener_destroy` (`Dying`), and where a
request is (`ParamsShape`, `UsesShape`). The count alone would not do:
`ListenerState::drop` takes several steps, and between them the state is there
without an owner, perhaps with a trampoline at its door.

- `StateOutlives`, `CountExact`, `LastOwnerDestroys`, `UsedOnce`: the invariants
  `StateOutlivesUsers`, `RefsExact`, `DestroyedWithLastOwner` and `SingleUse`;
- `ListenerCallsMeetLive`: `ListenerCallsSound`, of a program that also drops its
  requests before the worker (`KeepPastWorker = FALSE`).

### Conversions

`ConversionsProofs` is about bytes of any number of values above one, so in
particular about 256, where the runs have two, and needs no invariant:

- `UnframingUndoesFraming`, `OnlyFramesUnframed`: on every sequence of bytes,
  of any length, `unframe_rkey_payload` undoes `frame_rkey_payload`, and takes
  apart nothing else;
- `AddressesSurvive`: `SocketAddrsSurvive`, socket addresses and ports survive on
  machines of either byte order;
- `ContigSizesSurvive`: `ContigExact`, every size that fits is read back from a
  contiguous datatype.

Below them are lemmas about division: four digits make a number below
`U32Mod`, and a number below `U32Mod` has one such sequence of digits.

### Builders and memory

`MemoryProofs` is about any number of builders, parameters, addresses of names,
contexts, memory handles and packed buffers, and any payloads, from
`NilAssumption` (`Nil` is no address, name or struct), `TextAssumption` (names are
none of the model's words "freed", "taken" and "unset") and `MemoryAssumption`
(what UCX packs is bytes, and `Nil` is no handle or buffer).

`UcxReadsAsked` is not inductive: what UCX reads depends on the heap the names
live in, and that a name is still there depends on nobody else having an owner's
right to free it. `BuildersInv` says of every struct that it holds what was
asked for, converted, and that its mask tells which fields were (`StructAsked`);
of its name, that the builder's struct does not point to it and the parameters' does
(`NameAsked`); and that names have one owner and owners have names (`NamesOwned`).
`MemoryInv` adds that packed buffers have one owner (`BuffersOwned`), that a packed
key is the frame of what UCX packed (`Framed`), and that in an orderly program
every handle's context is there (`ContextsOutlive`). `MemoryInvHolds` has one lemma
per action; all setters share one about `Stored`. From it:

- `ParametersFaithful`, `ContextAdmission`: `UcxReadsAsked` and `AdmissionExact`,
  with the round trips of thread modes and memory types;
- `OneOwnerEach`: `OneOwner`, cardinalities of the owners of an address;
- `OrderlyPrograms`: `OrderlyIsSafe`;
- `PackedKeysUnpack`, `ConversionsLossless`: `PackedKeyUnpacks` and
  `ConversionsExact`, by the theorems of `ConversionsProofs`.

`BuildersSound` states the part about builders of `Builders` alone.

### Only model-checked

Every invariant and action property of a passing run is a theorem. Liveness under
fairness (`CallsReturn`, `LastDropDestroys`, `CallbacksReturn`, `DropEnds`,
`LoopsEnd`) stays with TLC, since the prover does not do it. That the runs which
expect a violation find one is TLC's too.

## Assumptions about UCX

- An operation completes only inside `ucp_worker_progress` on its own worker,
  with any status. A returned word is null, an error, or a request address that
  is not in use.
- A request freed in flight stays with UCX until the operation completes.
- `ucp_worker_destroy` and `ucp_listener_destroy` return after callbacks running
  on other threads have returned. `ucp_worker_destroy` takes the worker's
  endpoints with it and no callback follows it.
- `ucp_ep_close_nbx` gives the endpoint up whatever it returns.
- UCX reads a parameter struct only inside the call it is passed to, and of it
  only the fields whose bits are set; it copies names.
- `ucp_worker_wait` returns only after an event on the worker.
- `ucp_stream_recv_data_nb` returns null, an error, or the address of data that is
  not in use; `ucp_rkey_pack` and `ucp_memh_pack` allocate a buffer only if they
  succeed.
- `ucp_worker_destroy` takes nothing of a remote key with it that
  `ucp_rkey_destroy` could still use: a call on a key of a destroyed worker counts
  as dangling.

## Not modelled

- What queries return (`ep/attr.rs` and `ep/perf.rs` apart from socket addresses,
  `Context`, worker, listener and memory attributes): one UCX call each that fills
  in a struct, without state in the crate. The calls themselves are uses of their
  handle in `Endpoints`, `Memory` and `Listener`.
- `request_query`, `request_alloc`, `tag_probe`, `stream_poll`, the raw stream
  receive and release, `rkey_destroy` of `rma/atomic.rs`: unsafe or deprecated
  calls whose contract leaves everything to the caller; `rkey_destroy` in
  particular leaves a key whose drop destroys it again.
- `tag_msg_recv` twice with one message handle: the handle's single use is UCX's
  contract.
- `Config`: a handle with one destructor. The print functions and the duplicated
  descriptor `with_file_stream` gives to a C stream.
- Generic datatypes, `dt_query`, the version functions.
- Workers that outlive their context: like memory handles, but `MtWorker` and
  `Endpoints` do not name contexts.
- `mem::forget` of a guard (`TagRequest`, `StreamRequest`, `FetchAmoRequest`,
  `MemHandleGuard`) or of `StreamData`: it is safe Rust and ends the borrow while
  UCX goes on using the buffer, so `InFlightBufferPinned`, `NoBufferRace` and
  `OrderlyIsSafe` are about programs that drop their guards.
- Plain requests that outlive their worker, other than that of `disconnect_nb`:
  `Requests` keeps its workers.
- The borrows of socket addresses in the endpoint and listener builders: the
  compiler checks them.
- The bindings: generated.
- A closure that re-enters its own `MtWorker`: forbidden at `worker/worker.rs:200`.
- A connection request dropped without an answer to the peer: no document
  promises one.

## Plan

Done first, because everything else uses it: request ownership (`UcxStatus`,
`Requests`), then sharing (`MtWorker`), the callbacks (`AmHandlers`, `Listener`),
teardown (`Endpoints`) and the parameter builders (`Builders`); then what hangs on
workers and contexts (`Handles`, `Memory`), the conversions, the abstract
specifications `RequestLife` and `SharedWorker` and their refinements, and proofs
about all of them.
Next:

1. An abstract specification of a shared object that is destroyed with its last
   owner, which `Listener` implements, and one of closures that are retained until
   the worker is gone, which `AmHandlers` does.
2. Workers that outlive their context, as an extension of `Memory`.
3. Guards that are forgotten (`mem::forget`), as a further escape in `Requests`.
