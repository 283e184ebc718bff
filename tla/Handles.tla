------------------------------ MODULE Handles ------------------------------
(***************************************************************************)
(* What hangs on workers and endpoints besides requests: remote keys       *)
(* (rma/remote_key.rs), received stream data (stream.rs) and packed worker *)
(* addresses (worker/address.rs), composed with the workers and endpoints  *)
(* of Endpoints.                                                           *)
(*                                                                         *)
(* A RemoteKey borrows nothing and shares its worker's alive flag; compare *)
(* reads the flag, the other calls and the drop do not.  StreamData        *)
(* borrows its Ep, which borrows nothing; WorkerAddress borrows its        *)
(* Worker.                                                                 *)
(***************************************************************************)
EXTENDS Endpoints, UcxStatus, RkeyFraming

CONSTANTS
    Key,         \* variables for remote keys
    Wire,        \* buffers the program unpacks keys from
    DataAddr     \* addresses of stream data UCX hands out

ASSUME DataAddrAssumption ==
    DataAddr \subseteq {p \in Word : p > UCS_INPROGRESS /\ p < AsWord(UCS_ERR_LAST)}

VARIABLES
    key,      \* each remote key: the flag it refers to, its UCX worker
    sdata,    \* the stream data held of each endpoint
    addr,     \* whether a packed address of each worker is held
    bad       \* UCX calls on an object that UCX does not have

hvars == <<key, sdata, addr, bad>>

\* holds: the key holds a reference, as opposed to a mere pointer.
NoKey == [flag |-> Nil, holds |-> FALSE, worker |-> Nil]

KeyCall == {"compare", "unpack", "rkey_ptr", "rkey_destroy", "recv_data",
            "data_release", "address_release"}

\* The one type invariant of Endpoints and this module.
HandlesTypeOK ==
    /\ TypeOK
    /\ key \in [Key -> [flag : Flag \cup {Nil}, holds : BOOLEAN,
                        worker : Worker \cup {Nil}]]
    /\ sdata \in [Ep -> SUBSET Word]
    /\ addr \in [Worker -> BOOLEAN]
    /\ bad \subseteq KeyCall

HandlesInit ==
    /\ Init
    /\ key = [k \in Key |-> NoKey]
    /\ sdata = [e \in Ep |-> {}]
    /\ addr = [w \in Worker |-> FALSE]
    /\ bad = {}

Running == Idle /\ bad = {}

Needs(cond, fn) == bad' = IF cond THEN bad ELSE bad \cup {fn}

\* The worker a key was unpacked on is there.
KeyValid(k) == worker[key[k].worker] = "live"

----------------------------------------------------------------------------
(* Remote keys.                                                            *)

\* Mutant of UnpackedKey: the address of the flag instead of a reference.
UnpackedKeyPointer(e) ==
    [flag |-> ep[e].flag, holds |-> FALSE, worker |-> ep[e].worker]

\* The key RemoteKey::unpack makes, with a reference of its own to the flag.
UnpackedKey(e) ==
    [flag |-> ep[e].flag, holds |-> TRUE, worker |-> ep[e].worker]

\* RemoteKey::unpack: a buffer that is no frame is refused before UCX sees it;
\* UCX may refuse the payload.
Unpack(k, e, buffer) ==
    /\ Running
    /\ key[k] = NoKey
    /\ ep[e].owned
    /\ IF ~UnframeRkeyPayload(buffer).ok THEN UNCHANGED <<key, bad>>
       ELSE /\ Needs(Valid(e), "unpack")
            /\ key' \in {key, [key EXCEPT ![k] = UnpackedKey(e)]}
    /\ UNCHANGED <<sdata, addr, vars>>

\* The deprecated ep_rkey_unpack: the caller vouches for the buffer.
EpRkeyUnpack(k, e) ==
    /\ Running
    /\ key[k] = NoKey
    /\ ep[e].owned
    /\ Needs(Valid(e), "unpack")
    /\ key' \in {key, [key EXCEPT ![k] = UnpackedKey(e)]}
    /\ UNCHANGED <<sdata, addr, vars>>

\* RemoteKey::rkey_ptr and the deprecated rkey_ptr: the flag is not read.
RkeyPtr(k) ==
    /\ Running
    /\ key[k] # NoKey
    /\ Needs(KeyValid(k), "rkey_ptr")
    /\ UNCHANGED <<key, sdata, addr, vars>>

\* RemoteKey::compare goes on to UCX: both flags up, one and the same flag
\* (Arc::ptr_eq), and the one of the worker w that is passed along.
ComparesAtUcx(k, l, w) ==
    /\ up[key[k].flag] /\ up[key[l].flag]
    /\ key[k].flag = key[l].flag
    /\ key[k].flag = flagOf[w]

Compare(k, l, w) ==
    /\ Running
    /\ key[k] # NoKey /\ key[l] # NoKey
    /\ worker[w] = "live"
    /\ Needs(ComparesAtUcx(k, l, w) => {key[k].worker, key[l].worker} = {w},
             "compare")
    /\ UNCHANGED <<key, sdata, addr, vars>>

\* RemoteKey::drop: the flag is not read either.
KeyDrop(k) ==
    /\ Running
    /\ key[k] # NoKey
    /\ Needs(KeyValid(k), "rkey_destroy")
    /\ key' = [key EXCEPT ![k] = NoKey]
    /\ UNCHANGED <<sdata, addr, vars>>

----------------------------------------------------------------------------
(* Stream data and packed addresses.                                       *)

HeldData == UNION {sdata[e] : e \in Ep}

\* What ucp_stream_recv_data_nb returns: nothing, an error, or data that is
\* not in use.
RecvPtr == {UCS_OK, AsWord(UCS_ERR_IO_ERROR), AsWord(UCS_ERR_LAST)} \cup (DataAddr \ HeldData)

\* Mutant of ReceivedData: only null is told apart.
ReceivedDataUnchecked(ptr) == IF ptr = 0 THEN {} ELSE {ptr}

\* Mutant of ReceivedData: an address is kept as the signed status it would be.
ReceivedDataSigned(ptr) == IF ptr = 0 THEN {} ELSE {AsSigned(ptr)}

\* What Ep::stream_recv_data makes of it: Ok(None), Err, or the data.
ReceivedData(ptr) == IF ptr = 0 \/ StatusPtrIsErr(ptr) THEN {} ELSE {ptr}

StreamRecvData(e, ptr) ==
    /\ Running
    /\ ep[e].owned
    /\ Needs(Valid(e), "recv_data")
    /\ sdata' = [sdata EXCEPT ![e] = @ \cup ReceivedData(ptr)]
    /\ UNCHANGED <<key, addr, vars>>

\* StreamData::drop
StreamDataDrop(e, d) ==
    /\ Running
    /\ d \in sdata[e]
    /\ Needs(Valid(e) /\ d \in DataAddr, "data_release")
    /\ sdata' = [sdata EXCEPT ![e] = @ \ {d}]
    /\ UNCHANGED <<key, addr, vars>>

\* Worker::pack_address
PackAddress(w) ==
    /\ Running
    /\ worker[w] = "live"
    /\ ~addr[w]
    /\ addr' = [addr EXCEPT ![w] = TRUE]
    /\ UNCHANGED <<key, sdata, bad, vars>>

\* WorkerAddress::drop
WorkerAddressDrop(w) ==
    /\ Running
    /\ addr[w]
    /\ Needs(worker[w] = "live", "address_release")
    /\ addr' = [addr EXCEPT ![w] = FALSE]
    /\ UNCHANGED <<key, sdata, vars>>

----------------------------------------------------------------------------
(* Composition.                                                            *)

\* Mutant of EpReleasable: StreamData without its reference to the Ep.
EpReleasableAlways(e) == TRUE

\* The borrow checker: an Ep is not consumed or dropped while StreamData
\* borrows it; a Worker is not dropped while an address borrows it.
EpReleasable(e) == sdata[e] = {}
WorkerReleasable(w) == ~addr[w]

\* An Arc whose last reference is a key's is not freed.
KeyReferences(f) == \E k \in Key : key[k].holds /\ key[k].flag = f

EpStep ==
    /\ bad = {}
    /\ \/ \E e \in Ep :
             /\ EpReleasable(e)
             /\ \/ EpDrop(e) \/ EpDestroy(e) \/ EpDisconnectNb(e)
                \/ \E w \in Worker : EpClose(e, w)
       \/ \E e \in Ep :
             EpUse(e) \/ DropRequest(e) \/ \E w \in Worker : EpNew(e, w)
       \/ \E w \in Worker, f \in Flag : ~KeyReferences(f) /\ WorkerNew(w, f)
       \/ \E w \in Worker : Progress(w) \/ (WorkerReleasable(w) /\ WorkerDrop(w))
    /\ UNCHANGED hvars

HandleStep ==
    \/ \E k \in Key :
          \/ RkeyPtr(k) \/ KeyDrop(k)
          \/ \E e \in Ep : EpRkeyUnpack(k, e) \/ \E b \in Wire : Unpack(k, e, b)
          \/ \E l \in Key, w \in Worker : Compare(k, l, w)
    \/ \E e \in Ep : \/ \E ptr \in RecvPtr : StreamRecvData(e, ptr)
                     \/ \E d \in sdata[e] : StreamDataDrop(e, d)
    \/ \E w \in Worker : PackAddress(w) \/ WorkerAddressDrop(w)

HandlesNext == EpStep \/ HandleStep \/ (LoopStep /\ UNCHANGED hvars)

HandlesSpec == HandlesInit /\ [][HandlesNext]_<<vars, hvars>>

\* The loops run on the calling thread and do not block.
HandlesFairSpec == HandlesSpec /\ WF_<<vars, hvars>>(LoopStep /\ UNCHANGED hvars)

----------------------------------------------------------------------------
(* Properties.                                                             *)

NoForeignCompare == bad \cap {"compare", "address_release"} = {}

\* The calls that are guarded reach UCX with what UCX has, in whatever order
\* the program drops what it holds.  Ep::drop, destroy and disconnect_nb read
\* the flag: their endpoint is there.  RemoteKey::compare also tests
\* Arc::ptr_eq: both keys are the worker's that it is called with, although
\* other workers have come and gone and the addresses of their flags are used
\* again.  A WorkerAddress borrows its worker: it is there at the release.
GuardedCallsSound == NoDanglingEpCall /\ NoForeignCompare

KeyFlagTells ==
    \A k \in Key : key[k] # NoKey =>
        key[k].flag \in Flag /\ (up[key[k].flag] <=> ~Gone(key[k].worker))

\* The flag a reference leads to tells whether the holder's own worker is
\* there, in whatever order workers, endpoints and keys come and go, although
\* the addresses of flags are used again (Arc in Worker::new, Ep::new and
\* RemoteKey::unpack).
FlagsTell == FlagTells /\ KeyFlagTells

\* Some object of the program has outlived its worker.
Outlived ==
    \/ \E e \in Ep : ep[e].owned /\ worker[ep[e].worker] = "destroyed"
    \/ \E k \in Key : key[k] # NoKey /\ worker[key[k].worker] = "destroyed"
    \/ \E e \in Ep : req[e].by = "program" /\ worker[ep[e].worker] # "live"

\* A program that keeps THREADING.md's order, endpoints, their requests and keys
\* before their worker, makes no UCX call on an object that UCX does not have:
\* none of the calls that skip the flag (close, query, rkey_ptr, the drops of
\* RemoteKey, StreamData and of disconnect_nb's Request) goes wrong in any other
\* way.
DanglesOnlyOutlived == [][ub' # ub \/ bad' # bad => Outlived]_<<vars, hvars>>

\* Stream data is held of an endpoint that is still owned and that UCX has not
\* closed, as long as the worker is there; what is held is data, never a status
\* (StreamData's borrow, status_ptr_is_err in stream_recv_data).
StreamDataPinsEp ==
    \A e \in Ep : sdata[e] # {} =>
        /\ ep[e].owned
        /\ sdata[e] \subseteq DataAddr
        /\ ep[e].ucx = "open" \/ Gone(ep[e].worker)

----------------------------------------------------------------------------
(* The inductive invariant behind these properties.                        *)

\* The worker's drop has begun.
Dropping(w) == call.fn = "drop" /\ call.of = w

\* Where the thread is.
CallShape ==
    /\ call.fn = "none" => call = NoCall
    /\ call.fn # "none" => call.with \in Worker
    /\ call.fn = "drop" => call.of \in Worker /\ worker[call.of] = "live"
    /\ call.fn = "close" => call.of \in Ep
    /\ call.at = "destroy" => call.fn = "drop"

\* A worker that is there has a flag, its own, that is up until its drop.
FlagShape ==
    /\ \A w \in Worker : worker[w] = "live" <=> flagOf[w] \in Flag
    /\ \A w, v \in Worker : flagOf[w] \in Flag /\ flagOf[w] = flagOf[v] => w = v
    /\ \A w \in Worker : worker[w] = "live" => (up[flagOf[w]] <=> ~Dropping(w))

\* A reference to f that came from w: w's flag as long as w is there, then a
\* flag that is down and no worker's.
RefersTo(f, w) ==
    /\ f \in Flag
    /\ w \in Worker
    /\ \/ worker[w] = "live" /\ flagOf[w] = f
       \/ worker[w] = "destroyed" /\ ~up[f] /\ \A v \in Worker : flagOf[v] # f

\* What UCX has of an endpoint, and what the program has.
EpShape(e) ==
    /\ ep[e].owned => /\ RefersTo(ep[e].flag, ep[e].worker)
                      /\ ep[e].closes = 0
                      /\ worker[ep[e].worker] = "live" => ep[e].ucx = "open"
    /\ ~ep[e].owned => ep[e].ucx # "open"
    /\ ep[e].worker \in Worker /\ worker[ep[e].worker] = "destroyed"
          => ep[e].ucx # "open"
    /\ ep[e] = NoEp \/ ep[e].worker \in Worker
    /\ ep[e].owned \/ ep[e] = NoEp => req[e].status # "inflight"
    /\ ep[e].closes \in {0, 1}

KeyShape(k) ==
    key[k] # NoKey => key[k].holds /\ RefersTo(key[k].flag, key[k].worker)

DataShape(e) == sdata[e] # {} => ep[e].owned /\ sdata[e] \subseteq DataAddr

AddrShape(w) == addr[w] => worker[w] = "live" /\ ~Dropping(w)

\* The inductive invariant: the thread, the flags and every object are where
\* they have to be for one another.
HInv ==
    /\ HandlesTypeOK
    /\ CallShape
    /\ FlagShape
    /\ \A e \in Ep : EpShape(e)
    /\ \A e \in Ep : DataShape(e)
    /\ \A k \in Key : KeyShape(k)
    /\ \A w \in Worker : AddrShape(w)
    /\ GuardedCallsSound
=============================================================================
