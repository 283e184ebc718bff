--------------------------- MODULE HandlesProofs ---------------------------
(***************************************************************************)
(* Proofs about Handles, and so about Endpoints: whatever the order in     *)
(* which workers, endpoints, remote keys and stream data come and go, and  *)
(* however many there are, the flags tell the truth, and nothing but an    *)
(* object that has outlived its worker dangles.                            *)
(***************************************************************************)
EXTENDS Handles, TLAPS

USE EndpointsAssumption

----------------------------------------------------------------------------
(* Facts the steps share.                                                  *)

\* Nothing exists at first.
LEMMA InitHInv == HandlesInit => HInv
  <1> SUFFICES ASSUME HandlesInit PROVE HInv
    OBVIOUS
  <1> USE DEF HandlesInit, Init, NoEp, NoReq, NoCall, NoKey
  <1>1. HandlesTypeOK
    BY DEF HandlesTypeOK, TypeOK
  <1>2. CallShape /\ FlagShape
    BY DEF CallShape, FlagShape
  <1>3. \A e \in Ep : EpShape(e) /\ DataShape(e)
    BY DEF EpShape, DataShape
  <1>4. (\A k \in Key : KeyShape(k)) /\ (\A w \in Worker : AddrShape(w))
    BY DEF KeyShape, AddrShape
  <1>5. GuardedCallsSound
    BY DEF GuardedCallsSound, NoDanglingEpCall, NoForeignCompare
  <1> QED BY <1>1, <1>2, <1>3, <1>4, <1>5 DEF HInv

\* The flag an owned endpoint refers to is up exactly if UCX has the endpoint;
\* between two calls of the program.
LEMMA OwnedFacts ==
    ASSUME HInv, Idle, NEW e \in Ep, ep[e].owned
    PROVE  /\ ep[e].worker \in Worker
           /\ Alive(e) <=> Valid(e)
           /\ ~Valid(e) => worker[ep[e].worker] = "destroyed" /\ ep[e].ucx # "open"
  BY DEF HInv, EpShape, RefersTo, Alive, Valid, FlagShape, Dropping, Idle, NoCall

\* UCX has the key unless the key's worker is destroyed.
LEMMA KeyFacts ==
    ASSUME HInv, NEW k \in Key, key[k] # NoKey
    PROVE  KeyValid(k) \/ worker[key[k].worker] = "destroyed"
  BY DEF HInv, KeyShape, RefersTo, KeyValid

\* Keys whose flag is up and is the flag of w are keys of w.
LEMMA CompareFacts ==
    ASSUME HInv, NEW k \in Key, NEW l \in Key, NEW w \in Worker,
           key[k] # NoKey, key[l] # NoKey, worker[w] = "live",
           ComparesAtUcx(k, l, w)
    PROVE  {key[k].worker, key[l].worker} = {w}
  <1>1. flagOf[w] \in Flag
    BY DEF HInv, FlagShape
  <1>2. ASSUME NEW m \in Key, key[m] # NoKey, up[key[m].flag],
               key[m].flag = flagOf[w]
        PROVE  key[m].worker = w
    BY <1>1, <1>2 DEF HInv, FlagShape, KeyShape, RefersTo
  <1> QED BY <1>2 DEF ComparesAtUcx

\* References survive a step that leaves workers and flags alone.
LEMMA RefersKept ==
    ASSUME UNCHANGED <<worker, flagOf, up>>
    PROVE  \A f, w : RefersTo(f, w) => RefersTo(f, w)'
  BY DEF RefersTo

----------------------------------------------------------------------------
(* Steps that leave workers, endpoints and the running call alone.         *)

\* What remains to be shown of such a step.
LEMMA HandlesOnly ==
    ASSUME HInv, UNCHANGED vars,
           HandlesTypeOK',
           \A e \in Ep : DataShape(e)',
           \A k \in Key : KeyShape(k)',
           \A w \in Worker : AddrShape(w)',
           NoForeignCompare'
    PROVE  HInv'
  <1> USE DEF vars
  <1>1. CallShape' /\ FlagShape'
    BY DEF HInv, CallShape, FlagShape, Dropping
  <1>2. \A e \in Ep : EpShape(e)'
    BY RefersKept DEF HInv, EpShape
  <1>3. GuardedCallsSound'
    BY DEF HInv, GuardedCallsSound, NoDanglingEpCall
  <1> QED BY <1>1, <1>2, <1>3 DEF HInv

\* A key comes or goes.
LEMMA KeyStep ==
    ASSUME HInv, UNCHANGED <<vars, sdata, addr>>, NEW k \in Key,
           NEW x \in [flag : Flag \cup {Nil}, holds : BOOLEAN,
                      worker : Worker \cup {Nil}],
           key' = [key EXCEPT ![k] = x],
           x # NoKey => x.holds /\ RefersTo(x.flag, x.worker),
           NEW fn \in KeyCall \ {"compare", "address_release"},
           bad' \in {bad, bad \cup {fn}}
    PROVE  HInv'
  <1> USE DEF vars
  <1>1. HandlesTypeOK'
    BY DEF HInv, HandlesTypeOK, TypeOK
  <1>2. \A l \in Key : KeyShape(l)'
    BY RefersKept DEF HInv, HandlesTypeOK, KeyShape
  <1>3. (\A e \in Ep : DataShape(e)') /\ (\A w \in Worker : AddrShape(w)')
    BY DEF HInv, DataShape, AddrShape, Dropping
  <1>4. NoForeignCompare'
    BY DEF HInv, GuardedCallsSound, NoForeignCompare
  <1> QED BY <1>1, <1>2, <1>3, <1>4, HandlesOnly

\* An owned endpoint's flag is a reference for the key.
LEMMA UnpackedKeyRefers ==
    ASSUME HInv, NEW e \in Ep, ep[e].owned
    PROVE  /\ UnpackedKey(e) \in [flag : Flag \cup {Nil}, holds : BOOLEAN,
                                  worker : Worker \cup {Nil}]
           /\ UnpackedKey(e).holds
           /\ RefersTo(UnpackedKey(e).flag, UnpackedKey(e).worker)
  <1>1. RefersTo(ep[e].flag, ep[e].worker)
    BY DEF HInv, EpShape
  <1> QED BY <1>1 DEF UnpackedKey, RefersTo

\* RemoteKey::unpack and ep_rkey_unpack, when UCX is called.
LEMMA UnpackStep ==
    ASSUME HInv, NEW k \in Key, NEW e \in Ep, ep[e].owned,
           UNCHANGED <<vars, sdata, addr>>,
           Needs(Valid(e), "unpack"),
           key' \in {key, [key EXCEPT ![k] = UnpackedKey(e)]}
    PROVE  HInv'
  <1> DEFINE x == IF key' = key THEN key[k] ELSE UnpackedKey(e)
  <1>1. key \in [Key -> [flag : Flag \cup {Nil}, holds : BOOLEAN,
                         worker : Worker \cup {Nil}]]
    BY DEF HInv, HandlesTypeOK
  <1>2. key' = [key EXCEPT ![k] = x]
    BY <1>1
  <1>3. /\ x \in [flag : Flag \cup {Nil}, holds : BOOLEAN, worker : Worker \cup {Nil}]
        /\ x # NoKey => x.holds /\ RefersTo(x.flag, x.worker)
    BY <1>1, UnpackedKeyRefers DEF HInv, KeyShape
  <1>4. "unpack" \in KeyCall \ {"compare", "address_release"}
    BY DEF KeyCall
  <1>5. bad' \in {bad, bad \cup {"unpack"}}
    BY DEF Needs
  <1> HIDE DEF x
  <1> QED BY <1>2, <1>3, <1>4, <1>5, KeyStep

\* RemoteKey::unpack: a buffer that is no frame changes nothing.
LEMMA UnpackPreserves ==
    ASSUME HInv, NEW k \in Key, NEW e \in Ep, NEW b \in Wire, Unpack(k, e, b)
    PROVE  HInv'
  <1>1. CASE ~UnframeRkeyPayload(b).ok
    <2>1. UNCHANGED <<vars, hvars>>
      BY <1>1 DEF Unpack, hvars
    <2>2. HandlesTypeOK' /\ NoForeignCompare'
      BY <2>1 DEF HInv, HandlesTypeOK, TypeOK, vars, hvars, GuardedCallsSound,
                  NoForeignCompare
    <2>3. /\ \A d \in Ep : DataShape(d)'
          /\ \A l \in Key : KeyShape(l)'
          /\ \A w \in Worker : AddrShape(w)'
      BY <2>1, RefersKept DEF HInv, DataShape, KeyShape, AddrShape, Dropping, vars, hvars
    <2> QED BY <2>1, <2>2, <2>3, HandlesOnly
  <1>2. CASE UnframeRkeyPayload(b).ok
    BY <1>2, UnpackStep DEF Unpack
  <1> QED BY <1>1, <1>2

\* The deprecated ep_rkey_unpack preserves the invariant.
LEMMA EpRkeyUnpackPreserves ==
    ASSUME HInv, NEW k \in Key, NEW e \in Ep, EpRkeyUnpack(k, e)
    PROVE  HInv'
  BY UnpackStep DEF EpRkeyUnpack

\* rkey_ptr may dangle, but changes no key.
LEMMA RkeyPtrPreserves ==
    ASSUME HInv, NEW k \in Key, RkeyPtr(k)
    PROVE  HInv'
  <1>1. /\ UNCHANGED <<vars, sdata, addr>>
        /\ key' = key
        /\ bad' \in {bad, bad \cup {"rkey_ptr"}}
    BY DEF RkeyPtr, Needs
  <1>2. /\ key[k] \in [flag : Flag \cup {Nil}, holds : BOOLEAN, worker : Worker \cup {Nil}]
        /\ key' = [key EXCEPT ![k] = key[k]]
        /\ key[k] # NoKey => key[k].holds /\ RefersTo(key[k].flag, key[k].worker)
    BY <1>1 DEF HInv, HandlesTypeOK, KeyShape
  <1>3. "rkey_ptr" \in KeyCall \ {"compare", "address_release"}
    BY DEF KeyCall
  <1> QED BY <1>1, <1>2, <1>3, KeyStep

\* RemoteKey::drop may dangle, but changes no other key.
LEMMA KeyDropPreserves ==
    ASSUME HInv, NEW k \in Key, KeyDrop(k)
    PROVE  HInv'
  <1>1. /\ UNCHANGED <<vars, sdata, addr>>
        /\ key' = [key EXCEPT ![k] = NoKey]
        /\ bad' \in {bad, bad \cup {"rkey_destroy"}}
    BY DEF KeyDrop, Needs
  <1>2. NoKey \in [flag : Flag \cup {Nil}, holds : BOOLEAN, worker : Worker \cup {Nil}]
    BY DEF NoKey
  <1>3. "rkey_destroy" \in KeyCall \ {"compare", "address_release"}
    BY DEF KeyCall
  <1> QED BY <1>1, <1>2, <1>3, KeyStep

\* compare asks UCX only about keys of its worker, so it adds nothing to bad.
LEMMA ComparePreserves ==
    ASSUME HInv, NEW k \in Key, NEW l \in Key, NEW w \in Worker, Compare(k, l, w)
    PROVE  HInv' /\ bad' = bad
  <1>1. bad' = bad
    BY CompareFacts DEF Compare, Needs
  <1>2. UNCHANGED <<vars, hvars>>
    BY <1>1 DEF Compare, hvars
  <1>3. HandlesTypeOK' /\ NoForeignCompare'
    BY <1>2 DEF HInv, HandlesTypeOK, TypeOK, vars, hvars, GuardedCallsSound,
                NoForeignCompare
  <1>4. /\ \A d \in Ep : DataShape(d)'
        /\ \A m \in Key : KeyShape(m)'
        /\ \A v \in Worker : AddrShape(v)'
    BY <1>2, RefersKept DEF HInv, DataShape, KeyShape, AddrShape, Dropping, vars, hvars
  <1> QED BY <1>1, <1>2, <1>3, <1>4, HandlesOnly

\* What stream_recv_data keeps of a returned word is data.
LEMMA ReceivedIsData ==
    ASSUME NEW ptr \in RecvPtr
    PROVE  ReceivedData(ptr) \subseteq DataAddr /\ ReceivedData(ptr) \subseteq Word
  <1> USE PtrModAssumption
  <1>1. CASE ptr = UCS_OK
    BY <1>1 DEF ReceivedData, UCS_OK
  <1>2. CASE ptr \in {AsWord(UCS_ERR_IO_ERROR), AsWord(UCS_ERR_LAST)}
    <2>1. StatusPtrIsErr(ptr)
      BY <1>2 DEF StatusPtrIsErr, AsWord, UCS_ERR_IO_ERROR, UCS_ERR_LAST
    <2> QED BY <2>1 DEF ReceivedData
  <1>3. CASE ptr \in DataAddr
    BY <1>3, DataAddrAssumption DEF ReceivedData
  <1> QED BY <1>1, <1>2, <1>3 DEF RecvPtr

\* Data is received or released.
LEMMA DataStep ==
    ASSUME HInv, UNCHANGED <<vars, key, addr>>, NEW e \in Ep, ep[e].owned,
           NEW D, D \subseteq DataAddr, D \subseteq Word,
           sdata' = [sdata EXCEPT ![e] = D],
           NEW fn \in KeyCall \ {"compare", "address_release"},
           bad' \in {bad, bad \cup {fn}}
    PROVE  HInv'
  <1> USE DEF vars
  <1>1. HandlesTypeOK'
    BY DEF HInv, HandlesTypeOK, TypeOK
  <1>2. \A d \in Ep : DataShape(d)'
    BY DEF HInv, HandlesTypeOK, DataShape
  <1>3. (\A k \in Key : KeyShape(k)') /\ (\A w \in Worker : AddrShape(w)')
    BY RefersKept DEF HInv, KeyShape, AddrShape, Dropping
  <1>4. NoForeignCompare'
    BY DEF HInv, GuardedCallsSound, NoForeignCompare
  <1> QED BY <1>1, <1>2, <1>3, <1>4, HandlesOnly

\* Ep::stream_recv_data preserves the invariant.
LEMMA StreamRecvDataPreserves ==
    ASSUME HInv, NEW e \in Ep, NEW ptr \in RecvPtr, StreamRecvData(e, ptr)
    PROVE  HInv'
  <1> DEFINE D == sdata[e] \cup ReceivedData(ptr)
  <1>1. D \subseteq DataAddr /\ D \subseteq Word
    BY ReceivedIsData DEF HInv, HandlesTypeOK, DataShape
  <1>2. /\ UNCHANGED <<vars, key, addr>> /\ ep[e].owned
        /\ sdata' = [sdata EXCEPT ![e] = D]
        /\ bad' \in {bad, bad \cup {"recv_data"}}
    BY DEF StreamRecvData, Needs
  <1>3. "recv_data" \in KeyCall \ {"compare", "address_release"}
    BY DEF KeyCall
  <1> HIDE DEF D
  <1> QED BY <1>1, <1>2, <1>3, DataStep

\* StreamData::drop preserves the invariant.
LEMMA StreamDataDropPreserves ==
    ASSUME HInv, NEW e \in Ep, NEW d \in sdata[e], StreamDataDrop(e, d)
    PROVE  HInv'
  <1> DEFINE D == sdata[e] \ {d}
  <1>1. D \subseteq DataAddr /\ D \subseteq Word /\ ep[e].owned
    BY DEF HInv, HandlesTypeOK, DataShape
  <1>2. /\ UNCHANGED <<vars, key, addr>>
        /\ sdata' = [sdata EXCEPT ![e] = D]
        /\ bad' \in {bad, bad \cup {"data_release"}}
    BY DEF StreamDataDrop, Needs
  <1>3. "data_release" \in KeyCall \ {"compare", "address_release"}
    BY DEF KeyCall
  <1> HIDE DEF D
  <1> QED BY <1>1, <1>2, <1>3, DataStep

\* An address is packed or released.
LEMMA AddrStep ==
    ASSUME HInv, UNCHANGED <<vars, key, sdata, bad>>, NEW w \in Worker,
           NEW b \in BOOLEAN, addr' = [addr EXCEPT ![w] = b],
           b => worker[w] = "live" /\ ~Dropping(w)
    PROVE  HInv'
  <1> USE DEF vars
  <1>1. HandlesTypeOK'
    BY DEF HInv, HandlesTypeOK, TypeOK
  <1>2. \A v \in Worker : AddrShape(v)'
    BY DEF HInv, HandlesTypeOK, AddrShape, Dropping
  <1>3. (\A k \in Key : KeyShape(k)') /\ (\A e \in Ep : DataShape(e)')
    BY RefersKept DEF HInv, KeyShape, DataShape
  <1>4. NoForeignCompare'
    BY DEF HInv, GuardedCallsSound, NoForeignCompare
  <1> QED BY <1>1, <1>2, <1>3, <1>4, HandlesOnly

\* pack_address preserves the invariant, and WorkerAddress::drop finds its
\* worker there.
LEMMA AddressPreserves ==
    ASSUME HInv, NEW w \in Worker, PackAddress(w) \/ WorkerAddressDrop(w)
    PROVE  HInv' /\ bad' = bad
  <1>1. CASE PackAddress(w)
    <2>1. ~Dropping(w)
      BY <1>1 DEF PackAddress, Running, Idle, NoCall, Dropping
    <2> QED BY <1>1, <2>1, AddrStep DEF PackAddress
  <1>2. CASE WorkerAddressDrop(w)
    <2>1. bad' = bad
      BY <1>2 DEF WorkerAddressDrop, Needs, HInv, AddrShape
    <2> QED BY <1>2, <2>1, AddrStep DEF WorkerAddressDrop
  <1> QED BY <1>1, <1>2

----------------------------------------------------------------------------
(* Steps of workers and endpoints.                                         *)

\* A step that leaves workers and flags alone and begins or ends no drop.
LEMMA EpOrCall ==
    ASSUME HInv, UNCHANGED <<worker, flagOf, up, hvars>>,
           TypeOK', CallShape',
           \A w \in Worker : Dropping(w)' <=> Dropping(w),
           \A e \in Ep : EpShape(e)',
           \A e \in Ep : sdata[e] # {} => ep'[e].owned,
           NoDanglingEpCall'
    PROVE  HInv'
  <1> USE DEF hvars
  <1>1. HandlesTypeOK'
    BY DEF HInv, HandlesTypeOK
  <1>2. FlagShape'
    BY DEF HInv, FlagShape
  <1>3. \A k \in Key : KeyShape(k)'
    BY RefersKept DEF HInv, KeyShape
  <1>4. (\A e \in Ep : DataShape(e)') /\ (\A w \in Worker : AddrShape(w)')
    BY DEF HInv, DataShape, AddrShape
  <1>5. GuardedCallsSound'
    BY DEF HInv, GuardedCallsSound, NoForeignCompare
  <1> QED BY <1>1, <1>2, <1>3, <1>4, <1>5 DEF HInv

\* The same, between two calls of the program.
LEMMA EpOnly ==
    ASSUME HInv, Idle, UNCHANGED <<worker, flagOf, up, hvars>>,
           TypeOK', CallShape', ~(call'.fn = "drop"),
           \A e \in Ep : EpShape(e)',
           \A e \in Ep : sdata[e] # {} => ep'[e].owned,
           NoDanglingEpCall'
    PROVE  HInv'
  <1>1. \A w \in Worker : Dropping(w)' <=> Dropping(w)
    BY DEF Dropping, Idle, NoCall
  <1> QED BY <1>1, EpOrCall

\* The Ep value goes: with a UCX call, or without one because the flag is down.
LEMMA EpEnd ==
    ASSUME HInv, Idle, NEW e \in Ep, ep[e].owned, EpReleasable(e),
           UNCHANGED <<worker, flagOf, up, hvars>>,
           NEW st \in {"closed", "closing"}, NEW ref \in {Nil, ep[e].flag},
           (GaveUp(e, st, ref) \/ (Skipped(e, ref) /\ ~Valid(e))),
           \/ req' = req
           \/ /\ GaveUp(e, st, ref)
              /\ \E by \in {"close", "program", "leaked"} :
                    req' = [req EXCEPT ![e] = [status |-> "inflight", by |-> by]],
           \/ call' = call
           \/ \E w \in Worker : call' = [fn |-> "close", of |-> e, with |-> w,
                                         at |-> "check", left |-> MaxRounds],
           NEW fn \in EpCall, ub' \in {ub, ub \cup {fn}},
           fn \in Flagged => ub' = ub
    PROVE  HInv'
  <1> DEFINE EpRec == [worker : Worker \cup {Nil}, owned : BOOLEAN,
                       flag : Flag \cup {Nil},
                       ucx : {"none", "open", "closing", "closed"},
                       closes : 0 .. 2]
             x == ep'[e]
  <1>1. /\ ep \in [Ep -> EpRec]
        /\ ref \in Flag \cup {Nil}
        /\ ep[e].closes = 0 /\ ep[e].worker \in Worker
        /\ ~Valid(e) => ep[e].ucx # "open"
    BY OwnedFacts DEF HInv, HandlesTypeOK, TypeOK, EpShape
  <1>2. /\ x \in EpRec
        /\ x.owned = FALSE
        /\ x.worker = ep[e].worker
        /\ x.closes \in {0, 1}
        /\ x.ucx # "open"
    <2>1. CASE GaveUp(e, st, ref)
      <3>1. x = [worker |-> ep[e].worker, owned |-> FALSE, flag |-> ref,
                 ucx |-> st, closes |-> 1]
        BY <1>1, <2>1 DEF GaveUp
      <3> QED BY <1>1, <3>1
    <2>2. CASE Skipped(e, ref) /\ ~Valid(e)
      <3>1. x = [ep[e] EXCEPT !.owned = FALSE, !.flag = ref]
        BY <1>1, <2>2 DEF Skipped
      <3>2. ep[e] \in EpRec
        BY <1>1
      <3> QED BY <1>1, <2>2, <3>1, <3>2
    <2> QED BY <2>1, <2>2
  <1>3. ep' = [ep EXCEPT ![e] = x]
    BY <1>1 DEF GaveUp, Skipped
  <1>4. TypeOK'
    <2>1. ep' \in [Ep -> EpRec]
      BY <1>1, <1>2, <1>3
    <2>2. req' \in [Ep -> [status : {"none", "inflight", "done", "failed"},
                           by : {"none", "close", "program", "leaked"}]]
      BY DEF HInv, HandlesTypeOK, TypeOK
    <2>3. call' \in [fn : {"none", "close", "drop"}, of : Worker \cup Ep \cup {Nil},
                     with : Worker \cup {Nil}, at : {"check", "progress", "destroy"},
                     left : 0 .. MaxRounds]
      BY DEF HInv, HandlesTypeOK, TypeOK
    <2> QED BY <2>1, <2>2, <2>3 DEF HInv, HandlesTypeOK, TypeOK
  <1>5. CallShape' /\ ~(call'.fn = "drop")
    BY DEF CallShape, Idle, NoCall
  <1>6. EpShape(e)'
    <2>1. x # NoEp
      BY <1>1, <1>2 DEF NoEp
    <2> QED BY <1>1, <1>2, <2>1 DEF EpShape
  <1>7. ASSUME NEW d \in Ep, d # e PROVE EpShape(d)'
    <2>1. ep'[d] = ep[d] /\ req'[d] = req[d]
      BY <1>1, <1>3, <1>7 DEF HInv, HandlesTypeOK, TypeOK
    <2> QED BY <2>1, RefersKept DEF HInv, EpShape
  <1>8. \A d \in Ep : sdata[d] # {} => ep'[d].owned
    BY <1>1, <1>3 DEF HInv, DataShape, EpReleasable
  <1>9. NoDanglingEpCall'
    BY DEF HInv, GuardedCallsSound, NoDanglingEpCall
  <1> QED BY <1>4, <1>5, <1>6, <1>7, <1>8, <1>9, EpOnly

\* Ep::drop, destroy and disconnect_nb reach UCX only if the flag is up, and
\* then UCX has the endpoint.
LEMMA EpDropPreserves ==
    ASSUME HInv, NEW e \in Ep, EpReleasable(e), EpDrop(e), UNCHANGED hvars
    PROVE  HInv' /\ ub' = ub
  <1> USE DEF EpDrop
  <1>0. Idle /\ ep[e].owned /\ UNCHANGED <<worker, flagOf, up, hvars>> /\ call' = call
    OBVIOUS
  <1>1. "drop" \in EpCall
    BY DEF EpCall
  <1>2. ub' = ub
    BY <1>0, OwnedFacts DEF Calls
  <1>3. CASE ~Alive(e)
    BY <1>0, <1>1, <1>2, <1>3, OwnedFacts, EpEnd
  <1>4. CASE Alive(e) /\ GaveUp(e, "closed", Nil) /\ UNCHANGED req
    BY <1>0, <1>1, <1>2, <1>4, EpEnd
  <1>5. CASE /\ GaveUp(e, "closing", Nil)
             /\ req' = [req EXCEPT ![e] = [status |-> "inflight", by |-> "leaked"]]
    BY <1>0, <1>1, <1>2, <1>5, EpEnd
  <1> QED BY <1>3, <1>4, <1>5, <1>2

\* Ep::destroy, likewise.
LEMMA EpDestroyPreserves ==
    ASSUME HInv, NEW e \in Ep, EpReleasable(e), EpDestroy(e), UNCHANGED hvars
    PROVE  HInv' /\ ub' = ub
  <1> USE DEF EpDestroy, LeakedRef
  <1>0. /\ Idle /\ ep[e].owned /\ UNCHANGED <<worker, flagOf, up, hvars>>
        /\ call' = call /\ req' = req
    OBVIOUS
  <1>1. "destroy" \in EpCall
    BY DEF EpCall
  <1>2. ub' = ub
    BY <1>0, OwnedFacts DEF Calls
  <1>3. CASE ~Alive(e)
    BY <1>0, <1>1, <1>2, <1>3, OwnedFacts, EpEnd
  <1>4. CASE Alive(e)
    BY <1>0, <1>1, <1>2, <1>4, EpEnd
  <1> QED BY <1>2, <1>3, <1>4

\* Ep::disconnect_nb, likewise.
LEMMA EpDisconnectNbPreserves ==
    ASSUME HInv, NEW e \in Ep, EpReleasable(e), EpDisconnectNb(e), UNCHANGED hvars
    PROVE  HInv' /\ ub' = ub
  <1> USE DEF EpDisconnectNb, LeakedRef
  <1>0. Idle /\ ep[e].owned /\ UNCHANGED <<worker, flagOf, up, hvars>> /\ call' = call
    OBVIOUS
  <1>1. "disconnect" \in EpCall
    BY DEF EpCall
  <1>2. ub' = ub
    BY <1>0, OwnedFacts DEF Calls
  <1>3. CASE ~Alive(e)
    BY <1>0, <1>1, <1>2, <1>3, OwnedFacts, EpEnd
  <1>4. CASE Alive(e) /\ GaveUp(e, "closed", LeakedRef(e)) /\ UNCHANGED req
    BY <1>0, <1>1, <1>2, <1>4, EpEnd
  <1>5. CASE /\ GaveUp(e, "closing", LeakedRef(e))
             /\ req' = [req EXCEPT ![e] = [status |-> "inflight", by |-> "program"]]
    BY <1>0, <1>1, <1>2, <1>5, EpEnd
  <1> QED BY <1>2, <1>3, <1>4, <1>5

\* Ep::close may dangle, but not spoil anything else.
LEMMA EpClosePreserves ==
    ASSUME HInv, NEW e \in Ep, NEW w \in Worker, EpReleasable(e), EpClose(e, w),
           UNCHANGED hvars
    PROVE  HInv'
  <1> USE DEF EpClose, LeakedRef
  <1>0. Idle /\ ep[e].owned /\ UNCHANGED <<worker, flagOf, up, hvars>>
    OBVIOUS
  <1>1. "close" \in EpCall /\ "close" \notin Flagged
    BY DEF EpCall, Flagged
  <1>2. ub' \in {ub, ub \cup {"close"}}
    BY DEF Calls
  <1>3. CASE GaveUp(e, "closed", LeakedRef(e)) /\ UNCHANGED <<req, call>>
    BY <1>0, <1>1, <1>2, <1>3, EpEnd
  <1>4. CASE /\ GaveUp(e, "closing", LeakedRef(e))
             /\ req' = [req EXCEPT ![e] = [status |-> "inflight", by |-> "close"]]
             /\ call' = [fn |-> "close", of |-> e, with |-> w, at |-> "check",
                         left |-> MaxRounds]
    BY <1>0, <1>1, <1>2, <1>4, EpEnd
  <1> QED BY <1>3, <1>4

\* Ep::query and the like may dangle.
LEMMA EpUsePreserves ==
    ASSUME HInv, NEW e \in Ep, EpUse(e), UNCHANGED hvars
    PROVE  HInv'
  <1> USE DEF EpUse
  <1>1. ub' \in {ub, ub \cup {"use"}}
    BY DEF Calls
  <1>2. TypeOK'
    BY <1>1 DEF HInv, HandlesTypeOK, TypeOK, EpCall
  <1>3. CallShape' /\ ~(call'.fn = "drop")
    BY DEF HInv, CallShape, Idle, NoCall
  <1>4. \A d \in Ep : EpShape(d)'
    BY RefersKept DEF HInv, EpShape
  <1>5. \A d \in Ep : sdata[d] # {} => ep'[d].owned
    BY DEF HInv, DataShape
  <1>6. NoDanglingEpCall'
    BY <1>1 DEF HInv, GuardedCallsSound, NoDanglingEpCall, Flagged
  <1> QED BY <1>2, <1>3, <1>4, <1>5, <1>6, EpOnly

\* Dropping the request of disconnect_nb preserves the invariant.
LEMMA DropRequestPreserves ==
    ASSUME HInv, NEW e \in Ep, DropRequest(e), UNCHANGED hvars
    PROVE  HInv'
  <1> USE DEF DropRequest
  <1>0. ub' \in {ub, ub \cup {"request_free"}}
    OBVIOUS
  <1>1. TypeOK'
    BY <1>0 DEF EpCall, HInv, HandlesTypeOK, TypeOK
  <1>2. CallShape' /\ ~(call'.fn = "drop")
    BY DEF HInv, CallShape, Idle, NoCall
  <1>3. \A d \in Ep : EpShape(d)'
    <2>1. \A d \in Ep : req'[d].status = req[d].status
      BY DEF HInv, HandlesTypeOK, TypeOK
    <2> QED BY <2>1, RefersKept DEF HInv, EpShape
  <1>4. \A d \in Ep : sdata[d] # {} => ep'[d].owned
    BY DEF HInv, DataShape
  <1>5. NoDanglingEpCall'
    BY <1>0 DEF HInv, GuardedCallsSound, NoDanglingEpCall, Flagged
  <1> QED BY <1>1, <1>2, <1>3, <1>4, <1>5, EpOnly

\* Ep::new takes its worker's flag.
LEMMA EpNewPreserves ==
    ASSUME HInv, NEW e \in Ep, NEW w \in Worker, EpNew(e, w), UNCHANGED hvars
    PROVE  HInv'
  <1> USE DEF EpNew
  <1>1. flagOf[w] \in Flag /\ RefersTo(flagOf[w], w)
    BY DEF HInv, FlagShape, RefersTo
  <1>2. TypeOK'
    BY <1>1 DEF HInv, HandlesTypeOK, TypeOK
  <1>3. CallShape' /\ ~(call'.fn = "drop")
    BY DEF HInv, CallShape, Idle, NoCall
  <1>4. EpShape(e)'
    <2>1. ep'[e] = [worker |-> w, owned |-> TRUE, flag |-> flagOf[w],
                    ucx |-> "open", closes |-> 0]
      BY DEF HInv, HandlesTypeOK, TypeOK
    <2>2. req[e].status # "inflight"
      BY DEF HInv, EpShape
    <2> QED BY <1>1, <2>1, <2>2, RefersKept DEF EpShape
  <1>5. ASSUME NEW d \in Ep, d # e PROVE EpShape(d)'
    <2>1. ep'[d] = ep[d]
      BY <1>5 DEF HInv, HandlesTypeOK, TypeOK
    <2> QED BY <2>1, RefersKept DEF HInv, EpShape
  <1>6. \A d \in Ep : sdata[d] # {} => ep'[d].owned
    BY DEF HInv, DataShape, HandlesTypeOK, TypeOK
  <1>7. NoDanglingEpCall'
    BY DEF HInv, GuardedCallsSound, NoDanglingEpCall
  <1> QED BY <1>2, <1>3, <1>4, <1>5, <1>6, <1>7, EpOnly

\* Progress closes endpoints whose close was in flight, none that is owned.
LEMMA ProgressFacts ==
    ASSUME HInv, NEW w, UcxProgress(w), UNCHANGED <<worker, flagOf, up>>
    PROVE  /\ ep' \in [Ep -> [worker : Worker \cup {Nil}, owned : BOOLEAN,
                              flag : Flag \cup {Nil},
                              ucx : {"none", "open", "closing", "closed"},
                              closes : 0 .. 2]]
           /\ req' \in [Ep -> [status : {"none", "inflight", "done", "failed"},
                               by : {"none", "close", "program", "leaked"}]]
           /\ \A e \in Ep : EpShape(e)'
           /\ \A e \in Ep : sdata[e] # {} => ep'[e].owned
  <1> DEFINE In == {e \in Ep : ep[e].worker = w /\ req[e].status = "inflight"}
  <1>0. PICK out \in [In -> {"inflight", "done", "failed"}] :
            /\ req' = [e \in Ep |-> IF e \in DOMAIN out
                                    THEN [req[e] EXCEPT !.status = out[e]]
                                    ELSE req[e]]
            /\ ep' = [e \in Ep |-> IF e \in DOMAIN out /\ out[e] # "inflight"
                                   THEN [ep[e] EXCEPT !.ucx = "closed"]
                                   ELSE ep[e]]
    BY Zenon DEF UcxProgress
  <1>1. /\ ep \in [Ep -> [worker : Worker \cup {Nil}, owned : BOOLEAN,
                          flag : Flag \cup {Nil},
                          ucx : {"none", "open", "closing", "closed"},
                          closes : 0 .. 2]]
        /\ req \in [Ep -> [status : {"none", "inflight", "done", "failed"},
                           by : {"none", "close", "program", "leaked"}]]
    BY DEF HInv, HandlesTypeOK, TypeOK
  <1>2. ASSUME NEW e \in Ep
        PROVE  /\ ep'[e] \in {ep[e], [ep[e] EXCEPT !.ucx = "closed"]}
               /\ ep'[e] # ep[e] => req[e].status = "inflight"
               /\ req'[e].status = "inflight" => req[e].status = "inflight"
    <2>1. DOMAIN out = In
      OBVIOUS
    <2>2. CASE e \in In
      BY <1>0, <1>1, <2>1, <2>2
    <2>3. CASE e \notin In
      BY <1>0, <1>1, <2>1, <2>3
    <2> QED BY <2>2, <2>3
  <1>3. ep' \in [Ep -> [worker : Worker \cup {Nil}, owned : BOOLEAN,
                        flag : Flag \cup {Nil},
                        ucx : {"none", "open", "closing", "closed"},
                        closes : 0 .. 2]]
    <2>1. ASSUME NEW e \in Ep
          PROVE  ep'[e] \in [worker : Worker \cup {Nil}, owned : BOOLEAN,
                             flag : Flag \cup {Nil},
                             ucx : {"none", "open", "closing", "closed"},
                             closes : 0 .. 2]
      BY <1>1, <1>2
    <2>2. ep' = [e \in Ep |-> ep'[e]]
      BY <1>0
    <2> QED BY <2>1, <2>2
  <1>4. req' \in [Ep -> [status : {"none", "inflight", "done", "failed"},
                         by : {"none", "close", "program", "leaked"}]]
    BY <1>0, <1>1
  <1>5. ASSUME NEW e \in Ep PROVE EpShape(e)'
    <2>1. CASE ep'[e] = ep[e]
      BY <1>2, <2>1, RefersKept DEF HInv, EpShape
    <2>2. CASE ep'[e] # ep[e]
      <3>1. ~ep[e].owned /\ ep[e].worker \in Worker /\ ep[e].closes \in {0, 1}
        BY <1>2, <2>2 DEF HInv, EpShape
      <3>2. /\ ~ep'[e].owned /\ ep'[e].worker = ep[e].worker
            /\ ep'[e].closes = ep[e].closes /\ ep'[e].ucx = "closed"
        BY <1>1, <1>2, <2>2, <3>1
      <3>3. ep'[e] # NoEp
        BY <3>2 DEF NoEp
      <3> QED BY <3>1, <3>2, <3>3 DEF EpShape
    <2> QED BY <2>1, <2>2
  <1>6. ASSUME NEW e \in Ep, sdata[e] # {} PROVE ep'[e].owned
    <2>1. ep[e].owned
      BY <1>6 DEF HInv, DataShape
    <2> QED BY <1>1, <1>2, <2>1
  <1> QED BY <1>3, <1>4, <1>5, <1>6

\* Worker::progress preserves the invariant.
LEMMA ProgressPreserves ==
    ASSUME HInv, NEW w \in Worker, Progress(w), UNCHANGED hvars
    PROVE  HInv'
  <1> USE DEF Progress
  <1>1. TypeOK'
    BY ProgressFacts DEF HInv, HandlesTypeOK, TypeOK
  <1>2. CallShape' /\ ~(call'.fn = "drop")
    BY DEF HInv, CallShape, Idle, NoCall
  <1>3. NoDanglingEpCall'
    BY DEF HInv, GuardedCallsSound, NoDanglingEpCall
  <1> QED BY <1>1, <1>2, <1>3, ProgressFacts, EpOnly

\* A round of a loop preserves the invariant.
LEMMA LoopProgressPreserves ==
    ASSUME HInv, LoopProgress, UNCHANGED hvars
    PROVE  HInv'
  <1> USE DEF LoopProgress
  <1>0. call' = [call EXCEPT !.at = "check"] /\ call.at = "progress"
    OBVIOUS
  <1>1. /\ call \in [fn : {"none", "close", "drop"}, of : Worker \cup Ep \cup {Nil},
                     with : Worker \cup {Nil}, at : {"check", "progress", "destroy"},
                     left : 0 .. MaxRounds]
        /\ call.fn # "none"
    BY <1>0 DEF HInv, HandlesTypeOK, TypeOK, CallShape, NoCall
  <1>2. /\ call'.fn = call.fn /\ call'.of = call.of /\ call'.with = call.with
        /\ call'.at = "check" /\ call'.left = call.left
    BY <1>0, <1>1
  <1>3. TypeOK'
    BY <1>0, <1>1, ProgressFacts DEF HInv, HandlesTypeOK, TypeOK
  <1>4. CallShape' /\ \A w \in Worker : Dropping(w)' <=> Dropping(w)
    BY <1>1, <1>2 DEF HInv, CallShape, Dropping
  <1>5. NoDanglingEpCall'
    BY DEF HInv, GuardedCallsSound, NoDanglingEpCall
  <1> QED BY <1>3, <1>4, <1>5, ProgressFacts, EpOrCall

\* The loop of Ep::close preserves the invariant.
LEMMA CloseCheckPreserves ==
    ASSUME HInv, CloseCheck, UNCHANGED hvars
    PROVE  HInv'
  <1> DEFINE e == call.of
  <1>0. /\ call.fn = "close" /\ call.at = "check" /\ e \in Ep
        /\ UNCHANGED <<worker, flagOf, up, ep, ub>>
    BY DEF CloseCheck, HInv, CallShape
  <1>1. /\ call \in [fn : {"none", "close", "drop"}, of : Worker \cup Ep \cup {Nil},
                     with : Worker \cup {Nil}, at : {"check", "progress", "destroy"},
                     left : 0 .. MaxRounds]
        /\ call.with \in Worker
        /\ req \in [Ep -> [status : {"none", "inflight", "done", "failed"},
                           by : {"none", "close", "program", "leaked"}]]
    BY <1>0 DEF HInv, HandlesTypeOK, TypeOK, CallShape
  <1>2. \/ call' = NoCall
        \/ call.left > 0 /\ call' = [call EXCEPT !.left = call.left - 1, !.at = "progress"]
    BY DEF CloseCheck
  <1>3. /\ call' \in [fn : {"none", "close", "drop"}, of : Worker \cup Ep \cup {Nil},
                      with : Worker \cup {Nil}, at : {"check", "progress", "destroy"},
                      left : 0 .. MaxRounds]
        /\ CallShape'
        /\ \A w \in Worker : Dropping(w)' <=> Dropping(w)
    <2>1. CASE call' = NoCall
      BY <1>0, <2>1 DEF CallShape, Dropping, NoCall
    <2>2. CASE /\ call.left > 0
               /\ call' = [call EXCEPT !.left = call.left - 1, !.at = "progress"]
      <3>1. call.left - 1 \in 0 .. MaxRounds
        BY <1>1, <2>2
      <3>2. /\ call'.fn = "close" /\ call'.of = call.of /\ call'.with = call.with
            /\ call'.at = "progress"
        BY <1>0, <1>1, <2>2
      <3>3. call' \in [fn : {"none", "close", "drop"}, of : Worker \cup Ep \cup {Nil},
                       with : Worker \cup {Nil},
                       at : {"check", "progress", "destroy"}, left : 0 .. MaxRounds]
        BY <1>1, <2>2, <3>1
      <3> QED BY <1>0, <1>1, <3>2, <3>3 DEF CallShape, Dropping
    <2> QED BY <1>2, <2>1, <2>2
  <1>4. /\ req' \in [Ep -> [status : {"none", "inflight", "done", "failed"},
                            by : {"none", "close", "program", "leaked"}]]
        /\ \A d \in Ep : req'[d].status = "inflight" => req[d].status = "inflight"
    <2>1. req' \in {req, [req EXCEPT ![e].by = "leaked"], [req EXCEPT ![e] = NoReq]}
      BY DEF CloseCheck, Leaked
    <2> QED BY <1>0, <1>1, <2>1 DEF NoReq
  <1>5. TypeOK'
    BY <1>0, <1>3, <1>4 DEF HInv, HandlesTypeOK, TypeOK
  <1>6. \A d \in Ep : EpShape(d)'
    BY <1>0, <1>4, RefersKept DEF HInv, EpShape
  <1>7. NoDanglingEpCall' /\ \A d \in Ep : sdata[d] # {} => ep'[d].owned
    BY <1>0 DEF HInv, GuardedCallsSound, NoDanglingEpCall, DataShape
  <1> QED BY <1>0, <1>3, <1>5, <1>6, <1>7, EpOrCall

\* The loop of Worker::drop preserves the invariant.
LEMMA WorkerDropCheckPreserves ==
    ASSUME HInv, WorkerDropCheck, UNCHANGED hvars
    PROVE  HInv'
  <1>0. /\ call.fn = "drop" /\ call.at = "check"
        /\ UNCHANGED <<worker, flagOf, up, ep, req, ub>>
    BY DEF WorkerDropCheck
  <1>1. call \in [fn : {"none", "close", "drop"}, of : Worker \cup Ep \cup {Nil},
                  with : Worker \cup {Nil}, at : {"check", "progress", "destroy"},
                  left : 0 .. MaxRounds]
    BY DEF HInv, HandlesTypeOK, TypeOK
  <1>2. \/ call' = [call EXCEPT !.at = "destroy"]
        \/ call.left > 0 /\ call' = [call EXCEPT !.left = call.left - 1, !.at = "progress"]
    BY DEF WorkerDropCheck
  <1>3. /\ call' \in [fn : {"none", "close", "drop"}, of : Worker \cup Ep \cup {Nil},
                      with : Worker \cup {Nil}, at : {"check", "progress", "destroy"},
                      left : 0 .. MaxRounds]
        /\ call'.fn = "drop" /\ call'.of = call.of /\ call'.with = call.with
    <2>1. CASE call' = [call EXCEPT !.at = "destroy"]
      BY <1>0, <1>1, <2>1
    <2>2. CASE /\ call.left > 0
               /\ call' = [call EXCEPT !.left = call.left - 1, !.at = "progress"]
      <3>1. call.left - 1 \in 0 .. MaxRounds
        BY <1>1, <2>2
      <3> QED BY <1>0, <1>1, <2>2, <3>1
    <2> QED BY <1>2, <2>1, <2>2
  <1>4. TypeOK'
    BY <1>0, <1>3 DEF HInv, HandlesTypeOK, TypeOK
  <1>5. CallShape' /\ \A w \in Worker : Dropping(w)' <=> Dropping(w)
    BY <1>0, <1>3 DEF HInv, CallShape, Dropping
  <1>6. \A d \in Ep : EpShape(d)'
    BY <1>0, RefersKept DEF HInv, EpShape
  <1>7. NoDanglingEpCall' /\ \A d \in Ep : sdata[d] # {} => ep'[d].owned
    BY <1>0 DEF HInv, GuardedCallsSound, NoDanglingEpCall, DataShape
  <1> QED BY <1>0, <1>4, <1>5, <1>6, <1>7, EpOrCall

\* A new worker's flag is one that nobody refers to.
LEMMA WorkerNewPreserves ==
    ASSUME HInv, NEW w \in Worker, NEW f \in Flag, ~KeyReferences(f),
           WorkerNew(w, f), UNCHANGED hvars
    PROVE  HInv'
  <1> USE DEF WorkerNew
  <1>0. /\ worker \in [Worker -> {"none", "live", "destroyed"}]
        /\ flagOf \in [Worker -> Flag \cup {Nil}]
        /\ up \in [Flag -> BOOLEAN]
    BY DEF HInv, HandlesTypeOK, TypeOK
  <1>1. HandlesTypeOK'
    BY <1>0 DEF HInv, HandlesTypeOK, TypeOK, hvars
  <1>2. CallShape'
    BY DEF HInv, CallShape, Idle, NoCall
  <1>3. FlagShape'
    BY <1>0 DEF HInv, FlagShape, Dropping, Idle, NoCall, Unreferenced
  <1>4. ASSUME NEW g, NEW v, RefersTo(g, v), g # f
        PROVE  RefersTo(g, v)'
    BY <1>0, <1>4 DEF RefersTo
  <1>5. ASSUME NEW e \in Ep PROVE EpShape(e)'
    <2>1. ep[e].owned => ep[e].flag # f
      BY DEF Unreferenced
    <2>2. ep[e].worker \in Worker => (worker'[ep[e].worker] = "destroyed"
                                        => worker[ep[e].worker] = "destroyed")
      BY <1>0
    <2>3. ep[e].owned => (worker'[ep[e].worker] = "live"
                             => worker[ep[e].worker] = "live")
      BY <1>0 DEF HInv, EpShape, RefersTo
    <2> QED BY <1>4, <2>1, <2>2, <2>3 DEF HInv, EpShape
  <1>6. \A k \in Key : KeyShape(k)'
    BY <1>4 DEF HInv, KeyShape, KeyReferences, hvars
  <1>7. (\A e \in Ep : DataShape(e)') /\ (\A v \in Worker : AddrShape(v)')
    BY <1>0 DEF HInv, DataShape, AddrShape, Dropping, hvars
  <1>8. GuardedCallsSound'
    BY DEF HInv, GuardedCallsSound, NoDanglingEpCall, NoForeignCompare, hvars
  <1> QED BY <1>1, <1>2, <1>3, <1>5, <1>6, <1>7, <1>8 DEF HInv

\* The drop of a worker takes its flag down, and no other.
LEMMA WorkerDropPreserves ==
    ASSUME HInv, NEW w \in Worker, WorkerReleasable(w), WorkerDrop(w),
           UNCHANGED hvars
    PROVE  HInv'
  <1> USE DEF WorkerDrop
  <1>0. /\ flagOf[w] \in Flag
        /\ up \in [Flag -> BOOLEAN]
        /\ call' = [fn |-> "drop", of |-> w, with |-> w, at |-> "check",
                    left |-> MaxRounds]
    BY DEF HInv, HandlesTypeOK, TypeOK, FlagShape
  <1>1. HandlesTypeOK'
    BY <1>0 DEF HInv, HandlesTypeOK, TypeOK, hvars
  <1>2. CallShape'
    BY <1>0 DEF CallShape
  <1>3. FlagShape'
    BY <1>0 DEF HInv, FlagShape, Dropping, Idle, NoCall
  <1>4. ASSUME NEW g, NEW v, RefersTo(g, v)
        PROVE  RefersTo(g, v)'
    BY <1>0, <1>4 DEF RefersTo
  <1>5. \A e \in Ep : EpShape(e)'
    BY <1>4 DEF HInv, EpShape
  <1>6. \A k \in Key : KeyShape(k)'
    BY <1>4 DEF HInv, KeyShape, hvars
  <1>7. (\A e \in Ep : DataShape(e)') /\ (\A v \in Worker : AddrShape(v)')
    BY <1>0 DEF HInv, DataShape, AddrShape, Dropping, WorkerReleasable, hvars
  <1>8. GuardedCallsSound'
    BY DEF HInv, GuardedCallsSound, NoDanglingEpCall, NoForeignCompare, hvars
  <1> QED BY <1>1, <1>2, <1>3, <1>5, <1>6, <1>7, <1>8 DEF HInv

\* When the worker is gone its flag stays down for those who refer to it.
LEMMA WorkerDestroyPreserves ==
    ASSUME HInv, WorkerDestroy, UNCHANGED hvars
    PROVE  HInv'
  <1> DEFINE w == call.of
  <1>0. /\ w \in Worker /\ worker[w] = "live" /\ Dropping(w)
        /\ flagOf[w] \in Flag /\ ~up[flagOf[w]]
        /\ worker \in [Worker -> {"none", "live", "destroyed"}]
        /\ flagOf \in [Worker -> Flag \cup {Nil}]
    BY DEF WorkerDestroy, HInv, HandlesTypeOK, TypeOK, CallShape, FlagShape, Dropping
  <1>1. /\ worker' = [worker EXCEPT ![w] = "destroyed"]
        /\ flagOf' = [flagOf EXCEPT ![w] = Nil]
        /\ ep' = [e \in Ep |-> IF ep[e].worker = w
                               THEN [ep[e] EXCEPT !.ucx = "closed"] ELSE ep[e]]
        /\ call' = NoCall
        /\ UNCHANGED <<up, req, ub>>
    BY DEF WorkerDestroy
  <1>2. \A v \in Worker : Dropping(v) <=> v = w
    BY <1>0 DEF Dropping
  <1>3. \A v \in Worker : ~Dropping(v)'
    BY <1>1 DEF Dropping, NoCall
  <1>ep. /\ ep \in [Ep -> [worker : Worker \cup {Nil}, owned : BOOLEAN,
                           flag : Flag \cup {Nil},
                           ucx : {"none", "open", "closing", "closed"},
                           closes : 0 .. 2]]
         /\ \A e \in Ep : ep'[e] = IF ep[e].worker = w
                                   THEN [ep[e] EXCEPT !.ucx = "closed"] ELSE ep[e]
    BY <1>1 DEF HInv, HandlesTypeOK, TypeOK
  <1> HIDE DEF w
  <1>4. HandlesTypeOK'
    <2>1. ASSUME NEW e \in Ep
          PROVE  ep'[e] \in [worker : Worker \cup {Nil}, owned : BOOLEAN,
                             flag : Flag \cup {Nil},
                             ucx : {"none", "open", "closing", "closed"},
                             closes : 0 .. 2]
      BY <1>ep
    <2>2. ep' = [e \in Ep |-> ep'[e]]
      BY <1>1
    <2>3. ep' \in [Ep -> [worker : Worker \cup {Nil}, owned : BOOLEAN,
                          flag : Flag \cup {Nil},
                          ucx : {"none", "open", "closing", "closed"},
                          closes : 0 .. 2]]
      BY <2>1, <2>2
    <2>4. NoCall \in [fn : {"none", "close", "drop"}, of : Worker \cup Ep \cup {Nil},
                      with : Worker \cup {Nil}, at : {"check", "progress", "destroy"},
                      left : 0 .. MaxRounds]
      BY DEF NoCall
    <2> QED BY <1>0, <1>1, <2>3, <2>4 DEF HInv, HandlesTypeOK, TypeOK, hvars
  <1>5. CallShape'
    BY <1>1 DEF CallShape, NoCall
  <1>6. FlagShape'
    BY <1>0, <1>1, <1>2, <1>3 DEF HInv, FlagShape
  <1>7. ASSUME NEW g, NEW v, RefersTo(g, v)
        PROVE  RefersTo(g, v)'
    <2>1. CASE v = w
      BY <1>0, <1>1, <1>7, <2>1 DEF RefersTo, HInv, FlagShape
    <2>2. CASE v # w
      BY <1>0, <1>1, <1>7, <2>2 DEF RefersTo
    <2> QED BY <2>1, <2>2
  <1>8. ASSUME NEW e \in Ep PROVE EpShape(e)'
    <2>1. EpShape(e) /\ req'[e] = req[e]
      BY <1>1 DEF HInv
    <2>2. CASE ep[e].worker = w
      <3>1. /\ ep'[e].owned = ep[e].owned /\ ep'[e].flag = ep[e].flag
            /\ ep'[e].worker = w /\ ep'[e].closes = ep[e].closes
            /\ ep'[e].ucx = "closed"
        BY <1>ep, <2>2
      <3>2. worker'[w] = "destroyed"
        BY <1>0, <1>1
      <3>3. ep'[e] # NoEp /\ ep[e] # NoEp
        BY <1>0, <2>2, <3>1 DEF NoEp
      <3> QED BY <1>0, <1>7, <2>1, <2>2, <3>1, <3>2, <3>3 DEF EpShape
    <2>3. CASE ep[e].worker # w
      <3>1. ep'[e] = ep[e]
        BY <1>ep, <2>3
      <3>2. ep[e].worker \in Worker => worker'[ep[e].worker] = worker[ep[e].worker]
        BY <1>0, <1>1, <2>3
      <3> QED BY <1>7, <2>1, <3>1, <3>2 DEF EpShape, RefersTo
    <2> QED BY <2>2, <2>3
  <1>9. \A k \in Key : KeyShape(k)'
    BY <1>7 DEF HInv, KeyShape, hvars
  <1>10. \A e \in Ep : DataShape(e)'
    <2>1. \A e \in Ep : ep'[e].owned = ep[e].owned
      BY <1>ep
    <2> QED BY <2>1 DEF HInv, DataShape, hvars
  <1>11. \A v \in Worker : AddrShape(v)'
    BY <1>0, <1>1, <1>2, <1>3 DEF HInv, AddrShape, hvars
  <1>12. GuardedCallsSound'
    BY <1>1 DEF HInv, GuardedCallsSound, NoDanglingEpCall, NoForeignCompare, hvars
  <1> QED BY <1>4, <1>5, <1>6, <1>8, <1>9, <1>10, <1>11, <1>12 DEF HInv

----------------------------------------------------------------------------
(* The theorems.                                                           *)

\* Every call on workers and endpoints preserves the invariant.
LEMMA EpStepPreserves == ASSUME HInv, EpStep PROVE HInv'
  <1>0. UNCHANGED hvars
    BY DEF EpStep
  <1>1. ASSUME NEW e \in Ep, EpReleasable(e),
               \/ EpDrop(e) \/ EpDestroy(e) \/ EpDisconnectNb(e)
               \/ \E w \in Worker : EpClose(e, w)
        PROVE  HInv'
    BY <1>0, <1>1, EpDropPreserves, EpDestroyPreserves, EpDisconnectNbPreserves,
       EpClosePreserves
  <1>2. ASSUME NEW e \in Ep, EpUse(e) \/ DropRequest(e) \/ \E w \in Worker : EpNew(e, w)
        PROVE  HInv'
    BY <1>0, <1>2, EpUsePreserves, DropRequestPreserves, EpNewPreserves
  <1>3. ASSUME NEW w \in Worker, NEW f \in Flag, ~KeyReferences(f), WorkerNew(w, f)
        PROVE  HInv'
    BY <1>0, <1>3, WorkerNewPreserves
  <1>4. ASSUME NEW w \in Worker, Progress(w) \/ (WorkerReleasable(w) /\ WorkerDrop(w))
        PROVE  HInv'
    BY <1>0, <1>4, ProgressPreserves, WorkerDropPreserves
  <1> QED BY <1>1, <1>2, <1>3, <1>4 DEF EpStep

\* Every call on keys, stream data and addresses does.
LEMMA HandleStepPreserves == ASSUME HInv, HandleStep PROVE HInv'
  <1>1. ASSUME NEW k \in Key,
               \/ RkeyPtr(k) \/ KeyDrop(k)
               \/ \E e \in Ep : EpRkeyUnpack(k, e) \/ \E b \in Wire : Unpack(k, e, b)
               \/ \E l \in Key, w \in Worker : Compare(k, l, w)
        PROVE  HInv'
    BY <1>1, RkeyPtrPreserves, KeyDropPreserves, EpRkeyUnpackPreserves,
       UnpackPreserves, ComparePreserves
  <1>2. ASSUME NEW e \in Ep, \/ \E ptr \in RecvPtr : StreamRecvData(e, ptr)
                             \/ \E d \in sdata[e] : StreamDataDrop(e, d)
        PROVE  HInv'
    BY <1>2, StreamRecvDataPreserves, StreamDataDropPreserves
  <1>3. ASSUME NEW w \in Worker, PackAddress(w) \/ WorkerAddressDrop(w)
        PROVE  HInv'
    BY <1>3, AddressPreserves
  <1> QED BY <1>1, <1>2, <1>3 DEF HandleStep

\* So does a step that changes nothing.
LEMMA StutterPreserves == ASSUME HInv, UNCHANGED <<vars, hvars>> PROVE HInv'
  <1>1. HandlesTypeOK' /\ NoForeignCompare'
    BY DEF HInv, HandlesTypeOK, TypeOK, vars, hvars, GuardedCallsSound,
           NoForeignCompare
  <1>2. /\ \A e \in Ep : DataShape(e)'
        /\ \A k \in Key : KeyShape(k)'
        /\ \A w \in Worker : AddrShape(w)'
    BY RefersKept DEF HInv, DataShape, KeyShape, AddrShape, Dropping, vars, hvars
  <1> QED BY <1>1, <1>2, HandlesOnly

\* The inductive invariant of workers, endpoints, keys, stream data and
\* addresses holds in every behaviour, for any number of each.
THEOREM HInvHolds == HandlesSpec => []HInv
  <1>1. HInv /\ [HandlesNext]_<<vars, hvars>> => HInv'
    <2> SUFFICES ASSUME HInv, [HandlesNext]_<<vars, hvars>> PROVE HInv'
      OBVIOUS
    <2>1. CASE EpStep
      BY <2>1, EpStepPreserves
    <2>2. CASE HandleStep
      BY <2>2, HandleStepPreserves
    <2>3. CASE LoopStep /\ UNCHANGED hvars
      BY <2>3, CloseCheckPreserves, LoopProgressPreserves, WorkerDropCheckPreserves,
         WorkerDestroyPreserves DEF LoopStep
    <2>4. CASE UNCHANGED <<vars, hvars>>
      BY <2>4, StutterPreserves
    <2> QED BY <2>1, <2>2, <2>3, <2>4 DEF HandlesNext
  <1> QED BY <1>1, InitHInv, PTL DEF HandlesSpec

\* The flag that a Worker, an Ep or a RemoteKey refers to tells whether its
\* own worker is there, for any number of workers and of reused addresses.
THEOREM FlagsAreTrue == HandlesSpec => []FlagsTell
  <1>1. HInv => FlagsTell
    <2> SUFFICES ASSUME HInv PROVE FlagsTell
      OBVIOUS
    <2>1. \A f, w : RefersTo(f, w) => f \in Flag /\ (up[f] <=> ~Gone(w))
      BY DEF HInv, RefersTo, FlagShape, Dropping, Gone, CallShape
    <2>2. FlagTells
      BY <2>1 DEF HInv, FlagShape, EpShape, FlagTells, Alive, Gone, Dropping
    <2>3. KeyFlagTells
      BY <2>1 DEF HInv, KeyShape, KeyFlagTells
    <2> QED BY <2>2, <2>3 DEF FlagsTell
  <1> QED BY <1>1, HInvHolds, PTL

\* Ep::drop, destroy and disconnect_nb, RemoteKey::compare and the release of
\* an address never reach UCX with something UCX does not have.
THEOREM GuardsSuffice == HandlesSpec => []GuardedCallsSound
  <1>1. HInv => GuardedCallsSound
    BY DEF HInv
  <1> QED BY <1>1, HInvHolds, PTL

\* An endpoint is given up to UCX at most once, and not forgotten.
THEOREM EpGivenUpOnce == HandlesSpec => []GivenUpOnce
  <1>1. HInv => GivenUpOnce
    BY DEF HInv, EpShape, GivenUpOnce
  <1> QED BY <1>1, HInvHolds, PTL

\* Stream data is data, held of an endpoint that UCX still has, unless the
\* worker is gone.
THEOREM StreamDataPinned == HandlesSpec => []StreamDataPinsEp
  <1>1. HInv => StreamDataPinsEp
    BY DEF HInv, DataShape, EpShape, RefersTo, StreamDataPinsEp, Gone
  <1> QED BY <1>1, HInvHolds, PTL

\* A UCX call on an object UCX does not have takes an object that has outlived
\* its worker.
THEOREM OnlyOutlivedDangle == HandlesSpec => DanglesOnlyOutlived
  <1>1. ASSUME HInv, Idle, NEW e \in Ep, ep[e].owned, ~Valid(e)
        PROVE  Outlived
    BY <1>1, OwnedFacts DEF Outlived
  <1>2. ASSUME HInv, NEW k \in Key, key[k] # NoKey, ~KeyValid(k)
        PROVE  Outlived
    BY <1>2, KeyFacts DEF Outlived
  <1>3. HInv /\ [HandlesNext]_<<vars, hvars>>
            => [ub' # ub \/ bad' # bad => Outlived]_<<vars, hvars>>
    <2> SUFFICES ASSUME HInv, [HandlesNext]_<<vars, hvars>>, ub' # ub \/ bad' # bad
                 PROVE  Outlived
      OBVIOUS
    <2>1. CASE EpStep
      <3>0. bad' = bad /\ ub' # ub
        BY <2>1 DEF EpStep, hvars
      <3>1. ASSUME NEW e \in Ep, EpReleasable(e),
                   \/ EpDrop(e) \/ EpDestroy(e) \/ EpDisconnectNb(e)
                   \/ \E w \in Worker : EpClose(e, w)
            PROVE  Outlived
        <4>1. Idle /\ ep[e].owned /\ ~Valid(e)
          BY <3>0, <3>1, OwnedFacts DEF EpDrop, EpDestroy, EpDisconnectNb, EpClose, Calls
        <4> QED BY <1>1, <4>1
      <3>2. ASSUME NEW e \in Ep,
                   EpUse(e) \/ DropRequest(e) \/ \E w \in Worker : EpNew(e, w)
            PROVE  Outlived
        <4>1. CASE DropRequest(e)
          BY <3>0, <4>1 DEF DropRequest, Outlived
        <4>2. CASE EpUse(e) \/ \E w \in Worker : EpNew(e, w)
          <5>1. Idle /\ ep[e].owned /\ ~Valid(e)
            BY <3>0, <4>2 DEF EpUse, EpNew, Calls
          <5> QED BY <1>1, <5>1
        <4> QED BY <3>2, <4>1, <4>2
      <3>3. ASSUME NEW w \in Worker,
                   \/ \E f \in Flag : WorkerNew(w, f)
                   \/ Progress(w) \/ WorkerDrop(w)
            PROVE  FALSE
        BY <3>0, <3>3 DEF WorkerNew, Progress, WorkerDrop
      <3> QED BY <2>1, <3>1, <3>2, <3>3 DEF EpStep
    <2>2. CASE HandleStep
      <3>0. ASSUME NEW k \in Key, \/ RkeyPtr(k) \/ KeyDrop(k)
            PROVE  Outlived
        <4>1. key[k] # NoKey /\ ~KeyValid(k)
          BY <3>0 DEF RkeyPtr, KeyDrop, Needs, vars
        <4> QED BY <1>2, <4>1
      <3>1. ASSUME NEW k \in Key, NEW e \in Ep,
                   EpRkeyUnpack(k, e) \/ \E b \in Wire : Unpack(k, e, b)
            PROVE  Outlived
        <4>1. Idle /\ ep[e].owned /\ ~Valid(e)
          BY <3>1 DEF EpRkeyUnpack, Unpack, Needs, vars, Running
        <4> QED BY <1>1, <4>1
      <3>2. ASSUME NEW k \in Key, NEW l \in Key, NEW w \in Worker, Compare(k, l, w)
            PROVE  FALSE
        BY <3>2, ComparePreserves DEF Compare, vars
      <3>3. ASSUME NEW e \in Ep, \/ \E ptr \in RecvPtr : StreamRecvData(e, ptr)
                                 \/ \E d \in sdata[e] : StreamDataDrop(e, d)
            PROVE  Outlived
        <4>1. Idle /\ ep[e].owned /\ ~Valid(e)
          BY <3>3 DEF StreamRecvData, StreamDataDrop, Needs, vars, Running, HInv,
                      DataShape
        <4> QED BY <1>1, <4>1
      <3>4. ASSUME NEW w \in Worker, PackAddress(w) \/ WorkerAddressDrop(w)
            PROVE  FALSE
        BY <3>4, AddressPreserves DEF PackAddress, WorkerAddressDrop, vars
      <3> QED BY <2>2, <3>0, <3>1, <3>2, <3>3, <3>4 DEF HandleStep
    <2>3. CASE LoopStep /\ UNCHANGED hvars
      BY <2>3 DEF LoopStep, CloseCheck, LoopProgress, WorkerDropCheck, WorkerDestroy,
                  hvars
    <2>4. CASE UNCHANGED <<vars, hvars>>
      BY <2>4 DEF vars, hvars
    <2> QED BY <2>1, <2>2, <2>3, <2>4 DEF HandlesNext
  <1> QED BY <1>3, HInvHolds, PTL DEF HandlesSpec, DanglesOnlyOutlived

\* Keys, stream data and addresses only restrict when endpoints and workers
\* may go: every behaviour of Handles is one of Endpoints.
THEOREM EndpointsImplemented == HandlesSpec => Spec
  <1>1. HandlesInit => Init
    BY DEF HandlesInit
  <1>2. [HandlesNext]_<<vars, hvars>> => [Next]_vars
    <2> SUFFICES ASSUME HandlesNext PROVE Next \/ UNCHANGED vars
      BY DEF vars
    <2>1. CASE EpStep
      BY <2>1 DEF EpStep, Next
    <2>2. CASE HandleStep
      BY <2>2 DEF HandleStep, RkeyPtr, KeyDrop, EpRkeyUnpack, Unpack, Compare,
                  StreamRecvData, StreamDataDrop, PackAddress, WorkerAddressDrop
    <2>3. CASE LoopStep /\ UNCHANGED hvars
      BY <2>3 DEF Next
    <2> QED BY <2>1, <2>2, <2>3 DEF HandlesNext
  <1> QED BY <1>1, <1>2, PTL DEF HandlesSpec, Spec

\* Ep::close frees its request only when the close is over.
THEOREM CloseNeverFreesInFlight == HandlesSpec => CloseFreesFinished
  <1> DEFINE Freed == \A e \in Ep : req[e].by = "close" /\ req'[e].by = "none"
                                      => req[e].status # "inflight"
  <1>1. HInv /\ [Next]_vars => [Freed]_vars
    <2> SUFFICES ASSUME HInv, Next PROVE Freed
      BY DEF vars
    <2>0. req \in [Ep -> [status : {"none", "inflight", "done", "failed"},
                          by : {"none", "close", "program", "leaked"}]]
      BY DEF HInv, HandlesTypeOK, TypeOK
    <2>1. ASSUME NEW e \in Ep, NEW by \in {"close", "program", "leaked"},
                 req' \in {req, [req EXCEPT ![e] = [status |-> "inflight", by |-> by]]}
          PROVE  Freed
      BY <2>0, <2>1
    <2>2. ASSUME NEW e \in Ep,
                 \/ EpDrop(e) \/ EpDestroy(e) \/ EpDisconnectNb(e) \/ EpUse(e)
                 \/ \E w \in Worker : EpNew(e, w) \/ EpClose(e, w)
          PROVE  Freed
      <3>1. \E by \in {"close", "program", "leaked"} :
                req' \in {req, [req EXCEPT ![e] = [status |-> "inflight", by |-> by]]}
        BY <2>2 DEF EpDrop, EpDestroy, EpDisconnectNb, EpUse, EpNew, EpClose
      <3> QED BY <2>1, <3>1
    <2>3. ASSUME NEW e \in Ep, DropRequest(e) PROVE Freed
      BY <2>0, <2>3 DEF DropRequest
    <2>4. ASSUME NEW w, UcxProgress(w) PROVE Freed
      <3>1. \A e \in Ep : req'[e].by = req[e].by
        BY <2>0, <2>4 DEF UcxProgress
      <3> QED BY <3>1
    <2>5. CASE CloseCheck
      <3>1. call.of \in Ep
        BY <2>5 DEF CloseCheck, HInv, CallShape
      <3> QED BY <2>0, <2>5, <3>1 DEF CloseCheck, Leaked, NoReq
    <2>6. CASE \/ \E w \in Worker, f \in Flag : WorkerNew(w, f)
               \/ \E w \in Worker : WorkerDrop(w)
               \/ WorkerDropCheck \/ WorkerDestroy
      <3>1. req' = req
        BY <2>6 DEF WorkerNew, WorkerDrop, WorkerDropCheck, WorkerDestroy
      <3> QED BY <3>1
    <2> QED BY <2>2, <2>3, <2>4, <2>5, <2>6 DEF Next, LoopStep, Progress, LoopProgress
  <1> QED BY <1>1, HInvHolds, EndpointsImplemented, PTL DEF Spec, CloseFreesFinished
=============================================================================
