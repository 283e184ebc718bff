-------------------------- MODULE AmHandlersProofs --------------------------
(***************************************************************************)
(* Proofs about AmHandlers, for any number of ids, closures, concurrent    *)
(* callbacks and messages: UCX never runs a closure that was dropped, and  *)
(* no closure runs twice at once.                                          *)
(***************************************************************************)
EXTENDS AmHandlers, TLAPS

USE AmAssumption

----------------------------------------------------------------------------
(* Facts the steps share.                                                  *)

HandlerState == [mem : {"none", "live", "freed"}, lock : Slot \cup {Nil},
                 poisoned : BOOLEAN, panics : BOOLEAN, again : BOOLEAN]

RunState == [at : {"idle", "enter", "lock", "call"}, h : Handler \cup {Raw, Nil}]

LEMMA TypesOf ==
    TypeOK => /\ state \in [Handler -> HandlerState]
              /\ run \in [Slot -> RunState]
  BY DEF TypeOK, HandlerState, RunState

LEMMA InitIndInv == Init => IndInv
  <1> SUFFICES ASSUME Init PROVE IndInv
    OBVIOUS
  <1> USE DEF Init, NoReg, NoRun, Fresh, UCS_OK
  <1>1. TypeOK
    <2>1. state \in [Handler -> HandlerState] /\ run \in [Slot -> RunState]
      BY DEF HandlerState, RunState
    <2>2. toUcx \in -100 .. UCS_OK /\ sent \in 0 .. MaxSends
      OBVIOUS
    <2> HIDE DEF UCS_OK
    <2> QED BY <2>1, <2>2 DEF TypeOK, HandlerState, RunState
  <1>2. \A s \in Slot : RunShape(s)
    BY DEF RunShape
  <1>3. RegShape /\ RetainedLive /\ CalledLive /\ LockShape
    BY DEF RegShape, RetainedLive, CalledLive, LockShape
  <1> QED BY <1>1, <1>2, <1>3 DEF IndInv, NoFreedHandler

----------------------------------------------------------------------------
(* Registration.                                                           *)

\* A message on its way keeps the handler UCX has read; the new handler is
\* allocated before UCX gets it.
LEMMA RegisterHandlerPreserves ==
    ASSUME IndInv, NEW i \in Id, NEW h \in Handler, RegisterHandler(i, h)
    PROVE  IndInv'
  <1> USE DEF IndInv
  <1>1. /\ state[h].mem = "none" /\ reg = NoReg /\ worker = "live" /\ ~ub
        /\ UNCHANGED <<retained, run, sent, worker, toUcx, ub>>
    BY DEF RegisterHandler
  <1>2. PICK mem \in {"live", "freed"} :
           /\ state' = [state EXCEPT ![h].mem = mem]
           /\ mem = "live" => /\ table' = [table EXCEPT ![i] = h]
                              /\ reg' = [id |-> i, h |-> h]
           /\ mem = "freed" => UNCHANGED <<table, reg>>
    BY DEF RegisterHandler, Free
  <1>3. state \in [Handler -> HandlerState] /\ run \in [Slot -> RunState]
    BY TypesOf
  <1>4. /\ state' \in [Handler -> HandlerState]
        /\ state'[h].mem = mem
        /\ \A g \in Handler : state'[g].lock = state[g].lock
        /\ \A g \in Handler \ {h} : state'[g] = state[g]
    BY <1>2, <1>3 DEF HandlerState
  <1>5. TypeOK'
    BY <1>1, <1>2, <1>4 DEF TypeOK, HandlerState
  <1>6. (\A s \in Slot : RunShape(s)') /\ RegShape' /\ LockShape'
    BY <1>1, <1>2, <1>4 DEF RunShape, RegShape, LockShape
  <1>7. h \notin retained /\ reg.h # h
    BY <1>1 DEF RetainedLive
  <1>8. RetainedLive'
    BY <1>1, <1>2, <1>4, <1>7 DEF RetainedLive, NoReg
  <1>9. CalledLive'
    <2>1. \A s \in Slot : run[s].h # h
      BY <1>1 DEF CalledLive
    <2>2. \A j \in Id : table'[j] \in Handler => state'[table'[j]].mem = "live"
      BY <1>1, <1>2, <1>4 DEF CalledLive, TypeOK
    <2> QED BY <1>1, <1>4, <2>1, <2>2 DEF CalledLive
  <1> QED BY <1>1, <1>5, <1>6, <1>8, <1>9 DEF NoFreedHandler

LEMMA RetainHandlerPreserves ==
    ASSUME IndInv, RetainHandler
    PROVE  IndInv'
  <1> USE DEF IndInv, RetainHandler
  <1>1. reg.h \in Handler /\ worker = "live"
    BY DEF RegShape
  <1>2. TypeOK'
    BY <1>1 DEF TypeOK, NoReg
  <1>3. RetainedLive'
    BY <1>1 DEF RetainedLive, NoReg
  <1> QED BY <1>2, <1>3 DEF RunShape, RegShape, CalledLive, LockShape, NoFreedHandler

\* am_register and am_unregister take the handler from the table only.
LEMMA TablePreserves ==
    ASSUME IndInv, NEW i \in Id, RegisterRaw(i) \/ Unregister(i)
    PROVE  IndInv'
  <1> USE DEF IndInv, RegisterRaw, Unregister
  <1>1. TypeOK'
    BY DEF TypeOK
  <1>2. CalledLive'
    BY DEF CalledLive, TypeOK
  <1> QED BY <1>1, <1>2 DEF RunShape, RegShape, RetainedLive, LockShape, NoFreedHandler

----------------------------------------------------------------------------
(* Callbacks.                                                              *)

\* A callback goes on or returns, and no closure's mutex changes hands.
LEMMA RunStep ==
    ASSUME IndInv, NEW s \in Slot, NEW r \in RunState,
           run' = [run EXCEPT ![s] = r],
           r # NoRun => /\ r.at \in {"enter", "lock"}
                        /\ r.h \in Handler \cup {Raw}
                        /\ r.at = "lock" => r.h \in Handler
                        /\ r.h \in Handler => state[r.h].mem = "live"
                        /\ worker \in {"live", "dropping"},
           run[s].at # "call",
           sent' \in 0 .. MaxSends,
           toUcx' \in -100 .. UCS_OK,
           ub' = FALSE,
           UNCHANGED <<table, retained, state, reg, worker>>
    PROVE  IndInv'
  <1> USE DEF IndInv
  <1>1. run' \in [Slot -> RunState] /\ run'[s] = r /\ r.at # "call"
    BY TypesOf DEF NoRun
  <1>2. \A u \in Slot \ {s} : run'[u] = run[u]
    BY TypesOf
  <1>3. TypeOK'
    <2>1. run' \in [Slot -> [at : {"idle", "enter", "lock", "call"},
                            h : Handler \cup {Raw, Nil}]]
      BY <1>1 DEF RunState
    <2> QED BY <2>1 DEF TypeOK
  <1>4. (\A u \in Slot : RunShape(u)') /\ RegShape' /\ RetainedLive'
    BY <1>1, <1>2 DEF RunShape, RegShape, RetainedLive, NoRun
  <1>5. CalledLive'
    BY <1>1, <1>2 DEF CalledLive, NoRun
  <1>6. LockShape'
    BY <1>1, <1>2 DEF LockShape
  <1> QED BY <1>3, <1>4, <1>5, <1>6 DEF NoFreedHandler

LEMMA DispatchPreserves ==
    ASSUME IndInv, NEW s \in Slot, NEW i \in Id, Dispatch(s, i)
    PROVE  IndInv'
  <1> DEFINE r == [at |-> "enter", h |-> table[i]]
  <1> USE DEF Dispatch, IndInv
  <1>1. table[i] \in Handler \cup {Raw}
    BY DEF TypeOK
  <1>2. r \in RunState
    BY <1>1 DEF RunState
  <1>3. table[i] \in Handler => state[table[i]].mem = "live"
    BY DEF CalledLive
  <1>4. sent' \in 0 .. MaxSends /\ toUcx' \in -100 .. UCS_OK /\ ub' = FALSE
    BY DEF TypeOK
  <1>5. run[s].at # "call"
    BY DEF NoRun
  <1> QED BY <1>1, <1>2, <1>3, <1>4, <1>5, RunStep

LEMMA NoRunState == NoRun \in RunState
  BY DEF NoRun, RunState

LEMMA RawReturnPreserves ==
    ASSUME IndInv, NEW s \in Slot, RawReturn(s)
    PROVE  IndInv'
  <1>1. sent' \in 0 .. MaxSends /\ toUcx' \in -100 .. UCS_OK /\ ub' = FALSE
    BY DEF RawReturn, IndInv, TypeOK
  <1> QED BY <1>1, NoRunState, RunStep DEF RawReturn

\* The trampoline finds its AmHandler allocated.
LEMMA EnterPreserves ==
    ASSUME IndInv, NEW s \in Slot, Enter(s)
    PROVE  IndInv'
  <1> USE DEF Enter
  <1>1. run[s] # NoRun /\ run[s].at = "enter" /\ run[s].h \in Handler
    BY DEF NoRun
  <1>2. worker \in {"live", "dropping"} /\ state[run[s].h].mem = "live"
    BY <1>1 DEF IndInv, RunShape, CalledLive
  <1>3. ub' = FALSE /\ sent' \in 0 .. MaxSends
    BY <1>2 DEF IndInv, TypeOK
  <1>4. toUcx' \in -100 .. UCS_OK
    BY DEF IndInv, TypeOK, UCS_OK, UCS_ERR_INVALID_PARAM
  <1>5. CASE run' = [run EXCEPT ![s] = NoRun]
    BY <1>1, <1>3, <1>4, <1>5, NoRunState, RunStep
  <1>6. CASE run' = [run EXCEPT ![s].at = "lock"]
    <2> DEFINE r == [run[s] EXCEPT !.at = "lock"]
    <2>1. r \in RunState /\ r.at = "lock" /\ r.h = run[s].h
      BY TypesOf DEF IndInv, RunState
    <2>2. run' = [run EXCEPT ![s] = r]
      BY <1>6
    <2> HIDE DEF r
    <2> QED BY <1>1, <1>2, <1>3, <1>4, <2>1, <2>2, RunStep
  <1> QED BY <1>5, <1>6

LEMMA LockPreserves ==
    ASSUME IndInv, NEW s \in Slot, Lock(s)
    PROVE  IndInv'
  <1> DEFINE h == run[s].h
  <1>1. /\ ~ub /\ run[s].at = "lock" /\ state[h].lock = Nil
        /\ UNCHANGED <<table, retained, reg, sent, worker, ub>>
    BY DEF Lock
  <1>2. /\ run[s] # NoRun /\ h \in Handler
        /\ run \in [Slot -> RunState] /\ state \in [Handler -> HandlerState]
    BY <1>1, TypesOf DEF NoRun, IndInv, RunShape
  <1>3. CASE /\ run' = [run EXCEPT ![s] = NoRun]
             /\ toUcx' = UCS_ERR_IO_ERROR
             /\ UNCHANGED state
    <2>1. toUcx' \in -100 .. UCS_OK /\ sent' \in 0 .. MaxSends /\ ub' = FALSE
      BY <1>1, <1>3 DEF UCS_OK, UCS_ERR_IO_ERROR, IndInv, TypeOK
    <2> QED BY <1>1, <1>3, <2>1, NoRunState, RunStep
  <1>4. CASE /\ run' = [run EXCEPT ![s].at = "call"]
             /\ state' = [state EXCEPT ![h].lock = s,
                                       ![h].again = @ \/ state[h].panics]
             /\ UNCHANGED toUcx
    <2>1. /\ run' \in [Slot -> RunState]
          /\ run'[s].at = "call" /\ run'[s].h = h
          /\ \A u \in Slot \ {s} : run'[u] = run[u]
      BY <1>2, <1>4 DEF RunState
    <2>2. /\ state' \in [Handler -> HandlerState]
          /\ state'[h].lock = s
          /\ \A g \in Handler : state'[g].mem = state[g].mem
          /\ \A g \in Handler \ {h} : state'[g] = state[g]
      BY <1>2, <1>4 DEF HandlerState
    <2>3. TypeOK'
      BY <1>1, <1>4, <2>1, <2>2 DEF IndInv, TypeOK, RunState, HandlerState
    <2>4. \A u \in Slot : RunShape(u)'
      BY <1>1, <1>2, <2>1 DEF IndInv, RunShape, NoRun
    <2>5. RegShape' /\ RetainedLive' /\ CalledLive'
      BY <1>1, <2>1, <2>2 DEF IndInv, RegShape, RetainedLive, CalledLive, TypeOK
    <2>6. LockShape'
      BY <1>1, <1>2, <2>1, <2>2 DEF IndInv, LockShape
    <2> QED BY <1>1, <2>3, <2>4, <2>5, <2>6 DEF IndInv, NoFreedHandler
  <1> QED BY <1>3, <1>4 DEF Lock

\* What the trampoline tells UCX is UCS_OK or an error.
LEMMA ReportedIsFinal ==
    ASSUME NEW o \in Outcome
    PROVE  ReportedStatus(o) \in -100 .. UCS_OK
  BY DEF Outcome, ReportedStatus, UCS_OK, UCS_INPROGRESS, UCS_ERR_CANCELED,
         UCS_ERR_IO_ERROR, UCS_ERR_INVALID_PARAM

LEMMA FinishPreserves ==
    ASSUME IndInv, NEW s \in Slot, Finish(s)
    PROVE  IndInv'
  <1> DEFINE h == run[s].h
  <1>1. /\ ~ub /\ run[s].at = "call"
        /\ run' = [run EXCEPT ![s] = NoRun]
        /\ UNCHANGED <<table, retained, reg, sent, worker, ub>>
    BY DEF Finish
  <1>2. PICK o \in Outcome :
           /\ toUcx' = ReportedStatus(o)
           /\ state' = [state EXCEPT ![h].lock = Nil,
                                     ![h].panics = @ \/ (o.end = "panic")]
    BY DEF Finish
  <1>3. /\ h \in Handler /\ state[h].lock = s
        /\ run \in [Slot -> RunState] /\ state \in [Handler -> HandlerState]
    BY <1>1, TypesOf DEF NoRun, IndInv, RunShape, LockShape
  <1>4. /\ run' \in [Slot -> RunState]
        /\ run'[s] = NoRun
        /\ \A u \in Slot \ {s} : run'[u] = run[u]
    BY <1>1, <1>3, NoRunState
  <1>5. /\ state' \in [Handler -> HandlerState]
        /\ state'[h].lock = Nil
        /\ \A g \in Handler : state'[g].mem = state[g].mem
        /\ \A g \in Handler \ {h} : state'[g] = state[g]
    BY <1>2, <1>3 DEF HandlerState
  <1>6. TypeOK'
    BY <1>1, <1>2, <1>4, <1>5, ReportedIsFinal DEF IndInv, TypeOK, RunState, HandlerState
  <1>7. \A u \in Slot : RunShape(u)'
    BY <1>1, <1>4 DEF IndInv, RunShape
  <1>8. RegShape' /\ RetainedLive' /\ CalledLive'
    BY <1>1, <1>4, <1>5 DEF IndInv, RegShape, RetainedLive, CalledLive, TypeOK, NoRun
  <1>9. LockShape'
    BY <1>1, <1>3, <1>4, <1>5 DEF IndInv, LockShape, NoRun
  <1> QED BY <1>1, <1>6, <1>7, <1>8, <1>9 DEF IndInv, NoFreedHandler

----------------------------------------------------------------------------
(* Worker::drop.                                                           *)

LEMMA BeginDropPreserves ==
    ASSUME IndInv, BeginDrop
    PROVE  IndInv'
  BY DEF IndInv, BeginDrop, TypeOK, RunShape, RegShape, RetainedLive, CalledLive,
         LockShape, NoFreedHandler

LEMMA DestroyPreserves ==
    ASSUME IndInv, Destroy
    PROVE  IndInv'
  BY DEF IndInv, Destroy, TypeOK, RunShape, RegShape, RetainedLive, CalledLive,
         LockShape, NoFreedHandler

\* UCX calls nothing any more when the closures are dropped, all of them.
LEMMA DropFieldsPreserves ==
    ASSUME IndInv, DropFields
    PROVE  IndInv'
  <1> USE DEF DropFields
  <1>1. \A s \in Slot : run[s] = NoRun
    BY DEF IndInv, RunShape
  <1>2. state \in [Handler -> HandlerState]
    BY TypesOf DEF IndInv
  <1>3. /\ state' \in [Handler -> HandlerState]
        /\ \A h \in Handler : /\ state'[h].lock = state[h].lock
                              /\ h \in retained => state'[h].mem = "freed"
                              /\ h \notin retained => state'[h].mem = state[h].mem
    BY <1>2 DEF HandlerState
  <1>4. TypeOK'
    BY <1>3 DEF IndInv, TypeOK, HandlerState
  <1>5. reg = NoReg
    BY DEF IndInv, RegShape
  <1>6. RetainedLive'
    BY <1>3, <1>5 DEF IndInv, RetainedLive, NoReg
  <1>7. LockShape'
    BY <1>3 DEF IndInv, LockShape
  <1> QED BY <1>1, <1>4, <1>5, <1>6, <1>7
     DEF IndInv, RunShape, RegShape, CalledLive, NoFreedHandler

----------------------------------------------------------------------------
(* The theorems.                                                           *)

LEMMA NextPreserves == IndInv /\ [Next]_vars => IndInv'
  <1> SUFFICES ASSUME IndInv, [Next]_vars PROVE IndInv'
    OBVIOUS
  <1>1. ASSUME NEW s \in Slot, Callback(s) PROVE IndInv'
    BY <1>1, RawReturnPreserves, EnterPreserves, LockPreserves, FinishPreserves
       DEF Callback
  <1>2. CASE UNCHANGED vars
    BY <1>2 DEF vars, IndInv, TypeOK, RunShape, RegShape, RetainedLive, CalledLive,
         LockShape, NoFreedHandler
  <1> QED BY <1>1, <1>2, RegisterHandlerPreserves, RetainHandlerPreserves,
     TablePreserves, DispatchPreserves, BeginDropPreserves, DestroyPreserves,
     DropFieldsPreserves DEF Next

\* The inductive invariant, the type invariant among it: whatever UCX may still
\* call is retained, and a trampoline returns UCS_OK or an error.
THEOREM IndInvHolds == Spec => []IndInv
  BY InitIndInv, NextPreserves, PTL DEF Spec

\* No closure is used after it was dropped: not by a message that was overtaken
\* by another registration, nor by one that arrives during Worker::drop.
THEOREM NoClosureUsedFreed == Spec => []NoFreedHandler
  BY IndInvHolds, PTL DEF IndInv

\* An FnMut closure is entered by one callback at a time.
THEOREM ClosuresExclusive == Spec => []ClosureExclusive
  <1>1. IndInv => ClosureExclusive
    BY DEF IndInv, ClosureExclusive, LockShape, RunShape, NoRun
  <1> QED BY <1>1, IndInvHolds, PTL

\* The safety side of DropEnds: when the worker is gone, no closure it was ever
\* given is left allocated, however often ids were registered again.
NoneLeft == worker = "gone" => \A h \in Handler : state[h].mem # "live"

THEOREM NoClosureLeaks == Spec => []NoneLeft
  <1>1. IndInv => NoneLeft
    BY DEF IndInv, RegShape, RetainedLive, NoneLeft, NoReg
  <1> QED BY <1>1, IndInvHolds, PTL
=============================================================================
