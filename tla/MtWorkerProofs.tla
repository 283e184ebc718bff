--------------------------- MODULE MtWorkerProofs ---------------------------
(***************************************************************************)
(* Proofs about MtWorker, for any number of threads, handles, calls and    *)
(* rounds.  A thread in a UCX call either is inside the mutex, and has a   *)
(* handle, or has the worker to itself, and then there is no handle; so    *)
(* one thread at a time uses the worker, none after it is destroyed, and   *)
(* MtWorker implements SharedWorker.                                       *)
(***************************************************************************)
EXTENDS MtWorker, TLAPS

USE ThreadAssumption, BoundsAssumption

----------------------------------------------------------------------------
(* Facts the steps share.                                                  *)

\* A thread's place changes, and no other's.
Moves(t, op, at) ==
    /\ pc' \in [Thread -> PC]
    /\ pc'[t].op = op
    /\ pc'[t].at = at
    /\ \A u \in Thread \ {t} : pc'[u] = pc[u]

LEMMA GotoMoves ==
    ASSUME TypeOK, NEW t \in Thread, NEW op, NEW at, NEW left,
           At(op, at, left) \in PC, Goto(t, op, at, left)
    PROVE  Moves(t, op, at) /\ pc'[t].left = left
  BY DEF TypeOK, Goto, Moves, At

LEMMA ReturnMoves ==
    ASSUME TypeOK, NEW t \in Thread, Return(t)
    PROVE  Moves(t, "none", "idle")
  <1>1. NoOp \in PC
    BY DEF NoOp, At, PC
  <1> QED BY <1>1 DEF TypeOK, Return, Moves, NoOp, At

\* Initially.
LEMMA InitIndInv == Init => IndInv
  <1> SUFFICES ASSUME Init PROVE IndInv
    OBVIOUS
  <1>1. pc \in [Thread -> PC]
    BY DEF Init, PC, NoOp, At, Op, LockedOp
  <1>2. \A t \in Thread : /\ t = Creator => pc[t].op = "new" /\ pc[t].at = "ucx"
                          /\ t # Creator => pc[t].op = "none" /\ pc[t].at = "idle"
    BY DEF Init, NoOp, At
  <1>3. TypeOK
    <2>1. calls \in [Thread -> 0 .. MaxCalls]
      BY DEF Init
    <2> QED BY <1>1, <2>1 DEF Init, TypeOK
  <1>4. \A t \in Thread : CallShape(t) /\ ~Calling(t) /\ pc[t].at # "progress"
    BY <1>2 DEF CallShape, Calling, LockedOp
  <1>5. Guarded
    BY <1>4 DEF Init, Guarded, Inside
  <1>6. Owned /\ Announced /\ AtHome
    BY <1>2, <1>4 DEF Init, Owned, Announced, AtHome, Alone
  <1>7. OnlyClosuresPanic
    BY DEF Init, OnlyClosuresPanic
  <1> QED BY <1>3, <1>4, <1>5, <1>6, <1>7 DEF IndInv

\* A step of one thread's call that leaves the handles and the worker's life
\* alone, and gives nobody the worker.
LEMMA CallStep ==
    ASSUME IndInv, NEW t \in Thread, NEW op, NEW at, Moves(t, op, at),
           TypeOK', CallShape(t)', Guarded', OnlyClosuresPanic',
           UNCHANGED <<mode, owner, alive, ucx>>,
           Calling(t)' => \E h \in Handle : owner[h] = t,
           Alone(t)' => Alone(t),
           op = "new" => pc[t].op = "new",
           (op = "drop" => at = "store") <=> (pc[t].op = "drop" => pc[t].at = "store")
    PROVE  IndInv'
  <1> USE DEF Moves
  <1>1. \A u \in Thread : CallShape(u)'
    BY DEF IndInv, CallShape, Calling
  <1>2. Owned'
    BY DEF IndInv, Owned, Calling, Alone
  <1>3. Announced'
    BY DEF IndInv, Announced
  <1>4. AtHome'
    BY DEF IndInv, AtHome, Alone
  <1> QED BY <1>1, <1>2, <1>3, <1>4 DEF IndInv

----------------------------------------------------------------------------
(* Handles.                                                                *)

LEMMA NewPreserves ==
    ASSUME IndInv, NEW t \in Thread, New(t)
    PROVE  IndInv'
  <1> USE DEF IndInv, sync, worker, held
  <1>1. pc[t].op = "new" /\ pc[t].at = "ucx" /\ t = Creator
    BY DEF New, CallShape, AtHome
  <1>2. CASE /\ mode \in {"serialized", "multi"}
             /\ \E h \in Handle : owner' = [owner EXCEPT ![h] = t]
             /\ Return(t)
    <2>1. Moves(t, "none", "idle")
      BY <1>2, ReturnMoves
    <2>2. TypeOK'
      BY <1>2, <2>1 DEF New, TypeOK, Moves
    <2>3. \A u \in Thread : CallShape(u)'
      BY <2>1 DEF CallShape, Calling, Moves
    <2>4. Guarded'
      BY <1>1, <2>1 DEF New, Guarded, Inside, Calling, Moves, LockedOp
    <2>5. \A u \in Thread : ~Calling(u) /\ ~Alone(u)'
      BY <1>1, <2>1 DEF Owned, Calling, Alone, Moves
    <2> QED BY <1>2, <2>1, <2>2, <2>3, <2>4, <2>5
       DEF New, Owned, Announced, AtHome, Alone, Calling, Moves, LockedOp, OnlyClosuresPanic
  <1>3. CASE Goto(t, "drop", "store", 0) /\ UNCHANGED owner
    <2>1. Moves(t, "drop", "store")
      <3>1. At("drop", "store", 0) \in PC
        BY DEF At, PC, Op
      <3> QED BY <1>3, <3>1, GotoMoves
    <2>2. TypeOK'
      BY <1>3, <2>1 DEF New, TypeOK, Moves
    <2>3. CallShape(t)'
      BY <2>1 DEF CallShape, Calling, Moves, LockedOp
    <2>4. Guarded'
      BY <1>1, <2>1 DEF New, Guarded, Inside, Calling, Moves, LockedOp
    <2>5. Alone(t) /\ ~Calling(t)'
      BY <1>1, <2>1 DEF Alone, Calling, Moves, LockedOp
    <2> QED BY <1>1, <1>3, <2>1, <2>2, <2>3, <2>4, <2>5, CallStep
       DEF New, OnlyClosuresPanic
  <1> QED BY <1>2, <1>3 DEF New

LEMMA ClonePreserves ==
    ASSUME IndInv, NEW t \in Thread, NEW u \in Thread, Clone(t, u)
    PROVE  IndInv'
  <1> USE DEF IndInv, sync, worker, held, Clone
  <1>1. PICK g \in Handle : owner[g] = Nil /\ owner' = [owner EXCEPT ![g] = u]
    OBVIOUS
  <1>2. TypeOK'
    BY <1>1 DEF TypeOK
  <1>3. \A v \in Thread : ~Alone(v)
    BY DEF Owned
  <1>4. ucx = "live" /\ mode # "single"
    BY DEF Owned, AtHome, TypeOK
  <1>5. Owned'
    <2>1. \A v \in Thread, h \in Handle : owner[h] = v => owner'[h] = v
      BY <1>1 DEF TypeOK
    <2> QED BY <1>3, <1>4, <2>1 DEF Owned, Calling, Alone
  <1> QED BY <1>2, <1>3, <1>4, <1>5
     DEF CallShape, Calling, Guarded, Inside, Announced, AtHome, Alone, OnlyClosuresPanic

\* The last handle leaves the worker to the thread that drops it.
LEMMA DropHandlePreserves ==
    ASSUME IndInv, NEW t \in Thread, NEW h \in Handle, DropHandle(t, h)
    PROVE  IndInv'
  <1> USE DEF IndInv, sync, worker, held
  <1>1. /\ pc[t] = NoOp /\ owner[h] = t
        /\ pc[t].op = "none" /\ pc[t].at = "idle"
        /\ owner' = [owner EXCEPT ![h] = Nil]
        /\ UNCHANGED <<sync, worker, held, calls, panicked>>
    BY DEF DropHandle, NoOp, At
  <1>2. (\A u \in Thread : ~Alone(u)) /\ ucx = "live" /\ mode # "single"
    BY <1>1 DEF Owned, AtHome, TypeOK
  <1>3. CASE UNCHANGED pc
    <2>1. TypeOK'
      BY <1>1, <1>3 DEF TypeOK
    <2>2. \A u \in Thread \ {t} : \A g \in Handle : owner[g] = u => owner'[g] = u
      BY <1>1 DEF TypeOK
    <2>3. ~Calling(t)
      BY <1>1 DEF Calling, LockedOp
    <2>4. Owned'
      BY <1>1, <1>2, <1>3, <2>2, <2>3 DEF Owned, Calling, Alone
    <2> QED BY <1>1, <1>2, <1>3, <2>1, <2>4
       DEF CallShape, Calling, Guarded, Inside, Announced, AtHome, Alone, OnlyClosuresPanic
  <1>4. CASE /\ \A g \in Handle \ {h} : owner[g] = Nil
             /\ Goto(t, "drop", "store", 0)
    <2>1. Moves(t, "drop", "store")
      <3>1. At("drop", "store", 0) \in PC
        BY DEF At, PC, Op
      <3> QED BY <1>4, <3>1, GotoMoves
    <2>2. TypeOK'
      BY <1>1, <2>1 DEF TypeOK, Moves
    <2>3. \A g \in Handle : owner'[g] = Nil
      BY <1>1, <1>4 DEF TypeOK
    <2>4. \A u \in Thread : ~Calling(u)'
      BY <1>1, <1>4, <2>1 DEF Owned, Calling, Moves, LockedOp
    <2>5. \A u \in Thread : CallShape(u)'
      BY <2>1, <2>4 DEF CallShape, Calling, Moves
    <2>6. Guarded'
      BY <1>1, <2>1 DEF Guarded, Inside, Calling, Moves, LockedOp
    <2>7. Owned'
      BY <1>1, <1>2, <2>1, <2>3, <2>4 DEF Owned, Alone, Moves
    <2>8. Announced'
      BY <1>1, <1>2, <2>1 DEF Announced, Alone, Moves
    <2>9. AtHome'
      BY <1>1, <1>2, <2>1 DEF AtHome, Moves
    <2> QED BY <1>1, <2>2, <2>5, <2>6, <2>7, <2>8, <2>9 DEF OnlyClosuresPanic
  <1> QED BY <1>3, <1>4 DEF DropHandle

----------------------------------------------------------------------------
(* Calls under the mutex.                                                  *)

\* MtWorker's methods, wait_request and Ep::drop begin.
LEMMA BeginPreserves ==
    ASSUME IndInv, NEW t \in Thread, NEW op, NEW at, NEW left,
           pc[t] = NoOp, Goto(t, op, at, left), left \in 0 .. MaxRounds,
           \/ op \in LockedOp /\ at = "lock"
           \/ op = "wait_request" /\ at = "check"
           \/ op = "ep_drop" /\ at = "load",
           op # "ep_drop" => \E h \in Handle : owner[h] = t,
           calls' \in [Thread -> 0 .. MaxCalls],
           UNCHANGED <<sync, worker, held, owner, panicked>>
    PROVE  IndInv'
  <1> USE DEF sync, worker, held
  <1>1. Moves(t, op, at)
    <2>1. At(op, at, left) \in PC
      BY DEF At, PC, Op, LockedOp
    <2> QED BY <2>1, GotoMoves DEF IndInv
  <1>2. TypeOK'
    BY <1>1 DEF IndInv, TypeOK, Moves
  <1>3. CallShape(t)'
    BY <1>1 DEF CallShape, Calling, Moves, LockedOp
  <1>4. pc[t].op = "none" /\ pc[t].at = "idle"
    BY DEF NoOp, At
  <1>5. Guarded'
    BY <1>1, <1>4 DEF IndInv, Guarded, Inside, Calling, Moves, LockedOp
  <1>6. Calling(t)' => \E h \in Handle : owner[h] = t
    BY <1>1 DEF Calling, Moves, LockedOp
  <1>7. ~Alone(t)' /\ op # "new" /\ op # "drop"
    BY <1>1 DEF Alone, Moves, LockedOp
  <1>8. OnlyClosuresPanic'
    BY DEF IndInv, OnlyClosuresPanic
  <1> QED BY <1>1, <1>2, <1>3, <1>4, <1>5, <1>6, <1>7, <1>8, CallStep

LEMMA AcquirePreserves ==
    ASSUME IndInv, NEW t \in Thread, Acquire(t)
    PROVE  IndInv'
  <1> USE DEF Acquire, worker, held
  <1>1. pc[t].at = "lock" /\ Calling(t) /\ lock = Nil /\ lock' = t
    BY DEF IndInv, CallShape
  <1>2. PICK op \in Op, at \in {"enter", "body", "ucx"} :
           /\ op = pc[t].op /\ at = Locked(op)
           /\ Moves(t, op, at)
    <2>1. pc[t].op \in Op /\ pc[t].left \in 0 .. MaxRounds
      BY <1>1 DEF IndInv, TypeOK, PC, Calling, Op, LockedOp
    <2>2. Locked(pc[t].op) \in {"enter", "body", "ucx"}
      BY DEF Locked
    <2>3. At(pc[t].op, Locked(pc[t].op), pc[t].left) \in PC
      BY <2>1, <2>2 DEF At, PC
    <2> QED BY <2>1, <2>2, <2>3, GotoMoves DEF IndInv
  <1>3. TypeOK'
    BY <1>2 DEF IndInv, TypeOK, Moves
  <1>4. CallShape(t)'
    BY <1>1, <1>2 DEF CallShape, Calling, Moves, Locked, LockedOp
  <1>5. Guarded'
    BY <1>1, <1>2 DEF IndInv, Guarded, Inside, Calling, Moves
  <1>6. /\ \E h \in Handle : owner[h] = t
        /\ op # "new" /\ op # "drop" /\ ~Alone(t)'
    BY <1>1, <1>2 DEF IndInv, Owned, Calling, Alone, Moves, LockedOp
  <1>7. OnlyClosuresPanic'
    BY DEF IndInv, OnlyClosuresPanic
  <1> QED BY <1>2, <1>3, <1>4, <1>5, <1>6, <1>7, CallStep

\* The thread inside leaves the mutex and its call.
LEMMA LeavePreserves ==
    ASSUME IndInv, NEW t \in Thread, Inside(t), Return(t), lock' = Nil,
           progressing' = (progressing /\ pc[t].at # "progress"),
           TypeOK', OnlyClosuresPanic',
           UNCHANGED <<mode, owner, alive, ucx>>
    PROVE  IndInv'
  <1>1. Moves(t, "none", "idle")
    BY ReturnMoves DEF IndInv
  <1>2. CallShape(t)' /\ ~Calling(t)' /\ ~Alone(t)'
    BY <1>1 DEF CallShape, Calling, Alone, Moves, LockedOp
  <1>3. \A u \in Thread : pc[u].at = "progress" => u = t \/ Alone(u)
    BY DEF IndInv, Guarded, Inside, Calling, Alone, CallShape, LockedOp
  <1>4. \A u \in Thread : ~Alone(u)
    BY DEF IndInv, Owned, Inside, Calling, TypeOK
  <1>5. Guarded'
    <2>1. \A u \in Thread : lock' = u <=> Inside(u)'
      BY <1>1, <1>2 DEF IndInv, Guarded, Inside, Calling, Moves
    <2>2. progressing' <=> \E u \in Thread : pc'[u].at = "progress"
      BY <1>1, <1>3, <1>4 DEF IndInv, Guarded, TypeOK, Moves
    <2> QED BY <2>1, <2>2 DEF Guarded
  <1>6. pc[t].op # "drop"
    BY DEF Inside, Calling, LockedOp
  <1> QED BY <1>1, <1>2, <1>5, <1>6, CallStep

LEMMA ShortReturnPreserves ==
    ASSUME IndInv, NEW t \in Thread, ShortReturn(t)
    PROVE  IndInv'
  <1> USE DEF ShortReturn
  <1>1. Inside(t) /\ pc[t].at # "progress"
    BY DEF IndInv, CallShape, Inside
  <1>2. TypeOK'
    <2>1. request' \in [Thread -> {"none", "inflight", "done"}]
      BY DEF IndInv, TypeOK
    <2>2. ep' \in [Thread -> {"none", "open"}]
      BY DEF IndInv, TypeOK
    <2>3. event' \in BOOLEAN
      BY DEF IndInv, TypeOK
    <2>4. pc' \in [Thread -> PC]
      BY ReturnMoves DEF IndInv, Moves
    <2> QED BY <2>1, <2>2, <2>3, <2>4 DEF IndInv, TypeOK
  <1>3. OnlyClosuresPanic' /\ progressing' = (progressing /\ pc[t].at # "progress")
    BY <1>1 DEF IndInv, OnlyClosuresPanic, TypeOK
  <1> QED BY <1>1, <1>2, <1>3, LeavePreserves

LEMMA BodyEndPreserves ==
    ASSUME IndInv, NEW t \in Thread, BodyEnd(t)
    PROVE  IndInv'
  <1> USE DEF BodyEnd, worker, held
  <1>1. Inside(t) /\ pc[t].op = "with_worker" /\ pc[t].at # "progress"
    BY DEF IndInv, CallShape, Inside, Calling, LockedOp
  <1>2. panicked' \subseteq panicked \cup {"with_worker"}
    BY <1>1
  <1>3. TypeOK'
    <2>1. pc' \in [Thread -> PC]
      BY ReturnMoves DEF IndInv, Moves
    <2>2. poisoned' \in BOOLEAN
      BY DEF IndInv, TypeOK
    <2> QED BY <1>2, <2>1, <2>2 DEF IndInv, TypeOK, Op, LockedOp
  <1>4. OnlyClosuresPanic' /\ progressing' = (progressing /\ pc[t].at # "progress")
    BY <1>1, <1>2 DEF IndInv, OnlyClosuresPanic, TypeOK
  <1> QED BY <1>1, <1>3, <1>4, LeavePreserves

\* The closure of with_worker progresses the worker.
LEMMA BodyProgressPreserves ==
    ASSUME IndInv, NEW t \in Thread, BodyProgress(t)
    PROVE  IndInv'
  <1> USE DEF BodyProgress, worker, held, sync
  <1>1. pc[t].op = "with_worker" /\ pc[t].at = "body"
    BY DEF IndInv, CallShape
  <1>2. Moves(t, "with_worker", "enter")
    <2>1. pc[t].left \in 0 .. MaxRounds
      BY DEF IndInv, TypeOK, PC
    <2>2. At("with_worker", "enter", pc[t].left - 1) \in PC
      BY <2>1 DEF At, PC, Op, LockedOp
    <2> QED BY <2>2, GotoMoves DEF IndInv
  <1>3. TypeOK'
    BY <1>2 DEF IndInv, TypeOK, Moves
  <1>4. CallShape(t)' /\ Calling(t) /\ ~Alone(t)'
    BY <1>1, <1>2 DEF CallShape, Calling, Alone, Moves, LockedOp
  <1>5. Guarded'
    BY <1>1, <1>2 DEF IndInv, Guarded, Inside, Calling, Moves, LockedOp
  <1>6. OnlyClosuresPanic' /\ \E h \in Handle : owner[h] = t
    BY <1>4 DEF IndInv, OnlyClosuresPanic, Owned
  <1> QED BY <1>1, <1>2, <1>3, <1>4, <1>5, <1>6, CallStep

----------------------------------------------------------------------------
(* Worker::progress and the loops around it.                               *)

\* Of the threads between ProgressGuard::new and its drop there is one: they
\* are inside the mutex or have the worker to themselves, not both.
LEMMA OneProgresses ==
    ASSUME IndInv, NEW t \in Thread, NEW u \in Thread,
           pc[t].at \in {"enter", "progress"}, pc[u].at \in {"enter", "progress"}
    PROVE  t = u
  <1>1. \A v \in {t, u} : Inside(v) \/ Alone(v)
    BY DEF IndInv, CallShape, Inside, Calling, Alone, LockedOp
  <1>2. ASSUME NEW v \in Thread, NEW w \in Thread, Alone(v) PROVE ~Inside(w)
    BY <1>2 DEF IndInv, Owned, Inside, TypeOK
  <1> QED BY <1>1, <1>2 DEF IndInv, Guarded, Owned

\* ProgressGuard never panics.
LEMMA ProgressEnterPreserves ==
    ASSUME IndInv, NEW t \in Thread, ProgressEnter(t)
    PROVE  IndInv'
  <1> USE DEF worker, held
  <1>1. ~progressing
    BY OneProgresses DEF ProgressEnter, IndInv, Guarded
  <1>2. /\ pc[t].at = "enter"
        /\ progressing' = TRUE
        /\ Goto(t, pc[t].op, "progress", pc[t].left)
        /\ UNCHANGED <<lock, poisoned, panicked, worker, held, owner, calls>>
    BY <1>1 DEF ProgressEnter
  <1>3. pc[t].op \in {"progress", "wait_request", "with_worker", "drop"}
    BY <1>2 DEF IndInv, CallShape
  <1>4. Moves(t, pc[t].op, "progress")
    <2>1. At(pc[t].op, "progress", pc[t].left) \in PC
      BY DEF IndInv, TypeOK, PC, At
    <2> QED BY <1>2, <2>1, GotoMoves DEF IndInv
  <1>5. TypeOK'
    BY <1>2, <1>4 DEF IndInv, TypeOK, Moves
  <1>6. CallShape(t)' /\ (Calling(t)' <=> Calling(t)) /\ (Alone(t)' <=> Alone(t))
    BY <1>3, <1>4 DEF CallShape, Calling, Alone, Moves, LockedOp
  <1>7. Guarded'
    BY <1>2, <1>4, <1>6 DEF IndInv, Guarded, Inside, Calling, Moves
  <1>8. OnlyClosuresPanic' /\ (Calling(t) => \E h \in Handle : owner[h] = t)
    BY <1>2 DEF IndInv, OnlyClosuresPanic, Owned
  <1> QED BY <1>2, <1>3, <1>4, <1>5, <1>6, <1>7, <1>8, CallStep

\* The round of a with_worker closure, or of Worker::drop, is over; the call
\* goes on.
LEMMA ProgressReturnPreserves ==
    ASSUME IndInv, NEW t \in Thread, ProgressReturn(t)
    PROVE  IndInv'
  <1> USE DEF worker
  <1>1. /\ pc[t].at = "progress" /\ progressing' = FALSE
        /\ UNCHANGED <<poisoned, worker, ep, owner, calls, panicked>>
    BY DEF ProgressReturn
  <1>2. pc[t].op \in {"progress", "wait_request", "with_worker", "drop"}
    BY <1>1 DEF IndInv, CallShape
  <1>3. request' \in [Thread -> {"none", "inflight", "done"}]
    BY DEF ProgressReturn, Complete, IndInv, TypeOK
  <1>4. OnlyClosuresPanic'
    BY <1>1 DEF IndInv, OnlyClosuresPanic
  <1>5. \A u \in Thread : pc[u].at = "progress" => u = t
    BY <1>1, OneProgresses
  <1>6. CASE pc[t].op = "progress"
    <2>1. Return(t) /\ lock' = Nil /\ Inside(t)
      BY <1>1, <1>6 DEF ProgressReturn, Progressed, Inside, Calling, LockedOp
    <2>2. TypeOK'
      BY <1>1, <1>3, <2>1, ReturnMoves DEF IndInv, TypeOK, Moves
    <2> QED BY <1>1, <1>4, <2>1, <2>2, LeavePreserves
  <1>7. CASE pc[t].op # "progress"
    <2> DEFINE at == IF pc[t].op = "with_worker" THEN "body" ELSE "check"
    <2>1. Moves(t, pc[t].op, at)
      <3>1. At(pc[t].op, at, pc[t].left) \in PC
        BY DEF IndInv, TypeOK, PC, At
      <3> QED BY <1>7, <3>1, GotoMoves DEF ProgressReturn, Progressed, IndInv
    <2>2. lock' = IF pc[t].op = "wait_request" THEN Nil ELSE lock
      BY <1>7 DEF ProgressReturn
    <2>3. TypeOK'
      BY <1>1, <1>3, <2>1, <2>2 DEF IndInv, TypeOK, Moves
    <2>4. CallShape(t)' /\ (Calling(t)' <=> Calling(t)) /\ (Alone(t)' <=> Alone(t))
      BY <1>2, <1>7, <2>1 DEF CallShape, Calling, Alone, Moves, LockedOp
    <2>5. Guarded'
      <3>1. \A u \in Thread : pc'[u].at # "progress"
        BY <1>5, <2>1 DEF Moves
      <3>2. \A u \in Thread : lock' = u <=> Inside(u)'
        BY <1>1, <1>2, <1>7, <2>1, <2>2 DEF IndInv, Guarded, Inside, Calling, Moves, LockedOp
      <3> QED BY <1>1, <3>1, <3>2 DEF Guarded
    <2>6. Calling(t) => \E h \in Handle : owner[h] = t
      BY DEF IndInv, Owned
    <2> HIDE DEF at
    <2>7. (pc[t].op = "drop" => at = "store") <=> (pc[t].op = "drop" => pc[t].at = "store")
      BY <1>1 DEF at
    <2> QED BY <1>1, <1>2, <1>4, <2>1, <2>3, <2>4, <2>5, <2>6, <2>7, CallStep
  <1> QED BY <1>6, <1>7

\* A call outside the mutex moves on: the check of wait_request or of
\* Worker::drop, and the beginning of the flush.
LEMMA OutsidePreserves ==
    ASSUME IndInv, NEW t \in Thread, NEW op \in {"wait_request", "drop"},
           NEW at \in {"lock", "check", "enter", "flush", "destroy"},
           NEW left \in 0 .. MaxRounds,
           pc[t].op = op, pc[t].at \in {"check", "flush"},
           op = "wait_request" => at = "lock",
           op = "drop" => at # "lock",
           Goto(t, op, at, left),
           UNCHANGED <<sync, worker, held, owner, calls, panicked>>
    PROVE  IndInv'
  <1> USE DEF sync, worker, held
  <1>1. Moves(t, op, at)
    <2>1. At(op, at, left) \in PC
      BY DEF At, PC, Op, LockedOp
    <2> QED BY <2>1, GotoMoves DEF IndInv
  <1>2. TypeOK'
    BY <1>1 DEF IndInv, TypeOK, Moves
  <1>3. CallShape(t)' /\ (Calling(t)' <=> Calling(t)) /\ (Alone(t)' <=> Alone(t))
    BY <1>1 DEF CallShape, Calling, Alone, Moves, LockedOp
  <1>4. Guarded'
    BY <1>1 DEF IndInv, Guarded, Inside, Calling, Moves, LockedOp
  <1>5. OnlyClosuresPanic' /\ (Calling(t) => \E h \in Handle : owner[h] = t)
    BY DEF IndInv, OnlyClosuresPanic, Owned
  <1> QED BY <1>1, <1>2, <1>3, <1>4, <1>5, CallStep

\* wait_request or the drop of an endpoint ends, outside the mutex.
LEMMA OutsideReturnPreserves ==
    ASSUME IndInv, NEW t \in Thread, Return(t),
           \/ pc[t].op = "wait_request" /\ pc[t].at = "check"
           \/ pc[t].op = "ep_drop",
           ep' \in [Thread -> {"none", "open"}],
           UNCHANGED <<sync, worker, request, owner, calls, panicked>>
    PROVE  IndInv'
  <1> USE DEF sync, worker
  <1>1. Moves(t, "none", "idle")
    BY ReturnMoves DEF IndInv
  <1>2. TypeOK'
    BY <1>1 DEF IndInv, TypeOK, Moves
  <1>3. CallShape(t)' /\ ~Calling(t)' /\ ~Alone(t)'
    BY <1>1 DEF CallShape, Calling, Alone, Moves, LockedOp
  <1>4. Guarded'
    BY <1>1 DEF IndInv, CallShape, Guarded, Inside, Calling, Moves, LockedOp
  <1>5. OnlyClosuresPanic'
    BY DEF IndInv, OnlyClosuresPanic
  <1> QED BY <1>1, <1>2, <1>3, <1>4, <1>5, CallStep

LEMMA WaitRequestPreserves ==
    ASSUME IndInv, NEW t \in Thread, WaitRequestCheck(t)
    PROVE  IndInv'
  <1>1. pc[t].op = "wait_request" /\ pc[t].at = "check"
    BY DEF WaitRequestCheck
  <1>2. CASE Return(t)
    BY <1>1, <1>2, OutsideReturnPreserves DEF WaitRequestCheck, IndInv, TypeOK, held
  <1>3. CASE pc[t].left # 0 /\ Goto(t, "wait_request", "lock", pc[t].left - 1)
    <2>1. pc[t].left \in 0 .. MaxRounds
      BY DEF IndInv, TypeOK, PC
    <2>2. pc[t].left - 1 \in 0 .. MaxRounds
      BY <1>3, <2>1
    <2> QED BY <1>1, <1>3, <2>2, OutsidePreserves DEF WaitRequestCheck
  <1> QED BY <1>2, <1>3 DEF WaitRequestCheck

----------------------------------------------------------------------------
(* Worker::drop and Ep::drop.                                              *)

\* The thread that has the worker to itself takes the flag down.
LEMMA DropStorePreserves ==
    ASSUME IndInv, NEW t \in Thread, DropStore(t)
    PROVE  IndInv'
  <1> USE DEF sync, held, DropStore
  <1>1. pc[t].op = "drop" /\ Alone(t)
    BY DEF IndInv, CallShape, Alone
  <1>2. Moves(t, "drop", "flush")
    <2>1. At("drop", "flush", 0) \in PC
      BY DEF At, PC, Op
    <2> QED BY <2>1, GotoMoves DEF IndInv
  <1>3. TypeOK'
    BY <1>2 DEF IndInv, TypeOK, Moves
  <1>4. \A u \in Thread : CallShape(u)'
    BY <1>2 DEF IndInv, CallShape, Calling, Moves, LockedOp
  <1>5. Guarded'
    BY <1>2 DEF IndInv, Guarded, Inside, Calling, Moves, LockedOp
  <1>6. Owned' /\ AtHome'
    BY <1>1, <1>2 DEF IndInv, Owned, AtHome, Calling, Alone, Moves, LockedOp
  <1>7. Announced'
    BY <1>2 DEF Announced, Moves
  <1> QED BY <1>3, <1>4, <1>5, <1>6, <1>7 DEF IndInv, OnlyClosuresPanic

LEMMA DropFlushPreserves ==
    ASSUME IndInv, NEW t \in Thread, DropFlush(t)
    PROVE  IndInv'
  <1>1. pc[t].op = "drop" /\ pc[t].at = "flush"
    BY DEF DropFlush, IndInv, CallShape
  <1> QED BY <1>1, OutsidePreserves DEF DropFlush

LEMMA DropCheckPreserves ==
    ASSUME IndInv, NEW t \in Thread, DropCheck(t)
    PROVE  IndInv'
  <1>1. pc[t].left > 0 => pc[t].left - 1 \in 0 .. MaxRounds
    BY DEF IndInv, TypeOK, PC
  <1> QED BY <1>1, OutsidePreserves DEF DropCheck

\* Nobody has the worker any more.
LEMMA DropDestroyPreserves ==
    ASSUME IndInv, NEW t \in Thread, DropDestroy(t)
    PROVE  IndInv'
  <1> USE DEF sync, held, DropDestroy
  <1>1. /\ pc[t].op = "drop" /\ Alone(t) /\ ~alive
        /\ \A u \in Thread \ {t} : ~Alone(u)
    BY DEF IndInv, CallShape, Alone, Owned, Announced
  <1>2. Moves(t, "none", "idle")
    BY ReturnMoves DEF IndInv
  <1>3. TypeOK'
    BY <1>2 DEF IndInv, TypeOK, Moves
  <1>4. \A u \in Thread : CallShape(u)'
    BY <1>2 DEF IndInv, CallShape, Calling, Moves
  <1>5. Guarded'
    BY <1>1, <1>2 DEF IndInv, Guarded, Inside, Calling, Moves, LockedOp
  <1>6. Owned' /\ AtHome'
    BY <1>1, <1>2 DEF IndInv, Owned, AtHome, Calling, Alone, Moves, LockedOp
  <1>7. Announced'
    BY <1>1 DEF Announced
  <1> QED BY <1>3, <1>4, <1>5, <1>6, <1>7 DEF IndInv, OnlyClosuresPanic

LEMMA EpLoadPreserves ==
    ASSUME IndInv, NEW t \in Thread, EpLoad(t)
    PROVE  IndInv'
  <1> USE DEF sync, worker
  <1>1. pc[t].op = "ep_drop" /\ pc[t].at = "load"
    BY DEF EpLoad, IndInv, CallShape
  <1>2. CASE ~alive
    BY <1>1, <1>2, OutsideReturnPreserves DEF EpLoad, IndInv, TypeOK
  <1>3. CASE alive
    <2>1. Moves(t, "ep_drop", "close")
      <3>1. At("ep_drop", "close", 0) \in PC
        BY DEF At, PC, Op
      <3> QED BY <1>3, <3>1, GotoMoves DEF EpLoad, IndInv
    <2>2. UNCHANGED <<sync, worker, held, owner, calls, panicked>>
      BY <1>3 DEF EpLoad, held
    <2>3. TypeOK'
      BY <2>1, <2>2 DEF IndInv, TypeOK, Moves, held
    <2>4. CallShape(t)' /\ ~Calling(t)' /\ ~Alone(t)'
      BY <2>1 DEF CallShape, Calling, Alone, Moves, LockedOp
    <2>5. Guarded'
      BY <1>1, <2>1, <2>2 DEF IndInv, Guarded, Inside, Calling, Moves, LockedOp
    <2>6. OnlyClosuresPanic'
      BY <2>2 DEF IndInv, OnlyClosuresPanic
    <2> QED BY <1>1, <2>1, <2>2, <2>3, <2>4, <2>5, <2>6, CallStep
  <1> QED BY <1>2, <1>3

LEMMA EpClosePreserves ==
    ASSUME IndInv, NEW t \in Thread, EpClose(t)
    PROVE  IndInv'
  <1>1. pc[t].op = "ep_drop"
    BY DEF EpClose, IndInv, CallShape
  <1>2. ep' \in [Thread -> {"none", "open"}]
    BY DEF EpClose, IndInv, TypeOK
  <1> QED BY <1>1, <1>2, OutsideReturnPreserves DEF EpClose

LEMMA TrafficPreserves ==
    ASSUME IndInv, Traffic
    PROVE  IndInv'
  BY DEF IndInv, Traffic, sync, held, TypeOK, CallShape, Calling, Alone, Guarded,
         Inside, Owned, Announced, AtHome, OnlyClosuresPanic

----------------------------------------------------------------------------
(* The theorems.                                                           *)

\* No step breaks the invariant.
LEMMA NextPreserves == IndInv /\ [Next]_vars => IndInv'
  <1> SUFFICES ASSUME IndInv, [Next]_vars PROVE IndInv'
    OBVIOUS
  <1>1. ASSUME NEW t \in Thread, Start(t) PROVE IndInv'
    <2>1. ASSUME calls[t] < MaxCalls, calls' = [calls EXCEPT ![t] = @ + 1]
          PROVE  calls' \in [Thread -> 0 .. MaxCalls]
      BY <2>1 DEF IndInv, TypeOK
    <2>2. ASSUME NEW op \in LockedOp, Begin(t, op) PROVE IndInv'
      <3> DEFINE left == IF op = "with_worker" THEN MaxRounds ELSE 0
      <3>1. left \in 0 .. MaxRounds
        OBVIOUS
      <3>2. Goto(t, op, "lock", left)
        BY <2>2 DEF Begin
      <3>3. op # "ep_drop"
        BY DEF LockedOp
      <3> HIDE DEF left
      <3> QED BY <2>1, <2>2, <3>1, <3>2, <3>3, BeginPreserves DEF Begin
    <2>3. CASE BeginWaitRequest(t)
      <3>1. MaxRounds \in 0 .. MaxRounds
        OBVIOUS
      <3> QED BY <2>1, <2>3, <3>1, BeginPreserves DEF BeginWaitRequest
    <2>4. CASE BeginEpDrop(t)
      <3>1. 0 \in 0 .. MaxRounds /\ calls' \in [Thread -> 0 .. MaxCalls]
        BY <2>4 DEF BeginEpDrop, IndInv, TypeOK
      <3> QED BY <2>4, <3>1, BeginPreserves DEF BeginEpDrop
    <2> QED BY <1>1, <2>2, <2>3, <2>4, ClonePreserves, DropHandlePreserves DEF Start
  <1>2. ASSUME NEW t \in Thread, Step(t) PROVE IndInv'
    BY <1>2, NewPreserves, AcquirePreserves, ShortReturnPreserves,
       BodyProgressPreserves, BodyEndPreserves, ProgressEnterPreserves,
       ProgressReturnPreserves, WaitRequestPreserves, DropStorePreserves,
       DropFlushPreserves, DropCheckPreserves, DropDestroyPreserves,
       EpLoadPreserves, EpClosePreserves DEF Step
  <1>3. CASE UNCHANGED vars
    BY <1>3 DEF vars, sync, worker, held, IndInv, TypeOK, CallShape, Calling, Alone,
         Guarded, Inside, Owned, Announced, AtHome, OnlyClosuresPanic
  <1> QED BY <1>1, <1>2, <1>3, TrafficPreserves DEF Next

\* The inductive invariant, the type invariant among it, for any number of
\* threads, handles, calls and rounds: the mutex is held by the thread inside,
\* and who has the worker to itself finds no handle and nobody inside.
THEOREM IndInvHolds == Spec => []IndInv
  BY InitIndInv, NextPreserves, PTL DEF Spec

\* A thread in a UCX call on the worker is inside the mutex or alone with it.
LEMMA InWorkerInsideOrAlone ==
    ASSUME IndInv, NEW t \in Thread, InWorker(t)
    PROVE  Inside(t) \/ Alone(t)
  BY DEF IndInv, CallShape, InWorker, Inside, Calling, Alone, LockedOp

LEMMA AloneMeansNoneInside ==
    ASSUME IndInv, NEW t \in Thread, Alone(t), NEW u \in Thread
    PROVE  ~Calling(u)
  BY DEF IndInv, Owned, TypeOK

\* UCX's SERIALIZED mode is respected, by the drop that takes no lock too, and
\* a worker granted SINGLE never leaves its creator.
THEOREM WorkerSerialized == Spec => []OneThreadInWorker
  <1>1. IndInv => OneThreadInWorker
    <2> SUFFICES ASSUME IndInv PROVE OneThreadInWorker
      OBVIOUS
    <2>1. ASSUME NEW t \in Thread, NEW u \in Thread, InWorker(t), InWorker(u)
          PROVE  t = u
      BY <2>1, InWorkerInsideOrAlone, AloneMeansNoneInside
         DEF Inside, IndInv, Guarded, Owned
    <2>2. ASSUME mode = "single", NEW t \in Thread, InWorker(t) PROVE t = Creator
      BY <2>2, InWorkerInsideOrAlone DEF Inside, IndInv, Owned, AtHome, TypeOK
    <2> QED BY <2>1, <2>2 DEF OneThreadInWorker
  <1> QED BY <1>1, IndInvHolds, PTL

\* No call on the worker, and no check of a request between the rounds of
\* wait_request, finds the worker destroyed.
THEOREM WorkerOutlivesCalls == Spec => []NoUseAfterDestroy
  <1>1. IndInv => NoUseAfterDestroy
    <2> SUFFICES ASSUME IndInv, NEW t \in Thread, InWorker(t) \/ pc[t].at = "check"
                 PROVE  ucx = "live"
      BY DEF NoUseAfterDestroy
    <2>1. Calling(t) \/ Alone(t)
      BY InWorkerInsideOrAlone DEF Inside, IndInv, CallShape, Calling, Alone
    <2> QED BY <2>1 DEF IndInv, Owned, TypeOK
  <1> QED BY <1>1, IndInvHolds, PTL

\* ProgressGuard never fires behind the mutex, and no method panics but for
\* the closure it runs.
THEOREM MethodsDoNotPanic == Spec => []OnlyClosuresPanic
  BY IndInvHolds, PTL DEF IndInv

----------------------------------------------------------------------------
(* MtWorker implements SharedWorker.                                       *)

\* Of the threads, those in the worker, and those that announced its end.
Users == {t \in Thread : InWorker(t)}
Closing == IF alive THEN {} ELSE {t \in Thread : pc[t].op = "drop"}

\* A thread is the only one in the worker while it is inside or alone.
LEMMA UsersAre ==
    ASSUME IndInv, NEW t \in Thread, Inside(t) \/ Alone(t)
    PROVE  /\ Users = IF InWorker(t) THEN {t} ELSE {}
           /\ Closing = IF ~alive /\ pc[t].op = "drop" THEN {t} ELSE {}
           /\ ucx = "live"
           /\ mode = "single" => t = Creator
  <1>1. ASSUME NEW u \in Thread, InWorker(u) PROVE u = t
    BY <1>1, InWorkerInsideOrAlone, AloneMeansNoneInside DEF Inside, IndInv, Guarded, Owned
  <1>2. ASSUME NEW u \in Thread, pc[u].op = "drop" PROVE u = t
    BY <1>2, AloneMeansNoneInside DEF Inside, IndInv, Owned, Alone
  <1>3. ucx = "live" /\ (mode = "single" => t = Creator)
    BY DEF Inside, IndInv, Owned, AtHome, TypeOK
  <1> QED BY <1>1, <1>2, <1>3 DEF Users, Closing

\* The same after a step.
LEMMA UsersAreNext ==
    (IndInv => \A t \in Thread : Inside(t) \/ Alone(t) =>
        /\ Users = IF InWorker(t) THEN {t} ELSE {}
        /\ Closing = IF ~alive /\ pc[t].op = "drop" THEN {t} ELSE {}
        /\ ucx = "live"
        /\ mode = "single" => t = Creator)'
  <1>1. IndInv => \A t \in Thread : Inside(t) \/ Alone(t) =>
            /\ Users = IF InWorker(t) THEN {t} ELSE {}
            /\ Closing = IF ~alive /\ pc[t].op = "drop" THEN {t} ELSE {}
            /\ ucx = "live"
            /\ mode = "single" => t = Creator
    BY UsersAre
  <1> QED BY <1>1, PTL

LEMMA InWorkerNext ==
    (IndInv => \A t \in Thread : InWorker(t) => Inside(t) \/ Alone(t))'
  <1>1. IndInv => \A t \in Thread : InWorker(t) => Inside(t) \/ Alone(t)
    BY InWorkerInsideOrAlone
  <1> QED BY <1>1, PTL

\* A step of one thread, which leaves the places of the others.
Turn(t) ==
    /\ \A u \in Thread \ {t} : pc'[u] = pc[u]
    /\ UNCHANGED mode
    /\ UNCHANGED <<alive, ucx>> \/ DropStore(t) \/ DropDestroy(t)

LEMMA NextIsTurn ==
    ASSUME IndInv, [Next]_vars
    PROVE  \E t \in Thread : Turn(t)
  <1> USE DEF worker, held, Goto, Return
  <1>1. pc \in [Thread -> PC]
    BY DEF IndInv, TypeOK
  <1>2. ASSUME NEW t \in Thread, Start(t) PROVE Turn(t)
    BY <1>1, <1>2 DEF Start, Clone, DropHandle, Begin, BeginWaitRequest, BeginEpDrop, Turn
  <1>3. ASSUME NEW t \in Thread, Step(t) PROVE Turn(t)
    <2>1. CASE \/ New(t) \/ Acquire(t) \/ ShortReturn(t) \/ BodyProgress(t) \/ BodyEnd(t)
               \/ ProgressEnter(t) \/ ProgressReturn(t)
      BY <1>1, <2>1 DEF New, Acquire, ShortReturn, BodyProgress, BodyEnd,
           ProgressEnter, ProgressReturn, Progressed, Turn
    <2>2. CASE \/ WaitRequestCheck(t) \/ DropStore(t) \/ DropFlush(t) \/ DropCheck(t)
               \/ DropDestroy(t) \/ EpLoad(t) \/ EpClose(t)
      BY <1>1, <2>2 DEF WaitRequestCheck, DropStore, DropFlush, DropCheck,
           DropDestroy, EpLoad, EpClose, Turn
    <2> QED BY <1>3, <2>1, <2>2 DEF Step
  <1>4. CASE Traffic \/ UNCHANGED vars
    BY <1>4 DEF Traffic, vars, Turn
  <1> QED BY <1>2, <1>3, <1>4 DEF Next

\* Who has announced the end is the same after a step that leaves the flag and
\* the worker alone.
LEMMA ClosingKept ==
    ASSUME IndInv, IndInv', NEW t \in Thread, Turn(t), UNCHANGED <<alive, ucx>>
    PROVE  Closing' = Closing
  <1>1. CASE alive
    BY <1>1 DEF Closing
  <1>2. CASE ~alive
    <2>1. ASSUME pc[t].op = "drop" PROVE pc'[t].op = "drop"
      <3>1. ucx' = "live" /\ \A u \in Thread \ {t} : pc[u].op # "drop"
        BY <2>1 DEF IndInv, Owned, Alone
      <3> QED BY <1>2, <3>1 DEF Turn, IndInv, Announced
    <2>2. ASSUME pc'[t].op = "drop" PROVE pc[t].op = "drop"
      <3>1. ucx = "live" /\ \A u \in Thread \ {t} : pc'[u].op # "drop"
        BY <2>2 DEF IndInv, Owned, Alone
      <3> QED BY <1>2, <3>1 DEF Turn, IndInv, Announced
    <2> QED BY <2>1, <2>2 DEF Closing, Turn
  <1> QED BY <1>1, <1>2

\* Every turn is a step of SharedWorker or leaves it alone.
LEMMA TurnIsShared ==
    ASSUME IndInv, IndInv', NEW t \in Thread, Turn(t)
    PROVE  Shared!SharedNext \/ UNCHANGED Shared!shared
  <1> USE DEF Users, Closing
  <1> DEFINE home == IF mode = "single" THEN {Creator} ELSE Thread
  <1>1. home' = home
    BY DEF Turn
  <1>2. Users \ {t} = Users' \ {t}
    BY DEF Turn, InWorker
  <1>3. CASE UNCHANGED <<alive, ucx>>
    <2>1. Closing' = Closing /\ ucx' = ucx
      BY <1>3, ClosingKept
    <2>2. CASE ~InWorker(t) /\ InWorker(t)'
      <3>1. /\ Users' = {t}
            /\ Closing' \subseteq {t}
            /\ ucx' = "live"
            /\ mode' = "single" => t = Creator
        BY <2>2, InWorkerNext, UsersAreNext
      <3>2. Users = {}
        BY <1>2, <2>2, <3>1
      <3>3. t \in home /\ ucx # "destroyed"
        BY <1>1, <2>1, <3>1
      <3>4. Shared!Enter(t)
        BY <1>1, <2>1, <3>1, <3>2, <3>3 DEF Shared!Enter
      <3> QED BY <3>4 DEF Shared!SharedNext
    <2>3. CASE InWorker(t) /\ ~InWorker(t)'
      <3>1. Users = {t}
        BY <2>3, InWorkerInsideOrAlone, UsersAre
      <3>2. Users' = {}
        BY <1>2, <2>3, <3>1
      <3>3. Shared!Leave(t)
        BY <1>1, <2>1, <3>1, <3>2 DEF Shared!Leave
      <3> QED BY <3>3 DEF Shared!SharedNext
    <2>4. CASE InWorker(t) <=> InWorker(t)'
      <3>1. Users' = Users
        BY <1>2, <2>4
      <3> QED BY <1>1, <2>1, <3>1 DEF Shared!shared
    <2> QED BY <2>2, <2>3, <2>4
  <1>4. CASE DropStore(t)
    <2>1. Alone(t) /\ ~InWorker(t) /\ alive
      BY <1>4 DEF DropStore, IndInv, CallShape, Alone, Owned, Announced, InWorker
    <2>2. Moves(t, "drop", "flush") /\ ~alive' /\ ucx' = ucx
      <3>1. At("drop", "flush", 0) \in PC
        BY DEF At, PC, Op
      <3> QED BY <1>4, <3>1, GotoMoves DEF DropStore, IndInv
    <2>3. Alone(t)' /\ InWorker(t)'
      BY <2>2 DEF Alone, InWorker, Moves
    <2>4. Users = {} /\ Closing = {} /\ ucx = "live" /\ t \in home
      BY <2>1, UsersAre
    <2>5. Users' = {t} /\ Closing' = {t}
      BY <2>2, <2>3, UsersAreNext DEF Moves
    <2>6. Shared!Close(t)
      BY <1>1, <2>2, <2>4, <2>5 DEF Shared!Close
    <2> QED BY <2>6 DEF Shared!SharedNext
  <1>5. CASE DropDestroy(t)
    <2>1. Alone(t) /\ InWorker(t) /\ ~alive /\ pc[t].op = "drop"
      BY <1>5 DEF DropDestroy, IndInv, CallShape, Alone, Announced, InWorker
    <2>2. Moves(t, "none", "idle") /\ ~alive' /\ ucx' = "destroyed"
      BY <1>5, <2>1, ReturnMoves DEF DropDestroy, IndInv
    <2>3. Users = {t} /\ Closing = {t} /\ ucx = "live"
      BY <2>1, UsersAre
    <2>4. Users' = {}
      BY <1>2, <2>2, <2>3 DEF Moves, InWorker
    <2>5. Closing' = {}
      <3>1. \A u \in Thread : pc'[u].op # "drop"
        BY <2>2 DEF IndInv, Owned, Alone
      <3> QED BY <3>1
    <2>6. Shared!Destroy(t)
      BY <1>1, <2>2, <2>3, <2>4, <2>5 DEF Shared!Destroy
    <2> QED BY <2>6 DEF Shared!SharedNext
  <1> QED BY <1>3, <1>4, <1>5 DEF Turn

\* MtWorker implements SharedWorker: whatever the threads do, the worker is
\* used by one of them at a time, and who drops the last handle announces it,
\* then has the worker alone until it is destroyed.
THEOREM SharedImplemented == Spec => ImplementsShared
  <1>1. Init => Shared!SharedInit
    <2> SUFFICES ASSUME Init PROVE Shared!SharedInit
      OBVIOUS
    <2>1. \A t \in Thread : InWorker(t) <=> t = Creator
      BY DEF Init, InWorker, At, NoOp
    <2>2. {t \in Thread : InWorker(t)} = {Creator}
      BY <2>1
    <2> QED BY <2>2 DEF Init, Shared!SharedInit
  <1>2. IndInv /\ IndInv' /\ [Next]_vars => [Shared!SharedNext]_(Shared!shared)
    BY NextIsTurn, TurnIsShared
  <1> QED BY <1>1, <1>2, IndInvHolds, PTL DEF Spec, ImplementsShared, Shared!SharedSpec
=============================================================================
