---------------------------- MODULE RequestLife ----------------------------
(***************************************************************************)
(* What the wrappers of UCX requests promise, without how they do it.      *)
(*                                                                         *)
(* The request at an address belongs to UCX, to one object of the program, *)
(* or to nobody.  A TagRequest is given back only after its operation has  *)
(* ended; so are the guards of stream and fetch operations, which may also *)
(* be lost for good.  A loose request, a plain one or one taken out of its *)
(* guard, is the program's to give back at any time: what is still running *)
(* then is an orphan, whose address UCX takes when it ends.                *)
(***************************************************************************)
CONSTANT Addr

VARIABLES
    owner,        \* who has the request at an address
    running       \* whether its operation is running

life == <<owner, running>>

Held == {"tag", "guard", "loose"}

LifeInit ==
    /\ owner = [a \in Addr |-> "ucx"]
    /\ running = [a \in Addr |-> FALSE]

\* An operation starts; one kind of object gets its request.
Start(a, k) ==
    /\ owner[a] = "ucx"
    /\ owner' = [owner EXCEPT ![a] = k]
    /\ running' = [running EXCEPT ![a] = TRUE]

\* Operations end, cancelled or not.  Nobody is waiting for an orphan.
Finish(S) ==
    /\ \A a \in S : running[a]
    /\ owner' = [a \in Addr |-> IF a \in S /\ owner[a] = "orphan"
                                THEN "ucx" ELSE owner[a]]
    /\ running' = [a \in Addr |-> a \notin S /\ running[a]]

\* The request leaves its guard.
Extract(a) ==
    /\ owner[a] \in {"tag", "guard"}
    /\ owner' = [owner EXCEPT ![a] = "loose"]
    /\ UNCHANGED running

\* The object that has the request gives it back, after the end.
GiveBack(a) ==
    /\ owner[a] \in Held
    /\ ~running[a]
    /\ owner' = [owner EXCEPT ![a] = "ucx"]
    /\ UNCHANGED running

\* A loose request is given back before the end, or cancelled with it.
Abandon(a) ==
    /\ owner[a] = "loose"
    /\ running[a]
    /\ \/ /\ owner' = [owner EXCEPT ![a] = "orphan"]
          /\ UNCHANGED running
       \/ /\ owner' = [owner EXCEPT ![a] = "ucx"]
          /\ running' = [running EXCEPT ![a] = FALSE]

\* A stream or fetch guard gives up on its request.
Lose(a) ==
    /\ owner[a] = "guard"
    /\ owner' = [owner EXCEPT ![a] = "lost"]
    /\ UNCHANGED running

LifeNext ==
    \/ \E a \in Addr :
          \/ \E k \in Held : Start(a, k)
          \/ Extract(a) \/ GiveBack(a) \/ Abandon(a) \/ Lose(a)
    \/ \E S \in SUBSET Addr : Finish(S)

LifeSpec == LifeInit /\ [][LifeNext]_life
=============================================================================
