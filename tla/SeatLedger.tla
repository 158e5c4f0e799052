----------------------------- MODULE SeatLedger -----------------------------
(***************************************************************************)
(* What a custom promises about its seats, whoever asks and in whatever    *)
(* order: at most Capacity players hold one (0 means as many as show up),  *)
(* a player waits only when no seat is free, and a seat taken back by the  *)
(* organizer goes to the player who has waited longest.                    *)
(*                                                                         *)
(* One exception is part of the promise because the code makes it: seats   *)
(* lost in a delivery sweep are released without calling anybody.          *)
(***************************************************************************)
EXTENDS Integers, FiniteSets

CONSTANTS Users,     \* the players of one custom
          Capacity   \* events.capacity; 0 is unlimited

VARIABLES seated,    \* the players who hold a seat
          rank       \* rank[u]: u's place in the waitlist, 0 when not waiting

ledgerVars == <<seated, rank>>

Waiting == {u \in Users : rank[u] # 0}

Room == Capacity = 0 \/ Cardinality(seated) < Capacity

\* The waiter with the smallest rank.
IsFirst(w) == w \in Waiting /\ \A v \in Waiting : rank[w] <= rank[v]

LedgerInit ==
    /\ seated = {}
    /\ rank = [u \in Users |-> 0]

\* A player who neither sits nor waits takes a free seat.
Take(u) ==
    /\ u \notin seated
    /\ rank[u] = 0
    /\ Room
    /\ seated' = seated \cup {u}
    /\ UNCHANGED rank

\* No seat is free: the player goes behind everybody who waits.
Wait(u) ==
    /\ u \notin seated
    /\ rank[u] = 0
    /\ ~Room
    /\ rank'[u] \in Nat \ {0}
    /\ \A v \in Waiting : rank[v] < rank'[u]
    /\ rank' = [rank EXCEPT ![u] = rank'[u]]
    /\ UNCHANGED seated

\* A seat is taken back; the first waiter, if there is one, gets it at once.
HandOver(u) ==
    /\ u \in seated
    /\ \/ /\ Waiting = {}
          /\ seated' = seated \ {u}
          /\ UNCHANGED rank
       \/ \E w \in Waiting :
             /\ IsFirst(w)
             /\ seated' = (seated \ {u}) \cup {w}
             /\ rank' = [rank EXCEPT ![w] = 0]

\* A sweep takes back the seats of D and calls nobody.
Release(D) ==
    /\ D \subseteq seated
    /\ seated' = seated \ D
    /\ UNCHANGED rank

LedgerNext ==
    \/ \E u \in Users : Take(u) \/ Wait(u) \/ HandOver(u)
    \/ \E D \in SUBSET Users : Release(D)
=============================================================================
