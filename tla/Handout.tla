------------------------------ MODULE Handout ------------------------------
(***************************************************************************)
(* What a custom promises about its ROOM ID / PASS, however many sweeps it *)
(* takes to send them: a player gets a version once, and never an older    *)
(* one after a newer one; what the tables call sent did reach the player,  *)
(* and they never take it back.                                            *)
(*                                                                         *)
(* One exception is part of the promise because the code makes it: once a  *)
(* sweep has been torn - cut short, or left without an answer - a player   *)
(* may get again what the tables do not know of.  The order and the tables *)
(* hold even then.                                                         *)
(***************************************************************************)
EXTENDS Naturals

CONSTANTS Users,     \* the players of one custom
          Versions   \* a set of numbers: the versions there may be

VARIABLES entered,   \* the version entered last, 0 before the first
          times,     \* times[u][v]: how often u got version v; 2 is more
          booked,    \* booked[u]: the versions the tables say u was sent
          torn       \* a sweep was cut short, or a message had no answer

handoutVars == <<entered, times, booked, torn>>

HandoutInit ==
    /\ entered = 0
    /\ times = [u \in Users |-> [v \in Versions |-> 0]]
    /\ booked = [u \in Users |-> {}]
    /\ torn = FALSE

\* The credentials are entered, or corrected.
Enter ==
    /\ entered' = entered + 1
    /\ UNCHANGED <<times, booked, torn>>

\* A player who has no newer version gets one that was entered - for the first
\* time, unless something was torn before.  The answer to the message may be lost.
Hand(u, v) ==
    /\ v <= entered
    /\ \A w \in Versions : w > v => times[u][w] = 0
    /\ times[u][v] > 0 => torn
    /\ times' = [times EXCEPT ![u][v] = IF @ = 0 THEN 1 ELSE 2]
    /\ torn' \in {torn, TRUE}
    /\ UNCHANGED <<entered, booked>>

\* A sweep books what it has sent, and takes nothing back.
Book ==
    /\ \A u \in Users : /\ booked[u] \subseteq booked'[u]
                        /\ \A v \in booked'[u] : times[u][v] > 0
    /\ UNCHANGED <<entered, times, torn>>

\* A sweep is cut short: what it sent is with the players and in no table.
Tear ==
    /\ torn' = TRUE
    /\ UNCHANGED <<entered, times, booked>>

HandoutNext ==
    \/ Enter \/ Book \/ Tear
    \/ \E u \in Users, v \in Versions : Hand(u, v)
=============================================================================
