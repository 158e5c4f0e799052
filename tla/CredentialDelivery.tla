------------------------- MODULE CredentialDelivery -------------------------
(***************************************************************************)
(* Sending ROOM ID / PASS of one custom: the sweep of _send_credentials    *)
(* (workers/tasks.py), deliver_one (services/credentials.py), and the      *)
(* corrections of update_credentials (services/events.py).                 *)
(*                                                                         *)
(* A sweep is one database transaction around many Telegram messages: the  *)
(* deliveries rows that keep a player from getting the same version twice  *)
(* are committed when it ends.  A Redis lock per version keeps sweeps      *)
(* apart; it expires after 120 s, is deleted without asking who holds it,  *)
(* and is deleted before the commit.  What starts a sweep (a due job or a  *)
(* late send) and what becomes of the job is in EventLifecycle.            *)
(***************************************************************************)
EXTENDS Naturals, FiniteSets

CONSTANTS Users,       \* the players
          Senders,     \* the processes; each has one connection, so one sweep
          Nobody,      \* no player
          MaxVersion,  \* bound: how often the credentials are entered
          LostAnswers  \* whether Telegram may deliver and the answer be lost

ASSUME NobodyAssumption  == Nobody \notin Users
ASSUME VersionAssumption == MaxVersion \in Nat
ASSUME AnswersAssumption == LostAnswers \in BOOLEAN

Versions == 1..MaxVersion

\* A deliveries row: absent, SENT, or one of FAILED, PERMANENT_FAIL and SKIPPED,
\* which are read alike.
RowStatus == {"none", "sent", "unsent"}

\* What a transaction writes to a row: nothing, a status, or another attempt.
Writes == RowStatus \cup {"counted"}

VARIABLES
    confirmed,    \* the players with a confirmed registration
    version,      \* room_credentials.version, 0 before the first
    row,          \* row[u][v]: the committed deliveries row of u and version v
    lock,         \* the versions whose Redis key exists
    sweep,        \* sweep[s]: the sweep of sender s
    received,     \* history: received[u][v], how often u got version v; 2 is more
    overlapped,   \* history: two sweeps were under way at the same time
    upset         \* history: a sweep was cut short, or a send had no clear result

vars == <<confirmed, version, row, lock, sweep, received, overlapped, upset>>

history == <<received, overlapped, upset>>

Sweep == [phase : {"off", "on", "released"},
          v     : 0..MaxVersion,                   \* the version it read
          todo  : SUBSET Users,                    \* players not handled yet
          at    : Users \cup {Nobody},             \* the player it is busy with
          saw   : RowStatus,                       \* the row it found for them
          got   : RowStatus,                       \* the result to record
          out   : [Users -> Writes],               \* rows written, not committed
          drop  : SUBSET Users]                    \* demotions, not committed

Off == [phase |-> "off", v |-> 0, todo |-> {}, at |-> Nobody, saw |-> "none",
        got |-> "none", out |-> [u \in Users |-> "none"], drop |-> {}]

-----------------------------------------------------------------------------
(* The organizer and the players                                           *)

\* update_credentials: the first credentials, or a correction.
EnterCredentials ==
    /\ version < MaxVersion
    /\ version' = version + 1
    /\ UNCHANGED <<confirmed, row, lock, sweep, history>>

\* A player registers, late or once more.
Qualify(u) ==
    /\ u \notin confirmed
    /\ confirmed' = confirmed \cup {u}
    /\ UNCHANGED <<version, row, lock, sweep, history>>

-----------------------------------------------------------------------------
(* The sweep                                                               *)

Busy(s) == sweep[s].phase = "on"

\* A mistake for KeepsHandout to catch: the sweep sends the version it is told.
StartWith(s) ==
    /\ sweep[s] = Off
    /\ \E v \in 1..version :
          /\ v \notin lock
          /\ lock' = lock \cup {v}
          /\ sweep' = [sweep EXCEPT ![s] = [Off EXCEPT !.phase = "on", !.v = v,
                                                       !.todo = confirmed]]
    /\ overlapped' = (overlapped \/ \E t \in Senders : sweep[t] # Off)
    /\ UNCHANGED <<confirmed, version, row, received, upset>>

\* The lock of the current version is free: the sweep takes it and loads the
\* confirmed registrations.
Start(s) ==
    /\ sweep[s] = Off
    /\ version > 0
    /\ version \notin lock
    /\ lock' = lock \cup {version}
    /\ sweep' = [sweep EXCEPT ![s] = [Off EXCEPT !.phase = "on", !.v = version,
                                                 !.todo = confirmed]]
    /\ overlapped' = (overlapped \/ \E t \in Senders : sweep[t] # Off)
    /\ UNCHANGED <<confirmed, version, row, received, upset>>

\* A mistake for TypeOK to catch: every player is looked at,
\* confirmed or not.
LookAtAll(s, u) ==
    /\ Busy(s)
    /\ sweep[s].at = Nobody
    /\ sweep' = [sweep EXCEPT ![s] = [sweep[s] EXCEPT !.at = u, !.saw = row[u][sweep[s].v]]]
    /\ UNCHANGED <<confirmed, version, row, lock, history>>

\* A mistake for AtMostOnce to catch: the row is not asked.
LookAway(s, u) ==
    /\ Busy(s)
    /\ sweep[s].at = Nobody
    /\ u \in sweep[s].todo
    /\ sweep' = [sweep EXCEPT ![s] = [sweep[s] EXCEPT !.at = u, !.saw = "none"]]
    /\ UNCHANGED <<confirmed, version, row, lock, history>>

\* The next player: nothing to do if the committed row says sent.
Look(s, u) ==
    /\ Busy(s)
    /\ sweep[s].at = Nobody
    /\ u \in sweep[s].todo
    /\ LET r == row[u][sweep[s].v]
       IN sweep' = [sweep EXCEPT ![s] = IF r = "sent"
                                         THEN [sweep[s] EXCEPT !.todo = @ \ {u}]
                                         ELSE [sweep[s] EXCEPT !.at = u, !.saw = r]]
    /\ UNCHANGED <<confirmed, version, row, lock, history>>

\* s has looked at a player and has no result yet.
Checking(s) == Busy(s) /\ sweep[s].at # Nobody /\ sweep[s].got = "none"

\* A membership cannot be verified, or a screenshot is missing: no row, and the
\* next sweep tries again.
Pass(s) ==
    /\ Checking(s)
    /\ sweep' = [sweep EXCEPT ![s] = [sweep[s] EXCEPT !.todo = @ \ {sweep[s].at},
                                                      !.at = Nobody, !.saw = "none"]]
    /\ UNCHANGED <<confirmed, version, row, lock, history>>

\* The player left a channel or is banned, and loses the seat.
Skip(s) ==
    /\ Checking(s)
    /\ sweep' = [sweep EXCEPT ![s] = [sweep[s] EXCEPT !.got = "unsent",
                                                      !.drop = @ \cup {sweep[s].at}]]
    /\ UNCHANGED <<confirmed, version, row, lock, history>>

Deliver(s) == received' = [received EXCEPT ![sweep[s].at][sweep[s].v] = IF @ < 2 THEN @ + 1 ELSE 2]

\* A mistake for SentMeansReceived to catch: the result precedes the message.
SendLater(s) ==
    /\ Checking(s)
    /\ sweep' = [sweep EXCEPT ![s].got = "sent"]
    /\ UNCHANGED <<confirmed, version, row, lock, history>>

Send(s) ==
    /\ Checking(s)
    /\ Deliver(s)
    /\ sweep' = [sweep EXCEPT ![s].got = "sent"]
    /\ UNCHANGED <<confirmed, version, row, lock, overlapped, upset>>

\* send_message raises: the message did not get through - or it did, and the
\* answer was lost.
SendFails(s) ==
    /\ Checking(s)
    /\ sweep' = [sweep EXCEPT ![s].got = "unsent"]
    /\ \/ LostAnswers /\ Deliver(s) /\ upset' = TRUE
       \/ UNCHANGED <<received, upset>>
    /\ UNCHANGED <<confirmed, version, row, lock, overlapped>>

\* Another sweep has written, and not committed, the row s wants to write.
MustWait(s) ==
    \E t \in Senders \ {s} : /\ sweep[t].v = sweep[s].v
                             /\ sweep[t].out[sweep[s].at] # "none"

\* What _upsert_delivery writes for player u.  A row that was not there is
\* looked up again, and left alone if it says sent by now; a row that was there
\* is still held in the session as it was then, and is overwritten - except
\* that a status equal to the held one is not written, only the attempt is
\* counted.
Outcomes(s, u) ==
    IF sweep[s].saw = "none" /\ row[u][sweep[s].v] = "sent" THEN {"none"}
    ELSE {sweep[s].got} \cup (IF sweep[s].got = "unsent" /\ "unsent" \in {sweep[s].saw, row[u][sweep[s].v]}
                              THEN {"counted"} ELSE {})

Record(s) ==
    /\ Busy(s)
    /\ sweep[s].got # "none"
    /\ ~MustWait(s)
    /\ LET u == sweep[s].at
       IN \E o \in Outcomes(s, u) :
             sweep' = [sweep EXCEPT ![s] = [sweep[s] EXCEPT !.out[u] = o, !.todo = @ \ {u},
                                                         !.at = Nobody, !.saw = "none",
                                                         !.got = "none"]]
    /\ UNCHANGED <<confirmed, version, row, lock, history>>

\* Everybody has been handled: the lock goes, whoever holds it by now ...
Release(s) ==
    /\ Busy(s)
    /\ sweep[s].todo = {}
    /\ lock' = lock \ {sweep[s].v}
    /\ sweep' = [sweep EXCEPT ![s].phase = "released"]
    /\ UNCHANGED <<confirmed, version, row, history>>

\* ... and the rows and the demotions are committed.
Commit(s) ==
    /\ sweep[s].phase = "released"
    /\ row' = [u \in Users |-> [v \in Versions |->
                 IF v = sweep[s].v /\ sweep[s].out[u] \in {"sent", "unsent"} THEN sweep[s].out[u]
                 ELSE row[u][v]]]
    /\ confirmed' = confirmed \ sweep[s].drop
    /\ sweep' = [sweep EXCEPT ![s] = Off]
    /\ UNCHANGED <<version, lock, history>>

\* The sweep raises - its INSERT met the row of another sweep, the database
\* refused, at the commit even - and everything it wrote is rolled back.
Abort(s) ==
    /\ sweep[s] # Off
    /\ lock' = IF Busy(s) THEN lock \ {sweep[s].v} ELSE lock
    /\ sweep' = [sweep EXCEPT ![s] = Off]
    /\ upset' = TRUE
    /\ UNCHANGED <<confirmed, version, row, received, overlapped>>

\* The process dies; the lock stays until it expires.
Crash(s) ==
    /\ sweep[s] # Off
    /\ sweep' = [sweep EXCEPT ![s] = Off]
    /\ upset' = TRUE
    /\ UNCHANGED <<confirmed, version, row, lock, received, overlapped>>

\* 120 s have passed, whether or not the sweep is over.
Expire(v) ==
    /\ v \in lock
    /\ lock' = lock \ {v}
    /\ UNCHANGED <<confirmed, version, row, sweep, history>>

-----------------------------------------------------------------------------
Init ==
    /\ confirmed \in SUBSET Users
    /\ version = 0
    /\ row = [u \in Users |-> [v \in Versions |-> "none"]]
    /\ lock = {}
    /\ sweep = [s \in Senders |-> Off]
    /\ received = [u \in Users |-> [v \in Versions |-> 0]]
    /\ overlapped = FALSE
    /\ upset = FALSE

Step(s) ==
    \/ Start(s)
    \/ \E u \in Users : Look(s, u)
    \/ Pass(s) \/ Skip(s) \/ Send(s) \/ SendFails(s)
    \/ Record(s) \/ Release(s) \/ Commit(s)
    \/ Abort(s) \/ Crash(s)

Next ==
    \/ EnterCredentials
    \/ \E u \in Users : Qualify(u)
    \/ \E v \in Versions : Expire(v)
    \/ \E s \in Senders : Step(s)

Spec == Init /\ [][Next]_vars

-----------------------------------------------------------------------------
(* Properties                                                              *)

\* The rows and the sweeps keep their types, and a sweep is busy with nobody
\* but a player it still has to handle.
TypeOK ==
    /\ confirmed \in SUBSET Users
    /\ version \in 0..MaxVersion
    /\ row \in [Users -> [Versions -> RowStatus]]
    /\ lock \in SUBSET Versions
    /\ sweep \in [Senders -> Sweep]
    /\ received \in [Users -> [Versions -> 0..2]]
    /\ overlapped \in BOOLEAN
    /\ upset \in BOOLEAN
    /\ \A s \in Senders : sweep[s].at # Nobody => sweep[s].at \in sweep[s].todo

\* Overlapping sweeps, aborts, crashes and corrections notwithstanding: a
\* delivery that is recorded as sent did reach the player.
SentMeansReceived ==
    \A u \in Users, v \in Versions : row[u][v] = "sent" => received[u][v] > 0

\* Sweeps that follow one another, run to their end and get clear answers send
\* a version to a player at most once.
AtMostOnce ==
    ~overlapped /\ ~upset => \A u \in Users, v \in Versions : received[u][v] <= 1

\* Sweeps that follow one another, even if they are cut short, never give a
\* player an older version after a newer one.
NewestLast ==
    [][~overlapped' => \A u \in Users, v \in Versions :
          received'[u][v] > received[u][v] =>
              \A w \in Versions : w > v => received[u][w] = 0]_vars

\* Sweeps that follow one another never take back that a version was sent.
SentIsFinal ==
    [][~overlapped => \A u \in Users, v \in Versions :
          row[u][v] = "sent" => row'[u][v] = "sent"]_vars

\* Until two sweeps overlap every step is a step of the handout: sweeps that
\* follow one another, cut short or not, keep what it promises.
Promise == INSTANCE Handout
             WITH entered <- version,
                  times <- received,
                  booked <- [u \in Users |-> {v \in Versions : row[u][v] = "sent"}],
                  torn <- upset

KeepsHandout ==
    Promise!HandoutInit /\ [][~overlapped' => Promise!HandoutNext]_<<Promise!handoutVars>>

\* docs/USE_CASES.md:27, docs/ARCHITECTURE.md:59, docs/ACCEPTANCE.md:11: the
\* password reaches a player once only; restarts and several workers do not
\* make it go out again.
NeverTwice == \A u \in Users, v \in Versions : received[u][v] <= 1
=============================================================================
