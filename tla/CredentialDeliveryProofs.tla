---------------------- MODULE CredentialDeliveryProofs ----------------------
(***************************************************************************)
(* Theorems about CredentialDelivery, for any players, any senders and any *)
(* number of corrections.                                                  *)
(***************************************************************************)
EXTENDS CredentialDelivery, TLAPS

-----------------------------------------------------------------------------
(* The inductive invariant                                                 *)

\* A sweep that is off has nothing left over; a player it still has to handle
\* has no uncommitted row; only a sweep that is on is busy with somebody.
Sweeps ==
    \A s \in Senders :
        /\ sweep[s].phase = "off" => sweep[s] = Off
        /\ sweep[s].phase # "off" => sweep[s].v \in 1..version
        /\ sweep[s].phase # "on" => sweep[s].at = Nobody
        /\ sweep[s].got # "none" => sweep[s].at # Nobody
        /\ \A u \in sweep[s].todo : sweep[s].out[u] = "none"

Active(s) == sweep[s].phase # "off"

\* Until sweeps overlap, at most one is under way.
Alone ==
    ~overlapped => \A s, t \in Senders : Active(s) /\ Active(t) => s = t

\* Sweep s holds the news, not committed yet, that u got the credentials.
Claims(s, u) ==
    \/ sweep[s].out[u] = "sent"
    \/ sweep[s].at = u /\ sweep[s].got = "sent"

\* What is recorded, or about to be, has reached the player.
Evidence ==
    /\ SentMeansReceived
    /\ \A s \in Senders, u \in Users : Claims(s, u) => received[u][sweep[s].v] > 0

\* Until sweeps overlap, the rows stay as the sweep found them, and it writes
\* to none that says sent.
RowsStand ==
    ~overlapped => \A s \in Senders : Active(s) =>
        /\ \A u \in Users : sweep[s].out[u] # "none" => row[u][sweep[s].v] # "sent"
        /\ sweep[s].at # Nobody => /\ sweep[s].saw # "sent"
                                   /\ sweep[s].saw = row[sweep[s].at][sweep[s].v]

\* Until then, and as long as nothing is cut short, whoever got a version has a
\* row, committed or not, that says so.
Once ==
    ~overlapped /\ ~upset => \A u \in Users, v \in Versions :
        received[u][v] > 0 =>
            /\ received[u][v] = 1
            /\ \/ row[u][v] = "sent"
               \/ \E s \in Senders : sweep[s].v = v /\ Claims(s, u)

\* Nobody has got credentials that were not entered, and until sweeps overlap
\* nobody has got newer ones than those being sent.
Newest ==
    /\ \A u \in Users, v \in Versions : received[u][v] > 0 => v <= version
    /\ ~overlapped => \A s \in Senders : Active(s) =>
          \A u \in Users, v \in Versions : v > sweep[s].v => received[u][v] = 0

IInv == TypeOK /\ Sweeps /\ Alone /\ Evidence /\ RowsStand /\ Once /\ Newest

-----------------------------------------------------------------------------
(* Typing                                                                  *)

\* The sweep that is off is a sweep, and one that has just started is.
LEMMA OffTyped == Off \in Sweep
BY VersionAssumption DEF Off, Sweep, RowStatus, Writes



\* The part of TypeOK that is about the sweeps.
SweepsTyped ==
    /\ sweep \in [Senders -> Sweep]
    /\ \A s \in Senders : sweep[s].at # Nobody => sweep[s].at \in sweep[s].todo

\* The sweeps keep their types if one becomes a sweep that is busy with nobody,
\* or with a player it still has to handle.
LEMMA Becomes ==
    ASSUME SweepsTyped, NEW s \in Senders, NEW w \in Sweep,
           w.at # Nobody => w.at \in w.todo, sweep' = [sweep EXCEPT ![s] = w]
    PROVE  SweepsTyped'
<1>1. \A t \in Senders : sweep'[t] = IF t = s THEN w ELSE sweep[t]
  BY DEF SweepsTyped
<1>2. sweep' \in [Senders -> Sweep]
  BY DEF SweepsTyped
<1> QED
  BY <1>1, <1>2 DEF SweepsTyped

\* What reaches a player is counted for the player the sweep is busy with.
LEMMA Delivered ==
    ASSUME received \in [Users -> [Versions -> 0..2]], NEW s \in Senders, Deliver(s)
    PROVE  /\ received' \in [Users -> [Versions -> 0..2]]
           /\ \A u \in Users, v \in Versions :
                 received'[u][v] = IF u = sweep[s].at /\ v = sweep[s].v
                                   THEN IF received[u][v] < 2 THEN received[u][v] + 1 ELSE 2
                                   ELSE received[u][v]
<1>1. \A u \in Users, v \in Versions :
          received'[u][v] = IF u = sweep[s].at /\ v = sweep[s].v
                            THEN IF received[u][v] < 2 THEN received[u][v] + 1 ELSE 2
                            ELSE received[u][v]
  BY DEF Deliver
<1>2. received' \in [Users -> [Versions -> 0..2]]
  <2> DEFINE v == sweep[s].v
             n == IF received[sweep[s].at][v] < 2 THEN received[sweep[s].at][v] + 1 ELSE 2
  <2>1. received' = [received EXCEPT ![sweep[s].at] = [received[sweep[s].at] EXCEPT ![v] = n]]
    BY DEF Deliver
  <2>2. ASSUME sweep[s].at \in Users
        PROVE  [received[sweep[s].at] EXCEPT ![v] = n] \in [Versions -> 0..2]
    <3>1. received[sweep[s].at] \in [Versions -> 0..2]
      BY <2>2
    <3>2. v \in Versions => n \in 0..2
      BY <3>1
    <3> QED
      BY <3>1, <3>2
  <2> HIDE DEF v, n
  <2> QED
    BY <2>1, <2>2
<1> QED
  BY <1>1, <1>2

\* Every step keeps the types.
LEMMA TypeStep == TypeOK /\ Sweeps /\ [Next]_vars => TypeOK'
<1> SUFFICES ASSUME TypeOK, Sweeps, [Next]_vars PROVE TypeOK'
  OBVIOUS
<1> USE NobodyAssumption, VersionAssumption DEF Versions, history
<1>0. SweepsTyped
  BY DEF TypeOK, SweepsTyped
<1>1. CASE EnterCredentials
  BY <1>1 DEF EnterCredentials, TypeOK
<1>2. ASSUME NEW u \in Users, Qualify(u) PROVE TypeOK'
  BY <1>2 DEF Qualify, TypeOK
<1>3. ASSUME NEW v \in Versions, Expire(v) PROVE TypeOK'
  BY <1>3 DEF Expire, TypeOK
<1>4. ASSUME NEW s \in Senders, Step(s) PROVE TypeOK'
  <2>0. sweep[s] \in Sweep /\ (sweep[s].at # Nobody => sweep[s].at \in sweep[s].todo)
    BY <1>4 DEF TypeOK
  <2>a. Off.at = Nobody
    BY DEF Off
  <2>1. CASE Start(s)
    <3> DEFINE w == [Off EXCEPT !.phase = "on", !.v = version, !.todo = confirmed]
    <3>1. w \in Sweep /\ (w.at # Nobody => w.at \in w.todo)
      BY <2>0, <2>1, OffTyped DEF Off, Sweep, TypeOK
    <3>2. sweep' = [sweep EXCEPT ![s] = w]
      BY <2>1 DEF Start
    <3> HIDE DEF w
    <3>3. SweepsTyped'
      BY <1>0, <1>4, <3>1, <3>2, Becomes
    <3> QED
      BY <1>4, <2>1, <3>3 DEF Start, SweepsTyped, TypeOK
  <2>2. ASSUME NEW u \in Users, Look(s, u) PROVE TypeOK'
    <3> DEFINE r == row[u][sweep[s].v]
               w == IF r = "sent" THEN [sweep[s] EXCEPT !.todo = @ \ {u}]
                    ELSE [sweep[s] EXCEPT !.at = u, !.saw = r]
    <3>a. sweep[s].v \in Versions
      BY <1>4, <2>0, <2>2 DEF Look, Busy, Sweeps, Sweep, TypeOK
    <3>b. r \in RowStatus
      BY <3>a DEF TypeOK
    <3>1. w \in Sweep /\ (w.at # Nobody => w.at \in w.todo)
      <4> HIDE DEF r
      <4> QED
        BY <2>0, <2>2, <3>b DEF Look, Sweep
    <3>2. sweep' = [sweep EXCEPT ![s] = w]
      BY <2>2 DEF Look
    <3> HIDE DEF w
    <3>3. SweepsTyped'
      BY <1>0, <1>4, <3>1, <3>2, Becomes
    <3> QED
      BY <1>4, <2>2, <3>3 DEF Look, SweepsTyped, TypeOK
  <2>3. CASE Pass(s)
    <3> DEFINE w == [sweep[s] EXCEPT !.todo = @ \ {sweep[s].at}, !.at = Nobody, !.saw = "none"]
    <3>1. w \in Sweep /\ (w.at # Nobody => w.at \in w.todo)
      BY <2>0, <2>3 DEF Sweep, RowStatus
    <3>2. sweep' = [sweep EXCEPT ![s] = w]
      BY <2>3 DEF Pass
    <3> HIDE DEF w
    <3>3. SweepsTyped'
      BY <1>0, <1>4, <3>1, <3>2, Becomes
    <3> QED
      BY <1>4, <2>3, <3>3 DEF Pass, SweepsTyped, TypeOK
  <2>4. CASE Skip(s)
    <3> DEFINE w == [sweep[s] EXCEPT !.got = "unsent", !.drop = @ \cup {sweep[s].at}]
    <3>1. w \in Sweep /\ (w.at # Nobody => w.at \in w.todo)
      BY <2>0, <2>4 DEF Skip, Checking, Sweep, RowStatus
    <3>2. sweep' = [sweep EXCEPT ![s] = w]
      BY <2>4 DEF Skip
    <3> HIDE DEF w
    <3>3. SweepsTyped'
      BY <1>0, <1>4, <3>1, <3>2, Becomes
    <3> QED
      BY <1>4, <2>4, <3>3 DEF Skip, SweepsTyped, TypeOK
  <2>5. CASE Send(s)
    <3> DEFINE w == [sweep[s] EXCEPT !.got = "sent"]
    <3>1. w \in Sweep /\ (w.at # Nobody => w.at \in w.todo)
      BY <2>0, <2>5 DEF Sweep, RowStatus
    <3>2. sweep' = [sweep EXCEPT ![s] = w]
      BY <2>5 DEF Send
    <3> HIDE DEF w
    <3>3. SweepsTyped'
      BY <1>0, <1>4, <3>1, <3>2, Becomes
    <3> QED
      BY <1>4, <2>5, <3>3, Delivered DEF Send, SweepsTyped, TypeOK
  <2>6. CASE SendFails(s)
    <3> DEFINE w == [sweep[s] EXCEPT !.got = "unsent"]
    <3>1. w \in Sweep /\ (w.at # Nobody => w.at \in w.todo)
      BY <2>0, <2>6 DEF Sweep, RowStatus
    <3>2. sweep' = [sweep EXCEPT ![s] = w]
      BY <2>6 DEF SendFails
    <3> HIDE DEF w
    <3>3. SweepsTyped'
      BY <1>0, <1>4, <3>1, <3>2, Becomes
    <3> QED
      BY <1>4, <2>6, <3>3, Delivered DEF SendFails, SweepsTyped, TypeOK
  <2>7. CASE Record(s)
    <3> DEFINE u == sweep[s].at
    <3>a. PICK o \in Outcomes(s, u) :
            sweep' = [sweep EXCEPT ![s] = [sweep[s] EXCEPT !.out[u] = o, !.todo = @ \ {u},
                                                    !.at = Nobody, !.saw = "none",
                                                    !.got = "none"]]
      BY <2>7 DEF Record
    <3> DEFINE w == [sweep[s] EXCEPT !.out[u] = o, !.todo = @ \ {u}, !.at = Nobody,
                                     !.saw = "none", !.got = "none"]
    <3>b. o \in Writes
      BY <2>0 DEF Outcomes, Writes, RowStatus, Sweep
    <3>1. w \in Sweep /\ (w.at # Nobody => w.at \in w.todo)
      BY <2>0, <3>b DEF Sweep, RowStatus
    <3>2. sweep' = [sweep EXCEPT ![s] = w]
      BY <3>a
    <3> HIDE DEF w
    <3>3. SweepsTyped'
      BY <1>0, <1>4, <3>1, <3>2, Becomes
    <3> QED
      BY <1>4, <2>7, <3>3 DEF Record, SweepsTyped, TypeOK
  <2>8. CASE Release(s)
    <3> DEFINE w == [sweep[s] EXCEPT !.phase = "released"]
    <3>1. w \in Sweep /\ (w.at # Nobody => w.at \in w.todo)
      BY <2>0, <2>8 DEF Sweep
    <3>2. sweep' = [sweep EXCEPT ![s] = w]
      BY <2>8 DEF Release
    <3> HIDE DEF w
    <3>3. SweepsTyped'
      BY <1>0, <1>4, <3>1, <3>2, Becomes
    <3> QED
      BY <1>4, <2>8, <3>3 DEF Release, SweepsTyped, TypeOK
  <2>9. CASE Commit(s)
    <3>1. SweepsTyped'
      BY <1>0, <1>4, <2>9, <2>a, OffTyped, Becomes DEF Commit
    <3>2. \A u \in Users : sweep[s].out[u] \in {"sent", "unsent"} => sweep[s].out[u] \in RowStatus
      BY DEF RowStatus
    <3>3. row' \in [Users -> [Versions -> RowStatus]]
      BY <1>4, <2>9, <3>2 DEF Commit, TypeOK
    <3> QED
      BY <1>4, <2>9, <3>1, <3>3 DEF Commit, SweepsTyped, TypeOK
  <2>10. CASE Abort(s)
    <3>1. SweepsTyped'
      BY <1>0, <1>4, <2>10, <2>a, OffTyped, Becomes DEF Abort
    <3> QED
      BY <1>4, <2>10, <3>1 DEF Abort, SweepsTyped, TypeOK
  <2>11. CASE Crash(s)
    <3>1. SweepsTyped'
      BY <1>0, <1>4, <2>11, <2>a, OffTyped, Becomes DEF Crash
    <3> QED
      BY <1>4, <2>11, <3>1 DEF Crash, SweepsTyped, TypeOK
  <2> QED
    BY <1>4, <2>1, <2>2, <2>3, <2>4, <2>5, <2>6, <2>7, <2>8, <2>9, <2>10, <2>11 DEF Step
<1>5. CASE UNCHANGED vars
  BY <1>5 DEF vars, TypeOK
<1> QED
  BY <1>1, <1>2, <1>3, <1>4, <1>5 DEF Next

-----------------------------------------------------------------------------
(* The invariant is inductive                                            *)

\* A step of one sender leaves the sweeps of the others alone.
LEMMA Others ==
    ASSUME SweepsTyped, NEW s \in Senders, Step(s)
    PROVE  \A t \in Senders \ {s} : sweep'[t] = sweep[t]
<1>1. ASSUME NEW w, sweep' = [sweep EXCEPT ![s] = w]
      PROVE  \A t \in Senders \ {s} : sweep'[t] = sweep[t]
  BY <1>1 DEF SweepsTyped
<1>2. CASE Start(s)
  BY <1>1, <1>2 DEF Start
<1>3. CASE \E u \in Users : Look(s, u)
  BY <1>1, <1>3 DEF Look
<1>4. CASE Pass(s)
  BY <1>1, <1>4 DEF Pass
<1>5. CASE Skip(s)
  BY <1>1, <1>5 DEF Skip
<1>6. CASE Send(s)
  BY <1>6 DEF Send, SweepsTyped
<1>7. CASE SendFails(s)
  BY <1>7 DEF SendFails, SweepsTyped
<1>8. CASE Record(s)
  BY <1>1, <1>8 DEF Record
<1>9. CASE Release(s)
  BY <1>9 DEF Release, SweepsTyped
<1>10. CASE Commit(s)
  BY <1>1, <1>10 DEF Commit
<1>11. CASE Abort(s)
  BY <1>1, <1>11 DEF Abort
<1>12. CASE Crash(s)
  BY <1>1, <1>12 DEF Crash
<1> QED
  BY <1>2, <1>3, <1>4, <1>5, <1>6, <1>7, <1>8, <1>9, <1>10, <1>11, <1>12 DEF Step

\* Nothing but what a sweep is busy with changes: who is under way, what each
\* sweep sends and has written, the rows and what reached the players stay.
Quiet ==
    /\ \A t \in Senders : /\ sweep'[t].v = sweep[t].v
                          /\ sweep'[t].out = sweep[t].out
                          /\ Active(t)' = Active(t)
    /\ row' = row /\ received' = received /\ overlapped' = overlapped /\ upset' = upset
    /\ version' \in Nat /\ version' >= version

\* A quiet step that changes no claim keeps what is said about the whole.
LEMMA QuietStep ==
    ASSUME IInv, Quiet, \A t \in Senders, u \in Users : Claims(t, u)' <=> Claims(t, u)
    PROVE  Alone' /\ Evidence' /\ Once' /\ Newest'
<1>1. Alone'
  BY DEF IInv, Alone, Quiet
<1>2. Evidence'
  BY DEF IInv, Evidence, SentMeansReceived, Quiet
<1>3. Once'
  BY DEF IInv, Once, Quiet
<1>4. Newest'
  <2> version \in Nat
    BY VersionAssumption DEF IInv, TypeOK
  <2>1. \A u \in Users, v \in Versions : v \in Nat
    BY VersionAssumption DEF Versions
  <2> QED
    BY <2>1 DEF IInv, Newest, Quiet
<1> QED
  BY <1>1, <1>2, <1>3, <1>4

\* What a quiet step of sender s has to show: the sweep of s is as it should be.
LEMMA QuietSweep ==
    ASSUME IInv, Quiet, NEW s \in Senders, \A t \in Senders \ {s} : sweep'[t] = sweep[t],
           \A u \in Users : Claims(s, u)' <=> Claims(s, u),
           Active(s), sweep'[s].phase # "on" => sweep'[s].at = Nobody,
           sweep'[s].got # "none" => sweep'[s].at # Nobody,
           sweep'[s].todo \subseteq sweep[s].todo,
           sweep'[s].at # Nobody =>
               \/ sweep'[s].at = sweep[s].at /\ sweep'[s].saw = sweep[s].saw
               \/ /\ sweep'[s].saw # "sent"
                  /\ sweep'[s].saw = row[sweep'[s].at][sweep[s].v],
           TypeOK'
    PROVE  IInv'
<1>1. Sweeps'
  <2> SUFFICES ASSUME NEW t \in Senders
               PROVE  /\ sweep'[t].phase = "off" => sweep'[t] = Off
                      /\ sweep'[t].phase # "off" => sweep'[t].v \in 1..version'
                      /\ sweep'[t].phase # "on" => sweep'[t].at = Nobody
                      /\ sweep'[t].got # "none" => sweep'[t].at # Nobody
                      /\ \A u \in sweep'[t].todo : sweep'[t].out[u] = "none"
    BY DEF Sweeps
  <2>0. /\ sweep[t].phase = "off" => sweep[t] = Off
        /\ sweep[t].phase # "off" => sweep[t].v \in 1..version
        /\ sweep[t].phase # "on" => sweep[t].at = Nobody
        /\ sweep[t].got # "none" => sweep[t].at # Nobody
        /\ \A u \in sweep[t].todo : sweep[t].out[u] = "none"
    BY DEF IInv, Sweeps
  <2>1. version \in Nat /\ version' \in Nat /\ version' >= version
    BY VersionAssumption DEF IInv, TypeOK, Quiet
  <2>2. \A n \in 1..version : n \in 1..version'
    BY <2>1
  <2>3. CASE t = s
    <3>1. sweep'[s].phase # "off"
      BY DEF Quiet, Active
    <3>2. sweep'[s].v \in 1..version'
      BY <2>0, <2>2, <2>3 DEF Quiet, Active
    <3>3. \A u \in sweep'[s].todo : sweep'[s].out[u] = "none"
      BY <2>0, <2>3 DEF Quiet
    <3> QED
      BY <2>3, <3>1, <3>2, <3>3
  <2>4. CASE t # s
    BY <2>0, <2>2, <2>4
  <2> QED
    BY <2>3, <2>4
<1>2. RowsStand'
  <2> SUFFICES ASSUME ~overlapped', NEW t \in Senders, Active(t)'
               PROVE  /\ \A u \in Users : sweep'[t].out[u] # "none" => row'[u][sweep'[t].v] # "sent"
                      /\ sweep'[t].at # Nobody => /\ sweep'[t].saw # "sent"
                                                  /\ sweep'[t].saw = row'[sweep'[t].at][sweep'[t].v]
    BY DEF RowsStand
  <2>0. /\ \A u \in Users : sweep[t].out[u] # "none" => row[u][sweep[t].v] # "sent"
        /\ sweep[t].at # Nobody => /\ sweep[t].saw # "sent"
                                   /\ sweep[t].saw = row[sweep[t].at][sweep[t].v]
    BY DEF IInv, RowsStand, Quiet
  <2>1. CASE t = s
    BY <2>0, <2>1 DEF Quiet
  <2>2. CASE t # s
    BY <2>0, <2>2 DEF Quiet
  <2> QED
    BY <2>1, <2>2
<1>3. \A t \in Senders, u \in Users : Claims(t, u)' <=> Claims(t, u)
  BY DEF Claims
<1> QED
  BY <1>1, <1>2, <1>3, QuietStep DEF IInv

\* The organizer, the players and the clock leave the sweeps alone.
LEMMA OutsideStep ==
    ASSUME IInv, TypeOK', UNCHANGED <<row, sweep, history>>, version' >= version
    PROVE  IInv'
<1>1. version \in Nat /\ version' \in Nat
  BY VersionAssumption DEF IInv, TypeOK
<1>2. Quiet
  BY <1>1 DEF Quiet, Active, history
<1>3. \A t \in Senders, u \in Users : Claims(t, u)' <=> Claims(t, u)
  BY DEF Claims
<1>4. Sweeps'
  <2>1. \A n \in 1..version : n \in 1..version'
    BY <1>1
  <2> QED
    BY <2>1 DEF IInv, Sweeps
<1>5. RowsStand'
  BY DEF IInv, RowsStand, Active, history
<1> QED
  BY <1>2, <1>3, <1>4, <1>5, QuietStep DEF IInv

\* When sweep s ends, nothing is under way until sweeps overlap, and what is
\* recorded from then on is what s had written.
LEMMA SweepEnds ==
    ASSUME IInv, NEW s \in Senders, Active(s), sweep'[s] = Off,
           \A t \in Senders \ {s} : sweep'[t] = sweep[t],
           received' = received, overlapped' = overlapped, version' = version,
           \A u \in Users, v \in Versions : row'[u][v] = "sent" =>
               row[u][v] = "sent" \/ (sweep[s].v = v /\ sweep[s].out[u] = "sent"),
           Once', TypeOK'
    PROVE  IInv'
<1>o. /\ Off.phase = "off" /\ Off.at = Nobody /\ Off.got = "none" /\ Off.todo = {}
      /\ \A u \in Users : Off.out[u] = "none"
  BY DEF Off
<1>1. Sweeps'
  BY <1>o DEF IInv, Sweeps
<1>2. \A t \in Senders : Active(t)' => Active(t) /\ t # s
  BY <1>o DEF Active
<1>3. Alone'
  BY <1>2 DEF IInv, Alone
<1>4. ASSUME ~overlapped' PROVE \A t \in Senders : ~Active(t)'
  BY <1>2, <1>4 DEF IInv, Alone
<1>5. Evidence'
  <2>1. SentMeansReceived'
    BY DEF IInv, Evidence, SentMeansReceived, Claims
  <2>2. ASSUME NEW t \in Senders, NEW u \in Users, Claims(t, u)'
        PROVE  received'[u][sweep'[t].v] > 0
    <3>1. t # s
      BY <1>o, <2>2, NobodyAssumption DEF Claims
    <3>2. sweep'[t] = sweep[t]
      BY <3>1
    <3>3. Claims(t, u)
      BY <2>2, <3>2 DEF Claims
    <3> QED
      BY <3>2, <3>3 DEF IInv, Evidence
  <2> QED
    BY <2>1, <2>2 DEF Evidence
<1>6. RowsStand'
  BY <1>4 DEF RowsStand
<1>7. Newest'
  BY <1>4 DEF IInv, Newest
<1> QED
  BY <1>1, <1>3, <1>5, <1>6, <1>7 DEF IInv

\* A sweep starts: it has written nothing and is busy with nobody.
LEMMA StartStep ==
    ASSUME IInv, TypeOK', NEW s \in Senders, Start(s),
           \A t \in Senders \ {s} : sweep'[t] = sweep[t]
    PROVE  IInv'
<1>t. version \in Nat \ {0} /\ version' = version /\ row' = row /\ received' = received
  BY VersionAssumption DEF IInv, TypeOK, Start
<1>o. sweep[s] = Off /\ Off.phase = "off" /\ Off.at = Nobody
      /\ \A u \in Users : Off.out[u] = "none"
  BY DEF Off, Start
<1>1. /\ sweep'[s].phase = "on" /\ sweep'[s].v = version /\ sweep'[s].at = Nobody
      /\ sweep'[s].got = "none" /\ \A u \in Users : sweep'[s].out[u] = "none"
      /\ sweep'[s].todo \subseteq Users
  BY DEF Start, Off, IInv, TypeOK
<1>2. ASSUME ~overlapped'
      PROVE  ~overlapped /\ \A t \in Senders : ~Active(t) /\ (t # s => ~Active(t)')
  <2>1. \A t \in Senders : sweep[t] = Off
    BY <1>2 DEF Start
  <2>2. \A t \in Senders : ~Active(t) /\ (t # s => ~Active(t)')
    BY <1>o, <2>1 DEF Active
  <2> QED
    BY <1>2, <2>2 DEF Start
<1>3. Sweeps'
  <2>1. version \in 1..version
    BY <1>t
  <2> QED
    BY <1>t, <1>1, <2>1 DEF IInv, Sweeps
<1>4. Alone'
  BY <1>2 DEF Alone
<1>5. \A t \in Senders, u \in Users :
        Claims(t, u)' => t # s /\ Claims(t, u) /\ sweep'[t].v = sweep[t].v
  BY <1>1, NobodyAssumption DEF Claims
<1>6. Evidence'
  BY <1>t, <1>5 DEF IInv, Evidence, SentMeansReceived
<1>7. RowsStand'
  BY <1>1, <1>2 DEF RowsStand
<1>8. Once'
  <2> SUFFICES ASSUME ~overlapped', ~upset', NEW u \in Users, NEW v \in Versions,
                      received[u][v] > 0
               PROVE  received[u][v] = 1 /\ row[u][v] = "sent"
    BY <1>t DEF Once
  <2>1. ~overlapped /\ ~upset
    BY <1>2 DEF Start
  <2>2. \A t \in Senders : ~Claims(t, u)
    <3>1. \A t \in Senders : sweep[t] = Off
      BY DEF Start
    <3> QED
      BY <1>o, <3>1, NobodyAssumption DEF Claims
  <2> QED
    BY <2>1, <2>2 DEF IInv, Once
<1>9. Newest'
  <2>1. \A u \in Users, v \in Versions : v > version => received[u][v] = 0
    <3> TAKE u \in Users, v \in Versions
    <3>0. received \in [Users -> [Versions -> 0..2]]
      BY DEF IInv, TypeOK
    <3>1. v \in Nat /\ received[u][v] \in Nat
      BY <3>0, VersionAssumption DEF Versions
    <3>2. received[u][v] > 0 => v <= version
      BY DEF IInv, Newest
    <3> QED
      BY <1>t, <3>1, <3>2
  <2>2. ASSUME ~overlapped', NEW t \in Senders, Active(t)' PROVE sweep'[t].v = version
    BY <1>1, <1>2, <2>2
  <2> QED
    BY <1>t, <2>1, <2>2 DEF IInv, Newest
<1> QED
  BY <1>3, <1>4, <1>6, <1>7, <1>8, <1>9 DEF IInv

\* A message is sent, with whatever result: the player had not got this version
\* if nothing had gone wrong, and has got no newer one.
LEMMA ResultStep ==
    ASSUME IInv, TypeOK', NEW s \in Senders, Checking(s),
           \A t \in Senders \ {s} : sweep'[t] = sweep[t],
           sweep'[s].phase = "on", sweep'[s].v = sweep[s].v, sweep'[s].at = sweep[s].at,
           sweep'[s].saw = sweep[s].saw, sweep'[s].todo = sweep[s].todo,
           sweep'[s].out = sweep[s].out, sweep'[s].got \in {"sent", "unsent"},
           UNCHANGED <<version, row, overlapped>>,
           Deliver(s) \/ received' = received,
           sweep'[s].got = "sent" => Deliver(s),
           \/ upset'
           \/ upset' = upset /\ (sweep'[s].got = "sent" \/ received' = received)
    PROVE  IInv'
<1> DEFINE me == sweep[s].at
           mine == sweep[s].v
<1>t. /\ me \in Users /\ me \in sweep[s].todo /\ mine \in Versions /\ Active(s)
      /\ sweep[s].out[me] = "none" /\ sweep[s].got = "none" /\ sweep[s].phase = "on"
  <2>1. me # Nobody /\ sweep[s].phase = "on" /\ sweep[s].got = "none"
    BY DEF Checking, Busy
  <2>2. me \in Users /\ me \in sweep[s].todo
    BY <2>1 DEF IInv, TypeOK, Sweep
  <2>3. mine \in 1..version /\ sweep[s].out[me] = "none"
    BY <2>1, <2>2 DEF IInv, Sweeps
  <2>4. version \in 0..MaxVersion
    BY DEF IInv, TypeOK
  <2> QED
    BY <2>1, <2>2, <2>3, <2>4, VersionAssumption DEF Versions, Active
<1>r. \A u \in Users, v \in Versions :
          /\ received[u][v] \in 0..2 /\ received'[u][v] \in 0..2
          /\ received'[u][v] >= received[u][v]
          /\ received'[u][v] # received[u][v] => u = me /\ v = mine
          /\ Deliver(s) /\ u = me /\ v = mine =>
                received'[u][v] > 0 /\ (received[u][v] = 0 => received'[u][v] = 1)
  <2> TAKE u \in Users, v \in Versions
  <2>1. received[u][v] \in 0..2 /\ received'[u][v] \in 0..2
    BY DEF IInv, TypeOK
  <2>2. CASE Deliver(s)
    <3>1. received'[u][v] = IF u = me /\ v = mine
                            THEN IF received[u][v] < 2 THEN received[u][v] + 1 ELSE 2
                            ELSE received[u][v]
      BY <2>2, Delivered DEF IInv, TypeOK
    <3> QED
      BY <2>1, <3>1
  <2>3. CASE ~Deliver(s)
    BY <2>1, <2>3
  <2> QED
    BY <2>2, <2>3
<1>1. Sweeps'
  <2> SUFFICES ASSUME NEW t \in Senders
               PROVE  /\ sweep'[t].phase = "off" => sweep'[t] = Off
                      /\ sweep'[t].phase # "off" => sweep'[t].v \in 1..version
                      /\ sweep'[t].phase # "on" => sweep'[t].at = Nobody
                      /\ sweep'[t].got # "none" => sweep'[t].at # Nobody
                      /\ \A u \in sweep'[t].todo : sweep'[t].out[u] = "none"
    BY DEF Sweeps
  <2>0. /\ sweep[t].phase = "off" => sweep[t] = Off
        /\ sweep[t].phase # "off" => sweep[t].v \in 1..version
        /\ sweep[t].phase # "on" => sweep[t].at = Nobody
        /\ sweep[t].got # "none" => sweep[t].at # Nobody
        /\ \A u \in sweep[t].todo : sweep[t].out[u] = "none"
    BY DEF IInv, Sweeps
  <2>1. CASE t = s
    BY <1>t, <2>0, <2>1 DEF Checking
  <2>2. CASE t # s
    BY <2>0, <2>2
  <2> QED
    BY <2>1, <2>2
<1>2. \A t \in Senders : (Active(t)' <=> Active(t)) /\ sweep'[t].v = sweep[t].v
  BY <1>t DEF Active
<1>3. Alone'
  BY <1>2 DEF IInv, Alone
<1>4. ASSUME NEW t \in Senders, NEW u \in Users
      PROVE  Claims(t, u)' <=> Claims(t, u) \/ (t = s /\ u = me /\ sweep'[s].got = "sent")
  BY <1>t DEF Claims
<1>5. Evidence'
  <2>1. SentMeansReceived'
    <3> SUFFICES ASSUME NEW u \in Users, NEW v \in Versions, row[u][v] = "sent"
                 PROVE  received'[u][v] > 0
      BY DEF SentMeansReceived
    <3>1. received[u][v] > 0
      BY DEF IInv, Evidence, SentMeansReceived
    <3> QED
      BY <1>r, <3>1
  <2>2. ASSUME NEW t \in Senders, NEW u \in Users, Claims(t, u)'
        PROVE  received'[u][sweep'[t].v] > 0
    <3>1. CASE Claims(t, u)
      <4>1. received[u][sweep[t].v] > 0
        BY <3>1 DEF IInv, Evidence
      <4>2. sweep[t].v \in Versions
        <5>1. sweep[t].phase # "off"
          <6>1. SUFFICES ASSUME sweep[t] = Off PROVE FALSE
            BY DEF IInv, Sweeps
          <6> QED
            BY <3>1, <6>1, NobodyAssumption DEF Claims, Off
        <5>2. sweep[t].v \in 1..version /\ version \in 0..MaxVersion
          BY <5>1 DEF IInv, Sweeps, TypeOK
        <5> QED
          BY <5>2, VersionAssumption DEF Versions
      <4> QED
        BY <1>2, <1>r, <4>1, <4>2
    <3>2. CASE t = s /\ u = me /\ sweep'[s].got = "sent"
      BY <1>t, <1>r, <3>2
    <3> QED
      BY <1>4, <2>2, <3>1, <3>2
  <2> QED
    BY <2>1, <2>2 DEF Evidence
<1>6. RowsStand'
  <2>1. \A t \in Senders : /\ sweep'[t].v = sweep[t].v /\ sweep'[t].out = sweep[t].out
                           /\ sweep'[t].at = sweep[t].at /\ sweep'[t].saw = sweep[t].saw
    OBVIOUS
  <2> QED
    BY <1>2, <2>1 DEF IInv, RowsStand
<1>7. ASSUME ~overlapped PROVE \A t \in Senders \ {s} : ~Active(t)
  BY <1>t, <1>7 DEF IInv, Alone
<1>8. Once'
  <2> SUFFICES ASSUME ~overlapped, ~upset', NEW u \in Users, NEW v \in Versions,
                      received'[u][v] > 0
               PROVE  /\ received'[u][v] = 1
                      /\ \/ row[u][v] = "sent"
                         \/ \E t \in Senders : sweep'[t].v = v /\ Claims(t, u)'
    BY DEF Once
  <2>0. received[u][v] > 0 =>
            /\ received[u][v] = 1
            /\ \/ row[u][v] = "sent"
               \/ \E t \in Senders : sweep[t].v = v /\ Claims(t, u)
    BY DEF IInv, Once
  <2>1. CASE received'[u][v] = received[u][v]
    BY <1>2, <1>4, <2>0, <2>1
  <2>2. CASE received'[u][v] # received[u][v]
    <3>1. u = me /\ v = mine /\ Deliver(s) /\ sweep'[s].got = "sent"
      BY <1>r, <2>2
    <3>2. row[u][v] # "sent"
      BY <1>t, <3>1, NobodyAssumption DEF IInv, RowsStand
    <3>3. ASSUME NEW t \in Senders PROVE ~Claims(t, u)
      <4>1. CASE t = s
        BY <1>t, <3>1, <4>1 DEF Claims
      <4>2. CASE t # s
        <5>1. sweep[t] = Off
          BY <1>7, <4>2 DEF IInv, Sweeps, Active
        <5> QED
          BY <5>1, NobodyAssumption DEF Claims, Off
      <4> QED
        BY <4>1, <4>2
    <3>4. received[u][v] = 0
      BY <1>r, <2>0, <3>2, <3>3
    <3>5. received'[u][v] = 1
      BY <1>r, <3>1, <3>4
    <3>6. Claims(s, u)' /\ sweep'[s].v = v
      BY <1>4, <3>1
    <3> QED
      BY <3>5, <3>6
  <2> QED
    BY <2>1, <2>2
<1>9. Newest'
  <2>1. ASSUME NEW u \in Users, NEW v \in Versions, received'[u][v] > 0 PROVE v <= version
    <3>1. CASE received[u][v] > 0
      BY <3>1 DEF IInv, Newest
    <3>2. CASE ~(received[u][v] > 0)
      <4>1. v = mine
        BY <1>r, <2>1, <3>2
      <4>2. mine \in 1..version /\ version \in Nat
        BY <1>t, VersionAssumption DEF IInv, Sweeps, TypeOK
      <4> QED
        BY <4>1, <4>2
    <3> QED
      BY <3>1, <3>2
  <2>2. ASSUME ~overlapped, NEW t \in Senders, Active(t), NEW u \in Users,
               NEW v \in Versions, v > sweep[t].v
        PROVE  received'[u][v] = 0
    <3>1. received[u][v] = 0 /\ t = s
      BY <1>7, <2>2 DEF IInv, Newest
    <3>2. mine \in Nat /\ v \in Nat
      BY <1>t DEF Versions
    <3>3. v # mine
      BY <2>2, <3>1, <3>2
    <3> QED
      BY <1>r, <3>1, <3>3
  <2> QED
    BY <1>2, <2>1, <2>2 DEF Newest
<1> QED
  BY <1>1, <1>3, <1>5, <1>6, <1>8, <1>9 DEF IInv

\* A result is written to the player's row, or found to be there by now.
LEMMA RecordStep ==
    ASSUME IInv, TypeOK', NEW s \in Senders, Record(s),
           \A t \in Senders \ {s} : sweep'[t] = sweep[t]
    PROVE  IInv'
<1> DEFINE me == sweep[s].at
<1>t. /\ sweep[s] \in Sweep /\ me \in Users /\ me \in sweep[s].todo /\ Active(s)
      /\ sweep[s].out[me] = "none" /\ sweep[s].phase = "on" /\ sweep[s].got # "none"
  <2>1. sweep[s].phase = "on" /\ sweep[s].got # "none" /\ sweep[s] \in Sweep
    BY DEF Record, Busy, IInv, TypeOK
  <2>2. me # Nobody
    BY <2>1 DEF IInv, Sweeps
  <2>3. me \in Users /\ me \in sweep[s].todo
    BY <2>1, <2>2 DEF IInv, TypeOK, Sweep
  <2>4. sweep[s].out[me] = "none"
    BY <2>3 DEF IInv, Sweeps
  <2> QED
    BY <2>1, <2>3, <2>4 DEF Active
<1>u. /\ row' = row /\ received' = received /\ overlapped' = overlapped /\ upset' = upset
      /\ version' = version
  BY DEF Record, history
<1>w. PICK o \in Outcomes(s, me) :
        sweep' = [sweep EXCEPT ![s] = [sweep[s] EXCEPT !.out[me] = o, !.todo = @ \ {me},
                                                       !.at = Nobody, !.saw = "none",
                                                       !.got = "none"]]
  BY DEF Record
<1>f. /\ sweep'[s].phase = "on" /\ sweep'[s].v = sweep[s].v /\ sweep'[s].at = Nobody
      /\ sweep'[s].got = "none" /\ sweep'[s].todo = sweep[s].todo \ {me}
      /\ sweep'[s].out = [sweep[s].out EXCEPT ![me] = o]
  <2>1. sweep'[s] = [sweep[s] EXCEPT !.out[me] = o, !.todo = @ \ {me}, !.at = Nobody,
                                     !.saw = "none", !.got = "none"]
    BY <1>w DEF IInv, TypeOK
  <2> QED
    BY <1>t, <2>1 DEF Sweep
<1>g. \A u \in Users : sweep'[s].out[u] = IF u = me THEN o ELSE sweep[s].out[u]
  BY <1>t, <1>f DEF Sweep
<1>o. /\ o = "sent" => sweep[s].got = "sent"
      /\ sweep[s].got = "sent" =>
            o = "sent" \/ (sweep[s].saw = "none" /\ row[me][sweep[s].v] = "sent")
      /\ o # "none" => sweep[s].saw # "none" \/ row[me][sweep[s].v] # "sent"
  BY <1>t, <1>w DEF Outcomes
<1>1. Sweeps'
  <2>1. \A u \in sweep'[s].todo : sweep'[s].out[u] = "none"
    <3> TAKE u \in sweep'[s].todo
    <3>1. u \in sweep[s].todo /\ u # me /\ u \in Users
      BY <1>t, <1>f DEF Sweep
    <3> QED
      BY <1>g, <3>1 DEF IInv, Sweeps
  <2>2. sweep'[s].v \in 1..version
    BY <1>t, <1>f DEF IInv, Sweeps
  <2> SUFFICES ASSUME NEW t \in Senders
               PROVE  /\ sweep'[t].phase = "off" => sweep'[t] = Off
                      /\ sweep'[t].phase # "off" => sweep'[t].v \in 1..version
                      /\ sweep'[t].phase # "on" => sweep'[t].at = Nobody
                      /\ sweep'[t].got # "none" => sweep'[t].at # Nobody
                      /\ \A u \in sweep'[t].todo : sweep'[t].out[u] = "none"
    BY <1>u DEF Sweeps
  <2>3. CASE t = s
    BY <1>f, <2>1, <2>2, <2>3
  <2>4. CASE t # s
    BY <2>4 DEF IInv, Sweeps
  <2> QED
    BY <2>3, <2>4
<1>2. \A t \in Senders : (Active(t)' <=> Active(t)) /\ sweep'[t].v = sweep[t].v
  BY <1>t, <1>f DEF Active
<1>3. Alone'
  BY <1>2, <1>u DEF IInv, Alone
<1>4. ASSUME NEW t \in Senders, NEW u \in Users, Claims(t, u)' PROVE Claims(t, u)
  <2>1. CASE t = s
    <3>1. sweep'[s].out[u] = "sent"
      BY <1>f, <1>4, <2>1, NobodyAssumption DEF Claims
    <3> QED
      BY <1>g, <1>o, <2>1, <3>1 DEF Claims
  <2>2. CASE t # s
    BY <1>4, <2>2 DEF Claims
  <2> QED
    BY <2>1, <2>2
<1>5. Evidence'
  BY <1>2, <1>4, <1>u DEF IInv, Evidence, SentMeansReceived
<1>6. ASSUME ~overlapped
      PROVE  /\ sweep[s].saw = row[me][sweep[s].v] /\ row[me][sweep[s].v] # "sent"
             /\ \A t \in Senders \ {s} : ~Active(t)
  BY <1>t, <1>6, NobodyAssumption DEF IInv, RowsStand, Alone
<1>7. RowsStand'
  <2> SUFFICES ASSUME ~overlapped, NEW t \in Senders, Active(t)'
               PROVE  /\ \A u \in Users : sweep'[t].out[u] # "none" => row[u][sweep'[t].v] # "sent"
                      /\ sweep'[t].at = Nobody
    BY <1>u DEF RowsStand
  <2>1. t = s
    BY <1>2, <1>6
  <2>2. ASSUME NEW u \in Users, sweep'[s].out[u] # "none" PROVE row[u][sweep[s].v] # "sent"
    <3>1. CASE u = me
      BY <1>6, <3>1
    <3>2. CASE u # me
      BY <1>g, <1>t, <2>2, <3>2 DEF IInv, RowsStand
    <3> QED
      BY <3>1, <3>2
  <2> QED
    BY <1>f, <2>1, <2>2
<1>8. Once'
  <2> SUFFICES ASSUME ~overlapped, ~upset, NEW u \in Users, NEW v \in Versions,
                      received[u][v] > 0
               PROVE  /\ received[u][v] = 1
                      /\ \/ row[u][v] = "sent"
                         \/ \E t \in Senders : sweep'[t].v = v /\ Claims(t, u)'
    BY <1>u DEF Once
  <2>1. /\ received[u][v] = 1
        /\ \/ row[u][v] = "sent"
           \/ \E t \in Senders : sweep[t].v = v /\ Claims(t, u)
    BY DEF IInv, Once
  <2>2. ASSUME NEW t \in Senders, sweep[t].v = v, Claims(t, u)
        PROVE  Claims(t, u)'
    <3>1. CASE t = s /\ u = me
      <4>1. sweep[s].got = "sent"
        BY <1>t, <2>2, <3>1 DEF Claims
      <4>2. o = "sent"
        BY <1>6, <1>o, <4>1
      <4> QED
        BY <1>g, <3>1, <4>2 DEF Claims
    <3>2. CASE t = s /\ u # me
      BY <1>g, <2>2, <3>2 DEF Claims
    <3>3. CASE t # s
      BY <2>2, <3>3 DEF Claims
    <3> QED
      BY <3>1, <3>2, <3>3
  <2> QED
    BY <1>2, <2>1, <2>2
<1>9. Newest'
  BY <1>2, <1>u DEF IInv, Newest
<1> QED
  BY <1>1, <1>3, <1>5, <1>7, <1>8, <1>9 DEF IInv

\* What a sweep wrote is committed: whoever got this version has a row.
LEMMA CommitStep ==
    ASSUME IInv, TypeOK', NEW s \in Senders, Commit(s),
           \A t \in Senders \ {s} : sweep'[t] = sweep[t]
    PROVE  IInv'
<1>1. /\ Active(s) /\ sweep'[s] = Off /\ received' = received /\ overlapped' = overlapped
      /\ upset' = upset /\ version' = version /\ sweep[s].at = Nobody
  BY DEF Commit, Active, history, IInv, TypeOK, Sweeps
<1>2. \A u \in Users, v \in Versions :
          row'[u][v] = IF v = sweep[s].v /\ sweep[s].out[u] \in {"sent", "unsent"}
                       THEN sweep[s].out[u] ELSE row[u][v]
  BY DEF Commit
<1>3. Once'
  <2> SUFFICES ASSUME ~overlapped, ~upset, NEW u \in Users, NEW v \in Versions,
                      received[u][v] > 0
               PROVE  received[u][v] = 1 /\ row'[u][v] = "sent"
    BY <1>1 DEF Once
  <2>1. /\ received[u][v] = 1
        /\ \/ row[u][v] = "sent"
           \/ \E t \in Senders : sweep[t].v = v /\ Claims(t, u)
    BY DEF IInv, Once
  <2>2. CASE row[u][v] = "sent"
    <3>1. v = sweep[s].v => sweep[s].out[u] = "none"
      BY <1>1, <2>2 DEF IInv, RowsStand
    <3> QED
      BY <1>2, <2>1, <2>2, <3>1
  <2>3. ASSUME NEW t \in Senders, sweep[t].v = v, Claims(t, u) PROVE row'[u][v] = "sent"
    <3>1. t = s
      <4>1. SUFFICES ASSUME ~Active(t) PROVE FALSE
        BY <1>1 DEF IInv, Alone
      <4>2. sweep[t] = Off
        BY <4>1 DEF IInv, Sweeps, Active
      <4> QED
        BY <2>3, <4>2, NobodyAssumption DEF Claims, Off
    <3>2. sweep[s].out[u] = "sent"
      BY <1>1, <2>3, <3>1, NobodyAssumption DEF Claims
    <3> QED
      BY <1>2, <2>3, <3>1, <3>2
  <2> QED
    BY <2>1, <2>2, <2>3
<1> QED
  BY <1>1, <1>2, <1>3, SweepEnds

\* Every step of a sender keeps the invariant.
LEMMA SenderStep ==
    ASSUME IInv, NEW s \in Senders, Step(s), TypeOK'
    PROVE  IInv'
<1>0. /\ SweepsTyped /\ sweep[s] \in Sweep
      /\ sweep[s].at # Nobody => sweep[s].at \in sweep[s].todo
  BY DEF IInv, TypeOK, SweepsTyped
<1>o. \A t \in Senders \ {s} : sweep'[t] = sweep[t]
  BY <1>0, Others
<1>a. Active(s) <=> sweep[s] # Off
  <2>1. Off.phase = "off"
    BY DEF Off
  <2> QED
    BY <2>1 DEF Active, IInv, Sweeps
<1>1. CASE Start(s)
  BY <1>1, <1>o, StartStep
<1>2. ASSUME NEW u \in Users, Look(s, u) PROVE IInv'
  <2>1. sweep[s].phase = "on" /\ sweep[s].at = Nobody /\ sweep[s].got = "none"
    BY <1>2 DEF Look, Busy, IInv, Sweeps
  <2>2. /\ sweep'[s].phase = "on" /\ sweep'[s].v = sweep[s].v
        /\ sweep'[s].got = sweep[s].got /\ sweep'[s].out = sweep[s].out
        /\ sweep'[s].todo \subseteq sweep[s].todo
        /\ sweep'[s].at # Nobody => /\ sweep'[s].at = u
                                    /\ sweep'[s].saw = row[u][sweep[s].v]
                                    /\ sweep'[s].saw # "sent"
    <3> DEFINE r == row[u][sweep[s].v]
    <3>1. CASE r = "sent"
      <4>1. sweep'[s] = [sweep[s] EXCEPT !.todo = @ \ {u}]
        BY <1>0, <1>2, <3>1 DEF Look, SweepsTyped
      <4> QED
        BY <1>0, <2>1, <4>1 DEF Sweep
    <3>2. CASE r # "sent"
      <4>1. sweep'[s] = [sweep[s] EXCEPT !.at = u, !.saw = r]
        BY <1>0, <1>2, <3>2 DEF Look, SweepsTyped
      <4> HIDE DEF r
      <4>2. /\ sweep'[s].phase = "on" /\ sweep'[s].v = sweep[s].v
            /\ sweep'[s].got = sweep[s].got /\ sweep'[s].out = sweep[s].out
            /\ sweep'[s].todo = sweep[s].todo /\ sweep'[s].at = u /\ sweep'[s].saw = r
        BY <1>0, <2>1, <4>1 DEF Sweep
      <4> QED
        BY <3>2, <4>2 DEF r
    <3> QED
      BY <3>1, <3>2
  <2>3. Quiet
    BY <1>2, <1>o, <2>1, <2>2, VersionAssumption DEF Quiet, Look, Active, history, IInv, TypeOK
  <2>4. \A w \in Users : Claims(s, w)' <=> Claims(s, w)
    BY <2>1, <2>2 DEF Claims
  <2> QED
    BY <1>o, <2>1, <2>2, <2>3, <2>4, QuietSweep DEF Active
<1>3. CASE Pass(s)
  <2>1. sweep[s].phase = "on" /\ sweep[s].got = "none"
    BY <1>3 DEF Pass, Checking, Busy
  <2>2. sweep'[s] = [sweep[s] EXCEPT !.todo = @ \ {sweep[s].at}, !.at = Nobody, !.saw = "none"]
    BY <1>0, <1>3 DEF Pass, SweepsTyped
  <2>3. /\ sweep'[s].phase = "on" /\ sweep'[s].v = sweep[s].v /\ sweep'[s].at = Nobody
        /\ sweep'[s].got = "none" /\ sweep'[s].out = sweep[s].out
        /\ sweep'[s].todo \subseteq sweep[s].todo
    BY <1>0, <2>1, <2>2 DEF Sweep
  <2>4. Quiet
    BY <1>3, <1>o, <2>1, <2>3, VersionAssumption DEF Quiet, Pass, Active, history, IInv, TypeOK
  <2>5. \A w \in Users : Claims(s, w)' <=> Claims(s, w)
    BY <2>1, <2>3 DEF Claims
  <2> QED
    BY <1>o, <2>1, <2>3, <2>4, <2>5, QuietSweep DEF Active
<1>4. CASE Skip(s)
  <2>1. sweep[s].phase = "on" /\ sweep[s].got = "none" /\ sweep[s].at # Nobody
    BY <1>4 DEF Skip, Checking, Busy
  <2>2. sweep'[s] = [sweep[s] EXCEPT !.got = "unsent", !.drop = @ \cup {sweep[s].at}]
    BY <1>0, <1>4 DEF Skip, SweepsTyped
  <2>3. /\ sweep'[s].phase = "on" /\ sweep'[s].v = sweep[s].v /\ sweep'[s].at = sweep[s].at
        /\ sweep'[s].saw = sweep[s].saw /\ sweep'[s].got = "unsent"
        /\ sweep'[s].out = sweep[s].out /\ sweep'[s].todo = sweep[s].todo
    BY <1>0, <2>1, <2>2 DEF Sweep
  <2>4. Quiet
    BY <1>4, <1>o, <2>1, <2>3, VersionAssumption DEF Quiet, Skip, Active, history, IInv, TypeOK
  <2>5. \A w \in Users : Claims(s, w)' <=> Claims(s, w)
    BY <2>1, <2>3 DEF Claims
  <2> QED
    BY <1>o, <2>1, <2>3, <2>4, <2>5, QuietSweep DEF Active
<1>5. ASSUME Checking(s), NEW g \in {"sent", "unsent"},
             sweep' = [sweep EXCEPT ![s] = [sweep[s] EXCEPT !.got = g]]
      PROVE  /\ sweep'[s].phase = "on" /\ sweep'[s].v = sweep[s].v
             /\ sweep'[s].at = sweep[s].at /\ sweep'[s].saw = sweep[s].saw
             /\ sweep'[s].todo = sweep[s].todo /\ sweep'[s].out = sweep[s].out
             /\ sweep'[s].got = g
  <2>1. sweep'[s] = [sweep[s] EXCEPT !.got = g]
    BY <1>0, <1>5 DEF SweepsTyped
  <2> QED
    BY <1>0, <1>5, <2>1 DEF Sweep, Checking, Busy
<1>6. CASE Send(s)
  <2>1. Checking(s) /\ Deliver(s) /\ UNCHANGED <<version, row, overlapped, upset>>
    BY <1>6 DEF Send
  <2>2. sweep' = [sweep EXCEPT ![s] = [sweep[s] EXCEPT !.got = "sent"]]
    BY <1>6 DEF Send
  <2>3. /\ sweep'[s].phase = "on" /\ sweep'[s].v = sweep[s].v
        /\ sweep'[s].at = sweep[s].at /\ sweep'[s].saw = sweep[s].saw
        /\ sweep'[s].todo = sweep[s].todo /\ sweep'[s].out = sweep[s].out
        /\ sweep'[s].got = "sent"
    BY <1>5, <2>1, <2>2
  <2> QED
    BY <1>o, <2>1, <2>3, ResultStep
<1>7. CASE SendFails(s)
  <2>1. /\ Checking(s) /\ UNCHANGED <<version, row, overlapped>>
        /\ \/ Deliver(s) /\ upset'
           \/ received' = received /\ upset' = upset
    BY <1>7 DEF SendFails
  <2>2. sweep' = [sweep EXCEPT ![s] = [sweep[s] EXCEPT !.got = "unsent"]]
    BY <1>7 DEF SendFails
  <2>3. /\ sweep'[s].phase = "on" /\ sweep'[s].v = sweep[s].v
        /\ sweep'[s].at = sweep[s].at /\ sweep'[s].saw = sweep[s].saw
        /\ sweep'[s].todo = sweep[s].todo /\ sweep'[s].out = sweep[s].out
        /\ sweep'[s].got = "unsent"
    BY <1>5, <2>1, <2>2
  <2> QED
    BY <1>o, <2>1, <2>3, ResultStep
<1>8. CASE Record(s)
  BY <1>8, <1>o, RecordStep
<1>9. CASE Release(s)
  <2>1. sweep[s].phase = "on" /\ sweep[s].at = Nobody /\ sweep[s].got = "none"
    BY <1>0, <1>9 DEF Release, Busy, IInv, Sweeps
  <2>2. /\ sweep'[s].phase = "released" /\ sweep'[s].v = sweep[s].v /\ sweep'[s].at = Nobody
        /\ sweep'[s].got = "none" /\ sweep'[s].out = sweep[s].out
        /\ sweep'[s].todo = sweep[s].todo
    BY <1>0, <1>9, <2>1 DEF Release, Sweep, SweepsTyped
  <2>3. Quiet
    BY <1>9, <1>o, <2>1, <2>2, VersionAssumption DEF Quiet, Release, Active, history, IInv, TypeOK
  <2>4. \A w \in Users : Claims(s, w)' <=> Claims(s, w)
    BY <2>1, <2>2 DEF Claims
  <2> QED
    BY <1>o, <2>1, <2>2, <2>3, <2>4, QuietSweep DEF Active
<1>10. CASE Commit(s)
  BY <1>10, <1>o, CommitStep
<1>11. CASE Abort(s) \/ Crash(s)
  <2>1. /\ Active(s) /\ sweep'[s] = Off /\ received' = received /\ overlapped' = overlapped
        /\ version' = version /\ row' = row /\ upset'
    BY <1>0, <1>11, <1>a DEF Abort, Crash, SweepsTyped
  <2>2. Once'
    BY <2>1 DEF Once
  <2> QED
    BY <1>o, <2>1, <2>2, SweepEnds
<1> QED
  BY <1>1, <1>2, <1>3, <1>4, <1>6, <1>7, <1>8, <1>9, <1>10, <1>11 DEF Step

\* Every step keeps the invariant.
LEMMA Inductive == IInv /\ [Next]_vars => IInv'
<1> SUFFICES ASSUME IInv, [Next]_vars PROVE IInv'
  OBVIOUS
<1>t. TypeOK' /\ version \in Nat
  BY TypeStep, VersionAssumption DEF IInv, TypeOK
<1>1. CASE EnterCredentials
  BY <1>1, <1>t, OutsideStep DEF EnterCredentials
<1>2. CASE \E u \in Users : Qualify(u)
  BY <1>2, <1>t, OutsideStep DEF Qualify
<1>3. CASE \E v \in Versions : Expire(v)
  BY <1>3, <1>t, OutsideStep DEF Expire
<1>4. CASE \E s \in Senders : Step(s)
  BY <1>4, <1>t, SenderStep
<1>5. CASE UNCHANGED vars
  BY <1>5, <1>t, OutsideStep DEF vars, history
<1> QED
  BY <1>1, <1>2, <1>3, <1>4, <1>5 DEF Next

\* It holds before anything has happened.
LEMMA Initially == Init => IInv
<1> SUFFICES ASSUME Init PROVE IInv
  OBVIOUS
<1>o. /\ Off.phase = "off" /\ Off.at = Nobody /\ Off.got = "none" /\ Off.todo = {}
      /\ Off.v = 0 /\ \A u \in Users : Off.out[u] = "none"
  BY DEF Off
<1>s. \A s \in Senders : sweep[s] = Off
  BY DEF Init
<1>c. \A s \in Senders : ~Active(s) /\ \A u \in Users : ~Claims(s, u)
  BY <1>o, <1>s, NobodyAssumption DEF Active, Claims
<1>r. \A u \in Users, v \in Versions : row[u][v] = "none" /\ received[u][v] = 0
  BY DEF Init
<1>1. TypeOK
  <2>1. sweep \in [Senders -> Sweep]
    BY OffTyped DEF Init
  <2>2. \A s \in Senders : sweep[s].at = Nobody
    BY <1>o, <1>s
  <2>3. [v \in Versions |-> "none"] \in [Versions -> RowStatus]
    BY DEF RowStatus
  <2>4. row \in [Users -> [Versions -> RowStatus]]
    BY <2>3 DEF Init
  <2>5. [v \in Versions |-> 0] \in [Versions -> 0..2]
    OBVIOUS
  <2>6. received \in [Users -> [Versions -> 0..2]]
    BY <2>5 DEF Init
  <2>7. version \in 0..MaxVersion
    BY VersionAssumption DEF Init
  <2> QED
    BY <2>1, <2>2, <2>4, <2>6, <2>7 DEF Init, TypeOK
<1>2. Sweeps
  BY <1>o, <1>s DEF Sweeps
<1>3. Alone /\ RowsStand
  BY <1>c DEF Alone, RowsStand
<1>4. Evidence /\ Once /\ Newest
  BY <1>c, <1>r DEF Evidence, SentMeansReceived, Once, Newest
<1> QED
  BY <1>1, <1>2, <1>3, <1>4 DEF IInv

-----------------------------------------------------------------------------
(* The theorems                                                            *)

\* The invariant holds in every reachable state.
THEOREM Invariant == Spec => []IInv
BY Initially, Inductive, PTL DEF Spec

\* The rows and the sweeps keep their types, and a sweep is busy with nobody
\* but a player it still has to handle (deliver_one, _send_credentials).
THEOREM TypeCorrect == Spec => []TypeOK
<1>1. IInv => TypeOK
  BY DEF IInv
<1> QED
  BY <1>1, Invariant, PTL

\* Whatever overlaps, aborts and crashes there are: a delivery recorded as sent
\* did reach the player (_upsert_delivery comes after send_message).
THEOREM RecordedIsReceived == Spec => []SentMeansReceived
<1>1. IInv => SentMeansReceived
  BY DEF IInv, Evidence
<1> QED
  BY <1>1, Invariant, PTL

\* Without overlap, interruption or an unclear answer, a player gets a version
\* at most once: the row deliver_one asks is all that is needed.
THEOREM ReceivedOnce == Spec => []AtMostOnce
<1>1. IInv => AtMostOnce
  <2> SUFFICES ASSUME IInv, ~overlapped, ~upset, NEW u \in Users, NEW v \in Versions
               PROVE  received[u][v] <= 1
    BY DEF AtMostOnce
  <2>1. received \in [Users -> [Versions -> 0..2]]
    BY DEF IInv, TypeOK
  <2>2. received[u][v] \in 0..2
    BY <2>1
  <2>3. received[u][v] > 0 => received[u][v] = 1
    BY DEF IInv, Once
  <2> QED
    BY <2>2, <2>3
<1> QED
  BY <1>1, Invariant, PTL

\* Only a message changes what a player has got, and it carries the version its
\* sweep read.
LEMMA OnlyFromSweeps ==
    ASSUME IInv, [Next]_vars, NEW u \in Users, NEW v \in Versions, received'[u][v] > received[u][v]
    PROVE  /\ \E s \in Senders : Active(s) /\ sweep[s].v = v
           /\ overlapped' = overlapped
<1>0. received \in [Users -> [Versions -> 0..2]]
  BY DEF IInv, TypeOK
<1>n. received[u][v] \in 0..2
  BY <1>0
<1>1. received' # received
  BY <1>n
<1>2. PICK s \in Senders : Checking(s) /\ Deliver(s) /\ overlapped' = overlapped
  BY <1>1 DEF Next, Step, EnterCredentials, Qualify, Expire, Start, Look, Pass, Skip, Send,
              SendFails, Record, Release, Commit, Abort, Crash, vars, history
<1>3. v = sweep[s].v
  BY <1>0, <1>2, <1>n, Delivered
<1>4. Active(s)
  BY <1>2 DEF Checking, Busy, Active
<1> QED
  BY <1>2, <1>3, <1>4

\* Without overlap, cut short or not, no player gets an older version after a
\* newer one (_send_credentials reads the version once, under the lock).
THEOREM NeverOlder == Spec => NewestLast
<1>1. IInv /\ [Next]_vars =>
        (~overlapped' => \A u \in Users, v \in Versions :
            received'[u][v] > received[u][v] =>
                \A w \in Versions : w > v => received[u][w] = 0)
  BY OnlyFromSweeps DEF IInv, Newest
<1> QED
  BY <1>1, Invariant, PTL DEF Spec, NewestLast

\* Without overlap a row that says sent keeps saying so.
LEMMA RowsStay ==
    ASSUME IInv, [Next]_vars, ~overlapped, NEW u \in Users, NEW v \in Versions,
           row[u][v] = "sent"
    PROVE  row'[u][v] = "sent"
<1>1. CASE row' = row
  BY <1>1
<1>2. CASE \E s \in Senders : Commit(s)
  <2>1. PICK s \in Senders : Commit(s)
    BY <1>2
  <2>2. row'[u][v] = IF v = sweep[s].v /\ sweep[s].out[u] \in {"sent", "unsent"}
                     THEN sweep[s].out[u] ELSE row[u][v]
    BY <2>1 DEF Commit
  <2>3. Active(s)
    BY <2>1 DEF Commit, Active
  <2>4. v = sweep[s].v => sweep[s].out[u] = "none"
    BY <2>3 DEF IInv, RowsStand
  <2> QED
    BY <2>2, <2>4
<1> QED
  BY <1>1, <1>2 DEF Next, Step, EnterCredentials, Qualify, Expire, Start, Look, Pass, Skip,
                    Send, SendFails, Record, Release, Abort, Crash, vars, history

\* Without overlap a row that says sent keeps saying so (the early return of
\* deliver_one and the second look of _upsert_delivery).
THEOREM SentStays == Spec => SentIsFinal
<1>1. IInv /\ [Next]_vars =>
        (~overlapped => \A u \in Users, v \in Versions :
            row[u][v] = "sent" => row'[u][v] = "sent")
  BY RowsStay
<1> QED
  BY <1>1, Invariant, PTL DEF Spec, SentIsFinal

-----------------------------------------------------------------------------
(* The refinement                                                          *)

\* What the tables book for a player.
Booked(u) == {v \in Versions : row[u][v] = "sent"}

\* A sweep that is alone and about to send gives the player no older version,
\* and gives one again only after something was torn.
LEMMA FirstTime ==
    ASSUME IInv, ~overlapped, NEW s \in Senders, Checking(s)
    PROVE  /\ sweep[s].at \in Users /\ sweep[s].v \in Versions /\ sweep[s].v <= version
           /\ \A w \in Versions : w > sweep[s].v => received[sweep[s].at][w] = 0
           /\ received[sweep[s].at][sweep[s].v] > 0 => upset
<1> DEFINE u == sweep[s].at
           v == sweep[s].v
<1>1. Active(s) /\ u # Nobody /\ sweep[s].got = "none"
  BY DEF Checking, Busy, Active
<1>2. sweep[s] \in Sweep /\ u \in sweep[s].todo /\ version \in 0..MaxVersion
  BY <1>1 DEF IInv, TypeOK
<1>3. u \in Users /\ v \in 1..version /\ sweep[s].out[u] = "none"
  BY <1>1, <1>2 DEF IInv, Sweeps, Sweep, Active
<1>4. v \in Versions /\ v <= version
  BY <1>2, <1>3, VersionAssumption DEF Versions
<1>5. \A w \in Versions : w > v => received[u][w] = 0
  BY <1>1, <1>3 DEF IInv, Newest
<1>6. ASSUME received[u][v] > 0, ~upset PROVE FALSE
  <2>1. row[u][v] # "sent"
    BY <1>1, <1>3 DEF IInv, RowsStand
  <2>2. PICK t \in Senders : sweep[t].v = v /\ Claims(t, u)
    BY <1>3, <1>4, <1>6, <2>1 DEF IInv, Once
  <2>3. Active(t)
    <3>1. CASE sweep[t].phase = "off"
      <4>1. sweep[t].out[u] = "none" /\ sweep[t].got = "none"
        BY <1>3, <3>1 DEF IInv, Sweeps, Off
      <4> QED
        BY <2>2, <4>1 DEF Claims
    <3> QED
      BY <3>1 DEF Active
  <2>4. t = s
    BY <1>1, <2>3 DEF IInv, Alone
  <2> QED
    BY <1>1, <1>3, <2>2, <2>4 DEF Claims
<1> QED
  BY <1>3, <1>4, <1>5, <1>6

\* Until sweeps overlap, a message with or without an answer hands out a version.
LEMMA HandsOut ==
    ASSUME IInv, ~overlapped, NEW s \in Senders, Checking(s), Deliver(s),
           upset' \in {upset, TRUE}, version' = version, row' = row
    PROVE  Promise!HandoutNext
<1> DEFINE u == sweep[s].at
           v == sweep[s].v
<1>1. /\ u \in Users /\ v \in Versions /\ v <= version
      /\ \A w \in Versions : w > v => received[u][w] = 0
      /\ received[u][v] > 0 => upset
  BY FirstTime
<1>2. received \in [Users -> [Versions -> 0..2]]
  BY DEF IInv, TypeOK
<1>3. received' = [received EXCEPT ![u][v] = IF @ = 0 THEN 1 ELSE 2]
  <2>1. received[u][v] \in 0..2
    BY <1>1, <1>2
  <2>2. received' = [received EXCEPT ![u][v] = IF @ < 2 THEN @ + 1 ELSE 2]
    BY DEF Deliver
  <2>3. (IF received[u][v] < 2 THEN received[u][v] + 1 ELSE 2)
          = IF received[u][v] = 0 THEN 1 ELSE 2
    BY <2>1
  <2> QED
    BY <2>2, <2>3
<1>4. Promise!Hand(u, v)
  BY <1>1, <1>3 DEF Promise!Hand
<1> QED
  BY <1>1, <1>4 DEF Promise!HandoutNext

\* A step before the sweeps overlap is one of the handout, or is not seen by it.
LEMMA HandoutStep ==
    ASSUME IInv, IInv', [Next]_vars, ~overlapped'
    PROVE  Promise!HandoutNext \/ UNCHANGED Promise!handoutVars
<1>0. ~overlapped
  BY DEF IInv, TypeOK, Next, Step, EnterCredentials, Qualify, Expire, Start, Look, Pass, Skip,
         Send, SendFails, Record, Release, Commit, Abort, Crash, vars, history
<1>1. CASE EnterCredentials
  <2>1. Promise!Enter
    BY <1>1 DEF EnterCredentials, history, Promise!Enter
  <2> QED
    BY <2>1 DEF Promise!HandoutNext
<1>2. CASE \E s \in Senders : Send(s)
  <2>1. PICK s \in Senders : Send(s)
    BY <1>2
  <2> QED
    BY <1>0, <2>1, HandsOut DEF Send
<1>3. CASE \E s \in Senders : SendFails(s)
  <2>1. PICK s \in Senders : SendFails(s)
    BY <1>3
  <2>2. CASE Deliver(s) /\ upset' = TRUE
    BY <1>0, <2>1, <2>2, HandsOut DEF SendFails
  <2>3. CASE UNCHANGED <<received, upset>>
    BY <2>1, <2>3 DEF SendFails, Promise!handoutVars
  <2> QED
    BY <2>1, <2>2, <2>3 DEF SendFails
<1>4. CASE \E s \in Senders : Commit(s)
  <2>1. /\ received' = received /\ upset' = upset /\ version' = version
    BY <1>4 DEF Commit, history
  <2>2. ASSUME NEW u \in Users
        PROVE  /\ Booked(u) \subseteq Booked(u)'
               /\ \A v \in Booked(u)' : received[u][v] > 0
    <3>1. \A v \in Versions : row[u][v] = "sent" => row'[u][v] = "sent"
      BY <1>0, RowsStay
    <3>2. \A v \in Versions : row'[u][v] = "sent" => received'[u][v] > 0
      BY DEF IInv, Evidence, SentMeansReceived
    <3> QED
      BY <2>1, <3>1, <3>2 DEF Booked
  <2>3. Promise!Book
    BY <2>1, <2>2 DEF Promise!Book, Booked
  <2> QED
    BY <2>3 DEF Promise!HandoutNext
<1>5. CASE \E s \in Senders : Abort(s) \/ Crash(s)
  <2>1. Promise!Tear
    BY <1>5 DEF Abort, Crash, Promise!Tear
  <2> QED
    BY <2>1 DEF Promise!HandoutNext
<1>6. CASE UNCHANGED <<version, row, received, upset>>
  BY <1>6 DEF Promise!handoutVars
<1> QED
  BY <1>1, <1>2, <1>3, <1>4, <1>5, <1>6 DEF Next, Step, Qualify, Expire, Start, Look, Pass,
     Skip, Record, Release, vars, history

\* Sweeps that follow one another, cut short or not, implement the handout: each
\* version once until something was torn, the newest last, and the tables never
\* say more than was sent (_send_credentials, deliver_one, _upsert_delivery).
THEOREM ImplementsHandout == Spec => KeepsHandout
<1>1. Init => Promise!HandoutInit
  BY DEF Init, Promise!HandoutInit
<1>2. IInv /\ IInv' /\ [Next]_vars
        => [~overlapped' => Promise!HandoutNext]_<<Promise!handoutVars>>
  BY HandoutStep
<1> QED
  BY <1>1, <1>2, Invariant, PTL DEF Spec, KeepsHandout
=============================================================================
