----------------------------- MODULE Retention -----------------------------
(***************************************************************************)
(* What is deleted of one custom and when (workers/tasks.py): every hour   *)
(* each process removes the customs that began long enough ago, once a day *)
(* it blanks the room of those sent long enough ago, and a job does the    *)
(* same a week after the start.  Meanwhile handlers of either process      *)
(* reschedule the custom, enter a room for it, and judge reports about it  *)
(* (services/events.py, services/trust.py, the API, the panel).            *)
(*                                                                         *)
(* The loop of a process does one thing at a time.  Transactions see what  *)
(* is committed when a statement begins, wait for the locks of rows that   *)
(* others have written, and go on with the rows as they then are.          *)
(***************************************************************************)
EXTENDS Naturals

CONSTANTS Processes,       \* each with its loop and one handler at a time
          Reports,         \* the reports there may be
          EventRetention,  \* event_retention_hours
          RoomRetention,   \* room_credentials_retention_days, and the week of the job
          Horizon,         \* bound: the clock
          MaxEntries,      \* bound: rooms entered
          MaxVerdicts,     \* bound: verdicts committed
          MaxFailures,     \* bound: failures of the database
          Never            \* no time

RetentionConstants ==
    /\ EventRetention \in Nat /\ RoomRetention \in Nat /\ Horizon \in Nat
    /\ MaxEntries \in Nat /\ MaxVerdicts \in Nat /\ MaxFailures \in Nat
    /\ Never \notin Nat

VARIABLES
    clock,
    starts,    \* events.starts_at, Never once the row is gone
    room,      \* room_credentials
    job,       \* the job purge_credentials
    report,    \* report[r]: a row of reports
    rows,      \* organizer_trust_events of the verdicts: those with the custom, and
               \* those without one
    loop,      \* loop[p]: what the loop of p is at
    tx,        \* tx[p]: the session of p's handler
    failures,  \* failures so far
    moved      \* history: the custom got another time while a purge had it in hand

tables == <<starts, room, job, report, rows>>
vars == <<clock, tables, loop, tx, failures, moved>>

Times == 0..Horizon

NoRoom == [version |-> 0, content |-> "none", sent |-> Never, purged |-> FALSE]
Room   == [version : 0..MaxEntries, content : {"none", "pair", "purged"},
           sent : Times \cup {Never}, purged : BOOLEAN]

NoReport == [filed |-> FALSE, linked |-> FALSE, upheld |-> FALSE]
Report   == [filed : BOOLEAN, linked : BOOLEAN, upheld : BOOLEAN]

\* A loop: in the deletion of the custom, with the rows it has cleared, or with the job
\* claimed, or about to blank the room, for the job or not.
Free == [at |-> "idle", cleared |-> 0, job |-> FALSE]
Loop == [at : {"idle", "picked", "cleared", "deleted", "claimed", "blanking"}, cleared : Nat,
         job : BOOLEAN]

\* A session: what it is to write, of which report or what room - as it has read
\* them - or for what time, and whether its rows are written and locked.
NoTx == [does |-> "nothing", report |-> Never, linked |-> FALSE, counts |-> FALSE,
         time |-> Never, version |-> 0, wrote |-> FALSE]
Tx   == [does : {"nothing", "verdict", "reschedule", "enter"}, report : Reports \cup {Never},
         linked : BOOLEAN, counts : BOOLEAN, time : Times \cup {Never},
         version : 0..MaxEntries, wrote : BOOLEAN]

There == starts # Never

\* creds_were_provided.
Provided == room.content # "none" /\ ~room.purged

-----------------------------------------------------------------------------
(* Locks                                                                   *)

\* The rows refer to the custom, except those of a verdict without one.
Refers(p) == tx[p].does = "verdict" => tx[p].linked /\ tx[p].counts

\* Somebody has written the custom, or a row that refers to it.
HeldByHandler == \E p \in Processes : tx[p].wrote /\ Refers(p)

HeldByPurge == \E p \in Processes : loop[p].at = "deleted"

\* Another purge has written the rows that hang on the custom.
Purging(p) == \E q \in Processes \ {p} : loop[q].at \in {"cleared", "deleted"}

RoomHeld == \E p \in Processes : tx[p].wrote /\ tx[p].does = "enter"

-----------------------------------------------------------------------------
(* The hourly purge                                                        *)

Begins(p, step) ==
    /\ loop[p] = Free
    /\ loop' = [loop EXCEPT ![p] = step]
    /\ UNCHANGED <<clock, tables, tx, failures, moved>>

\* A mistake for OnlyThePastGoes to catch: whatever has begun is old enough.
PickBegun(p) == There /\ starts < clock /\ Begins(p, [Free EXCEPT !.at = "picked"])

\* purge_old_events: the customs that began before the cutoff.
Pick(p) ==
    /\ There /\ starts + EventRetention < clock
    /\ Begins(p, [Free EXCEPT !.at = "picked"])

\* A mistake for OldGoes to catch: the rows of the trust score are forgotten.
ClearNothing(p) ==
    /\ loop[p].at = "picked" /\ ~Purging(p)
    /\ loop' = [loop EXCEPT ![p].at = "cleared", ![p].cleared = 0]
    /\ UNCHANGED <<clock, tables, tx, failures, moved>>

\* The rows whose key does not cascade lose the custom, the jobs go.
Clear(p) ==
    /\ loop[p].at = "picked" /\ ~Purging(p)
    /\ loop' = [loop EXCEPT ![p].at = "cleared", ![p].cleared = rows.linked]
    /\ UNCHANGED <<clock, tables, tx, failures, moved>>

\* The rows of the customs picked are deleted, whatever their time is by now.  A
\* row that came to hang on the custom since breaks a key, and everything is
\* rolled back until the next hour.
Delete(p) ==
    /\ loop[p].at = "cleared" /\ ~HeldByHandler
    /\ loop' = [loop EXCEPT ![p] = IF rows.linked > loop[p].cleared THEN Free
                                   ELSE [loop[p] EXCEPT !.at = "deleted"]]
    /\ UNCHANGED <<clock, tables, tx, failures, moved>>

\* The commit.  The room goes with the custom, reports stay without it.
Gone(p) ==
    /\ loop[p].at = "deleted"
    /\ starts' = Never
    /\ room' = NoRoom
    /\ job' = [job EXCEPT !.status = "gone"]
    /\ report' = [r \in Reports |-> [report[r] EXCEPT !.linked = FALSE]]
    /\ rows' = [linked |-> 0, free |-> rows.free + rows.linked]
    /\ loop' = [loop EXCEPT ![p] = Free]
    /\ UNCHANGED <<clock, tx, failures, moved>>

-----------------------------------------------------------------------------
(* Blanking the room                                                       *)

\* purge_old_credentials: the rooms sent before the cutoff, as they are now.
FindSent(p) ==
    /\ room.sent # Never /\ ~room.purged
    /\ room.sent + RoomRetention < clock
    /\ Begins(p, [Free EXCEPT !.at = "blanking"])

\* The job is claimed, and the claim committed.
ClaimJob(p) ==
    /\ job.status = "pending" /\ job.at <= clock
    /\ loop[p] = Free
    /\ job' = [job EXCEPT !.status = "running"]
    /\ loop' = [loop EXCEPT ![p] = [Free EXCEPT !.at = "claimed", !.job = TRUE]]
    /\ UNCHANGED <<clock, starts, room, report, rows, tx, failures, moved>>

\* The job's work is over, if nobody has taken it away.
Done(p) == IF loop[p].job /\ job.status = "running" THEN [job EXCEPT !.status = "done"] ELSE job

\* _handle_job: a room that is there and not purged is to be.
JobLooks(p) ==
    /\ loop[p].at = "claimed"
    /\ IF room # NoRoom /\ ~room.purged
       THEN /\ loop' = [loop EXCEPT ![p].at = "blanking"]
            /\ UNCHANGED job
       ELSE /\ loop' = [loop EXCEPT ![p] = Free]
            /\ job' = Done(p)
    /\ UNCHANGED <<clock, starts, room, report, rows, tx, failures, moved>>

\* A mistake for PurgedIsMarked to catch: the room is blanked and not marked.
BlankOnly(p) ==
    /\ loop[p].at = "blanking" /\ ~RoomHeld /\ ~HeldByPurge
    /\ room' = IF room = NoRoom THEN room ELSE [room EXCEPT !.content = "purged"]
    /\ job' = Done(p)
    /\ loop' = [loop EXCEPT ![p] = Free]
    /\ UNCHANGED <<clock, starts, report, rows, tx, failures, moved>>

\* Both write the content and the mark, over a room entered since they looked.
Blank(p) ==
    /\ loop[p].at = "blanking" /\ ~RoomHeld /\ ~HeldByPurge
    /\ room' = IF room = NoRoom THEN room ELSE [room EXCEPT !.content = "purged", !.purged = TRUE]
    /\ job' = Done(p)
    /\ loop' = [loop EXCEPT ![p] = Free]
    /\ UNCHANGED <<clock, starts, report, rows, tx, failures, moved>>

\* The database fails a loop, or kills it to end a deadlock: it is logged, and the
\* job is tried again.
LoopFails(p) ==
    /\ loop[p] # Free /\ failures < MaxFailures
    /\ failures' = failures + 1
    /\ job' = IF loop[p].job /\ job.status = "running" THEN [job EXCEPT !.status = "pending"] ELSE job
    /\ loop' = [loop EXCEPT ![p] = Free]
    /\ UNCHANGED <<clock, starts, room, report, rows, tx, moved>>

-----------------------------------------------------------------------------
(* Handlers                                                                *)

Opens(p, what) ==
    /\ tx[p] = NoTx
    /\ tx' = [tx EXCEPT ![p] = what]
    /\ UNCHANGED <<clock, tables, loop, failures, moved>>

\* admin_report_uphold, report_status: the report is read, and whether its rule has
\* a row for its custom (record) - if it still has a custom.
Judge(p, r) ==
    /\ report[r].filed
    /\ rows.linked + rows.free < MaxVerdicts
    /\ Opens(p, [NoTx EXCEPT !.does = "verdict", !.report = r, !.linked = report[r].linked,
                             !.counts = ~report[r].linked \/ rows.linked = 0])

\* admin_reschedule, to a time that has not passed.
Reschedule(p, t) ==
    /\ There /\ t >= clock
    /\ Opens(p, [NoTx EXCEPT !.does = "reschedule", !.time = t])

\* set_creds, _commit_creds_send.
EnterRoom(p) ==
    /\ There /\ room.version < MaxEntries
    /\ Opens(p, [NoTx EXCEPT !.does = "enter", !.version = room.version])

\* A first room while another has come in between: events have one each.
Second(p) == tx[p].does = "enter" /\ tx[p].version = 0 /\ room.version > 0

Writable(p) == tx[p] # NoTx /\ ~tx[p].wrote

\* The rows are written, once those who hold theirs have let go.
Write(p) ==
    /\ Writable(p) /\ ~Second(p)
    /\ Refers(p) => There /\ ~HeldByPurge
    /\ tx[p].does = "enter" => ~RoomHeld
    /\ tx' = [tx EXCEPT ![p].wrote = TRUE]
    /\ UNCHANGED <<clock, tables, loop, failures, moved>>

\* The custom is not there any more, or a key breaks: an error ends the session.
TooLate(p) ==
    /\ Writable(p)
    /\ (Refers(p) /\ ~There) \/ Second(p)
    /\ tx' = [tx EXCEPT ![p] = NoTx]
    /\ UNCHANGED <<clock, tables, loop, failures, moved>>

Commits(p, what) ==
    /\ tx[p].does = what /\ tx[p].wrote
    /\ tx' = [tx EXCEPT ![p] = NoTx]
    /\ UNCHANGED <<clock, loop, failures>>

\* The report is upheld; its row goes with the custom the report had when read.
CommitVerdict(p) ==
    /\ Commits(p, "verdict")
    /\ report' = [report EXCEPT ![tx[p].report].upheld = TRUE]
    /\ rows' = IF ~tx[p].counts THEN rows
               ELSE IF tx[p].linked THEN [rows EXCEPT !.linked = @ + 1]
               ELSE [rows EXCEPT !.free = @ + 1]
    /\ UNCHANGED <<starts, room, job, moved>>

\* reschedule_event: the pending jobs are cancelled, and a cancelled job is not
\* scheduled again.
CommitReschedule(p) ==
    /\ Commits(p, "reschedule")
    /\ starts' = tx[p].time
    /\ job' = IF job.status = "pending" THEN [job EXCEPT !.status = "cancelled"] ELSE job
    /\ moved' = (moved \/ \E q \in Processes : loop[q].at \in {"picked", "cleared"})
    /\ UNCHANGED <<room, report, rows>>

\* update_credentials: a new pair and a new version; the mark of a purge stays.
CommitRoom(p) ==
    /\ Commits(p, "enter")
    /\ room' = [room EXCEPT !.content = "pair", !.version = tx[p].version + 1]
    /\ UNCHANGED <<starts, job, report, rows, moved>>

-----------------------------------------------------------------------------
(* Around                                                                  *)

\* create_player_report.
FileReport(r) ==
    /\ There /\ ~HeldByPurge /\ ~report[r].filed
    /\ report' = [report EXCEPT ![r] = [filed |-> TRUE, linked |-> TRUE, upheld |-> FALSE]]
    /\ UNCHANGED <<clock, starts, room, job, rows, loop, tx, failures, moved>>

\* A sweep ends: the room was sent now (_send_credentials).
Sent ==
    /\ There /\ Provided /\ starts <= clock
    /\ ~HeldByPurge /\ ~RoomHeld
    /\ room' = [room EXCEPT !.sent = clock]
    /\ UNCHANGED <<clock, starts, job, report, rows, loop, tx, failures, moved>>

Tick ==
    /\ clock < Horizon
    /\ clock' = clock + 1
    /\ UNCHANGED <<tables, loop, tx, failures, moved>>

-----------------------------------------------------------------------------
Init ==
    /\ clock = 0
    /\ starts \in Times
    /\ room = NoRoom
    /\ job = [status |-> "pending", at |-> starts + RoomRetention]
    /\ report = [r \in Reports |-> NoReport]
    /\ rows = [linked |-> 0, free |-> 0]
    /\ loop = [p \in Processes |-> Free]
    /\ tx = [p \in Processes |-> NoTx]
    /\ failures = 0
    /\ moved = FALSE

Purge(p) == Pick(p) \/ Clear(p) \/ Delete(p) \/ Gone(p)

Blanking(p) == FindSent(p) \/ ClaimJob(p) \/ JobLooks(p) \/ Blank(p)

Ending(p) ==
    Write(p) \/ TooLate(p) \/ CommitVerdict(p) \/ CommitReschedule(p) \/ CommitRoom(p)

Handler(p) ==
    \/ \E r \in Reports : Judge(p, r)
    \/ \E t \in Times : Reschedule(p, t)
    \/ EnterRoom(p)
    \/ Ending(p)

Next ==
    \/ \E p \in Processes : Purge(p) \/ Blanking(p) \/ LoopFails(p) \/ Handler(p)
    \/ \E r \in Reports : FileReport(r)
    \/ Sent \/ Tick

Spec == Init /\ [][Next]_vars

\* The loop of a process ticks every minute and catches every exception; a session
\* that has begun ends.  Nobody need do anything else.
Fairness ==
    \A p \in Processes : WF_vars(Purge(p)) /\ WF_vars(Blanking(p)) /\ WF_vars(Ending(p))

FairSpec == Spec /\ Fairness

-----------------------------------------------------------------------------
(* Properties                                                              *)

TypeOK ==
    /\ clock \in Times
    /\ starts \in Times \cup {Never}
    /\ room \in Room
    /\ job \in [status : {"pending", "running", "done", "cancelled", "gone"}, at : Nat]
    /\ report \in [Reports -> Report]
    /\ rows \in [linked : Nat, free : Nat]
    /\ loop \in [Processes -> Loop]
    /\ tx \in [Processes -> Tx]
    /\ failures \in 0..MaxFailures
    /\ moved \in BOOLEAN

\* A room that counts as provided can be read (creds_were_provided, deliver_one):
\* blanking and entering may cross in either process, but nothing a player is sent
\* was blanked.
PurgedIsMarked == Provided => room.content = "pair"

\* Only a custom that began long enough ago is deleted, unless it got another time
\* while the purge had it in hand.
GoesWhenOld == There /\ ~There' => starts + EventRetention < clock \/ moved

OnlyThePastGoes == [][GoesWhenOld]_vars

\* A custom that is old goes, or gets another time: a key that breaks, a failure, a
\* deadlock or another purge only delay it (purge_old_events).
Old == There /\ starts + EventRetention < clock

OldGoes == Old ~> ~Old

-----------------------------------------------------------------------------
(* Bounds for model checking: one trouble at a time, and the other time    *)
(* before the room                                                         *)

Few ==
    /\ failures = 0 \/ ~moved
    /\ room.version > 0 => ~moved /\ \A p \in Processes : tx[p].does # "reschedule"
    /\ room.version > 1 => failures = 0
=============================================================================
