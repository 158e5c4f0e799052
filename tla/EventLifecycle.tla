--------------------------- MODULE EventLifecycle ---------------------------
(***************************************************************************)
(* One custom from draft to archive: its events row (services/events.py),  *)
(* its scheduled_jobs rows (services/scheduler.py) and the dispatchers     *)
(* that run them (workers/tasks.py).                                       *)
(*                                                                         *)
(* Every process has one dispatcher, at most one late send that a handler  *)
(* spawned, and ONE database connection for the two.  A job is claimed in  *)
(* a transaction of its own; running it reads the event, talks to          *)
(* Telegram for seconds or minutes, and writes and commits at the end.  It *)
(* decides from the event it read, and writes the event's status only when *)
(* that differs from what it read.  Handlers of the bot and of the API are *)
(* short and serialised: they are one step each.                           *)
(***************************************************************************)
EXTENDS Naturals, FiniteSets

CONSTANTS Procs,          \* the processes that run a dispatcher
          JobIds,         \* the job types in view, of JobsAssumption
          MaxAttempts,    \* scheduled_jobs.max_attempts, 8
          SweepAttempts,  \* its value once a delivery went through, 40
          MaxSends        \* bound: late sends spawned in a behaviour

ASSUME AttemptsAssumption == /\ MaxAttempts \in Nat \ {0}
                             /\ SweepAttempts \in Nat \ {0}
ASSUME JobsAssumption     == JobIds \subseteq {"creds", "start", "finish", "manual"}
ASSUME SendsAssumption    == MaxSends \in Nat

VARIABLES
    ev,       \* the events row: status, past (archived_at is set), given (creds)
    clock,    \* 1: credentials_send_at has come, 2: starts_at, 3: the backstop
    job,      \* job[j]: the scheduled_jobs row j
    batch,    \* batch[p]: the jobs p's dispatcher claimed and has not finished
    run,      \* run[p]: what runs on p's connection
    spawned,  \* a late send waits in an executor
    sends,    \* how many were spawned
    orphans   \* history: jobs whose dispatcher went away while it held them

vars == <<ev, clock, job, batch, run, spawned, sends, orphans>>

\* "published" stands for "full" as well: no statement here tells them apart,
\* and Registration models what moves a custom between the two.
EventStatus == {"draft", "pending_approval", "published", "started",
                "finished", "cancelled", "rejected"}

\* A manual row is inserted by a late send that finds no credentials row.
Planned   == JobIds \ {"manual"}
SendJobs  == JobIds \cap {"creds", "manual"}
ClockJobs == JobIds \cap {"start", "finish"}
JobStatus == {"none", "pending", "running", "done", "failed", "cancelled"}

\* The clock at which a scheduled job is due.
RunAt == [creds |-> 1, start |-> 2, finish |-> 3, manual |-> 0]

\* run_at: the scheduled time, a retry that is still ahead, or already due.
Job == [status : JobStatus, attempts : Nat, max : {MaxAttempts, SweepAttempts},
        at : {"scheduled", "soon", "now"}]

NoJob == [status |-> "none", attempts |-> 0, max |-> MaxAttempts, at |-> "scheduled"]

Run == [job : JobIds \cup {"none"}, late : BOOLEAN, locks : BOOLEAN,
        seen : EventStatus, past : BOOLEAN, given : BOOLEAN]

NoRun == [job |-> "none", late |-> FALSE, locks |-> FALSE, seen |-> "draft",
          past |-> FALSE, given |-> FALSE]

Due(j) == /\ job[j].status = "pending"
          /\ \/ job[j].at = "now"
             \/ job[j].at = "scheduled" /\ clock >= RunAt[j]

\* The organizer or the backstop has moved the custom to the past list.
IsArchived == ev.past \/ ev.status \in {"cancelled", "rejected", "finished"} \/ clock = 3

\* An uncommitted update of the row j is pending in p's transaction.
LockedBy(p, j) == run[p].job = j /\ run[p].locks
Unlocked(j)    == \A p \in Procs : ~LockedBy(p, j)

-----------------------------------------------------------------------------
(* services/scheduler.py                                                   *)

\* A mistake for SettledStays to catch: every row that is not done is revived,
\* as schedule_event_jobs_sync would (no process calls it).
ScheduledAnew(rows, skipped) ==
    [j \in JobIds |->
        IF j \in skipped \cup {"manual"} \/ rows[j].status = "done" THEN rows[j]
        ELSE [rows[j] EXCEPT !.status = "pending", !.at = "scheduled"]]

\* schedule_event_jobs: a row that is pending or failed gets its new time, a
\* missing one is added, any other is left.  Times that have passed are
\* skipped, but a minute's grace makes that uncertain, and the credentials job
\* is never skipped.
Scheduled(rows, skipped) ==
    [j \in JobIds |->
        IF j \in skipped \cup {"manual"} THEN rows[j]
        ELSE IF rows[j].status = "none" THEN [NoJob EXCEPT !.status = "pending"]
        ELSE IF rows[j].status \in {"pending", "failed"}
             THEN [rows[j] EXCEPT !.status = "pending", !.at = "scheduled"]
        ELSE rows[j]]

\* A mistake for ClaimIsExclusive to catch: running jobs are cancelled too.
CancelledAll(rows) ==
    [j \in JobIds |-> IF rows[j].status \in {"pending", "running", "failed"}
                      THEN [rows[j] EXCEPT !.status = "cancelled"] ELSE rows[j]]

\* cancel_event_jobs
Cancelled(rows) ==
    [j \in JobIds |-> IF rows[j].status \in {"pending", "failed"}
                      THEN [rows[j] EXCEPT !.status = "cancelled"] ELSE rows[j]]

\* A handler that updates job rows waits for the row locks it meets.
RowsFree == \A j \in JobIds : job[j].status \in {"pending", "failed"} => Unlocked(j)

Schedule ==
    /\ RowsFree
    /\ \E skipped \in SUBSET {j \in ClockJobs : clock >= RunAt[j]} :
          job' = Scheduled(job, skipped)

CancelJobs == RowsFree /\ job' = Cancelled(job)

-----------------------------------------------------------------------------
(* services/events.py, as the API and the bot call it                      *)

workers == <<batch, run, orphans>>

\* submit_for_publish has no guard on the status; approval is a setting.
Submit ==
    /\ \/ /\ ev' = [ev EXCEPT !.status = "pending_approval"]
          /\ UNCHANGED job
       \/ /\ ev' = [ev EXCEPT !.status = "published"]
          /\ Schedule
    /\ UNCHANGED <<clock, workers, spawned, sends>>

Approve ==
    /\ ev.status \in {"pending_approval", "rejected", "draft"}
    /\ ev' = [ev EXCEPT !.status = "published"]
    /\ Schedule
    /\ UNCHANGED <<clock, workers, spawned, sends>>

Reject ==
    /\ ev' = [ev EXCEPT !.status = "rejected"]
    /\ CancelJobs
    /\ UNCHANGED <<clock, workers, spawned, sends>>

Cancel ==
    /\ ev' = [ev EXCEPT !.status = "cancelled", !.past = TRUE]
    /\ CancelJobs
    /\ UNCHANGED <<clock, workers, spawned, sends>>

\* The organizer taps "custom started"; the bot asks for the credentials first.
MarkStarted ==
    /\ ev.status \notin {"cancelled", "rejected"}
    /\ ~ev.past
    /\ ev.given
    /\ ev' = [ev EXCEPT !.past = TRUE,
                        !.status = IF @ = "published" THEN "started" ELSE @]
    /\ CancelJobs
    /\ UNCHANGED <<clock, workers, spawned, sends>>

\* The new start lies ahead; the jobs are cancelled, then scheduled.
Reschedule ==
    /\ RowsFree
    /\ clock' \in {0, 1}
    /\ job' = IF ev.status = "published" THEN Scheduled(Cancelled(job), {})
              ELSE Cancelled(job)
    /\ UNCHANGED <<ev, workers, spawned, sends>>

\* One late send waits at a time here.
Spawn == ~spawned /\ sends < MaxSends /\ spawned' = TRUE /\ sends' = sends + 1

\* update_credentials: the API stores them; the bot asks that the window is
\* open (or that it corrects older ones), and sends at once when the time has
\* come.
EnterCredentials ==
    /\ ev' = [ev EXCEPT !.given = TRUE]
    /\ \/ UNCHANGED <<spawned, sends>>
       \/ /\ ~IsArchived \/ ev.given
          /\ clock >= 1
          /\ Spawn
    /\ UNCHANGED <<clock, job, workers>>

\* queue_late_credentials: a player has just become eligible.
QueueLate ==
    /\ ~IsArchived
    /\ ev.status # "draft"
    /\ ev.given
    /\ Spawn
    /\ UNCHANGED <<ev, clock, job, workers>>

-----------------------------------------------------------------------------
(* workers/tasks.py: claiming, running, failing                            *)

\* A mistake for DueJobSettles to catch: attempts are not counted.
Uncounted(r) == r

\* Another attempt; only whether the row's maximum is reached is ever asked.
OneMore(r) == [r EXCEPT !.attempts = IF @ < r.max THEN @ + 1 ELSE @]

\* claim_due_jobs_sync and the dispatcher's commit.
Claim(p) ==
    /\ batch[p] = {}
    /\ run[p] = NoRun
    /\ LET due == {j \in JobIds : Due(j) /\ Unlocked(j)}
       IN /\ due # {}
          /\ job' = [j \in JobIds |-> IF j \in due THEN [OneMore(job[j]) EXCEPT !.status = "running"]
                                      ELSE job[j]]
          /\ batch' = [batch EXCEPT ![p] = due]
          /\ orphans' = orphans \ due
    /\ UNCHANGED <<ev, clock, run, spawned, sends>>

\* The event as a run reads it; only a delivery looks beyond the status.
Copy(j, late, locks) ==
    [job |-> j, late |-> late, locks |-> locks, seen |-> ev.status,
     past |-> j \in SendJobs /\ ev.past, given |-> j \in SendJobs /\ ev.given]

\* A mistake for TypeOK to catch: a dispatcher runs what others have claimed.
BeginAny(p, j) ==
    /\ run[p] = NoRun
    /\ job[j].status = "running"
    /\ run' = [run EXCEPT ![p] = Copy(j, FALSE, FALSE)]
    /\ UNCHANGED <<ev, clock, job, batch, spawned, sends, orphans>>

\* The next job of the batch, in the order of run_at.
Begin(p, j) ==
    /\ run[p] = NoRun
    /\ j \in batch[p]
    /\ job[j].at = "scheduled" =>
          \A i \in batch[p] : job[i].at = "scheduled" => RunAt[j] <= RunAt[i]
    /\ run' = [run EXCEPT ![p] = Copy(j, FALSE, FALSE)]
    /\ UNCHANGED <<ev, clock, job, batch, spawned, sends, orphans>>

\* send_event_credentials: it takes the credentials job whatever its status
\* is.  Marking it running updates, and locks, the row unless it was running.
BeginSend(p) ==
    /\ spawned
    /\ run[p] = NoRun
    /\ SendJobs = {"creds", "manual"}
    /\ LET j == IF job["creds"].status # "none" THEN "creds" ELSE "manual"
       IN /\ Unlocked(j)
          /\ run' = [run EXCEPT ![p] = Copy(j, TRUE, job[j].status # "running")]
    /\ spawned' = FALSE
    /\ UNCHANGED <<ev, clock, job, batch, sends, orphans>>

\* The connection stayed busy for pool_timeout: the spawned send is lost.
LoseSend ==
    /\ spawned
    /\ \E p \in Procs : run[p] # NoRun
    /\ spawned' = FALSE
    /\ UNCHANGED <<ev, clock, job, batch, run, sends, orphans>>

\* p's run commits: the job's row becomes r, the event's row e.
Commit(p, r, e) ==
    /\ run[p] # NoRun
    /\ \A q \in Procs \ {p} : ~LockedBy(q, run[p].job)
    /\ job' = [job EXCEPT ![run[p].job] = r]
    /\ ev' = e
    /\ batch' = [batch EXCEPT ![p] = IF run[p].late THEN @ ELSE @ \ {run[p].job}]
    /\ run' = [run EXCEPT ![p] = NoRun]
    /\ UNCHANGED <<clock, spawned, sends, orphans>>

Row(p) == job[run[p].job]

\* The run's status s is written over the row only when the run read another.
Written(p, s) == IF run[p].seen = s THEN ev ELSE [ev EXCEPT !.status = s]

\* _retry_or_fail: later again, until the attempts are used up.  Forgotten is
\* a mistake for RunningIsHeld to catch.
Forgotten(p) == Row(p)
Retried(p)   == IF Row(p).attempts >= Row(p).max THEN [Row(p) EXCEPT !.status = "failed"]
                ELSE [Row(p) EXCEPT !.status = "pending", !.at = "soon"]

\* The handler raised; a late send leaves everything as it was.
Fail(p) ==
    /\ run[p] # NoRun
    /\ \/ /\ run[p].late
          /\ run' = [run EXCEPT ![p] = NoRun]
          /\ UNCHANGED <<ev, clock, job, batch, spawned, sends, orphans>>
       \/ /\ ~run[p].late
          /\ Commit(p, Retried(p), ev)

\* A late send keeps p's only connection beyond pool_timeout: the dispatcher's
\* next query times out, and so does the one that would mark the job failed.
Starve(p) ==
    /\ run[p].late
    /\ batch[p] # {}
    /\ orphans' = orphans \cup batch[p]
    /\ batch' = [batch EXCEPT ![p] = {}]
    /\ UNCHANGED <<ev, clock, job, run, spawned, sends>>

\* The process stops, and starts again.
Crash(p) ==
    /\ orphans' = orphans \cup batch[p]
    /\ batch' = [batch EXCEPT ![p] = {}]
    /\ run' = [run EXCEPT ![p] = NoRun]
    /\ spawned' \in {spawned, FALSE}
    /\ UNCHANGED <<ev, clock, job, sends>>

-----------------------------------------------------------------------------
(* workers/tasks.py: the job types                                         *)

Done(p) == [Row(p) EXCEPT !.status = "done"]
Soon(p) == [Row(p) EXCEPT !.status = "pending", !.at = "soon"]

EventStart(p) ==
    /\ run[p].job = "start"
    /\ Commit(p, Done(p), IF run[p].seen \in {"cancelled", "finished"} THEN ev
                          ELSE Written(p, "started"))

\* The event's row finished and archived.
Finished(p) == [Written(p, "finished") EXCEPT !.past = TRUE]

\* ... which a cancelled custom is spared; ClosedAnyway is a mistake for
\* OnlyOutdatedRevives to catch.
ClosedAnyway(p) == Finished(p)
Closed(p)       == IF run[p].seen = "cancelled" THEN ev ELSE Finished(p)

EventFinish(p) ==
    /\ run[p].job = "finish"
    /\ Commit(p, Done(p), Closed(p))

Sending(p) == run[p].job \in SendJobs

\* Customs nobody wants credentials for; without the first of them
\* CancelledQuiets breaks.
NotPublic == {"rejected", "draft"}
Unwanted  == {"cancelled", "rejected", "draft"}

DropCredentials(p) ==
    /\ Sending(p)
    /\ run[p].seen \in Unwanted
    /\ Commit(p, [Row(p) EXCEPT !.status = "cancelled"], ev)

Wanted(p) == Sending(p) /\ run[p].seen \notin Unwanted

\* credentials_deadline has passed, by the copy or by the clock.
Over(p) == run[p].past \/ clock = 3

\* Nothing to send yet: ask the organizer, look again soon.
PromptOrganizer(p) ==
    /\ Wanted(p)
    /\ ~run[p].given
    /\ ~Over(p)
    /\ Commit(p, Soon(p), ev)

\* _expire_missing_credentials
ExpireMissing(p) ==
    /\ Wanted(p)
    /\ ~run[p].given
    /\ Over(p)
    /\ Commit(p, [Row(p) EXCEPT !.status = "failed"], Finished(p))

\* Somebody else holds the delivery lock, or it has not expired yet: the job
\* becomes pending again, and is due as it was.
LockHeld(p) ==
    /\ Wanted(p)
    /\ run[p].given
    /\ Commit(p, [Row(p) EXCEPT !.status = "pending"], ev)

\* Nobody's membership could be verified and nothing was sent.
Unverified(p) ==
    /\ Wanted(p)
    /\ run[p].given
    /\ Commit(p, Soon(p), ev)

\* The sweep went through: the custom has started, and the job sweeps again
\* for late players until the deadline.
Delivered(p) ==
    /\ Wanted(p)
    /\ run[p].given
    /\ Commit(p, IF Over(p) THEN Done(p)
                 ELSE [Soon(p) EXCEPT !.attempts = 0, !.max = SweepAttempts],
              Written(p, "started"))

-----------------------------------------------------------------------------
\* The custom's next moment comes ...
Advance ==
    /\ clock < 3
    /\ clock' = clock + 1
    /\ UNCHANGED <<ev, job, workers, spawned, sends>>

\* ... and so does the time of a retry.
RetryDue(j) ==
    /\ job[j].status = "pending"
    /\ job[j].at = "soon"
    /\ job' = [job EXCEPT ![j].at = "now"]
    /\ UNCHANGED <<ev, clock, workers, spawned, sends>>

Init ==
    /\ ev = [status |-> "draft", past |-> FALSE, given |-> FALSE]
    /\ clock = 0
    /\ job = [j \in JobIds |-> NoJob]
    /\ batch = [p \in Procs |-> {}]
    /\ run = [p \in Procs |-> NoRun]
    /\ spawned = FALSE
    /\ sends = 0
    /\ orphans = {}

Handler ==
    \/ Submit \/ Approve \/ Reject \/ Cancel \/ MarkStarted \/ Reschedule
    \/ EnterCredentials \/ QueueLate

\* p's run ends.
End(p) ==
    \/ Fail(p)
    \/ EventStart(p) \/ EventFinish(p)
    \/ DropCredentials(p) \/ PromptOrganizer(p) \/ ExpireMissing(p)
    \/ LockHeld(p) \/ Unverified(p) \/ Delivered(p)

Dispatch(p) == Claim(p) \/ \E j \in JobIds : Begin(p, j)

Next ==
    \/ Handler
    \/ Advance
    \/ \E j \in JobIds : RetryDue(j)
    \/ LoseSend
    \/ \E p \in Procs : Dispatch(p) \/ BeginSend(p) \/ End(p) \/ Starve(p) \/ Crash(p)

Spec == Init /\ [][Next]_vars

\* Time goes on; a dispatcher ticks every minute, whatever became of its last
\* batch; a run ends, if only by a timeout.  Nobody need do anything else.
Fairness ==
    /\ WF_vars(Advance)
    /\ \A j \in JobIds : WF_vars(RetryDue(j))
    /\ \A p \in Procs : WF_vars(Dispatch(p)) /\ WF_vars(End(p))

FairSpec == Spec /\ Fairness
-----------------------------------------------------------------------------
(* Properties                                                              *)

\* The rows and the dispatchers keep their types, and what a dispatcher runs is
\* a job it has claimed.
TypeOK ==
    /\ ev \in [status : EventStatus, past : BOOLEAN, given : BOOLEAN]
    /\ clock \in 0..3
    /\ job \in [JobIds -> Job]
    /\ batch \in [Procs -> SUBSET JobIds]
    /\ run \in [Procs -> Run]
    /\ spawned \in BOOLEAN
    /\ sends \in 0..MaxSends
    /\ orphans \in SUBSET JobIds
    /\ \A p \in Procs : run[p] # NoRun /\ ~run[p].late => run[p].job \in batch[p]

\* Handlers, jobs and late sends write the status and archived_at from copies
\* of different age; still a finished or cancelled custom is in the past list.
FinishedIsPast == ev.status \in {"finished", "cancelled"} => ev.past

\* The dispatcher loses no job: one that is marked running is in somebody's
\* batch, or was when that dispatcher went away.
RunningIsHeld ==
    \A j \in JobIds : job[j].status = "running" =>
        j \in orphans \/ \E p \in Procs : j \in batch[p]

\* Claiming is exclusive: two dispatchers never hold the same start or finish
\* job, and whoever holds one finds its row as claimed, whatever handlers do to
\* the job rows meanwhile.
ClaimIsExclusive ==
    \A p \in Procs, j \in ClockJobs : j \in batch[p] =>
        /\ job[j].status = "running"
        /\ \A q \in Procs : j \in batch[q] => q = p

\* A start or finish job that is done or was cancelled never runs again, even
\* if the custom is submitted, approved or rescheduled once more.
SettledStays ==
    [][\A j \in ClockJobs :
          job[j].status \in {"done", "cancelled"} => job'[j].status = job[j].status]_vars

\* The one way a job can bring a cancelled custom back to life is that it read
\* the event before the cancellation.
OnlyOutdatedRevives ==
    [][ev.status = "cancelled" /\ ev'.status \in {"started", "finished"} =>
          \E p \in Procs : /\ run[p] # NoRun /\ run'[p] = NoRun
                           /\ run[p].seen # "cancelled"]_vars

\* A start or finish job that falls due is run, given up after its attempts or
\* cancelled, unless its dispatcher went away.
DueJobSettles ==
    \A j \in ClockJobs :
        Due(j) ~> (job[j].status \notin {"pending", "running"} \/ j \in orphans)

\* After a cancellation the jobs of the custom come to rest, those included
\* that were running and are put back: no job keeps polling for it.
CancelledQuiets ==
    ev.status = "cancelled" ~>
        \/ ev.status # "cancelled"
        \/ \A j \in JobIds : job[j].status \notin {"pending", "running"} \/ j \in orphans

\* docs/ACCEPTANCE.md:14, docs/USE_CASES.md:13: a change of time updates the
\* jobs, so none of an open custom's is left cancelled by it.
RescheduleKeepsJobs ==
    [][Reschedule /\ ev.status = "published" =>
          \A j \in Planned : job'[j].status # "cancelled"]_vars

\* bot/handlers/admin.py:373: the cancelled custom's jobs were stopped, so no
\* job starts it afterwards.
CancelledNeverStarts == [][ev.status = "cancelled" => ev'.status # "started"]_vars

\* docs/USE_CASES.md:27: what a worker that crashed had not done is done by a
\* pending or failed job again.
ClaimedJobsSettle ==
    \A j \in ClockJobs : Due(j) ~> job[j].status \notin {"pending", "running"}
=============================================================================
