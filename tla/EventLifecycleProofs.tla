------------------------ MODULE EventLifecycleProofs ------------------------
(***************************************************************************)
(* Theorems about EventLifecycle, for any number of processes, any limits  *)
(* on attempts and any number of late sends.                               *)
(***************************************************************************)
EXTENDS EventLifecycle, TLAPS

-----------------------------------------------------------------------------
(* The inductive invariant                                                 *)

\* What a process runs: a late send runs a delivery, and a dispatcher a job of
\* its batch.
Runs ==
    \A p \in Procs :
        /\ run[p].late => run[p].job \in SendJobs
        /\ run[p] # NoRun => run[p].job \in JobIds

IInv == TypeOK /\ Runs /\ ClaimIsExclusive /\ RunningIsHeld /\ FinishedIsPast

-----------------------------------------------------------------------------
(* Rows                                                                    *)

Event == [status : EventStatus, past : BOOLEAN, given : BOOLEAN]

\* The job types: deliveries are not clock jobs, and "none" is no job.
LEMMA Names == /\ JobIds \subseteq {"creds", "start", "finish", "manual"}
               /\ SendJobs \cap ClockJobs = {} /\ SendJobs \subseteq JobIds
               /\ "none" \notin JobIds
BY JobsAssumption DEF SendJobs, ClockJobs

\* An idle connection is typed, and runs no late send.
LEMMA NoRunTyped == NoRun \in Run /\ ~NoRun.late /\ NoRun.job = "none"
BY DEF NoRun, Run, EventStatus

\* A row that does not exist is typed.
LEMMA NoJobTyped == NoJob \in Job /\ NoJob.status = "none"
BY DEF NoJob, Job, JobStatus

\* Scheduling revives the pending and the failed, adds the missing, and touches
\* no other row.
LEMMA ScheduledRows ==
    ASSUME NEW rows \in [JobIds -> Job], NEW skipped
    PROVE  /\ Scheduled(rows, skipped) \in [JobIds -> Job]
           /\ \A j \in JobIds :
                /\ rows[j].status \in {"running", "done", "cancelled"} =>
                      Scheduled(rows, skipped)[j] = rows[j]
                /\ Scheduled(rows, skipped)[j].status = "running" => rows[j].status = "running"
<1>1. ASSUME NEW j \in JobIds
      PROVE  /\ Scheduled(rows, skipped)[j] \in {rows[j], [NoJob EXCEPT !.status = "pending"],
                                                 [rows[j] EXCEPT !.status = "pending", !.at = "scheduled"]}
             /\ rows[j].status \in {"running", "done", "cancelled"} =>
                   Scheduled(rows, skipped)[j] = rows[j]
  BY DEF Scheduled
<1>2. /\ [NoJob EXCEPT !.status = "pending"] \in Job
      /\ [NoJob EXCEPT !.status = "pending"].status = "pending"
  BY DEF NoJob, Job, JobStatus
<1>3. ASSUME NEW j \in JobIds
      PROVE  /\ [rows[j] EXCEPT !.status = "pending", !.at = "scheduled"] \in Job
             /\ [rows[j] EXCEPT !.status = "pending", !.at = "scheduled"].status = "pending"
  <2>1. rows[j] \in Job
    OBVIOUS
  <2> QED
    BY <2>1 DEF Job, JobStatus
<1>4. \A j \in JobIds : Scheduled(rows, skipped)[j] \in Job
  BY <1>1, <1>2, <1>3
<1>5. Scheduled(rows, skipped) \in [JobIds -> Job]
  BY <1>4 DEF Scheduled
<1> QED
  BY <1>1, <1>2, <1>3, <1>5

\* Cancelling touches the pending and the failed.
LEMMA CancelledRows ==
    ASSUME NEW rows \in [JobIds -> Job]
    PROVE  /\ Cancelled(rows) \in [JobIds -> Job]
           /\ \A j \in JobIds :
                /\ rows[j].status \notin {"pending", "failed"} => Cancelled(rows)[j] = rows[j]
                /\ rows[j].status \in {"pending", "failed"} => Cancelled(rows)[j].status = "cancelled"
<1>1. ASSUME NEW j \in JobIds
      PROVE  /\ rows[j].status \notin {"pending", "failed"} => Cancelled(rows)[j] = rows[j]
             /\ rows[j].status \in {"pending", "failed"} =>
                   Cancelled(rows)[j] = [rows[j] EXCEPT !.status = "cancelled"]
  BY DEF Cancelled
<1>2. ASSUME NEW j \in JobIds
      PROVE  /\ [rows[j] EXCEPT !.status = "cancelled"] \in Job
             /\ [rows[j] EXCEPT !.status = "cancelled"].status = "cancelled"
  <2>1. rows[j] \in Job
    OBVIOUS
  <2> QED
    BY <2>1 DEF Job, JobStatus
<1>3. Cancelled(rows) \in [JobIds -> Job]
  <2>1. \A j \in JobIds : Cancelled(rows)[j] \in Job
    BY <1>1, <1>2
  <2> QED
    BY <2>1 DEF Cancelled
<1> QED
  BY <1>1, <1>2, <1>3

\* What may become of the rows when no dispatcher or late send is at work.
RowsKept ==
    /\ job' \in [JobIds -> Job]
    /\ \A j \in JobIds :
          /\ job[j].status \in {"running", "done", "cancelled"} => job'[j].status = job[j].status
          /\ job'[j].status = "running" => job[j].status = "running"

\* Handlers and the clock leave running, done and cancelled rows as they are, and
\* what the dispatchers hold.
LEMMA HandlerRows ==
    ASSUME TypeOK, Handler \/ Advance \/ \E j \in JobIds : RetryDue(j)
    PROVE  RowsKept /\ UNCHANGED workers
<1>t. job \in [JobIds -> Job]
  BY DEF TypeOK
<1>1. ASSUME Schedule PROVE RowsKept
  BY <1>1, <1>t, ScheduledRows DEF Schedule, RowsKept
<1>2. ASSUME CancelJobs PROVE RowsKept
  BY <1>2, <1>t, CancelledRows DEF CancelJobs, RowsKept
<1>3. ASSUME job' = job PROVE RowsKept
  BY <1>3, <1>t DEF RowsKept
<1>4. CASE Submit \/ Approve
  BY <1>1, <1>3, <1>4 DEF Submit, Approve
<1>5. CASE Reject \/ Cancel \/ MarkStarted
  BY <1>2, <1>5 DEF Reject, Cancel, MarkStarted
<1>6. CASE Reschedule
  <2> DEFINE C == Cancelled(job)
  <2>1. /\ C \in [JobIds -> Job]
        /\ \A j \in JobIds :
              /\ job[j].status \notin {"pending", "failed"} => C[j] = job[j]
              /\ job[j].status \in {"pending", "failed"} => C[j].status = "cancelled"
    BY <1>t, CancelledRows
  <2> HIDE DEF C
  <2>2. /\ Scheduled(C, {}) \in [JobIds -> Job]
        /\ \A j \in JobIds :
              /\ C[j].status \in {"running", "done", "cancelled"} => Scheduled(C, {})[j] = C[j]
              /\ Scheduled(C, {})[j].status = "running" => C[j].status = "running"
    BY <2>1, ScheduledRows
  <2>3. (job' = C \/ job' = Scheduled(C, {})) /\ UNCHANGED workers
    BY <1>6 DEF Reschedule, C
  <2> QED
    BY <2>1, <2>2, <2>3 DEF RowsKept
<1>7. CASE EnterCredentials \/ QueueLate \/ Advance
  BY <1>3, <1>7 DEF EnterCredentials, QueueLate, Advance
<1>8. ASSUME NEW j \in JobIds, RetryDue(j) PROVE RowsKept /\ UNCHANGED workers
  <2>1. job[j] \in Job /\ job[j].status = "pending" /\ job' = [job EXCEPT ![j] = [job[j] EXCEPT !.at = "now"]]
    BY <1>t, <1>8 DEF RetryDue
  <2>2. [job[j] EXCEPT !.at = "now"] \in Job /\ [job[j] EXCEPT !.at = "now"].status = "pending"
    BY <2>1 DEF Job
  <2> HIDE DEF Job
  <2> QED
    BY <1>t, <1>8, <2>1, <2>2 DEF RetryDue, RowsKept
<1> QED
  BY <1>4, <1>5, <1>6, <1>7, <1>8 DEF Handler

\* What the row and the event can become when p's run commits: the job no
\* longer runs, a finished custom is past, and only a copy from before a
\* cancellation can undo it.
Ending(p, r, e) ==
    /\ r \in Job /\ r.status # "running"
    /\ e \in Event
    /\ e.status \in {"finished", "cancelled"} => e.past
    /\ ev.status = "cancelled" /\ e.status \in {"started", "finished"} => run[p].seen # "cancelled"

\* A run ends with a commit like that, or a late send leaves everything alone.
LEMMA Ends ==
    ASSUME IInv, NEW p \in Procs, End(p)
    PROVE  \/ \E r, e : Commit(p, r, e) /\ Ending(p, r, e)
           \/ /\ run[p].late /\ run' = [run EXCEPT ![p] = NoRun]
              /\ UNCHANGED <<ev, clock, job, batch, spawned, sends, orphans>>
<1>0. run[p] # NoRun
  BY NoRunTyped, JobsAssumption DEF End, Fail, EventStart, EventFinish, DropCredentials,
     PromptOrganizer,
        ExpireMissing, LockHeld, Unverified, Delivered, Commit
<1>1. Row(p) \in Job /\ ev \in Event
  BY <1>0 DEF IInv, TypeOK, Runs, Row, Event
<1>2. ASSUME NEW st \in JobStatus, st # "running"
      PROVE  /\ [Row(p) EXCEPT !.status = st] \in Job
             /\ [Row(p) EXCEPT !.status = st, !.at = "soon"] \in Job
             /\ [Row(p) EXCEPT !.status = st].status # "running"
             /\ [Row(p) EXCEPT !.status = st, !.at = "soon"].status # "running"
  BY <1>1, <1>2 DEF Job
<1>3. /\ "failed" \in JobStatus /\ "pending" \in JobStatus /\ "done" \in JobStatus
      /\ "cancelled" \in JobStatus
  BY DEF JobStatus
<1>4. /\ Retried(p) \in Job /\ Retried(p).status # "running"
      /\ Done(p) \in Job /\ Done(p).status # "running"
      /\ Soon(p) \in Job /\ Soon(p).status # "running"
  BY <1>2, <1>3 DEF Retried, Done, Soon
<1>5. /\ Written(p, "started") \in Event
      /\ Written(p, "started").status \in {"started", ev.status}
      /\ Written(p, "started") # ev => Written(p, "started").status = "started"
  <2>1. CASE run[p].seen = "started"
    BY <1>1, <2>1 DEF Written
  <2>2. CASE run[p].seen # "started"
    <3>1. Written(p, "started") = [ev EXCEPT !.status = "started"]
      BY <2>2 DEF Written
    <3> QED
      BY <1>1, <3>1 DEF Event, EventStatus
  <2> QED
    BY <2>1, <2>2
<1>6. Finished(p) \in Event /\ Finished(p).past
  <2>1. CASE run[p].seen = "finished"
    BY <1>1, <2>1 DEF Finished, Written, Event
  <2>2. CASE run[p].seen # "finished"
    <3>1. Finished(p) = [ev EXCEPT !.status = "finished", !.past = TRUE]
      BY <2>2 DEF Finished, Written
    <3> QED
      BY <1>1, <3>1 DEF Event, EventStatus
  <2> QED
    BY <2>1, <2>2
<1>7. ev.status \in {"finished", "cancelled"} => ev.past
  BY DEF IInv, FinishedIsPast
<1>8. /\ Ending(p, Retried(p), ev) /\ Ending(p, Soon(p), ev)
      /\ \A st \in JobStatus \ {"running"} : Ending(p, [Row(p) EXCEPT !.status = st], ev)
  BY <1>1, <1>2, <1>4, <1>7 DEF Ending
<1>9. CASE Fail(p)
  BY <1>8, <1>9 DEF Fail
<1>10. CASE EventStart(p)
  <2>1. CASE run[p].seen \in {"cancelled", "finished"}
    <3>1. Commit(p, Done(p), ev)
      BY <1>10, <2>1 DEF EventStart
    <3>2. Ending(p, Done(p), ev)
      BY <1>1, <1>4, <1>7 DEF Ending
    <3> QED
      BY <3>1, <3>2
  <2>2. CASE run[p].seen \notin {"cancelled", "finished"}
    <3>1. Commit(p, Done(p), Written(p, "started"))
      BY <1>10, <2>2 DEF EventStart
    <3>2. Ending(p, Done(p), Written(p, "started"))
      BY <1>4, <1>5, <1>7, <2>2 DEF Ending
    <3> QED
      BY <3>1, <3>2
  <2> QED
    BY <2>1, <2>2
<1>11. CASE EventFinish(p)
  <2>1. CASE run[p].seen = "cancelled"
    <3>1. Commit(p, Done(p), ev)
      BY <1>11, <2>1 DEF EventFinish, Closed
    <3>2. Ending(p, Done(p), ev)
      BY <1>1, <1>4, <1>7 DEF Ending
    <3> QED
      BY <3>1, <3>2
  <2>2. CASE run[p].seen # "cancelled"
    <3>1. Commit(p, Done(p), Finished(p))
      BY <1>11, <2>2 DEF EventFinish, Closed
    <3>2. Ending(p, Done(p), Finished(p))
      BY <1>4, <1>6, <2>2 DEF Ending
    <3> QED
      BY <3>1, <3>2
  <2> QED
    BY <2>1, <2>2
<1>12. CASE DropCredentials(p)
  BY <1>3, <1>8, <1>12 DEF DropCredentials
<1>13. CASE PromptOrganizer(p) \/ Unverified(p)
  BY <1>8, <1>13 DEF PromptOrganizer, Unverified
<1>14. CASE LockHeld(p)
  BY <1>3, <1>8, <1>14 DEF LockHeld
<1>15. CASE ExpireMissing(p)
  <2>1. /\ Commit(p, [Row(p) EXCEPT !.status = "failed"], Finished(p))
        /\ run[p].seen # "cancelled"
    BY <1>15 DEF ExpireMissing, Wanted, Unwanted
  <2>2. Ending(p, [Row(p) EXCEPT !.status = "failed"], Finished(p))
    BY <1>2, <1>3, <1>6, <2>1 DEF Ending
  <2> QED
    BY <2>1, <2>2
<1>16. CASE Delivered(p)
  <2> DEFINE again == [Soon(p) EXCEPT !.attempts = 0, !.max = SweepAttempts]
             r     == IF Over(p) THEN Done(p) ELSE again
  <2>1. Commit(p, r, Written(p, "started")) /\ run[p].seen # "cancelled"
    BY <1>16 DEF Delivered, Wanted, Unwanted
  <2>2. again \in Job /\ again.status = "pending"
    BY <1>1, AttemptsAssumption DEF Soon, Job, JobStatus
  <2>3. r \in Job /\ r.status # "running"
    BY <1>4, <2>2
  <2>4. Ending(p, r, Written(p, "started"))
    BY <1>5, <1>7, <2>1, <2>3 DEF Ending
  <2> HIDE DEF r
  <2> QED
    BY <2>1, <2>4
<1> QED
  BY <1>9, <1>10, <1>11, <1>12, <1>13, <1>14, <1>15, <1>16 DEF End

-----------------------------------------------------------------------------
(* The invariant is inductive                                              *)

\* What is promised of the job rows and of who holds them.
Held == Runs /\ ClaimIsExclusive /\ RunningIsHeld

\* Only rows change, and none that is running.
LEMMA RowsStep ==
    ASSUME IInv, RowsKept, UNCHANGED workers
    PROVE  Held'
<1>1. Runs'
  BY DEF IInv, Runs, workers
<1>2. ClaimIsExclusive'
  <2>1. \A j \in ClockJobs : j \in JobIds
    BY DEF ClockJobs
  <2> QED
    BY <2>1 DEF IInv, ClaimIsExclusive, RowsKept, workers
<1>3. RunningIsHeld'
  BY DEF IInv, RunningIsHeld, RowsKept, workers
<1> QED
  BY <1>1, <1>2, <1>3 DEF Held

\* What a dispatcher holds and runs once p has claimed jobs.
LEMMA ClaimStep ==
    ASSUME IInv, NEW p \in Procs, Claim(p)
    PROVE  TypeOK' /\ Held'
<1> DEFINE due == {j \in JobIds : Due(j) /\ Unlocked(j)}
<1>1. /\ job' = [j \in JobIds |-> IF j \in due THEN [OneMore(job[j]) EXCEPT !.status = "running"]
                                  ELSE job[j]]
      /\ batch' = [batch EXCEPT ![p] = due] /\ orphans' = orphans \ due
      /\ run' = run /\ ev' = ev /\ clock' = clock /\ spawned' = spawned /\ sends' = sends
      /\ batch[p] = {} /\ run[p] = NoRun
  BY DEF Claim
<1>2. \A j \in due : job[j].status = "pending" /\ j \in JobIds
  BY DEF Due
<1> HIDE DEF due
<1>3. due \subseteq JobIds
  BY <1>2
<1>4. ASSUME NEW j \in JobIds
      PROVE  /\ [OneMore(job[j]) EXCEPT !.status = "running"] \in Job
             /\ [OneMore(job[j]) EXCEPT !.status = "running"].status = "running"
  <2>1. job[j] \in Job
    BY DEF IInv, TypeOK
  <2>2. OneMore(job[j]) \in Job
    BY <2>1 DEF OneMore, Job
  <2> QED
    BY <2>2 DEF Job, JobStatus
<1>5. \A j \in JobIds : /\ job'[j] \in Job
                        /\ j \in due => job'[j].status = "running"
                        /\ j \notin due => job'[j] = job[j]
  BY <1>1, <1>4 DEF IInv, TypeOK
<1>6. job' \in [JobIds -> Job]
  BY <1>1, <1>5
<1>7. \A q \in Procs : batch'[q] = IF q = p THEN due ELSE batch[q]
  BY <1>1 DEF IInv, TypeOK
<1>8. TypeOK'
  <2>1. batch' \in [Procs -> SUBSET JobIds]
    BY <1>1, <1>3 DEF IInv, TypeOK
  <2>2. \A q \in Procs : run'[q] # NoRun /\ ~run'[q].late => run'[q].job \in batch'[q]
    BY <1>1, <1>7 DEF IInv, TypeOK
  <2> QED
    BY <1>1, <1>6, <2>1, <2>2 DEF IInv, TypeOK
<1>9. Runs'
  BY <1>1 DEF IInv, Runs
<1>10. ClaimIsExclusive'
  <2> SUFFICES ASSUME NEW q \in Procs, NEW j \in ClockJobs, j \in batch'[q]
               PROVE  /\ job'[j].status = "running"
                      /\ \A o \in Procs : j \in batch'[o] => o = q
    BY DEF ClaimIsExclusive
  <2>0. j \in JobIds
    BY DEF ClockJobs
  <2>1. \A o \in Procs : j \in batch[o] =>
            job[j].status = "running" /\ \A m \in Procs : j \in batch[m] => m = o
    BY DEF IInv, ClaimIsExclusive
  <2>2. CASE j \in due
    <3>1. \A o \in Procs : j \notin batch[o]
      BY <1>2, <2>1, <2>2
    <3> QED
      BY <1>5, <1>7, <2>0, <2>2, <3>1
  <2>3. CASE j \notin due
    BY <1>5, <1>7, <2>0, <2>1, <2>3
  <2> QED
    BY <2>2, <2>3
<1>11. RunningIsHeld'
  BY <1>1, <1>5, <1>7 DEF IInv, RunningIsHeld
<1> QED
  BY <1>8, <1>9, <1>10, <1>11 DEF Held

\* What p's commit leaves: the job of a dispatcher has left its batch.
LEMMA CommitStep ==
    ASSUME IInv, NEW p \in Procs, NEW r, NEW e, Commit(p, r, e), Ending(p, r, e)
    PROVE  TypeOK' /\ Held'
<1> DEFINE k == run[p].job
<1>1. /\ run[p] # NoRun /\ job' = [job EXCEPT ![k] = r] /\ ev' = e
      /\ batch' = [batch EXCEPT ![p] = IF run[p].late THEN batch[p] ELSE batch[p] \ {k}]
      /\ run' = [run EXCEPT ![p] = NoRun]
      /\ clock' = clock /\ spawned' = spawned /\ sends' = sends /\ orphans' = orphans
  BY DEF Commit
<1>2. /\ k \in JobIds /\ run[p].late \in BOOLEAN
      /\ run[p].late => k \notin ClockJobs
      /\ ~run[p].late => k \in batch[p]
  BY <1>1, Names DEF IInv, Runs, TypeOK, Run
<1>3. r \in Job /\ r.status # "running" /\ e \in Event
  BY DEF Ending
<1> HIDE DEF k
<1>4. \A j \in JobIds : job'[j] = IF j = k THEN r ELSE job[j]
  BY <1>1 DEF IInv, TypeOK
<1>5. \A q \in Procs : batch'[q] = IF q = p /\ ~run[p].late THEN batch[q] \ {k} ELSE batch[q]
  BY <1>1 DEF IInv, TypeOK
<1>6. \A q \in Procs : run'[q] = IF q = p THEN NoRun ELSE run[q]
  BY <1>1 DEF IInv, TypeOK
<1>7. TypeOK'
  <2>1. job' \in [JobIds -> Job]
    BY <1>1, <1>3 DEF IInv, TypeOK
  <2>2. run' \in [Procs -> Run]
    BY <1>1, NoRunTyped DEF IInv, TypeOK
  <2>3. batch' \in [Procs -> SUBSET JobIds]
    BY <1>1 DEF IInv, TypeOK
  <2>4. \A q \in Procs : run'[q] # NoRun /\ ~run'[q].late => run'[q].job \in batch'[q]
    BY <1>5, <1>6 DEF IInv, TypeOK
  <2> QED
    BY <1>1, <1>3, <2>1, <2>2, <2>3, <2>4 DEF IInv, TypeOK, Event
<1>8. Runs'
  BY <1>6, NoRunTyped DEF IInv, Runs
<1>9. ClaimIsExclusive'
  <2> SUFFICES ASSUME NEW q \in Procs, NEW j \in ClockJobs, j \in batch'[q]
               PROVE  /\ job'[j].status = "running"
                      /\ \A o \in Procs : j \in batch'[o] => o = q
    BY DEF ClaimIsExclusive
  <2>1. j \in batch[q] /\ \A o \in Procs : j \in batch'[o] => j \in batch[o]
    BY <1>5
  <2>2. job[j].status = "running" /\ \A o \in Procs : j \in batch[o] => o = q
    BY <2>1 DEF IInv, ClaimIsExclusive
  <2>3. j # k
    BY <1>2, <1>5, <2>1, <2>2
  <2>4. j \in JobIds
    BY DEF ClockJobs
  <2> QED
    BY <1>4, <2>1, <2>2, <2>3, <2>4
<1>10. RunningIsHeld'
  <2> SUFFICES ASSUME NEW j \in JobIds, job'[j].status = "running"
               PROVE  j \in orphans \/ \E q \in Procs : j \in batch'[q]
    BY <1>1 DEF RunningIsHeld
  <2>1. j # k /\ job[j].status = "running"
    BY <1>3, <1>4
  <2>2. j \in orphans \/ \E q \in Procs : j \in batch[q]
    BY <2>1 DEF IInv, RunningIsHeld
  <2> QED
    BY <1>5, <2>1, <2>2
<1> QED
  BY <1>7, <1>8, <1>9, <1>10 DEF Held

\* A run begins or is gone, and no row changes.
LEMMA RunStep ==
    ASSUME IInv, NEW p \in Procs, NEW w \in Run, run' = [run EXCEPT ![p] = w],
           \/ w = NoRun
           \/ w.job \in JobIds /\ (w.late => w.job \in SendJobs) /\ (~w.late => w.job \in batch[p]),
           UNCHANGED <<ev, clock, job, batch, sends, orphans>>, spawned' \in BOOLEAN
    PROVE  TypeOK' /\ Held'
<1>1. \A q \in Procs : run'[q] = IF q = p THEN w ELSE run[q]
  BY DEF IInv, TypeOK
<1>2. run' \in [Procs -> Run]
  BY DEF IInv, TypeOK
<1>3. \A q \in Procs : run'[q] # NoRun /\ ~run'[q].late => run'[q].job \in batch[q]
  BY <1>1 DEF IInv, TypeOK
<1>4. TypeOK'
  BY <1>2, <1>3 DEF IInv, TypeOK
<1>5. Runs'
  BY <1>1, NoRunTyped DEF IInv, Runs
<1>6. ClaimIsExclusive' /\ RunningIsHeld'
  BY DEF IInv, ClaimIsExclusive, RunningIsHeld
<1> QED
  BY <1>4, <1>5, <1>6 DEF Held

\* A dispatcher is gone, and its batch with it; what p runs stays if it is a
\* late send.
LEMMA OrphanStep ==
    ASSUME IInv, NEW p \in Procs, orphans' = orphans \cup batch[p],
           batch' = [batch EXCEPT ![p] = {}],
           run' = [run EXCEPT ![p] = NoRun] \/ (run' = run /\ run[p].late),
           UNCHANGED <<ev, clock, job, sends>>, spawned' \in BOOLEAN
    PROVE  TypeOK' /\ Held'
<1>1. \A q \in Procs : /\ batch'[q] = IF q = p THEN {} ELSE batch[q]
                       /\ run'[q] = run[q] \/ (q = p /\ run'[q] = NoRun)
                       /\ q = p => run'[q] = NoRun \/ run'[q].late
  BY DEF IInv, TypeOK
<1>2. batch' \in [Procs -> SUBSET JobIds] /\ run' \in [Procs -> Run] /\ orphans' \in SUBSET JobIds
  BY NoRunTyped DEF IInv, TypeOK
<1>3. \A q \in Procs : run'[q] # NoRun /\ ~run'[q].late => run'[q].job \in batch'[q]
  BY <1>1 DEF IInv, TypeOK
<1>4. TypeOK'
  BY <1>2, <1>3 DEF IInv, TypeOK
<1>5. Runs'
  BY <1>1, NoRunTyped DEF IInv, Runs
<1>6. ClaimIsExclusive'
  BY <1>1 DEF IInv, ClaimIsExclusive
<1>7. RunningIsHeld'
  BY <1>1 DEF IInv, RunningIsHeld
<1> QED
  BY <1>4, <1>5, <1>6, <1>7 DEF Held

\* A finished or cancelled custom stays in the past list.
LEMMA PastStep == IInv /\ [Next]_vars => FinishedIsPast'
<1> SUFFICES ASSUME IInv, [Next]_vars PROVE FinishedIsPast'
  OBVIOUS
<1>1. ev \in Event /\ FinishedIsPast
  BY DEF IInv, TypeOK, Event
<1>2. CASE ev' = ev
  BY <1>1, <1>2 DEF FinishedIsPast
<1>3. ASSUME NEW p \in Procs, End(p) PROVE FinishedIsPast'
  <2>1. ev' = ev \/ \E r, e : ev' = e /\ Ending(p, r, e)
    BY <1>3, Ends DEF Commit
  <2> QED
    BY <1>2, <2>1 DEF Ending, FinishedIsPast
<1>4. CASE Handler
  BY <1>1, <1>2, <1>4 DEF Handler, Submit, Approve, Reject, Cancel, MarkStarted, Reschedule,
                          EnterCredentials, QueueLate, FinishedIsPast, Event
<1> QED
  BY <1>2, <1>3, <1>4 DEF Next, Advance, RetryDue, LoseSend, Dispatch, Claim, Begin, BeginSend,
                          Starve, Crash, vars

\* Handlers and the clock keep the types.
LEMMA OutsideTypes ==
    ASSUME IInv, Handler \/ Advance \/ \E j \in JobIds : RetryDue(j)
    PROVE  TypeOK'
<1>1. TypeOK /\ RowsKept /\ UNCHANGED workers
  BY HandlerRows DEF IInv
<1>2. ev' \in Event
  <2>1. ev \in Event
    BY <1>1 DEF TypeOK, Event
  <2>2. \A st \in EventStatus, past, given \in BOOLEAN :
           /\ [ev EXCEPT !.status = st] \in Event
           /\ [ev EXCEPT !.status = st, !.past = past] \in Event
           /\ [ev EXCEPT !.given = given] \in Event
    BY <2>1 DEF Event
  <2>3. /\ "pending_approval" \in EventStatus /\ "published" \in EventStatus
        /\ "rejected" \in EventStatus /\ "cancelled" \in EventStatus
        /\ "started" \in EventStatus /\ ev.status \in EventStatus
    BY <2>1 DEF EventStatus, Event
  <2>4. CASE Submit \/ Approve \/ Reject \/ Cancel
    BY <2>2, <2>3, <2>4 DEF Submit, Approve, Reject, Cancel
  <2>5. CASE MarkStarted
    <3>1. ev' = [ev EXCEPT !.past = TRUE,
                           !.status = IF ev.status = "published" THEN "started" ELSE ev.status]
      BY <2>5 DEF MarkStarted
    <3> QED
      BY <2>1, <2>3, <3>1 DEF Event
  <2>6. CASE Reschedule \/ QueueLate \/ Advance \/ \E j \in JobIds : RetryDue(j)
    <3>1. ev' = ev
      BY <2>6 DEF Reschedule, QueueLate, Advance, RetryDue
    <3> QED
      BY <2>1, <3>1
  <2>7. CASE EnterCredentials
    BY <2>1, <2>7 DEF EnterCredentials, Event
  <2> QED
    BY <2>4, <2>5, <2>6, <2>7 DEF Handler
<1>3. clock' \in 0..3
  BY <1>1 DEF Handler, Submit, Approve, Reject, Cancel, MarkStarted, Reschedule,
     EnterCredentials,
              QueueLate, Advance, RetryDue, TypeOK
<1>4. spawned' \in BOOLEAN /\ sends' \in 0..MaxSends
  <2>1. ASSUME Spawn PROVE spawned' \in BOOLEAN /\ sends' \in 0..MaxSends
    BY <1>1, <2>1, SendsAssumption DEF Spawn, TypeOK
  <2>2. CASE spawned' = spawned /\ sends' = sends
    BY <1>1, <2>2 DEF TypeOK
  <2> QED
    BY <2>1, <2>2 DEF Handler, Submit, Approve, Reject, Cancel, MarkStarted, Reschedule,
                      EnterCredentials, QueueLate, Advance, RetryDue
<1> QED
  BY <1>1, <1>2, <1>3, <1>4 DEF TypeOK, RowsKept, workers, Event

\* Every step keeps the types and what is promised of jobs and holders.
LEMMA HeldStep == IInv /\ [Next]_vars => TypeOK' /\ Held'
<1> SUFFICES ASSUME IInv, [Next]_vars PROVE TypeOK' /\ Held'
  OBVIOUS
<1>t. spawned \in BOOLEAN /\ spawned' \in {spawned, FALSE} => spawned' \in BOOLEAN
  OBVIOUS
<1>s. spawned \in BOOLEAN
  BY DEF IInv, TypeOK
<1>1. CASE Handler \/ Advance \/ \E j \in JobIds : RetryDue(j)
  <2>1. RowsKept /\ UNCHANGED workers
    BY <1>1, HandlerRows DEF IInv
  <2> QED
    BY <1>1, <2>1, OutsideTypes, RowsStep
<1>2. CASE LoseSend
  <2>1. /\ TypeOK /\ spawned' = FALSE
        /\ UNCHANGED <<ev, clock, job, batch, run, sends, orphans>>
    BY <1>2 DEF LoseSend, IInv
  <2>2. TypeOK'
    BY <2>1 DEF TypeOK
  <2>3. Held'
    BY <2>1 DEF Held, IInv, Runs, ClaimIsExclusive, RunningIsHeld
  <2> QED
    BY <2>2, <2>3
<1>3. CASE UNCHANGED vars
  BY <1>3 DEF vars, Held, IInv, TypeOK, Runs, ClaimIsExclusive, RunningIsHeld
<1>4. ASSUME NEW p \in Procs, Claim(p) PROVE TypeOK' /\ Held'
  BY <1>4, ClaimStep
<1>c. ASSUME NEW j \in JobIds, NEW late \in BOOLEAN, NEW locks \in BOOLEAN
      PROVE  /\ Copy(j, late, locks) \in Run
             /\ Copy(j, late, locks).job = j /\ Copy(j, late, locks).late = late
  <2>1. ev \in Event
    BY DEF IInv, TypeOK, Event
  <2> QED
    BY <2>1 DEF Copy, Run, Event
<1>5. ASSUME NEW p \in Procs, NEW j \in JobIds, Begin(p, j) PROVE TypeOK' /\ Held'
  <2> DEFINE w == Copy(j, FALSE, FALSE)
  <2>1. w \in Run /\ w.job = j /\ w.late = FALSE
    BY <1>c
  <2>2. /\ run' = [run EXCEPT ![p] = w] /\ j \in batch[p]
        /\ UNCHANGED <<ev, clock, job, batch, spawned, sends, orphans>>
    BY <1>5 DEF Begin
  <2> HIDE DEF w
  <2> QED
    BY <1>s, <2>1, <2>2, RunStep
<1>6. ASSUME NEW p \in Procs, BeginSend(p) PROVE TypeOK' /\ Held'
  <2> DEFINE j == IF job["creds"].status # "none" THEN "creds" ELSE "manual"
             w == Copy(j, TRUE, job[j].status # "running")
  <2>1. j \in SendJobs /\ j \in JobIds
    BY <1>6, Names DEF BeginSend
  <2>2. /\ run' = [run EXCEPT ![p] = w] /\ spawned' = FALSE
        /\ UNCHANGED <<ev, clock, job, batch, sends, orphans>>
    BY <1>6 DEF BeginSend
  <2> HIDE DEF j
  <2>3. w \in Run /\ w.job = j /\ w.late = TRUE
    BY <1>c, <2>1
  <2> HIDE DEF w
  <2> QED
    BY <2>1, <2>2, <2>3, RunStep
<1>7. ASSUME NEW p \in Procs, End(p) PROVE TypeOK' /\ Held'
  <2>1. CASE \E r, e : Commit(p, r, e) /\ Ending(p, r, e)
    BY <2>1, CommitStep
  <2>2. CASE /\ run[p].late /\ run' = [run EXCEPT ![p] = NoRun]
             /\ UNCHANGED <<ev, clock, job, batch, spawned, sends, orphans>>
    BY <1>s, <2>2, NoRunTyped, RunStep
  <2> QED
    BY <1>7, <2>1, <2>2, Ends
<1>8. ASSUME NEW p \in Procs, Starve(p) \/ Crash(p) PROVE TypeOK' /\ Held'
  <2>1. /\ orphans' = orphans \cup batch[p] /\ batch' = [batch EXCEPT ![p] = {}]
        /\ run' = [run EXCEPT ![p] = NoRun] \/ (run' = run /\ run[p].late)
        /\ UNCHANGED <<ev, clock, job, sends>> /\ spawned' \in {spawned, FALSE}
    BY <1>8 DEF Starve, Crash
  <2> QED
    BY <1>s, <1>t, <2>1, OrphanStep
<1> QED
  BY <1>1, <1>2, <1>3, <1>4, <1>5, <1>6, <1>7, <1>8 DEF Next, Dispatch

\* Every step keeps the invariant.
LEMMA Inductive == IInv /\ [Next]_vars => IInv'
BY HeldStep, PastStep DEF IInv, Held

\* It holds before anything has happened.
LEMMA Initially == Init => IInv
<1> SUFFICES ASSUME Init PROVE IInv
  OBVIOUS
<1>1. TypeOK
  <2>1. job \in [JobIds -> Job] /\ run \in [Procs -> Run]
    BY NoJobTyped, NoRunTyped DEF Init
  <2>2. \A p \in Procs : run[p] = NoRun
    BY DEF Init
  <2>3. ev \in [status : EventStatus, past : BOOLEAN, given : BOOLEAN]
    BY DEF Init, EventStatus
  <2>4. batch \in [Procs -> SUBSET JobIds] /\ sends \in 0..MaxSends
    BY SendsAssumption DEF Init
  <2>5. clock \in 0..3 /\ orphans \in SUBSET JobIds
    BY DEF Init
  <2>6. spawned \in BOOLEAN
    BY DEF Init
  <2> QED
    BY <2>1, <2>2, <2>3, <2>4, <2>5, <2>6 DEF TypeOK
<1>2. Runs
  BY NoRunTyped DEF Init, Runs
<1>3. ClaimIsExclusive /\ RunningIsHeld /\ FinishedIsPast
  BY NoJobTyped DEF Init, ClaimIsExclusive, RunningIsHeld, FinishedIsPast
<1> QED
  BY <1>1, <1>2, <1>3 DEF IInv

-----------------------------------------------------------------------------
(* The theorems                                                            *)

\* The invariant holds in every reachable state.
THEOREM Invariant == Spec => []IInv
BY Initially, Inductive, PTL DEF Spec

\* The rows and the dispatchers keep their types, and what a dispatcher runs is
\* a job it has claimed (claim_due_jobs_sync, _dispatch).
THEOREM TypeCorrect == Spec => []TypeOK
<1>1. IInv => TypeOK
  BY DEF IInv
<1> QED
  BY <1>1, Invariant, PTL

\* A finished or cancelled custom is in the past list, whoever wrote last and
\* from whatever copy of the event (cancel_event, _event_finish).
THEOREM PastWhenFinished == Spec => []FinishedIsPast
<1>1. IInv => FinishedIsPast
  BY DEF IInv
<1> QED
  BY <1>1, Invariant, PTL

\* The dispatcher loses no job: one marked running is in somebody's batch, or
\* was when that dispatcher went away (claim_due_jobs_sync, _retry_or_fail).
THEOREM JobsHeld == Spec => []RunningIsHeld
<1>1. IInv => RunningIsHeld
  BY DEF IInv
<1> QED
  BY <1>1, Invariant, PTL

\* Two dispatchers never hold the same start or finish job, and the holder finds
\* its row as claimed (claim_due_jobs_sync skips locked rows, cancel_event_jobs
\* leaves running ones).
THEOREM ClaimsExclusive == Spec => []ClaimIsExclusive
<1>1. IInv => ClaimIsExclusive
  BY DEF IInv
<1> QED
  BY <1>1, Invariant, PTL

\* A start or finish job that is done or was cancelled never runs again
\* (schedule_event_jobs, claim_due_jobs_sync).
THEOREM SettledForGood == Spec => SettledStays
<1>1. IInv /\ [Next]_vars =>
        \A j \in ClockJobs :
            job[j].status \in {"done", "cancelled"} => job'[j].status = job[j].status
  <2> SUFFICES ASSUME IInv, [Next]_vars, NEW j \in ClockJobs,
                      job[j].status \in {"done", "cancelled"}
               PROVE  job'[j].status = job[j].status
    OBVIOUS
  <2>0. j \in JobIds /\ job \in [JobIds -> Job]
    BY DEF ClockJobs, IInv, TypeOK
  <2>1. CASE Handler \/ Advance \/ \E i \in JobIds : RetryDue(i)
    BY <2>0, <2>1, HandlerRows DEF IInv, RowsKept
  <2>2. ASSUME NEW p \in Procs, Claim(p) PROVE job'[j].status = job[j].status
    <3>1. ~Due(j)
      BY DEF Due
    <3> QED
      BY <2>0, <2>2, <3>1 DEF Claim
  <2>3. ASSUME NEW p \in Procs, NEW r, NEW e, Commit(p, r, e)
        PROVE  job'[j].status = job[j].status
    <3>1. run[p] # NoRun /\ job' = [job EXCEPT ![run[p].job] = r]
      BY <2>3 DEF Commit
    <3>2. run[p].job # j
      <4>1. CASE run[p].late
        BY <4>1, Names DEF IInv, Runs
      <4>2. CASE ~run[p].late
        <5>1. run[p].job \in batch[p]
          BY <3>1, <4>2 DEF IInv, TypeOK
        <5> QED
          BY <5>1 DEF IInv, ClaimIsExclusive
      <4> QED
        BY <4>1, <4>2
    <3> QED
      BY <2>0, <3>1, <3>2
  <2>4. ASSUME NEW p \in Procs, End(p) PROVE job'[j].status = job[j].status
    BY <2>3, <2>4, Ends
  <2>5. CASE UNCHANGED job
    BY <2>5
  <2>6. ASSUME LoseSend \/ UNCHANGED vars
        PROVE  UNCHANGED job
    BY <2>6 DEF LoseSend, vars
  <2>7. ASSUME NEW p \in Procs,
               (\E i \in JobIds : Begin(p, i)) \/ BeginSend(p) \/ Starve(p) \/ Crash(p)
        PROVE  UNCHANGED job
    BY <2>7 DEF Begin, BeginSend, Starve, Crash
  <2> QED
    BY <2>1, <2>2, <2>4, <2>5, <2>6, <2>7 DEF Next, Dispatch
<1> QED
  BY <1>1, Invariant, PTL DEF Spec, SettledStays

\* Nothing but a job that read the event before the cancellation brings a
\* cancelled custom back to life (_event_start, _event_finish, _send_credentials).
THEOREM RevivedFromOldCopy == Spec => OnlyOutdatedRevives
<1>1. IInv /\ [Next]_vars =>
        (ev.status = "cancelled" /\ ev'.status \in {"started", "finished"} =>
            \E p \in Procs : /\ run[p] # NoRun /\ run'[p] = NoRun
                             /\ run[p].seen # "cancelled")
  <2> SUFFICES ASSUME IInv, [Next]_vars, ev.status = "cancelled",
                      ev'.status \in {"started", "finished"}
               PROVE  \E p \in Procs : /\ run[p] # NoRun /\ run'[p] = NoRun
                                       /\ run[p].seen # "cancelled"
    OBVIOUS
  <2>1. ev' # ev
    OBVIOUS
  <2>2. ASSUME Handler PROVE FALSE
    <3>1. ev \in Event
      BY DEF IInv, TypeOK, Event
    <3> QED
      BY <2>1, <2>2, <3>1 DEF Handler, Submit, Approve, Reject, Cancel, MarkStarted, Reschedule,
                              EnterCredentials, QueueLate, Event
  <2>3. ASSUME NEW p \in Procs, End(p)
        PROVE  run[p] # NoRun /\ run'[p] = NoRun /\ run[p].seen # "cancelled"
    <3>1. PICK r, e : Commit(p, r, e) /\ Ending(p, r, e)
      BY <2>1, <2>3, Ends
    <3> QED
      BY <3>1 DEF Commit, Ending, IInv, TypeOK
  <2> QED
    BY <2>1, <2>2, <2>3 DEF Next, Advance, RetryDue, LoseSend, Dispatch, Claim, Begin,
       BeginSend,
                            Starve, Crash, vars
<1> QED
  BY <1>1, Invariant, PTL DEF Spec, OnlyOutdatedRevives
=============================================================================
