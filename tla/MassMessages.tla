---------------------------- MODULE MassMessages ----------------------------
(***************************************************************************)
(* The messages that go to everybody (workers/tasks.py): an admin's        *)
(* campaign, the reminder of a custom, the announcement of a new one and   *)
(* the daily digest.  Each run loads its list of users once, sends one     *)
(* message after the other and commits every so many.  A campaign is       *)
(* guarded by its status; the others by a key in Redis, taken before the   *)
(* first message.  Only the reminder is a job, tried again when it fails.  *)
(***************************************************************************)
EXTENDS Naturals, FiniteSets

CONSTANTS Users,      \* the users of the bot
          Host,       \* the one among them who organizes the custom
          Admins,     \* handlers of admins, of different processes
          Runs,       \* threads that can run a task at once
          Batch,      \* messages per commit (50)
          MaxTries,   \* max_attempts of the reminder job
          MaxDue      \* bound: runs asked for and not started

MassConstants == Batch \in Nat \ {0} /\ MaxTries \in Nat \ {0} /\ MaxDue \in Nat \ {0}

VARIABLES
    kind,      \* what is sent
    status,    \* broadcast_campaigns.status, as committed
    event,     \* the custom: published (and public), hidden, or over
    user,      \* user[u]: reachable, with notifications off, or has blocked the bot
    regs,      \* the players with a confirmed registration
    key,       \* the Redis key is set
    due,       \* runs asked for: threads spawned, or the job, pending
    job,       \* status of the reminder job
    tries,     \* its attempts
    admin,     \* admin[a]: how that handler is about to confirm the campaign
    run,       \* run[r]: a run under way
    got,       \* got[u]: messages to everybody that reached u
    rows,      \* the users with a committed broadcast_deliveries row
    listed,    \* history: the list of the last campaign run
    tried,     \* history: users a message was tried for
    via,       \* history: where the campaign was confirmed
    changed,   \* history: users whose state or registration changed
    mishaps    \* history: what went wrong so far

vars == <<kind, status, event, user, regs, key, due, job, tries, admin, run, got, rows,
          listed, tried, via, changed, mishaps>>

campaign == <<status, admin, via, rows, listed>>
world    == <<kind, event, user, regs, changed>>
sending  == <<run, got, tried>>

Kinds == {"campaign", "reminder", "announcement", "digest"}

NoRun == [pc |-> "none"]

\* A run: what it is at, whom it still has to write to and whom it wrote to as a
\* registered player, the messages since the last commit, and what it has not
\* committed: rows, users found to have blocked the bot, the campaign's status.
Run == [pc : {"registered", "all"}, todo : SUBSET Users, already : SUBSET Users,
        since : 0..(Batch - 1), rows : SUBSET Users, gone : SUBSET Users,
        status : {"same", "running"}]

Begun(pc, users, already) ==
    [pc |-> pc, todo |-> users, already |-> already, since |-> 0, rows |-> {}, gone |-> {},
     status |-> "same"]

-----------------------------------------------------------------------------
(* Whom a message is for                                                   *)

\* A campaign goes to everyone who has not blocked the bot; the others spare
\* those who turned notifications off.  The organizer is spared the announcement,
\* and players who have just been reminded are not told again.
Everyone(already) ==
    IF kind = "campaign" THEN {u \in Users : user[u] # "blocked"}
    ELSE {u \in Users : user[u] = "on"} \ (already \cup IF kind = "announcement" THEN {Host} ELSE {})

-----------------------------------------------------------------------------
(* The campaign's life                                                     *)

\* confirm_broadcast, admin_bc_confirm: a draft is about to be confirmed.  Two
\* admins in two processes may both find a draft.
Confirm(a, how) ==
    /\ kind = "campaign" /\ status = "draft" /\ admin[a] = "none"
    /\ admin' = [admin EXCEPT ![a] = how]
    /\ mishaps' = IF \E b \in Admins : admin[b] # "none" THEN mishaps \cup {"both"} ELSE mishaps
    /\ UNCHANGED <<status, via, rows, listed, world, key, due, job, tries, sending>>

Spawned == due < MaxDue /\ due' = due + 1

\* A mistake for ConfirmedStarts to catch: the API spawns before it commits.
ConfirmSpawnsFirst(a) ==
    /\ admin[a] = "api"
    /\ Spawned
    /\ admin' = [admin EXCEPT ![a] = "commit"]
    /\ via' = via \cup {"api"}
    /\ UNCHANGED <<status, rows, listed, world, key, job, tries, sending, mishaps>>

\* confirm_broadcast: commit, then spawn - at once, also for a campaign with a
\* time in the future.
ConfirmApi(a) ==
    /\ admin[a] = "api"
    /\ \E s \in {"running", "scheduled"} : status' = s
    /\ Spawned
    /\ admin' = [admin EXCEPT ![a] = "none"]
    /\ via' = via \cup {"api"}
    /\ UNCHANGED <<rows, listed, world, key, job, tries, sending, mishaps>>

\* admin_bc_confirm: flush and spawn ...
ConfirmBot(a) ==
    /\ admin[a] = "bot"
    /\ Spawned
    /\ admin' = [admin EXCEPT ![a] = "commit"]
    /\ via' = via \cup {"bot"}
    /\ UNCHANGED <<status, rows, listed, world, key, job, tries, sending, mishaps>>

\* ... and the middleware commits when the handler has answered.
ConfirmCommit(a) ==
    /\ admin[a] = "commit"
    /\ status' = "running"
    /\ admin' = [admin EXCEPT ![a] = "none"]
    /\ UNCHANGED <<via, rows, listed, world, key, due, job, tries, sending, mishaps>>

\* pause_broadcast, whatever the status.
Pause ==
    /\ kind = "campaign" /\ status # "paused"
    /\ status' = "paused"
    /\ UNCHANGED <<admin, via, rows, listed, world, key, due, job, tries, sending, mishaps>>

-----------------------------------------------------------------------------
(* A run                                                                   *)

\* _broadcast: only a confirmed campaign; the status it sets is committed with
\* the first batch.
StartCampaign(r) ==
    /\ kind = "campaign" /\ run[r] = NoRun /\ due > 0
    /\ due' = due - 1
    /\ IF status \in {"running", "scheduled"}
       THEN /\ run' = [run EXCEPT ![r] =
                          [Begun("all", Everyone({}), {}) EXCEPT
                              !.status = IF status = "scheduled" THEN "running" ELSE "same"]]
            /\ listed' = Everyone({})
       ELSE UNCHANGED <<run, listed>>
    /\ UNCHANGED <<status, admin, via, rows, world, key, job, tries, got, tried, mishaps>>

\* _send_reminders, _broadcast_new_event, _send_daily_custom_digest: a reminder
\* writes to the registered players first, and is done at once for a custom that
\* is over.
StartKeyed(r) ==
    /\ kind # "campaign" /\ run[r] = NoRun /\ due > 0
    /\ due' = due - 1
    /\ IF kind # "reminder" THEN run' = [run EXCEPT ![r] = Begun("registered", {}, {})]
                                 /\ UNCHANGED <<job, tries>>
       ELSE /\ tries' = tries + 1
            /\ IF event = "over" THEN job' = "done" /\ UNCHANGED run
               ELSE job' = "running"
                    /\ run' = [run EXCEPT ![r] = Begun("registered", regs, regs)]
    /\ UNCHANGED <<campaign, world, key, got, tried, mishaps>>

\* The pool lends its only connection to somebody else for ten seconds: the task
\* dies of it.  A job that was not claimed stays pending.
Starve ==
    /\ kind # "reminder" /\ due > 0
    /\ due' = due - 1
    /\ mishaps' = mishaps \cup {"starved"}
    /\ UNCHANGED <<campaign, world, key, job, tries, sending>>

\* A registered player is reminded, or the message fails; nobody looks why.
Remind(r, u) ==
    /\ run[r].pc = "registered" /\ u \in run[r].todo
    /\ run' = [run EXCEPT ![r].todo = @ \ {u}]
    /\ tried' = tried \cup {u}
    /\ UNCHANGED <<campaign, world, key, due, job, tries, got, mishaps>>

Close(r) ==
    /\ run' = [run EXCEPT ![r] = NoRun]
    /\ job' = IF kind = "reminder" THEN "done" ELSE job

\* A mistake for OnlyOnce to catch: the key is set whether it was or not.
KeyAnyway(r) == key' = TRUE /\ UNCHANGED mishaps

\* The run gets the key, or Redis is out of reach and it goes on without.
MayGoOn(r) ==
    \/ ~key /\ key' = TRUE /\ UNCHANGED mishaps
    \/ mishaps' = mishaps \cup {"no key"} /\ UNCHANGED key

\* A mistake for ReminderReaches to catch: without Redis the rest is skipped.
TakeKeyOrSkip(r) ==
    /\ run[r].pc = "registered" /\ run[r].todo = {}
    /\ kind = "digest" \/ event = "published"
    /\ \/ /\ ~key /\ key' = TRUE /\ UNCHANGED <<mishaps, job>>
          /\ run' = [run EXCEPT ![r] = Begun("all", Everyone(run[r].already), {})]
       \/ mishaps' = mishaps \cup {"no key"} /\ Close(r) /\ UNCHANGED key
    /\ UNCHANGED <<campaign, world, due, tries, got, tried>>

\* The key comes before the list - for the digest even before it is known
\* whether there is anything to tell.
TakeKey(r) ==
    /\ run[r].pc = "registered" /\ run[r].todo = {}
    /\ kind = "digest" \/ event = "published"
    /\ MayGoOn(r)
    /\ \/ /\ run' = [run EXCEPT ![r] = Begun("all", Everyone(run[r].already), {})]
          /\ UNCHANGED job
       \/ kind = "digest" /\ Close(r)
    /\ UNCHANGED <<campaign, world, due, tries, got, tried>>

\* The custom is not to be advertised, or somebody has done it.
NothingToSay(r) ==
    /\ run[r].pc = "registered" /\ run[r].todo = {}
    /\ IF kind = "digest" THEN key ELSE event # "published" \/ key
    /\ Close(r)
    /\ UNCHANGED <<campaign, world, key, due, tries, got, tried, mishaps>>

\* What a commit makes of the run's work.
Committed(r, x) ==
    /\ user' = [u \in Users |-> IF u \in x.gone THEN "blocked" ELSE user[u]]
    /\ rows' = rows \cup x.rows
    /\ run' = [run EXCEPT ![r] = [x EXCEPT !.rows = {}, !.gone = {}, !.status = "same",
                                           !.since = 0]]

\* One message, which arrives, fails, or finds that the user has blocked the bot.
\* Every Batch messages are committed.
Send(r, u) ==
    /\ run[r].pc = "all" /\ u \in run[r].todo
    /\ \E reaches \in BOOLEAN, gone \in {{}, {u}} :
          LET x == [run[r] EXCEPT !.todo = @ \ {u}, !.gone = @ \cup gone,
                                  !.rows = IF kind = "campaign" THEN @ \cup {u} ELSE @]
          IN /\ reaches => gone = {} /\ user[u] # "blocked"
             /\ got' = IF reaches THEN [got EXCEPT ![u] = @ + 1] ELSE got
             /\ IF x.since + 1 = Batch
                THEN /\ Committed(r, x)
                     /\ status' = IF x.status = "running" THEN "running" ELSE status
                ELSE /\ run' = [run EXCEPT ![r] = [x EXCEPT !.since = @ + 1]]
                     /\ UNCHANGED <<user, rows, status>>
    /\ tried' = tried \cup {u}
    /\ UNCHANGED <<kind, event, regs, changed, admin, via, listed, key, due, job, tries, mishaps>>

\* A mistake for DoneReachesAll to catch: the run sees a pause, leaves the loop
\* and comes to the same end.
EndOrPaused(r) ==
    /\ run[r].pc = "all"
    /\ run[r].todo = {} \/ status = "paused"
    /\ user' = [u \in Users |-> IF u \in run[r].gone THEN "blocked" ELSE user[u]]
    /\ rows' = rows \cup run[r].rows
    /\ Close(r)
    /\ status' = IF kind = "campaign" THEN "done" ELSE status
    /\ UNCHANGED <<kind, event, regs, changed, admin, via, listed, key, due, tries, got, tried,
                   mishaps>>

\* The last commit.  A campaign is done, also when it was paused meanwhile: the
\* session looks at the status it loaded itself.
End(r) ==
    /\ run[r].pc = "all" /\ run[r].todo = {}
    /\ user' = [u \in Users |-> IF u \in run[r].gone THEN "blocked" ELSE user[u]]
    /\ rows' = rows \cup run[r].rows
    /\ Close(r)
    /\ status' = IF kind = "campaign" THEN "done" ELSE status
    /\ UNCHANGED <<kind, event, regs, changed, admin, via, listed, key, due, tries, got, tried,
                   mishaps>>

\* The database fails the run: its work since the last commit is rolled back.  A
\* reminder is tried again, as often as a job may be.
Fail(r) ==
    /\ run[r] # NoRun
    /\ run' = [run EXCEPT ![r] = NoRun]
    /\ IF kind # "reminder" THEN UNCHANGED <<due, job>>
       ELSE IF tries < MaxTries THEN due' = due + 1 /\ job' = "pending"
            ELSE UNCHANGED due /\ job' = "failed"
    /\ mishaps' = mishaps \cup {"failed"}
    /\ UNCHANGED <<campaign, world, key, tries, got, tried>>

\* The process dies: what was asked for in memory is forgotten, and the claimed
\* job stays claimed.
Crash ==
    /\ (\E r \in Runs : run[r] # NoRun) \/ (\E a \in Admins : admin[a] # "none")
       \/ (due > 0 /\ kind # "reminder")
    /\ run' = [r \in Runs |-> NoRun]
    /\ admin' = [a \in Admins |-> "none"]
    /\ due' = IF kind = "reminder" THEN due ELSE 0
    /\ mishaps' = mishaps \cup {"crash"}
    /\ UNCHANGED <<status, via, rows, listed, world, key, job, tries, got, tried>>

-----------------------------------------------------------------------------
(* Around the runs                                                         *)

\* A custom is announced by whoever publishes it, and the digest by the timer of
\* every process.
AskAgain ==
    /\ kind \in {"announcement", "digest"}
    /\ Spawned
    /\ UNCHANGED <<campaign, world, key, job, tries, sending, mishaps>>

\* The custom gets another time: its pending jobs are cancelled and the offsets
\* scheduled anew, under the same keys.
Reschedule ==
    /\ kind = "reminder" /\ job # "running" /\ event # "over"
    /\ "rescheduled" \notin mishaps
    /\ due' = 1 /\ job' = "pending" /\ tries' = 0
    /\ mishaps' = mishaps \cup {"rescheduled"}
    /\ UNCHANGED <<campaign, world, key, sending>>

\* The key expires, or Redis evicts it.
LoseKey ==
    /\ key
    /\ key' = FALSE
    /\ mishaps' = mishaps \cup {"no key"}
    /\ UNCHANGED <<campaign, world, due, job, tries, sending>>

\* The custom is hidden or published again by an admin, cancelled or over.
ChangeEvent(e) ==
    /\ kind \in {"reminder", "announcement"}
    /\ event \notin {"over", e}
    /\ event' = e
    /\ mishaps' = mishaps \cup {"hidden"}
    /\ UNCHANGED <<campaign, kind, user, regs, changed, key, due, job, tries, sending>>

\* A player turns notifications off or on, or returns to the bot.
ChangeUser(u) ==
    /\ user' = [user EXCEPT ![u] = IF user[u] = "on" THEN "muted" ELSE "on"]
    /\ changed' = changed \cup {u}
    /\ UNCHANGED <<campaign, kind, event, regs, key, due, job, tries, sending, mishaps>>

\* A player gets a seat, or loses it.
ChangeSeat(u) ==
    /\ kind = "reminder"
    /\ regs' = IF u \in regs THEN regs \ {u} ELSE regs \cup {u}
    /\ changed' = changed \cup {u}
    /\ UNCHANGED <<campaign, kind, event, user, key, due, job, tries, sending, mishaps>>

-----------------------------------------------------------------------------
Init ==
    /\ kind \in Kinds
    /\ status = "draft"
    /\ event = "published"
    /\ user = [u \in Users |-> "on"]
    /\ regs \in IF kind = "reminder" THEN SUBSET Users ELSE {{}}
    /\ key = FALSE
    /\ due = IF kind = "campaign" THEN 0 ELSE 1
    /\ job = "pending"
    /\ tries = 0
    /\ admin = [a \in Admins |-> "none"]
    /\ run = [r \in Runs |-> NoRun]
    /\ got = [u \in Users |-> 0]
    /\ rows = {} /\ listed = {} /\ tried = {} /\ via = {} /\ changed = {} /\ mishaps = {}

Admin(a) ==
    \/ \E how \in {"api", "bot"} : Confirm(a, how)
    \/ ConfirmApi(a) \/ ConfirmBot(a) \/ ConfirmCommit(a)

Running(r) ==
    \/ StartCampaign(r) \/ StartKeyed(r) \/ TakeKey(r) \/ NothingToSay(r)
    \/ End(r) \/ Fail(r)
    \/ \E u \in Users : Remind(r, u) \/ Send(r, u)

Around ==
    \/ Pause \/ Starve \/ Crash \/ AskAgain \/ Reschedule \/ LoseKey
    \/ \E e \in {"published", "hidden", "over"} : ChangeEvent(e)
    \/ \E u \in Users : ChangeUser(u) \/ ChangeSeat(u)

Next == (\E a \in Admins : Admin(a)) \/ (\E r \in Runs : Running(r)) \/ Around

Spec == Init /\ [][Next]_vars

-----------------------------------------------------------------------------
(* Properties                                                              *)

TypeOK ==
    /\ kind \in Kinds
    /\ status \in {"draft", "scheduled", "running", "paused", "done"}
    /\ event \in {"published", "hidden", "over"}
    /\ user \in [Users -> {"on", "muted", "blocked"}]
    /\ regs \subseteq Users
    /\ key \in BOOLEAN
    /\ due \in 0..MaxDue
    /\ job \in {"pending", "running", "done", "failed"}
    /\ tries \in 0..MaxTries
    /\ admin \in [Admins -> {"none", "api", "bot", "commit"}]
    /\ run \in [Runs -> Run \cup {NoRun}]
    /\ got \in [Users -> Nat]
    /\ rows \subseteq Users /\ listed \subseteq Users /\ tried \subseteq Users
    /\ via \subseteq {"api", "bot"}
    /\ changed \subseteq Users
    /\ mishaps \subseteq {"both", "starved", "no key", "failed", "crash", "rescheduled", "hidden"}

Without(bad) == mishaps \cap bad = {}

\* Whatever fails, is tried again or asked for twice: nobody gets the message to
\* everybody twice, as long as the key is not lost and two admins do not confirm
\* the campaign at the same moment.
OnlyOnce == Without({"no key", "both"}) => \A u \in Users : got[u] <= 1

\* A campaign that says it is done has a row for everybody on its list, paused or
\* not: a run that goes to the end has lost nothing to a crash.
DoneReachesAll ==
    kind = "campaign" /\ status = "done" /\ Without({"both"}) => listed \subseteq rows

\* A campaign confirmed over the API does not hang: while it is said to be sent,
\* a run is under way or about to begin, unless one died.
ConfirmedStarts ==
    kind = "campaign" /\ via = {"api"} /\ status \in {"running", "scheduled"}
       /\ Without({"starved", "failed", "crash", "both"})
    => due > 0 \/ \E r \in Runs : run[r] # NoRun

\* A reminder that was done at the first attempt has been tried for everybody
\* who had notifications on or a seat all along; Redis need not have been there.
ReminderReaches ==
    kind = "reminder" /\ job = "done" /\ Without({"failed", "crash", "rescheduled", "hidden"})
    => Users \ changed \subseteq tried

-----------------------------------------------------------------------------
(* Bounds for model checking: one mishap; what follows a message sent      *)
(* twice is not explored                                                   *)

Few ==
    /\ Cardinality(mishaps) + Cardinality(changed) <= 1
    /\ \A u \in Users : got[u] <= 1
=============================================================================
