# Free-Fire-Room: specifications of the custom-room bot

TLA+ modules, TLC configurations and TLAPS proofs about the backend of
Free-Fire-Room: a Telegram bot and an HTTP API with which organizers announce
"customs" (matches in a private room), players register for them, and the room's
ID and password reach exactly the players who qualified, at the right moment.

The paths below are relative to `src/backend/app/`.

## 1. The system

One PostgreSQL database, one Redis, and one or two Python processes. The API
process embeds the bot; a second process may run the bot alone. There is no
separate worker: every process runs a loop (`bot/runner.py`) that claims due rows
of `scheduled_jobs` and runs them in a thread, and handlers throw one-shot tasks
into a thread pool (`workers/enqueue.py`).

What makes the system hard to get right is how sessions are set up
(`core/session.py`, `bot/middlewares/context.py`):

* every engine (one async for handlers, one sync for jobs, per process) has
  **one connection** and waits 10 s for it;
* a handler's session begins before it knows what it will do, and commits when
  it returns; `expire_on_commit=False`, so objects outlive commits unrefreshed;
* `SELECT ... FOR UPDATE` through the ORM locks the row, and returns the object
  the session has already loaded, **with its old attribute values**;
* an assignment that does not change the loaded value is not written;
* Telegram calls - membership checks, messages - happen inside transactions.

### Components

| Component | State | Operations | Talks to | What must hold | Module |
|---|---|---|---|---|---|
| Registration (`services/registration.py`) | `events.confirmed_count`, `status`; `registrations`; `waitlist_entries` | register, take back a seat, promote | requirements (network), delivery sweep | capacity, exact count, waitlist order, nobody lost | `Registration`, `SeatLedger` |
| Event lifecycle (`services/events.py`) | `events.status`, `archived_at`, times; `room_credentials` | submit, approve, reject, cancel, reschedule, mark started, enter credentials | scheduler | a custom that is over stays over | `EventLifecycle` |
| Scheduler, dispatchers (`services/scheduler.py`, `workers/tasks.py`, `bot/runner.py`) | `scheduled_jobs` | schedule, cancel, claim, run, retry | every job type | exclusive claims, no job lost, due jobs settle | `EventLifecycle`, `MassMessages`, `Retention` |
| Credential delivery (`services/credentials.py`, `workers/tasks.py`) | `deliveries`, Redis lock per version | sweep, send to one player, demote, correct | Telegram, registration | once per version, sent means received | `CredentialDelivery`, `Handout` |
| Follow screenshots (`services/social.py`, bot handlers) | `social_proofs`, pages of a custom | upload, reject, restore, reject or approve all | registration, delivery | a rejected proof holds no seat and gets no password | `FollowGate` |
| Dialogs of the organizer (`bot/handlers/organizer.py`, `announce.py`) | FSM state and data in Redis | register, repeat, announce a custom; enter a room | events, announcements | one custom a dialog, consistent fields, the pair sent is the one last entered | `EventWizard`, `RoomEntry` |
| Broadcasts, reminders, announcements, digest (`workers/tasks.py`) | `broadcast_*`, Redis keys, a job | confirm, pause, send to everybody, checkpoint | Telegram | nobody twice, done means everybody | `MassMessages` |
| Organizer trust, reviews, reports, winner claims (`services/trust.py`, ...) | `organizers.trust_score`, `organizer_trust_events`, `reports`, `reviews`, `winner_claims` | apply, approve, report, judge, claim, resolve, review | both panels, the API, jobs | score and rows agree, a rule counts once | `OrganizerTrust` |
| Admin login, rate limits (`services/auth.py`, `core/rate_limit.py`) | `admin_sessions`, one-time codes and counters in Redis | log in, refresh, log out | API | a session trades a token once, a code serves once, nobody is locked out for good | `AdminSessions` |
| Referrals, onboarding (`services/referrals.py`, `bot/onboarding.py`) | `referral_links`, `referrals`, users | invite, accept, count | requirements | counter and rows agree, nobody counts twice | `Referrals` |
| Retention (`workers/tasks.py`) | deletes customs, blanks rooms | purge by the hour, by the day, by a job | reports, trust, credentials | nothing live is purged, old things do go | `Retention` |
| Requirements, channels (`services/requirements.py`, `channels.py`, `telegram_ops.py`) | `channels`, membership | evaluate, connect, recheck | Telegram | unknown is never treated as left | verdicts only, in the modules that ask |
| Audit, notifications, analytics, texts, keyboards, posters, frontend, migrations | - | rendering, inserts nobody reads | - | - | not modelled |

`PROJECT.json` lists them all with what is modelled of each, and the hazards at
the lines where they bite.

## 2. Modules

| Module | What it is |
|---|---|
| `SeatLedger` | the promise of a custom about its seats, as an abstract specification |
| `Handout` | the promise of a custom about its ROOM ID and password, as an abstract specification |
| `Registration` | `register_user`, `mark_ineligible`, `promote_waitlist` and the sweep's demotions, as transactions that decide from copies |
| `EventLifecycle` | one custom's event row, its job rows, the dispatchers, late sends, time |
| `CredentialDelivery` | the sweep that sends the password: rows, lock, rollbacks, Telegram |
| `FollowGate` | screenshots, their review, and the seats and passwords that hang on them |
| `OrganizerTrust` | what moves the trust score, and the rows that say so |
| `MassMessages` | campaigns, reminders, announcements, the digest |
| `AdminSessions` | passwords, one-time codes, refresh tokens, logout, the rate limit |
| `EventWizard` | the dialogs that register, repeat and announce a custom |
| `RoomEntry` | the dialog that enters a room's ROOM ID and password |
| `Referrals` | links, invitations, onboarding |
| `Retention` | the purges of customs and rooms |
| `MCRegistration`, `MCEventLifecycle`, `MCCredentialDelivery` | instances of one module each |
| `MCComponents` | one instance for the eight modules that share no state, one of them per behaviour |
| `MCLiveness` | the same for what must happen: EventLifecycle or Retention, under fairness |
| `RegistrationProofs`, `EventLifecycleProofs`, `CredentialDeliveryProofs`, `FollowGateProofs` | theorems about the module each is named after |
| `WorkerProofs` | theorems about `MassMessages` and `Retention` |
| `AccountProofs` | theorems about `AdminSessions` and `Referrals` |
| `DialogProofs` | theorems about `EventWizard` and `RoomEntry` |
| `ComponentsProofs` | theorems about `OrganizerTrust`, and about the eight modules in `MCComponents` |

A proof module of two components extends one of them and has the other as an
instance (`Purges`, `Invites`, `Entry`). `MCComponents` instantiates the proof
modules, not the bare components, so that `ComponentsProofs` can cite their
theorems about the very definitions the run checks; TLC evaluates none of what
they add.

Some definitions of a module are *mistakes*: variants of an action with a
plausible bug, each marked as such in its comment. No specification uses them;
they are there to show that a property would notice.

### Registration

A transaction is three steps, because nothing in between is serialised by the
database: `Load` (the handler reads the event row into its session), `Check`
(`register_user` reads the player's registration; the membership checks follow,
over the network), and one finishing step (from the row lock to the commit). The
finishing steps read `tx[h].count` and `tx[h].status`, the copy, where the code
reads the attributes of `locked`, and the tables where the code queries them
afresh (waitlist entries). They write a column only where the ORM would: a status
that equals the loaded one is left as it is in the row.

`conn[p]` is the process's single connection. It is held from `Load` to the end,
so two handlers of one process are serialised - except for the screenshot upload
(`Park`), which commits in between and lets go of it while its copy lives on.
The delivery sweep uses the other engine (`SweepStart`, `SweepEnd`): its
demotions are committed at once at its end, from the copy it took at its start.

`stale` is a history variable: some transaction wrote from an outdated copy. The
count, the capacity and the full mark are promised only before that
(`CountIsExact`, `CapacityRespected`, `FullIsMarked`), because afterwards they
really break - the violation run `registration_capacity` shows how. That it
cannot happen between handlers that share one connection is `PinnedCopyIsFresh`:
the one-connection pool is what protects the capacity, not the row lock. The
shape of the waitlist (`NoWaiterLost`, `PositionsDistinct`) is independent of the
copies, since entries are queried after the lock.

The organizer's bulk rejection voids several seats in one transaction; it is
modelled as one void per transaction, each of which is what the loop body does.

### EventLifecycle

Handlers are one step each: they are short, and one async connection serialises
those of a process. Jobs are not: `Claim` commits on its own, `Begin` reads the
event, an ending action writes the outcome from that copy. `clock` has four
values - before the send time, from the send time, from the start, past the
backstop - the only moments the guards tell apart. `run[p]` is what occupies the
process's sync connection: a dispatched job or a late send (`BeginSend`), never
both; `LoseSend` and `Starve` are the two ways `pool_timeout` ends that contest.
A run that has flushed an UPDATE of its job row holds that row's lock
(`LockedBy`), so claims skip it and handlers wait for it. `"published"` stands
for `"full"` as well, since Registration moves a custom between the two and
nothing here distinguishes them. Reminder, recheck and purge jobs change nothing
in view and are left out; the Redis lock of a delivery is a nondeterministic
outcome here (`LockHeld`) and a variable in CredentialDelivery.

### CredentialDelivery

A sweep takes the lock of the current version, loads the confirmed players, and
handles them one by one: `Look` (is the committed row already sent?), then
`Pass`, `Skip`, `Send` or `SendFails`, then `Record`. The rows it writes are in
`out` until `Commit`; `Abort` (an exception, possibly at the commit) and `Crash`
forget them, while the messages (`received`, history) stay with the players.
`Expire` takes a lock away at any time: 120 s is less than a sweep of many
players lasts. `Release` precedes `Commit`, as the `finally` precedes the
dispatcher's commit, and deletes the lock whoever holds it.

### FollowGate

One custom with up to two pages to follow. `proof[u][p]` is the row of
`social_proofs`, `asks[u]` the page kept in the player's dialog, `midway[u]` the
uploads that have been committed and whose registration is still to come:
`social_screenshot` commits, lets go of the connection and then calls
`register_user`, so other handlers run in between. `Owed`, `Rejected` and `GateOk`
translate `next_task_for`, `rejected_proof` and `gate_from`. The organizer's
`Reject` and `RejectAll` take back the seat (`Void`) and hand it on (`Promote`);
`RejectAll` walks over a list read before, which is why a player who inherits a
seat may have been rejected by the same tap. `Register` is `register_user` with its
own look at the requirements: besides the pages and the standing, the profile, the
invitations, an unanswered membership or a ban that falls between its two looks may
leave the player pending or ineligible, and `Fails` is any other exception, rolled
back. `FinishUpload` goes on to the prompt after all of them, as
`social_screenshot` does, unless the process dies or the rollback breaks what the
prompt reads. The sweep (`SweepStart`,
`SweepCheck`, `SweepSend`, `SweepEnd`) asks the gate, sends, and demotes at its
end. Histories: `slipped`, those promoted with a rejected proof - `promote_waitlist`
does not look at the gate; `caught`, those rejected while the sweep was under way;
`unheard`, those whose last registration failed or found something else missing.

### OrganizerTrust

A session (`tx[s]`) is opened with what the handler reads - whether the rule has
a row for this custom, the organizer's score, the state of the claim or report -
and commits what it worked out from that. `record` and `record_sync` are `Writes`
and `Moves`; the handlers differ in what they list as their deeds
(`ClaimDeeds`, `UpholdDeeds`, `ConfirmDeeds`, `ReviewDeeds`, `JobDeeds`, ...).
Panels of the bot share a connection, the API and the jobs have others:
`Holding` says who has the organizer in hand. Histories: `added`, the rows added
up in the order of their commits; `overlapped`, two sessions had the organizer in
hand at once; `raced`, rules two sessions were about to apply. `ClaimWin` abstracts
from `check_winner_eligibility`: anybody may claim.

### MassMessages

`kind` chooses which of the four messages a behaviour is about. A run loads its
list of users (`StartCampaign`, `StartKeyed`), sends (`Send`), commits every
`Batch` messages, and ends; campaigns are guarded by their status, the others by a
key in Redis, the reminder is a job and is tried again. `ConfirmApi` commits before
it spawns; `ConfirmBot` spawns before the middleware commits (`ConfirmCommit`).
`Starve` is the 10 s wait for the sync connection. `mishaps` names what went wrong
so far, and each property says which mishaps it survives: all but those it names.

### AdminSessions

Requests are made of single steps between which others run: INCR and EXPIRE of the
limiter, reading and comparing a code, reading a session and writing it. A
session's row carries the identifier of the one refresh token it accepts.
While the admin is switched off the code looks up no session and rotates none:
`RefreshOff` trades any token there ever was for one without a session (`HandOut`,
`loose`), and so does a one-time code. `spent` and `opened` count, as histories, the
trades a session granted for each token and the tokens handed out for each code;
`shared` are those that two requests used before either had written; `died`, a
process stopped between INCR and EXPIRE. The count of wrong passwords has no
variable, since `get_db` rolls it back with the error that reports it.

### EventWizard

`state` and `data` are the two Redis keys of a dialog. An update is dispatched by
the state it finds on arrival and then waits for the connection (`queue` keeps
the state it was dispatched in); its handler runs on what those before it left.
There is an action per handler of the wizard, the repetition of a custom, and the
announcement of one; `Data` keeps of the typed values only what the properties
tell apart: the channels, the first of them, the pages, the first of them, the
date, the prize. A publication is split where the code is (`Publishing`,
`PublishCommitted`, `ClearAfter`): the custom is committed before the dialog ends.
Redis may evict either key at any time. Histories: `outrun`, the states whose
updates were handled in another state; `twice`, dialogs the bot itself asked to
try again, or that somebody was waiting for at their commit.

### RoomEntry

A preview keeps the pair in the dialog and, per custom, in Redis for 45 minutes;
its button stays on the screen (`buttons`). `Offer` stores first and shows
afterwards, and may end in between: then the dialog and Redis have a pair whose
preview failed, and an older button, or one `RemindConfirm` sends, commits it.
`Confirm` commits what `Loaded` finds: the custom's pair in Redis, or whatever pair
the dialog has. `ConfirmEnds` and `ConfirmRefused` may end at their message, and
leave the dialog as it was. Histories: `entered`, the pair the dialog took last for
each custom; `unkept`, the customs whose last pair Redis did not take.

### Referrals

An update opens a session, takes the invitation of a `/start` link, and marks the
pending ones valid when the onboarding passes (`Counted`, `Marked`); `count` is
`valid_count` of a link, `ref` the rows. Two processes may have one player's
onboarding in hand (`raced`).

### Retention

One custom, its room, its job, the reports about it and the rows of the verdicts.
The hourly purge is one transaction in four steps, because the locks of a
transaction and what it has read are of different moments: `Pick` reads the ids
of customs that began before the cutoff, `Clear` takes away what hangs on them
without a cascade, `Delete` deletes by id - or breaks a key, if a row came to hang
on the custom since - and `Gone` commits. The daily blanking (`FindSent`) and the
job (`ClaimJob`, `JobLooks`) read first and write later (`Blank`). Handlers open a
session with what they read, `Write` waits for the rows, and commits. `LoopFails`
is an exception or a deadlock the database ends. `rows` counts the rows of
verdicts with and without a custom: after the purge a report has none
(`linked`), and `record` skips its check. `moved`, a history: the custom got
another time while a purge had it in hand.

### Composition

Registration, EventLifecycle and CredentialDelivery share the event row. Each
models the others' steps on the part it shows: Registration contains the sweep's
demotions and its move to `started`; EventLifecycle contains the outcome of a
sweep; CredentialDelivery contains players who register. FollowGate composes the
gate, the seats and the sweep, without outdated copies of the count; RoomEntry has
the send as one step; OrganizerTrust has the verdicts of the delivery job as one
session; Retention has reports and verdicts as far as the purge concerns them.
The full product is beyond TLC, and the properties of each do not mention what
the others hide.

The eight modules of `MCComponents` share no variable that a property relates, so
a behaviour of their composition is one of each side by side, and a safety
property of one is violated in it if and only if it is violated alone. That a behaviour of the instance is a behaviour of the component its part names is
the theorem `PartsAreComponents`. The run
therefore takes one component (`part`) a behaviour: its initial states are the
union of theirs, its steps those of the part looked at, and the variables of the
others stay blank. The properties keep their names and are stated per part.
`MCLiveness` does the same with EventLifecycle and Retention; a component's
fairness is assumed where it is the one looked at (`Of`).

## 3. Runs

| Run | Instance | Shows |
|---|---|---|
| `registration_races` | 3 players, 2 handlers in 2 processes, capacity 1 | `TypeOK`, `NoWaiterLost`, `PositionsDistinct` while copies are outdated freely |
| `registration_order` | 3 players, 2 handlers in 1 process and the sweep, capacity 1 | count, capacity, freshness of pinned copies, first come first served, refinement of `SeatLedger` |
| `registration_capacity` | 2 players, 2 processes | **violated**: two registrations for the last seat both succeed |
| `registration_waiters` | 2 players, 1 process and the sweep | **violated**: a demotion in a sweep leaves a waiter beside a free seat |
| `lifecycle_safety` | 2 dispatchers; all four jobs; 1 attempt; 1 late send | `TypeOK`, `RunningIsHeld`, `ClaimIsExclusive`, `SettledStays`, `OnlyOutdatedRevives` |
| `liveness` | 1 dispatcher; credentials and start jobs; 2 attempts - or 2 purging processes, clock to 2, 1 failure, one handler at a time; fairness | `DueJobSettles`, `CancelledQuiets`; Retention: `OldGoes` |
| `lifecycle_reschedule` | 1 dispatcher | **violated**: rescheduling leaves the jobs cancelled |
| `lifecycle_cancel` | 1 dispatcher | **violated**: a running sweep turns a cancelled custom into a started one |
| `lifecycle_restart` | 1 dispatcher, fairness | **violated**: a claimed job whose dispatcher stopped is never taken up again |
| `delivery_safety` | 2 players, 2 senders, 2 versions, lost answers | `TypeOK`, `SentMeansReceived`, `AtMostOnce`, refinement of `Handout` (`KeepsHandout`) |
| `delivery_once` | 2 players, 1 sender, 1 version | **violated**: a sweep that is cut short is repeated from the beginning |
| `components` | 2 players, 2 panels or admins, 2 reports, 2 runs, 2 requests, 2 channels, 2 customs, 2 processes, as each component needs | `EveryTypeOK`; FollowGate: `RejectedHoldsNoSeat`, `PasswordEarned`, `FinalMeansSeated`; OrganizerTrust: `ScoreMatchesRows`, `OnceOnly`, `UpheldCounts`; MassMessages: `OnlyOnce`, `DoneReachesAll`, `ConfirmedStarts`, `ReminderReaches`; AdminSessions: `UsedOnce`, `LimiterRecovers`; EventWizard: `GatedByOwnChannel`, `FollowInSync`, `OncePerWizard`; RoomEntry: `SentAsEntered`; Referrals: `CountIsRows`; Retention: `PurgedIsMarked`, `OnlyThePastGoes` |

A violated property states what a document or a message of the program says;
`PROJECT.json` quotes the line. `FullIsMarked`, `FinishedIsPast`, `SentIsFinal` and `NewestLast`
were checked before they were proved; they hold for every instance by their
theorems, and no run repeats them.

**Bounds.** Capacity 1 with three players is the smallest instance with a seat
holder and two waiters in order, which the queue properties need; two handlers
are enough for one to overtake the other, and a third adds only more of the
same, since a finishing step touches one player and at most one heir. Two
versions make "older" and "newer". One attempt in the safety run makes a job fail
or succeed at once; the liveness run has two, so that a retry happens.
`MaxSends`, `MaxVersion` and `MaxAttempts` bound counters in guards.

In `components` two of everything make every pair that can interfere: two
players for one seat, two reports of one custom, two runs of one message, two
requests with one token, two channels and two customs for one dialog, two
processes for one player. Two waiting updates are enough for each of its
properties to be broken by its mutant; three are covered by the theorems, which
have no such bound. `MaxDeeds` 3 makes the score move, hit its clamp and be moved
back. For Retention a retention of one tick and a clock to two let a custom grow
old, be moved out of the purge's reach and grow old or go; two entries make a
room that replaces a blanked one; one verdict is enough for a key to break.

**Constraints.** `components` bounds what is out of the ordinary (`Few` in each
module, `FewDeeds` for the trust score): one mishap, one player in bad standing,
one update out of turn, one person in the middle of something where two would
only repeat it. Nothing is cut off before the first of anything; what is not
explored is a second trouble on top of the first. Retention is looked at from two
sides, since no action reads both the reports of a custom and its room:
`components` has its room and no reports, and moves a custom before it has a room;
`liveness` has reports and verdicts and no room, with one handler at a time beside
the two purges, because a delay of `OldGoes` is the work of a verdict, a
reschedule, a failure or the other purge. `registration_order` does not explore beyond the first outdated
write (`Fresh`): all its properties are about what comes before, or the step
itself. `registration_races` leaves out parked uploads and sweeps after the
first waiter (`EarlySweeps`): its properties hold without the constraint - they
are proved - and it keeps the run short. `lifecycle_safety` lets a start job
finish before anything else goes on from the start time (`StartFirst`): its rivals
are the same for the finish job. `delivery_safety` follows one player
once two sweeps have overlapped (`OneTrouble`). Players, senders and processes
are interchangeable in every module, and no property names one: symmetry is
sound. The runs with fairness use none.

**Fairness** (`FairSpec`). Time advances, and a retry's time comes. A dispatcher
claims and begins: its loop ticks at least every minute and catches every
exception. A run ends, if only because a Telegram or database timeout raises.
In Retention each of the two loops goes on
(`Purge`, `Blanking`) and a session that has begun ends (`Ending`); the loop
calls every purge again an hour or a day later, whatever the last one raised.
Nothing is assumed of organizers, players, late sends or crashes, and all
fairness is weak.

**Deadlock** is checked in the runs of registration, lifecycle and delivery. It
is not in `components` and `liveness`, whose parts stop when their bounds are used
up - an invitation counted, a campaign sent, a custom gone and the clock at its
bound. That nobody waits for good on a lock of the purges is `OldGoes`.

## 4. Proofs

`RegistrationProofs` proves for every finite set of players, every set of
handlers and processes, and every capacity (assumptions: `UsersAssumption`,
`HandlersAssumption`, `ProcOfAssumption`, `CapacityAssumption`):

| Theorem | States |
|---|---|
| `TypeCorrect` | `TypeOK` |
| `CountExact`, `CapacitySafe`, `FullMarked` | `CountIsExact`, `CapacityRespected`, `FullIsMarked` |
| `WaitersReachable`, `PositionsUnique` | `NoWaiterLost`, `PositionsDistinct` |
| `PinnedFresh` | `PinnedCopyIsFresh` |
| `InOrder` | `FirstComeFirstServed` |
| `ImplementsSeatLedger` | `ImplementsLedger`, the refinement of `SeatLedger` |

All rest on one inductive invariant, `IInv`, a conjunction of four parts.
`Sessions` says what a transaction under way holds: it acts for a player, has its
process's connection unless it is parked in an upload, is exposed if it was ever
parked, and goes on only with an event it may act on. `SeatsInv` is the count,
the capacity and the full mark together, guarded by `~stale`; the three need each
other, because the test for room, the decrement and the reopening of a full event
each rely on the others. `QueueInv` has an active entry for every waiter, distinct
positions, and positions above zero, without which "the next position" would not
be last. `TypeOK` is the fourth; that a copy nobody could overtake equals the rows
(`PinnedCopyIsFresh`) is proved alongside, as a step of its own. Each part has a
lemma that `Next` preserves it, one step per action; counting lemmas
(`SeatsCounted`, `SeatHandedOver`) relate a change of `reg` to the cardinality of
`Confirmed`. The invariant was model-checked before it was proved.
`ImplementsSeatLedger` maps `seated` to `Confirmed` and `rank` to the position of
waiting players, and maps every step before the first outdated write to a ledger
step or a stutter.

`CredentialDeliveryProofs` proves for every set of players and of senders and any
number of corrections (assumptions: `NobodyAssumption`, `VersionAssumption`):

| Theorem | States |
|---|---|
| `TypeCorrect` | `TypeOK` |
| `RecordedIsReceived` | `SentMeansReceived` |
| `ReceivedOnce` | `AtMostOnce` |
| `NeverOlder` | `NewestLast` |
| `SentStays` | `SentIsFinal` |
| `ImplementsHandout` | `KeepsHandout`, the refinement of `Handout` |

Its `IInv` follows the evidence that a message went out: from the count of what a
player received, to the result a sweep is about to record, to the row it has
written and not committed, to the committed row. `Evidence` reads that chain
backwards (a record or a claim means a message) and holds whatever happens;
`Once` reads it forwards (a message leaves a record or a claim) and holds until
sweeps overlap or are cut short. `Once` needs `RowsStand` (the row a sweep looked
at is still what is stored, so the second look of `_upsert_delivery` changes
nothing), which needs `Alone` (one sweep under way), and `Sweeps` (a player still
to be handled has no uncommitted row). `Newest` bounds what anybody has got by the
version being sent. Steps that only move a sweep along share one lemma
(`QuietStep`, `QuietSweep`), as do the two results of a message (`ResultStep`) and
the three ways a sweep ends (`SweepEnds`).

`ImplementsHandout` puts the four together. `Handout` has a player's versions, what
the tables book for them, and whether a sweep was torn; a version may be handed
out if the player has no newer one, and a second time only after something was
torn; a booking only adds, and only what was received. The mapping takes the rows
that say sent for the bookings and `upset` for `torn`; a message, with or without
an answer, is a hand-out (`FirstTime`, `HandsOut`), a commit a booking (`RowsStay`),
a rollback or a crash a tear, and every other step a stutter - until two sweeps
overlap, after which nothing of the kind holds.

`EventLifecycleProofs` proves for every set of processes, any limits on attempts
and any number of late sends (assumptions: `AttemptsAssumption`,
`JobsAssumption`, `SendsAssumption`):

| Theorem | States |
|---|---|
| `TypeCorrect` | `TypeOK` |
| `PastWhenFinished` | `FinishedIsPast` |
| `JobsHeld`, `ClaimsExclusive` | `RunningIsHeld`, `ClaimIsExclusive` |
| `SettledForGood` | `SettledStays` |
| `RevivedFromOldCopy` | `OnlyOutdatedRevives` |

The properties are nearly inductive together; the strengthening is `Runs`: a late
send runs a delivery, never a start or finish job. Without it a late send's commit
could overwrite a row another dispatcher has claimed - which is what happens to
delivery jobs, and why `ClaimIsExclusive` and `SettledStays` speak of `ClockJobs`.
`Ends` reduces the nine ways a run ends to one fact about the row and the event
it writes (`Ending`); `HandlerRows` does the same for the handlers.

`FollowGateProofs` proves for every finite set of players, any number of pages and
uploads, any capacity and limit of the bulk review (assumption: `GateConstants`):

| Theorem | States |
|---|---|
| `TypeCorrect` | `TypeOK` |
| `NoSeatWithRejection` | `RejectedHoldsNoSeat` |
| `EarnedIsSent` | `PasswordEarned` |
| `LastIsSeated` | `FinalMeansSeated` |

`IInv` adds one thing to the types and to `RejectedHoldsNoSeat`: `SweptInTime`, what
a sweep still knows of a player it has read. Who is to be asked about holds a seat,
or has lost it since and is in `caught`; who has passed the gate and waits for the
message has no rejected screenshot, or was rejected in between. Three operators
carry the steps that touch many players. `Promote` takes the first in line
(`FirstIn`, `RestOfLine`) and what it gives is remembered in `slipped`
(`PromoteKeeps`). `Void` takes a seat and promotes (`VoidKeeps`). `VoidAll` does so
for each of a list, and that it keeps what one turn keeps is an induction along
the list; the library's induction theorem needs a prover that is not installed, so
`TurnsExist` and `VoidAllKeeps` argue by the least exception instead
(`Least`, from the well-foundedness of `<`). `VoidAll` is written as a recursive
function for that reason. `LastIsSeated` has two halves. `LastUploadStep`: no page is
owed exactly when the gate lets the same handler register, so that a registration
that was heard ends in a seat. `SeatsStep`: of all the steps that write
registrations only the player's own rejections and the sweep's end take a seat -
`RegisterKeeps` for whoever registers again, and for the bystanders of a rejection
that who has no turn in `VoidAll` keeps the seat, or the place in line or a seat
for it.

`WorkerProofs` proves for any users, admins and runs, any batch and any limits
(assumption: `MassConstants`), about MassMessages:

| Theorem | States |
|---|---|
| `TypeCorrect` | `TypeOK` |
| `NobodyTwice` | `OnlyOnce` |
| `DoneIsDone` | `DoneReachesAll` |
| `ConfirmedIsRun` | `ConfirmedStarts` |
| `RemindedAll` | `ReminderReaches` |

None of the four is inductive. `OnlyOnce` has two reasons, one per way a message is
guarded. With a key in Redis, `KeyHeld` says that the key stands whenever a run is
writing to everybody, that there is one such run, and that nobody on its list has
been written to. A campaign has no key, so `CampaignOnce` follows it along its
life: confirmed by one admin, asked for once, in one run, done - and at each of
these stages whom it has told; the same conjunct holds that what is listed is
still to do, in the open batch or committed, which is `DoneReachesAll` at the end.
`OneReminder` ties the attempts of the reminder to its job row, `Blocked` and
`OnTheWay` say where a user who must be reminded still is, and `ByTheBot` that
only the bot spawns before it commits, which is what `ConfirmedStarts` excludes.
`Separate` keeps the kinds apart. Each action has one lemma; `Promises` draws the
four properties from the invariant.

About Retention it proves for any processes, reports and retention (assumption:
`RetentionConstants`):

| Theorem | States |
|---|---|
| `PurgeTypeCorrect` | `TypeOK` |
| `MarkedWhenPurged` | `PurgedIsMarked` |
| `OldOnly` | `OnlyThePastGoes` |

A purge has an old custom in hand, or one that is gone or was moved since
(`InHand`); that nobody commits another time after the deletion is `Locks`: no
session has written what refers to the custom while a purge has deleted it.

`AccountProofs` proves for any numbers of sessions, tokens, codes and tries
(assumption: `AdmissionConstants`) about AdminSessions: `TypeCorrect`, `TradedOnce`
(`UsedOnce`) and `LimitEnds` (`LimiterRecovers`). The invariant says where a token
or a code can still be: in one row or one request that has read it (`TokensOwn`,
`TokenInHand`, `LogoutInHand`, `CodeInHand`), that one a session has traded is in
neither (`TokensGone`, `CodesGone`), and that one made without a session never gets
there (`LooseOut`). The trades while the admin is switched off are steps like the
others (`HandOutKeeps`): they are many for one token, and touch none of this.

About Referrals it proves for any players, links, updates and processes, and any
finite set of rows (assumption: `ReferralConstants`): `InviteTypeCorrect` and
`CountRight` (`CountIsRows`). That the counter is the number of valid rows is no
induction by itself: a commit adds the rows it marks to the counter it finds, so
each of them must still be pending (`AloneOrRaced`: unless two sessions of one
player raced), must be somebody else's invitation (`NoSelf`), its own player's
(`OwnPlayer`), and there must be one of a kind for a player and custom
(`KeysHeld`), so that a set of marks per link has at most one row. `CountHeld` has
the counter at or above the rows whatever raced, and equal where nothing did;
`CommitInv` adds up the cardinalities. The unique key of the table covers customs
only, since NULLs differ: for a link without a custom the handler's own look-up is
all that keeps a player to one row, and `KeysHeld` excepts who raced there.

`DialogProofs` proves about EventWizard for any channels, dialogs, customs and any number of
waiting updates (assumption: `WizardConstants`): `TypeCorrect`, `OwnChannel`
(`GatedByOwnChannel`), `PagesTogether` (`FollowInSync`) and `OneEach`
(`OncePerWizard`). The invariant says of every state of the dialog which fields
are filled (`SourceThere`), that the two fields of the channel and those of the
pages agree from the step on that sets them (`ChannelsAgree`, `PagesAgree`), that
the customs and announcements of a dialog are counted by it (`Numbered`), and that
a dialog that has published is not in hand (`Spent`). Proving `PagesTogether`
showed that `FollowInSync` needs "banner" among its exceptions: with three waiting
updates - back, back, a photo - the photo of the last step is handled in the step
of the pages; two waiting updates, the bound of the run, hide it.

About RoomEntry it proves for any customs, ROOM IDs and passwords (assumption:
`EntryConstants`): `EntryTypeCorrect` and `EnteredIsCommitted` (`SentAsEntered`),
from two facts: what Redis keeps of a custom is the pair last entered for it, unless
Redis did not take that one (`KeptIsEntered`), and so is what the dialog holds while
it waits for a confirmation (`DialogIsEntered`). Both hold between storing and
showing, which is where a failing message leaves them.

`ComponentsProofs` proves for any players, panels, reports and workers and any
bound on deeds (assumption: `TrustConstants`), about OrganizerTrust:

| Theorem | States |
|---|---|
| `TypeCorrect` | `TypeOK` |
| `ScoreAddsUp` | `ScoreMatchesRows` |
| `RowsOnce` | `OnceOnly` |
| `VerdictsCount` | `UpheldCounts` |

`IInv` adds to these what an open session knows: it was opened for what it is
about to write (`Meant`), judges a claim or report that has not been judged by
anybody it would contradict (`Judged`), is the first to apply a rule or sees its
row (`First`), has no rival for a rule unless the rule is in `raced` (`Rivals`),
and its copy of the score is the row until somebody else commits (`Fresh`).

The second half of `ComponentsProofs` is about `MCComponents` as a whole, under the
assumptions of all eight modules, which TLC evaluates for the instance it checks
(`GateOfInstance` and the others). `PartsAreComponents` says that a behaviour of
the instance is one of OrganizerTrust and of the component its part names;
`PartInvariant`, that each part keeps to its component's inductive invariant. From
these follow the properties of the run as the run states them:

| Theorem | States |
|---|---|
| `TypesHere` | `EveryTypeOK` |
| `RejectedHere`, `EarnedHere`, `FinalHere` | `RejectedHoldsNoSeat`, `PasswordEarned`, `FinalMeansSeated` |
| `OnceHere`, `DoneHere`, `ConfirmedHere`, `RemindedHere` | `OnlyOnce`, `DoneReachesAll`, `ConfirmedStarts`, `ReminderReaches` |
| `TradedOnceHere`, `RecoversHere` | `UsedOnce`, `LimiterRecovers` |
| `OwnChannelHere`, `PagesHere`, `OneEachHere` | `GatedByOwnChannel`, `FollowInSync`, `OncePerWizard` |
| `EnteredHere` | `SentAsEntered` |
| `CountHere` | `CountIsRows` |
| `MarkedHere`, `OldHere` | `PurgedIsMarked`, `OnlyThePastGoes` |

So the bounds of `components` - its constants and its constraint `Few` - limit what
TLC looked at, and not what holds.

Only model-checked: the liveness properties `DueJobSettles`, `CancelledQuiets` and
`OldGoes`, since neither fairness nor ENABLED is in the prover's reach. Every
invariant and action property of a passing run is proved. The properties of the
runs that expect a violation are false, and have no theorem.

## 5. What the checks say about the code

Violated (each by a run, with the line it contradicts in `PROJECT.json`):

* The capacity holds because each process has one connection, not because of the
  row lock. With the bot and the API in separate processes, or with a larger
  pool, two players can get the last seat. Refreshing the locked row
  (`populate_existing`) would restore the promise.
* A delivery sweep that demotes somebody does not promote the next in line.
* Rescheduling a published custom loses its jobs.
* A cancellation does not reach a sweep under way, which ends by marking the
  custom started.
* A job whose dispatcher stops stays `running` for good; `locked_at` is written
  and never read.
* A sweep that is cut short sends again what it had sent; so do overlapping
  sweeps once the lock has expired, and a message whose answer is lost.

Exceptions the properties had to make, each a history variable that tells where
the code lets go of its promise:

* A promotion from the waitlist does not look at the follow gate (`slipped`); a
  rejection during a sweep may come too late for the message (`caught`).
* Two sessions with the organizer in hand lose a change of the score
  (`overlapped`) or give a rule two rows (`raced`). The jobs, the API and the bot
  are separate connections, so one deployment has all it takes.
* "Registered" after the last upload is said whatever became of the registration
  (`bot/handlers/player.py:1418-1430`): `register_user` may have found something else
  missing than the screenshots, or failed and been rolled back (`unheard`).
  `FinalMeansSeated` is what is left of the words: who was heard, in good standing
  and with a seat free, has one, and keeps it until a rejected screenshot or the
  sweep.
* Two requests with one refresh token, or one code, may both be served (`shared`).
* "Revoking a session really does log that browser out; the old jti is rotated on
  every use" (`services/auth.py:168-170`) is true of sessions. While the admin is
  switched off none is looked up (`services/auth.py:192`, `214-215`): any token,
  traded or revoked, buys another, again and again. `UsedOnce` therefore speaks of
  what a session grants, and says of the tokens made without one that no session
  ever accepts them, also after the admin is switched on again (`loose`).
* A dialog that is answered while it is being published makes a second custom
  (`twice`); steps handled out of turn mix its fields (`outrun`).
* A confirmation button commits the pair last entered, which is not always one that
  was shown: the pair is stored before the preview is sent
  (`bot/handlers/organizer.py:1597-1627`), so after a preview that failed an older
  button, or the reminder's (`1736-1740`), commits a pair the organizer never saw.
  It commits yet another pair when Redis did not take the last one (`unkept`), or
  lost it and the dialog went on.
* Two processes that serve one player count an invitation twice (`raced` in
  Referrals).
* The purge deletes by the ids it picked: a custom rescheduled in between goes,
  with its registrations, though it is still to begin (`moved`).

Noticed on the way, without a property of their own:

* `creds.sent_at` is reset by each sweep just before the late window is measured
  from it (`workers/tasks.py:272-290`), so the window never closes early; polling
  for missing credentials uses up `attempts`.
* The bot spawns a campaign before its confirmation is committed
  (`bot/handlers/admin.py:1324`): the task may read a draft and end, and the
  campaign stays `running`. `ConfirmedStarts` therefore speaks of the API only. A
  run never sees a pause set elsewhere and writes `done` over it
  (`workers/tasks.py:675`). The key of a reminder is per custom and offset, so a
  reminder after a reschedule within six hours is suppressed
  (`workers/tasks.py:476`).
* An invitation taken after the onboarding stays pending for good
  (`bot/onboarding.py:69`); a click on one's own link takes the invitee's only row
  for that custom, and a second one breaks the key.
* `apply_trust` moves the score without the once-per-custom check
  (`services/organizers.py:67`); two panels that race on a claim may leave it
  rejected with the row of an approval.
* After the purge a report has no custom, and the rule that costs the organizer
  once a custom costs again with every further verdict (`services/trust.py:80`
  looks for the custom only where there is one).
* A room entered after an earlier one was blanked keeps the mark of the purge and
  does not count as provided (`services/events.py:328`).
* The count of wrong passwords is rolled back with the error
  (`services/auth.py:75`).
* A row that comes to hang on a custom between the purge's clearing and its
  deletion rolls back the whole hour's purge, of every custom; `OldGoes` shows it
  is only a delay.

## 6. Not modelled, and the plan

Not modelled, and why:

* contents and wording of messages, encryption, posters, keyboards, date input:
  rendering and parsing, which no property is about;
* connecting a channel and asking Telegram about it: I/O whose verdict is a
  nondeterministic choice in the modules that ask;
* the relay between winner and organizer, notifications, audit and analytics: rows
  that are inserted and read by nobody modelled; the purge of announcements, one
  `DELETE` by age;
* the lockout after wrong passwords, which the code never reaches, and the late
  window of the sweeps, which one assignment defeats: stated under hazards without
  a property, since there is no order of steps to look for;
* listing and export endpoints, the frontend, migrations: they read, or run once;
* the database's own correctness: transactions, unique keys and row locks are
  taken as documented.

Plan, in order of importance:

1. **Abstract specifications**: what a message to everybody promises, and what the
   purge promises, each in a few lines as `SeatLedger` and `Handout` are, with the
   step-by-step refinement of MassMessages and Retention on the invariants above.
2. **Winner claims with the gate**: eligibility from registrations and deliveries,
   on top of FollowGate, so that a claim is tied to a password received.
3. **Events under one roof**: Registration and EventLifecycle composed over one
   event row with the reschedule, to see which of their properties survive each
   other's outdated copies.
4. **Channels**: connecting, losing the bot's rights and the hourly recheck, with
   "unknown" as a third answer.
