---------------------------- MODULE WorkerProofs ----------------------------
(***************************************************************************)
(* Theorems about two tasks of the worker: MassMessages, for any users and *)
(* any bounds, and Retention, for any processes and reports, any retention *)
(* and any bounds.  Both have a job in `job` and rows in `rows`.           *)
(***************************************************************************)
EXTENDS MassMessages, FiniteSetTheorems, TLAPS

CONSTANTS Processes, Reports, EventRetention, RoomRetention, Horizon, MaxEntries,
          MaxVerdicts, MaxFailures, Never

VARIABLES clock, starts, room, report, loop, tx, failures, moved

Purges == INSTANCE Retention

-----------------------------------------------------------------------------
(***************************************************************************)
(* The messages of MassMessages                                            *)
(***************************************************************************)

-----------------------------------------------------------------------------
(* The inductive invariant                                                 *)

Idle(r) == run[r] = NoRun

\* A campaign has admins and no first part; the other kinds have no admins.
Separate ==
    /\ kind # "campaign" => \A a \in Admins : admin[a] = "none"
    /\ kind = "campaign" => \A r \in Runs : run[r].pc # "registered"

\* The reminder is asked for as often as its job is pending, and runs once.
OneReminder ==
    kind = "reminder" =>
        /\ due = IF job = "pending" THEN 1 ELSE 0
        /\ due = 1 => tries < MaxTries
        /\ \A r \in Runs : ~Idle(r) => job = "running" /\ \A q \in Runs : ~Idle(q) => q = r

\* Whoever holds the key is the only one to write to everybody.
KeyHeld ==
    kind # "campaign" /\ Without({"no key"}) =>
        /\ ~key => \A u \in Users : got[u] = 0
        /\ \A r \in Runs : run[r].pc = "all" =>
              /\ key
              /\ \A q \in Runs : run[q].pc = "all" => q = r
              /\ \A u \in run[r].todo : got[u] = 0
        /\ \A u \in Users : got[u] <= 1

Untold == \A u \in Users : got[u] = 0

\* A campaign is confirmed, asked for and run one after the other, and once: ...
CampaignOnce ==
    kind = "campaign" /\ Without({"both"}) =>
        /\ \A a, b \in Admins : admin[a] # "none" /\ admin[b] # "none" => a = b
        /\ \A a \in Admins : admin[a] # "none" =>
              /\ status \in {"draft", "paused"} /\ (\A r \in Runs : Idle(r)) /\ Untold
              /\ admin[a] # "commit" => due = 0
        /\ status = "draft" => /\ (\A r \in Runs : Idle(r)) /\ Untold
                               /\ (\A a \in Admins : admin[a] = "none") => due = 0
        /\ due > 0 => due = 1 /\ (\A r \in Runs : Idle(r)) /\ Untold
        /\ \A q, r \in Runs : ~Idle(q) /\ ~Idle(r) => q = r
        /\ \A r \in Runs : ~Idle(r) => /\ \A u \in run[r].todo : got[u] = 0
                                       /\ listed \subseteq run[r].todo \cup run[r].rows \cup rows
        /\ \A u \in Users : got[u] <= 1
        /\ status = "done" => /\ listed \subseteq rows /\ due = 0
                              /\ \A r \in Runs : Idle(r)

\* ... by the bot, if it is spawned before the status is committed.
ByTheBot == \A a \in Admins : admin[a] = "commit" => "bot" \in via

\* Who has blocked the bot has been written to, or has done something since.
Blocked ==
    /\ \A r \in Runs : ~Idle(r) => run[r].gone \subseteq tried
    /\ \A u \in Users \ changed : user[u] = "on" \/ u \in tried

\* A first attempt has the users who stayed as they were before it or behind it.
OnTheWay ==
    kind = "reminder" /\ Without({"failed", "crash", "rescheduled", "hidden"}) =>
        /\ event = "published" /\ job # "failed"
        /\ job = "pending" => ~key
        /\ job = "running" => \E r \in Runs : ~Idle(r)
        /\ \A r \in Runs :
              /\ run[r].pc = "registered" =>
                    ~key /\ run[r].already \subseteq run[r].todo \cup tried
              /\ run[r].pc = "all" => Users \ changed \subseteq run[r].todo \cup tried
        /\ job = "done" => Users \ changed \subseteq tried

IInv == /\ TypeOK /\ Separate /\ OneReminder /\ KeyHeld /\ CampaignOnce /\ ConfirmedStarts
        /\ ByTheBot /\ Blocked /\ OnTheWay

-----------------------------------------------------------------------------
(* Types                                                                   *)

\* What holds of every record of a run.
LEMMA Runners ==
    ASSUME TypeOK, NEW r \in Runs
    PROVE  /\ run[r] = NoRun \/ run[r] \in Run
           /\ Idle(r) <=> run[r].pc = "none"
           /\ run[r].pc \in {"registered", "all"} => run[r] \in Run /\ ~Idle(r)
           /\ ~Idle(r) => run[r] \in Run /\ run[r].pc \in {"registered", "all"}
<1>1. run[r] = NoRun \/ run[r] \in Run
  BY DEF TypeOK
<1>2. NoRun.pc = "none"
  BY DEF NoRun
<1>3. \A x \in Run : x.pc \in {"registered", "all"}
  BY DEF Run
<1> QED
  BY <1>1, <1>2, <1>3 DEF Idle

LEMMA Begins ==
    ASSUME MassConstants, NEW pc \in {"registered", "all"}, NEW users \in SUBSET Users,
           NEW already \in SUBSET Users
    PROVE  Begun(pc, users, already) \in Run
  BY DEF MassConstants, Begun, Run

LEMMA InitInv == ASSUME MassConstants, Init PROVE IInv
<1>1. TypeOK
  <2>1. due \in 0..MaxDue /\ regs \subseteq Users /\ kind \in Kinds
    BY DEF Init, MassConstants
  <2>2. run \in [Runs -> Run \cup {NoRun}] /\ tries \in 0..MaxTries
    BY DEF Init, MassConstants
  <2> QED
    BY <2>1, <2>2 DEF Init, TypeOK
<1>2. \A r \in Runs : Idle(r) /\ run[r].pc = "none"
  BY DEF Init, Idle, NoRun
<1>3. Separate /\ OneReminder
  BY <1>2 DEF Init, Separate, OneReminder, MassConstants
<1>4. KeyHeld
  <2>1. /\ \A u \in Users : got[u] = 0 /\ got[u] <= 1
        /\ \A r \in Runs : run[r].pc # "all"
    BY <1>2 DEF Init
  <2> QED
    BY <2>1 DEF KeyHeld
<1>5. CampaignOnce /\ ConfirmedStarts /\ ByTheBot
  BY <1>2 DEF Init, CampaignOnce, ConfirmedStarts, ByTheBot, Untold
<1>6. Blocked /\ OnTheWay
  BY <1>2 DEF Init, Blocked, OnTheWay
<1> QED
  BY <1>1, <1>3, <1>4, <1>5, <1>6 DEF IInv

\* The parts of the invariant, to cite together.
LEMMA Parts ==
    ASSUME IInv
    PROVE  /\ TypeOK /\ Separate /\ OneReminder /\ KeyHeld /\ CampaignOnce /\ ConfirmedStarts
           /\ ByTheBot /\ Blocked /\ OnTheWay
  BY DEF IInv

\* What says nothing about a campaign, and what only speaks of one.
LEMMA OfCampaigns ==
    /\ kind = "campaign" => OneReminder /\ KeyHeld /\ OnTheWay
    /\ kind # "campaign" => CampaignOnce /\ ConfirmedStarts
    /\ kind # "reminder" => OneReminder /\ OnTheWay
  BY DEF OneReminder, KeyHeld, OnTheWay, CampaignOnce, ConfirmedStarts

LEMMA OfCampaignsNext ==
    /\ kind' = "campaign" => OneReminder' /\ KeyHeld' /\ OnTheWay'
    /\ kind' # "campaign" => CampaignOnce' /\ ConfirmedStarts'
    /\ kind' # "reminder" => OneReminder' /\ OnTheWay'
  BY DEF OneReminder, KeyHeld, OnTheWay, CampaignOnce, ConfirmedStarts

\* A step that brings nobody to write to everybody leaves the key alone.
LEMMA KeyKept ==
    ASSUME KeyHeld, UNCHANGED <<kind, key, got>>, mishaps \subseteq mishaps',
           \A q \in Runs :
              run'[q].pc = "all" => run[q].pc = "all" /\ run'[q].todo \subseteq run[q].todo
    PROVE  KeyHeld'
<1>1. SUFFICES ASSUME kind # "campaign", "no key" \notin mishaps PROVE KeyHeld'
  BY DEF KeyHeld, Without
<1>2. /\ ~key => \A u \in Users : got[u] = 0
      /\ \A u \in Users : got[u] <= 1
      /\ \A r \in Runs : run[r].pc = "all" => key
      /\ \A r, q \in Runs : run[r].pc = "all" /\ run[q].pc = "all" => q = r
      /\ \A r \in Runs : run[r].pc = "all" => \A u \in run[r].todo : got[u] = 0
  BY <1>1 DEF KeyHeld, Without
<1> QED
  BY <1>2 DEF KeyHeld

\* The counters, as numbers.
LEMMA Counters ==
    ASSUME MassConstants, IInv
    PROVE  /\ MaxDue \in Nat \ {0} /\ MaxTries \in Nat \ {0}
           /\ due \in 0..MaxDue /\ tries \in 0..MaxTries
           /\ due \in Nat /\ tries \in Nat /\ got \in [Users -> Nat]
<1>1. MaxDue \in Nat \ {0} /\ MaxTries \in Nat \ {0}
  BY DEF MassConstants
<1>2. due \in 0..MaxDue /\ tries \in 0..MaxTries /\ got \in [Users -> Nat]
  BY DEF IInv, TypeOK
<1> QED
  BY <1>1, <1>2

-----------------------------------------------------------------------------
(* The admins                                                              *)

LEMMA ConfirmInv == ASSUME MassConstants, IInv, NEW a \in Admins, NEW how \in {"api", "bot"},
                           Confirm(a, how) PROVE IInv'
<1>1. /\ kind = "campaign" /\ status = "draft" /\ admin[a] = "none"
      /\ admin' = [admin EXCEPT ![a] = how]
      /\ UNCHANGED <<status, via, rows, listed, world, key, due, job, tries, sending>>
      /\ "both" \notin mishaps' => mishaps' = mishaps /\ \A b \in Admins : admin[b] = "none"
      /\ mishaps \subseteq mishaps' /\ mishaps' \subseteq mishaps \cup {"both"}
  BY DEF Confirm
<1>2. TypeOK'
  BY <1>1, Parts DEF TypeOK, world, sending
<1>3. Separate' /\ OneReminder' /\ KeyHeld'
  BY <1>1, Parts DEF world, sending, Separate, OneReminder, KeyHeld, Idle, Without
<1>4. CampaignOnce'
  <2>1. SUFFICES ASSUME "both" \notin mishaps' PROVE CampaignOnce'
    BY DEF CampaignOnce, Without
  <2>2. \A b \in Admins : admin'[b] = IF b = a THEN how ELSE "none"
    BY <1>1, <2>1, Parts DEF TypeOK
  <2>3. due = 0 /\ \A r \in Runs : Idle(r)
    BY <1>1, <2>1, Parts DEF CampaignOnce, Without
  <2> QED
    BY <1>1, <2>1, <2>2, <2>3, Parts DEF world, sending, CampaignOnce, Idle, Without, Untold
<1>5. ConfirmedStarts' /\ ByTheBot'
  BY <1>1, Parts DEF TypeOK, world, sending, ConfirmedStarts, ByTheBot, Without
<1>6. Blocked' /\ OnTheWay'
  BY <1>1, Parts DEF world, sending, Blocked, OnTheWay, Idle, Without
<1> QED
  BY <1>2, <1>3, <1>4, <1>5, <1>6 DEF IInv

LEMMA ConfirmApiInv == ASSUME MassConstants, IInv, NEW a \in Admins, ConfirmApi(a) PROVE IInv'
<1>0. due \in 0..MaxDue /\ MaxDue \in Nat
  BY Counters
<1>1. /\ admin[a] = "api" /\ status' \in {"running", "scheduled"} /\ due < MaxDue
      /\ due' = due + 1 /\ admin' = [admin EXCEPT ![a] = "none"] /\ via' = via \cup {"api"}
      /\ UNCHANGED <<rows, listed, world, key, job, tries, sending, mishaps>>
  BY DEF ConfirmApi, Spawned
<1>2. kind = "campaign" /\ \A b \in Admins : b # a => admin'[b] = admin[b]
  BY <1>1, Parts DEF Separate, TypeOK
<1>3. TypeOK'
  <2>1. /\ due' \in 0..MaxDue /\ admin' \in [Admins -> {"none", "api", "bot", "commit"}]
        /\ via' \subseteq {"api", "bot"}
    <3>1. due' \in 0..MaxDue
      BY <1>0, <1>1
    <3>2. via \subseteq {"api", "bot"} /\ admin \in [Admins -> {"none", "api", "bot", "commit"}]
      BY Parts DEF TypeOK
    <3> QED
      BY <1>1, <3>1, <3>2
  <2> QED
    BY <1>1, <2>1, Parts DEF TypeOK, world, sending
<1>4. Separate' /\ OneReminder' /\ KeyHeld'
  BY <1>1, <1>2, Parts DEF world, sending, Separate, OneReminder, KeyHeld, Idle, Without
<1>5. CampaignOnce'
  <2>1. SUFFICES ASSUME "both" \notin mishaps PROVE CampaignOnce'
    BY <1>1 DEF CampaignOnce, Without
  <2>2. /\ due = 0 /\ (\A r \in Runs : Idle(r)) /\ Untold /\ status \in {"draft", "paused"}
        /\ \A b \in Admins : b # a => admin[b] = "none"
    BY <1>1, <1>2, <2>1, Parts DEF CampaignOnce, Without
  <2>3. \A r \in Runs : Idle(r)'
    BY <1>1, <2>2 DEF sending, Idle
  <2>4. Untold' /\ \A u \in Users : got'[u] <= 1
    BY <1>1, <2>2 DEF sending, Untold
  <2>5. due' = 1 /\ \A b, c \in Admins : admin'[b] # "none" /\ admin'[c] # "none" => b = c
    BY <1>1, <1>2, <2>2
  <2>6. \A b \in Admins :
           admin'[b] # "none" => admin'[b] = "commit" /\ status' \in {"draft", "paused"}
    BY <1>1, <1>2, <2>2, Parts DEF TypeOK
  <2>7. (\A b \in Admins : admin'[b] = "none") => status' # "draft"
    BY <1>1, Parts DEF TypeOK
  <2> QED
    BY <1>1, <2>2, <2>3, <2>4, <2>5, <2>6, <2>7 DEF CampaignOnce
<1>6. ConfirmedStarts' /\ ByTheBot'
  <2>1. due' > 0
    BY <1>0, <1>1
  <2> QED
    BY <1>1, <1>2, <2>1, Parts DEF TypeOK, ConfirmedStarts, ByTheBot
<1>7. Blocked' /\ OnTheWay'
  BY <1>1, <1>2, Parts DEF world, sending, Blocked, OnTheWay, Idle, Without
<1> QED
  BY <1>3, <1>4, <1>5, <1>6, <1>7 DEF IInv

LEMMA ConfirmBotInv == ASSUME MassConstants, IInv, NEW a \in Admins, ConfirmBot(a) PROVE IInv'
<1>0. due \in 0..MaxDue /\ MaxDue \in Nat
  BY Counters
<1>1. /\ admin[a] = "bot" /\ due < MaxDue
      /\ due' = due + 1 /\ admin' = [admin EXCEPT ![a] = "commit"] /\ via' = via \cup {"bot"}
      /\ UNCHANGED <<status, rows, listed, world, key, job, tries, sending, mishaps>>
  BY DEF ConfirmBot, Spawned
<1>2. kind = "campaign" /\ \A b \in Admins : b # a => admin'[b] = admin[b]
  BY <1>1, Parts DEF Separate, TypeOK
<1>3. TypeOK'
  <2>1. /\ due' \in 0..MaxDue /\ admin' \in [Admins -> {"none", "api", "bot", "commit"}]
        /\ via' \subseteq {"api", "bot"}
    <3>1. due' \in 0..MaxDue
      BY <1>0, <1>1
    <3>2. via \subseteq {"api", "bot"} /\ admin \in [Admins -> {"none", "api", "bot", "commit"}]
      BY Parts DEF TypeOK
    <3> QED
      BY <1>1, <3>1, <3>2
  <2> QED
    BY <1>1, <2>1, Parts DEF TypeOK, world, sending
<1>4. Separate' /\ OneReminder' /\ KeyHeld'
  BY <1>1, <1>2, Parts DEF world, sending, Separate, OneReminder, KeyHeld, Idle, Without
<1>5. CampaignOnce'
  <2>1. SUFFICES ASSUME "both" \notin mishaps PROVE CampaignOnce'
    BY <1>1 DEF CampaignOnce, Without
  <2>2. /\ due = 0 /\ (\A r \in Runs : Idle(r)) /\ Untold /\ status \in {"draft", "paused"}
        /\ \A b \in Admins : b # a => admin[b] = "none"
    BY <1>1, <1>2, <2>1, Parts DEF CampaignOnce, Without
  <2>3. \A r \in Runs : Idle(r)'
    BY <1>1, <2>2 DEF sending, Idle
  <2>4. Untold' /\ \A u \in Users : got'[u] <= 1
    BY <1>1, <2>2 DEF sending, Untold
  <2>5. due' = 1 /\ \A b, c \in Admins : admin'[b] # "none" /\ admin'[c] # "none" => b = c
    BY <1>1, <1>2, <2>2
  <2>6. \A b \in Admins :
           admin'[b] # "none" => admin'[b] = "commit" /\ status' \in {"draft", "paused"}
    BY <1>1, <1>2, <2>2, Parts DEF TypeOK
  <2>7. (\A b \in Admins : admin'[b] = "none") => status' # "draft"
    BY <1>1, Parts DEF TypeOK
  <2> QED
    BY <1>1, <2>2, <2>3, <2>4, <2>5, <2>6, <2>7 DEF CampaignOnce
<1>6. ConfirmedStarts' /\ ByTheBot'
  <2>1. due' > 0
    BY <1>0, <1>1
  <2> QED
    BY <1>1, <1>2, <2>1, Parts DEF TypeOK, ConfirmedStarts, ByTheBot
<1>7. Blocked' /\ OnTheWay'
  BY <1>1, <1>2, Parts DEF world, sending, Blocked, OnTheWay, Idle, Without
<1> QED
  BY <1>3, <1>4, <1>5, <1>6, <1>7 DEF IInv

LEMMA ConfirmCommitInv == ASSUME MassConstants, IInv, NEW a \in Admins, ConfirmCommit(a)
                          PROVE  IInv'
<1>1. /\ admin[a] = "commit" /\ status' = "running" /\ admin' = [admin EXCEPT ![a] = "none"]
      /\ UNCHANGED <<via, rows, listed, world, key, due, job, tries, sending, mishaps>>
  BY DEF ConfirmCommit
<1>2. kind = "campaign" /\ \A b \in Admins : b # a => admin'[b] = admin[b]
  BY <1>1, Parts DEF Separate, TypeOK
<1>3. TypeOK'
  BY <1>1, Parts DEF TypeOK, world, sending
<1>4. Separate' /\ OneReminder' /\ KeyHeld'
  BY <1>1, <1>2, Parts DEF world, sending, Separate, OneReminder, KeyHeld, Idle, Without
<1>5. CampaignOnce'
  BY <1>1, <1>2, Parts DEF TypeOK, world, sending, CampaignOnce, Idle, Without, Untold
<1>6. ConfirmedStarts' /\ ByTheBot'
  BY <1>1, <1>2, Parts DEF TypeOK, world, sending, ConfirmedStarts, ByTheBot, Without
<1>7. Blocked' /\ OnTheWay'
  BY <1>1, <1>2, Parts DEF world, sending, Blocked, OnTheWay, Idle, Without
<1> QED
  BY <1>3, <1>4, <1>5, <1>6, <1>7 DEF IInv

LEMMA PauseInv == ASSUME MassConstants, IInv, Pause PROVE IInv'
<1>1. /\ kind = "campaign" /\ status' = "paused"
      /\ UNCHANGED <<admin, via, rows, listed, world, key, due, job, tries, sending, mishaps>>
  BY DEF Pause
<1>2. TypeOK'
  BY <1>1, Parts DEF TypeOK, world, sending
<1>3. Separate' /\ OneReminder' /\ KeyHeld' /\ OnTheWay'
  BY <1>1, Parts, OfCampaignsNext DEF world, sending, Separate
<1>4. CampaignOnce'
  BY <1>1, Parts DEF world, sending, CampaignOnce, Idle, Without, Untold
<1>5. ConfirmedStarts' /\ ByTheBot' /\ Blocked'
  BY <1>1, Parts DEF world, sending, ConfirmedStarts, ByTheBot, Blocked, Idle
<1> QED
  BY <1>2, <1>3, <1>4, <1>5 DEF IInv

-----------------------------------------------------------------------------
(* A run begins                                                            *)

LEMMA StartCampaignInv == ASSUME MassConstants, IInv, NEW r \in Runs, StartCampaign(r) PROVE IInv'
<1>0. due \in 0..MaxDue /\ MaxDue \in Nat
  BY Counters
<1>1. /\ kind = "campaign" /\ Idle(r) /\ due > 0 /\ due' = due - 1
      /\ UNCHANGED <<status, admin, via, rows, world, key, job, tries, got, tried, mishaps>>
  BY DEF StartCampaign, Idle
<1>2. Separate' /\ OneReminder' /\ KeyHeld' /\ OnTheWay' /\ ByTheBot' <=> Separate'
  BY <1>1, Parts, OfCampaignsNext DEF world, ByTheBot
<1>3. CASE status \in {"running", "scheduled"}
  <2> DEFINE all == Everyone({})
             x   == [Begun("all", all, {}) EXCEPT
                        !.status = IF status = "scheduled" THEN "running" ELSE "same"]
  <2>1. /\ run' = [run EXCEPT ![r] = x] /\ listed' = all /\ all \subseteq Users
        /\ x \in Run /\ x.pc = "all" /\ x.todo = all /\ x.rows = {} /\ x.gone = {}
    <3>1. all \subseteq Users
      BY <1>1 DEF Everyone
    <3>2. x.pc = "all" /\ x.todo = all /\ x.rows = {} /\ x.gone = {}
      BY DEF Begun
    <3>3. Begun("all", all, {}) \in Run
      BY <3>1, Begins
    <3>4. x \in Run
      BY <3>3 DEF Run
    <3> QED
      BY <1>3, <3>1, <3>2, <3>4 DEF StartCampaign
  <2> HIDE DEF all, x
  <2>2. /\ run'[r] = x /\ (\A q \in Runs : q # r => run'[q] = run[q])
        /\ run' \in [Runs -> Run \cup {NoRun}]
    BY <2>1, Parts DEF TypeOK
  <2>3. TypeOK'
    <3>1. due' \in 0..MaxDue
      BY <1>0, <1>1
    <3> QED
      BY <1>1, <2>1, <2>2, <3>1, Parts DEF TypeOK, world
  <2>4. Separate'
    BY <1>1, <2>1, <2>2, Parts DEF world, Separate
  <2>5. CampaignOnce'
    <3>1. SUFFICES ASSUME "both" \notin mishaps PROVE CampaignOnce'
      BY <1>1 DEF CampaignOnce, Without
    <3>2. /\ due = 1 /\ (\A q \in Runs : Idle(q)) /\ Untold
          /\ \A a \in Admins : admin[a] = "none"
      BY <1>1, <1>3, <3>1, Parts DEF CampaignOnce, Without
    <3>3. \A q \in Runs : q # r => Idle(q)'
      BY <2>2, <3>2 DEF Idle
    <3>4. Untold' /\ due' = 0
      BY <1>1, <3>2 DEF Untold
    <3> QED
      BY <1>1, <1>3, <2>1, <2>2, <3>2, <3>3, <3>4 DEF CampaignOnce, Untold
  <2>6. ConfirmedStarts'
    <3>1. ~Idle(r)'
      BY <2>1, <2>2 DEF Idle, NoRun
    <3> QED
      BY <3>1 DEF ConfirmedStarts, Idle
  <2>7. Blocked'
    BY <1>1, <2>1, <2>2, Parts DEF Blocked, Idle, world
  <2> QED
    BY <1>2, <2>3, <2>4, <2>5, <2>6, <2>7 DEF IInv
<1>4. CASE status \notin {"running", "scheduled"}
  <2>1. UNCHANGED <<run, listed>>
    BY <1>4 DEF StartCampaign
  <2>2. TypeOK'
    <3>1. due' \in 0..MaxDue
      BY <1>0, <1>1
    <3> QED
      BY <1>1, <2>1, <3>1, Parts DEF TypeOK, world
  <2>3. Separate'
    BY <1>1, <2>1, Parts DEF Separate, world
  <2>4. CampaignOnce'
    <3>1. due' > 0 => due > 1
      BY <1>0, <1>1
    <3>2. \A a \in Admins : due # 0
      BY <1>1
    <3>3. due = 1 => due' = 0
      BY <1>1
    <3> QED
      BY <1>1, <2>1, <3>1, <3>2, <3>3, Parts DEF world, CampaignOnce, Idle, Without, Untold
  <2>5. ConfirmedStarts' /\ Blocked'
    BY <1>1, <1>4, <2>1, Parts DEF ConfirmedStarts, Blocked, Idle, world
  <2> QED
    BY <1>2, <2>2, <2>3, <2>4, <2>5 DEF IInv
<1> QED
  BY <1>3, <1>4

LEMMA StartKeyedInv == ASSUME MassConstants, IInv, NEW r \in Runs, StartKeyed(r) PROVE IInv'
<1>0. /\ due \in 0..MaxDue /\ MaxDue \in Nat /\ tries \in 0..MaxTries /\ MaxTries \in Nat
      /\ regs \subseteq Users
  BY Parts, Counters DEF TypeOK
<1>1. /\ kind # "campaign" /\ Idle(r) /\ due > 0 /\ due' = due - 1
      /\ UNCHANGED <<campaign, world, key, got, tried, mishaps>>
  BY DEF StartKeyed, Idle
<1>2. /\ UNCHANGED kind /\ due' \in 0..MaxDue
      /\ CampaignOnce' /\ ConfirmedStarts' /\ ByTheBot'
  BY <1>0, <1>1, Parts, OfCampaignsNext DEF world, campaign, ByTheBot
<1>3. CASE kind # "reminder" \/ event # "over"
  <2> DEFINE users == IF kind = "reminder" THEN regs ELSE {}
             x     == Begun("registered", users, users)
  <2>1. /\ run' = [run EXCEPT ![r] = x]
        /\ x \in Run /\ x.pc = "registered" /\ x.todo = users /\ x.already = users /\ x.gone = {}
    <3>1. x \in Run
      BY <1>0, Begins
    <3>2. run' = [run EXCEPT ![r] = x]
      BY <1>3 DEF StartKeyed
    <3> QED
      BY <3>1, <3>2 DEF Begun
  <2>2. users \subseteq Users /\ (kind = "reminder" => users = regs)
    BY <1>0
  <2> HIDE DEF users, x
  <2>3. /\ run'[r] = x /\ (\A q \in Runs : q # r => run'[q] = run[q])
        /\ run' \in [Runs -> Run \cup {NoRun}]
    BY <2>1, Parts DEF TypeOK
  <2>4. /\ kind # "reminder" => UNCHANGED <<job, tries>>
        /\ kind = "reminder" => job' = "running" /\ tries' = tries + 1 /\ tries < MaxTries
                                /\ due = 1 /\ job = "pending" /\ \A q \in Runs : Idle(q)
    <3>1. kind = "reminder" => due = 1 /\ job = "pending" /\ tries < MaxTries
      BY <1>0, <1>1, Parts DEF OneReminder
    <3>2. kind = "reminder" => \A q \in Runs : Idle(q)
      BY <3>1, Parts DEF OneReminder
    <3> QED
      BY <1>3, <3>1, <3>2 DEF StartKeyed
  <2>5. TypeOK'
    <3>1. tries' \in 0..MaxTries
      BY <1>0, <2>4
    <3>2. job' \in {"pending", "running", "done", "failed"}
      BY <2>4, Parts DEF TypeOK
    <3> QED
      BY <1>1, <1>2, <2>3, <3>1, <3>2, Parts DEF TypeOK, world, campaign
  <2>6. Separate' /\ OneReminder'
    <3>1. Separate'
      BY <1>1, Parts DEF Separate, world, campaign
    <3>2. kind = "reminder" => due' = 0 /\ \A q \in Runs : ~Idle(q)' => q = r
      BY <1>1, <2>3, <2>4 DEF Idle
    <3> QED
      BY <1>2, <2>4, <3>1, <3>2 DEF OneReminder
  <2>7. KeyHeld'
    BY <1>1, <2>1, <2>3, Parts, KeyKept DEF world
  <2>8. Blocked'
    BY <1>1, <2>1, <2>3, Parts DEF Blocked, Idle, world
  <2>9. OnTheWay'
    <3>1. SUFFICES ASSUME kind = "reminder",
                          Without({"failed", "crash", "rescheduled", "hidden"})
                   PROVE  OnTheWay'
      BY <1>1 DEF OnTheWay, Without, world
    <3>2. event = "published" /\ ~key
      BY <2>4, <3>1, Parts DEF OnTheWay
    <3>3. \A q \in Runs : q # r => run'[q].pc = "none"
      BY <2>3, <2>4, <3>1, Parts, Runners
    <3>4. ~Idle(r)'
      BY <2>1, <2>3 DEF Idle, NoRun
    <3> QED
      BY <1>1, <2>1, <2>3, <2>4, <3>1, <3>2, <3>3, <3>4 DEF OnTheWay, world
  <2> QED
    BY <1>2, <2>5, <2>6, <2>7, <2>8, <2>9 DEF IInv
<1>4. CASE kind = "reminder" /\ event = "over"
  <2>1. job' = "done" /\ UNCHANGED run /\ tries' = tries + 1
    BY <1>4 DEF StartKeyed
  <2>2. /\ due = 1 /\ tries < MaxTries /\ due' = 0
        /\ \A q \in Runs : Idle(q) /\ Idle(q)'
    <3>1. due = 1 /\ job = "pending" /\ tries < MaxTries
      BY <1>0, <1>1, <1>4, Parts DEF OneReminder
    <3>2. \A q \in Runs : Idle(q)
      BY <1>4, <3>1, Parts DEF OneReminder
    <3> QED
      BY <1>1, <2>1, <3>1, <3>2 DEF Idle
  <2>3. TypeOK'
    <3>1. tries' \in 0..MaxTries
      BY <1>0, <2>1, <2>2
    <3> QED
      BY <1>1, <1>2, <2>1, <3>1, Parts DEF TypeOK, world, campaign
  <2>4. Separate' /\ OneReminder' /\ Blocked'
    BY <1>1, <1>4, <2>1, <2>2, Parts DEF Separate, OneReminder, Blocked, Idle, world, campaign
  <2>6. KeyHeld'
    BY <1>1, <2>1, Parts, KeyKept DEF world
  <2>5. OnTheWay'
    BY <1>1, <1>4, Parts DEF OnTheWay, Without, world
  <2> QED
    BY <1>2, <2>3, <2>4, <2>5, <2>6 DEF IInv
<1> QED
  BY <1>3, <1>4

-----------------------------------------------------------------------------
(* A run goes on                                                           *)

LEMMA RemindInv == ASSUME MassConstants, IInv, NEW r \in Runs, NEW u \in Users, Remind(r, u)
                   PROVE  IInv'
<1>1. /\ run[r].pc = "registered" /\ u \in run[r].todo /\ tried' = tried \cup {u}
      /\ UNCHANGED <<campaign, world, key, due, job, tries, got, mishaps>>
      /\ run[r] \in Run /\ ~Idle(r)
  BY Parts, Runners DEF Remind
<1>2. /\ run'[r] \in Run /\ run'[r].pc = "registered" /\ run'[r].todo = run[r].todo \ {u}
      /\ run'[r].already = run[r].already /\ run'[r].gone = run[r].gone
      /\ \A q \in Runs : q # r => run'[q] = run[q]
      /\ run' \in [Runs -> Run \cup {NoRun}]
  <2> DEFINE x == [run[r] EXCEPT !.todo = @ \ {u}]
  <2>1. /\ x \in Run /\ x.pc = "registered" /\ x.todo = run[r].todo \ {u}
        /\ x.already = run[r].already /\ x.gone = run[r].gone
    BY <1>1 DEF Run
  <2>2. run' = [run EXCEPT ![r] = x]
    BY Parts DEF Remind, TypeOK
  <2> HIDE DEF x
  <2> QED
    BY <2>1, <2>2, Parts DEF TypeOK
<1>3. \A q \in Runs : (Idle(q)' <=> Idle(q)) /\ run'[q].pc = run[q].pc
  BY <1>1, <1>2 DEF Idle, NoRun, Run
<1>4. kind # "campaign"
  BY <1>1, Parts DEF Separate
<1>5. TypeOK'
  BY <1>1, <1>2, Parts DEF TypeOK, world, campaign
<1>6. Separate' /\ OneReminder' /\ CampaignOnce' /\ ConfirmedStarts' /\ ByTheBot'
  BY <1>1, <1>3, <1>4, Parts, OfCampaignsNext DEF Separate, OneReminder, ByTheBot, world,
     campaign
<1>7. KeyHeld'
  BY <1>1, <1>2, <1>3, Parts, KeyKept DEF world, Run
<1>8. Blocked'
  BY <1>1, <1>2, <1>3, Parts DEF Blocked, world
<1>9. OnTheWay'
  BY <1>1, <1>2, <1>3, Parts DEF OnTheWay, Without, world
<1> QED
  BY <1>5, <1>6, <1>7, <1>8, <1>9 DEF IInv

LEMMA TakeKeyInv == ASSUME MassConstants, IInv, NEW r \in Runs, TakeKey(r) PROVE IInv'
<1> DEFINE all == Everyone(run[r].already)
<1>1. /\ run[r].pc = "registered" /\ run[r].todo = {} /\ MayGoOn(r) /\ ~Idle(r) /\ run[r] \in Run
      /\ UNCHANGED <<campaign, world, due, tries, got, tried>>
      /\ kind # "campaign" /\ all \subseteq Users /\ run[r].already \subseteq Users
  <2>1. run[r].pc = "registered" /\ run[r] \in Run /\ ~Idle(r)
    BY Parts, Runners DEF TakeKey
  <2> QED
    BY <2>1, Parts DEF TakeKey, Separate, Everyone, Run
<1>2. /\ mishaps \subseteq mishaps' /\ mishaps' \subseteq mishaps \cup {"no key"}
      /\ key' \in BOOLEAN
      /\ "no key" \notin mishaps' => ~key /\ key'
  BY <1>1, Parts DEF MayGoOn, TypeOK
<1>3. /\ CampaignOnce' /\ ConfirmedStarts' /\ ByTheBot' /\ UNCHANGED kind
  BY <1>1, Parts, OfCampaignsNext DEF ByTheBot, world, campaign
<1>4. CASE run' = [run EXCEPT ![r] = Begun("all", all, {})] /\ UNCHANGED job
  <2> DEFINE x == Begun("all", all, {})
  <2>1. x \in Run /\ x.pc = "all" /\ x.todo = all /\ x.gone = {}
    BY <1>1, Begins DEF Begun
  <2> HIDE DEF x
  <2>2. /\ run'[r] = x /\ (\A q \in Runs : q # r => run'[q] = run[q])
        /\ run' \in [Runs -> Run \cup {NoRun}]
    BY <1>4, <2>1, Parts DEF TypeOK, x
  <2>3. \A q \in Runs : Idle(q)' <=> Idle(q)
    BY <1>1, <2>1, <2>2 DEF Idle, NoRun
  <2>4. TypeOK'
    BY <1>1, <1>2, <1>4, <2>2, Parts DEF TypeOK, world, campaign
  <2>5. Separate' /\ OneReminder'
    BY <1>1, <1>4, <2>3, Parts DEF Separate, OneReminder, world, campaign
  <2>6. KeyHeld'
    <3>1. SUFFICES ASSUME "no key" \notin mishaps' PROVE KeyHeld'
      BY DEF KeyHeld, Without
    <3>2. /\ ~key /\ key' /\ (\A u \in Users : got[u] = 0)
          /\ \A q \in Runs : run[q].pc # "all"
      BY <1>1, <1>2, <3>1, Parts DEF KeyHeld, Without
    <3>3. \A q \in Runs : run'[q].pc = "all" => q = r
      BY <2>2, <3>2
    <3>4. \A u \in Users : got'[u] = 0 /\ got'[u] <= 1
      BY <1>1, <3>2
    <3> QED
      BY <1>1, <2>1, <2>2, <3>2, <3>3, <3>4 DEF KeyHeld
  <2>7. Blocked'
    BY <1>1, <2>1, <2>2, <2>3, Parts DEF Blocked, world
  <2>8. OnTheWay'
    <3>1. SUFFICES ASSUME kind = "reminder",
                          Without({"failed", "crash", "rescheduled", "hidden"})
                   PROVE  OnTheWay'
      BY <1>1, <1>2 DEF OnTheWay, Without, world
    <3>2. /\ event = "published" /\ job = "running" /\ run[r].already \subseteq tried
          /\ \A q \in Runs : ~Idle(q) => q = r
      BY <1>1, <3>1, Parts DEF OnTheWay, OneReminder
    <3>3. \A q \in Runs : q # r => run'[q].pc = "none"
      BY <2>2, <3>2, Parts, Runners
    <3>4. Users \ changed \subseteq all \cup tried
      BY <3>1, <3>2, Parts DEF Blocked, Everyone
    <3> QED
      BY <1>1, <1>4, <2>1, <2>2, <2>3, <3>1, <3>2, <3>3, <3>4 DEF OnTheWay, world
  <2> QED
    BY <1>3, <2>4, <2>5, <2>6, <2>7, <2>8 DEF IInv
<1>5. CASE kind = "digest" /\ Close(r)
  <2>1. /\ run' = [run EXCEPT ![r] = NoRun] /\ UNCHANGED job
    BY <1>5 DEF Close
  <2>2. /\ run'[r] = NoRun /\ (\A q \in Runs : q # r => run'[q] = run[q])
        /\ run' \in [Runs -> Run \cup {NoRun}]
    BY <2>1, Parts DEF TypeOK
  <2>3. TypeOK'
    BY <1>1, <1>2, <2>1, <2>2, Parts DEF TypeOK, world, campaign
  <2>4. Separate' /\ OneReminder' /\ OnTheWay'
    BY <1>1, <1>3, <1>5, Parts, OfCampaignsNext DEF Separate, world, campaign
  <2>5. KeyHeld'
    <3>1. SUFFICES ASSUME "no key" \notin mishaps' PROVE KeyHeld'
      BY DEF KeyHeld, Without
    <3>2. /\ key' /\ (\A u \in Users : got[u] = 0)
          /\ \A q \in Runs : run[q].pc # "all"
      BY <1>1, <1>2, <3>1, Parts DEF KeyHeld, Without
    <3>3. \A q \in Runs : run'[q].pc # "all"
      BY <2>2, <3>2 DEF NoRun
    <3>4. \A u \in Users : got'[u] = 0 /\ got'[u] <= 1
      BY <1>1, <3>2
    <3> QED
      BY <3>2, <3>3, <3>4 DEF KeyHeld
  <2>6. Blocked'
    BY <1>1, <2>2, Parts DEF Blocked, Idle, world
  <2> QED
    BY <1>3, <2>3, <2>4, <2>5, <2>6 DEF IInv
<1> QED
  BY <1>4, <1>5 DEF TakeKey

LEMMA NothingToSayInv == ASSUME MassConstants, IInv, NEW r \in Runs, NothingToSay(r) PROVE IInv'
<1>1. /\ run[r].pc = "registered" /\ run[r].todo = {} /\ ~Idle(r) /\ run[r] \in Run
      /\ kind # "digest" => event # "published" \/ key
      /\ run' = [run EXCEPT ![r] = NoRun] /\ job' = IF kind = "reminder" THEN "done" ELSE job
      /\ UNCHANGED <<campaign, world, key, due, tries, got, tried, mishaps>>
      /\ kind # "campaign"
  <2>1. run[r].pc = "registered" /\ run[r] \in Run /\ ~Idle(r)
    BY Parts, Runners DEF NothingToSay
  <2> QED
    BY <2>1, Parts DEF NothingToSay, Separate, Close
<1>2. /\ run'[r] = NoRun /\ NoRun.pc = "none" /\ (\A q \in Runs : q # r => run'[q] = run[q])
      /\ run' \in [Runs -> Run \cup {NoRun}]
  BY <1>1, Parts DEF TypeOK, NoRun
<1>3. TypeOK'
  BY <1>1, <1>2, Parts DEF TypeOK, world, campaign
<1>4. Separate' /\ CampaignOnce' /\ ConfirmedStarts' /\ ByTheBot'
  BY <1>1, Parts, OfCampaignsNext DEF Separate, ByTheBot, world, campaign
<1>5. OneReminder'
  BY <1>1, <1>2, Parts DEF OneReminder, Idle, world
<1>6. KeyHeld'
  BY <1>1, <1>2, Parts, KeyKept DEF world
<1>7. Blocked'
  BY <1>1, <1>2, Parts DEF Blocked, Idle, world
<1>8. OnTheWay'
  <2>1. SUFFICES ASSUME kind = "reminder",
                        Without({"failed", "crash", "rescheduled", "hidden"})
                 PROVE  OnTheWay'
    BY <1>1 DEF OnTheWay, Without, world
  <2>2. FALSE
    BY <1>1, <2>1, Parts DEF OnTheWay
  <2> QED
    BY <2>2
<1> QED
  BY <1>3, <1>4, <1>5, <1>6, <1>7, <1>8 DEF IInv

\* What a message changes, whether or not it ends a batch.
LEMMA SendStep ==
    ASSUME MassConstants, IInv, NEW r \in Runs, NEW u \in Users, Send(r, u)
    PROVE  /\ run[r].pc = "all" /\ u \in run[r].todo /\ tried' = tried \cup {u}
           /\ run[r] \in Run /\ ~Idle(r)
           /\ UNCHANGED <<kind, event, regs, changed, admin, via, listed, key, due, job, tries,
                          mishaps>>
           /\ run'[r] \in Run /\ run'[r].pc = "all" /\ run'[r].todo = run[r].todo \ {u}
           /\ run'[r].gone \subseteq run[r].gone \cup {u}
           /\ \A q \in Runs : q # r => run'[q] = run[q]
           /\ run' \in [Runs -> Run \cup {NoRun}]
           /\ rows \cup run[r].rows \subseteq rows' \cup run'[r].rows
           /\ kind = "campaign" => u \in rows' \cup run'[r].rows
           /\ rows \subseteq rows' /\ rows' \subseteq Users
           /\ user' \in [Users -> {"on", "muted", "blocked"}]
           /\ \A w \in Users : user'[w] = user[w] \/ w \in run[r].gone \cup {u}
           /\ status' \in {status, "running"}
           /\ got' = got \/ got' = [got EXCEPT ![u] = @ + 1]
<1>1. /\ run[r].pc = "all" /\ u \in run[r].todo /\ tried' = tried \cup {u}
      /\ run[r] \in Run /\ ~Idle(r)
      /\ UNCHANGED <<kind, event, regs, changed, admin, via, listed, key, due, job, tries,
                     mishaps>>
  <2>1. run[r].pc = "all"
    BY DEF Send
  <2> QED
    BY <2>1, Parts, Runners DEF Send
<1>2. PICK reaches \in BOOLEAN, gone \in {{}, {u}} :
          LET x == [run[r] EXCEPT !.todo = @ \ {u}, !.gone = @ \cup gone,
                                  !.rows = IF kind = "campaign" THEN @ \cup {u} ELSE @]
          IN /\ reaches => gone = {} /\ user[u] # "blocked"
             /\ got' = IF reaches THEN [got EXCEPT ![u] = @ + 1] ELSE got
             /\ IF x.since + 1 = Batch
                THEN /\ Committed(r, x)
                     /\ status' = IF x.status = "running" THEN "running" ELSE status
                ELSE /\ run' = [run EXCEPT ![r] = [x EXCEPT !.since = @ + 1]]
                     /\ UNCHANGED <<user, rows, status>>
  BY DEF Send
<1> DEFINE x == [run[r] EXCEPT !.todo = @ \ {u}, !.gone = @ \cup gone,
                               !.rows = IF kind = "campaign" THEN @ \cup {u} ELSE @]
<1>3. /\ x \in Run /\ x.pc = "all" /\ x.todo = run[r].todo \ {u}
      /\ x.gone = run[r].gone \cup gone /\ gone \subseteq {u}
      /\ x.rows = IF kind = "campaign" THEN run[r].rows \cup {u} ELSE run[r].rows
  BY <1>1 DEF Run
<1>4. got' = got \/ got' = [got EXCEPT ![u] = @ + 1]
  BY <1>2
<1>5. /\ user \in [Users -> {"on", "muted", "blocked"}] /\ rows \subseteq Users
      /\ run \in [Runs -> Run \cup {NoRun}]
  BY Parts DEF TypeOK
<1>6. CASE x.since + 1 = Batch
  <2>1. Committed(r, x) /\ status' = IF x.status = "running" THEN "running" ELSE status
    BY <1>2, <1>6
  <2> HIDE DEF x
  <2> DEFINE y == [x EXCEPT !.rows = {}, !.gone = {}, !.status = "same", !.since = 0]
  <2>2. y \in Run /\ y.pc = "all" /\ y.todo = x.todo /\ y.gone = {}
    <3>1. 0 \in 0..(Batch - 1)
      BY DEF MassConstants
    <3>2. y \in Run
      BY <1>3, <3>1 DEF Run
    <3> QED
      BY <1>3, <3>2 DEF Run
  <2>3. /\ user' = [w \in Users |-> IF w \in x.gone THEN "blocked" ELSE user[w]]
        /\ rows' = rows \cup x.rows /\ run' = [run EXCEPT ![r] = y]
    BY <2>1 DEF Committed
  <2> HIDE DEF y
  <2>4. x.rows \subseteq Users
    BY <1>3 DEF Run
  <2> QED
    BY <1>1, <1>3, <1>4, <1>5, <2>1, <2>2, <2>3, <2>4
<1>7. CASE x.since + 1 # Batch
  <2>1. /\ run' = [run EXCEPT ![r] = [x EXCEPT !.since = @ + 1]]
        /\ UNCHANGED <<user, rows, status>>
    BY <1>2, <1>7
  <2> HIDE DEF x
  <2> DEFINE y == [x EXCEPT !.since = @ + 1]
  <2>2. y \in Run /\ y.pc = "all" /\ y.todo = x.todo /\ y.gone = x.gone /\ y.rows = x.rows
    BY <1>3, <1>7 DEF Run, MassConstants
  <2>3. run' = [run EXCEPT ![r] = y]
    BY <2>1
  <2> HIDE DEF y
  <2> QED
    BY <1>1, <1>3, <1>4, <1>5, <2>1, <2>2, <2>3
<1> QED
  BY <1>6, <1>7

LEMMA SendInv == ASSUME MassConstants, IInv, NEW r \in Runs, NEW u \in Users, Send(r, u)
                 PROVE  IInv'
<1>1. /\ run[r].pc = "all" /\ u \in run[r].todo /\ tried' = tried \cup {u}
      /\ run[r] \in Run /\ ~Idle(r)
      /\ UNCHANGED <<kind, event, regs, changed, admin, via, listed, key, due, job, tries,
                     mishaps>>
  BY SendStep
<1>2. /\ run'[r] \in Run /\ run'[r].pc = "all" /\ run'[r].todo = run[r].todo \ {u}
      /\ run'[r].gone \subseteq run[r].gone \cup {u}
      /\ \A q \in Runs : q # r => run'[q] = run[q]
      /\ run' \in [Runs -> Run \cup {NoRun}]
  BY SendStep
<1>3. /\ rows \cup run[r].rows \subseteq rows' \cup run'[r].rows
      /\ kind = "campaign" => u \in rows' \cup run'[r].rows
      /\ rows \subseteq rows' /\ rows' \subseteq Users
      /\ status' \in {status, "running"}
  BY SendStep
<1>4. /\ user' \in [Users -> {"on", "muted", "blocked"}]
      /\ \A w \in Users : user'[w] = user[w] \/ w \in run[r].gone \cup {u}
  BY SendStep
<1>5. \A q \in Runs : (Idle(q)' <=> Idle(q)) /\ run'[q].pc = run[q].pc
  BY <1>1, <1>2 DEF Idle, NoRun
<1>6. /\ got \in [Users -> Nat] /\ got' \in [Users -> Nat]
      /\ \A w \in Users : w # u => got'[w] = got[w]
      /\ got[u] = 0 => got'[u] <= 1
  <2>1. got \in [Users -> Nat]
    BY Parts DEF TypeOK
  <2> QED
    BY <2>1, SendStep
<1>7. TypeOK'
  <2>1. status' \in {"draft", "scheduled", "running", "paused", "done"} /\ tried' \subseteq Users
    BY <1>1, <1>3, Parts DEF TypeOK
  <2> QED
    BY <1>1, <1>2, <1>3, <1>4, <1>6, <2>1, Parts DEF TypeOK
<1>8. Separate' /\ OneReminder' /\ ByTheBot'
  BY <1>1, <1>5, Parts DEF Separate, OneReminder, ByTheBot
<1>9. KeyHeld'
  <2>1. SUFFICES ASSUME kind # "campaign", "no key" \notin mishaps PROVE KeyHeld'
    BY <1>1 DEF KeyHeld, Without
  <2>2. /\ key /\ (\A q \in Runs : run[q].pc = "all" => q = r)
        /\ (\A w \in run[r].todo : got[w] = 0) /\ \A w \in Users : got[w] <= 1
    BY <1>1, <2>1, Parts DEF KeyHeld, Without
  <2>3. \A w \in Users : got'[w] <= 1
    BY <1>1, <1>6, <2>2
  <2>4. \A w \in run'[r].todo : got'[w] = 0
    BY <1>1, <1>2, <1>6, <2>2 DEF Run
  <2> QED
    BY <1>1, <1>5, <2>2, <2>3, <2>4 DEF KeyHeld
<1>10. CampaignOnce' /\ ConfirmedStarts'
  <2>1. ConfirmedStarts'
    BY <1>1, <1>5 DEF ConfirmedStarts, Idle
  <2>2. SUFFICES ASSUME kind = "campaign", "both" \notin mishaps PROVE CampaignOnce'
    BY <1>1, <2>1 DEF CampaignOnce, Without
  <2>3. /\ \A q \in Runs : ~Idle(q) => q = r
        /\ (\A w \in run[r].todo : got[w] = 0) /\ \A w \in Users : got[w] <= 1
        /\ listed \subseteq run[r].todo \cup run[r].rows \cup rows
        /\ \A a \in Admins : admin[a] = "none"
        /\ status \notin {"draft", "done"} /\ due = 0
    <3>1. due \in Nat
      BY Counters
    <3> QED
      BY <1>1, <2>2, <3>1, Parts DEF CampaignOnce, Without
  <2>4. \A w \in Users : got'[w] <= 1
    BY <1>1, <1>6, <2>3
  <2>5. \A w \in run'[r].todo : got'[w] = 0
    BY <1>1, <1>2, <1>6, <2>3 DEF Run
  <2>6. listed \subseteq run'[r].todo \cup run'[r].rows \cup rows'
    BY <1>2, <1>3, <2>2, <2>3
  <2>7. status' \notin {"draft", "done"}
    BY <1>3, <2>3
  <2> QED
    BY <1>1, <1>5, <2>3, <2>4, <2>5, <2>6, <2>7 DEF CampaignOnce
<1>11. Blocked'
  BY <1>1, <1>2, <1>4, <1>5, Parts DEF Blocked
<1>12. OnTheWay'
  <2>1. SUFFICES ASSUME kind = "reminder",
                        Without({"failed", "crash", "rescheduled", "hidden"})
                 PROVE  OnTheWay'
    BY <1>1 DEF OnTheWay, Without
  <2>2. /\ event = "published" /\ job = "running" /\ \A q \in Runs : ~Idle(q) => q = r
        /\ Users \ changed \subseteq run[r].todo \cup tried
    BY <1>1, <2>1, Parts DEF OnTheWay, OneReminder
  <2>3. \A q \in Runs : q # r => run'[q].pc = "none"
    BY <1>2, <2>2, Parts, Runners
  <2> QED
    BY <1>1, <1>2, <1>5, <2>2, <2>3 DEF OnTheWay
<1> QED
  BY <1>7, <1>8, <1>9, <1>10, <1>11, <1>12 DEF IInv

LEMMA EndInv == ASSUME MassConstants, IInv, NEW r \in Runs, End(r) PROVE IInv'
<1>1. /\ run[r].pc = "all" /\ run[r].todo = {} /\ run[r] \in Run /\ ~Idle(r)
      /\ run[r].gone \subseteq Users /\ run[r].rows \subseteq Users
  <2>1. run[r].pc = "all"
    BY DEF End
  <2>2. run[r] \in Run
    BY <2>1, Parts, Runners
  <2> QED
    BY <2>1, <2>2 DEF End, Idle, NoRun, Run
<1>2. /\ user' = [w \in Users |-> IF w \in run[r].gone THEN "blocked" ELSE user[w]]
      /\ rows' = rows \cup run[r].rows
      /\ run' = [run EXCEPT ![r] = NoRun] /\ job' = IF kind = "reminder" THEN "done" ELSE job
      /\ status' = IF kind = "campaign" THEN "done" ELSE status
      /\ UNCHANGED <<kind, event, regs, changed, admin, via, listed, key, due, tries, got, tried,
                     mishaps>>
  BY DEF End, Close
<1>3. /\ run'[r] = NoRun /\ NoRun.pc = "none" /\ (\A q \in Runs : q # r => run'[q] = run[q])
      /\ run' \in [Runs -> Run \cup {NoRun}]
  BY <1>2, Parts DEF TypeOK, NoRun
<1>4. TypeOK'
  <2>1. user' \in [Users -> {"on", "muted", "blocked"}] /\ rows' \subseteq Users
    BY <1>1, <1>2, Parts DEF TypeOK
  <2>2. /\ status' \in {"draft", "scheduled", "running", "paused", "done"}
        /\ job' \in {"pending", "running", "done", "failed"}
    BY <1>2, Parts DEF TypeOK
  <2> QED
    BY <1>2, <1>3, <2>1, <2>2, Parts DEF TypeOK
<1>5. Separate' /\ OneReminder' /\ ByTheBot'
  BY <1>1, <1>2, <1>3, Parts DEF Separate, OneReminder, ByTheBot, Idle
<1>6. KeyHeld'
  BY <1>2, <1>3, Parts, KeyKept
<1>7. CampaignOnce' /\ ConfirmedStarts'
  <2>1. ConfirmedStarts'
    BY <1>2 DEF ConfirmedStarts
  <2>2. SUFFICES ASSUME kind = "campaign", "both" \notin mishaps PROVE CampaignOnce'
    BY <1>2, <2>1 DEF CampaignOnce, Without
  <2>3. /\ \A q \in Runs : ~Idle(q) => q = r
        /\ \A w \in Users : got[w] <= 1
        /\ listed \subseteq run[r].rows \cup rows
        /\ \A a \in Admins : admin[a] = "none"
        /\ due = 0
    <3>1. due \in Nat
      BY Counters
    <3> QED
      BY <1>1, <2>2, <3>1, Parts DEF CampaignOnce, Without
  <2>4. \A q \in Runs : Idle(q)'
    BY <1>3, <2>3 DEF Idle
  <2> QED
    BY <1>2, <2>2, <2>3, <2>4 DEF CampaignOnce
<1>8. Blocked'
  BY <1>1, <1>2, <1>3, Parts DEF Blocked, Idle
<1>9. OnTheWay'
  <2>1. SUFFICES ASSUME kind = "reminder",
                        Without({"failed", "crash", "rescheduled", "hidden"})
                 PROVE  OnTheWay'
    BY <1>2 DEF OnTheWay, Without
  <2>2. /\ event = "published" /\ \A q \in Runs : ~Idle(q) => q = r
        /\ Users \ changed \subseteq tried
    BY <1>1, <2>1, Parts DEF OnTheWay, OneReminder
  <2>3. \A q \in Runs : run'[q].pc = "none"
    BY <1>3, <2>2, Parts, Runners
  <2> QED
    BY <1>2, <2>1, <2>2, <2>3 DEF OnTheWay
<1> QED
  BY <1>4, <1>5, <1>6, <1>7, <1>8, <1>9 DEF IInv

LEMMA FailInv == ASSUME MassConstants, IInv, NEW r \in Runs, Fail(r) PROVE IInv'
<1>1. /\ ~Idle(r) /\ run' = [run EXCEPT ![r] = NoRun] /\ mishaps' = mishaps \cup {"failed"}
      /\ UNCHANGED <<campaign, world, key, tries, got, tried>>
      /\ kind # "reminder" => UNCHANGED <<due, job>>
  BY DEF Fail, Idle
<1>2. /\ run'[r] = NoRun /\ NoRun.pc = "none" /\ (\A q \in Runs : q # r => run'[q] = run[q])
      /\ run' \in [Runs -> Run \cup {NoRun}]
  BY <1>1, Parts DEF TypeOK, NoRun
<1>3. /\ due \in 0..MaxDue /\ MaxDue \in Nat /\ MaxDue # 0 /\ tries \in Nat /\ MaxTries \in Nat
      /\ job \in {"pending", "running", "done", "failed"}
  BY Parts, Counters DEF TypeOK
<1>4. kind = "reminder" =>
          /\ due = 0 /\ \A q \in Runs : Idle(q)'
          /\ \/ tries < MaxTries /\ due' = 1 /\ job' = "pending"
             \/ due' = 0 /\ job' = "failed"
  <2>1. SUFFICES ASSUME kind = "reminder"
                 PROVE  /\ due = 0 /\ \A q \in Runs : Idle(q)'
                        /\ \/ tries < MaxTries /\ due' = 1 /\ job' = "pending"
                           \/ due' = 0 /\ job' = "failed"
    OBVIOUS
  <2>2. due = 0 /\ \A q \in Runs : ~Idle(q) => q = r
    BY <1>1, <2>1, Parts DEF OneReminder
  <2>3. \A q \in Runs : Idle(q)'
    BY <1>2, <2>2 DEF Idle
  <2> QED
    BY <1>3, <2>1, <2>2, <2>3 DEF Fail
<1>5. TypeOK'
  <2>1. due' \in 0..MaxDue /\ job' \in {"pending", "running", "done", "failed"}
    BY <1>1, <1>3, <1>4
  <2>2. mishaps' \subseteq
            {"both", "starved", "no key", "failed", "crash", "rescheduled", "hidden"}
    BY <1>1, Parts DEF TypeOK
  <2> QED
    BY <1>1, <1>2, <2>1, <2>2, Parts DEF TypeOK, world, campaign
<1>6. Separate' /\ ByTheBot'
  BY <1>1, <1>2, Parts DEF Separate, ByTheBot, world, campaign
<1>7. OneReminder'
  BY <1>1, <1>4 DEF OneReminder, world
<1>8. KeyHeld'
  BY <1>1, <1>2, Parts, KeyKept DEF world
<1>9. CampaignOnce'
  <2>1. SUFFICES ASSUME kind = "campaign", "both" \notin mishaps PROVE CampaignOnce'
    BY <1>1 DEF CampaignOnce, Without, world
  <2>2. /\ \A q \in Runs : ~Idle(q) => q = r
        /\ \A w \in Users : got[w] <= 1
        /\ \A a \in Admins : admin[a] = "none"
        /\ status \notin {"draft", "done"} /\ due = 0
    BY <1>1, <1>3, <2>1, Parts DEF CampaignOnce, Without
  <2>3. \A q \in Runs : Idle(q)'
    BY <1>2, <2>2 DEF Idle
  <2> QED
    BY <1>1, <2>1, <2>2, <2>3 DEF CampaignOnce, world, campaign
<1>10. ConfirmedStarts' /\ OnTheWay'
  BY <1>1 DEF ConfirmedStarts, OnTheWay, Without
<1>11. Blocked'
  BY <1>1, <1>2, Parts DEF Blocked, Idle, world
<1> QED
  BY <1>5, <1>6, <1>7, <1>8, <1>9, <1>10, <1>11 DEF IInv

-----------------------------------------------------------------------------
(* Around the runs                                                         *)

\* Steps that leave the campaign, its admins and the runs alone.
LEMMA Aside ==
    ASSUME MassConstants, IInv, UNCHANGED <<kind, campaign, run, got, tried>>,
           mishaps \subseteq mishaps'
    PROVE  /\ Separate' /\ ByTheBot'
           /\ \A r \in Runs : Idle(r)' <=> Idle(r)
           /\ UNCHANGED key => KeyHeld'
           /\ UNCHANGED due => CampaignOnce' /\ ConfirmedStarts'
<1>1. Separate' /\ ByTheBot' /\ \A r \in Runs : Idle(r)' <=> Idle(r)
  BY Parts DEF Separate, ByTheBot, Idle, campaign
<1>2. UNCHANGED key => KeyHeld'
  BY Parts, KeyKept
<1>3. UNCHANGED due => CampaignOnce'
  <2>1. SUFFICES ASSUME UNCHANGED due, kind = "campaign", "both" \notin mishaps
                 PROVE  CampaignOnce'
    BY DEF CampaignOnce, Without
  <2> QED
    BY <2>1, Parts DEF CampaignOnce, Without, Idle, Untold, campaign
<1>4. UNCHANGED due => ConfirmedStarts'
  <2>1. SUFFICES ASSUME UNCHANGED due, Without({"starved", "failed", "crash", "both"})
                 PROVE  ConfirmedStarts'
    BY DEF ConfirmedStarts, Without
  <2> QED
    BY <2>1, Parts DEF ConfirmedStarts, campaign
<1> QED
  BY <1>1, <1>2, <1>3, <1>4

LEMMA StarveInv == ASSUME MassConstants, IInv, Starve PROVE IInv'
<1>1. /\ kind # "reminder" /\ due > 0 /\ due' = due - 1 /\ mishaps' = mishaps \cup {"starved"}
      /\ UNCHANGED <<campaign, world, key, job, tries, sending>>
  BY DEF Starve
<1>2. Separate' /\ ByTheBot' /\ KeyHeld' /\ \A r \in Runs : Idle(r)' <=> Idle(r)
  BY <1>1, Aside DEF world, sending
<1>3. TypeOK'
  <2>1. due' \in 0..MaxDue
    BY <1>1, Counters
  <2>2. mishaps' \subseteq
            {"both", "starved", "no key", "failed", "crash", "rescheduled", "hidden"}
    BY <1>1, Parts DEF TypeOK
  <2> QED
    BY <1>1, <2>1, <2>2, Parts DEF TypeOK, world, campaign, sending
<1>4. CampaignOnce'
  <2>1. SUFFICES ASSUME kind = "campaign", "both" \notin mishaps PROVE CampaignOnce'
    BY <1>1 DEF CampaignOnce, Without, world
  <2>2. due = 1 /\ due' = 0
    BY <1>1, <2>1, Parts DEF CampaignOnce, Without
  <2> QED
    BY <1>1, <1>2, <2>1, <2>2, Parts
    DEF CampaignOnce, Without, Untold, campaign, sending, world
<1>5. OneReminder' /\ OnTheWay' /\ ConfirmedStarts'
  BY <1>1, OfCampaignsNext DEF ConfirmedStarts, Without, world
<1>6. Blocked'
  BY <1>1, <1>2, Parts DEF Blocked, world, sending
<1> QED
  BY <1>2, <1>3, <1>4, <1>5, <1>6 DEF IInv

LEMMA CrashInv == ASSUME MassConstants, IInv, Crash PROVE IInv'
<1>1. /\ run' = [r \in Runs |-> NoRun] /\ admin' = [a \in Admins |-> "none"]
      /\ due' = IF kind = "reminder" THEN due ELSE 0
      /\ mishaps' = mishaps \cup {"crash"}
      /\ UNCHANGED <<status, via, rows, listed, world, key, job, tries, got, tried>>
  BY DEF Crash
<1>2. \A r \in Runs : run'[r].pc = "none" /\ Idle(r)'
  BY <1>1 DEF Idle, NoRun
<1>3. TypeOK'
  <2>1. due' \in 0..MaxDue
    BY <1>1, Counters
  <2>2. mishaps' \subseteq
            {"both", "starved", "no key", "failed", "crash", "rescheduled", "hidden"}
    BY <1>1, Parts DEF TypeOK
  <2> QED
    BY <1>1, <2>1, <2>2, Parts DEF TypeOK, world
<1>4. Separate' /\ ByTheBot'
  BY <1>1, <1>2 DEF Separate, ByTheBot
<1>5. KeyHeld'
  BY <1>1, <1>2, Parts, KeyKept DEF world
<1>6. CampaignOnce'
  <2>1. SUFFICES ASSUME kind = "campaign", "both" \notin mishaps PROVE CampaignOnce'
    BY <1>1 DEF CampaignOnce, Without, world
  <2>2. /\ \A u \in Users : got[u] <= 1
        /\ status = "draft" => Untold
        /\ status = "done" => listed \subseteq rows
    BY <2>1, Parts DEF CampaignOnce, Without
  <2> QED
    BY <1>1, <1>2, <2>1, <2>2 DEF CampaignOnce, Untold, world
<1>7. OneReminder'
  BY <1>1, <1>2, Parts DEF OneReminder, world
<1>8. ConfirmedStarts' /\ OnTheWay'
  BY <1>1 DEF ConfirmedStarts, OnTheWay, Without
<1>9. Blocked'
  BY <1>1, <1>2, Parts DEF Blocked, world
<1> QED
  BY <1>3, <1>4, <1>5, <1>6, <1>7, <1>8, <1>9 DEF IInv

LEMMA AskAgainInv == ASSUME MassConstants, IInv, AskAgain PROVE IInv'
<1>1. /\ kind \in {"announcement", "digest"} /\ due < MaxDue /\ due' = due + 1
      /\ UNCHANGED <<campaign, world, key, job, tries, sending, mishaps>>
  BY DEF AskAgain, Spawned
<1>2. Separate' /\ ByTheBot' /\ KeyHeld' /\ \A r \in Runs : Idle(r)' <=> Idle(r)
  BY <1>1, Aside DEF world, sending
<1>3. TypeOK'
  <2>1. due' \in 0..MaxDue
    BY <1>1, Counters
  <2> QED
    BY <1>1, <2>1, Parts DEF TypeOK, world, campaign, sending
<1>4. CampaignOnce' /\ ConfirmedStarts' /\ OneReminder' /\ OnTheWay'
  BY <1>1, OfCampaignsNext DEF world
<1>5. Blocked'
  BY <1>1, <1>2, Parts DEF Blocked, world, sending
<1> QED
  BY <1>2, <1>3, <1>4, <1>5 DEF IInv

LEMMA RescheduleInv == ASSUME MassConstants, IInv, Reschedule PROVE IInv'
<1>1. /\ kind = "reminder" /\ job # "running"
      /\ due' = 1 /\ job' = "pending" /\ tries' = 0
      /\ mishaps' = mishaps \cup {"rescheduled"}
      /\ UNCHANGED <<campaign, world, key, sending>>
  BY DEF Reschedule
<1>2. Separate' /\ ByTheBot' /\ KeyHeld' /\ \A r \in Runs : Idle(r)' <=> Idle(r)
  BY <1>1, Aside DEF world, sending
<1>3. TypeOK'
  <2>1. due' \in 0..MaxDue /\ tries' \in 0..MaxTries
    BY <1>1, Counters
  <2>2. mishaps' \subseteq
            {"both", "starved", "no key", "failed", "crash", "rescheduled", "hidden"}
    BY <1>1, Parts DEF TypeOK
  <2> QED
    BY <1>1, <2>1, <2>2, Parts DEF TypeOK, world, campaign, sending
<1>4. OneReminder'
  <2>1. \A r \in Runs : Idle(r)'
    BY <1>1, <1>2, Parts DEF OneReminder
  <2> QED
    BY <1>1, <2>1, Counters DEF OneReminder
<1>5. CampaignOnce' /\ ConfirmedStarts'
  BY <1>1, OfCampaignsNext DEF world
<1>6. OnTheWay'
  BY <1>1 DEF OnTheWay, Without
<1>7. Blocked'
  BY <1>1, <1>2, Parts DEF Blocked, world, sending
<1> QED
  BY <1>2, <1>3, <1>4, <1>5, <1>6, <1>7 DEF IInv

LEMMA LoseKeyInv == ASSUME MassConstants, IInv, LoseKey PROVE IInv'
<1>1. /\ key /\ key' = FALSE /\ mishaps' = mishaps \cup {"no key"}
      /\ UNCHANGED <<campaign, world, due, job, tries, sending>>
  BY DEF LoseKey
<1>2. /\ Separate' /\ ByTheBot' /\ CampaignOnce' /\ ConfirmedStarts'
      /\ \A r \in Runs : Idle(r)' <=> Idle(r)
  BY <1>1, Aside DEF world, sending
<1>3. TypeOK'
  <2>1. mishaps' \subseteq
            {"both", "starved", "no key", "failed", "crash", "rescheduled", "hidden"}
    BY <1>1, Parts DEF TypeOK
  <2> QED
    BY <1>1, <2>1, Parts DEF TypeOK, world, campaign, sending
<1>4. KeyHeld'
  BY <1>1 DEF KeyHeld, Without
<1>5. OneReminder'
  BY <1>1, <1>2, Parts DEF OneReminder, world
<1>6. OnTheWay'
  <2>1. SUFFICES ASSUME kind = "reminder",
                        Without({"failed", "crash", "rescheduled", "hidden"})
                 PROVE  OnTheWay'
    BY <1>1 DEF OnTheWay, Without, world
  <2> QED
    BY <1>1, <1>2, <2>1, Parts DEF OnTheWay, world, sending
<1>7. Blocked'
  BY <1>1, <1>2, Parts DEF Blocked, world, sending
<1> QED
  BY <1>2, <1>3, <1>4, <1>5, <1>6, <1>7 DEF IInv

LEMMA ChangeEventInv == ASSUME MassConstants, IInv, NEW e \in {"published", "hidden", "over"},
                               ChangeEvent(e) PROVE IInv'
<1>1. /\ event' = e /\ mishaps' = mishaps \cup {"hidden"}
      /\ UNCHANGED <<campaign, kind, user, regs, changed, key, due, job, tries, sending>>
  BY DEF ChangeEvent
<1>2. /\ Separate' /\ ByTheBot' /\ CampaignOnce' /\ ConfirmedStarts' /\ KeyHeld'
      /\ \A r \in Runs : Idle(r)' <=> Idle(r)
  BY <1>1, Aside DEF sending
<1>3. TypeOK'
  <2>1. mishaps' \subseteq
            {"both", "starved", "no key", "failed", "crash", "rescheduled", "hidden"}
    BY <1>1, Parts DEF TypeOK
  <2> QED
    BY <1>1, <2>1, Parts DEF TypeOK, campaign, sending
<1>4. OneReminder' /\ Blocked'
  BY <1>1, <1>2, Parts DEF OneReminder, Blocked, sending
<1>5. OnTheWay'
  BY <1>1 DEF OnTheWay, Without
<1> QED
  BY <1>2, <1>3, <1>4, <1>5 DEF IInv

\* ChangeUser and ChangeSeat: somebody changes.
LEMMA ChangeInv ==
    ASSUME MassConstants, IInv, NEW u \in Users, ChangeUser(u) \/ ChangeSeat(u) PROVE IInv'
<1>1. /\ changed' = changed \cup {u} /\ \A w \in Users : w # u => user'[w] = user[w]
      /\ user' \in [Users -> {"on", "muted", "blocked"}] /\ regs' \subseteq Users
      /\ UNCHANGED <<campaign, kind, event, key, due, job, tries, sending, mishaps>>
  BY Parts DEF ChangeUser, ChangeSeat, TypeOK
<1>2. /\ Separate' /\ ByTheBot' /\ CampaignOnce' /\ ConfirmedStarts' /\ KeyHeld'
      /\ \A r \in Runs : Idle(r)' <=> Idle(r)
  BY <1>1, Aside DEF sending
<1>3. TypeOK'
  BY <1>1, Parts DEF TypeOK, campaign, sending
<1>4. OneReminder' /\ Blocked'
  BY <1>1, <1>2, Parts DEF OneReminder, Blocked, sending
<1>5. OnTheWay'
  <2>1. SUFFICES ASSUME kind = "reminder",
                        Without({"failed", "crash", "rescheduled", "hidden"})
                 PROVE  OnTheWay'
    BY <1>1 DEF OnTheWay, Without
  <2> QED
    BY <1>1, <1>2, <2>1, Parts DEF OnTheWay, sending
<1> QED
  BY <1>2, <1>3, <1>4, <1>5 DEF IInv

LEMMA NextInv == ASSUME MassConstants, IInv, [Next]_vars PROVE IInv'
<1>1. CASE UNCHANGED vars
  <2>1. /\ UNCHANGED <<kind, campaign, run, got, tried, key, due, user, changed, event>>
        /\ UNCHANGED <<job, tries, regs, mishaps>>
    BY <1>1 DEF vars, campaign
  <2>2. /\ Separate' /\ ByTheBot' /\ CampaignOnce' /\ ConfirmedStarts' /\ KeyHeld'
        /\ \A r \in Runs : Idle(r)' <=> Idle(r)
    BY <2>1, Aside
  <2>3. TypeOK' /\ OneReminder' /\ Blocked'
    BY <2>1, <2>2, Parts DEF TypeOK, OneReminder, Blocked, campaign
  <2>4. OnTheWay'
    BY <2>1, <2>2, Parts DEF OnTheWay, Without
  <2> QED
    BY <2>2, <2>3, <2>4 DEF IInv
<1>2. ASSUME NEW a \in Admins, Admin(a) PROVE IInv'
  BY <1>2, ConfirmInv, ConfirmApiInv, ConfirmBotInv, ConfirmCommitInv DEF Admin
<1>3. ASSUME NEW r \in Runs, Running(r) PROVE IInv'
  BY <1>3, StartCampaignInv, StartKeyedInv, TakeKeyInv, NothingToSayInv, EndInv, FailInv,
     RemindInv, SendInv DEF Running
<1>4. CASE Around
  BY <1>4, PauseInv, StarveInv, CrashInv, AskAgainInv, RescheduleInv, LoseKeyInv,
     ChangeEventInv, ChangeInv DEF Around
<1> QED
  BY <1>1, <1>2, <1>3, <1>4 DEF Next

-----------------------------------------------------------------------------
(* Theorems                                                                *)

\* Every message to everybody keeps to the invariant, whatever fails, is asked
\* for twice or confirmed by two admins (run_broadcast, _send_reminders).
THEOREM Invariant == ASSUME MassConstants PROVE Spec => []IInv
<1>1. Init => IInv
  BY InitInv
<1>2. IInv /\ [Next]_vars => IInv'
  BY NextInv
<1> QED
  BY <1>1, <1>2, PTL DEF Spec

\* What the parts of the invariant promise.
LEMMA Promises ==
    ASSUME IInv PROVE TypeOK /\ OnlyOnce /\ DoneReachesAll /\ ConfirmedStarts /\ ReminderReaches
<1>1. OnlyOnce
  <2>1. CASE kind = "campaign"
    BY <2>1, Parts DEF OnlyOnce, CampaignOnce, Without
  <2>2. CASE kind # "campaign"
    BY <2>2, Parts DEF OnlyOnce, KeyHeld, Without
  <2> QED
    BY <2>1, <2>2
<1>2. DoneReachesAll
  BY Parts DEF DoneReachesAll, CampaignOnce, Without
<1>3. ReminderReaches
  BY Parts DEF ReminderReaches, OnTheWay
<1> QED
  BY <1>1, <1>2, <1>3, Parts

\* Every variable keeps its type; the counters stay within their bounds.
THEOREM TypeCorrect == ASSUME MassConstants PROVE Spec => []TypeOK
<1>1. IInv => TypeOK
  BY Promises
<1> QED
  BY <1>1, Invariant, PTL

\* Nobody is told twice, unless the key is lost or two admins confirm at once:
\* the status of a campaign and the Redis key are each taken before the list.
THEOREM NobodyTwice == ASSUME MassConstants PROVE Spec => []OnlyOnce
<1>1. IInv => OnlyOnce
  BY Promises
<1> QED
  BY <1>1, Invariant, PTL

\* A campaign that says it is done has a row for everybody on its list.
THEOREM DoneIsDone == ASSUME MassConstants PROVE Spec => []DoneReachesAll
<1>1. IInv => DoneReachesAll
  BY Promises
<1> QED
  BY <1>1, Invariant, PTL

\* A campaign confirmed over the API does not hang between confirmation and run.
THEOREM ConfirmedIsRun == ASSUME MassConstants PROVE Spec => []ConfirmedStarts
<1>1. IInv => ConfirmedStarts
  BY Promises
<1> QED
  BY <1>1, Invariant, PTL

\* A reminder done at the first attempt was tried for everybody who stayed.
THEOREM RemindedAll == ASSUME MassConstants PROVE Spec => []ReminderReaches
<1>1. IInv => ReminderReaches
  BY Promises
<1> QED
  BY <1>1, Invariant, PTL

-----------------------------------------------------------------------------
(***************************************************************************)
(* The purges of Retention                                                 *)
(***************************************************************************)

-----------------------------------------------------------------------------
(* The inductive invariant                                                 *)

\* A session that is to write has what it writes.
PurgeMeant ==
    \A p \in Processes :
        /\ tx[p].does = "reschedule" => tx[p].time \in Purges!Times
        /\ tx[p].does = "enter" => tx[p].version < MaxEntries

\* A purge has an old custom in hand, unless it got another time since.
InHand ==
    \A p \in Processes :
        loop[p].at \in {"picked", "cleared", "deleted"} => ~Purges!There \/ Purges!Old \/ moved

\* Nobody has written what refers to a custom while a purge has deleted it.
Locks == ~(Purges!HeldByHandler /\ Purges!HeldByPurge)

PurgeIInv == Purges!TypeOK /\ Purges!PurgedIsMarked /\ PurgeMeant /\ InHand /\ Locks

-----------------------------------------------------------------------------
(* Types                                                                   *)

LEMMA PurgeShapes ==
    ASSUME Purges!RetentionConstants
    PROVE  /\ Purges!NoRoom \in Purges!Room /\ Purges!NoReport \in Purges!Report
           /\ Purges!Free \in Purges!Loop /\ Purges!NoTx \in Purges!Tx
           /\ Purges!Free.at = "idle"
           /\ Purges!Times \subseteq Nat /\ Never \notin Purges!Times
  BY DEF Purges!RetentionConstants, Purges!NoRoom, Purges!Room, Purges!NoReport, Purges!Report,
         Purges!Free, Purges!Loop, Purges!NoTx, Purges!Tx, Purges!Times

LEMMA PurgeInitInv == ASSUME Purges!RetentionConstants, Purges!Init PROVE PurgeIInv
<1>1. /\ \A p \in Processes : loop[p] = Purges!Free /\ tx[p] = Purges!NoTx
      /\ room = Purges!NoRoom /\ moved = FALSE
  BY DEF Purges!Init
<1>2. Purges!TypeOK
  <2>1. /\ clock \in Purges!Times /\ starts \in Purges!Times \cup {Never}
        /\ failures \in 0..MaxFailures /\ room \in Purges!Room
    BY PurgeShapes DEF Purges!Init, Purges!Times, Purges!RetentionConstants
  <2>2. job \in [status : {"pending", "running", "done", "cancelled", "gone"}, at : Nat]
    BY DEF Purges!Init, Purges!Times, Purges!RetentionConstants
  <2>3. /\ report \in [Reports -> Purges!Report] /\ rows \in [linked : Nat, free : Nat]
        /\ loop \in [Processes -> Purges!Loop] /\ tx \in [Processes -> Purges!Tx]
    BY PurgeShapes DEF Purges!Init
  <2> QED
    BY <1>1, <2>1, <2>2, <2>3 DEF Purges!TypeOK
<1>3. Purges!PurgedIsMarked
  BY <1>1 DEF Purges!PurgedIsMarked, Purges!Provided, Purges!NoRoom
<1>4. PurgeMeant /\ InHand /\ Locks
  BY <1>1 DEF PurgeMeant, InHand, Locks, Purges!HeldByHandler, Purges!NoTx, Purges!Free
<1> QED
  BY <1>2, <1>3, <1>4 DEF PurgeIInv

-----------------------------------------------------------------------------
(* Steps of the loops                                                      *)

\* What a step of a loop has to leave behind.
LEMMA LoopStep ==
    ASSUME Purges!RetentionConstants, PurgeIInv, NEW p \in Processes, NEW l \in Purges!Loop,
           loop' = [loop EXCEPT ![p] = l], UNCHANGED <<clock, tx>>,
           starts' \in {starts, Never}, room' \in Purges!Room, Purges!PurgedIsMarked',
           job' \in [status : {"pending", "running", "done", "cancelled", "gone"}, at : Nat],
           report' \in [Reports -> Purges!Report], rows' \in [linked : Nat, free : Nat],
           failures' \in 0..MaxFailures, moved' = moved,
           l.at \in {"picked", "cleared", "deleted"} => ~Purges!There \/ Purges!Old \/ moved,
           l.at = "deleted" => ~Purges!HeldByHandler
    PROVE  PurgeIInv'
<1>1. loop' \in [Processes -> Purges!Loop] /\ loop'[p] = l
      /\ \A q \in Processes \ {p} : loop'[q] = loop[q]
  BY DEF PurgeIInv, Purges!TypeOK
<1>2. Purges!TypeOK'
  BY <1>1 DEF PurgeIInv, Purges!TypeOK
<1>3. PurgeMeant'
  BY DEF PurgeIInv, PurgeMeant
<1>4. InHand'
  <2>1. ~Purges!There \/ Purges!Old \/ moved => (~Purges!There \/ Purges!Old \/ moved)'
    BY DEF Purges!There, Purges!Old
  <2> QED
    BY <1>1, <2>1 DEF PurgeIInv, InHand
<1>5. Locks'
  BY <1>1 DEF PurgeIInv, Locks, Purges!HeldByHandler, Purges!HeldByPurge, Purges!Refers
<1> QED
  BY <1>2, <1>3, <1>4, <1>5 DEF PurgeIInv

LEMMA PurgeInv ==
    ASSUME Purges!RetentionConstants, PurgeIInv, NEW p \in Processes, Purges!Purge(p)
    PROVE  PurgeIInv'
<1> USE PurgeShapes
<1>1. CASE Purges!Pick(p)
  <2>1. [Purges!Free EXCEPT !.at = "picked"] \in Purges!Loop /\ [Purges!Free EXCEPT !.at = "picked"].at = "picked"
    BY DEF Purges!Loop, Purges!Free
  <2>2. Purges!Old
    BY <1>1 DEF Purges!Pick, Purges!Old
  <2> QED
    BY <1>1, <2>1, <2>2, LoopStep DEF Purges!Pick, Purges!Begins, Purges!tables, PurgeIInv,
                                      Purges!TypeOK, Purges!PurgedIsMarked, Purges!Provided
<1>2. CASE Purges!Clear(p)
  <2> DEFINE l == [loop[p] EXCEPT !.at = "cleared", !.cleared = rows.linked]
  <2>1. l \in Purges!Loop /\ l.at = "cleared"
    BY DEF PurgeIInv, Purges!TypeOK, Purges!Loop
  <2>2. loop' = [loop EXCEPT ![p] = l]
    BY <1>2 DEF Purges!Clear
  <2>3. ~Purges!There \/ Purges!Old \/ moved
    BY <1>2 DEF Purges!Clear, PurgeIInv, InHand
  <2>4. UNCHANGED <<clock, starts, room, job, report, rows, tx, failures, moved>>
    BY <1>2 DEF Purges!Clear, Purges!tables
  <2> HIDE DEF l
  <2> QED
    BY <2>1, <2>2, <2>3, <2>4, LoopStep DEF PurgeIInv, Purges!TypeOK, Purges!PurgedIsMarked,
                                            Purges!Provided
<1>3. CASE Purges!Delete(p)
  <2> DEFINE l == IF rows.linked > loop[p].cleared THEN Purges!Free
                  ELSE [loop[p] EXCEPT !.at = "deleted"]
  <2>1. l \in Purges!Loop
    BY DEF PurgeIInv, Purges!TypeOK, Purges!Loop
  <2>2. loop' = [loop EXCEPT ![p] = l]
    BY <1>3 DEF Purges!Delete
  <2>3. ~Purges!There \/ Purges!Old \/ moved
    BY <1>3 DEF Purges!Delete, PurgeIInv, InHand
  <2>4. ~Purges!HeldByHandler
    BY <1>3 DEF Purges!Delete
  <2>5. UNCHANGED <<clock, starts, room, job, report, rows, tx, failures, moved>>
    BY <1>3 DEF Purges!Delete, Purges!tables
  <2> HIDE DEF l
  <2> QED
    BY <2>1, <2>2, <2>3, <2>4, <2>5, LoopStep DEF PurgeIInv, Purges!TypeOK,
       Purges!PurgedIsMarked,
                                                  Purges!Provided
<1>4. CASE Purges!Gone(p)
  <2>1. job' \in [status : {"pending", "running", "done", "cancelled", "gone"}, at : Nat]
    BY <1>4 DEF Purges!Gone, PurgeIInv, Purges!TypeOK
  <2>4. report' \in [Reports -> Purges!Report]
    <3>1. \A r \in Reports : [report[r] EXCEPT !.linked = FALSE] \in Purges!Report
      BY DEF PurgeIInv, Purges!TypeOK, Purges!Report
    <3> QED
      BY <1>4, <3>1 DEF Purges!Gone
  <2>5. rows' \in [linked : Nat, free : Nat]
    BY <1>4 DEF Purges!Gone, PurgeIInv, Purges!TypeOK
  <2>2. Purges!PurgedIsMarked'
    BY <1>4 DEF Purges!Gone, Purges!PurgedIsMarked, Purges!Provided, Purges!NoRoom
  <2>3. starts' \in {starts, Never} /\ room' \in Purges!Room
    BY <1>4 DEF Purges!Gone
  <2> QED
    BY <1>4, <2>1, <2>2, <2>3, <2>4, <2>5, LoopStep DEF Purges!Gone, PurgeIInv, Purges!TypeOK
<1> QED
  BY <1>1, <1>2, <1>3, <1>4 DEF Purges!Purge

LEMMA DoneType ==
    ASSUME Purges!TypeOK, NEW p \in Processes
    PROVE  Purges!Done(p) \in [status : {"pending", "running", "done", "cancelled", "gone"}, at : Nat]
  BY DEF Purges!TypeOK, Purges!Done

LEMMA BlankingInv ==
    ASSUME Purges!RetentionConstants,
           PurgeIInv, NEW p \in Processes, Purges!Blanking(p) \/ Purges!LoopFails(p)
    PROVE  PurgeIInv'
<1> USE PurgeShapes
<1>0. Purges!TypeOK
  BY DEF PurgeIInv
<1>1. CASE Purges!FindSent(p)
  <2>1. [Purges!Free EXCEPT !.at = "blanking"] \in Purges!Loop /\ [Purges!Free EXCEPT !.at = "blanking"].at = "blanking"
    BY DEF Purges!Loop, Purges!Free
  <2> QED
    BY <1>1, <2>1, LoopStep DEF Purges!FindSent, Purges!Begins, Purges!tables, PurgeIInv,
                                Purges!TypeOK, Purges!PurgedIsMarked, Purges!Provided
<1>2. CASE Purges!ClaimJob(p)
  <2> DEFINE l == [Purges!Free EXCEPT !.at = "claimed", !.job = TRUE]
  <2>1. l \in Purges!Loop /\ l.at = "claimed"
    BY DEF Purges!Loop, Purges!Free
  <2>2. job' \in [status : {"pending", "running", "done", "cancelled", "gone"}, at : Nat]
    BY <1>0, <1>2 DEF Purges!ClaimJob, Purges!TypeOK
  <2> QED
    BY <1>2, <2>1, <2>2, LoopStep DEF Purges!ClaimJob, PurgeIInv, Purges!TypeOK,
       Purges!PurgedIsMarked,
                                      Purges!Provided
<1>3. CASE Purges!JobLooks(p)
  <2>1. ASSUME room # Purges!NoRoom, ~room.purged PROVE PurgeIInv'
    <3> DEFINE l == [loop[p] EXCEPT !.at = "blanking"]
    <3>1. l \in Purges!Loop /\ l.at = "blanking"
      BY <1>0 DEF Purges!TypeOK, Purges!Loop
    <3>2. loop' = [loop EXCEPT ![p] = l]
      BY <1>3, <2>1 DEF Purges!JobLooks
    <3> QED
      BY <1>3, <2>1, <3>1, <3>2, LoopStep DEF Purges!JobLooks, PurgeIInv, Purges!TypeOK,
                                              Purges!PurgedIsMarked, Purges!Provided
  <2>2. ASSUME ~(room # Purges!NoRoom /\ ~room.purged) PROVE PurgeIInv'
    BY <1>0, <1>3, <2>2, DoneType, LoopStep DEF Purges!JobLooks, PurgeIInv, Purges!TypeOK,
                                                Purges!PurgedIsMarked, Purges!Provided
  <2> QED
    BY <2>1, <2>2
<1>4. CASE Purges!Blank(p)
  <2>1. room' \in Purges!Room /\ Purges!PurgedIsMarked'
    BY <1>0, <1>4 DEF Purges!Blank, Purges!TypeOK, Purges!Room, Purges!NoRoom,
                      Purges!PurgedIsMarked, Purges!Provided
  <2>2. job' \in [status : {"pending", "running", "done", "cancelled", "gone"}, at : Nat]
    BY <1>0, <1>4, DoneType DEF Purges!Blank
  <2> QED
    BY <1>0, <1>4, <2>1, <2>2, LoopStep DEF Purges!Blank, Purges!TypeOK
<1>5. CASE Purges!LoopFails(p)
  <2>1. failures' \in 0..MaxFailures
    BY <1>0, <1>5 DEF Purges!LoopFails, Purges!TypeOK, Purges!RetentionConstants
  <2>2. job' \in [status : {"pending", "running", "done", "cancelled", "gone"}, at : Nat]
    BY <1>0, <1>5 DEF Purges!LoopFails, Purges!TypeOK
  <2> QED
    BY <1>5, <2>1, <2>2, LoopStep DEF Purges!LoopFails, PurgeIInv, Purges!TypeOK,
                                      Purges!PurgedIsMarked, Purges!Provided
<1> QED
  BY <1>1, <1>2, <1>3, <1>4, <1>5 DEF Purges!Blanking

-----------------------------------------------------------------------------
(* Steps of the handlers                                                   *)

\* A session opens, or is over, and the tables stay.
LEMMA SessionStep ==
    ASSUME Purges!RetentionConstants,
           PurgeIInv, NEW p \in Processes, NEW t \in Purges!Tx, ~t.wrote,
           t.does = "reschedule" => t.time \in Purges!Times,
           t.does = "enter" => t.version < MaxEntries,
           tx' = [tx EXCEPT ![p] = t], UNCHANGED <<clock, Purges!tables, loop, failures, moved>>
    PROVE  PurgeIInv'
<1>1. tx' \in [Processes -> Purges!Tx] /\ tx'[p] = t
      /\ \A q \in Processes \ {p} : tx'[q] = tx[q]
  BY DEF PurgeIInv, Purges!TypeOK
<1>2. Purges!TypeOK'
  BY <1>1 DEF PurgeIInv, Purges!TypeOK, Purges!tables
<1>3. PurgeMeant'
  BY <1>1 DEF PurgeIInv, PurgeMeant
<1>4. InHand' /\ Purges!PurgedIsMarked'
  BY DEF PurgeIInv, InHand, Purges!There, Purges!Old, Purges!PurgedIsMarked, Purges!Provided,
         Purges!tables
<1>5. Locks'
  BY <1>1 DEF PurgeIInv, Locks, Purges!HeldByHandler, Purges!HeldByPurge, Purges!Refers
<1> QED
  BY <1>2, <1>3, <1>4, <1>5 DEF PurgeIInv

\* A session commits: what it wrote on the custom was written with no purge about.
LEMMA CommitStep ==
    ASSUME Purges!RetentionConstants,
           PurgeIInv, NEW p \in Processes, NEW what, Purges!Commits(p, what),
           starts' \in Purges!Times \cup {Never}, room' \in Purges!Room, Purges!PurgedIsMarked',
           job' \in [status : {"pending", "running", "done", "cancelled", "gone"}, at : Nat],
           report' \in [Reports -> Purges!Report], rows' \in [linked : Nat, free : Nat],
           moved' \in BOOLEAN,
           InHand'
    PROVE  PurgeIInv'
<1>1. tx' \in [Processes -> Purges!Tx] /\ tx'[p] = Purges!NoTx
      /\ \A q \in Processes \ {p} : tx'[q] = tx[q]
  BY PurgeShapes DEF Purges!Commits, PurgeIInv, Purges!TypeOK
<1>2. Purges!TypeOK'
  BY <1>1 DEF Purges!Commits, PurgeIInv, Purges!TypeOK
<1>3. PurgeMeant'
  BY <1>1 DEF PurgeIInv, PurgeMeant, Purges!NoTx
<1>4. Locks'
  BY <1>1 DEF Purges!Commits, PurgeIInv, Locks, Purges!HeldByHandler, Purges!HeldByPurge,
              Purges!Refers, Purges!NoTx
<1> QED
  BY <1>2, <1>3, <1>4 DEF PurgeIInv

LEMMA OpenInv ==
    ASSUME Purges!RetentionConstants, PurgeIInv, NEW p \in Processes,
           \/ \E r \in Reports : Purges!Judge(p, r)
           \/ \E t \in Purges!Times : Purges!Reschedule(p, t)
           \/ Purges!EnterRoom(p)
    PROVE  PurgeIInv'
<1>0. Purges!TypeOK
  BY DEF PurgeIInv
<1>1. ASSUME NEW r \in Reports, Purges!Judge(p, r) PROVE PurgeIInv'
  <2> DEFINE t == [Purges!NoTx EXCEPT !.does = "verdict", !.report = r, !.linked = report[r].linked,
                               !.counts = ~report[r].linked \/ rows.linked = 0]
  <2>1. t \in Purges!Tx /\ ~t.wrote /\ t.does = "verdict"
    <3>1. report[r].linked \in BOOLEAN
      BY <1>0 DEF Purges!TypeOK, Purges!Report
    <3>2. (~report[r].linked \/ rows.linked = 0) \in BOOLEAN
      OBVIOUS
    <3> QED
      BY <3>1, <3>2, PurgeShapes DEF Purges!Tx, Purges!NoTx
  <2>2. tx' = [tx EXCEPT ![p] = t] /\ UNCHANGED <<clock, Purges!tables, loop, failures, moved>>
    BY <1>1 DEF Purges!Judge, Purges!Opens
  <2> HIDE DEF t
  <2> QED
    BY <2>1, <2>2, SessionStep
<1>2. ASSUME NEW d \in Purges!Times, Purges!Reschedule(p, d) PROVE PurgeIInv'
  <2> DEFINE t == [Purges!NoTx EXCEPT !.does = "reschedule", !.time = d]
  <2>1. t \in Purges!Tx /\ ~t.wrote /\ t.does = "reschedule" /\ t.time = d
    BY PurgeShapes DEF Purges!Tx, Purges!NoTx
  <2>2. tx' = [tx EXCEPT ![p] = t] /\ UNCHANGED <<clock, Purges!tables, loop, failures, moved>>
    BY <1>2 DEF Purges!Reschedule, Purges!Opens
  <2> HIDE DEF t
  <2> QED
    BY <2>1, <2>2, SessionStep
<1>3. CASE Purges!EnterRoom(p)
  <2> DEFINE t == [Purges!NoTx EXCEPT !.does = "enter", !.version = room.version]
  <2>1. t \in Purges!Tx /\ ~t.wrote /\ t.does = "enter" /\ t.version < MaxEntries
    BY <1>0, <1>3 DEF Purges!EnterRoom, Purges!Tx, Purges!NoTx, Purges!TypeOK, Purges!Room
  <2>2. tx' = [tx EXCEPT ![p] = t] /\ UNCHANGED <<clock, Purges!tables, loop, failures, moved>>
    BY <1>3 DEF Purges!EnterRoom, Purges!Opens
  <2> HIDE DEF t
  <2> QED
    BY <2>1, <2>2, SessionStep
<1> QED
  BY <1>1, <1>2, <1>3

LEMMA WriteInv ==
    ASSUME Purges!RetentionConstants, PurgeIInv, NEW p \in Processes, Purges!Write(p)
    PROVE  PurgeIInv'
<1>0. tx' \in [Processes -> Purges!Tx]
  <2>1. tx[p] \in Purges!Tx
    BY DEF PurgeIInv, Purges!TypeOK
  <2>2. [tx[p] EXCEPT !.wrote = TRUE] \in Purges!Tx
    BY <2>1 DEF Purges!Tx
  <2>3. tx' = [tx EXCEPT ![p] = [tx[p] EXCEPT !.wrote = TRUE]]
    BY DEF Purges!Write
  <2> QED
    BY <2>2, <2>3 DEF PurgeIInv, Purges!TypeOK
<1>1. \A q \in Processes : /\ tx'[q].does = tx[q].does /\ tx'[q].time = tx[q].time
                           /\ tx'[q].version = tx[q].version
                           /\ tx'[q].linked = tx[q].linked /\ tx'[q].counts = tx[q].counts
                           /\ q # p => tx'[q].wrote = tx[q].wrote
  <2>1. tx' = [tx EXCEPT ![p] = [tx[p] EXCEPT !.wrote = TRUE]] /\ tx \in [Processes -> Purges!Tx]
    BY DEF Purges!Write, PurgeIInv, Purges!TypeOK
  <2>2. \A q \in Processes \ {p} : tx'[q] = tx[q]
    BY <2>1
  <2>3. tx'[p] = [tx[p] EXCEPT !.wrote = TRUE] /\ tx[p] \in Purges!Tx
    BY <2>1
  <2>4. /\ tx'[p].does = tx[p].does /\ tx'[p].time = tx[p].time
        /\ tx'[p].version = tx[p].version
        /\ tx'[p].linked = tx[p].linked /\ tx'[p].counts = tx[p].counts
    BY <2>3 DEF Purges!Tx
  <2> QED
    BY <2>2, <2>4
<1>2. Purges!TypeOK'
  BY <1>0 DEF Purges!Write, PurgeIInv, Purges!TypeOK, Purges!tables
<1>3. PurgeMeant'
  BY <1>1 DEF PurgeIInv, PurgeMeant
<1>4. InHand' /\ Purges!PurgedIsMarked'
  BY DEF Purges!Write, PurgeIInv, InHand, Purges!There, Purges!Old, Purges!PurgedIsMarked,
         Purges!Provided, Purges!tables
<1>5. Locks'
  <2>1. \A q \in Processes : Purges!Refers(q)' <=> Purges!Refers(q)
    BY <1>1 DEF Purges!Refers
  <2>2. Purges!HeldByPurge' <=> Purges!HeldByPurge
    BY DEF Purges!Write, Purges!HeldByPurge
  <2>3. Purges!HeldByHandler' => Purges!HeldByHandler \/ Purges!Refers(p)
    BY <1>1, <2>1 DEF Purges!HeldByHandler
  <2> QED
    BY <2>2, <2>3 DEF Purges!Write, PurgeIInv, Locks
<1> QED
  BY <1>2, <1>3, <1>4, <1>5 DEF PurgeIInv

LEMMA EndingInv ==
    ASSUME Purges!RetentionConstants, PurgeIInv, NEW p \in Processes, Purges!Ending(p)
    PROVE  PurgeIInv'
<1>0. Purges!TypeOK
  BY DEF PurgeIInv
<1>1. CASE Purges!Write(p)
  BY <1>1, WriteInv
<1>2. CASE Purges!TooLate(p)
  <2>1. Purges!NoTx \in Purges!Tx /\ ~Purges!NoTx.wrote /\ Purges!NoTx.does = "nothing"
    BY PurgeShapes DEF Purges!NoTx
  <2> QED
    BY <1>2, <2>1, SessionStep DEF Purges!TooLate
<1>3. CASE Purges!CommitVerdict(p)
  <2>1. report' \in [Reports -> Purges!Report]
    BY <1>0, <1>3 DEF Purges!CommitVerdict, Purges!TypeOK, Purges!Report
  <2>2. rows' \in [linked : Nat, free : Nat]
    BY <1>0, <1>3 DEF Purges!CommitVerdict, Purges!TypeOK
  <2>3. InHand' /\ Purges!PurgedIsMarked'
    BY <1>3 DEF Purges!CommitVerdict, Purges!Commits, PurgeIInv, InHand, Purges!There,
       Purges!Old,
                Purges!PurgedIsMarked, Purges!Provided
  <2> QED
    BY <1>0, <1>3, <2>1, <2>2, <2>3, CommitStep DEF Purges!CommitVerdict, Purges!TypeOK
<1>4. CASE Purges!CommitReschedule(p)
  <2>1. starts' \in Purges!Times /\ moved' \in BOOLEAN
    BY <1>0, <1>4 DEF Purges!CommitReschedule, Purges!Commits, PurgeIInv, PurgeMeant,
       Purges!TypeOK
  <2>2. job' \in [status : {"pending", "running", "done", "cancelled", "gone"}, at : Nat]
    BY <1>0, <1>4 DEF Purges!CommitReschedule, Purges!TypeOK
  <2>3. ~Purges!HeldByPurge
    BY <1>4 DEF Purges!CommitReschedule, Purges!Commits, PurgeIInv, Locks, Purges!HeldByHandler,
                Purges!Refers
  <2>4. InHand'
    <3>1. \A q \in Processes : loop'[q].at \in {"picked", "cleared", "deleted"} => moved'
      BY <1>4, <2>3 DEF Purges!CommitReschedule, Purges!Commits, Purges!HeldByPurge
    <3> QED
      BY <3>1 DEF InHand
  <2>5. Purges!PurgedIsMarked'
    BY <1>4 DEF Purges!CommitReschedule, PurgeIInv, Purges!PurgedIsMarked, Purges!Provided
  <2> QED
    BY <1>0, <1>4, <2>1, <2>2, <2>4, <2>5, CommitStep DEF Purges!CommitReschedule, Purges!TypeOK
<1>5. CASE Purges!CommitRoom(p)
  <2>1. room' \in Purges!Room
    <3>1. tx[p].version + 1 \in 0..MaxEntries
      BY <1>0, <1>5 DEF Purges!CommitRoom, Purges!Commits, PurgeIInv, PurgeMeant,
         Purges!TypeOK, Purges!Tx,
                        Purges!RetentionConstants
    <3> QED
      BY <1>0, <1>5, <3>1 DEF Purges!CommitRoom, Purges!TypeOK, Purges!Room
  <2>3. Purges!PurgedIsMarked'
    BY <1>0, <1>5 DEF Purges!CommitRoom, Purges!TypeOK, Purges!Room, Purges!PurgedIsMarked
  <2>2. InHand'
    BY <1>5 DEF Purges!CommitRoom, Purges!Commits, PurgeIInv, InHand, Purges!There, Purges!Old
  <2> QED
    BY <1>0, <1>5, <2>1, <2>2, <2>3, CommitStep DEF Purges!CommitRoom, Purges!TypeOK
<1> QED
  BY <1>1, <1>2, <1>3, <1>4, <1>5 DEF Purges!Ending

-----------------------------------------------------------------------------
(* The rest, and the invariant                                             *)

LEMMA AroundInv ==
    ASSUME Purges!RetentionConstants,
           PurgeIInv, Purges!Sent \/ Purges!Tick \/ \E r \in Reports : Purges!FileReport(r)
    PROVE  PurgeIInv'
<1>0. Purges!TypeOK
  BY DEF PurgeIInv
<1>1. CASE Purges!Sent
  <2>1. room' \in Purges!Room /\ Purges!PurgedIsMarked'
    BY <1>0, <1>1 DEF Purges!Sent, Purges!TypeOK, Purges!Room, PurgeIInv, Purges!PurgedIsMarked,
                      Purges!Provided
  <2>2. Purges!TypeOK'
    BY <1>0, <1>1, <2>1 DEF Purges!Sent, Purges!TypeOK
  <2>3. PurgeMeant' /\ InHand' /\ Locks'
    BY <1>1 DEF Purges!Sent, PurgeIInv, PurgeMeant, InHand, Purges!There, Purges!Old, Locks,
                Purges!HeldByHandler, Purges!HeldByPurge, Purges!Refers
  <2> QED
    BY <2>1, <2>2, <2>3 DEF PurgeIInv
<1>2. CASE Purges!Tick
  <2>1. clock' \in Purges!Times /\ clock' = clock + 1 /\ clock \in Nat
    BY <1>0, <1>2 DEF Purges!Tick, Purges!TypeOK, Purges!Times, Purges!RetentionConstants
  <2>2. Purges!TypeOK'
    BY <1>0, <1>2, <2>1 DEF Purges!Tick, Purges!tables, Purges!TypeOK
  <2>3. Purges!Old => Purges!Old'
    BY <1>0, <1>2, <2>1 DEF Purges!Tick, Purges!tables, Purges!Old, Purges!There, Purges!TypeOK,
                            Purges!Times, Purges!RetentionConstants
  <2>4. PurgeMeant' /\ InHand' /\ Locks' /\ Purges!PurgedIsMarked'
    BY <1>2, <2>3 DEF Purges!Tick, Purges!tables, PurgeIInv, PurgeMeant, InHand,
       Purges!There, Locks,
                      Purges!HeldByHandler, Purges!HeldByPurge, Purges!Refers,
                      Purges!PurgedIsMarked, Purges!Provided
  <2> QED
    BY <2>2, <2>4 DEF PurgeIInv
<1>3. ASSUME NEW r \in Reports, Purges!FileReport(r) PROVE PurgeIInv'
  <2>1. report' \in [Reports -> Purges!Report]
    BY <1>0, <1>3 DEF Purges!FileReport, Purges!TypeOK, Purges!Report
  <2>2. Purges!TypeOK'
    BY <1>0, <1>3, <2>1 DEF Purges!FileReport, Purges!TypeOK
  <2>3. PurgeMeant' /\ InHand' /\ Locks' /\ Purges!PurgedIsMarked'
    BY <1>3 DEF Purges!FileReport, PurgeIInv, PurgeMeant, InHand, Purges!There, Purges!Old,
       Locks,
                Purges!HeldByHandler, Purges!HeldByPurge, Purges!Refers, Purges!PurgedIsMarked,
                Purges!Provided
  <2> QED
    BY <2>2, <2>3 DEF PurgeIInv
<1> QED
  BY <1>1, <1>2, <1>3

LEMMA StutterInv == ASSUME PurgeIInv, UNCHANGED Purges!vars PROVE PurgeIInv'
<1>1. Purges!TypeOK' /\ Purges!PurgedIsMarked'
  BY DEF PurgeIInv, Purges!vars, Purges!tables, Purges!TypeOK, Purges!PurgedIsMarked,
     Purges!Provided
<1>2. PurgeMeant' /\ InHand' /\ Locks'
  BY DEF PurgeIInv, Purges!vars, Purges!tables, PurgeMeant, InHand, Purges!There, Purges!Old,
     Locks,
         Purges!HeldByHandler, Purges!HeldByPurge, Purges!Refers
<1> QED
  BY <1>1, <1>2 DEF PurgeIInv

LEMMA PurgeStepInv ==
    ASSUME Purges!RetentionConstants, PurgeIInv, [Purges!Next]_(Purges!vars)
    PROVE  PurgeIInv'
<1>1. ASSUME NEW p \in Processes, Purges!Handler(p) PROVE PurgeIInv'
  BY <1>1, OpenInv, EndingInv DEF Purges!Handler
<1> QED
  BY <1>1, PurgeInv, BlankingInv, AroundInv, StutterInv DEF Purges!Next

\* What loops and sessions hold fits the tables in every reachable state.
THEOREM PurgeInvariant == ASSUME Purges!RetentionConstants PROVE Purges!Spec => []PurgeIInv
<1>1. Purges!Init => PurgeIInv
  BY PurgeInitInv
<1>2. PurgeIInv /\ [Purges!Next]_(Purges!vars) => PurgeIInv'
  BY PurgeStepInv
<1> QED
  BY <1>1, <1>2, PTL DEF Purges!Spec

\* The rows of a custom, the loops and the sessions keep their types.
THEOREM PurgeTypeCorrect == ASSUME Purges!RetentionConstants PROVE Purges!Spec => []Purges!TypeOK
<1>1. PurgeIInv => Purges!TypeOK
  BY DEF PurgeIInv
<1> QED
  BY <1>1, PurgeInvariant, PTL

\* Nothing a player is sent was blanked, however entries and blankings cross
\* (update_credentials, purge_old_credentials, the job of a week later).
THEOREM MarkedWhenPurged ==
    ASSUME Purges!RetentionConstants
    PROVE  Purges!Spec => []Purges!PurgedIsMarked
<1>1. PurgeIInv => Purges!PurgedIsMarked
  BY DEF PurgeIInv
<1> QED
  BY <1>1, PurgeInvariant, PTL

-----------------------------------------------------------------------------
(* What is deleted                                                         *)

\* Only the commit of a purge takes the custom away.
LEMMA OnlyGone ==
    ASSUME Purges!RetentionConstants,
           PurgeIInv, [Purges!Next]_(Purges!vars), Purges!There, ~Purges!There'
    PROVE  \E p \in Processes : Purges!Gone(p)
<1>1. starts' # starts
  BY DEF Purges!There
<1>2. ASSUME NEW p \in Processes, Purges!CommitReschedule(p) PROVE FALSE
  <2>1. starts' \in Purges!Times
    BY <1>2 DEF Purges!CommitReschedule, Purges!Commits, PurgeIInv, PurgeMeant
  <2> QED
    BY <2>1, PurgeShapes DEF Purges!There
<1>3. ASSUME NEW p \in Processes, Purges!Purge(p), ~Purges!Gone(p) PROVE FALSE
  BY <1>1, <1>3 DEF Purges!Purge, Purges!Pick, Purges!Begins, Purges!Clear, Purges!Delete,
                    Purges!tables
<1>4. ASSUME NEW p \in Processes, Purges!Blanking(p) \/ Purges!LoopFails(p) PROVE FALSE
  BY <1>1, <1>4 DEF Purges!Blanking, Purges!FindSent, Purges!Begins, Purges!ClaimJob,
                    Purges!JobLooks, Purges!Blank, Purges!LoopFails, Purges!tables
<1>5. ASSUME NEW p \in Processes, Purges!Handler(p) PROVE FALSE
  BY <1>1, <1>2, <1>5 DEF Purges!Handler, Purges!Judge, Purges!Reschedule, Purges!EnterRoom,
                          Purges!Opens, Purges!Ending, Purges!Write, Purges!TooLate,
                          Purges!CommitVerdict, Purges!CommitRoom, Purges!tables
<1>6. ~Purges!Sent /\ ~Purges!Tick /\ \A r \in Reports : ~Purges!FileReport(r)
  BY <1>1 DEF Purges!Sent, Purges!Tick, Purges!FileReport, Purges!tables
<1>7. Purges!Next
  BY <1>1 DEF Purges!vars, Purges!tables
<1> QED
  BY <1>3, <1>4, <1>5, <1>6, <1>7 DEF Purges!Next

LEMMA GoesStep ==
    ASSUME Purges!RetentionConstants, PurgeIInv, [Purges!Next]_(Purges!vars)
    PROVE  Purges!GoesWhenOld
<1> SUFFICES ASSUME Purges!There, ~Purges!There' PROVE starts + EventRetention < clock \/ moved
  BY DEF Purges!GoesWhenOld
<1>1. PICK p \in Processes : Purges!Gone(p)
  BY OnlyGone
<1>2. ~Purges!There \/ Purges!Old \/ moved
  BY <1>1 DEF Purges!Gone, PurgeIInv, InHand
<1> QED
  BY <1>2 DEF Purges!Old

\* The purge deletes only what began long enough ago, unless the custom got another
\* time while it had it in hand, whoever else purges, fails or writes meanwhile
\* (purge_old_events, reschedule_event).
THEOREM OldOnly == ASSUME Purges!RetentionConstants PROVE Purges!Spec => Purges!OnlyThePastGoes
<1>1. PurgeIInv /\ [Purges!Next]_(Purges!vars) => [Purges!GoesWhenOld]_(Purges!vars)
  BY GoesStep
<1> QED
  BY <1>1, PurgeInvariant, PTL DEF Purges!Spec, Purges!OnlyThePastGoes
=============================================================================
