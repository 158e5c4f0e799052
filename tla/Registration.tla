---------------------------- MODULE Registration ----------------------------
(***************************************************************************)
(* The seats of one custom: register_user, mark_ineligible and             *)
(* promote_waitlist (services/registration.py), called by bot handlers and *)
(* API requests, and the demotions of the credential sweep (deliver_one).  *)
(*                                                                         *)
(* A handler reads the Event row into its session long before it locks it, *)
(* and SELECT ... FOR UPDATE does not refresh an object the session holds, *)
(* so it decides and writes from the copy it loaded.  A transaction is     *)
(* therefore three steps here: Load copies the row, Check reads the        *)
(* player's registration, and one of the finishing steps (between the row  *)
(* lock and the commit, which nobody can interleave) writes.  Each process *)
(* has ONE database connection for its handlers; a handler holds it from   *)
(* Load to the end, except the screenshot upload, which commits in between *)
(* and lets go of it (Park).  The sweep has a connection of its own.       *)
(***************************************************************************)
EXTENDS Integers, FiniteSets

CONSTANTS Users,      \* the players
          Handlers,   \* the concurrent bot handlers and API requests
          Procs,      \* the processes: api with the embedded bot, a bot alone
          ProcOf,     \* ProcOf[h]: the process that runs handler h
          Nobody,     \* no handler / no player
          Capacity    \* events.capacity; 0 is unlimited

ASSUME UsersAssumption    == IsFiniteSet(Users) /\ Nobody \notin Users
ASSUME HandlersAssumption == Nobody \notin Handlers
ASSUME ProcOfAssumption   == ProcOf \in [Handlers -> Procs]
ASSUME CapacityAssumption == Capacity \in Nat

VARIABLES
    count,            \* events.confirmed_count
    status,           \* events.status
    waitlistEnabled,  \* events.waitlist_enabled, fixed at creation
    reg,              \* reg[u]: registrations.status of u, "none" without a row
    entry,            \* entry[u]: u's waitlist_entries row; pos 0 without a row
    tx,               \* tx[h]: what handler h's session holds
    conn,             \* conn[p]: the handler that holds process p's connection
    sweep,            \* what the delivery sweep's session holds
    stale             \* history: some transaction wrote from an outdated copy

table == <<count, status, waitlistEnabled, reg, entry>>
vars  == <<count, status, waitlistEnabled, reg, entry, tx, conn, sweep, stale>>

EventStatus == {"published", "full", "started"}
RegStatus   == {"none", "pending", "confirmed", "waitlisted", "ineligible"}
Entry       == [pos : Nat, active : BOOLEAN]
NoEntry     == [pos |-> 0, active |-> FALSE]

Tx == [pc      : {"idle", "loaded", "parked", "checked"},
       op      : {"register", "void"},
       user    : Users \cup {Nobody},
       count   : Nat,
       status  : EventStatus,
       reg     : RegStatus,
       exposed : BOOLEAN]    \* history: somebody else may have committed since Load

Idle == [pc |-> "idle", op |-> "register", user |-> Nobody, count |-> 0,
         status |-> "published", reg |-> "none", exposed |-> FALSE]

Sweep == [on : BOOLEAN, count : Nat, started : BOOLEAN, seated : SUBSET Users]

NoSweep == [on |-> FALSE, count |-> 0, started |-> FALSE, seated |-> {}]

Confirmed  == {u \in Users : reg[u] = "confirmed"}
Waitlisted == {u \in Users : reg[u] = "waitlisted"}
Active     == {u \in Users : entry[u].active}

-----------------------------------------------------------------------------
(* Decisions the code takes from the numbers it holds.                     *)

\* A mistake for CapacityRespected to catch: one seat too many.
HasRoomForOneMore(c) == Capacity = 0 \/ c <= Capacity

\* The capacity test, on the count c of the session's copy.
HasRoom(c) == Capacity = 0 \/ c < Capacity

\* The capacity is finite and c reaches it.
Fills(c) == Capacity > 0 /\ c >= Capacity

\* The status a confirmation writes over the row's, given the new count c and
\* the status s of the copy.
Marked(c, s) == IF Fills(c) /\ s = "published" THEN "full" ELSE status

\* A mistake for PositionsDistinct and ImplementsLedger to catch: the last
\* active entry is not found.
IsPositionOne(p) == p = 1

\* p is the position after the last active entry's, read after the row lock.
IsNextPosition(p) ==
    \/ Active = {} /\ p = 1
    \/ \E v \in Active : /\ \A w \in Active : entry[w].pos <= entry[v].pos
                         /\ p = entry[v].pos + 1

\* A mistake for NoWaiterLost and FirstComeFirstServed to catch: the queue is
\* read from its end.
IsLast(w, r) ==
    /\ w \in Active /\ r[w] = "waitlisted"
    /\ \A v \in Active : r[v] = "waitlisted" => entry[w].pos >= entry[v].pos

\* w is the active entry promote_waitlist stops at when the registrations are
\* r: the lowest position whose registration still waits.
IsHeir(w, r) ==
    /\ w \in Active /\ r[w] = "waitlisted"
    /\ \A v \in Active : r[v] = "waitlisted" => entry[w].pos <= entry[v].pos

-----------------------------------------------------------------------------
(* Sessions                                                                *)

\* A mistake for PinnedCopyIsFresh to catch: a pool of several connections.
LoadFromPool(h, u, op) ==
    /\ tx[h].pc = "idle"
    /\ tx' = [tx EXCEPT ![h] = [pc |-> "loaded", op |-> op, user |-> u, count |-> count,
                                status |-> status, reg |-> "none", exposed |-> FALSE]]
    /\ UNCHANGED <<table, conn, sweep, stale>>

\* Handler h acts for player u.  It keeps the connection from here on.
Load(h, u, op) ==
    /\ tx[h].pc = "idle"
    /\ conn[ProcOf[h]] = Nobody
    /\ tx' = [tx EXCEPT ![h] = [pc |-> "loaded", op |-> op, user |-> u, count |-> count,
                                status |-> status, reg |-> "none", exposed |-> FALSE]]
    /\ conn' = [conn EXCEPT ![ProcOf[h]] = h]
    /\ UNCHANGED <<table, sweep, stale>>

\* social_screenshot stores the screenshot and commits before it registers: the
\* connection is free again, the session's copy of the event stays.
Park(h) ==
    /\ tx[h].pc = "loaded"
    /\ tx[h].op = "register"
    /\ tx' = [tx EXCEPT ![h].pc = "parked", ![h].exposed = TRUE]
    /\ conn' = [conn EXCEPT ![ProcOf[h]] = Nobody]
    /\ UNCHANGED <<table, sweep, stale>>

\* h's transaction ends; sessions of other processes are overtaken by it.
Finish(h) ==
    /\ tx' = [g \in Handlers |->
                IF g = h THEN Idle
                ELSE IF tx[g].pc # "idle" /\ ProcOf[g] # ProcOf[h]
                     THEN [tx[g] EXCEPT !.exposed = TRUE]
                     ELSE tx[g]]
    /\ conn' = [conn EXCEPT ![ProcOf[h]] = Nobody]
    /\ UNCHANGED <<sweep, waitlistEnabled>>

\* Whether the player's registration r leaves anything to do for op.
Actionable(op, r) ==
    IF op = "register" THEN r \notin {"confirmed", "waitlisted"} ELSE r = "confirmed"

\* h may issue its next query; an upload takes the connection back to do so.
Connected(h) ==
    \/ tx[h].pc = "loaded"
    \/ tx[h].pc = "parked" /\ conn[ProcOf[h]] = Nobody

\* Nothing to do: already registered, or no confirmed seat to take back.
Refuse(h) ==
    /\ Connected(h)
    /\ ~Actionable(tx[h].op, reg[tx[h].user])
    /\ Finish(h)
    /\ UNCHANGED <<count, status, reg, entry, stale>>

\* The registration is read; the requirements are evaluated from here on, over
\* the network.
Check(h) ==
    /\ Connected(h)
    /\ Actionable(tx[h].op, reg[tx[h].user])
    /\ tx' = [tx EXCEPT ![h].pc = "checked", ![h].reg = reg[tx[h].user]]
    /\ conn' = [conn EXCEPT ![ProcOf[h]] = h]
    /\ UNCHANGED <<table, sweep, stale>>

-----------------------------------------------------------------------------
(* The finishing steps of register_user                                    *)

\* h's copy of the registration, or of the event row, is outdated.
OldReg(h)   == tx[h].reg # reg[tx[h].user]
OldEvent(h) == tx[h].count # count \/ tx[h].status # status

Registering(h) == tx[h].pc = "checked" /\ tx[h].op = "register"

\* Another handler inserted the player's registration meanwhile: the INSERT
\* breaks the unique key and the player is told they are registered already.
Collides(h) == tx[h].reg = "none" /\ reg[tx[h].user] # "none"

Duplicate(h) ==
    /\ Registering(h)
    /\ Collides(h)
    /\ Finish(h)
    /\ UNCHANGED <<count, status, reg, entry, stale>>

\* A requirement is rejected, or is not met yet.  Only a value that differs
\* from the loaded one is written.
Unqualified(h, s) ==
    /\ Registering(h)
    /\ ~Collides(h)
    /\ reg' = IF s = tx[h].reg THEN reg ELSE [reg EXCEPT ![tx[h].user] = s]
    /\ stale' = (stale \/ (OldReg(h) /\ s # tx[h].reg))
    /\ Finish(h)
    /\ UNCHANGED <<count, status, entry>>

\* The copy has room: a seat, and the event is full when it was the last one.
Confirm(h) ==
    /\ Registering(h)
    /\ ~Collides(h)
    /\ HasRoom(tx[h].count)
    /\ reg' = [reg EXCEPT ![tx[h].user] = "confirmed"]
    /\ count' = tx[h].count + 1
    /\ status' = Marked(tx[h].count + 1, tx[h].status)
    /\ stale' = (stale \/ OldReg(h) \/ OldEvent(h))
    /\ Finish(h)
    /\ UNCHANGED entry

\* The copy has no room: a place behind the others.
JoinWaitlist(h) ==
    /\ Registering(h)
    /\ ~Collides(h)
    /\ ~HasRoom(tx[h].count)
    /\ waitlistEnabled
    /\ entry[tx[h].user] = NoEntry
    /\ reg' = [reg EXCEPT ![tx[h].user] = "waitlisted"]
    /\ \E p \in {1} \cup {entry[v].pos + 1 : v \in Active} :
          /\ IsNextPosition(p)
          /\ entry' = [entry EXCEPT ![tx[h].user] = [pos |-> p, active |-> TRUE]]
    /\ status' = IF tx[h].status = "published" THEN "full" ELSE status
    /\ stale' = (stale \/ OldReg(h) \/ OldEvent(h))
    /\ Finish(h)
    /\ UNCHANGED count

\* A player who waited once has a row already: the second INSERT breaks the
\* unique key of waitlist_entries and the whole transaction is rolled back.
WaitlistClash(h) ==
    /\ Registering(h)
    /\ ~Collides(h)
    /\ ~HasRoom(tx[h].count)
    /\ waitlistEnabled
    /\ entry[tx[h].user] # NoEntry
    /\ Finish(h)
    /\ UNCHANGED <<count, status, reg, entry, stale>>

\* No room and no waitlist: "event_full".  The API rolls back; the bot answers
\* and commits, so a row that was inserted stays, pending.
EventFull(h) ==
    /\ Registering(h)
    /\ ~Collides(h)
    /\ ~HasRoom(tx[h].count)
    /\ ~waitlistEnabled
    /\ \/ UNCHANGED reg
       \/ /\ tx[h].reg = "none"
          /\ reg' = [reg EXCEPT ![tx[h].user] = "pending"]
    /\ Finish(h)
    /\ UNCHANGED <<count, status, entry, stale>>

-----------------------------------------------------------------------------
(* mark_ineligible with promote_waitlist                                   *)

Voiding(h) == tx[h].pc = "checked" /\ tx[h].op = "void"

\* A mistake for CountIsExact to catch: the decrement is forgotten.
Unchanged(c) == c

\* The count after the guarded decrement.
Less(c) == IF c > 0 THEN c - 1 ELSE 0

\* The decrement made room in an event that was marked full.
Reopens(h) == tx[h].count > 0 /\ tx[h].status = "full" /\ HasRoom(Less(tx[h].count))

Voided(h) == [reg EXCEPT ![tx[h].user] = "ineligible"]

\* The seat is taken back and goes to the heir w; entries before w whose
\* registration no longer waits are retired on the way.
VoidAndPromote(h) ==
    /\ Voiding(h)
    /\ HasRoom(Less(tx[h].count))
    /\ \E w \in Users :
          /\ IsHeir(w, Voided(h))
          /\ reg' = [Voided(h) EXCEPT ![w] = "confirmed"]
          /\ entry' = [v \in Users |-> IF v \in Active /\ entry[v].pos <= entry[w].pos
                                       THEN [entry[v] EXCEPT !.active = FALSE]
                                       ELSE entry[v]]
    /\ count' = Less(tx[h].count) + 1
    /\ LET open == IF Reopens(h) THEN "published" ELSE tx[h].status
           next == IF Fills(Less(tx[h].count) + 1)
                   THEN IF open = "published" THEN "full" ELSE open
                   ELSE IF open = "full" THEN "published" ELSE open
       IN status' = IF Reopens(h) \/ next # open THEN next ELSE status
    /\ stale' = (stale \/ OldReg(h) \/ OldEvent(h))
    /\ Finish(h)

\* The seat is taken back and nobody gets it: the copy still counts no free
\* seat, or nobody waits; in that case every remaining entry is retired.
VoidOnly(h) ==
    /\ Voiding(h)
    /\ \/ /\ ~HasRoom(Less(tx[h].count))
          /\ UNCHANGED entry
       \/ /\ HasRoom(Less(tx[h].count))
          /\ \A v \in Active : Voided(h)[v] # "waitlisted"
          /\ entry' = [v \in Users |-> [entry[v] EXCEPT !.active = FALSE]]
    /\ reg' = Voided(h)
    /\ count' = IF tx[h].count > 0 THEN Less(tx[h].count) ELSE count
    /\ status' = IF Reopens(h) THEN "published" ELSE status
    /\ stale' = (stale \/ OldReg(h) \/ OldEvent(h))
    /\ Finish(h)

-----------------------------------------------------------------------------
(* The delivery sweep                                                      *)

\* The count after n guarded decrements; without the guard TypeOK breaks.
Minus(c, n)  == c - n
LessBy(c, n) == IF c >= n THEN c - n ELSE 0

\* The worker loads the event and its confirmed registrations.
SweepStart ==
    /\ ~sweep.on
    /\ sweep' = [on |-> TRUE, count |-> count, started |-> status = "started", seated |-> Confirmed]
    /\ UNCHANGED <<table, tx, conn, stale>>

\* The sweep commits.  The players of D left a channel or were banned: each is
\* demoted and the copy's count decremented, and nobody is promoted.  A sweep
\* that got through marks the event started.
SweepEnd(D, through) ==
    /\ sweep.on
    /\ D \subseteq sweep.seated
    /\ reg' = [u \in Users |-> IF u \in D THEN "ineligible" ELSE reg[u]]
    /\ count' = IF D = {} \/ sweep.count = 0 THEN count
                ELSE LessBy(sweep.count, Cardinality(D))
    /\ status' = IF through /\ ~sweep.started THEN "started" ELSE status
    /\ stale' = (stale \/ (D # {} /\ (sweep.count # count \/ ~(D \subseteq Confirmed))))
    /\ sweep' = NoSweep
    /\ tx' = [h \in Handlers |-> IF tx[h].pc # "idle" THEN [tx[h] EXCEPT !.exposed = TRUE]
                                 ELSE tx[h]]
    /\ UNCHANGED <<waitlistEnabled, entry, conn>>

-----------------------------------------------------------------------------
Init ==
    /\ count = 0
    /\ status = "published"
    /\ waitlistEnabled \in BOOLEAN
    /\ reg = [u \in Users |-> "none"]
    /\ entry = [u \in Users |-> NoEntry]
    /\ tx = [h \in Handlers |-> Idle]
    /\ conn = [p \in Procs |-> Nobody]
    /\ sweep = NoSweep
    /\ stale = FALSE

Settle(h) ==
    \/ Refuse(h)
    \/ Check(h)
    \/ Duplicate(h)
    \/ Unqualified(h, "ineligible")
    \/ Unqualified(h, "pending")
    \/ Confirm(h)
    \/ JoinWaitlist(h)
    \/ WaitlistClash(h)
    \/ EventFull(h)
    \/ VoidAndPromote(h)
    \/ VoidOnly(h)

Next ==
    \/ \E h \in Handlers :
          \/ \E u \in Users, op \in {"register", "void"} : Load(h, u, op)
          \/ Park(h)
          \/ Settle(h)
    \/ SweepStart
    \/ \E D \in SUBSET Users, through \in BOOLEAN : SweepEnd(D, through)

Spec == Init /\ [][Next]_vars

-----------------------------------------------------------------------------
(* Properties                                                              *)

\* The rows, the sessions and the connections keep their types; in particular
\* confirmed_count and the positions never go below zero.
TypeOK ==
    /\ count \in Nat
    /\ status \in EventStatus
    /\ waitlistEnabled \in BOOLEAN
    /\ reg \in [Users -> RegStatus]
    /\ entry \in [Users -> Entry]
    /\ tx \in [Handlers -> Tx]
    /\ conn \in [Procs -> Handlers \cup {Nobody}]
    /\ sweep \in Sweep
    /\ stale \in BOOLEAN

\* As long as nobody has written from an outdated copy, confirmed_count is the
\* number of confirmed registrations, through every mix of registrations,
\* refusals, take-backs, promotions and sweeps.
CountIsExact == ~stale => count = Cardinality(Confirmed)

\* ... and never more players hold a seat than the capacity allows.
CapacityRespected == ~stale /\ Capacity > 0 => Cardinality(Confirmed) <= Capacity

\* ... and an event whose seats are all taken is not listed as open.
FullIsMarked == ~stale /\ Fills(count) => status # "published"

\* Whatever the copies were worth: a player on the waitlist always has an
\* active entry, so a promotion can reach them.
NoWaiterLost == \A u \in Waitlisted : entry[u].active

\* Whatever the copies were worth: no two active entries share a position.
PositionsDistinct ==
    \A u, v \in Active : u # v => entry[u].pos # entry[v].pos

\* A session that has let nobody in between - it kept its connection, no other
\* process and no sweep has committed - holds the rows as they are: inside one
\* process the single connection is what makes the stale copy harmless.
PinnedCopyIsFresh ==
    \A h \in Handlers :
        tx[h].pc # "idle" /\ ~tx[h].exposed =>
            /\ ~OldEvent(h)
            /\ tx[h].pc = "checked" => ~OldReg(h)

\* A waiter who is given a seat leaves nobody behind who came earlier.
FirstComeFirstServed ==
    [][~stale' => \A u, v \in Users :
          /\ reg[u] = "waitlisted" /\ reg'[u] = "confirmed"
          /\ reg[v] = "waitlisted" /\ reg'[v] = "waitlisted"
          => entry[u].pos < entry[v].pos]_vars

\* While nobody has written from an outdated copy every step is a step of the
\* seat ledger: the transactions, interleaved, act one after the other.
Ledger == INSTANCE SeatLedger
            WITH seated <- Confirmed,
                 rank <- [u \in Users |-> IF reg[u] = "waitlisted" THEN entry[u].pos ELSE 0]

ImplementsLedger == Ledger!LedgerInit /\ [][~stale' => Ledger!LedgerNext]_<<Ledger!ledgerVars>>

\* docs/ACCEPTANCE.md:9 and docs/USE_CASES.md:22: simultaneous registrations do
\* not exceed the capacity, because the row is locked.
CapacityNeverExceeded == Capacity > 0 => Cardinality(Confirmed) <= Capacity

\* docs/USE_CASES.md:9: a waiter moves up when somebody drops out or loses
\* eligibility, so no seat stays free while a player waits.
NoFreeSeatWhileWaiting == ~stale /\ Waitlisted # {} => Fills(count)
=============================================================================
