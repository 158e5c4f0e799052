------------------------- MODULE RegistrationProofs -------------------------
(***************************************************************************)
(* Theorems about Registration, for every finite set of players, every set *)
(* of handlers and processes and every capacity.                           *)
(***************************************************************************)
EXTENDS Registration, FiniteSetTheorems, TLAPS

-----------------------------------------------------------------------------
(* The inductive invariant                                                 *)

\* A busy session acts for a player; it holds the connection of its process
\* unless it is parked; what it decided to go on with was actionable.
Sessions ==
    \A h \in Handlers :
        /\ tx[h].pc # "idle" => tx[h].user \in Users
        /\ tx[h].pc \in {"loaded", "checked"} => conn[ProcOf[h]] = h
        /\ tx[h].pc = "parked" => tx[h].exposed
        /\ tx[h].pc = "checked" => Actionable(tx[h].op, tx[h].reg)

\* The seats: counted exactly, within the capacity, and marked when taken.
SeatsInv ==
    /\ CountIsExact
    /\ ~stale /\ Capacity > 0 => count <= Capacity
    /\ FullIsMarked

\* The waitlist: waiters are reachable, positions start at 1 and are distinct.
QueueInv ==
    /\ NoWaiterLost
    /\ PositionsDistinct
    /\ \A u \in Active : entry[u].pos >= 1

IInv == TypeOK /\ Sessions /\ SeatsInv /\ QueueInv

-----------------------------------------------------------------------------
(* Typing                                                                  *)

\* Any set of players is finite, so its size is a natural number.
LEMMA SizeOfPlayers ==
    ASSUME NEW S \in SUBSET Users
    PROVE  IsFiniteSet(S) /\ Cardinality(S) \in Nat
<1>1. IsFiniteSet(S)
  BY UsersAssumption, FS_Subset
<1> QED
  BY <1>1, FS_CardinalityType

\* Ending a transaction leaves well-typed sessions and connections.
LEMMA FinishTyped ==
    ASSUME TypeOK, NEW h \in Handlers, Finish(h)
    PROVE  /\ tx' \in [Handlers -> Tx]
           /\ conn' \in [Procs -> Handlers \cup {Nobody}]
           /\ sweep' \in Sweep
           /\ waitlistEnabled' \in BOOLEAN
<1>1. Idle \in Tx
  BY DEF Idle, Tx, EventStatus, RegStatus
<1>2. \A g \in Handlers : [tx[g] EXCEPT !.exposed = TRUE] \in Tx
  BY DEF TypeOK, Tx
<1> QED
  BY <1>1, <1>2, ProcOfAssumption DEF TypeOK, Finish

\* A retired waitlist row is a waitlist row.
LEMMA Retiring ==
    ASSUME TypeOK, NEW v \in Users
    PROVE  [entry[v] EXCEPT !.active = FALSE] \in Entry
BY DEF TypeOK, Entry

\* Every step keeps the types.
LEMMA TypeStep == TypeOK /\ Sessions /\ [Next]_vars => TypeOK'
<1> SUFFICES ASSUME TypeOK, Sessions, [Next]_vars
             PROVE  TypeOK'
  OBVIOUS
<1>1. ASSUME NEW h \in Handlers, NEW u \in Users, NEW op \in {"register", "void"},
             Load(h, u, op)
      PROVE  TypeOK'
  <2>1. [pc |-> "loaded", op |-> op, user |-> u, count |-> count,
         status |-> status, reg |-> "none", exposed |-> FALSE] \in Tx
    BY DEF TypeOK, Tx, RegStatus
  <2> QED
    BY <1>1, <2>1, ProcOfAssumption DEF Load, TypeOK, table
<1>2. ASSUME NEW h \in Handlers, Park(h)
      PROVE  TypeOK'
  <2>1. [tx[h] EXCEPT !.pc = "parked", !.exposed = TRUE] \in Tx
    BY DEF TypeOK, Tx
  <2>2. tx' = [tx EXCEPT ![h] = [tx[h] EXCEPT !.pc = "parked", !.exposed = TRUE]]
    BY <1>2 DEF Park, TypeOK, Tx
  <2> QED
    BY <1>2, <2>1, <2>2, ProcOfAssumption DEF Park, TypeOK, table
<1>3. ASSUME NEW h \in Handlers, Settle(h)
      PROVE  TypeOK'
  <2>1. CASE Check(h)
    <3>1. tx[h].user \in Users
      BY <2>1 DEF Check, Connected, Sessions
    <3>2. [tx[h] EXCEPT !.pc = "checked", !.reg = reg[tx[h].user]] \in Tx
      BY <3>1 DEF TypeOK, Tx
    <3>3. tx' = [tx EXCEPT ![h] = [tx[h] EXCEPT !.pc = "checked", !.reg = reg[tx[h].user]]]
      BY <2>1 DEF Check, TypeOK, Tx
    <3> QED
      BY <2>1, <3>2, <3>3, ProcOfAssumption DEF Check, TypeOK, table
  <2>2. CASE Refuse(h) \/ Duplicate(h) \/ WaitlistClash(h)
    BY <2>2, FinishTyped DEF Refuse, Duplicate, WaitlistClash, TypeOK
  <2> tx[h] \in Tx
    BY DEF TypeOK
  <2>3. ASSUME NEW s \in {"ineligible", "pending"}, Unqualified(h, s)
        PROVE  TypeOK'
    <3>1. reg' \in [Users -> RegStatus]
      BY <2>3 DEF Unqualified, TypeOK, RegStatus
    <3>2. stale' \in BOOLEAN /\ count' \in Nat /\ status' \in EventStatus
          /\ entry' \in [Users -> Entry]
      BY <2>3 DEF Unqualified, TypeOK, OldReg
    <3> QED
      BY <2>3, <3>1, <3>2, FinishTyped DEF Unqualified, TypeOK
  <2>4. CASE Confirm(h)
    <3>0. count' \in Nat
      BY <2>4 DEF Confirm, Tx
    <3>1. reg' \in [Users -> RegStatus] /\ entry' \in [Users -> Entry]
      BY <2>4 DEF Confirm, TypeOK, RegStatus
    <3>2. status' \in EventStatus /\ stale' \in BOOLEAN
      BY <2>4 DEF Confirm, Marked, TypeOK, EventStatus, Tx, OldReg, OldEvent
    <3> QED
      BY <2>4, <3>0, <3>1, <3>2, FinishTyped DEF Confirm, Marked, TypeOK
  <2>5. CASE JoinWaitlist(h)
    <3>1. reg' \in [Users -> RegStatus] /\ count' \in Nat
      BY <2>5 DEF JoinWaitlist, TypeOK, RegStatus
    <3>2. entry' \in [Users -> Entry]
      <4>1. PICK p \in {1} \cup {entry[v].pos + 1 : v \in Active} :
                 entry' = [entry EXCEPT ![tx[h].user] = [pos |-> p, active |-> TRUE]]
        BY <2>5 DEF JoinWaitlist
      <4>2. \A v \in Users : entry[v].pos \in Nat
        BY DEF TypeOK, Entry
      <4>3. p \in Nat
        BY <4>1, <4>2 DEF Active
      <4>4. [pos |-> p, active |-> TRUE] \in Entry
        BY <4>3 DEF Entry
      <4> QED
        BY <4>1, <4>4 DEF TypeOK
    <3>3. status' \in EventStatus /\ stale' \in BOOLEAN
      BY <2>5 DEF JoinWaitlist, TypeOK, EventStatus, OldReg, OldEvent
    <3> QED
      BY <2>5, <3>1, <3>2, <3>3, FinishTyped DEF JoinWaitlist, TypeOK
  <2>6. CASE EventFull(h)
    BY <2>6, FinishTyped DEF EventFull, TypeOK, RegStatus
  <2>7. CASE VoidAndPromote(h)
    <3>1. reg' \in [Users -> RegStatus]
      BY <2>7 DEF VoidAndPromote, Voided, TypeOK, RegStatus
    <3>2. entry' \in [Users -> Entry]
      BY <2>7, Retiring DEF VoidAndPromote, TypeOK
    <3>3. count' \in Nat
      BY <2>7 DEF VoidAndPromote, Less, Tx
    <3>4. status' \in EventStatus /\ stale' \in BOOLEAN
      BY <2>7 DEF VoidAndPromote, TypeOK, EventStatus, Tx, OldReg, OldEvent
    <3> QED
      BY <2>7, <3>1, <3>2, <3>3, <3>4, FinishTyped DEF VoidAndPromote, TypeOK
  <2>8. CASE VoidOnly(h)
    <3>1. reg' \in [Users -> RegStatus]
      BY <2>8 DEF VoidOnly, Voided, TypeOK, RegStatus
    <3>2. entry' \in [Users -> Entry]
      BY <2>8, Retiring DEF VoidOnly, TypeOK
    <3>3. count' \in Nat
      BY <2>8 DEF VoidOnly, Less, Tx, TypeOK
    <3>4. status' \in EventStatus /\ stale' \in BOOLEAN
      BY <2>8 DEF VoidOnly, TypeOK, EventStatus, Tx, OldReg, OldEvent
    <3> QED
      BY <2>8, <3>1, <3>2, <3>3, <3>4, FinishTyped DEF VoidOnly, TypeOK
  <2> QED
    BY <1>3, <2>1, <2>2, <2>3, <2>4, <2>5, <2>6, <2>7, <2>8 DEF Settle
<1>4. CASE SweepStart
  <2>1. Confirmed \in SUBSET Users
    BY DEF Confirmed
  <2> QED
    BY <1>4, <2>1 DEF SweepStart, TypeOK, table, Sweep
<1>5. ASSUME NEW D \in SUBSET Users, NEW through \in BOOLEAN, SweepEnd(D, through)
      PROVE  TypeOK'
  <2>1. count' \in Nat
    <3>1. Cardinality(D) \in Nat
      BY SizeOfPlayers
    <3>2. sweep.count \in Nat
      BY DEF TypeOK, Sweep
    <3> QED
      BY <1>5, <3>1, <3>2 DEF SweepEnd, LessBy, TypeOK
  <2>2. reg' \in [Users -> RegStatus] /\ status' \in EventStatus
    BY <1>5 DEF SweepEnd, TypeOK, RegStatus, EventStatus
  <2>3. tx' \in [Handlers -> Tx]
    <3>1. \A g \in Handlers : [tx[g] EXCEPT !.exposed = TRUE] \in Tx
      BY DEF TypeOK, Tx
    <3> QED
      BY <1>5, <3>1 DEF SweepEnd, TypeOK
  <2>4. stale' \in BOOLEAN /\ sweep' \in Sweep
    BY <1>5 DEF SweepEnd, TypeOK, Sweep, NoSweep
  <2> QED
    BY <1>5, <2>1, <2>2, <2>3, <2>4 DEF SweepEnd, TypeOK
<1>6. CASE UNCHANGED vars
  BY <1>6 DEF vars, TypeOK
<1> QED
  BY <1>1, <1>2, <1>3, <1>4, <1>5, <1>6 DEF Next

\* What a step of Settle is: the read of the registration, or a finished
\* transaction of a session that could go on.
LEMMA SettleIs ==
    ASSUME NEW h \in Handlers, Settle(h)
    PROVE  Check(h) \/ (Finish(h) /\ (Connected(h) \/ tx[h].pc = "checked"))
BY DEF Settle, Refuse, Duplicate, Unqualified, Registering, Confirm, JoinWaitlist,
       WaitlistClash, EventFull, VoidAndPromote, VoidOnly, Voiding

-----------------------------------------------------------------------------
(* Sessions                                                                *)

\* When a transaction ends, every other session has lost its claim to be
\* fresh: it belongs to another process, or it is parked.
LEMMA FinishExposes ==
    ASSUME TypeOK, Sessions, NEW h \in Handlers, Finish(h),
           Connected(h) \/ tx[h].pc = "checked"
    PROVE  \A g \in Handlers : tx'[g].pc = "idle" \/ tx'[g].exposed
<1> SUFFICES ASSUME NEW g \in Handlers, tx'[g].pc # "idle"
             PROVE  tx'[g].exposed
  OBVIOUS
<1>1. g # h /\ tx[g].pc # "idle"
  BY DEF Finish, Idle
<1>2. CASE ProcOf[g] # ProcOf[h]
  BY <1>1, <1>2 DEF Finish, TypeOK, Tx
<1>3. CASE ProcOf[g] = ProcOf[h]
  <2>1. conn[ProcOf[h]] = h \/ conn[ProcOf[h]] = Nobody
    BY DEF Connected, Sessions
  <2>2. conn[ProcOf[g]] # g
    BY <1>1, <1>3, <2>1, HandlersAssumption
  <2>3. tx[g].pc = "parked"
    BY <1>1, <2>2 DEF Sessions, TypeOK, Tx
  <2> QED
    BY <1>1, <1>3, <2>3 DEF Finish, Sessions
<1> QED
  BY <1>2, <1>3

\* Ending a transaction keeps what is known of the other sessions.
LEMMA FinishKeepsSessions ==
    ASSUME TypeOK, Sessions, NEW h \in Handlers, Finish(h),
           Connected(h) \/ tx[h].pc = "checked"
    PROVE  Sessions'
<1> SUFFICES ASSUME NEW g \in Handlers
             PROVE  /\ tx'[g].pc # "idle" => tx'[g].user \in Users
                    /\ tx'[g].pc \in {"loaded", "checked"} => conn'[ProcOf[g]] = g
                    /\ tx'[g].pc = "parked" => tx'[g].exposed
                    /\ tx'[g].pc = "checked" => Actionable(tx'[g].op, tx'[g].reg)
  BY DEF Sessions, Actionable
<1>1. CASE tx'[g].pc = "idle"
  BY <1>1
<1>2. CASE tx'[g].pc # "idle"
  <2>1. g # h /\ tx[g].pc # "idle"
    BY <1>2 DEF Finish, Idle
  <2>2. /\ tx'[g].pc = tx[g].pc
        /\ tx'[g].user = tx[g].user
        /\ tx'[g].op = tx[g].op
        /\ tx'[g].reg = tx[g].reg
    BY <2>1 DEF Finish, TypeOK, Tx
  <2>3. tx'[g].exposed
    BY <1>2, FinishExposes
  <2>4. ASSUME tx[g].pc \in {"loaded", "checked"}
        PROVE  conn'[ProcOf[g]] = g
    <3>1. conn[ProcOf[g]] = g
      BY <2>4 DEF Sessions
    <3>2. ProcOf[g] # ProcOf[h]
      BY <2>1, <3>1, HandlersAssumption DEF Connected, Sessions
    <3> QED
      BY <3>1, <3>2, ProcOfAssumption DEF Finish, TypeOK
  <2> QED
    BY <2>1, <2>2, <2>3, <2>4 DEF Sessions, Actionable
<1> QED
  BY <1>1, <1>2

\* Every step keeps what is known of the sessions: each acts for a player, and
\* one that has checked holds its process's connection and has something to do.
LEMMA SessionsStep == TypeOK /\ Sessions /\ [Next]_vars => Sessions'
<1> SUFFICES ASSUME TypeOK, Sessions, [Next]_vars
             PROVE  Sessions'
  OBVIOUS
<1>1. ASSUME NEW h \in Handlers, NEW u \in Users, NEW op \in {"register", "void"},
             Load(h, u, op)
      PROVE  Sessions'
  BY <1>1, ProcOfAssumption, HandlersAssumption DEF Load, Sessions, Actionable, TypeOK
<1>2. ASSUME NEW h \in Handlers, Park(h)
      PROVE  Sessions'
  BY <1>2, ProcOfAssumption DEF Park, Sessions, Actionable, TypeOK, Tx
<1>3. ASSUME NEW h \in Handlers, Settle(h)
      PROVE  Sessions'
  <2>1. CASE Check(h)
    <3>1. conn[ProcOf[h]] = h \/ conn[ProcOf[h]] = Nobody
      BY <2>1 DEF Check, Connected, Sessions
    <3>2. \A g \in Handlers \ {h} : tx'[g] = tx[g] /\
              (tx[g].pc \in {"loaded", "checked"} => conn'[ProcOf[g]] = g)
      BY <2>1, <3>1, ProcOfAssumption, HandlersAssumption DEF Check, Sessions, TypeOK
    <3>3. /\ tx'[h].pc = "checked"
          /\ tx'[h].user = tx[h].user /\ tx[h].user \in Users
          /\ conn'[ProcOf[h]] = h
          /\ Actionable(tx'[h].op, tx'[h].reg)
      <4>1. tx[h].user \in Users
        BY <2>1 DEF Check, Connected, Sessions
      <4>2. /\ tx'[h].pc = "checked"
            /\ tx'[h].user = tx[h].user
            /\ tx'[h].op = tx[h].op
            /\ tx'[h].reg = reg[tx[h].user]
        BY <2>1 DEF Check, TypeOK, Tx
      <4>3. conn'[ProcOf[h]] = h
        BY <2>1, ProcOfAssumption DEF Check, TypeOK
      <4> QED
        BY <2>1, <4>1, <4>2, <4>3 DEF Check, Actionable
    <3> QED
      BY <3>2, <3>3 DEF Sessions, Actionable
  <2> QED
    BY <1>3, <2>1, SettleIs, FinishKeepsSessions
<1>4. CASE SweepStart
  BY <1>4 DEF SweepStart, Sessions, Actionable
<1>5. ASSUME NEW D \in SUBSET Users, NEW through \in BOOLEAN, SweepEnd(D, through)
      PROVE  Sessions'
  <2>1. ASSUME NEW g \in Handlers
        PROVE  /\ tx'[g].pc = tx[g].pc
               /\ tx'[g].user = tx[g].user
               /\ tx'[g].op = tx[g].op
               /\ tx'[g].reg = tx[g].reg
               /\ tx[g].exposed => tx'[g].exposed
    BY <1>5 DEF SweepEnd, TypeOK, Tx
  <2> QED
    BY <1>5, <2>1 DEF SweepEnd, Sessions, Actionable
<1>6. CASE UNCHANGED vars
  BY <1>6 DEF vars, Sessions, Actionable
<1> QED
  BY <1>1, <1>2, <1>3, <1>4, <1>5, <1>6 DEF Next

-----------------------------------------------------------------------------
(* Pinned copies                                                           *)

\* A copy that has not been exposed stays what the rows are: reading copies
\* the rows, and whoever writes exposes every other session.
LEMMA PinnedStep ==
    TypeOK /\ Sessions /\ PinnedCopyIsFresh /\ [Next]_vars => PinnedCopyIsFresh'
<1> SUFFICES ASSUME TypeOK, Sessions, PinnedCopyIsFresh, [Next]_vars
             PROVE  PinnedCopyIsFresh'
  OBVIOUS
<1>1. ASSUME NEW h \in Handlers, NEW u \in Users, NEW op \in {"register", "void"},
             Load(h, u, op)
      PROVE  PinnedCopyIsFresh'
  BY <1>1 DEF Load, PinnedCopyIsFresh, OldEvent, OldReg, TypeOK, table
<1>2. ASSUME NEW h \in Handlers, Park(h)
      PROVE  PinnedCopyIsFresh'
  <2>1. tx'[h].exposed /\ \A g \in Handlers \ {h} : tx'[g] = tx[g]
    BY <1>2 DEF Park, TypeOK, Tx
  <2> QED
    BY <1>2, <2>1 DEF Park, PinnedCopyIsFresh, OldEvent, OldReg, table
<1>3. ASSUME NEW h \in Handlers, Settle(h)
      PROVE  PinnedCopyIsFresh'
  <2>1. CASE Check(h)
    <3>1. /\ \A g \in Handlers \ {h} : tx'[g] = tx[g]
          /\ tx'[h].exposed = tx[h].exposed
          /\ tx'[h].user = tx[h].user
          /\ tx'[h].count = tx[h].count /\ tx'[h].status = tx[h].status
          /\ tx'[h].reg = reg[tx[h].user]
      BY <2>1 DEF Check, TypeOK, Tx
    <3>2. tx[h].pc # "idle"
      BY <2>1 DEF Check, Connected
    <3>3. count' = count /\ status' = status /\ reg' = reg
      BY <2>1 DEF Check, table
    <3> SUFFICES ASSUME NEW g \in Handlers, tx'[g].pc # "idle", ~tx'[g].exposed
                 PROVE  /\ tx'[g].count = count' /\ tx'[g].status = status'
                        /\ tx'[g].pc = "checked" => tx'[g].reg = reg'[tx'[g].user]
      BY DEF PinnedCopyIsFresh, OldEvent, OldReg
    <3>4. CASE g = h
      BY <3>1, <3>2, <3>3, <3>4 DEF PinnedCopyIsFresh, OldEvent
    <3>5. CASE g # h
      BY <3>1, <3>3, <3>5 DEF PinnedCopyIsFresh, OldEvent, OldReg
    <3> QED
      BY <3>4, <3>5
  <2>2. CASE Finish(h) /\ (Connected(h) \/ tx[h].pc = "checked")
    BY <2>2, FinishExposes DEF PinnedCopyIsFresh
  <2> QED
    BY <1>3, <2>1, <2>2, SettleIs
<1>4. CASE SweepStart
  BY <1>4 DEF SweepStart, PinnedCopyIsFresh, OldEvent, OldReg, table
<1>5. ASSUME NEW D \in SUBSET Users, NEW through \in BOOLEAN, SweepEnd(D, through)
      PROVE  PinnedCopyIsFresh'
  <2>1. \A g \in Handlers : tx'[g].pc = "idle" \/ tx'[g].exposed
    BY <1>5 DEF SweepEnd, TypeOK, Tx
  <2> QED
    BY <2>1 DEF PinnedCopyIsFresh
<1>6. CASE UNCHANGED vars
  BY <1>6 DEF vars, PinnedCopyIsFresh, OldEvent, OldReg
<1> QED
  BY <1>1, <1>2, <1>3, <1>4, <1>5, <1>6 DEF Next

-----------------------------------------------------------------------------
(* The waitlist                                                            *)

\* The position a new waiter gets is a natural number behind every active one.
LEMMA NextPositionIsLast ==
    ASSUME TypeOK, QueueInv, NEW p, IsNextPosition(p)
    PROVE  p \in Nat /\ p >= 1 /\ \A v \in Active : entry[v].pos < p
<1>1. \A v \in Users : entry[v].pos \in Nat
  BY DEF TypeOK, Entry
<1> QED
  BY <1>1 DEF IsNextPosition, Active

\* QueueInv reads nothing but the registrations and the waitlist.
LEMMA QueueUnchanged ==
    QueueInv /\ UNCHANGED <<reg, entry>> => QueueInv'
BY DEF QueueInv, NoWaiterLost, PositionsDistinct, Active, Waitlisted

\* Every step keeps the waitlist in order, outdated copies or not.
LEMMA QueueStep == TypeOK /\ Sessions /\ QueueInv /\ [Next]_vars => QueueInv'
<1> SUFFICES ASSUME TypeOK, Sessions, QueueInv, [Next]_vars
             PROVE  QueueInv'
  OBVIOUS
<1>1. ASSUME NEW h \in Handlers, NEW u \in Users, NEW op \in {"register", "void"},
             Load(h, u, op)
      PROVE  QueueInv'
  BY <1>1, QueueUnchanged DEF Load, table
<1>2. ASSUME NEW h \in Handlers, Park(h)
      PROVE  QueueInv'
  BY <1>2, QueueUnchanged DEF Park, table
<1>3. ASSUME NEW h \in Handlers, Settle(h)
      PROVE  QueueInv'
  <2>1. CASE Check(h) \/ Refuse(h) \/ Duplicate(h) \/ WaitlistClash(h)
    BY <2>1, QueueUnchanged DEF Check, Refuse, Duplicate, WaitlistClash, table
  <2>2. ASSUME NEW s \in {"ineligible", "pending"}, Unqualified(h, s)
        PROVE  QueueInv'
    <3>1. entry' = entry /\ Waitlisted' \subseteq Waitlisted
      BY <2>2 DEF Unqualified, Waitlisted, TypeOK
    <3> QED
      BY <3>1 DEF QueueInv, NoWaiterLost, PositionsDistinct, Active
  <2>3. CASE Confirm(h)
    <3>1. entry' = entry /\ Waitlisted' \subseteq Waitlisted
      BY <2>3 DEF Confirm, Waitlisted, TypeOK
    <3> QED
      BY <3>1 DEF QueueInv, NoWaiterLost, PositionsDistinct, Active
  <2>4. CASE JoinWaitlist(h)
    <3> DEFINE u == tx[h].user
    <3>1. u \in Users
      BY <2>4 DEF JoinWaitlist, Registering, Sessions
    <3>2. PICK p : IsNextPosition(p) /\
                   entry' = [entry EXCEPT ![u] = [pos |-> p, active |-> TRUE]]
      BY <2>4 DEF JoinWaitlist
    <3>3. p \in Nat /\ p >= 1 /\ \A v \in Active : entry[v].pos < p
      BY <3>2, NextPositionIsLast
    <3>4. /\ entry'[u] = [pos |-> p, active |-> TRUE]
          /\ \A v \in Users \ {u} : entry'[v] = entry[v]
      BY <3>1, <3>2 DEF TypeOK
    <3>5. Waitlisted' \subseteq Waitlisted \cup {u} /\ Active' \subseteq Active \cup {u}
      BY <2>4, <3>4 DEF JoinWaitlist, Waitlisted, TypeOK, Active
    <3>6. NoWaiterLost'
      BY <3>4, <3>5 DEF QueueInv, NoWaiterLost, Waitlisted
    <3>7. PositionsDistinct'
      <4>1. \A v \in Active : entry[v].pos \in Nat
        BY DEF Active, TypeOK, Entry
      <4> QED
        BY <3>3, <3>4, <3>5, <4>1 DEF QueueInv, PositionsDistinct, Active
    <3>8. \A v \in Active' : entry'[v].pos >= 1
      BY <3>3, <3>4, <3>5 DEF QueueInv, Active
    <3> QED
      BY <3>6, <3>7, <3>8 DEF QueueInv
  <2>5. CASE EventFull(h)
    <3>1. entry' = entry /\ Waitlisted' \subseteq Waitlisted
      BY <2>5 DEF EventFull, Waitlisted, TypeOK
    <3> QED
      BY <3>1 DEF QueueInv, NoWaiterLost, PositionsDistinct, Active
  <2>6. CASE VoidAndPromote(h)
    <3>1. PICK w \in Users :
             /\ IsHeir(w, Voided(h))
             /\ reg' = [Voided(h) EXCEPT ![w] = "confirmed"]
             /\ entry' = [v \in Users |-> IF v \in Active /\ entry[v].pos <= entry[w].pos
                                          THEN [entry[v] EXCEPT !.active = FALSE]
                                          ELSE entry[v]]
      BY <2>6 DEF VoidAndPromote
    <3>2. \A v \in Users : entry'[v].pos = entry[v].pos
      BY <3>1 DEF TypeOK, Entry
    <3>3. Active' \subseteq Active
      BY <3>1 DEF Active, TypeOK, Entry
    <3>4. Waitlisted' \subseteq Waitlisted \ {w}
      BY <3>1 DEF Waitlisted, Voided, TypeOK
    <3>5. ASSUME NEW v \in Waitlisted'
          PROVE  entry'[v].active
      <4>1. v \in Users /\ v # w /\ v \in Active
        BY <3>4, <3>5 DEF QueueInv, NoWaiterLost, Waitlisted, Active
      <4>2. Voided(h)[v] = "waitlisted"
        BY <3>1, <3>5, <4>1 DEF Waitlisted, Voided, TypeOK
      <4>3. entry[w].pos <= entry[v].pos /\ w \in Active
        BY <3>1, <4>1, <4>2 DEF IsHeir
      <4>4. entry[w].pos # entry[v].pos
        BY <4>1, <4>3 DEF QueueInv, PositionsDistinct
      <4>5. ~(entry[v].pos <= entry[w].pos)
        BY <4>1, <4>3, <4>4 DEF TypeOK, Entry
      <4> QED
        BY <3>1, <4>1, <4>5 DEF Active
    <3> QED
      BY <3>2, <3>3, <3>5 DEF QueueInv, NoWaiterLost, PositionsDistinct, Active
  <2>7. CASE VoidOnly(h)
    <3>1. Waitlisted' \subseteq Waitlisted
      BY <2>7 DEF VoidOnly, Waitlisted, Voided, TypeOK
    <3>2. CASE entry' = entry
      BY <3>1, <3>2 DEF QueueInv, NoWaiterLost, PositionsDistinct, Active
    <3>3. CASE /\ \A v \in Active : Voided(h)[v] # "waitlisted"
               /\ entry' = [v \in Users |-> [entry[v] EXCEPT !.active = FALSE]]
      <4>1. Waitlisted' = {}
        BY <2>7, <3>1, <3>3 DEF VoidOnly, QueueInv, NoWaiterLost, Waitlisted, Active
      <4>2. Active' = {}
        BY <3>3 DEF Active, TypeOK, Entry
      <4> QED
        BY <4>1, <4>2 DEF QueueInv, NoWaiterLost, PositionsDistinct
    <3> QED
      BY <2>7, <3>2, <3>3 DEF VoidOnly
  <2> QED
    BY <1>3, <2>1, <2>2, <2>3, <2>4, <2>5, <2>6, <2>7 DEF Settle
<1>4. CASE SweepStart
  BY <1>4, QueueUnchanged DEF SweepStart, table
<1>5. ASSUME NEW D \in SUBSET Users, NEW through \in BOOLEAN, SweepEnd(D, through)
      PROVE  QueueInv'
  <2>1. entry' = entry /\ Waitlisted' \subseteq Waitlisted
    BY <1>5 DEF SweepEnd, Waitlisted
  <2> QED
    BY <2>1 DEF QueueInv, NoWaiterLost, PositionsDistinct, Active
<1>6. CASE UNCHANGED vars
  BY <1>6, QueueUnchanged DEF vars
<1> QED
  BY <1>1, <1>2, <1>3, <1>4, <1>5, <1>6 DEF Next

-----------------------------------------------------------------------------
(* The seats                                                               *)

\* A step that leaves the event row and the seats alone, or writes from an
\* outdated copy, keeps SeatsInv.
LEMMA SeatsKept ==
    ASSUME SeatsInv, count' = count, status' = status,
           ~stale' => ~stale /\ Confirmed' = Confirmed
    PROVE  SeatsInv'
BY DEF SeatsInv, CountIsExact, FullIsMarked, Fills

\* The number of seats after one more player, or one player less.
LEMMA SeatsCounted ==
    ASSUME NEW u \in Users
    PROVE  /\ u \notin Confirmed => Cardinality(Confirmed \cup {u}) = Cardinality(Confirmed) + 1
           /\ u \in Confirmed => Cardinality(Confirmed \ {u}) = Cardinality(Confirmed) - 1
           /\ u \in Confirmed => Cardinality(Confirmed) >= 1
           /\ Cardinality(Confirmed) \in Nat
<1>1. IsFiniteSet(Confirmed) /\ Cardinality(Confirmed) \in Nat
  BY SizeOfPlayers DEF Confirmed
<1>2. IsFiniteSet(Confirmed \ {u}) /\ Cardinality(Confirmed \ {u}) \in Nat
  BY SizeOfPlayers DEF Confirmed
<1>3. u \notin Confirmed => Cardinality(Confirmed \cup {u}) = Cardinality(Confirmed) + 1
  BY <1>1, FS_AddElement
<1>4. u \in Confirmed => Cardinality(Confirmed \ {u}) = Cardinality(Confirmed) - 1
  BY <1>1, FS_RemoveElement
<1> QED
  BY <1>1, <1>2, <1>3, <1>4

\* Giving back the seat of u and giving one to w, who had none.
LEMMA SeatHandedOver ==
    ASSUME NEW u \in Users, NEW w \in Users, u \in Confirmed, w \notin Confirmed
    PROVE  Cardinality((Confirmed \ {u}) \cup {w}) = Cardinality(Confirmed)
<1>1. IsFiniteSet(Confirmed \ {u})
  BY SizeOfPlayers DEF Confirmed
<1>2. Cardinality((Confirmed \ {u}) \cup {w}) = Cardinality(Confirmed \ {u}) + 1
  BY <1>1, FS_AddElement
<1> QED
  BY <1>2, SeatsCounted

\* What Confirm does when its copies are up to date.
LEMMA FreshConfirm ==
    ASSUME TypeOK, Sessions, NEW h \in Handlers, Confirm(h), ~stale'
    PROVE  /\ ~stale /\ tx[h].count = count /\ tx[h].status = status
           /\ tx[h].user \in Users
           /\ tx[h].user \notin Confirmed /\ tx[h].user \notin Waitlisted
           /\ Confirmed' = Confirmed \cup {tx[h].user}
<1>1. /\ ~stale /\ tx[h].count = count /\ tx[h].status = status
      /\ tx[h].reg = reg[tx[h].user]
  BY DEF Confirm, OldReg, OldEvent
<1>2. tx[h].user \in Users /\ Actionable("register", reg[tx[h].user])
  BY <1>1 DEF Confirm, Registering, Sessions
<1> QED
  BY <1>1, <1>2 DEF Confirm, Actionable, Confirmed, Waitlisted, TypeOK

\* What a take-back reads when its copies are up to date.
LEMMA FreshVoid ==
    ASSUME TypeOK, Sessions, NEW h \in Handlers, Voiding(h), ~OldReg(h)
    PROVE  tx[h].user \in Confirmed /\ tx[h].user \in Users
BY DEF Voiding, Sessions, Actionable, OldReg, Confirmed

\* Every step keeps the seats counted, bounded and marked until somebody has
\* written from an outdated copy.
LEMMA SeatsStep == TypeOK /\ Sessions /\ SeatsInv /\ [Next]_vars => SeatsInv'
<1> SUFFICES ASSUME TypeOK, Sessions, SeatsInv, [Next]_vars
             PROVE  SeatsInv'
  OBVIOUS
<1> USE CapacityAssumption
<1>1. ASSUME NEW h \in Handlers, NEW u \in Users, NEW op \in {"register", "void"},
             Load(h, u, op)
      PROVE  SeatsInv'
  BY <1>1, SeatsKept DEF Load, table, Confirmed
<1>2. ASSUME NEW h \in Handlers, Park(h)
      PROVE  SeatsInv'
  BY <1>2, SeatsKept DEF Park, table, Confirmed
<1>3. ASSUME NEW h \in Handlers, Settle(h)
      PROVE  SeatsInv'
  <2>1. CASE Check(h) \/ Refuse(h) \/ Duplicate(h) \/ WaitlistClash(h)
    BY <2>1, SeatsKept DEF Check, Refuse, Duplicate, WaitlistClash, table, Confirmed
  <2>2. ASSUME NEW s \in {"ineligible", "pending"}, Unqualified(h, s)
        PROVE  SeatsInv'
    <3>1. ASSUME ~stale'
          PROVE  ~stale /\ Confirmed' = Confirmed
      <4>1. ~stale /\ (s = tx[h].reg \/ tx[h].reg = reg[tx[h].user])
        BY <2>2, <3>1 DEF Unqualified, OldReg
      <4>2. tx[h].user \in Users /\ Actionable("register", tx[h].reg)
        BY <2>2 DEF Unqualified, Registering, Sessions
      <4> QED
        BY <2>2, <4>1, <4>2 DEF Unqualified, Actionable, Confirmed, TypeOK
    <3> QED
      BY <2>2, <3>1, SeatsKept DEF Unqualified
  <2>3. CASE Confirm(h)
    <3> SUFFICES ASSUME ~stale' PROVE SeatsInv'
      BY DEF SeatsInv, CountIsExact, FullIsMarked
    <3>1. /\ ~stale /\ tx[h].count = count /\ tx[h].status = status
          /\ Cardinality(Confirmed') = Cardinality(Confirmed) + 1
      BY <2>3, FreshConfirm, SeatsCounted
    <3>2. count' = count + 1 /\ count \in Nat /\ HasRoom(count)
      BY <2>3, <3>1 DEF Confirm, TypeOK
    <3>3. CountIsExact'
      BY <3>1, <3>2 DEF SeatsInv, CountIsExact
    <3>4. Capacity > 0 => count' <= Capacity
      BY <3>2 DEF HasRoom
    <3>5. FullIsMarked'
      BY <2>3, <3>1, <3>2 DEF Confirm, Marked, FullIsMarked, Fills
    <3> QED
      BY <3>3, <3>4, <3>5 DEF SeatsInv
  <2>4. CASE JoinWaitlist(h)
    <3> SUFFICES ASSUME ~stale' PROVE SeatsInv'
      BY DEF SeatsInv, CountIsExact, FullIsMarked
    <3>1. /\ ~stale /\ tx[h].status = status
          /\ tx[h].reg = reg[tx[h].user]
      BY <2>4 DEF JoinWaitlist, OldReg, OldEvent
    <3>2. tx[h].user \in Users /\ Actionable("register", reg[tx[h].user])
      BY <2>4, <3>1 DEF JoinWaitlist, Registering, Sessions
    <3>3. Confirmed' = Confirmed /\ count' = count
      BY <2>4, <3>2 DEF JoinWaitlist, Actionable, Confirmed, TypeOK
    <3> QED
      BY <2>4, <3>1, <3>3 DEF JoinWaitlist, SeatsInv, CountIsExact, FullIsMarked, Fills
  <2>5. CASE EventFull(h)
    <3>1. Confirmed' = Confirmed
      <4>1. tx[h].user \in Users
        BY <2>5 DEF EventFull, Registering, Sessions
      <4>2. tx[h].reg = "none" => reg[tx[h].user] = "none"
        BY <2>5 DEF EventFull, Collides
      <4> QED
        BY <2>5, <4>1, <4>2 DEF EventFull, Confirmed, TypeOK
    <3> QED
      BY <2>5, <3>1, SeatsKept DEF EventFull
  <2>6. CASE VoidAndPromote(h)
    <3> SUFFICES ASSUME ~stale' PROVE SeatsInv'
      BY DEF SeatsInv, CountIsExact, FullIsMarked
    <3>1. /\ ~stale /\ tx[h].count = count /\ tx[h].status = status
          /\ tx[h].user \in Confirmed /\ tx[h].user \in Users
      BY <2>6, FreshVoid DEF VoidAndPromote, OldReg, OldEvent
    <3>2. PICK w \in Users : IsHeir(w, Voided(h)) /\ reg' = [Voided(h) EXCEPT ![w] = "confirmed"]
      BY <2>6 DEF VoidAndPromote
    <3>3. w \notin Confirmed
      BY <3>1, <3>2 DEF IsHeir, Voided, Confirmed, TypeOK
    <3>4. Confirmed' = (Confirmed \ {tx[h].user}) \cup {w}
      BY <3>1, <3>2, <3>3 DEF Voided, Confirmed, TypeOK
    <3>5. /\ count = Cardinality(Confirmed) /\ count \in Nat /\ count >= 1
          /\ Cardinality(Confirmed') = count
      BY <3>1, <3>3, <3>4, SeatsCounted, SeatHandedOver DEF SeatsInv, CountIsExact, TypeOK
    <3>6. count' = count
      BY <2>6, <3>1, <3>5 DEF VoidAndPromote, Less
    <3>7. FullIsMarked'
      BY <2>6, <3>1, <3>5, <3>6 DEF VoidAndPromote, FullIsMarked, Fills, Less
    <3> QED
      BY <3>1, <3>5, <3>6, <3>7 DEF SeatsInv, CountIsExact
  <2>7. CASE VoidOnly(h)
    <3> SUFFICES ASSUME ~stale' PROVE SeatsInv'
      BY DEF SeatsInv, CountIsExact, FullIsMarked
    <3>1. /\ ~stale /\ tx[h].count = count /\ tx[h].status = status
          /\ tx[h].user \in Confirmed /\ tx[h].user \in Users
      BY <2>7, FreshVoid DEF VoidOnly, OldReg, OldEvent
    <3>2. Confirmed' = Confirmed \ {tx[h].user}
      BY <2>7, <3>1 DEF VoidOnly, Voided, Confirmed, TypeOK
    <3>3. /\ count = Cardinality(Confirmed) /\ count \in Nat /\ count >= 1
          /\ Cardinality(Confirmed') = count - 1
      BY <3>1, <3>2, SeatsCounted DEF SeatsInv, CountIsExact, TypeOK
    <3>4. count' = count - 1
      BY <2>7, <3>1, <3>3 DEF VoidOnly, Less
    <3>5. FullIsMarked'
      BY <2>7, <3>1, <3>3, <3>4
         DEF VoidOnly, SeatsInv, FullIsMarked, Fills, Reopens, HasRoom, Less
    <3> QED
      BY <3>1, <3>3, <3>4, <3>5 DEF SeatsInv, CountIsExact
  <2> QED
    BY <1>3, <2>1, <2>2, <2>3, <2>4, <2>5, <2>6, <2>7 DEF Settle
<1>4. CASE SweepStart
  BY <1>4, SeatsKept DEF SweepStart, table, Confirmed
<1>5. ASSUME NEW D \in SUBSET Users, NEW through \in BOOLEAN, SweepEnd(D, through)
      PROVE  SeatsInv'
  <2> SUFFICES ASSUME ~stale' PROVE SeatsInv'
    BY DEF SeatsInv, CountIsExact, FullIsMarked
  <2>1. ~stale /\ (D # {} => sweep.count = count /\ D \subseteq Confirmed)
    BY <1>5 DEF SweepEnd
  <2>2. Confirmed' = Confirmed \ D
    BY <1>5 DEF SweepEnd, Confirmed
  <2>3. status' # "published" \/ status' = status
    BY <1>5 DEF SweepEnd
  <2>4. count \in Nat /\ count = Cardinality(Confirmed)
    BY <2>1 DEF TypeOK, SeatsInv, CountIsExact
  <2>5. /\ D \subseteq Confirmed
        /\ count' = count - Cardinality(D)
        /\ Cardinality(D) \in Nat /\ Cardinality(D) <= count
    <3>1. D \subseteq Confirmed
      BY <2>1
    <3>2. IsFiniteSet(Confirmed) /\ Cardinality(D) \in Nat
      BY SizeOfPlayers DEF Confirmed
    <3>3. Cardinality(D) <= count
      BY <2>4, <3>1, <3>2, FS_Subset
    <3>4. D = {} => Cardinality(D) = 0
      BY FS_EmptySet
    <3> QED
      BY <1>5, <2>1, <2>4, <3>1, <3>2, <3>3, <3>4 DEF SweepEnd, LessBy
  <2>6. Cardinality(Confirmed') = Cardinality(Confirmed) - Cardinality(D)
    <3>1. IsFiniteSet(Confirmed) /\ Confirmed \cap D = D
      BY <2>5, SizeOfPlayers DEF Confirmed
    <3>2. Cardinality(Confirmed \ D) = Cardinality(Confirmed) - Cardinality(Confirmed \cap D)
      BY <3>1, FS_Difference
    <3> QED
      BY <2>2, <3>1, <3>2
  <2>7. CountIsExact' /\ count' <= count /\ count' \in Nat
    BY <2>4, <2>5, <2>6 DEF CountIsExact
  <2> QED
    BY <2>1, <2>3, <2>4, <2>7 DEF SeatsInv, FullIsMarked, Fills
<1>6. CASE UNCHANGED vars
  BY <1>6, SeatsKept DEF vars, Confirmed
<1> QED
  BY <1>1, <1>2, <1>3, <1>4, <1>5, <1>6 DEF Next

-----------------------------------------------------------------------------
(* The theorems                                                            *)

\* The inductive invariant holds initially ...
LEMMA InitIInv == Init => IInv /\ PinnedCopyIsFresh
<1> SUFFICES ASSUME Init
             PROVE  IInv /\ PinnedCopyIsFresh
  OBVIOUS
<1>1. Idle \in Tx /\ NoEntry \in Entry /\ NoSweep \in Sweep
  BY DEF Idle, Tx, NoEntry, Entry, NoSweep, Sweep, EventStatus, RegStatus
<1>2. TypeOK
  BY <1>1 DEF Init, TypeOK, EventStatus, RegStatus
<1>3. Sessions /\ PinnedCopyIsFresh
  BY DEF Init, Sessions, PinnedCopyIsFresh, Idle
<1>4. Confirmed = {} /\ Waitlisted = {} /\ Active = {}
  BY DEF Init, Confirmed, Waitlisted, Active, NoEntry
<1>5. SeatsInv
  BY <1>4, FS_EmptySet, CapacityAssumption DEF Init, SeatsInv, CountIsExact, FullIsMarked, Fills
<1>6. QueueInv
  BY <1>4 DEF QueueInv, NoWaiterLost, PositionsDistinct
<1> QED
  BY <1>2, <1>3, <1>5, <1>6 DEF IInv

\* ... and every step keeps it.
LEMMA StepIInv ==
    IInv /\ PinnedCopyIsFresh /\ [Next]_vars => (IInv /\ PinnedCopyIsFresh)'
BY TypeStep, SessionsStep, SeatsStep, QueueStep, PinnedStep DEF IInv

\* The inductive invariant: types, sessions, seats and waitlist together, and the
\* copies of the sessions that kept their connection.
THEOREM Inductive == Spec => [](IInv /\ PinnedCopyIsFresh)
<1> QED
  BY InitIInv, StepIInv, PTL DEF Spec

\* The rows, the sessions and the sweep keep their types: in particular the
\* counter never goes below zero, whatever outdated copy it is written from.
THEOREM TypeCorrect == Spec => []TypeOK
<1>1. IInv => TypeOK
  BY DEF IInv
<1> QED
  BY <1>1, Inductive, PTL

\* As long as nobody has written from an outdated copy, confirmed_count counts
\* the confirmed registrations.
THEOREM CountExact == Spec => []CountIsExact
<1>1. IInv => CountIsExact
  BY DEF IInv, SeatsInv
<1> QED
  BY <1>1, Inductive, PTL

\* ... and no more players hold a seat than the capacity allows ...
THEOREM CapacitySafe == Spec => []CapacityRespected
<1>1. IInv => CapacityRespected
  BY DEF IInv, SeatsInv, CountIsExact, CapacityRespected
<1> QED
  BY <1>1, Inductive, PTL

\* ... and a custom whose seats are all taken is not listed as open.
THEOREM FullMarked == Spec => []FullIsMarked
<1>1. IInv => FullIsMarked
  BY DEF IInv, SeatsInv
<1> QED
  BY <1>1, Inductive, PTL

\* Even when handlers write from outdated copies, every waiting player keeps an
\* active entry.
THEOREM WaitersReachable == Spec => []NoWaiterLost
<1>1. IInv => NoWaiterLost
  BY DEF IInv, QueueInv
<1> QED
  BY <1>1, Inductive, PTL

\* ... and no two active entries share a position.
THEOREM PositionsUnique == Spec => []PositionsDistinct
<1>1. IInv => PositionsDistinct
  BY DEF IInv, QueueInv
<1> QED
  BY <1>1, Inductive, PTL

\* The one connection of a process keeps the copy of its session fresh.
THEOREM PinnedFresh == Spec => []PinnedCopyIsFresh
<1> QED
  BY Inductive, PTL

-----------------------------------------------------------------------------
(* Order of service, and the seat ledger                                   *)

\* The only up-to-date step that seats a waiter is a take-back.
LEMMA SeatingWaiter ==
    ASSUME IInv, [Next]_vars, ~stale',
           NEW u \in Users, reg[u] = "waitlisted", reg'[u] = "confirmed"
    PROVE  \E h \in Handlers : VoidAndPromote(h) /\ IsHeir(u, Voided(h))
<1> USE DEF IInv
<1>1. ASSUME NEW h \in Handlers, NEW s \in {"ineligible", "pending"}, Unqualified(h, s)
      PROVE  FALSE
  BY <1>1 DEF Unqualified, TypeOK
<1>2. ASSUME NEW h \in Handlers, Confirm(h)
      PROVE  FALSE
  <2>1. u \notin {tx[h].user}
    BY <1>2, FreshConfirm DEF Waitlisted
  <2> QED
    BY <1>2, <2>1 DEF Confirm, TypeOK
<1>3. ASSUME NEW h \in Handlers, JoinWaitlist(h) \/ EventFull(h) \/ VoidOnly(h)
      PROVE  FALSE
  BY <1>3 DEF JoinWaitlist, EventFull, VoidOnly, Voided, TypeOK
<1>4. ASSUME NEW D \in SUBSET Users, NEW through \in BOOLEAN, SweepEnd(D, through)
      PROVE  FALSE
  BY <1>4 DEF SweepEnd
<1>5. ASSUME NEW h \in Handlers, VoidAndPromote(h)
      PROVE  IsHeir(u, Voided(h))
  <2>1. PICK w \in Users : IsHeir(w, Voided(h)) /\ reg' = [Voided(h) EXCEPT ![w] = "confirmed"]
    BY <1>5 DEF VoidAndPromote
  <2>2. u = w
    BY <2>1 DEF Voided, TypeOK
  <2> QED
    BY <2>1, <2>2
<1>6. reg' # reg
  OBVIOUS
<1>7. PICK h \in Handlers : Settle(h)
  BY <1>4, <1>6 DEF Next, Load, Park, SweepStart, table, vars
<1> QED
  BY <1>1, <1>2, <1>3, <1>5, <1>6, <1>7
     DEF Settle, Refuse, Check, Duplicate, WaitlistClash, table

\* A waiter who gets a seat leaves behind only players who came later.
THEOREM InOrder == Spec => FirstComeFirstServed
<1>1. ASSUME IInv, [Next]_vars
      PROVE  ~stale' => \A u, v \in Users :
                /\ reg[u] = "waitlisted" /\ reg'[u] = "confirmed"
                /\ reg[v] = "waitlisted" /\ reg'[v] = "waitlisted"
                => entry[u].pos < entry[v].pos
  <2> SUFFICES ASSUME ~stale', NEW u \in Users, NEW v \in Users,
                      reg[u] = "waitlisted", reg'[u] = "confirmed",
                      reg[v] = "waitlisted", reg'[v] = "waitlisted"
               PROVE  entry[u].pos < entry[v].pos
    OBVIOUS
  <2>1. PICK h \in Handlers : VoidAndPromote(h) /\ IsHeir(u, Voided(h))
    BY <1>1, SeatingWaiter
  <2>2. v \in Active /\ u \in Active /\ u # v
    BY <1>1 DEF IInv, QueueInv, NoWaiterLost, Waitlisted, Active
  <2>3. Voided(h)[v] = "waitlisted"
    BY <1>1, <2>1 DEF VoidAndPromote, Voided, IInv, TypeOK
  <2>4. entry[u].pos <= entry[v].pos
    BY <2>1, <2>2, <2>3 DEF IsHeir
  <2>5. entry[u].pos # entry[v].pos
    BY <1>1, <2>2 DEF IInv, QueueInv, PositionsDistinct
  <2>6. entry[u].pos \in Nat /\ entry[v].pos \in Nat
    BY <1>1 DEF IInv, TypeOK, Entry
  <2> QED
    BY <2>4, <2>5, <2>6
<1> QED
  BY <1>1, Inductive, PTL DEF Spec, FirstComeFirstServed

\* The ledger counts as this module does.
LEMMA LedgerCounts == \A S : Ledger!Cardinality(S) = Cardinality(S)
BY DEF Ledger!Cardinality, Cardinality, Ledger!IsFiniteSet, IsFiniteSet

\* A waiter's rank in the ledger.
RankOf == [u \in Users |-> IF reg[u] = "waitlisted" THEN entry[u].pos ELSE 0]

\* In the ledger exactly the waitlisted players wait.
LEMMA LedgerWaiting ==
    ASSUME IInv
    PROVE  /\ Ledger!Waiting = Waitlisted
           /\ \A u \in Users : entry[u].pos \in Nat
           /\ \A u \in Waitlisted : u \in Active /\ entry[u].pos >= 1
<1>1. \A u \in Users : entry[u].pos \in Nat
  BY DEF IInv, TypeOK, Entry
<1>2. \A u \in Waitlisted : u \in Active /\ entry[u].pos >= 1
  BY DEF IInv, QueueInv, NoWaiterLost, Waitlisted, Active
<1> QED
  BY <1>1, <1>2 DEF Ledger!Waiting, Waitlisted

\* A step taken before anybody has written from an outdated copy is a step of
\* the ledger, or leaves it alone.
LEMMA LedgerStep ==
    ASSUME IInv, [Next]_vars, ~stale'
    PROVE  Ledger!LedgerNext \/ UNCHANGED <<Confirmed, RankOf>>
<1> USE DEF IInv
<1>1. ASSUME reg' = reg, entry' = entry
      PROVE  UNCHANGED <<Confirmed, RankOf>>
  BY <1>1 DEF Confirmed, RankOf
<1>2. ASSUME NEW h \in Handlers, Unqualified(h, "ineligible") \/ Unqualified(h, "pending")
      PROVE  UNCHANGED <<Confirmed, RankOf>>
  <2>1. PICK s \in {"ineligible", "pending"} : Unqualified(h, s)
    BY <1>2
  <2>2. s = tx[h].reg \/ tx[h].reg = reg[tx[h].user]
    BY <2>1 DEF Unqualified, OldReg
  <2>3. tx[h].user \in Users /\ Actionable("register", tx[h].reg)
    BY <2>1 DEF Unqualified, Registering, Sessions
  <2> QED
    BY <2>1, <2>2, <2>3 DEF Unqualified, Actionable, Confirmed, RankOf, TypeOK
<1>3. ASSUME NEW h \in Handlers, Confirm(h)
      PROVE  Ledger!Take(tx[h].user)
  <2> DEFINE u == tx[h].user
  <2>1. /\ ~stale /\ tx[h].count = count /\ u \in Users
        /\ u \notin Confirmed /\ u \notin Waitlisted
        /\ Confirmed' = Confirmed \cup {u}
    BY <1>3, FreshConfirm
  <2>2. Ledger!Room
    BY <1>3, <2>1, LedgerCounts DEF Confirm, HasRoom, Ledger!Room, SeatsInv, CountIsExact
  <2>3. RankOf' = RankOf
    BY <1>3, <2>1 DEF Confirm, RankOf, Waitlisted, TypeOK
  <2> QED
    BY <2>1, <2>2, <2>3 DEF Ledger!Take, RankOf, Waitlisted
<1>4. ASSUME NEW h \in Handlers, JoinWaitlist(h)
      PROVE  \E u \in Users : Ledger!Wait(u)
  <2>0. PICK u \in Users : u = tx[h].user
    BY <1>4 DEF JoinWaitlist, Registering, Sessions
  <2>1. /\ ~stale /\ tx[h].count = count /\ tx[h].reg = reg[u]
    BY <2>0, <1>4 DEF JoinWaitlist, OldReg, OldEvent
  <2>2. u \in Users /\ reg[u] \notin {"confirmed", "waitlisted"}
    BY <2>0, <1>4, <2>1 DEF JoinWaitlist, Registering, Sessions, Actionable
  <2>3. PICK p : /\ IsNextPosition(p)
                 /\ entry' = [entry EXCEPT ![u] = [pos |-> p, active |-> TRUE]]
    BY <2>0, <1>4 DEF JoinWaitlist
  <2>4. p \in Nat /\ p >= 1 /\ \A v \in Active : entry[v].pos < p
    BY <2>3, NextPositionIsLast
  <2>5. reg' = [reg EXCEPT ![u] = "waitlisted"]
    BY <2>0, <1>4 DEF JoinWaitlist
  <2>6. Confirmed' = Confirmed
    BY <2>2, <2>5 DEF Confirmed, TypeOK
  <2>7. RankOf' = [RankOf EXCEPT ![u] = p]
    BY <2>2, <2>3, <2>5 DEF RankOf, TypeOK
  <2>8. ~Ledger!Room
    <3>1. ~HasRoom(count) /\ count = Cardinality(Confirmed)
      BY <2>0, <1>4, <2>1 DEF JoinWaitlist, SeatsInv, CountIsExact
    <3> QED
      BY <3>1, LedgerCounts, CapacityAssumption DEF HasRoom, Ledger!Room
  <2>9. RankOf'[u] = p /\ RankOf[u] = 0 /\ u \notin Confirmed
    BY <2>2, <2>7 DEF RankOf, Confirmed
  <2>10. \A v \in Ledger!Waiting : RankOf[v] < p
    BY <2>4, LedgerWaiting DEF RankOf, Waitlisted
  <2>11. RankOf'[u] \in Nat \ {0}
    BY <2>4, <2>9
  <2>12. \A v \in Ledger!Waiting : RankOf[v] < RankOf'[u]
    BY <2>9, <2>10
  <2>13. RankOf' = [RankOf EXCEPT ![u] = RankOf'[u]]
    BY <2>7, <2>9
  <2> WITNESS u \in Users
  <2> QED
    BY <2>6, <2>8, <2>9, <2>11, <2>12, <2>13, ZenonT(30) DEF Ledger!Wait, RankOf
<1>5. ASSUME NEW h \in Handlers, EventFull(h)
      PROVE  UNCHANGED <<Confirmed, RankOf>>
  <2>1. tx[h].user \in Users
    BY <1>5 DEF EventFull, Registering, Sessions
  <2>2. tx[h].reg = "none" => reg[tx[h].user] = "none"
    BY <1>5 DEF EventFull, Collides
  <2> QED
    BY <1>5, <2>1, <2>2 DEF EventFull, Confirmed, RankOf, TypeOK
<1>6. ASSUME NEW h \in Handlers, VoidAndPromote(h)
      PROVE  \E u \in Users : Ledger!HandOver(u)
  <2>0. PICK u \in Users : u = tx[h].user
    BY <1>6 DEF VoidAndPromote, Voiding, Sessions
  <2>1. u \in Confirmed /\ u \in Users
    BY <2>0, <1>6, FreshVoid DEF VoidAndPromote, OldReg
  <2>a. PICK w \in Users :
           /\ IsHeir(w, Voided(h))
           /\ reg' = [Voided(h) EXCEPT ![w] = "confirmed"]
           /\ entry' = [v \in Users |-> IF v \in Active /\ entry[v].pos <= entry[w].pos
                                        THEN [entry[v] EXCEPT !.active = FALSE]
                                        ELSE entry[v]]
    BY <1>6 DEF VoidAndPromote
  <2>2. /\ IsHeir(w, Voided(h)) /\ reg' = [Voided(h) EXCEPT ![w] = "confirmed"]
        /\ \A v \in Users : entry'[v].pos = entry[v].pos
    BY <2>a DEF TypeOK, Entry
  <2>3. w # u /\ w \in Waitlisted
    BY <2>0, <2>1, <2>2 DEF IsHeir, Voided, Confirmed, Waitlisted, TypeOK
  <2>4. Confirmed' = (Confirmed \ {u}) \cup {w}
    BY <2>0, <2>1, <2>2, <2>3 DEF Voided, Confirmed, TypeOK
  <2>5. RankOf' = [RankOf EXCEPT ![w] = 0]
    BY <2>0, <2>1, <2>2, <2>3 DEF RankOf, Voided, Confirmed, TypeOK
  <2>6. \A v \in Waitlisted : RankOf[w] <= RankOf[v]
    <3>1. \A v \in Waitlisted : v \in Active /\ Voided(h)[v] = "waitlisted"
      BY <2>0, <2>1, LedgerWaiting DEF Voided, Confirmed, Waitlisted, TypeOK
    <3> QED
      BY <2>2, <2>3, <3>1 DEF IsHeir, RankOf, Waitlisted
  <2>7. Ledger!IsFirst(w)
    BY <2>3, <2>6, LedgerWaiting DEF Ledger!IsFirst, RankOf
  <2> QED
    BY <2>1, <2>3, <2>4, <2>5, <2>7, LedgerWaiting DEF Ledger!HandOver, RankOf
<1>7. ASSUME NEW h \in Handlers, VoidOnly(h)
      PROVE  \E u \in Users : Ledger!HandOver(u)
  <2>0. PICK u \in Users : u = tx[h].user
    BY <1>7 DEF VoidOnly, Voiding, Sessions
  <2>1. /\ u \in Confirmed /\ u \in Users
        /\ ~stale /\ tx[h].count = count
    BY <2>0, <1>7, FreshVoid DEF VoidOnly, OldReg, OldEvent
  <2>2. count \in Nat /\ count >= 1 /\ (Capacity > 0 => count <= Capacity)
    BY <2>1, SeatsCounted DEF SeatsInv, CountIsExact, TypeOK
  <2>3. HasRoom(Less(tx[h].count))
    BY <2>1, <2>2, CapacityAssumption DEF HasRoom, Less
  <2>4. Waitlisted = {}
    <3>1. \A v \in Waitlisted : v \in Active /\ Voided(h)[v] = "waitlisted"
      BY <2>0, <2>1, LedgerWaiting DEF Voided, Confirmed, Waitlisted, TypeOK
    <3> QED
      BY <2>0, <1>7, <2>3, <3>1 DEF VoidOnly
  <2>5. Confirmed' = Confirmed \ {u}
    BY <2>0, <1>7, <2>1 DEF VoidOnly, Voided, Confirmed, TypeOK
  <2>6. RankOf' = RankOf
    <3>1. Waitlisted' = {}
      BY <2>0, <1>7, <2>4 DEF VoidOnly, Voided, Waitlisted, TypeOK
    <3> QED
      BY <2>4, <3>1 DEF RankOf, Waitlisted
  <2> QED
    BY <2>1, <2>4, <2>5, <2>6, LedgerWaiting DEF Ledger!HandOver, RankOf
<1>8. ASSUME NEW D \in SUBSET Users, NEW through \in BOOLEAN, SweepEnd(D, through)
      PROVE  Ledger!Release(D)
  <2>1. D \subseteq Confirmed
    BY <1>8 DEF SweepEnd
  <2>2. Confirmed' = Confirmed \ D
    BY <1>8 DEF SweepEnd, Confirmed
  <2>3. RankOf' = RankOf
    BY <1>8, <2>1 DEF SweepEnd, RankOf, Confirmed
  <2> QED
    BY <2>1, <2>2, <2>3 DEF Ledger!Release, RankOf
<1>9. ASSUME NEW h \in Handlers, Settle(h)
      PROVE  Ledger!LedgerNext \/ UNCHANGED <<Confirmed, RankOf>>
  <2>1. tx[h].pc # "idle" => tx[h].user \in Users
    BY DEF Sessions
  <2>2. tx[h].pc # "idle"
    BY <1>9 DEF Settle, Refuse, Check, Connected, Duplicate, Unqualified, Registering, Confirm,
                JoinWaitlist, WaitlistClash, EventFull, VoidAndPromote, VoidOnly, Voiding
  <2>3. CASE Refuse(h) \/ Check(h) \/ Duplicate(h) \/ WaitlistClash(h)
    BY <2>3, <1>1 DEF Refuse, Check, Duplicate, WaitlistClash, table
  <2>4. CASE Unqualified(h, "ineligible") \/ Unqualified(h, "pending")
    BY <1>2, <2>4
  <2>5. CASE EventFull(h)
    BY <1>5, <2>5
  <2>6. CASE Confirm(h)
    BY <1>3, <2>1, <2>2, <2>6 DEF Ledger!LedgerNext
  <2>7. CASE JoinWaitlist(h)
    BY <1>4, <2>7 DEF Ledger!LedgerNext
  <2>8. CASE VoidAndPromote(h)
    BY <1>6, <2>8 DEF Ledger!LedgerNext
  <2>9. CASE VoidOnly(h)
    BY <1>7, <2>9 DEF Ledger!LedgerNext
  <2> QED
    BY <1>9, <2>3, <2>4, <2>5, <2>6, <2>7, <2>8, <2>9 DEF Settle
<1> QED
  BY <1>1, <1>8, <1>9 DEF Next, Load, Park, SweepStart, table, vars, Ledger!LedgerNext

\* Registrations, take-backs, promotions and sweeps, interleaved as they are,
\* implement the seat ledger until somebody writes from an outdated copy.
THEOREM ImplementsSeatLedger == Spec => ImplementsLedger
<1>1. Init => Ledger!LedgerInit
  BY DEF Init, Ledger!LedgerInit, Confirmed
<1>2. IInv /\ [Next]_vars => [~stale' => Ledger!LedgerNext]_<<Ledger!ledgerVars>>
  BY LedgerStep DEF Ledger!ledgerVars, RankOf
<1> QED
  BY <1>1, <1>2, Inductive, PTL DEF Spec, ImplementsLedger

=============================================================================
