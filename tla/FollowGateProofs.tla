-------------------------- MODULE FollowGateProofs --------------------------
(***************************************************************************)
(* Theorems about FollowGate, for any finite number of players and any     *)
(* pages, seats and uploads.                                               *)
(***************************************************************************)
EXTENDS FollowGate, FunctionTheorems, FiniteSetTheorems, SequenceTheorems,
        WellFoundedInduction, TLAPS

-----------------------------------------------------------------------------
(* Least numbers, and what is computed step by step                        *)

LEMMA BelowIsWellFounded ==
    \E R : IsWellFoundedOn(R, Nat) /\ \A m, n \in Nat : m < n => <<m, n>> \in R
<1>1. \A m, n \in Nat : m < n => <<m, n>> \in OpToRel(<, Nat)
  BY DEF OpToRel
<1>2. IsWellFoundedOn(OpToRel(<, Nat), Nat)
  BY NatLessThanWellFounded
<1> QED
  BY <1>1, <1>2, Zenon

\* A set of numbers has a least one.  What holds of 0 and of each number after
\* one it holds of has no least exception.
LEMMA Least ==
    ASSUME NEW T, T \subseteq Nat, T # {}
    PROVE  \E n \in T : \A m \in T : n <= m
<1>1. PICK R : IsWellFoundedOn(R, Nat) /\ \A m, n \in Nat : m < n => <<m, n>> \in R
  BY BelowIsWellFounded
<1>2. PICK n \in T : \A m \in T : ~ (<<m, n>> \in R)
  <2>1. \A Q, S, U : IsWellFoundedOn(Q, S) /\ U \subseteq S /\ U # {}
                     => \E x \in U : \A y \in U : ~ (<<y, x>> \in Q)
    BY WFMin
  <2>2. IsWellFoundedOn(R, Nat)
    BY <1>1
  <2> HIDE <1>1
  <2> QED
    BY <2>1, <2>2, Zenon
<1>3. ASSUME NEW m \in T PROVE n <= m
  <2>1. m \in Nat /\ n \in Nat
    OBVIOUS
  <2>2. ~ (m < n)
    BY <1>1, <1>2, <2>1
  <2> QED
    BY <2>1, <2>2
<1> QED
  BY <1>3

\* First finds the least page, or place in the line.
LEMMA FirstIn ==
    ASSUME NEW pages, pages \subseteq Nat, pages # {}
    PROVE  First(pages) \in pages /\ \A q \in pages : First(pages) <= q
<1>1. \E p \in pages : \A q \in pages : p <= q
  BY Least
<1> QED
  BY <1>1 DEF First

\* The seats after each of the first n turns of some players.
AreTurns(f, start, players, n) ==
    f = [i \in 0..n |-> IF i = 0 THEN start ELSE Void(f[i - 1], players[i])]

LEMMA TurnsExist ==
    ASSUME NEW start, NEW players, NEW n \in Nat
    PROVE  \E f : AreTurns(f, start, players, n)
<1> DEFINE Without == {k \in Nat : ~ \E f : AreTurns(f, start, players, k)}
<1>1. SUFFICES ASSUME Without # {} PROVE FALSE
  OBVIOUS
<1>2. PICK k \in Without : \A m \in Without : k <= m
  <2> HIDE DEF Without
  <2>1. Without \subseteq Nat
    BY DEF Without
  <2> QED
    BY <1>1, <2>1, Least
<1>3. CASE k = 0
  <2>1. AreTurns([i \in 0..0 |-> start], start, players, 0)
    BY DEF AreTurns
  <2> QED
    BY <1>2, <1>3, <2>1
<1>4. CASE k > 0
  <2>1. k - 1 \in Nat /\ k - 1 \notin Without
    BY <1>2, <1>4
  <2>2. PICK f : AreTurns(f, start, players, k - 1)
    BY <2>1
  <2> DEFINE g == [i \in 0..k |-> IF i = k THEN Void(f[k - 1], players[k]) ELSE f[i]]
  <2>3. \A i \in 0..(k - 1) : f[i] = IF i = 0 THEN start ELSE Void(f[i - 1], players[i])
    BY <2>2 DEF AreTurns
  <2>4. \A i \in 0..k : g[i] = IF i = 0 THEN start ELSE Void(g[i - 1], players[i])
    <3>1. SUFFICES ASSUME NEW i \in 0..k
                   PROVE  g[i] = IF i = 0 THEN start ELSE Void(g[i - 1], players[i])
      OBVIOUS
    <3>2. CASE i = k
      BY <1>2, <1>4, <3>2
    <3>3. CASE i < k
      <4>1. i \in 0..(k - 1) /\ g[i] = f[i] /\ (i # 0 => i - 1 \in 0..k /\ i - 1 # k)
        BY <1>2, <3>3
      <4>2. i # 0 => g[i - 1] = f[i - 1]
        BY <4>1
      <4> QED
        BY <2>3, <4>1, <4>2
    <3> QED
      BY <1>2, <3>2, <3>3
  <2>5. AreTurns(g, start, players, k)
    BY <2>4 DEF AreTurns
  <2> QED
    BY <1>2, <2>5
<1> QED
  BY <1>2, <1>3, <1>4

\* VoidAll is where the turns of all its players end.
LEMMA VoidAllTurns ==
    ASSUME NEW players, Len(players) \in Nat
    PROVE  \E f : /\ AreTurns(f, [reg |-> reg, line |-> line, up |-> {}], players, Len(players))
                  /\ VoidAll(players) = f[Len(players)]
<1> DEFINE start == [reg |-> reg, line |-> line, up |-> {}]
           n == Len(players)
           f == CHOOSE f : AreTurns(f, start, players, n)
<1>1. AreTurns(f, start, players, n)
  <2>1. \E g : AreTurns(g, start, players, n)
    BY TurnsExist
  <2> HIDE DEF start, n
  <2> QED
    BY <2>1, Zenon
<1>2. VoidAll(players) = f[n]
  BY DEF VoidAll, AreTurns
<1> QED
  BY <1>1, <1>2

-----------------------------------------------------------------------------
(* Seats                                                                   *)

\* The seats as promote_waitlist and _void_registration pass them on.
Seating ==
    {s \in [reg : [Users -> RegStatus], line : Seq(waited), up : SUBSET Users] :
        IsInjective(s.line)}

\* Only who waits is promoted, and who was promoted is remembered.
PassesOn(s, t, u) ==
    \/ t.reg[u] = s.reg[u]
    \/ s.reg[u] = "waitlisted" /\ t.reg[u] = "confirmed" /\ u \in t.up

\* What is left of a line without repetitions has none.
LEMMA RestOfLine ==
    ASSUME NEW S, NEW l \in Seq(S), IsInjective(l), NEW i \in 1..Len(l)
    PROVE  /\ SubSeq(l, i + 1, Len(l)) \in Seq(S)
           /\ IsInjective(SubSeq(l, i + 1, Len(l)))
<1> DEFINE r == SubSeq(l, i + 1, Len(l))
<1>1. r = [j \in 1..(Len(l) - i) |-> l[i + j]]
  OBVIOUS
<1>2. \A j \in 1..(Len(l) - i) : i + j \in 1..Len(l) /\ l[i + j] \in S
  OBVIOUS
<1>3. r \in Seq(S)
  BY <1>1, <1>2
<1>4. IsInjective(r)
  BY <1>1, <1>2 DEF IsInjective
<1> QED
  BY <1>3, <1>4

LEMMA PromoteKeeps ==
    ASSUME waited \subseteq Users, NEW s \in Seating
    PROVE  /\ Promote(s) \in Seating /\ s.up \subseteq Promote(s).up
           /\ \A u \in Users : PassesOn(s, Promote(s), u)
<1> DEFINE waiting == {i \in DOMAIN s.line : s.reg[s.line[i]] = "waitlisted"}
           i == First(waiting)
           u == s.line[i]
<1>1. CASE Cardinality(Confirmed(s.reg)) >= Capacity
  <2>1. Promote(s) = s
    BY <1>1 DEF Promote
  <2> QED
    BY <2>1 DEF PassesOn
<1>2. CASE ~(Cardinality(Confirmed(s.reg)) >= Capacity) /\ waiting = {}
  <2>1. Promote(s) = [s EXCEPT !.line = <<>>]
    BY <1>2 DEF Promote
  <2>2. IsInjective(<<>>) /\ <<>> \in Seq(waited)
    BY DEF IsInjective
  <2>3. Promote(s) = [reg |-> s.reg, line |-> <<>>, up |-> s.up]
    BY <2>1 DEF Seating
  <2>4. Promote(s) \in Seating
    BY <2>2, <2>3 DEF Seating
  <2> HIDE DEF waiting, i, u
  <2> QED
    BY <2>3, <2>4 DEF PassesOn
<1>3. CASE ~(Cardinality(Confirmed(s.reg)) >= Capacity) /\ waiting # {}
  <2>1. Promote(s) = [reg |-> [s.reg EXCEPT ![u] = "confirmed"],
                      line |-> SubSeq(s.line, i + 1, Len(s.line)), up |-> s.up \cup {u}]
    BY <1>3 DEF Promote
  <2>2. i \in waiting
    <3>1. waiting \subseteq Nat
      BY DEF Seating
    <3> QED
      BY <1>3, <3>1, FirstIn
  <2>3. i \in 1..Len(s.line) /\ u \in waited /\ u \in Users /\ s.reg[u] = "waitlisted"
    BY <2>2 DEF Seating
  <2> HIDE DEF waiting, i, u
  <2>4. /\ SubSeq(s.line, i + 1, Len(s.line)) \in Seq(waited)
        /\ IsInjective(SubSeq(s.line, i + 1, Len(s.line)))
    BY <2>3, RestOfLine DEF Seating
  <2>5. [s.reg EXCEPT ![u] = "confirmed"] \in [Users -> RegStatus]
    BY <2>3 DEF Seating, RegStatus
  <2>6. Promote(s) \in Seating
    <3> DEFINE r == [s.reg EXCEPT ![u] = "confirmed"]
               l == SubSeq(s.line, i + 1, Len(s.line))
    <3>1. s.up \cup {u} \in SUBSET Users
      BY <2>3 DEF Seating
    <3> HIDE DEF r, l
    <3>2. [reg |-> r, line |-> l, up |-> s.up \cup {u}] \in Seating
      BY <2>4, <2>5, <3>1 DEF Seating, r, l
    <3> QED
      BY <2>1, <3>2 DEF r, l
  <2>7. Promote(s).reg = [s.reg EXCEPT ![u] = "confirmed"] /\ Promote(s).up = s.up \cup {u}
    BY <2>1
  <2>8. s.reg \in [Users -> RegStatus]
    BY DEF Seating
  <2> QED
    BY <2>3, <2>6, <2>7, <2>8 DEF PassesOn
<1> QED
  BY <1>1, <1>2, <1>3

LEMMA VoidKeeps ==
    ASSUME waited \subseteq Users, NEW s \in Seating, NEW v \in Users
    PROVE  /\ Void(s, v) \in Seating /\ s.up \subseteq Void(s, v).up
           /\ \A u \in Users \ {v} : PassesOn(s, Void(s, v), u)
           /\ Void(s, v).reg[v] # "confirmed"
<1>1. CASE s.reg[v] # "confirmed"
  BY <1>1 DEF Void, PassesOn
<1>2. CASE s.reg[v] = "confirmed"
  <2> DEFINE t == [s EXCEPT !.reg[v] = "ineligible"]
  <2>1. Void(s, v) = Promote(t)
    BY <1>2 DEF Void
  <2>2. /\ t \in Seating /\ t.up = s.up /\ t.reg[v] = "ineligible"
        /\ \A u \in Users \ {v} : t.reg[u] = s.reg[u]
    BY DEF Seating, RegStatus
  <2> HIDE DEF t
  <2>3. /\ Promote(t) \in Seating /\ t.up \subseteq Promote(t).up
        /\ \A u \in Users : PassesOn(t, Promote(t), u)
    BY <2>2, PromoteKeeps
  <2> QED
    BY <2>1, <2>2, <2>3 DEF PassesOn
<1> QED
  BY <1>1, <1>2

\* After all turns: who is confirmed was promoted, or was confirmed and had no
\* turn; and who had no turn keeps the seat, or the place in line or a seat for it.
LEMMA VoidAllKeeps ==
    ASSUME TypeOK, NEW players \in Seq(Users)
    PROVE  LET s == VoidAll(players)
               had(u) == \E j \in 1..Len(players) : players[j] = u
           IN  /\ s \in Seating
               /\ \A u \in Users : s.reg[u] = "confirmed" /\ u \notin s.up
                                   => reg[u] = "confirmed" /\ ~had(u)
               /\ \A u \in Users : reg[u] = "confirmed" /\ ~had(u) => s.reg[u] = "confirmed"
               /\ \A u \in Users : reg[u] = "waitlisted" /\ ~had(u)
                                   => s.reg[u] \in {"confirmed", "waitlisted"}
<1> DEFINE n == Len(players)
           had(u, k) == \E j \in 1..k : players[j] = u
           Right(s, k) ==
               /\ s \in Seating
               /\ \A u \in Users : s.reg[u] = "confirmed" /\ u \notin s.up
                                   => reg[u] = "confirmed" /\ ~had(u, k)
               /\ \A u \in Users : reg[u] = "confirmed" /\ ~had(u, k) => s.reg[u] = "confirmed"
               /\ \A u \in Users : reg[u] = "waitlisted" /\ ~had(u, k)
                                   => s.reg[u] \in {"confirmed", "waitlisted"}
           start == [reg |-> reg, line |-> line, up |-> {}]
<1>1. n \in Nat
  OBVIOUS
<1>2. PICK f : AreTurns(f, start, players, n) /\ VoidAll(players) = f[n]
  BY <1>1, VoidAllTurns
<1>3. \A k \in 0..n : f[k] = IF k = 0 THEN start ELSE Void(f[k - 1], players[k])
  BY <1>2 DEF AreTurns
<1>4. Right(f[0], 0)
  <2>1. f[0] = start
    <3>1. 0 \in 0..n
      BY <1>1
    <3> HIDE DEF start
    <3> QED
      BY <1>3, <3>1
  <2>2. start \in Seating
    BY DEF TypeOK, Seating
  <2>4. start.reg = reg /\ start.up = {}
    OBVIOUS
  <2>3. \A u \in Users : ~had(u, 0)
    OBVIOUS
  <2> HIDE DEF start
  <2> QED
    BY <2>1, <2>2, <2>3, <2>4
<1>5. ASSUME NEW k \in 1..n, Right(f[k - 1], k - 1) PROVE Right(f[k], k)
  <2>1. /\ f[k] = Void(f[k - 1], players[k]) /\ players[k] \in Users /\ waited \subseteq Users
        /\ k - 1 \in Nat /\ k \in Nat
    <3>1. k \in 0..n /\ k # 0 /\ k - 1 \in Nat /\ k \in Nat
      BY <1>1
    <3>2. players[k] \in Users
      OBVIOUS
    <3> HIDE DEF start
    <3>3. f[k] = Void(f[k - 1], players[k])
      BY <1>3, <3>1
    <3> QED
      BY <3>1, <3>2, <3>3 DEF TypeOK
  <2>2. \A u \in Users : had(u, k) <=> had(u, k - 1) \/ u = players[k]
    BY <2>1
  <2> DEFINE s == f[k - 1]
             t == f[k]
  <2>3. s \in Seating
    BY <1>5
  <2>4. /\ t \in Seating /\ s.up \subseteq t.up
        /\ \A u \in Users \ {players[k]} : PassesOn(s, t, u)
        /\ t.reg[players[k]] # "confirmed"
    BY <2>1, <2>3, VoidKeeps
  <2>5. /\ \A u \in Users : s.reg[u] = "confirmed" /\ u \notin s.up
                            => reg[u] = "confirmed" /\ ~had(u, k - 1)
        /\ \A u \in Users : reg[u] = "confirmed" /\ ~had(u, k - 1) => s.reg[u] = "confirmed"
        /\ \A u \in Users : reg[u] = "waitlisted" /\ ~had(u, k - 1)
                            => s.reg[u] \in {"confirmed", "waitlisted"}
    BY <1>5
  <2> HIDE DEF s, t, had
  <2>6. \A u \in Users : t.reg[u] = "confirmed" /\ u \notin t.up
                         => reg[u] = "confirmed" /\ ~had(u, k)
    BY <2>2, <2>4, <2>5 DEF PassesOn
  <2>7. \A u \in Users : reg[u] = "confirmed" /\ ~had(u, k) => t.reg[u] = "confirmed"
    BY <2>2, <2>4, <2>5 DEF PassesOn
  <2>8. \A u \in Users : reg[u] = "waitlisted" /\ ~had(u, k)
                         => t.reg[u] \in {"confirmed", "waitlisted"}
    BY <2>2, <2>4, <2>5 DEF PassesOn
  <2> QED
    BY <2>4, <2>6, <2>7, <2>8 DEF t
<1>6. Right(f[n], n)
  <2> DEFINE Wrong == {k \in 0..n : ~Right(f[k], k)}
  <2>1. SUFFICES ASSUME Wrong # {} PROVE FALSE
    BY <1>1
  <2> HIDE DEF Right
  <2>2. PICK k \in Wrong : \A m \in Wrong : k <= m
    <3>1. Wrong \subseteq Nat
      BY <1>1
    <3> HIDE DEF Wrong
    <3> QED
      BY <2>1, <3>1, Least
  <2>3. k \in 1..n /\ k - 1 \in 0..n /\ k - 1 \notin Wrong
    BY <1>1, <1>4, <2>2
  <2>4. Right(f[k - 1], k - 1)
    BY <2>3
  <2> QED
    BY <1>5, <2>2, <2>3, <2>4
<1> QED
  BY <1>2, <1>6

\* The turns are those of all the players, each once.
LEMMA AllHaveTurns ==
    ASSUME NEW S, IsFiniteSet(S), NEW turns \in SetToSeqs(S)
    PROVE  /\ turns \in Seq(S)
           /\ \A u : u \in S <=> \E j \in 1..Len(turns) : turns[j] = u
<1> DEFINE D == 1..Cardinality(S)
<1>1. Cardinality(S) \in Nat
  BY FS_CardinalityType
<1>2. turns \in [D -> S] /\ \A i, j \in D : i # j => turns[i] # turns[j]
  BY DEF SetToSeqs
<1>3. turns \in Seq(S) /\ Len(turns) = Cardinality(S)
  BY <1>1, <1>2
<1>4. turns \in Injection(D, S)
  BY <1>2 DEF Injection, IsInjective
<1>5. IsFiniteSet(D) /\ Cardinality(D) = Cardinality(S)
  BY <1>1, FS_Interval
<1>6. turns \in Surjection(D, S)
  BY <1>4, <1>5, FS_Injection
<1>7. \A u \in S : \E j \in D : turns[j] = u
  BY <1>6 DEF Surjection
<1> QED
  BY <1>2, <1>3, <1>7

-----------------------------------------------------------------------------
(* The inductive invariant                                                 *)

\* A player the sweep has not come to still has the seat, or lost it to a
\* rejection during the sweep; so does the one it is about to write to, who
\* passed the gate.
SweptInTime ==
    /\ ~sweep.on => /\ sweep.todo = {} /\ sweep.at = Nobody
                    /\ \A u \in Users : caught[u] = "no"
    /\ \A u \in sweep.todo :
          /\ u # sweep.at /\ caught[u] # "at the send"
          /\ reg[u] = "confirmed" \/ caught[u] = "before the send"
    /\ \A u \in Users : u = sweep.at =>
          \/ caught[u] = "at the send"
          \/ ~Rejected(u) /\ (reg[u] = "confirmed" \/ caught[u] = "before the send")

IInv == TypeOK /\ RejectedHoldsNoSeat /\ SweptInTime

LEMMA InitInv == ASSUME GateConstants, Init PROVE IInv
<1>1. TypeOK
  <2>1. /\ line \in Seq(waited) /\ IsInjective(line)
        /\ sweep \in [on : BOOLEAN, todo : SUBSET Users, at : Users \cup {Nobody},
                      drop : SUBSET Users, sent : SUBSET Users]
    BY DEF Init, Off, IsInjective
  <2>2. /\ last \in 1..MaxPages /\ proof \in [Users -> [1..MaxPages -> ProofStatus]]
        /\ reg \in [Users -> RegStatus] /\ waited \subseteq Users /\ slipped \subseteq Users
        /\ unheard \subseteq Users /\ waitlist \in BOOLEAN /\ open \in BOOLEAN
        /\ standing \in [Users -> {"member", "left", "banned"}]
        /\ asks \in [Users -> Pages \cup {NoPage}]
        /\ caught \in [Users -> {"no", "before the send", "at the send"}]
    BY DEF Init, ProofStatus, RegStatus
  <2>3. midway \in [Users -> 0..MaxUploads]
    BY DEF Init, GateConstants
  <2> QED
    BY <2>1, <2>2, <2>3 DEF TypeOK
<1>2. RejectedHoldsNoSeat
  BY DEF Init, RejectedHoldsNoSeat
<1>3. SweptInTime
  BY DEF Init, SweptInTime, Off, GateConstants
<1> QED
  BY <1>1, <1>2, <1>3 DEF IInv

-----------------------------------------------------------------------------
(* Steps                                                                   *)

\* A registration is confirmed past an open gate, gives nobody's seat away, and
\* adds to the line who was never in it.
LEMMA RegisterKeeps ==
    ASSUME TypeOK, NEW u \in Users, NEW pr, Register(u, pr) \/ Fails(u)
    PROVE  /\ reg' \in [Users -> RegStatus] /\ slipped' = slipped
           /\ line' \in Seq(waited') /\ IsInjective(line') /\ waited' \subseteq Users
           /\ unheard' \subseteq Users
           /\ \A w \in Users \ {u} : reg'[w] = reg[w]
           /\ HasSeat(u) => reg' = reg
           /\ reg'[u] = "confirmed" => reg[u] = "confirmed" \/ GateOk(pr, u)
<1>0. /\ reg \in [Users -> RegStatus] /\ waited \subseteq Users /\ unheard \subseteq Users
      /\ line \in Seq(waited) /\ IsInjective(line)
  BY DEF TypeOK
<1>1. CASE UNCHANGED places /\ unheard' \subseteq Users
  BY <1>0, <1>1 DEF places
<1>2. CASE /\ ~Refused(u) /\ unheard' \subseteq Users
           /\ Becomes(u, "pending") \/ Becomes(u, "ineligible")
  BY <1>0, <1>2 DEF Refused, RegStatus, Becomes
<1>3. CASE /\ ~Refused(u) /\ Eligible(pr, u) /\ Becomes(u, "confirmed")
           /\ unheard' \subseteq Users
  BY <1>0, <1>3 DEF Refused, RegStatus, Eligible, Becomes
<1>4. CASE /\ ~Refused(u) /\ Becomes(u, IF reg[u] = "none" THEN "pending" ELSE reg[u])
           /\ unheard' \subseteq Users
  BY <1>0, <1>4 DEF Refused, RegStatus, Becomes
<1>5. CASE /\ ~Refused(u) /\ u \notin waited /\ reg' = [reg EXCEPT ![u] = "waitlisted"]
           /\ line' = Append(line, u) /\ waited' = waited \cup {u} /\ slipped' = slipped
           /\ unheard' \subseteq Users
  <2>1. line' \in Seq(waited') /\ waited' \subseteq Users
    BY <1>0, <1>5
  <2>2. IsInjective(line')
    <3>1. \A i \in 1..Len(line) : line[i] \in waited
      BY <1>0
    <3>2. /\ DOMAIN line' = 1..(Len(line) + 1) /\ line'[Len(line) + 1] = u
          /\ \A i \in 1..Len(line) : line'[i] = line[i]
      BY <1>0, <1>5
    <3>3. \A a, b \in 1..Len(line) : line[a] = line[b] => a = b
      BY <1>0 DEF IsInjective
    <3>4. \A a \in 1..(Len(line) + 1) : a \in 1..Len(line) \/ a = Len(line) + 1
      BY <1>0
    <3> QED
      BY <1>5, <3>1, <3>2, <3>3, <3>4 DEF IsInjective
  <2> QED
    BY <1>0, <1>5, <2>1, <2>2 DEF Refused, RegStatus
<1>6. unheard' \subseteq Users
  BY <1>0 DEF Register, Fails
<1>7. CASE Register(u, pr)
  BY <1>1, <1>2, <1>3, <1>4, <1>5, <1>6, <1>7 DEF Register
<1>8. CASE Fails(u)
  BY <1>1, <1>6, <1>8 DEF Fails
<1> QED
  BY <1>7, <1>8

LEMMA OpenGate == ASSUME NEW u, GateOk(proof, u) PROVE ~Rejected(u)
  BY DEF GateOk, Rejected

\* What asks for a page or none, uploads or waits, approves or restores: no proof
\* is rejected by it, and at most the player's own registration changes.
Harmless(u) ==
    /\ proof' \in [Users -> [1..MaxPages -> ProofStatus]]
    /\ \A w \in Users, p \in Pages : proof'[w][p] = "rejected" => proof[w][p] = "rejected"
    /\ last' = last /\ waitlist' = waitlist /\ open' \in BOOLEAN
    /\ standing' \in [Users -> {"member", "left", "banned"}]
    /\ asks' \in [Users -> Pages \cup {NoPage}]
    /\ midway' \in [Users -> 0..MaxUploads]
    /\ UNCHANGED <<sweep, caught>>
    /\ UNCHANGED seats \/ Register(u, proof') \/ Fails(u)

LEMMA HarmlessInv == ASSUME IInv, NEW u \in Users, Harmless(u) PROVE IInv'
<1>1. /\ reg' \in [Users -> RegStatus] /\ slipped' = slipped
      /\ line' \in Seq(waited') /\ IsInjective(line') /\ waited' \subseteq Users
      /\ unheard' \subseteq Users
      /\ \A w \in Users \ {u} : reg'[w] = reg[w]
      /\ HasSeat(u) => reg' = reg
      /\ reg'[u] = "confirmed" => reg[u] = "confirmed" \/ GateOk(proof', u)
  <2>1. CASE UNCHANGED seats
    BY <2>1 DEF seats, places, IInv, TypeOK
  <2>2. CASE Register(u, proof') \/ Fails(u)
    BY <2>2, RegisterKeeps DEF IInv
  <2> QED
    BY <2>1, <2>2 DEF Harmless
<1>2. \A w \in Users : Rejected(w)' => Rejected(w)
  BY DEF Harmless, Rejected, Pages
<1>3. \A w \in Users : reg[w] = "confirmed" => reg'[w] = "confirmed"
  BY <1>1 DEF HasSeat
<1>4. TypeOK'
  BY <1>1 DEF Harmless, IInv, TypeOK, Pages
<1>5. RejectedHoldsNoSeat'
  <2>1. ASSUME NEW w \in Users, reg'[w] = "confirmed", Rejected(w)' PROVE w \in slipped'
    <3>1. CASE reg[w] = "confirmed"
      BY <1>1, <1>2, <2>1, <3>1 DEF IInv, RejectedHoldsNoSeat
    <3>2. CASE reg[w] # "confirmed"
      BY <1>1, <2>1, <3>2 DEF Harmless, GateOk, Rejected, Pages
    <3> QED
      BY <3>1, <3>2
  <2> QED
    BY <2>1 DEF RejectedHoldsNoSeat
<1>6. SweptInTime'
  <2>1. sweep' = sweep /\ caught' = caught /\ sweep.todo \subseteq Users
    BY DEF Harmless, IInv, TypeOK
  <2> QED
    BY <1>2, <1>3, <2>1 DEF IInv, SweptInTime
<1> QED
  BY <1>4, <1>5, <1>6 DEF IInv

LEMMA PagesRight ==
    ASSUME GateConstants, TypeOK
    PROVE  Pages \subseteq 1..MaxPages /\ Pages \subseteq Nat /\ NoPage \notin Pages
<1>1. MaxPages \in Nat /\ last \in 1..MaxPages
  BY DEF GateConstants, TypeOK
<1>2. \A p \in 1..last : p \in 1..MaxPages /\ p \in Nat /\ p # 0
  BY <1>1
<1> QED
  BY <1>2 DEF Pages, NoPage

\* A counter of uploads may go one up below the bound, and one down above zero.
LEMMA MidwayTyped ==
    ASSUME GateConstants, TypeOK, NEW u \in Users
    PROVE  /\ midway[u] < MaxUploads
                => [midway EXCEPT ![u] = @ + 1] \in [Users -> 0..MaxUploads]
           /\ midway[u] > 0 => [midway EXCEPT ![u] = @ - 1] \in [Users -> 0..MaxUploads]
<1>1. MaxUploads \in Nat /\ midway \in [Users -> 0..MaxUploads]
  BY DEF GateConstants, TypeOK
<1> QED
  BY <1>1

LEMMA PromptTyped ==
    ASSUME GateConstants, TypeOK, NEW u \in Users, Prompt(u)
    PROVE  asks' \in [Users -> Pages \cup {NoPage}] /\ (asks'[u] = NoPage => GateOk(proof, u))
<1> DEFINE owed == Owed(proof, u)
<1>1. owed \subseteq Pages /\ Pages \subseteq Nat /\ NoPage \notin Pages
  BY PagesRight DEF Owed
<1>2. owed # {} => First(owed) \in owed
  <2> HIDE DEF owed
  <2> QED
    BY <1>1, FirstIn
<1>3. owed = {} => First(owed) = NoPage /\ GateOk(proof, u)
  BY DEF First, Owed, GateOk
<1>4. asks' = [asks EXCEPT ![u] = First(owed)]
  BY DEF Prompt
<1> HIDE DEF owed
<1> QED
  BY <1>1, <1>2, <1>3, <1>4 DEF TypeOK, NoPage

LEMMA PlayerInv == ASSUME GateConstants, IInv, NEW u \in Users, Player(u) PROVE IInv'
<1>0. TypeOK
  BY DEF IInv
<1>1. CASE Start(u)
  <2>1. asks' \in [Users -> Pages \cup {NoPage}]
    BY <1>0, <1>1, PromptTyped DEF Start
  <2> QED
    BY <1>0, <1>1, <2>1, HarmlessInv DEF Start, world, Harmless, TypeOK
<1>2. CASE Upload(u)
  <2>1. asks[u] \in Pages /\ asks[u] \in 1..MaxPages
    BY <1>0, <1>2, PagesRight DEF Upload, TypeOK
  <2>2. CASE standing[u] = "left" \/ proof[u][asks[u]] = "approved"
    BY <1>0, <1>2, <2>2, HarmlessInv DEF Upload, world, Harmless, TypeOK
  <2>3. CASE ~(standing[u] = "left" \/ proof[u][asks[u]] = "approved")
    <3>1. /\ proof' = [proof EXCEPT ![u][asks[u]] = "pending"]
          /\ midway' = [midway EXCEPT ![u] = @ + 1] /\ midway[u] < MaxUploads
          /\ UNCHANGED <<asks, seats, world, sweep, caught>>
      BY <1>2, <2>3 DEF Upload
    <3>2. /\ proof' \in [Users -> [1..MaxPages -> ProofStatus]]
          /\ \A w \in Users, p \in Pages : proof'[w][p] = "rejected" => proof[w][p] = "rejected"
      <4> DEFINE row == [proof[u] EXCEPT ![asks[u]] = "pending"]
      <4>1. proof' = [proof EXCEPT ![u] = row]
        BY <3>1
      <4>2. proof \in [Users -> [1..MaxPages -> ProofStatus]]
        BY <1>0 DEF TypeOK
      <4>3. /\ row \in [1..MaxPages -> ProofStatus]
            /\ \A p \in 1..MaxPages : row[p] = "rejected" => proof[u][p] = "rejected"
        BY <2>1, <4>2 DEF ProofStatus
      <4>4. Pages \subseteq 1..MaxPages
        BY <1>0, PagesRight
      <4> HIDE DEF row
      <4> QED
        BY <4>1, <4>2, <4>3, <4>4
    <3>3. midway' \in [Users -> 0..MaxUploads]
      BY <1>0, <3>1, MidwayTyped
    <3> QED
      BY <1>0, <3>1, <3>2, <3>3, HarmlessInv DEF world, Harmless, TypeOK
  <2> QED
    BY <2>2, <2>3
<1>3. CASE FinishUpload(u)
  <2>1. asks' \in [Users -> Pages \cup {NoPage}]
    BY <1>0, <1>3, PromptTyped DEF FinishUpload, TypeOK
  <2>2. midway' \in [Users -> 0..MaxUploads]
    BY <1>0, <1>3, MidwayTyped DEF FinishUpload
  <2>3. Register(u, proof') \/ Fails(u)
    BY <1>3 DEF FinishUpload
  <2> QED
    BY <1>0, <1>3, <2>1, <2>2, <2>3, HarmlessInv DEF FinishUpload, world, Harmless, TypeOK
<1>4. CASE Join(u)
  <2>1. Register(u, proof')
    BY <1>4 DEF Join
  <2> QED
    BY <1>0, <1>4, <2>1, HarmlessInv DEF Join, world, Harmless, TypeOK
<1>5. CASE ChangeStanding(u)
  <2>1. standing' \in [Users -> {"member", "left", "banned"}]
    BY <1>0, <1>5 DEF ChangeStanding, TypeOK
  <2> QED
    BY <1>0, <1>5, <2>1, HarmlessInv DEF ChangeStanding, Harmless, TypeOK
<1>6. CASE ForgetFSM(u)
  BY <1>0, <1>6, HarmlessInv DEF ForgetFSM, world, Harmless, TypeOK
<1> QED
  BY <1>1, <1>2, <1>3, <1>4, <1>5, <1>6 DEF Player

\* A rejection takes the seats of its players, and is caught by a sweep.
LEMMA LoseInv ==
    ASSUME GateConstants, IInv, NEW S, S \subseteq Users, NEW players \in Seq(Users),
           \A u : u \in S <=> \E j \in 1..Len(players) : players[j] = u,
           NEW pr \in [Users -> [1..MaxPages -> ProofStatus]],
           \A w \in Users \ S : pr[w] = proof[w],
           proof' = pr, Seats(VoidAll(players), pr), Catch(S),
           UNCHANGED <<world, asks, midway, sweep>>
    PROVE  IInv'
<1> DEFINE s == VoidAll(players)
<1>1. /\ s \in Seating
      /\ \A u \in Users : s.reg[u] = "confirmed" /\ u \notin s.up
                          => reg[u] = "confirmed" /\ u \notin S
      /\ \A u \in Users : reg[u] = "confirmed" /\ u \notin S => s.reg[u] = "confirmed"
  BY VoidAllKeeps DEF IInv
<1>2. /\ reg' = s.reg /\ line' = s.line /\ waited' = waited
      /\ slipped' = slipped \cup {u \in s.up : \E p \in Pages : pr[u][p] = "rejected"}
  BY DEF Seats
<1> HIDE DEF s
<1>3. /\ reg' \in [Users -> RegStatus] /\ line' \in Seq(waited') /\ IsInjective(line')
      /\ waited' \subseteq Users /\ slipped' \subseteq Users
      /\ unheard' \subseteq Users
  BY <1>1, <1>2 DEF Seating, Seats, IInv, TypeOK
<1>4. /\ caught' \in [Users -> {"no", "before the send", "at the send"}]
      /\ \A u \in Users \ S : caught'[u] = caught[u]
      /\ ~sweep.on => \A u \in Users : caught'[u] = caught[u]
      /\ sweep.on => \A u \in S : /\ u = sweep.at => caught'[u] = "at the send"
                                  /\ u # sweep.at /\ caught[u] # "at the send"
                                     => caught'[u] = "before the send"
  BY DEF Catch, IInv, TypeOK
<1>5. TypeOK'
  BY <1>3, <1>4 DEF world, IInv, TypeOK, Pages
<1>6. RejectedHoldsNoSeat'
  <2>1. ASSUME NEW u \in Users, reg'[u] = "confirmed", Rejected(u)' PROVE u \in slipped'
    <3>1. \E p \in Pages : pr[u][p] = "rejected"
      BY <2>1 DEF Rejected, Pages, world
    <3>2. CASE u \in s.up
      BY <1>2, <3>1, <3>2
    <3>3. CASE u \notin s.up
      <4>1. reg[u] = "confirmed" /\ u \notin S
        BY <1>1, <1>2, <2>1, <3>3
      <4>2. Rejected(u)
        BY <3>1, <4>1 DEF Rejected
      <4> QED
        BY <1>2, <4>1, <4>2 DEF IInv, RejectedHoldsNoSeat
    <3> QED
      BY <3>2, <3>3
  <2> QED
    BY <2>1 DEF RejectedHoldsNoSeat
<1>7. SweptInTime'
  <2>0. sweep' = sweep /\ sweep.todo \subseteq Users /\ SweptInTime
    BY DEF IInv, TypeOK
  <2>1. ~sweep.on => /\ sweep.todo = {} /\ sweep.at = Nobody
                     /\ \A u \in Users : caught'[u] = "no"
    BY <1>4, <2>0 DEF SweptInTime
  <2>2. ASSUME NEW u \in sweep.todo
        PROVE  /\ u # sweep.at /\ caught'[u] # "at the send"
               /\ reg'[u] = "confirmed" \/ caught'[u] = "before the send"
    <3>1. sweep.on /\ u \in Users /\ u # sweep.at /\ caught[u] # "at the send"
      BY <2>0, <2>2 DEF SweptInTime
    <3>2. CASE u \in S
      BY <1>4, <3>1, <3>2
    <3>3. CASE u \notin S
      BY <1>1, <1>2, <1>4, <2>0, <2>2, <3>1, <3>3 DEF SweptInTime
    <3> QED
      BY <3>2, <3>3
  <2>3. ASSUME NEW u \in Users, u = sweep.at
        PROVE  \/ caught'[u] = "at the send"
               \/ ~Rejected(u)' /\ (reg'[u] = "confirmed" \/ caught'[u] = "before the send")
    <3>1. CASE u \in S
      <4>1. CASE sweep.on
        BY <1>4, <2>3, <3>1, <4>1
      <4>2. CASE ~sweep.on
        <5>1. caught[u] = "no" /\ caught'[u] = "no" /\ sweep.at = Nobody
          BY <1>4, <2>0, <4>2 DEF SweptInTime
        <5>2. FALSE
          BY <2>3, <5>1 DEF GateConstants
        <5> QED
          BY <5>2
      <4> QED
        BY <4>1, <4>2
    <3>2. CASE u \notin S
      <4>1. Rejected(u)' => Rejected(u)
        BY <3>2 DEF Rejected, Pages, world
      <4> QED
        BY <1>1, <1>2, <1>4, <2>0, <2>3, <3>2, <4>1 DEF SweptInTime
    <3> QED
      BY <3>1, <3>2
  <2> QED
    BY <2>0, <2>1, <2>2, <2>3 DEF SweptInTime
<1> QED
  BY <1>5, <1>6, <1>7 DEF IInv

LEMMA MarkTyped ==
    ASSUME TypeOK, NEW batch, NEW status \in ProofStatus
    PROVE  /\ Mark(batch, status) \in [Users -> [1..MaxPages -> ProofStatus]]
           /\ \A u \in Users : (\A p \in 1..MaxPages : <<u, p>> \notin batch)
                               => Mark(batch, status)[u] = proof[u]
           /\ \A u \in Users, p \in 1..MaxPages :
                 Mark(batch, status)[u][p] \in {status, proof[u][p]}
<1>1. proof \in [Users -> [1..MaxPages -> ProofStatus]]
  BY DEF TypeOK
<1>2. \A u \in Users : proof[u] = [p \in 1..MaxPages |-> proof[u][p]]
  BY <1>1
<1> QED
  BY <1>1, <1>2 DEF Mark

LEMMA OrganizerInv == ASSUME GateConstants, IInv, Organizer PROVE IInv'
<1>0. TypeOK /\ proof \in [Users -> [1..MaxPages -> ProofStatus]] /\ Pages \subseteq 1..MaxPages
  BY PagesRight DEF IInv, TypeOK
<1>1. ASSUME NEW u \in Users, NEW p \in Pages, Reject(u, p) PROVE IInv'
  <2> DEFINE pr == [proof EXCEPT ![u][p] = "rejected"]
  <2>1. /\ proof' = pr /\ Seats(VoidAll(<<u>>), pr) /\ Catch({u})
        /\ UNCHANGED <<world, asks, midway, sweep>>
    BY <1>1 DEF Reject
  <2>2. pr \in [Users -> [1..MaxPages -> ProofStatus]] /\ \A w \in Users \ {u} : pr[w] = proof[w]
    BY <1>0 DEF ProofStatus
  <2>3. /\ <<u>> \in Seq(Users) /\ {u} \subseteq Users
        /\ \A w : w \in {u} <=> \E j \in 1..Len(<<u>>) : <<u>>[j] = w
    OBVIOUS
  <2> HIDE DEF pr
  <2> QED
    BY <2>1, <2>2, <2>3, LoseInv
<1>2. ASSUME NEW u \in Users, NEW p \in Pages, Restore(u, p) PROVE IInv'
  <2> DEFINE row == [proof[u] EXCEPT ![p] = "approved"]
  <2>1. /\ proof' = [proof EXCEPT ![u] = row] /\ (Register(u, proof') \/ Fails(u))
        /\ UNCHANGED <<world, asks, midway, sweep, caught>>
    BY <1>2 DEF Restore
  <2>2. /\ row \in [1..MaxPages -> ProofStatus]
        /\ \A q \in Pages : row[q] = "rejected" => proof[u][q] = "rejected"
    BY <1>0 DEF ProofStatus
  <2> HIDE DEF row
  <2>3. /\ proof' \in [Users -> [1..MaxPages -> ProofStatus]]
        /\ \A w \in Users, q \in Pages : proof'[w][q] = "rejected" => proof[w][q] = "rejected"
    BY <1>0, <2>1, <2>2
  <2> QED
    BY <1>0, <2>1, <2>3, HarmlessInv DEF Harmless, world, TypeOK
<1>3. CASE ApproveAll
  <2>1. PICK batch : /\ batch # {} /\ batch \subseteq Users \X Pages
                     /\ proof' = Mark(batch, "approved")
    BY <1>3 DEF ApproveAll, OneTap, Proofs
  <2>2. PICK x \in batch : x[1] \in Users
    BY <2>1
  <2>3. /\ proof' \in [Users -> [1..MaxPages -> ProofStatus]]
        /\ \A w \in Users, q \in Pages : proof'[w][q] = "rejected" => proof[w][q] = "rejected"
    BY <1>0, <2>1, MarkTyped DEF ProofStatus
  <2> QED
    BY <1>0, <1>3, <2>2, <2>3, HarmlessInv DEF ApproveAll, Harmless, world, TypeOK
<1>4. CASE RejectAll
  <2>1. PICK batch : /\ batch \subseteq Users \X Pages
                     /\ LET players == {x[1] : x \in batch}
                            pr == Mark(batch, "rejected")
                        IN /\ proof' = pr
                           /\ \E turns \in SetToSeqs(players) : Seats(VoidAll(turns), pr)
                           /\ Catch(players)
    BY <1>4 DEF RejectAll, Proofs
  <2> DEFINE players == {x[1] : x \in batch}
             pr == Mark(batch, "rejected")
  <2>2. /\ pr \in [Users -> [1..MaxPages -> ProofStatus]]
        /\ \A u \in Users \ players : pr[u] = proof[u]
    <3>1. \A u \in Users \ players, p \in 1..MaxPages : <<u, p>> \notin batch
      OBVIOUS
    <3> QED
      BY <1>0, <3>1, MarkTyped DEF ProofStatus
  <2>3. players \subseteq Users /\ IsFiniteSet(players)
    <3>1. players \subseteq Users
      BY <2>1
    <3> QED
      BY <3>1, FS_Subset DEF GateConstants
  <2>4. proof' = pr /\ Catch(players)
    BY <2>1
  <2>5. PICK turns \in SetToSeqs(players) : Seats(VoidAll(turns), pr)
    BY <2>1
  <2> HIDE DEF players, pr
  <2>6. /\ turns \in Seq(players)
        /\ \A u : u \in players <=> \E j \in 1..Len(turns) : turns[j] = u
    BY <2>3, <2>5, AllHaveTurns
  <2>7. turns \in Seq(Users)
    BY <2>3, <2>6
  <2> QED
    BY <1>4, <2>2, <2>3, <2>4, <2>5, <2>6, <2>7, LoseInv DEF RejectAll
<1>5. CASE CloseWindow
  <2>1. CASE Users = {}
    BY <1>5, <2>1 DEF CloseWindow, seats, places, IInv, TypeOK, Pages, RejectedHoldsNoSeat, SweptInTime
  <2>2. CASE Users # {}
    BY <1>0, <1>5, <2>2, HarmlessInv DEF CloseWindow, Harmless, TypeOK
  <2> QED
    BY <2>1, <2>2
<1> QED
  BY <1>1, <1>2, <1>3, <1>4, <1>5 DEF Organizer

LEMMA SweepingInv == ASSUME GateConstants, IInv, Sweeping PROVE IInv'
<1>0. /\ sweep \in [on : BOOLEAN, todo : SUBSET Users, at : Users \cup {Nobody},
                    drop : SUBSET Users, sent : SUBSET Users]
      /\ Nobody \notin Users /\ TypeOK /\ RejectedHoldsNoSeat /\ SweptInTime
      /\ \A u \in Users : caught[u] \in {"no", "before the send", "at the send"}
  BY DEF IInv, TypeOK, GateConstants
<1>1. ASSUME UNCHANGED <<proof, seats, world, asks, midway, caught>>,
             sweep' \in [on : BOOLEAN, todo : SUBSET Users, at : Users \cup {Nobody},
                         drop : SUBSET Users, sent : SUBSET Users],
             SweptInTime'
      PROVE  IInv'
  BY <1>1 DEF IInv, TypeOK, RejectedHoldsNoSeat, Rejected, Pages, seats, places, world
<1>2. CASE SweepStart
  <2>1. sweep' = [on |-> TRUE, todo |-> Confirmed(reg), at |-> Nobody, drop |-> {}, sent |-> {}]
    BY <1>2 DEF SweepStart, Off
  <2>2. Confirmed(reg) \subseteq Users /\ \A u \in Confirmed(reg) : reg[u] = "confirmed"
    BY DEF Confirmed
  <2>3. ~sweep.on /\ UNCHANGED <<proof, seats, world, asks, midway, caught>>
    BY <1>2 DEF SweepStart
  <2>4. SweptInTime'
    <3>1. sweep'.on /\ sweep'.todo = Confirmed(reg) /\ sweep'.at = Nobody
      BY <2>1
    <3>2. reg' = reg /\ caught' = caught /\ \A u \in Users : caught[u] = "no"
      BY <1>0, <2>3 DEF SweptInTime, seats, places
    <3>3. \A u \in sweep'.todo : u # sweep'.at /\ caught'[u] = "no" /\ reg'[u] = "confirmed"
      BY <1>0, <2>2, <3>1, <3>2
    <3>4. \A u \in Users : u # sweep'.at
      BY <1>0, <3>1
    <3> QED
      BY <3>1, <3>3, <3>4 DEF SweptInTime
  <2>5. sweep' \in [on : BOOLEAN, todo : SUBSET Users, at : Users \cup {Nobody},
                    drop : SUBSET Users, sent : SUBSET Users]
    BY <2>1, <2>2
  <2> QED
    BY <1>1, <2>3, <2>4, <2>5
<1>3. ASSUME NEW u \in Users, SweepCheck(u) PROVE IInv'
  <2>1. /\ sweep.on /\ sweep.at = Nobody /\ u \in sweep.todo
        /\ UNCHANGED <<proof, seats, world, asks, midway, caught>>
    BY <1>3 DEF SweepCheck
  <2>2. /\ sweep' \in [on : BOOLEAN, todo : SUBSET Users, at : Users \cup {Nobody},
                       drop : SUBSET Users, sent : SUBSET Users]
        /\ sweep'.on = sweep.on /\ sweep'.todo = sweep.todo \ {u}
        /\ sweep'.at = Nobody \/ (sweep'.at = u /\ Eligible(proof, u))
    <3>1. CASE sweep' = [sweep EXCEPT !.todo = @ \ {u}]
      BY <1>0, <2>1, <3>1
    <3>2. CASE sweep' = [sweep EXCEPT !.todo = @ \ {u}, !.drop = @ \cup {u}]
      BY <1>0, <2>1, <3>2
    <3>3. CASE Eligible(proof, u) /\ sweep' = [sweep EXCEPT !.todo = @ \ {u}, !.at = u]
      BY <1>0, <2>1, <3>3
    <3> QED
      BY <1>3, <3>1, <3>2, <3>3 DEF SweepCheck
  <2>3. caught[u] # "at the send" /\ (reg[u] = "confirmed" \/ caught[u] = "before the send")
    BY <1>0, <2>1 DEF SweptInTime
  <2>4. sweep'.at = u => ~Rejected(u)
    BY <1>0, <2>2, OpenGate DEF Eligible
  <2>5. \A w \in Users : Rejected(w)' <=> Rejected(w)
    BY <2>1 DEF Rejected, Pages, world
  <2>6. SweptInTime'
    <3>1. reg' = reg /\ caught' = caught
      BY <2>1 DEF seats, places
    <3>2. ASSUME NEW w \in Users, w = sweep'.at
          PROVE  ~Rejected(w)' /\ (reg'[w] = "confirmed" \/ caught'[w] = "before the send")
      BY <1>0, <2>2, <2>3, <2>4, <2>5, <3>1, <3>2
    <3>3. ASSUME NEW w \in sweep'.todo
          PROVE  /\ w # sweep'.at /\ caught'[w] # "at the send"
                 /\ reg'[w] = "confirmed" \/ caught'[w] = "before the send"
      BY <1>0, <2>1, <2>2, <3>1, <3>3 DEF SweptInTime
    <3> QED
      BY <2>1, <2>2, <3>2, <3>3 DEF SweptInTime
  <2> QED
    BY <1>1, <2>1, <2>2, <2>6
<1>4. CASE SweepSend
  <2>1. /\ sweep' \in [on : BOOLEAN, todo : SUBSET Users, at : Users \cup {Nobody},
                       drop : SUBSET Users, sent : SUBSET Users]
        /\ sweep'.on = sweep.on /\ sweep'.todo = sweep.todo /\ sweep'.at = Nobody
        /\ UNCHANGED <<proof, seats, world, asks, midway, caught>>
    <3>1. sweep.at \in Users /\ UNCHANGED <<proof, seats, world, asks, midway, caught>>
      BY <1>0, <1>4 DEF SweepSend
    <3>2. CASE sweep' = [sweep EXCEPT !.at = Nobody, !.sent = @ \cup {sweep.at}]
      BY <1>0, <3>1, <3>2
    <3>3. CASE sweep' = [sweep EXCEPT !.at = Nobody]
      BY <1>0, <3>1, <3>3
    <3> QED
      BY <1>4, <3>1, <3>2, <3>3 DEF SweepSend
  <2>2. SweptInTime'
    BY <1>0, <2>1 DEF SweptInTime, seats, places
  <2> QED
    BY <1>1, <2>1, <2>2
<1>5. CASE SweepEnd
  <2>1. /\ reg' = [u \in Users |-> IF u \in sweep.drop THEN "ineligible" ELSE reg[u]]
        /\ sweep' = Off /\ caught' = [u \in Users |-> "no"]
        /\ UNCHANGED <<proof, line, waited, slipped, unheard, world, asks, midway>>
    BY <1>5 DEF SweepEnd
  <2>2. reg' \in [Users -> RegStatus] /\ \A u \in Users : reg'[u] = "confirmed" => reg[u] = "confirmed"
    BY <1>0, <2>1 DEF TypeOK, RegStatus
  <2>3. /\ sweep' \in [on : BOOLEAN, todo : SUBSET Users, at : Users \cup {Nobody},
                       drop : SUBSET Users, sent : SUBSET Users]
        /\ ~sweep'.on /\ sweep'.todo = {} /\ sweep'.at = Nobody
    BY <2>1 DEF Off
  <2>4. TypeOK'
    BY <1>0, <2>1, <2>2, <2>3 DEF TypeOK, world, Pages
  <2>5. RejectedHoldsNoSeat'
    BY <1>0, <2>1, <2>2 DEF RejectedHoldsNoSeat, Rejected, Pages, world
  <2>6. SweptInTime'
    BY <1>0, <2>1, <2>3 DEF SweptInTime
  <2> QED
    BY <2>4, <2>5, <2>6 DEF IInv
<1> QED
  BY <1>2, <1>3, <1>4, <1>5 DEF Sweeping

LEMMA NextInv == ASSUME GateConstants, IInv, [Next]_vars PROVE IInv'
<1>1. CASE UNCHANGED vars
  <2>1. TypeOK'
    BY <1>1 DEF vars, IInv, TypeOK, Pages
  <2>2. RejectedHoldsNoSeat'
    BY <1>1 DEF vars, IInv, RejectedHoldsNoSeat, Rejected, Pages
  <2>3. SweptInTime'
    BY <1>1 DEF vars, IInv, SweptInTime, Rejected, Pages
  <2> QED
    BY <2>1, <2>2, <2>3 DEF IInv
<1>2. CASE Next
  BY <1>2, PlayerInv, OrganizerInv, SweepingInv DEF Next
<1> QED
  BY <1>1, <1>2

\* Only SweepSend writes to anybody.
LEMMA SendStep == ASSUME GateConstants, IInv, [Next]_vars PROVE SendsToEarners
<1>0. SweptInTime /\ sweep.sent \subseteq Users
  BY DEF IInv, TypeOK
<1>1. SUFFICES ASSUME NEW u \in sweep'.sent \ sweep.sent
               PROVE  \/ caught[u] = "at the send"
                      \/ ~Rejected(u) /\ (reg[u] = "confirmed" \/ caught[u] = "before the send")
  BY DEF SendsToEarners
<1>2. SweepSend
  <2>1. sweep' # sweep
    BY <1>1
  <2>2. ~ \E w \in Users : Player(w)
    BY <2>1 DEF Player, Start, Upload, FinishUpload, Join, ChangeStanding, ForgetFSM
  <2>3. ~Organizer
    BY <2>1 DEF Organizer, Reject, Restore, ApproveAll, RejectAll, CloseWindow
  <2>4. ~SweepStart /\ ~SweepEnd /\ ~ \E w \in Users : SweepCheck(w)
    <3>1. ~SweepStart /\ ~SweepEnd
      <4>1. sweep'.sent # {}
        BY <1>1
      <4>2. Off.sent = {} /\ [Off EXCEPT !.on = TRUE, !.todo = Confirmed(reg)].sent = {}
        BY DEF Off
      <4> QED
        BY <4>1, <4>2 DEF SweepStart, SweepEnd
    <3>2. ~ \E w \in Users : SweepCheck(w)
      BY <1>1 DEF SweepCheck, IInv, TypeOK
    <3> QED
      BY <3>1, <3>2
  <2>5. ~UNCHANGED vars
    BY <2>1 DEF vars
  <2> QED
    BY <2>2, <2>3, <2>4, <2>5 DEF Next, Sweeping
<1>3. u = sweep.at /\ u \in Users
  <2>1. sweep.at \in Users
    BY <1>2 DEF SweepSend, IInv, TypeOK
  <2>2. sweep'.sent \subseteq sweep.sent \cup {sweep.at}
    <3>1. CASE sweep' = [sweep EXCEPT !.at = Nobody, !.sent = @ \cup {sweep.at}]
      BY <3>1 DEF IInv, TypeOK
    <3>2. CASE sweep' = [sweep EXCEPT !.at = Nobody]
      BY <3>2 DEF IInv, TypeOK
    <3> QED
      BY <1>2, <3>1, <3>2 DEF SweepSend
  <2> QED
    BY <1>1, <2>1, <2>2
<1> QED
  BY <1>0, <1>3 DEF SweptInTime

\* Only FinishUpload counts an upload down.
LEMMA LastUploadStep == ASSUME GateConstants, IInv, [Next]_vars PROVE LastUploadSeats
<1>0. TypeOK /\ midway \in [Users -> 0..MaxUploads] /\ MaxUploads \in Nat
  BY DEF IInv, TypeOK, GateConstants
<1>1. SUFFICES ASSUME NEW u \in Users, midway'[u] < midway[u], Owed(proof, u) = {}, open,
                      standing[u] = "member", HasRoom \/ HasSeat(u), u \notin unheard'
               PROVE  reg'[u] \in {"confirmed", "waitlisted"}
  BY DEF LastUploadSeats, HasSeat
<1>2. FinishUpload(u)
  <2>1. midway' # midway
    BY <1>0, <1>1
  <2>2. \A w \in Users : ~Start(w) /\ ~Join(w) /\ ~ChangeStanding(w) /\ ~ForgetFSM(w)
    BY <2>1 DEF Start, Join, ChangeStanding, ForgetFSM
  <2>3. ~Organizer
    BY <2>1 DEF Organizer, Reject, Restore, ApproveAll, RejectAll, CloseWindow
  <2>4. ~Sweeping
    BY <2>1 DEF Sweeping, SweepStart, SweepCheck, SweepSend, SweepEnd
  <2>5. ~UNCHANGED vars
    BY <2>1 DEF vars
  <2>6. ASSUME NEW w \in Users, Upload(w) PROVE FALSE
    <3>1. midway' = [midway EXCEPT ![w] = @ + 1]
      BY <2>1, <2>6 DEF Upload
    <3>2. midway[u] \in Nat
      BY <1>0
    <3> QED
      BY <1>0, <1>1, <3>1, <3>2
  <2>7. ASSUME NEW w \in Users, FinishUpload(w) PROVE w = u
    BY <1>0, <1>1, <2>7 DEF FinishUpload
  <2> QED
    BY <2>2, <2>3, <2>4, <2>5, <2>6, <2>7 DEF Next, Player
<1>3. GateOk(proof, u) /\ Register(u, proof)
  <2>1. GateOk(proof, u)
    BY <1>1 DEF Owed, GateOk
  <2>2. ~Fails(u)
    BY <1>1 DEF Fails
  <2> QED
    BY <1>2, <2>1, <2>2 DEF FinishUpload
<1>4. Eligible(proof, u) /\ ~Banned(u)
  BY <1>1, <1>3 DEF Eligible, Banned
<1>5. CASE HasSeat(u)
  <2>1. reg' = reg
    BY <1>0, <1>3, <1>5, RegisterKeeps
  <2> QED
    BY <1>5, <2>1 DEF HasSeat
<1>6. CASE ~HasSeat(u)
  <2>1. ~Refused(u) /\ HasRoom
    BY <1>1, <1>4, <1>6 DEF Refused
  <2>2. reg' = [reg EXCEPT ![u] = "confirmed"]
    BY <1>1, <1>3, <1>4, <2>1 DEF Register, Becomes
  <2> QED
    BY <1>0, <2>2 DEF TypeOK
<1> QED
  BY <1>5, <1>6

\* A seat is taken back by a rejection of the player's own, and by the sweep.
LEMMA SeatsStep == ASSUME GateConstants, IInv, [Next]_vars PROVE SeatsLast
<1>0. TypeOK /\ proof \in [Users -> [1..MaxPages -> ProofStatus]] /\ Pages \subseteq 1..MaxPages
  BY PagesRight DEF IInv, TypeOK
<1>1. SUFFICES ASSUME NEW u \in Users, HasSeat(u), ~HasSeat(u)',
                      \A p \in Pages : proof'[u][p] = "rejected" => proof[u][p] = "rejected"
               PROVE  sweep.on /\ u \in sweep.drop
  BY DEF SeatsLast
<1>2. reg'[u] # reg[u]
  BY <1>1 DEF HasSeat
<1>3. ~UNCHANGED seats
  BY <1>2 DEF seats, places
<1>4. \A pr : \A w \in Users : ~Register(w, pr) /\ ~Fails(w)
  <2>1. ASSUME NEW w \in Users, NEW pr, Register(w, pr) \/ Fails(w) PROVE FALSE
    <3>1. CASE w = u
      BY <1>0, <1>1, <1>2, <2>1, <3>1, RegisterKeeps
    <3>2. CASE w # u
      BY <1>0, <1>2, <2>1, <3>2, RegisterKeeps
    <3> QED
      BY <3>1, <3>2
  <2> QED
    BY <2>1
<1>5. \A w \in Users : ~Player(w)
  BY <1>3, <1>4 DEF Player, Start, Upload, FinishUpload, Join, ChangeStanding, ForgetFSM
<1>6. ASSUME NEW players \in Seq(Users), NEW pr, Seats(VoidAll(players), pr),
             \A j \in 1..Len(players) : players[j] # u
      PROVE  FALSE
  BY <1>0, <1>1, <1>6, VoidAllKeeps DEF Seats, HasSeat
<1>7. ~Organizer
  <2>1. ASSUME NEW w \in Users, NEW p \in Pages, Reject(w, p) PROVE FALSE
    <3>1. Seats(VoidAll(<<w>>), [proof EXCEPT ![w][p] = "rejected"])
      BY <2>1 DEF Reject
    <3>2. w # u
      BY <1>0, <1>1, <2>1 DEF Reject
    <3>3. <<w>> \in Seq(Users) /\ \A j \in 1..Len(<<w>>) : <<w>>[j] # u
      BY <3>2
    <3> QED
      BY <1>6, <3>1, <3>3
  <2>2. ASSUME RejectAll PROVE FALSE
    <3>1. PICK batch : /\ batch \subseteq Proofs({"pending", "approved"})
                       /\ LET players == {x[1] : x \in batch}
                              pr == Mark(batch, "rejected")
                          IN /\ proof' = pr
                             /\ \E turns \in SetToSeqs(players) : Seats(VoidAll(turns), pr)
      BY <2>2 DEF RejectAll
    <3> DEFINE players == {x[1] : x \in batch}
               pr == Mark(batch, "rejected")
    <3>2. PICK turns \in SetToSeqs(players) : Seats(VoidAll(turns), pr)
      BY <3>1
    <3>3. players \subseteq Users /\ IsFiniteSet(players)
      <4>1. players \subseteq Users
        BY <3>1 DEF Proofs
      <4> QED
        BY <4>1, FS_Subset DEF GateConstants
    <3>4. u \notin players
      <4>1. SUFFICES ASSUME NEW x \in batch, x[1] = u PROVE FALSE
        OBVIOUS
      <4>2. x = <<u, x[2]>> /\ x[2] \in Pages /\ proof[u][x[2]] \in {"pending", "approved"}
        BY <3>1, <4>1 DEF Proofs
      <4>3. proof'[u][x[2]] = "rejected"
        BY <1>0, <3>1, <4>2 DEF Mark
      <4> QED
        BY <1>1, <4>2, <4>3
    <3> HIDE DEF players, pr
    <3>5. /\ turns \in Seq(players)
          /\ \A w : w \in players <=> \E j \in 1..Len(turns) : turns[j] = w
      BY <3>2, <3>3, AllHaveTurns
    <3>6. turns \in Seq(Users)
      BY <3>3, <3>5
    <3> QED
      BY <1>6, <3>2, <3>4, <3>5, <3>6
  <2> QED
    BY <1>3, <1>4, <2>1, <2>2 DEF Organizer, Restore, ApproveAll, CloseWindow
<1>8. ~UNCHANGED vars
  BY <1>2 DEF vars
<1>9. SweepEnd
  BY <1>3, <1>5, <1>7, <1>8 DEF Next, Sweeping, SweepStart, SweepCheck, SweepSend
<1> QED
  BY <1>1, <1>2, <1>9 DEF SweepEnd

-----------------------------------------------------------------------------
(* Theorems                                                                *)

\* Seats, proofs and the sweep keep to the invariant, however uploads,
\* rejections, promotions and the sweep interleave.
THEOREM Invariant == ASSUME GateConstants PROVE Spec => []IInv
<1>1. Init => IInv
  BY InitInv
<1>2. IInv /\ [Next]_vars => IInv'
  BY NextInv
<1> QED
  BY <1>1, <1>2, PTL DEF Spec

\* Proofs, registrations, the line and the sweep are of their types.
THEOREM TypeCorrect == ASSUME GateConstants PROVE Spec => []TypeOK
<1>1. IInv => TypeOK
  BY DEF IInv
<1> QED
  BY <1>1, Invariant, PTL

\* A player with a rejected screenshot holds no seat but one handed on from the
\* waitlist, whichever rejections, bulk rejections and uploads came in what order
\* (_resolve_social, org_social_all_no, register_user).
THEOREM NoSeatWithRejection == ASSUME GateConstants PROVE Spec => []RejectedHoldsNoSeat
<1>1. IInv => RejectedHoldsNoSeat
  BY DEF IInv
<1> QED
  BY <1>1, Invariant, PTL

\* The sweep writes to who holds a seat and has no rejected screenshot, but for a
\* rejection that falls into the sweep (deliver_one).
THEOREM EarnedIsSent == ASSUME GateConstants PROVE Spec => PasswordEarned
<1>1. IInv /\ [Next]_vars => [SendsToEarners]_vars
  BY SendStep
<1> QED
  BY <1>1, Invariant, PTL DEF Spec, PasswordEarned

\* When the prompt asks for no more page, the player has a seat, as far as there
\* is one to have, but for a registration that failed or found something else
\* missing; and the seat is lost only by a rejected screenshot or the sweep
\* (social_screenshot, register_user).
THEOREM LastIsSeated == ASSUME GateConstants PROVE Spec => FinalMeansSeated
<1>1. IInv /\ [Next]_vars => [LastUploadSeats /\ SeatsLast]_vars
  BY LastUploadStep, SeatsStep
<1> QED
  BY <1>1, Invariant, PTL DEF Spec, FinalMeansSeated
=============================================================================
