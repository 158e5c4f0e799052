-------------------------- MODULE ComponentsProofs --------------------------
(***************************************************************************)
(* Theorems about OrganizerTrust, for any players, reports and sessions,   *)
(* any stars and any number of changes of the score; and, on top of the    *)
(* proofs of the other components, about the parts of MCComponents: what   *)
(* its run checks of one small instance holds of every instance.           *)
(***************************************************************************)
EXTENDS MCComponents, TLAPS

-----------------------------------------------------------------------------
(* The inductive invariant                                                 *)

\* What a deed is about is there: a claim, a review and a file have their
\* player, a verdict has its report and that report's rule.
Fits(d) ==
    /\ d \in Deed
    /\ d.how \in {"claim", "refuse", "review", "file"} => d.about \in Users
    /\ d.how \in {"confirm", "uphold"} =>
          /\ d.about \in Reports /\ report[d.about] # NoReport
          /\ d.rule = RuleOf(report[d.about].reason)
    /\ d.how = "claim" => d.rule = "prize_paid_confirmed"
    /\ d.files # "none" => d.how \in {"review", "file"}

\* A session has such a deed, and writes only if it applies a rule.
Meant ==
    \A s \in Sessions : tx[s] # Idle =>
        /\ Fits(tx[s].deed)
        /\ tx[s].writes => tx[s].deed.rule # "none"

\* A session that leaves out a row knows of another one of the rule.
Judged ==
    \A s \in Sessions : (tx[s] # Idle /\ tx[s].deed.rule \in OncePerEvent /\ ~tx[s].writes)
        => rows[tx[s].deed.rule] >= 1

\* A session that will write a row nobody competes for writes the first.
First ==
    \A s \in Sessions : (tx[s] # Idle /\ tx[s].deed.rule \in OncePerEvent \ raced /\ tx[s].writes)
        => rows[tx[s].deed.rule] = 0

\* Two sessions that hold the organizer have been noticed.
Rivals ==
    \A s, t \in Sessions : s # t /\ Holding(s) /\ Holding(t) =>
        /\ overlapped
        /\ (tx[s].deed.rule = tx[t].deed.rule) => tx[s].deed.rule \in raced

\* As long as there were none, the score is the sum, and the session that is
\* about to change it has loaded it.
Fresh ==
    ~overlapped =>
        /\ score = added
        /\ \A s \in Sessions : Holding(s) => tx[s].copy = score

IInv == TypeOK /\ Meant /\ Judged /\ First /\ Rivals /\ Fresh /\ OnceOnly /\ UpheldCounts

-----------------------------------------------------------------------------
(* Deeds, scores and sets                                                  *)

\* A rule of a verdict counts once per custom.
LEMMA RuleOfOnce ==
    ASSUME NEW x
    PROVE  RuleOf(x) \in OncePerEvent /\ RuleOf(x) \in Rules
  BY DEF RuleOf, OncePerEvent, Rules

\* A score stays between its bounds.
LEMMA ClampTyped ==
    ASSUME NEW x \in Int
    PROVE  Clamp(x) \in Score
  BY DEF Clamp, Score

\* No delta is beyond those of RULES.
LEMMA DeltaTyped ==
    ASSUME NEW r \in OncePerEvent \cup {"channel_verified"}
    PROVE  Delta[r] \in -18..18
  BY DEF Delta, OncePerEvent

LEMMA ReviewDeltaTyped ==
    ASSUME NEW r \in Ratings, NEW p
    PROVE  ReviewDelta(r, p) \in -18..18
<1>1. r \in 1..5
  BY TrustConstants
<1>2. r = 1 \/ r = 2 \/ r = 3 \/ r = 4 \/ r = 5
  BY <1>1
<1> QED
  BY <1>1, <1>2 DEF ReviewDelta

\* A deed of a rule about something of its kind.
LEMMA RuledFits ==
    ASSUME NEW r \in OncePerEvent \cup {"channel_verified"}, NEW h \in Hows \ {"review", "file"},
           NEW x \in Users \cup Reports \cup {Nobody},
           h \in {"claim", "refuse"} => x \in Users,
           h = "claim" => r = "prize_paid_confirmed",
           h \in {"confirm", "uphold"} =>
              x \in Reports /\ report[x] # NoReport /\ r = RuleOf(report[x].reason)
    PROVE  Fits(Ruled(r, h, x))
<1> DEFINE d == Ruled(r, h, x)
<1>1. d \in Deed
  <2>1. r \in Rules \cup {"none"} /\ Delta[r] \in -18..18
    BY DeltaTyped DEF Rules
  <2> QED
    BY <2>1 DEF Ruled, Deed
<1>2. d.how = h /\ d.about = x /\ d.rule = r /\ d.files = "none"
  BY DEF Ruled
<1> HIDE DEF d
<1>3. Fits(d)
  BY <1>1, <1>2 DEF Fits, Hows
<1> QED
  BY <1>3 DEF d

LEMMA SilentFits ==
    ASSUME NEW h \in {"refuse", "file"}, NEW u \in Users, NEW x \in ReportReason \cup {"none"},
           x # "none" => h = "file"
    PROVE  Fits(Silent(h, u, x))
<1> DEFINE d == Silent(h, u, x)
<1>1. d \in Deed
  BY DEF Silent, Deed, Hows
<1>2. d.how = h /\ d.about = u /\ d.files = x /\ d.rule = "none"
  BY DEF Silent
<1> HIDE DEF d
<1>3. Fits(d)
  BY <1>1, <1>2 DEF Fits
<1> QED
  BY <1>3 DEF d

\* Whatever a session is asked to do makes sense.
LEMMA DeedsFit ==
    ASSUME TypeOK, NEW d \in HandlerDeeds \cup JobDeeds
    PROVE  Fits(d)
<1>1. CASE d \in JobDeeds
  BY <1>1, RuledFits DEF JobDeeds, OncePerEvent, Hows
<1>2. CASE d \in ApproveDeeds
  BY <1>2, RuledFits DEF ApproveDeeds, Hows
<1>3. CASE d \in ApplyDeeds
  BY <1>3, RuledFits DEF ApplyDeeds, Hows
<1>4. CASE d \in ClaimDeeds
  BY <1>4, RuledFits DEF ClaimDeeds, OncePerEvent, Hows
<1>5. CASE d \in RefuseDeeds
  BY <1>5, SilentFits DEF RefuseDeeds
<1>6. CASE d \in ConfirmDeeds
  <2>1. PICK r \in Reports : /\ report[r] # NoReport
                             /\ d = Ruled(RuleOf(report[r].reason), "confirm", r)
    BY <1>6 DEF ConfirmDeeds
  <2>2. RuleOf(report[r].reason) \in OncePerEvent
    BY RuleOfOnce
  <2> QED
    BY <2>1, <2>2, RuledFits DEF Hows
<1>7. CASE d \in UpholdDeeds
  <2>1. PICK r \in Reports : /\ report[r] # NoReport
                             /\ d = Ruled(RuleOf(report[r].reason), "uphold", r)
    BY <1>7 DEF UpholdDeeds
  <2>2. RuleOf(report[r].reason) \in OncePerEvent
    BY RuleOfOnce
  <2> QED
    BY <2>1, <2>2, RuledFits DEF Hows
<1>8. CASE d \in ReviewDeeds
  <2>1. PICK u \in Users, r \in Ratings, p \in {"yes", "no", "unknown"} :
            d = [rule |-> "player_review", delta |-> ReviewDelta(r, p), how |-> "review",
                 about |-> u, files |-> PrizeVote(u, p)]
    BY <1>8 DEF ReviewDeeds
  <2>2. ReviewDelta(r, p) \in -18..18 /\ PrizeVote(u, p) \in ReportReason \cup {"none"}
    BY ReviewDeltaTyped DEF PrizeVote, ReportReason
  <2>3. d \in Deed
    BY <2>1, <2>2 DEF Deed, Rules, Hows
  <2>4. d.how = "review" /\ d.about = u
    BY <2>1
  <2> QED
    BY <2>3, <2>4 DEF Fits
<1>9. CASE d \in FileDeeds
  BY <1>9, SilentFits DEF FileDeeds
<1>10. CASE d \in ApiFileDeeds
  BY <1>10, SilentFits DEF ApiFileDeeds
<1> QED
  BY <1>1, <1>2, <1>3, <1>4, <1>5, <1>6, <1>7, <1>8, <1>9, <1>10 DEF HandlerDeeds

-----------------------------------------------------------------------------
(* Sessions that begin and end                                             *)

\* What is promised of the score, its rows and who is about to change them.
Accounts == Judged /\ First /\ Rivals /\ Fresh /\ OnceOnly

\* The types of what a session writes to the score.
ScoreTyped == score \in Score /\ added \in Score /\ rows \in [Rules -> Nat]

RowsGrow == \A r \in Rules : rows'[r] >= rows[r]

\* Reports stay, with their reasons.
ReportsStay ==
    \A r \in Reports :
        report[r] # NoReport => report'[r] # NoReport /\ report'[r].reason = report[r].reason

\* The session s is over, and the others are where they were.
Over(s) ==
    /\ s \in Sessions /\ tx[s] # Idle
    /\ tx' = [tx EXCEPT ![s] = Idle]
    /\ UNCHANGED <<overlapped, raced>>

\* What is left of a session that is over.
LEMMA OthersStay ==
    ASSUME TypeOK, NEW s, Over(s)
    PROVE  /\ tx'[s] = Idle
           /\ \A t \in Sessions \ {s} : tx'[t] = tx[t]
           /\ \A t \in Sessions : tx'[t] # Idle => t # s /\ tx'[t] = tx[t]
           /\ \A t \in Sessions : Holding(t)' => t # s /\ Holding(t)
           /\ tx' \in [Sessions -> Tx]
  BY DEF TypeOK, Over, Holding, Tx

\* A session of a rule has a delta between the bounds.
LEMMA SessionTyped ==
    ASSUME TypeOK, NEW s \in Sessions, tx[s] # Idle
    PROVE  /\ tx[s].deed \in Deed /\ tx[s].copy \in Score /\ tx[s].writes \in BOOLEAN
           /\ tx[s].deed.rule \in Rules \cup {"none"}
           /\ tx[s].deed.delta \in Int
<1>1. tx[s] \in [busy : {TRUE}, deed : Deed, copy : Score, writes : BOOLEAN]
  BY DEF TypeOK, Tx
<1>2. tx[s].deed \in Deed /\ tx[s].copy \in Score /\ tx[s].writes \in BOOLEAN
  BY <1>1
<1>3. \A d \in Deed : d.rule \in Rules \cup {"none"} /\ d.delta \in Int
  BY DEF Deed
<1> QED
  BY <1>2, <1>3

\* A commit that moves the score moves it once, and adds its row.
LEMMA MovesRight ==
    ASSUME TypeOK, Meant, NEW s \in Sessions, tx[s] # Idle, Moves(s)
    PROVE  /\ ScoreTyped' /\ RowsGrow
           /\ tx[s].writes => /\ tx[s].deed.rule \in Rules
                              /\ rows' = [rows EXCEPT ![tx[s].deed.rule] = rows[tx[s].deed.rule] + 1]
                              /\ added' = Clamp(added + tx[s].deed.delta)
                              /\ tx[s].copy = score => score' = Clamp(score + tx[s].deed.delta)
           /\ ~tx[s].writes => UNCHANGED <<score, rows, added>>
<1>1. CASE ~tx[s].writes
  <2>1. UNCHANGED <<score, rows, added>>
    BY <1>1 DEF Moves
  <2> QED
    BY <1>1, <2>1 DEF ScoreTyped, RowsGrow, TypeOK
<1>2. CASE tx[s].writes
  <2> DEFINE d == tx[s].deed
             new == Clamp(tx[s].copy + d.delta)
  <2>1. d.rule \in Rules /\ d.delta \in Int /\ tx[s].copy \in Int
    BY <1>2, SessionTyped DEF Meant, Score
  <2>2. /\ score' = IF new = tx[s].copy THEN score ELSE new
        /\ rows' = [rows EXCEPT ![d.rule] = rows[d.rule] + 1]
        /\ added' = Clamp(added + d.delta)
    BY <1>2 DEF Moves
  <2>3. score \in Score /\ added \in Score /\ added \in Int /\ rows \in [Rules -> Nat]
    BY DEF TypeOK, Score
  <2>4. new \in Score /\ added' \in Score
    BY <2>1, <2>2, <2>3, ClampTyped
  <2> HIDE DEF d, new
  <2>5. ScoreTyped'
    BY <2>1, <2>2, <2>3, <2>4 DEF ScoreTyped
  <2>6. RowsGrow
    BY <2>1, <2>2, <2>3 DEF RowsGrow
  <2>7. tx[s].copy = score => score' = Clamp(score + d.delta)
    BY <2>2 DEF new
  <2> QED
    BY <1>2, <2>1, <2>2, <2>5, <2>6, <2>7 DEF d
<1> QED
  BY <1>1, <1>2

\* ... and the accounts still hold.
LEMMA MovesAccount ==
    ASSUME TypeOK, Meant, Accounts, NEW s, Over(s), Moves(s)
    PROVE  Accounts'
<1> DEFINE r == tx[s].deed.rule
<1>1. s \in Sessions /\ tx[s] # Idle /\ UNCHANGED <<overlapped, raced>>
  BY DEF Over
<1>2. /\ \A t \in Sessions : tx'[t] # Idle => t # s /\ tx'[t] = tx[t]
      /\ \A t \in Sessions : Holding(t)' => t # s /\ Holding(t)
  BY OthersStay
<1>3. /\ ScoreTyped' /\ RowsGrow
      /\ tx[s].writes => /\ r \in Rules
                         /\ rows' = [rows EXCEPT ![r] = rows[r] + 1]
                         /\ added' = Clamp(added + tx[s].deed.delta)
                         /\ tx[s].copy = score => score' = Clamp(score + tx[s].deed.delta)
      /\ ~tx[s].writes => UNCHANGED <<score, rows, added>>
  BY <1>1, MovesRight
<1>4. \A t \in Sessions : tx[t] # Idle => tx[t].deed.rule \in Rules \cup {"none"}
  BY SessionTyped
<1>5. rows \in [Rules -> Nat] /\ rows' \in [Rules -> Nat] /\ OncePerEvent \subseteq Rules
  BY <1>3 DEF TypeOK, ScoreTyped, Rules
<1>6. tx[s].writes => Holding(s)
  BY <1>1 DEF Meant, Holding
<1> HIDE DEF r
<1>7. Judged'
  <2> SUFFICES ASSUME NEW t \in Sessions, tx'[t] # Idle, tx'[t].deed.rule \in OncePerEvent,
                      ~tx'[t].writes
               PROVE  rows'[tx'[t].deed.rule] >= 1
    BY DEF Judged
  <2>1. tx'[t] = tx[t]
    BY <1>2
  <2>2. rows[tx[t].deed.rule] >= 1
    BY <2>1 DEF Accounts, Judged
  <2> QED
    BY <2>1, <2>2, <1>3, <1>5 DEF RowsGrow
<1>8. First'
  <2> SUFFICES ASSUME NEW t \in Sessions, tx'[t] # Idle,
                      tx'[t].deed.rule \in OncePerEvent \ raced', tx'[t].writes
               PROVE  rows'[tx'[t].deed.rule] = 0
    BY DEF First
  <2>1. t # s /\ tx'[t] = tx[t] /\ raced' = raced
    BY <1>1, <1>2
  <2>2. rows[tx[t].deed.rule] = 0
    BY <2>1 DEF Accounts, First
  <2>3. CASE tx[s].writes
    <3>1. Holding(t) /\ Holding(s)
      BY <1>6, <2>1, <2>3 DEF Holding, OncePerEvent
    <3>2. tx[t].deed.rule # r
      BY <2>1, <3>1, <1>1 DEF Accounts, Rivals, r
    <3> QED
      BY <2>1, <2>2, <2>3, <3>2, <1>3, <1>5
  <2>4. CASE ~tx[s].writes
    BY <2>1, <2>2, <2>4, <1>3
  <2> QED
    BY <2>3, <2>4
<1>9. Rivals'
  <2> SUFFICES ASSUME NEW t \in Sessions, NEW u \in Sessions, t # u, Holding(t)', Holding(u)'
               PROVE  /\ overlapped'
                      /\ (tx'[t].deed.rule = tx'[u].deed.rule) => tx'[t].deed.rule \in raced'
    BY DEF Rivals
  <2>1. Holding(t) /\ Holding(u) /\ tx'[t] = tx[t] /\ tx'[u] = tx[u]
    BY <1>2 DEF Holding
  <2> QED
    BY <2>1, <1>1 DEF Accounts, Rivals
<1>10. Fresh'
  <2> SUFFICES ASSUME ~overlapped'
               PROVE  /\ score' = added'
                      /\ \A t \in Sessions : Holding(t)' => tx'[t].copy = score'
    BY DEF Fresh
  <2>1. /\ ~overlapped /\ score = added
        /\ \A t \in Sessions : Holding(t) => tx[t].copy = score
    BY <1>1 DEF Accounts, Fresh
  <2>2. CASE tx[s].writes
    <3>1. Holding(s) /\ tx[s].copy = score
      BY <1>1, <1>6, <2>1, <2>2
    <3>2. score' = added'
      BY <1>3, <2>1, <2>2, <3>1
    <3>3. \A t \in Sessions : ~Holding(t)'
      BY <1>1, <1>2, <2>1, <3>1 DEF Accounts, Rivals
    <3> QED
      BY <3>2, <3>3
  <2>3. CASE ~tx[s].writes
    <3>1. score' = score /\ added' = added
      BY <1>3, <2>3
    <3>2. \A t \in Sessions : Holding(t)' => tx'[t] = tx[t] /\ Holding(t)
      BY <1>2 DEF Holding
    <3> QED
      BY <2>1, <3>1, <3>2
  <2> QED
    BY <2>2, <2>3
<1>11. OnceOnly'
  <2> SUFFICES ASSUME NEW q \in OncePerEvent \ raced'
               PROVE  rows'[q] <= 1
    BY DEF OnceOnly
  <2>1. rows[q] <= 1 /\ q \in Rules /\ q \in OncePerEvent \ raced
    BY <1>1, <1>5 DEF Accounts, OnceOnly
  <2>2. CASE tx[s].writes /\ q = r
    <3>1. rows[q] = 0
      BY <1>1, <2>1, <2>2 DEF Accounts, First, r
    <3> QED
      BY <1>3, <1>5, <2>1, <2>2, <3>1
  <2>3. CASE ~(tx[s].writes /\ q = r)
    BY <1>3, <1>5, <2>1, <2>3
  <2> QED
    BY <2>2, <2>3
<1> QED
  BY <1>7, <1>8, <1>9, <1>10, <1>11 DEF Accounts

\* A session that ends without a row.
LEMMA QuietAccount ==
    ASSUME TypeOK, Accounts, NEW s, Over(s), UNCHANGED <<score, rows, added>>
    PROVE  Accounts'
<1>1. /\ \A t \in Sessions : tx'[t] # Idle => t # s /\ tx'[t] = tx[t]
      /\ \A t \in Sessions : Holding(t)' => Holding(t) /\ tx'[t] = tx[t]
  BY OthersStay DEF Holding
<1>2. UNCHANGED <<overlapped, raced, score, rows, added>>
  BY DEF Over
<1>3. Judged'
  BY <1>1, <1>2 DEF Accounts, Judged
<1>4. First'
  BY <1>1, <1>2 DEF Accounts, First
<1>5. Rivals'
  BY <1>1, <1>2 DEF Accounts, Rivals
<1>6. Fresh'
  BY <1>1, <1>2 DEF Accounts, Fresh
<1>7. OnceOnly'
  BY <1>2 DEF Accounts, OnceOnly
<1> QED
  BY <1>3, <1>4, <1>5, <1>6, <1>7 DEF Accounts

-----------------------------------------------------------------------------
(* The invariant, step by step                                             *)

\* The sessions that go on still make sense, whatever was filed.
LEMMA MeantStays ==
    ASSUME TypeOK, Meant, NEW s, Over(s), ReportsStay
    PROVE  Meant'
<1> SUFFICES ASSUME NEW t \in Sessions, tx'[t] # Idle
             PROVE  (/\ Fits(tx[t].deed)
                     /\ tx[t].writes => tx[t].deed.rule # "none")'
  BY DEF Meant
<1>1. tx'[t] = tx[t]
  BY OthersStay
<1>2. Fits(tx[t].deed) /\ (tx[t].writes => tx[t].deed.rule # "none")
  BY <1>1 DEF Meant
<1>3. Fits(tx[t].deed)'
  <2> DEFINE d == tx[t].deed
  <2>1. d' = d /\ Fits(d)
    BY <1>1, <1>2
  <2>2. d.how \in {"confirm", "uphold"} =>
           /\ d.about \in Reports /\ report'[d.about] # NoReport
           /\ d.rule = RuleOf(report'[d.about].reason)
    BY <2>1 DEF Fits, ReportsStay
  <2> HIDE DEF d
  <2>3. Fits(d)'
    BY <2>1, <2>2 DEF Fits
  <2> QED
    BY <2>3 DEF d
<1> QED
  BY <1>1, <1>2, <1>3

\* Verdicts and approvals keep their rows, and new ones find them.
LEMMA UpheldStays ==
    ASSUME TypeOK, UpheldCounts, RowsGrow, rows' \in [Rules -> Nat],
           \A r \in Reports : report'[r] # NoReport /\ report'[r].upheld =>
               \/ /\ report[r] # NoReport /\ report[r].upheld
                  /\ report'[r].reason = report[r].reason
               \/ rows'[RuleOf(report'[r].reason)] >= 1,
           \A u \in Users : claim'[u] = "approved" =>
               claim[u] = "approved" \/ rows'["prize_paid_confirmed"] >= 1
    PROVE  UpheldCounts'
<1>1. \A q \in Rules : rows[q] >= 1 => rows'[q] >= 1
  BY DEF RowsGrow, TypeOK
<1>2. "prize_paid_confirmed" \in Rules /\ \A x : RuleOf(x) \in Rules
  BY RuleOfOnce DEF Rules, OncePerEvent
<1>3. ASSUME NEW r \in Reports, report'[r] # NoReport, report'[r].upheld
      PROVE  rows'[RuleOf(report'[r].reason)] >= 1
  BY <1>1, <1>2, <1>3 DEF UpheldCounts
<1>4. ASSUME NEW u \in Users, claim'[u] = "approved"
      PROVE  rows'["prize_paid_confirmed"] >= 1
  BY <1>1, <1>2, <1>4 DEF UpheldCounts
<1> QED
  BY <1>3, <1>4 DEF UpheldCounts

\* A session that applies a rule leaves a row of it behind.
LEMMA RowLeft ==
    ASSUME TypeOK, Meant, Judged, NEW s \in Sessions, tx[s] # Idle, Moves(s),
           tx[s].deed.rule \in OncePerEvent
    PROVE  rows'[tx[s].deed.rule] >= 1
<1> DEFINE r == tx[s].deed.rule
<1>1. r \in Rules /\ rows[r] \in Nat
  BY DEF Rules, TypeOK
<1>2. CASE tx[s].writes
  <2>1. rows' = [rows EXCEPT ![r] = rows[r] + 1]
    BY <1>2, MovesRight
  <2>2. rows'[r] = rows[r] + 1
    BY <2>1, <1>1 DEF TypeOK
  <2> QED
    BY <2>2, <1>1
<1>3. CASE ~tx[s].writes
  <2>1. rows' = rows
    BY <1>3, MovesRight
  <2> QED
    BY <1>3, <2>1 DEF Judged
<1> QED
  BY <1>2, <1>3

LEMMA InitInv == Init => IInv
<1> SUFFICES ASSUME Init PROVE IInv
  OBVIOUS
<1>1. TypeOK
  <2>1. standing \in Standing /\ score \in Score /\ added \in Score /\ deeds \in 0..MaxDeeds
    BY TrustConstants DEF Init, Standing, Score
  <2>2. rows \in [Rules -> Nat] /\ claim \in [Users -> ClaimStatus]
    BY DEF Init, ClaimStatus
  <2>3. report \in [Reports -> Report \cup {NoReport}] /\ tx \in [Sessions -> Tx]
    BY DEF Init, Tx
  <2>4. reviewed \subseteq Users /\ overlapped \in BOOLEAN /\ raced \subseteq Rules
    BY DEF Init
  <2> QED
    BY <2>1, <2>2, <2>3, <2>4 DEF TypeOK
<1>2. Meant /\ Judged /\ First /\ Rivals /\ Fresh
  BY DEF Init, Meant, Judged, First, Rivals, Fresh, Holding
<1>3. OnceOnly /\ UpheldCounts
  BY DEF Init, OnceOnly, UpheldCounts, OncePerEvent, Rules
<1> QED
  BY <1>1, <1>2, <1>3 DEF IInv

\* A session begins with what it reads.
LEMMA BeginInv ==
    ASSUME IInv, NEW s \in Sessions, NEW d \in HandlerDeeds \cup JobDeeds, Begin(s, d)
    PROVE  IInv'
<1> DEFINE new == [busy |-> TRUE, deed |-> d, copy |-> score, writes |-> Writes(d)]
<1>1. /\ tx[s] = Idle /\ tx' = [tx EXCEPT ![s] = new]
      /\ UNCHANGED <<standing, score, rows, claim, report, reviewed, added>>
  BY DEF Begin, tables, history
<1>2. Fits(d) /\ d \in Deed /\ d.rule \in Rules \cup {"none"} /\ d.delta \in Int
  <2>1. Fits(d)
    BY DeedsFit DEF IInv
  <2>2. \A x \in Deed : x.rule \in Rules \cup {"none"} /\ x.delta \in Int
    BY DEF Deed
  <2> QED
    BY <2>1, <2>2 DEF Fits
<1>3. Writes(d) \in BOOLEAN /\ (Writes(d) => d.rule # "none")
  <2>1. d.rule = "none" => d.delta = 0
    BY DEF HandlerDeeds, JobDeeds, ApproveDeeds, ApplyDeeds, ClaimDeeds, RefuseDeeds,
           ConfirmDeeds, UpholdDeeds, ReviewDeeds, FileDeeds, ApiFileDeeds, Ruled, Silent,
       RuleOf
  <2> QED
    BY <2>1 DEF Writes, OncePerEvent
<1>4. new \in Tx /\ new # Idle
  <2>1. new \in [busy : {TRUE}, deed : Deed, copy : Score, writes : BOOLEAN]
    BY <1>2, <1>3 DEF IInv, TypeOK
  <2>2. new.busy # Idle.busy
    BY DEF Idle
  <2> QED
    BY <2>1, <2>2 DEF Tx
<1>5. new.deed = d /\ new.copy = score /\ new.writes = Writes(d)
  OBVIOUS
<1> HIDE DEF new
<1>6. /\ tx' \in [Sessions -> Tx] /\ tx'[s] = new
      /\ \A t \in Sessions \ {s} : tx'[t] = tx[t]
  BY <1>1, <1>4 DEF IInv, TypeOK
<1>7. /\ Holding(s)' <=> d.rule # "none"
      /\ \A t \in Sessions \ {s} : Holding(t)' <=> Holding(t)
  BY <1>4, <1>5, <1>6 DEF Holding
<1> DEFINE others == {t \in Sessions \ {s} : Holding(t)}
<1>8. CASE d.rule = "none"
  <2>1. UNCHANGED <<deeds, overlapped, raced>>
    BY <1>8 DEF Begin, history
  <2>2. TypeOK'
    BY <1>1, <1>6, <2>1 DEF IInv, TypeOK
  <2>3. Meant'
    BY <1>1, <1>2, <1>3, <1>5, <1>6 DEF IInv, Meant, Fits
  <2>4. Judged' /\ First'
    BY <1>1, <1>5, <1>6, <1>8, <2>1 DEF IInv, Judged, First, OncePerEvent
  <2>5. Rivals'
    BY <1>6, <1>7, <1>8, <2>1 DEF IInv, Rivals
  <2>6. Fresh'
    BY <1>1, <1>6, <1>7, <1>8, <2>1 DEF IInv, Fresh
  <2>7. OnceOnly' /\ UpheldCounts'
    BY <1>1, <2>1 DEF IInv, OnceOnly, UpheldCounts
  <2> QED
    BY <2>2, <2>3, <2>4, <2>5, <2>6, <2>7 DEF IInv
<1>9. CASE d.rule # "none"
  <2>1. /\ deeds < MaxDeeds /\ deeds' = deeds + 1
        /\ overlapped' = (overlapped \/ others # {})
        /\ raced' = IF \E t \in others : tx[t].deed.rule = d.rule THEN raced \cup {d.rule} ELSE raced
    BY <1>9 DEF Begin
  <2>2. raced \subseteq raced' /\ raced' \subseteq Rules /\ d.rule \in Rules
    BY <1>2, <1>9, <2>1 DEF IInv, TypeOK
  <2>3. TypeOK'
    <3>1. deeds' \in 0..MaxDeeds /\ overlapped' \in BOOLEAN
      BY <2>1, TrustConstants DEF IInv, TypeOK
    <3> QED
      BY <1>1, <1>6, <2>2, <3>1 DEF IInv, TypeOK
  <2>4. Meant'
    BY <1>1, <1>2, <1>3, <1>5, <1>6 DEF IInv, Meant, Fits
  <2>5. Judged'
    <3>1. d.rule \in OncePerEvent /\ ~Writes(d) => rows[d.rule] >= 1
      BY <2>2 DEF Writes, IInv, TypeOK
    <3> QED
      BY <1>1, <1>5, <1>6, <3>1 DEF IInv, Judged
  <2>6. First'
    <3>1. d.rule \in OncePerEvent /\ Writes(d) => rows[d.rule] = 0
      BY DEF Writes
    <3> QED
      BY <1>1, <1>5, <1>6, <2>2, <3>1 DEF IInv, First
  <2>7. Rivals'
    <3> SUFFICES ASSUME NEW t \in Sessions, NEW u \in Sessions, t # u, Holding(t)', Holding(u)'
                 PROVE  /\ overlapped'
                        /\ (tx'[t].deed.rule = tx'[u].deed.rule) => tx'[t].deed.rule \in raced'
      BY DEF Rivals
    <3>1. CASE t # s /\ u # s
      BY <1>6, <1>7, <2>1, <2>2, <3>1 DEF IInv, Rivals
    <3>2. CASE t = s
      <4>1. u \in others /\ tx'[u] = tx[u] /\ tx'[t].deed.rule = d.rule
        BY <1>5, <1>6, <1>7, <3>2
      <4> QED
        BY <2>1, <4>1
    <3>3. CASE u = s
      <4>1. t \in others /\ tx'[t] = tx[t] /\ tx'[u].deed.rule = d.rule
        BY <1>5, <1>6, <1>7, <3>3
      <4> QED
        BY <2>1, <4>1
    <3> QED
      BY <3>1, <3>2, <3>3
  <2>8. Fresh'
    BY <1>1, <1>5, <1>6, <1>7, <2>1 DEF IInv, Fresh
  <2>9. OnceOnly' /\ UpheldCounts'
    BY <1>1, <2>2 DEF IInv, OnceOnly, UpheldCounts
  <2> QED
    BY <2>3, <2>4, <2>5, <2>6, <2>7, <2>8, <2>9 DEF IInv
<1> QED
  BY <1>8, <1>9

\* What the ends of sessions have to show: the rest is the accounts.
Shown ==
    /\ standing' \in Standing
    /\ claim' \in [Users -> ClaimStatus]
    /\ report' \in [Reports -> Report \cup {NoReport}]
    /\ reviewed' \subseteq Users
    /\ ReportsStay
    /\ \A r \in Reports : report'[r] # NoReport /\ report'[r].upheld =>
          \/ /\ report[r] # NoReport /\ report[r].upheld
             /\ report'[r].reason = report[r].reason
          \/ rows'[RuleOf(report'[r].reason)] >= 1
    /\ \A u \in Users : claim'[u] = "approved" =>
          claim[u] = "approved" \/ rows'["prize_paid_confirmed"] >= 1

LEMMA EndsInv ==
    ASSUME IInv, NEW s \in Sessions, tx[s] # Idle, tx' = [tx EXCEPT ![s] = Idle],
           UNCHANGED <<deeds, overlapped, raced>>,
           Moves(s) \/ UNCHANGED <<score, rows, added>>, Shown
    PROVE  IInv'
<1>1. Over(s)
  BY DEF Over
<1>2. TypeOK /\ Meant /\ Accounts /\ UpheldCounts
  BY DEF IInv, Accounts
<1>3. ScoreTyped' /\ RowsGrow
  <2>1. CASE Moves(s)
    BY <1>2, <2>1, MovesRight
  <2>2. CASE UNCHANGED <<score, rows, added>>
    BY <1>2, <2>2 DEF TypeOK, ScoreTyped, RowsGrow
  <2> QED
    BY <2>1, <2>2
<1>4. Accounts'
  BY <1>1, <1>2, MovesAccount, QuietAccount
<1>5. TypeOK'
  <2>1. tx' \in [Sessions -> Tx]
    BY <1>1, <1>2, OthersStay
  <2> QED
    BY <1>2, <1>3, <2>1 DEF TypeOK, ScoreTyped, Shown
<1>6. Meant'
  BY <1>1, <1>2, MeantStays DEF Shown
<1>7. UpheldCounts'
  BY <1>2, <1>3, UpheldStays DEF Shown, ScoreTyped
<1> QED
  BY <1>4, <1>5, <1>6, <1>7 DEF IInv, Accounts

\* A deed that files a report files it for a player, with a reason.
LEMMA FilesRight ==
    ASSUME TypeOK, NEW d \in Deed, d.about \in Users, Files(d)
    PROVE  /\ report' \in [Reports -> Report \cup {NoReport}]
           /\ ReportsStay
           /\ \A r \in Reports : report'[r] # NoReport /\ report'[r].upheld =>
                 /\ report[r] # NoReport /\ report[r].upheld
                 /\ report'[r].reason = report[r].reason
<1>1. CASE d.files = "none"
  BY <1>1 DEF Files, TypeOK, ReportsStay
<1>2. CASE d.files # "none"
  <2> DEFINE new == [by |-> d.about, reason |-> d.files, status |-> "new", upheld |-> FALSE]
  <2>1. PICK r \in Reports : report[r] = NoReport /\ report' = [report EXCEPT ![r] = new]
    BY <1>2 DEF Files
  <2>2. d.files \in ReportReason
    BY <1>2 DEF Deed
  <2>3. new \in Report /\ new.upheld = FALSE
    BY <2>2 DEF Report, ReportStatus
  <2> HIDE DEF new
  <2>4. /\ report'[r] = new
        /\ \A q \in Reports \ {r} : report'[q] = report[q]
        /\ report' \in [Reports -> Report \cup {NoReport}]
    BY <2>1, <2>3 DEF TypeOK
  <2>5. ReportsStay
    BY <2>1, <2>4 DEF ReportsStay
  <2> QED
    BY <2>3, <2>4, <2>5
<1> QED
  BY <1>1, <1>2

\* A commit of a session that is about the custom, the organizer or a claim.
LEMMA CommitInv ==
    ASSUME IInv, NEW s \in Sessions, Commit(s)
    PROVE  IInv'
<1> DEFINE d == tx[s].deed
<1>1. tx[s] # Idle /\ tx' = [tx EXCEPT ![s] = Idle] /\ UNCHANGED <<deeds, overlapped, raced>>
  BY DEF Commit, CommitJob, CommitApproval, CommitClaim, CommitVerdict, CommitReview,
         ReviewTwice, CommitFile, Ends
<1>2. TypeOK /\ Meant /\ Judged /\ UpheldCounts
  BY DEF IInv
<1>3. d \in Deed /\ Fits(d)
  BY <1>1, <1>2, SessionTyped DEF Meant
<1>4. /\ standing \in Standing /\ claim \in [Users -> ClaimStatus]
      /\ report \in [Reports -> Report \cup {NoReport}] /\ reviewed \subseteq Users
  BY <1>2 DEF TypeOK
<1> HIDE DEF d
<1>5. CASE CommitJob(s)
  <2>1. Moves(s) /\ UNCHANGED <<standing, claim, report, reviewed>>
    BY <1>5 DEF CommitJob
  <2>2. Shown
    BY <1>4, <2>1 DEF Shown, ReportsStay
  <2> QED
    BY <1>1, <2>1, <2>2, EndsInv
<1>6. CASE CommitApproval(s)
  <2>1. Moves(s) /\ standing' = "approved" /\ UNCHANGED <<claim, report, reviewed>>
    BY <1>6 DEF CommitApproval
  <2>2. Shown
    BY <1>4, <2>1 DEF Shown, ReportsStay, Standing
  <2> QED
    BY <1>1, <2>1, <2>2, EndsInv
<1>7. CASE CommitClaim(s)
  <2>1. /\ Moves(s) /\ UNCHANGED <<standing, report, reviewed>>
        /\ d.how \in {"claim", "refuse"}
        /\ claim' = [claim EXCEPT ![d.about] = IF d.how = "claim" THEN "approved" ELSE "rejected"]
    BY <1>7 DEF CommitClaim, Ends, d
  <2>2. d.about \in Users
    BY <1>3, <2>1 DEF Fits
  <2>3. d.how = "claim" => rows'["prize_paid_confirmed"] >= 1
    <3>1. d.how = "claim" => d.rule = "prize_paid_confirmed"
      BY <1>3 DEF Fits
    <3> QED
      BY <1>1, <1>2, <2>1, <3>1, RowLeft DEF d, OncePerEvent
  <2>4. claim' \in [Users -> ClaimStatus]
    BY <1>4, <2>1 DEF ClaimStatus
  <2>5. \A u \in Users : claim'[u] = "approved" =>
            claim[u] = "approved" \/ rows'["prize_paid_confirmed"] >= 1
    BY <1>4, <2>1, <2>2, <2>3
  <2>6. Shown
    BY <1>4, <2>1, <2>4, <2>5 DEF Shown, ReportsStay
  <2> QED
    BY <1>1, <2>1, <2>6, EndsInv
<1>8. CASE CommitVerdict(s)
  <2> DEFINE r == d.about
             st == IF d.how = "confirm" THEN "confirmed" ELSE "closed"
  <2>1. /\ Moves(s) /\ UNCHANGED <<standing, claim, reviewed>>
        /\ d.how \in {"confirm", "uphold"}
        /\ report' = [report EXCEPT ![r] = [report[r] EXCEPT !.upheld = TRUE, !.status = st]]
    BY <1>8 DEF CommitVerdict, Ends, d
  <2>2. r \in Reports /\ report[r] # NoReport /\ d.rule = RuleOf(report[r].reason)
    BY <1>3, <2>1 DEF Fits
  <2>3. report[r] \in Report
    BY <1>4, <2>2
  <2> DEFINE new == [report[r] EXCEPT !.upheld = TRUE, !.status = st]
  <2>4. new \in Report /\ new.reason = report[r].reason /\ new.by = report[r].by
    BY <2>3 DEF Report, ReportStatus
  <2>5. new # NoReport
    <3>1. new.upheld = TRUE
      BY <2>3 DEF Report
    <3> HIDE DEF new
    <3> QED
      BY <3>1 DEF NoReport
  <2> HIDE DEF new
  <2>6. /\ report' = [report EXCEPT ![r] = new] /\ report'[r] = new
        /\ \A q \in Reports \ {r} : report'[q] = report[q]
        /\ report' \in [Reports -> Report \cup {NoReport}]
    BY <1>4, <2>1, <2>2, <2>4 DEF new
  <2>7. rows'[RuleOf(report[r].reason)] >= 1
    BY <1>1, <1>2, <2>1, <2>2, RowLeft, RuleOfOnce DEF d
  <2>8. ReportsStay
    BY <2>4, <2>5, <2>6 DEF ReportsStay
  <2>9. \A q \in Reports : report'[q] # NoReport /\ report'[q].upheld =>
          \/ /\ report[q] # NoReport /\ report[q].upheld
             /\ report'[q].reason = report[q].reason
          \/ rows'[RuleOf(report'[q].reason)] >= 1
    BY <2>4, <2>6, <2>7
  <2>10. Shown
    BY <1>4, <2>1, <2>6, <2>8, <2>9 DEF Shown
  <2> QED
    BY <1>1, <2>1, <2>10, EndsInv
<1>9. CASE CommitReview(s)
  <2>1. /\ Moves(s) /\ Files(d) /\ d.how = "review"
        /\ reviewed' = reviewed \cup {d.about} /\ UNCHANGED <<standing, claim>>
    BY <1>9 DEF CommitReview, Ends, d
  <2>2. d.about \in Users
    BY <1>3, <2>1 DEF Fits
  <2>3. Shown
    BY <1>2, <1>3, <1>4, <2>1, <2>2, FilesRight DEF Shown
  <2> QED
    BY <1>1, <2>1, <2>3, EndsInv
<1>10. CASE ReviewTwice(s)
  <2>1. UNCHANGED <<standing, score, rows, claim, report, reviewed, added>>
    BY <1>10 DEF ReviewTwice, tables
  <2>2. Shown
    BY <1>4, <2>1 DEF Shown, ReportsStay
  <2> QED
    BY <1>1, <2>1, <2>2, EndsInv
<1>11. CASE CommitFile(s)
  <2>1. /\ Files(d) /\ d.how = "file"
        /\ UNCHANGED <<standing, score, rows, claim, reviewed, added>>
    BY <1>11 DEF CommitFile, Ends, d
  <2>2. d.about \in Users
    BY <1>3, <2>1 DEF Fits
  <2>3. Shown
    BY <1>2, <1>3, <1>4, <2>1, <2>2, FilesRight DEF Shown
  <2> QED
    BY <1>1, <2>1, <2>3, EndsInv
<1> QED
  BY <1>5, <1>6, <1>7, <1>8, <1>9, <1>10, <1>11 DEF Commit

LEMMA RollbackInv ==
    ASSUME IInv, NEW s \in Sessions, Rollback(s)
    PROVE  IInv'
<1>1. /\ tx[s] # Idle /\ tx' = [tx EXCEPT ![s] = Idle]
      /\ UNCHANGED <<standing, score, rows, claim, report, reviewed, added>>
      /\ UNCHANGED <<deeds, overlapped, raced>>
  BY DEF Rollback, tables, history
<1>2. Shown
  BY <1>1 DEF Shown, ReportsStay, IInv, TypeOK
<1> QED
  BY <1>1, <1>2, EndsInv

\* What the panels do by themselves touches no session and no row.
LEMMA PanelInv ==
    ASSUME IInv, Panel
    PROVE  IInv'
<1>1. UNCHANGED <<score, rows, reviewed, tx, deeds, added, overlapped, raced>>
  BY DEF Panel, ClaimWin, SetStatus, RejectOrganizer, history
<1>2. /\ standing' \in Standing /\ claim' \in [Users -> ClaimStatus]
      /\ report' \in [Reports -> Report \cup {NoReport}] /\ ReportsStay
      /\ \A r \in Reports : report'[r] # NoReport /\ report'[r].upheld =>
            /\ report[r] # NoReport /\ report[r].upheld
            /\ report'[r].reason = report[r].reason
      /\ \A u \in Users : claim'[u] = "approved" => claim[u] = "approved"
  <2>1. CASE \E u \in Users : ClaimWin(u)
    <3>1. PICK u \in Users : /\ claim' = [claim EXCEPT ![u] = "pending"]
                             /\ UNCHANGED <<standing, report>>
      BY <2>1 DEF ClaimWin
    <3> QED
      BY <3>1 DEF IInv, TypeOK, ClaimStatus, ReportsStay
  <2>2. CASE \E r \in Reports, st \in ReportStatus \ {"confirmed"} : SetStatus(r, st)
    <3>1. PICK r \in Reports, st \in ReportStatus :
              /\ report[r] # NoReport
              /\ report' = [report EXCEPT ![r] = [report[r] EXCEPT !.status = st]]
              /\ UNCHANGED <<standing, claim>>
      BY <2>2 DEF SetStatus
    <3> DEFINE new == [report[r] EXCEPT !.status = st]
    <3>2. report[r] \in Report
      BY <3>1 DEF IInv, TypeOK
    <3>3. /\ new \in Report /\ new.by = report[r].by /\ new.reason = report[r].reason
          /\ new.upheld = report[r].upheld /\ new.status = st
      BY <3>2 DEF Report
    <3>4. new # NoReport
      BY <3>3 DEF NoReport, ReportStatus
    <3> HIDE DEF new
    <3>5. /\ report' = [report EXCEPT ![r] = new] /\ report'[r] = new
          /\ \A q \in Reports \ {r} : report'[q] = report[q]
          /\ report' \in [Reports -> Report \cup {NoReport}]
      BY <3>1, <3>3 DEF new, IInv, TypeOK
    <3>6. ReportsStay
      BY <3>3, <3>4, <3>5 DEF ReportsStay
    <3> QED
      BY <3>1, <3>3, <3>5, <3>6 DEF IInv, TypeOK
  <2>3. CASE RejectOrganizer
    BY <2>3 DEF RejectOrganizer, IInv, TypeOK, Standing, ReportsStay
  <2> QED
    BY <2>1, <2>2, <2>3 DEF Panel
<1>3. TypeOK'
  BY <1>1, <1>2 DEF IInv, TypeOK
<1>4. Meant'
  <2> SUFFICES ASSUME NEW t \in Sessions, tx[t] # Idle
               PROVE  Fits(tx[t].deed)' /\ (tx[t].writes => tx[t].deed.rule # "none")
    BY <1>1 DEF Meant
  <2> DEFINE d == tx[t].deed
  <2>1. Fits(d) /\ (tx[t].writes => d.rule # "none")
    BY DEF IInv, Meant
  <2>2. d.how \in {"confirm", "uphold"} =>
           /\ d.about \in Reports /\ report'[d.about] # NoReport
           /\ d.rule = RuleOf(report'[d.about].reason)
    BY <1>2, <2>1 DEF Fits, ReportsStay
  <2>3. d' = d
    BY <1>1
  <2> HIDE DEF d
  <2>4. Fits(d)'
    BY <2>1, <2>2, <2>3 DEF Fits
  <2> QED
    BY <2>1, <2>4 DEF d
<1>5. Judged' /\ First' /\ Rivals' /\ Fresh' /\ OnceOnly'
  BY <1>1 DEF IInv, Judged, First, Rivals, Fresh, OnceOnly, Holding
<1>6. UpheldCounts'
  <2>1. \A q \in Rules : rows'[q] = rows[q]
    BY <1>1
  <2> QED
    BY <1>1, <1>2, <2>1 DEF IInv, UpheldCounts
<1> QED
  BY <1>3, <1>4, <1>5, <1>6 DEF IInv

LEMMA NextInv == IInv /\ [Next]_vars => IInv'
<1> SUFFICES ASSUME IInv, [Next]_vars PROVE IInv'
  OBVIOUS
<1>1. ASSUME NEW s \in Sessions, Session(s) PROVE IInv'
  <2>1. ASSUME NEW d \in HandlerDeeds \cup JobDeeds, Begin(s, d) PROVE IInv'
    BY <2>1, BeginInv
  <2> QED
    BY <1>1, <2>1, CommitInv, RollbackInv DEF Session
<1>2. CASE Panel
  BY <1>2, PanelInv
<1>3. CASE UNCHANGED vars
  <2>1. UNCHANGED <<standing, score, rows, claim, report, reviewed, tx, deeds, added, overlapped, raced>>
    BY <1>3 DEF vars, tables, history
  <2>2. TypeOK' /\ OnceOnly' /\ UpheldCounts'
    BY <2>1 DEF IInv, TypeOK, OnceOnly, UpheldCounts
  <2>3. Meant' /\ Judged' /\ First' /\ Rivals' /\ Fresh'
    BY <2>1 DEF IInv, Meant, Fits, Judged, First, Rivals, Fresh, Holding
  <2> QED
    BY <2>2, <2>3 DEF IInv
<1> QED
  BY <1>1, <1>2, <1>3 DEF Next

-----------------------------------------------------------------------------
(* Theorems                                                                *)

\* The inductive invariant holds in every reachable state.
THEOREM Invariant == Spec => []IInv
  BY InitInv, NextInv, PTL DEF Spec

\* The rows and the sessions keep their types, whoever judges what.
THEOREM TypeCorrect == Spec => []TypeOK
<1>1. IInv => TypeOK
  BY DEF IInv
<1> QED
  BY <1>1, Invariant, PTL

\* As long as no two sessions hold the organizer at once, the score is what the
\* rows add up to (services/trust.py).
THEOREM ScoreAddsUp == Spec => []ScoreMatchesRows
<1>1. IInv => ScoreMatchesRows
  BY DEF IInv, Fresh, ScoreMatchesRows
<1> QED
  BY <1>1, Invariant, PTL

\* A rule that counts once per custom has one row, unless two sessions were about
\* to apply it at once (record, record_sync).
THEOREM RowsOnce == Spec => []OnceOnly
<1>1. IInv => OnceOnly
  BY DEF IInv
<1> QED
  BY <1>1, Invariant, PTL

\* Upheld reports and approved claims have their rows, whatever was asked for
\* again, raced or rolled back (admin_report_uphold, report_status, resolve_claim).
THEOREM VerdictsCount == Spec => []UpheldCounts
<1>1. IInv => UpheldCounts
  BY DEF IInv
<1> QED
  BY <1>1, Invariant, PTL

-----------------------------------------------------------------------------
(***************************************************************************)
(* The components of MCComponents                                          *)
(***************************************************************************)

\* The part looked at keeps to the invariant of its component.  The trust score
\* starts as it should and changes by its own steps, whatever the part is.
PartInv ==
    /\ IInv
    /\ part = "gate" => Gate!IInv
    /\ part = "mass" => Mass!IInv
    /\ part = "admission" => Admission!IInv
    /\ part = "wizard" => Wizard!IInv
    /\ part = "entry" => Wizard!EntryIInv
    /\ part = "invites" => Admission!InviteIInv
    /\ part = "retention" => Mass!PurgeIInv

\* A step of a part is one of its component, and no part turns into another.
LEMMA PartSteps ==
    ASSUME [NextOfPart]_allVars
    PROVE  /\ part' = part
           /\ [Next]_vars
           /\ part = "gate" => [Gate!Next]_(Gate!vars)
           /\ part = "mass" => [Mass!Next]_(Mass!vars)
           /\ part = "admission" => [Admission!Next]_(Admission!vars)
           /\ part = "wizard" => [Wizard!Next]_(Wizard!vars)
           /\ part = "entry" => [Wizard!Entry!Next]_(Wizard!Entry!vars)
           /\ part = "invites" => [Admission!Invites!Next]_(Admission!Invites!vars)
           /\ part = "retention" => [Mass!Purges!Next]_(Mass!Purges!vars)
<1>1. CASE UNCHANGED allVars
  BY <1>1 DEF allVars, all18, from8, from10, from11, from15, Gate!vars, Mass!vars,
              Admission!vars, Wizard!vars, Wizard!Entry!vars, Admission!Invites!vars,
              Admission!Invites!tables, Mass!Purges!vars, Mass!Purges!tables
<1>2. CASE part = "trust" /\ Next /\ UNCHANGED <<part, all18>>
  BY <1>2
<1>3. CASE Another /\ UNCHANGED <<part, vars>>
  BY <1>3 DEF Another
<1> QED
  BY <1>1, <1>2, <1>3 DEF NextOfPart

LEMMA PartStart == InitOfPart => PartInv
<1> SUFFICES ASSUME InitOfPart PROVE PartInv
  OBVIOUS
<1>1. IInv
  BY InitInv DEF InitOfPart
<1>2. ASSUME part = "gate" PROVE Gate!IInv
  BY <1>2, GateOfInstance, Gate!InitInv DEF InitOfPart
<1>3. ASSUME part = "mass" PROVE Mass!IInv
  BY <1>3, MassOfInstance, Mass!InitInv DEF InitOfPart
<1>4. ASSUME part = "admission" PROVE Admission!IInv
  BY <1>4, AdmissionOfInstance, Admission!InitInv DEF InitOfPart
<1>5. ASSUME part = "wizard" PROVE Wizard!IInv
  BY <1>5, WizardOfInstance, Wizard!InitInv DEF InitOfPart
<1>6. ASSUME part = "entry" PROVE Wizard!EntryIInv
  BY <1>6, EntryOfInstance, Wizard!EntryInitInv DEF InitOfPart
<1>7. ASSUME part = "invites" PROVE Admission!InviteIInv
  BY <1>7, InvitesOfInstance, Admission!InviteInitInv DEF InitOfPart
<1>8. ASSUME part = "retention" PROVE Mass!PurgeIInv
  BY <1>8, RetentionOfInstance, Mass!PurgeInitInv DEF InitOfPart
<1> QED
  BY <1>1, <1>2, <1>3, <1>4, <1>5, <1>6, <1>7, <1>8 DEF PartInv

LEMMA PartKeeps == PartInv /\ [NextOfPart]_allVars => PartInv'
<1> SUFFICES ASSUME PartInv, [NextOfPart]_allVars PROVE PartInv'
  OBVIOUS
<1>1. IInv'
  BY NextInv, PartSteps DEF PartInv
<1>2. ASSUME part' = "gate" PROVE Gate!IInv'
  BY <1>2, GateOfInstance, PartSteps, Gate!NextInv DEF PartInv
<1>3. ASSUME part' = "mass" PROVE Mass!IInv'
  BY <1>3, MassOfInstance, PartSteps, Mass!NextInv DEF PartInv
<1>4. ASSUME part' = "admission" PROVE Admission!IInv'
  BY <1>4, AdmissionOfInstance, PartSteps, Admission!NextInv DEF PartInv
<1>5. ASSUME part' = "wizard" PROVE Wizard!IInv'
  BY <1>5, WizardOfInstance, PartSteps, Wizard!NextInv DEF PartInv
<1>6. ASSUME part' = "entry" PROVE Wizard!EntryIInv'
  BY <1>6, EntryOfInstance, PartSteps, Wizard!EntryNextInv DEF PartInv
<1>7. ASSUME part' = "invites" PROVE Admission!InviteIInv'
  BY <1>7, InvitesOfInstance, PartSteps, Admission!InviteNextInv DEF PartInv
<1>8. ASSUME part' = "retention" PROVE Mass!PurgeIInv'
  BY <1>8, RetentionOfInstance, PartSteps, Mass!PurgeStepInv DEF PartInv
<1> QED
  BY <1>1, <1>2, <1>3, <1>4, <1>5, <1>6, <1>7, <1>8 DEF PartInv

\* Every part keeps to the invariant of its component.
THEOREM PartInvariant == SpecOfPart => []PartInv
  BY PartStart, PartKeeps, PTL DEF SpecOfPart

\* A behaviour of the instance is one of OrganizerTrust, and of the component its
\* part names: the run looks at eight specifications and at nothing else.
THEOREM PartsAreComponents ==
    SpecOfPart =>
        /\ Spec
        /\ part = "gate" => Gate!Spec
        /\ part = "mass" => Mass!Spec
        /\ part = "admission" => Admission!Spec
        /\ part = "wizard" => Wizard!Spec
        /\ part = "entry" => Wizard!Entry!Spec
        /\ part = "invites" => Admission!Invites!Spec
        /\ part = "retention" => Mass!Purges!Spec
<1>1. SpecOfPart => Spec
  <2>1. InitOfPart => Init
    BY DEF InitOfPart
  <2>2. [NextOfPart]_allVars => [Next]_vars
    BY PartSteps
  <2> QED
    BY <2>1, <2>2, PTL DEF SpecOfPart, Spec
<1>2. SpecOfPart => (part = "gate" => Gate!Spec)
  <2>1. InitOfPart /\ part = "gate" => Gate!Init
    BY DEF InitOfPart
  <2>2. [NextOfPart]_allVars /\ part = "gate" => (part = "gate")' /\ [Gate!Next]_(Gate!vars)
    BY PartSteps
  <2> QED
    BY <2>1, <2>2, PTL DEF SpecOfPart, Gate!Spec
<1>3. SpecOfPart => (part = "mass" => Mass!Spec)
  <2>1. InitOfPart /\ part = "mass" => Mass!Init
    BY DEF InitOfPart
  <2>2. [NextOfPart]_allVars /\ part = "mass" => (part = "mass")' /\ [Mass!Next]_(Mass!vars)
    BY PartSteps
  <2> QED
    BY <2>1, <2>2, PTL DEF SpecOfPart, Mass!Spec
<1>4. SpecOfPart => (part = "admission" => Admission!Spec)
  <2>1. InitOfPart /\ part = "admission" => Admission!Init
    BY DEF InitOfPart
  <2>2. [NextOfPart]_allVars /\ part = "admission" => (part = "admission")' /\ [Admission!Next]_(Admission!vars)
    BY PartSteps
  <2> QED
    BY <2>1, <2>2, PTL DEF SpecOfPart, Admission!Spec
<1>5. SpecOfPart => (part = "wizard" => Wizard!Spec)
  <2>1. InitOfPart /\ part = "wizard" => Wizard!Init
    BY DEF InitOfPart
  <2>2. [NextOfPart]_allVars /\ part = "wizard" => (part = "wizard")' /\ [Wizard!Next]_(Wizard!vars)
    BY PartSteps
  <2> QED
    BY <2>1, <2>2, PTL DEF SpecOfPart, Wizard!Spec
<1>6. SpecOfPart => (part = "entry" => Wizard!Entry!Spec)
  <2>1. InitOfPart /\ part = "entry" => Wizard!Entry!Init
    BY DEF InitOfPart
  <2>2. [NextOfPart]_allVars /\ part = "entry" => (part = "entry")' /\ [Wizard!Entry!Next]_(Wizard!Entry!vars)
    BY PartSteps
  <2> QED
    BY <2>1, <2>2, PTL DEF SpecOfPart, Wizard!Entry!Spec
<1>7. SpecOfPart => (part = "invites" => Admission!Invites!Spec)
  <2>1. InitOfPart /\ part = "invites" => Admission!Invites!Init
    BY DEF InitOfPart
  <2>2. [NextOfPart]_allVars /\ part = "invites" => (part = "invites")' /\ [Admission!Invites!Next]_(Admission!Invites!vars)
    BY PartSteps
  <2> QED
    BY <2>1, <2>2, PTL DEF SpecOfPart, Admission!Invites!Spec
<1>8. SpecOfPart => (part = "retention" => Mass!Purges!Spec)
  <2>1. InitOfPart /\ part = "retention" => Mass!Purges!Init
    BY DEF InitOfPart
  <2>2. [NextOfPart]_allVars /\ part = "retention" => (part = "retention")' /\ [Mass!Purges!Next]_(Mass!Purges!vars)
    BY PartSteps
  <2> QED
    BY <2>1, <2>2, PTL DEF SpecOfPart, Mass!Purges!Spec
<1> QED
  BY <1>1, <1>2, <1>3, <1>4, <1>5, <1>6, <1>7, <1>8

-----------------------------------------------------------------------------
(* What the run of MCComponents checks                                     *)

\* Every variable of every component keeps its type.
THEOREM TypesHere == SpecOfPart => []EveryTypeOK
<1>1. PartInv => EveryTypeOK
  BY Mass!Promises DEF PartInv, EveryTypeOK, IInv, Gate!IInv, Admission!IInv, Wizard!IInv,
     Wizard!EntryIInv, Admission!InviteIInv, Mass!PurgeIInv
<1> QED
  BY <1>1, PartInvariant, PTL

\* Nobody holds a seat past a rejected screenshot, but off the waitlist (FollowGate).
THEOREM RejectedHere == SpecOfPart => []RejectedHoldsNoSeat
<1>1. PartInv => RejectedHoldsNoSeat
  BY DEF PartInv, RejectedHoldsNoSeat, Gate!IInv
<1> QED
  BY <1>1, PartInvariant, PTL

\* The password goes to who holds a seat and passes the gate (FollowGate).
THEOREM EarnedHere == SpecOfPart => PasswordEarned
<1>1. PartInv /\ [NextOfPart]_allVars => [part = "gate" => Gate!SendsToEarners]_allVars
  BY PartSteps, GateOfInstance, Gate!SendStep DEF PartInv
<1> QED
  BY <1>1, PartInvariant, PTL DEF SpecOfPart, PasswordEarned

\* "Registered" after the last upload means a seat, but for a registration that
\* failed or found something else missing, and the seat stays (FollowGate).
THEOREM FinalHere == SpecOfPart => FinalMeansSeated
<1>1. PartInv /\ [NextOfPart]_allVars => [part = "gate" => Gate!LastUploadSeats /\ Gate!SeatsLast]_allVars
  BY PartSteps, GateOfInstance, Gate!LastUploadStep, Gate!SeatsStep DEF PartInv
<1> QED
  BY <1>1, PartInvariant, PTL DEF SpecOfPart, FinalMeansSeated

\* Nobody gets a message to everybody twice (MassMessages).
THEOREM OnceHere == SpecOfPart => []OnlyOnce
<1>1. PartInv => OnlyOnce
  BY Mass!Promises DEF PartInv, OnlyOnce
<1> QED
  BY <1>1, PartInvariant, PTL

\* A campaign that is done has a row for everybody on its list (MassMessages).
THEOREM DoneHere == SpecOfPart => []DoneReachesAll
<1>1. PartInv => DoneReachesAll
  BY Mass!Promises DEF PartInv, DoneReachesAll
<1> QED
  BY <1>1, PartInvariant, PTL

\* A campaign confirmed over the API has a run (MassMessages).
THEOREM ConfirmedHere == SpecOfPart => []ConfirmedStarts
<1>1. PartInv => ConfirmedStarts
  BY Mass!Promises DEF PartInv, ConfirmedStarts
<1> QED
  BY <1>1, PartInvariant, PTL

\* A reminder done at the first attempt was tried for everybody (MassMessages).
THEOREM RemindedHere == SpecOfPart => []ReminderReaches
<1>1. PartInv => ReminderReaches
  BY Mass!Promises DEF PartInv, ReminderReaches
<1> QED
  BY <1>1, PartInvariant, PTL

\* A session grants a refresh token one trade, a token made without a session none,
\* and a code serves once (AdminSessions).
THEOREM TradedOnceHere == SpecOfPart => []UsedOnce
<1>1. PartInv => UsedOnce
  BY DEF PartInv, UsedOnce, Admission!IInv
<1> QED
  BY <1>1, PartInvariant, PTL

\* Who is turned away by the limiter is let in again (AdminSessions).
THEOREM RecoversHere == SpecOfPart => []LimiterRecovers
<1>1. PartInv => LimiterRecovers
  BY DEF PartInv, LimiterRecovers, Admission!IInv
<1> QED
  BY <1>1, PartInvariant, PTL

\* A custom asks for the channel it is shown with (EventWizard).
THEOREM OwnChannelHere == SpecOfPart => []GatedByOwnChannel
<1>1. PartInv => GatedByOwnChannel
  BY DEF PartInv, GatedByOwnChannel, Wizard!IInv
<1> QED
  BY <1>1, PartInvariant, PTL

\* A custom's follow pages are all there or none is (EventWizard).
THEOREM PagesHere == SpecOfPart => []FollowInSync
<1>1. PartInv => FollowInSync
  BY DEF PartInv, FollowInSync, Wizard!IInv
<1> QED
  BY <1>1, PartInvariant, PTL

\* A dialog makes one custom, or one announcement (EventWizard).
THEOREM OneEachHere == SpecOfPart => []OncePerWizard
<1>1. PartInv => OncePerWizard
  BY DEF PartInv, OncePerWizard, Wizard!IInv
<1> QED
  BY <1>1, PartInvariant, PTL

\* A confirmation commits the pair last entered (RoomEntry).
THEOREM EnteredHere == SpecOfPart => SentAsEntered
<1>1. PartInv /\ [NextOfPart]_allVars
      => [part = "entry" => Wizard!Entry!CommitsTheEntered]_allVars
  BY PartSteps, EntryOfInstance, Wizard!StepEntered DEF PartInv
<1> QED
  BY <1>1, PartInvariant, PTL DEF SpecOfPart, SentAsEntered

\* The counter of a link matches its rows (Referrals).
THEOREM CountHere == SpecOfPart => []CountIsRows
<1>1. PartInv => CountIsRows
  BY Admission!InvitesCount DEF PartInv, CountIsRows
<1> QED
  BY <1>1, PartInvariant, PTL

\* What counts as a room was not blanked (Retention).
THEOREM MarkedHere == SpecOfPart => []PurgedIsMarked
<1>1. PartInv => PurgedIsMarked
  BY DEF PartInv, PurgedIsMarked, Mass!PurgeIInv
<1> QED
  BY <1>1, PartInvariant, PTL

\* Only an old custom is deleted (Retention).
THEOREM OldHere == SpecOfPart => OnlyThePastGoes
<1>1. PartInv /\ [NextOfPart]_allVars
      => [part = "retention" => Mass!Purges!GoesWhenOld]_allVars
  BY PartSteps, RetentionOfInstance, Mass!GoesStep DEF PartInv
<1> QED
  BY <1>1, PartInvariant, PTL DEF SpecOfPart, OnlyThePastGoes
=============================================================================
