--------------------------- MODULE OrganizerTrust ---------------------------
(***************************************************************************)
(* The trust score of one organizer, and what moves it around one custom:  *)
(* winner claims (services/winners.py and the two review panels), reports  *)
(* (services/reports.py, the API), reviews (services/reviews.py), approvals *)
(* (services/organizers.py) and the verdicts of the delivery job           *)
(* (workers/tasks.py).  services/trust.py writes a row per change and the  *)
(* new score, computed from the organizer as the session has loaded it.    *)
(***************************************************************************)
EXTENDS Integers, FiniteSets

CONSTANTS Users,     \* the players
          Reports,   \* bound: the rows of reports there may be
          Handlers,  \* the connections of handlers, one per process
          Workers,   \* the connections of job loops, one per process
          Ratings,   \* the stars players give, out of 1..5
          MaxDeeds,  \* bound: changes of the score
          Nobody     \* no player

ASSUME TrustConstants ==
    /\ Ratings \subseteq 1..5
    /\ MaxDeeds \in Nat
    /\ Handlers \cap Workers = {}
    /\ Nobody \notin Users

Sessions == Handlers \cup Workers

\* RULES and the event types of apply_trust, with the deltas of those that have
\* a fixed one.
Delta == [credentials_delivered |-> 6,  credentials_missed |-> -18,
          prize_paid_confirmed |-> 4,   prize_unpaid_reported |-> -14,
          report_upheld |-> -10,        channel_verified |-> 5]

OncePerEvent == {"credentials_delivered", "credentials_missed", "prize_paid_confirmed",
                 "prize_unpaid_reported", "report_upheld"}

Rules == OncePerEvent \cup {"channel_verified", "player_review"}

\* _trust_delta.
ReviewDelta(rating, prize) ==
    [r \in 1..5 |-> IF r = 5 THEN 2 ELSE IF r = 4 THEN 1 ELSE IF r = 3 THEN 0
                    ELSE IF r = 2 THEN -2 ELSE -4][rating]
    + (IF prize = "yes" THEN 1 ELSE IF prize = "no" THEN -3 ELSE 0)

Score == 0..100

\* _clamp.
Clamp(x) == IF x < 0 THEN 0 ELSE IF x > 100 THEN 100 ELSE x

Standing     == {"pending", "approved", "rejected"}
ClaimStatus  == {"none", "pending", "approved", "rejected"}
ReportStatus == {"new", "in_review", "confirmed", "rejected", "closed"}
ReportReason == {"unpaid_prize", "other"}

NoReport == [by |-> Nobody, reason |-> "none", status |-> "none", upheld |-> FALSE]
Report   == [by : Users, reason : ReportReason, status : ReportStatus, upheld : BOOLEAN]

VARIABLES
    standing,    \* organizers.status
    score,       \* organizers.trust_score
    rows,        \* rows[r]: organizer_trust_events of rule r for the custom
    claim,       \* claim[u]: winner_claims
    report,      \* report[r]: reports about the custom
    reviewed,    \* the players with a review
    tx,          \* tx[s]: what a session is about to commit
    deeds,       \* changes of the score so far
    added,       \* history: the rows added up, in the order of their commits
    overlapped,  \* history: two sessions held the organizer at once
    raced        \* history: rules two sessions were about to apply at once

tables == <<standing, score, rows, claim, report, reviewed>>

history == <<deeds, added, overlapped, raced>>

vars == <<tables, tx, history>>

Hows == {"job", "approve", "apply", "claim", "refuse", "confirm", "uphold", "review", "file"}

\* What a session does: the rule it applies ("none": the score is left alone),
\* whose claim, which report or whose review it is about, the report it files.
Deed == [rule : Rules \cup {"none"}, delta : -18..18, how : Hows,
         about : Users \cup Reports \cup {Nobody}, files : ReportReason \cup {"none"}]

Idle == [busy |-> FALSE]

Tx == {Idle} \cup [busy : {TRUE}, deed : Deed, copy : Score, writes : BOOLEAN]

-----------------------------------------------------------------------------
(* What a session can be asked to do, given what it reads first            *)

RuleOf(reason) == IF reason = "unpaid_prize" THEN "prize_unpaid_reported" ELSE "report_upheld"

Ruled(rule, how, x) ==
    [rule |-> rule, delta |-> Delta[rule], how |-> how, about |-> x, files |-> "none"]

Silent(how, x, reason) ==
    [rule |-> "none", delta |-> 0, how |-> how, about |-> x, files |-> reason]

\* send_credentials after a delivery, _expire_missing_credentials.
JobDeeds == {Ruled(r, "job", Nobody) : r \in {"credentials_delivered", "credentials_missed"}}

\* The admins' panel and the API approve whatever the status is.
ApproveDeeds == {Ruled("channel_verified", "approve", Nobody)}

\* get_or_apply, with auto_approve_organizers on.
ApplyDeeds == IF standing = "pending" THEN {Ruled("channel_verified", "apply", Nobody)} ELSE {}

\* _resolve_claim_cb of the organizer.
ClaimDeeds ==
    {Ruled("prize_paid_confirmed", "claim", u) : u \in {v \in Users : claim[v] = "pending"}}

\* The "no" of either panel.
RefuseDeeds == {Silent("refuse", u, "none") : u \in {v \in Users : claim[v] = "pending"}}

\* report_status "confirmed" of the API, whatever the status is.
ConfirmDeeds ==
    {Ruled(RuleOf(report[r].reason), "confirm", r) : r \in {q \in Reports : report[q] # NoReport}}

\* admin_report_uphold, whatever the status is.
UpholdDeeds ==
    {Ruled(RuleOf(report[r].reason), "uphold", r) : r \in {q \in Reports : report[q] # NoReport}}

Reported(u) == \E r \in Reports : report[r].by = u

\* _notify_prize_vote: a "no" files a report, unless the player has one.
PrizeVote(u, prize) == IF prize = "no" /\ ~Reported(u) THEN "unpaid_prize" ELSE "none"

\* can_review: one review per player.
ReviewDeeds ==
    {[rule |-> "player_review", delta |-> ReviewDelta(r, p), how |-> "review", about |-> u,
      files |-> PrizeVote(u, p)] :
        u \in Users \ reviewed, r \in Ratings, p \in {"yes", "no", "unknown"}}

\* create_player_report: one report per player.
FileDeeds ==
    {Silent("file", u, reason) : u \in {v \in Users : ~Reported(v)}, reason \in ReportReason}

\* create_report of the API: one new report per player.
ApiFileDeeds ==
    {Silent("file", u, reason) :
        u \in {v \in Users : ~\E r \in Reports : report[r].by = v /\ report[r].status = "new"},
        reason \in ReportReason}

HandlerDeeds ==
    UNION {ApproveDeeds, ApplyDeeds, ClaimDeeds, RefuseDeeds, ConfirmDeeds, UpholdDeeds,
           ReviewDeeds, FileDeeds, ApiFileDeeds}

-----------------------------------------------------------------------------
(* Sessions                                                                *)

\* A mistake for OnceOnly to catch: whether the rule was applied is not asked.
Repeats(d) == TRUE

\* A mistake for UpheldCounts to catch: one row of any rule is enough.
FirstOfAll(d) == \A r \in OncePerEvent : rows[r] = 0

\* record: a rule counts once per custom.  apply_trust does not ask.
Writes(d) ==
    IF d.rule \in OncePerEvent THEN rows[d.rule] = 0 ELSE d.delta # 0

Holding(s) == tx[s] # Idle /\ tx[s].deed.rule # "none"

\* The session loads the organizer, the rows and what the deed is about.
Begin(s, d) ==
    /\ tx[s] = Idle
    /\ tx' = [tx EXCEPT ![s] = [busy |-> TRUE, deed |-> d, copy |-> score, writes |-> Writes(d)]]
    /\ IF d.rule = "none" THEN UNCHANGED history
       ELSE /\ deeds < MaxDeeds
            /\ deeds' = deeds + 1
            /\ LET others == {t \in Sessions \ {s} : Holding(t)}
               IN /\ overlapped' = (overlapped \/ others # {})
                  /\ raced' = IF \E t \in others : tx[t].deed.rule = d.rule
                              THEN raced \cup {d.rule} ELSE raced
            /\ UNCHANGED added
    /\ UNCHANGED tables

\* A mistake for ScoreMatchesRows to catch: the row without the score.
RowOnly(s) ==
    LET d == tx[s].deed
    IN IF ~tx[s].writes THEN UNCHANGED <<score, rows, added>>
       ELSE /\ rows' = [rows EXCEPT ![d.rule] = rows[d.rule] + 1]
            /\ added' = Clamp(added + d.delta)
            /\ UNCHANGED score

\* A score that equals the loaded one is not written.
Moves(s) ==
    LET d == tx[s].deed
        new == Clamp(tx[s].copy + d.delta)
    IN IF ~tx[s].writes THEN UNCHANGED <<score, rows, added>>
       ELSE /\ score' = IF new = tx[s].copy THEN score ELSE new
            /\ rows' = [rows EXCEPT ![d.rule] = rows[d.rule] + 1]
            /\ added' = Clamp(added + d.delta)

\* A row of reports, if the deed files one.
Files(d) ==
    IF d.files = "none" THEN UNCHANGED report
    ELSE \E r \in Reports :
            /\ report[r] = NoReport
            /\ report' = [report EXCEPT ![r] = [by |-> d.about, reason |-> d.files,
                                                status |-> "new", upheld |-> FALSE]]

Ends(s, hows) ==
    /\ tx[s] # Idle /\ tx[s].deed.how \in hows
    /\ tx' = [tx EXCEPT ![s] = Idle]
    /\ UNCHANGED <<deeds, overlapped, raced>>

\* The session of the job is committed.
CommitJob(s) ==
    /\ Ends(s, {"job"})
    /\ Moves(s)
    /\ UNCHANGED <<standing, claim, report, reviewed>>

\* approve_organizer.
CommitApproval(s) ==
    /\ Ends(s, {"approve", "apply"})
    /\ Moves(s)
    /\ standing' = "approved"
    /\ UNCHANGED <<claim, report, reviewed>>

\* A mistake for the type invariant to catch: the claim takes a report's status.
ClaimConfirmed(s) ==
    /\ Ends(s, {"claim", "refuse"})
    /\ Moves(s)
    /\ claim' = [claim EXCEPT ![tx[s].deed.about] =
                    IF tx[s].deed.how = "claim" THEN "confirmed" ELSE "rejected"]
    /\ UNCHANGED <<standing, report, reviewed>>

\* _resolve_winner, resolve_claim: the status asked for before is written over.
CommitClaim(s) ==
    /\ Ends(s, {"claim", "refuse"})
    /\ Moves(s)
    /\ claim' = [claim EXCEPT ![tx[s].deed.about] =
                    IF tx[s].deed.how = "claim" THEN "approved" ELSE "rejected"]
    /\ UNCHANGED <<standing, report, reviewed>>

\* The verdict and the change of the score are one transaction.
CommitVerdict(s) ==
    /\ Ends(s, {"confirm", "uphold"})
    /\ Moves(s)
    /\ LET r == tx[s].deed.about
       IN report' = [report EXCEPT ![r] =
             [report[r] EXCEPT !.upheld = TRUE,
                               !.status = IF tx[s].deed.how = "confirm" THEN "confirmed" ELSE "closed"]]
    /\ UNCHANGED <<standing, claim, reviewed>>

\* create_review and the report of a "no".
CommitReview(s) ==
    /\ Ends(s, {"review"})
    /\ tx[s].deed.about \notin reviewed
    /\ Moves(s)
    /\ reviewed' = reviewed \cup {tx[s].deed.about}
    /\ Files(tx[s].deed)
    /\ UNCHANGED <<standing, claim>>

\* The unique key of reviews refuses a second one of the same player.
ReviewTwice(s) ==
    /\ Ends(s, {"review"})
    /\ tx[s].deed.about \in reviewed
    /\ UNCHANGED <<tables, added>>

CommitFile(s) ==
    /\ Ends(s, {"file"})
    /\ Files(tx[s].deed)
    /\ UNCHANGED <<standing, score, rows, claim, reviewed, added>>

\* The session fails and is rolled back.
Rollback(s) ==
    /\ tx[s] # Idle
    /\ tx' = [tx EXCEPT ![s] = Idle]
    /\ UNCHANGED <<tables, history>>

-----------------------------------------------------------------------------
(* What moves no score and asks nothing first                              *)

\* winner_screenshot, create_winner_claim.
ClaimWin(u) ==
    /\ claim[u] = "none"
    /\ claim' = [claim EXCEPT ![u] = "pending"]
    /\ UNCHANGED <<standing, score, rows, report, reviewed, tx, history>>

\* report_status with another status, admin_report_ok.
SetStatus(r, st) ==
    /\ report[r] # NoReport
    /\ report[r].status # st
    /\ report' = [report EXCEPT ![r] = [report[r] EXCEPT !.status = st]]
    /\ UNCHANGED <<standing, score, rows, claim, reviewed, tx, history>>

\* reject_organizer.
RejectOrganizer ==
    /\ standing # "rejected"
    /\ standing' = "rejected"
    /\ UNCHANGED <<score, rows, claim, report, reviewed, tx, history>>

-----------------------------------------------------------------------------
Init ==
    /\ standing = "pending"
    /\ score = 50
    /\ rows = [r \in Rules |-> 0]
    /\ claim = [u \in Users |-> "none"]
    /\ report = [r \in Reports |-> NoReport]
    /\ reviewed = {}
    /\ tx = [s \in Sessions |-> Idle]
    /\ deeds = 0
    /\ added = 50
    /\ overlapped = FALSE
    /\ raced = {}

Commit(s) ==
    \/ CommitJob(s) \/ CommitApproval(s) \/ CommitClaim(s) \/ CommitVerdict(s)
    \/ CommitReview(s) \/ ReviewTwice(s) \/ CommitFile(s)

Session(s) ==
    \/ s \in Handlers /\ \E d \in HandlerDeeds : Begin(s, d)
    \/ s \in Workers /\ \E d \in JobDeeds : Begin(s, d)
    \/ Commit(s)
    \/ Rollback(s)

Panel ==
    \/ \E u \in Users : ClaimWin(u)
    \/ \E r \in Reports, st \in ReportStatus \ {"confirmed"} : SetStatus(r, st)
    \/ RejectOrganizer

Next == (\E s \in Sessions : Session(s)) \/ Panel

Spec == Init /\ [][Next]_vars

-----------------------------------------------------------------------------
(* Properties                                                              *)

TypeOK ==
    /\ standing \in Standing
    /\ score \in Score /\ added \in Score
    /\ rows \in [Rules -> Nat]
    /\ claim \in [Users -> ClaimStatus]
    /\ report \in [Reports -> Report \cup {NoReport}]
    /\ reviewed \subseteq Users
    /\ tx \in [Sessions -> Tx]
    /\ deeds \in 0..MaxDeeds
    /\ overlapped \in BOOLEAN
    /\ raced \subseteq Rules

\* services/trust.py:3-5, "every change leaves an auditable row behind": as long
\* as no two sessions hold the organizer at once, the score is what its rows add
\* up to, clamped after each; an overlap may lose a change.
ScoreMatchesRows == ~overlapped => score = added

\* Whatever claims, reports and jobs overlap: a rule that counts once per custom
\* has one row, unless two sessions were about to apply that very rule at once.
OnceOnly == \A r \in OncePerEvent \ raced : rows[r] <= 1

\* An upheld report and an approved claim have moved the score: a row of their
\* rule exists, be it from another report of the same kind.
UpheldCounts ==
    /\ \A r \in Reports : report[r] # NoReport /\ report[r].upheld => rows[RuleOf(report[r].reason)] >= 1
    /\ \A u \in Users : claim[u] = "approved" => rows["prize_paid_confirmed"] >= 1
=============================================================================
