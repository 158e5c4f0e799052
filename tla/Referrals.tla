------------------------------ MODULE Referrals ------------------------------
(***************************************************************************)
(* Invitations (services/referrals.py, models/referral.py) and the         *)
(* onboarding that makes them count (bot/onboarding.py, the /start handler *)
(* of bot/handlers/player.py).  The middleware loads the player and gives  *)
(* the connection back; the handler then waits for the one connection of   *)
(* its process, takes the invitation of the link, asks Telegram about the  *)
(* channels, marks the pending invitations valid and is committed.         *)
(***************************************************************************)
EXTENDS Integers, FiniteSets

CONSTANTS Users,     \* the players, who invite and are invited
          Events,    \* the customs
          Global,    \* the campaign of a link without a custom: its event_id is NULL
          Rows,      \* bound: the rows of referrals there may be
          Updates,   \* bound: the updates handled at once
          Processes, \* the processes that handle updates
          Nobody     \* no player

ReferralConstants == IsFiniteSet(Rows) /\ "own" \notin Rows

Campaigns == Events \cup {Global}

\* A link belongs to one player and one campaign.
Links == Users \X Campaigns

VARIABLES
    links,      \* referral_links
    count,      \* count[l]: valid_count of a link
    ref,        \* ref[r]: a row of referrals
    accepted,   \* the players with tos_accepted_at
    onboarded,  \* the players with onboarding_completed_at
    tx,         \* tx[h]: the session of an update
    raced       \* history: players whose onboarding two processes had in hand at once

tables == <<links, count, ref, accepted, onboarded>>

vars == <<tables, tx, raced>>

NoRow == [link |-> <<Nobody, Global>>, to |-> Nobody, is |-> "none"]

Row == [link : Links, to : Users, is : {"self_referral", "pending_onboarding", "valid"}]

Idle == [at |-> "idle"]

\* A session: where it is, the player as loaded, the link it came with, the row it
\* has added, and the rows it is about to mark, "own" for the one it has added.
Tx == {Idle} \cup [at : {"loaded", "open", "passed"}, in : Processes, of : Users,
                   accepts : BOOLEAN, onboarded : BOOLEAN, link : Links \cup {NoRow.link},
                   adds : Row \cup {NoRow}, marks : SUBSET (Rows \cup {"own"})]

Connected(h) == tx[h].at \in {"open", "passed"}

-----------------------------------------------------------------------------
\* get_or_create_link.
GetLink(l) ==
    /\ l \notin links
    /\ links' = links \cup {l}
    /\ UNCHANGED <<count, ref, accepted, onboarded, tx, raced>>

Taken(u, c) == \E r \in Rows : ref[r].to = u /\ ref[r].link[2] = c

\* apply_start_referral: a link of the player adds a row that never counts, each
\* time; another link one row per campaign.
Invitation(u, l) ==
    IF l \notin links THEN NoRow
    ELSE IF l[1] = u THEN [link |-> l, to |-> u, is |-> "self_referral"]
    ELSE IF Taken(u, l[2]) THEN NoRow
    ELSE [link |-> l, to |-> u, is |-> "pending_onboarding"]

\* The middleware loads the player and commits.
Load(h, p, u, accepts, l) ==
    /\ tx[h] = Idle
    /\ tx' = [tx EXCEPT ![h] = [at |-> "loaded", in |-> p, of |-> u,
                                accepts |-> accepts \/ u \in accepted, onboarded |-> u \in onboarded,
                                link |-> l, adds |-> NoRow, marks |-> {}]]
    /\ UNCHANGED <<tables, raced>>

\* cmd_start with the payload of a link.
StartRef(h, p, u, l) == l \in links /\ Load(h, p, u, FALSE, l)

\* tos:accept.
AcceptTos(h, p, u) == Load(h, p, u, TRUE, NoRow.link)

\* Every other button that asks for onboarding first.
AnyButton(h, p, u) == Load(h, p, u, FALSE, NoRow.link)

\* The handler gets the connection of its process, and reads.
Open(h) ==
    /\ tx[h].at = "loaded"
    /\ \A g \in Updates : Connected(g) => tx[g].in # tx[h].in
    /\ tx' = [tx EXCEPT ![h] = [tx[h] EXCEPT !.at = "open", !.adds = Invitation(tx[h].of, tx[h].link)]]
    /\ raced' = IF \E g \in Updates : Connected(g) /\ tx[g].of = tx[h].of
                THEN raced \cup {tx[h].of} ELSE raced
    /\ UNCHANGED tables

\* validate_pending_referrals: what the session reads, its own row included.
Pending(h) ==
    {r \in Rows : ref[r].to = tx[h].of /\ ref[r].is = "pending_onboarding"}
    \cup (IF tx[h].adds.is = "pending_onboarding" THEN {"own"} ELSE {})

\* ensure_onboarding, once Telegram has answered: the player is in every channel.
Pass(h) ==
    /\ tx[h].at = "open" /\ tx[h].accepts /\ ~tx[h].onboarded
    /\ tx' = [tx EXCEPT ![h] = [tx[h] EXCEPT !.at = "passed", !.marks = Pending(h)]]
    /\ UNCHANGED <<tables, raced>>

\* A custom has one row per player, its unique key says; NULL is equal to nothing.
KeyBroken(h) == LET new == tx[h].adds IN new # NoRow /\ new.link[2] # Global /\ Taken(new.to, new.link[2])

\* A mistake for CountIsRows to catch: the rows are marked and not counted.
MarkOnly(h) == count

\* The UPDATE adds to the counter as it is.
Counted(h) ==
    [l \in Links |-> count[l] + Cardinality({r \in tx[h].marks \cap Rows : ref[r].link = l})
                     + (IF "own" \in tx[h].marks /\ tx[h].adds.link = l THEN 1 ELSE 0)]

Marked(h) ==
    [r \in Rows |-> IF r \in tx[h].marks THEN [ref[r] EXCEPT !.is = "valid"] ELSE ref[r]]

OwnRow(h) ==
    IF "own" \in tx[h].marks THEN [tx[h].adds EXCEPT !.is = "valid"] ELSE tx[h].adds

\* The handler is over: everything is committed.
Commit(h) ==
    /\ Connected(h) /\ ~KeyBroken(h)
    /\ IF tx[h].adds = NoRow THEN ref' = Marked(h)
       ELSE \E r \in Rows : ref[r] = NoRow /\ ref' = [Marked(h) EXCEPT ![r] = OwnRow(h)]
    /\ count' = Counted(h)
    /\ accepted' = IF tx[h].accepts THEN accepted \cup {tx[h].of} ELSE accepted
    /\ onboarded' = IF tx[h].at = "passed" THEN onboarded \cup {tx[h].of} ELSE onboarded
    /\ tx' = [tx EXCEPT ![h] = Idle]
    /\ UNCHANGED <<links, raced>>

\* A broken key, ten seconds without a connection, a failure, a stop of the process:
\* nothing is written.
Rollback(h) ==
    /\ tx[h] # Idle
    /\ tx' = [tx EXCEPT ![h] = Idle]
    /\ UNCHANGED <<tables, raced>>

-----------------------------------------------------------------------------
Init ==
    /\ links = {}
    /\ count = [l \in Links |-> 0]
    /\ ref = [r \in Rows |-> NoRow]
    /\ accepted = {}
    /\ onboarded = {}
    /\ tx = [h \in Updates |-> Idle]
    /\ raced = {}

Handler(h) ==
    \/ \E p \in Processes, u \in Users :
          (\E l \in Links : StartRef(h, p, u, l)) \/ AcceptTos(h, p, u) \/ AnyButton(h, p, u)
    \/ Open(h)
    \/ Pass(h)
    \/ Commit(h)
    \/ Rollback(h)

Next == (\E l \in Links : GetLink(l)) \/ (\E h \in Updates : Handler(h))

Spec == Init /\ [][Next]_vars

-----------------------------------------------------------------------------
(* Properties                                                              *)

TypeOK ==
    /\ links \subseteq Links
    /\ count \in [Links -> Nat]
    /\ ref \in [Rows -> Row \cup {NoRow}]
    /\ accepted \subseteq Users /\ onboarded \subseteq Users
    /\ tx \in [Updates -> Tx]
    /\ raced \subseteq Users

\* The rows evaluate_requirements counts.
Invited(l) == {r \in Rows : ref[r].link = l /\ ref[r].is = "valid"}

\* player.py:709 and 728 show the counter, requirements.py:128 asks the rows: the
\* counter is never below the rows, and above them only through a player whom two
\* processes served at once; and no player counts twice in a
\* campaign (referrals.py:66, "one valid referrer per campaign/event"), but for
\* such a player and a link without a custom.
CountIsRows ==
    /\ \A l \in Links :
        /\ count[l] >= Cardinality(Invited(l))
        /\ \A r \in Invited(l) : ref[r].to # l[1]
        /\ (\A r \in Invited(l) : ref[r].to \notin raced) => count[l] = Cardinality(Invited(l))
    /\ \A r, q \in Rows :
        (r # q /\ ref[r].is = "valid" /\ ref[q].is = "valid" /\ ref[r].to = ref[q].to
           /\ ref[r].link[2] = ref[q].link[2])
        => ref[r].to \in raced /\ ref[r].link[2] = Global

-----------------------------------------------------------------------------
(* Bounds for model checking: one player joins, over two links at most     *)

Few ==
    /\ Cardinality(accepted) <= 1 /\ Cardinality(onboarded) <= 1
    /\ Cardinality(links) + Cardinality({r \in Rows : ref[r].is = "self_referral"}) <= 2
    /\ raced # {} => accepted = onboarded /\ Cardinality(links) <= 1
    /\ (\E r \in Rows : ref[r].is # "none") /\ Cardinality(links) > 1 => \E h \in Updates : tx[h] = Idle
=============================================================================
