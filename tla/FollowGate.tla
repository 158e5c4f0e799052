----------------------------- MODULE FollowGate -----------------------------
(***************************************************************************)
(* The follow gate of one custom: players send a screenshot per page       *)
(* (services/social.py, bot/handlers/player.py), which is what registers   *)
(* them; the organizer looks afterwards, rejects, restores, or does either *)
(* to all of them (bot/handlers/organizer.py); a sweep sends the password  *)
(* to whoever holds a seat and still passes (services/credentials.py).     *)
(*                                                                         *)
(* Bot handlers share one connection and so follow one another, except     *)
(* that an upload commits and lets go of the connection before it goes on  *)
(* to register.  The sweep has a connection of its own.  The number of     *)
(* confirmed registrations stands for confirmed_count: what outdated       *)
(* copies do to the count is the subject of Registration.                  *)
(***************************************************************************)
EXTENDS Naturals, FiniteSets, Sequences, SequencesExt

CONSTANTS Users,       \* the players
          MaxPages,    \* MAX_SOCIAL_TASKS
          Capacity,    \* the seats of the custom
          BulkLimit,   \* BULK_SOCIAL_LIMIT, the proofs one bulk tap touches
          MaxUploads,  \* bound: uploads of one player between commit and register
          Nobody       \* no player

GateConstants ==
    /\ MaxPages \in Nat \ {0} /\ Capacity \in Nat \ {0}
    /\ BulkLimit \in Nat \ {0} /\ MaxUploads \in Nat \ {0}
    /\ IsFiniteSet(Users) /\ Nobody \notin Users

NoPage == 0

ProofStatus == {"none", "pending", "approved", "rejected"}

RegStatus == {"none", "pending", "confirmed", "waitlisted", "ineligible"}

VARIABLES
    last,      \* the pages to follow are 1..last, in the organizer's order
    proof,     \* proof[u][p]: the row of social_proofs
    reg,       \* reg[u]: the registration
    line,      \* the active waitlist entries, in order
    waited,    \* the players who have a waitlist entry, active or not
    waitlist,  \* events.waitlist_enabled
    standing,  \* in all channels, left one, or banned
    open,      \* join_window_open
    asks,      \* asks[u]: the page in the player's FSM data
    midway,    \* midway[u]: uploads committed whose registration is to come
    sweep,     \* a sweep: players to do, the one it sends to, demotions, players done
    slipped,   \* history: promoted from the waitlist with a rejected proof
    caught,    \* caught[u]: history: a proof of u was rejected during the sweep
    unheard    \* history: players whose last registration failed, or found something
               \* else missing than the pages and the standing

vars == <<last, proof, reg, line, waited, waitlist, standing, open, asks, midway,
          sweep, slipped, caught, unheard>>

Pages == 1..last

places == <<reg, line, waited, slipped>>
seats == <<places, unheard>>
world == <<last, waitlist, standing, open>>

Off == [on |-> FALSE, todo |-> {}, at |-> Nobody, drop |-> {}, sent |-> {}]

-----------------------------------------------------------------------------
(* The gate                                                                *)

Rejected(u) == \E p \in Pages : proof[u][p] = "rejected"

\* next_task_for: the pages the player still owes a screenshot.
Owed(pr, u) == {p \in Pages : pr[u][p] \in {"none", "rejected"}}

First(pages) == IF pages = {} THEN NoPage ELSE CHOOSE p \in pages : \A q \in pages : p <= q

\* gate_from: every page has a screenshot that was not rejected.
GateOk(pr, u) == \A p \in Pages : pr[u][p] \notin {"none", "rejected"}

\* What evaluate_requirements asks of the pages, the channels and the bans.
Eligible(pr, u) == standing[u] = "member" /\ GateOk(pr, u)

-----------------------------------------------------------------------------
(* Seats                                                                   *)

Confirmed(r) == {u \in Users : r[u] = "confirmed"}

\* register_user raises an application error: the player is banned, the window
\* is closed, the registration exists, or the custom is full.
Banned(u)  == standing[u] = "banned"
HasSeat(u) == reg[u] \in {"confirmed", "waitlisted"}
HasRoom    == Cardinality(Confirmed(reg)) < Capacity

Refused(u) == Banned(u) \/ ~open \/ HasSeat(u)

Becomes(u, status) ==
    /\ reg' = [reg EXCEPT ![u] = status]
    /\ UNCHANGED <<line, waited, slipped>>

\* register_user, as far as it returns or refuses.  Of the other requirements -
\* the profile, the invitations, a channel Telegram does not answer for or where
\* the bot is no admin - any may be missing; a ban may fall between the two looks
\* for one.  Without a waitlist the refusal comes after the registration has been
\* inserted.
Register(u, pr) ==
    \/ /\ Refused(u)
       /\ UNCHANGED places /\ unheard' = unheard \ {u}
    \/ /\ ~Refused(u) /\ ~Eligible(pr, u)
       /\ Becomes(u, "pending") /\ unheard' = unheard \ {u}
    \/ /\ ~Refused(u)
       /\ Becomes(u, "pending") \/ Becomes(u, "ineligible")
       /\ unheard' = unheard \cup {u}
    \/ /\ ~Refused(u) /\ Eligible(pr, u)
       /\ \/ HasRoom /\ Becomes(u, "confirmed")
          \/ /\ ~HasRoom /\ ~waitlist
             /\ Becomes(u, IF reg[u] = "none" THEN "pending" ELSE reg[u])
          \/ /\ ~HasRoom /\ waitlist /\ u \notin waited
             /\ reg' = [reg EXCEPT ![u] = "waitlisted"]
             /\ line' = Append(line, u)
             /\ waited' = waited \cup {u}
             /\ UNCHANGED slipped
       /\ unheard' = unheard \ {u}

\* register_user raises anything else - a second waitlist entry of the same player
\* breaks a unique key, Redis or Telegram fails, the process dies - and leaves
\* nothing.
Fails(u) == UNCHANGED places /\ unheard' = unheard \cup {u}

\* promote_waitlist: the first entry whose registration still waits gets the
\* seat - its requirements are not evaluated again.  Entries before it are
\* retired, and all of them when nobody waits.
Promote(s) ==
    IF Cardinality(Confirmed(s.reg)) >= Capacity THEN s
    ELSE LET waiting == {i \in DOMAIN s.line : s.reg[s.line[i]] = "waitlisted"}
             i == First(waiting)
         IN IF waiting = {} THEN [s EXCEPT !.line = <<>>]
            ELSE [reg  |-> [s.reg EXCEPT ![s.line[i]] = "confirmed"],
                  line |-> SubSeq(s.line, i + 1, Len(s.line)),
                  up   |-> s.up \cup {s.line[i]}]

\* _void_registration: only a confirmed seat is taken back, and handed on.
Void(s, u) ==
    IF s.reg[u] # "confirmed" THEN s
    ELSE Promote([s EXCEPT !.reg[u] = "ineligible"])

\* The players of a sequence lose their seats, one after the other.
VoidAll(players) ==
    LET after[i \in 0..Len(players)] ==
            IF i = 0 THEN [reg |-> reg, line |-> line, up |-> {}]
            ELSE Void(after[i - 1], players[i])
    IN  after[Len(players)]

\* What is left of the seats, and who was promoted past a rejection.
Seats(s, pr) ==
    /\ reg' = s.reg
    /\ line' = s.line
    /\ slipped' = slipped \cup {u \in s.up : \E p \in Pages : pr[u][p] = "rejected"}
    /\ UNCHANGED <<waited, unheard>>

-----------------------------------------------------------------------------
(* The player                                                              *)

\* _social_prompt: ask for the next page, or clear the state and say that the
\* registration is final.
Prompt(u) == asks' = [asks EXCEPT ![u] = First(Owed(proof, u))]

\* social_start, the button under the checklist.
Start(u) ==
    /\ open
    /\ standing[u] # "left"
    /\ Prompt(u)
    /\ UNCHANGED <<proof, seats, world, midway, sweep, caught>>

\* social_screenshot up to its commit: the photo goes to the page in the FSM
\* data.  Nothing asks whether the window is open.
Upload(u) ==
    /\ asks[u] # NoPage
    /\ midway[u] < MaxUploads
    /\ IF standing[u] = "left" \/ proof[u][asks[u]] = "approved"
       THEN /\ asks' = [asks EXCEPT ![u] = NoPage]
            /\ UNCHANGED <<proof, midway>>
       ELSE /\ proof' = [proof EXCEPT ![u][asks[u]] = "pending"]
            /\ midway' = [midway EXCEPT ![u] = @ + 1]
            /\ UNCHANGED asks
    /\ UNCHANGED <<seats, world, sweep, caught>>

\* A mistake for FinalMeansSeated to catch: the registration is left to the
\* next sweep.
FinishUnregistered(u) ==
    /\ midway[u] > 0
    /\ midway' = [midway EXCEPT ![u] = @ - 1]
    /\ Prompt(u)
    /\ UNCHANGED <<proof, seats, world, sweep, caught>>

\* ... and on from there: it registers, takes every refusal for "already
\* registered", rolls back what fails, and prompts all the same - unless it dies.
FinishUpload(u) ==
    /\ midway[u] > 0
    /\ midway' = [midway EXCEPT ![u] = @ - 1]
    /\ \/ (Register(u, proof) \/ Fails(u)) /\ Prompt(u)
       \/ Fails(u) /\ UNCHANGED asks
    /\ UNCHANGED <<proof, world, sweep, caught>>

\* join_event, recheck_req, accept_rules: a registration that says how it ended.
Join(u) ==
    /\ ~Refused(u)
    /\ Register(u, proof)
    /\ UNCHANGED <<proof, world, asks, midway, sweep, caught>>

\* The player leaves a channel or joins it again; an admin bans the player.
ChangeStanding(u) ==
    /\ \E s \in {"member", "left", "banned"} \ {standing[u]} :
          standing' = [standing EXCEPT ![u] = s]
    /\ UNCHANGED <<last, proof, seats, waitlist, open, asks, midway, sweep, caught>>

\* A menu button, "cancel", or an eviction in Redis.
ForgetFSM(u) ==
    /\ asks[u] # NoPage
    /\ asks' = [asks EXCEPT ![u] = NoPage]
    /\ UNCHANGED <<proof, seats, world, midway, sweep, caught>>

-----------------------------------------------------------------------------
(* The organizer                                                           *)

\* The rejections fall into a sweep.
Catch(players) ==
    caught' = [u \in Users |-> IF u \notin players \/ ~sweep.on THEN caught[u]
                               ELSE IF u = sweep.at THEN "at the send" ELSE
                                    IF caught[u] = "no" THEN "before the send" ELSE caught[u]]

\* _resolve_social with approved=False.
Reject(u, p) ==
    /\ proof[u][p] \in {"pending", "approved"}
    /\ LET pr == [proof EXCEPT ![u][p] = "rejected"]
       IN proof' = pr /\ Seats(VoidAll(<<u>>), pr)
    /\ Catch({u})
    /\ UNCHANGED <<world, asks, midway, sweep>>

\* _resolve_social with approved=True: the player is registered again and told
\* so, whatever register_user made of it, failures included.
Restore(u, p) ==
    /\ proof[u][p] \in {"pending", "rejected"}
    /\ LET pr == [proof EXCEPT ![u][p] = "approved"]
       IN proof' = pr /\ (Register(u, pr) \/ Fails(u))
    /\ UNCHANGED <<world, asks, midway, sweep, caught>>

Proofs(statuses) == {x \in Users \X Pages : proof[x[1]][x[2]] \in statuses}

\* One bulk tap touches so many of these proofs.
OneTap(proofs, batch) ==
    /\ batch # {}
    /\ Cardinality(batch) = IF Cardinality(proofs) > BulkLimit THEN BulkLimit
                            ELSE Cardinality(proofs)

Mark(batch, status) ==
    [u \in Users |-> [p \in 1..MaxPages |-> IF <<u, p>> \in batch THEN status ELSE proof[u][p]]]

\* org_social_all_ok: the unreviewed ones count as looked at.
ApproveAll ==
    /\ \E batch \in SUBSET Proofs({"pending"}) :
          /\ OneTap(Proofs({"pending"}), batch)
          /\ proof' = Mark(batch, "approved")
    /\ UNCHANGED <<seats, world, asks, midway, sweep, caught>>

\* A mistake for RejectedHoldsNoSeat to catch: the seats are not taken back.
RejectAllOnly ==
    /\ \E batch \in SUBSET Proofs({"pending", "approved"}) :
          /\ OneTap(Proofs({"pending", "approved"}), batch)
          /\ proof' = Mark(batch, "rejected")
    /\ UNCHANGED <<seats, world, asks, midway, sweep, caught>>

\* org_social_all_no: the live ones are rejected, and then their players lose
\* their seats one by one; a seat may go to a player of the same batch, before or
\* after that player's turn.
RejectAll ==
    /\ \E batch \in SUBSET Proofs({"pending", "approved"}) :
          /\ OneTap(Proofs({"pending", "approved"}), batch)
          /\ LET players == {x[1] : x \in batch}
                 pr == Mark(batch, "rejected")
             IN /\ proof' = pr
                /\ \E turns \in SetToSeqs(players) : Seats(VoidAll(turns), pr)
                            /\ Catch(players)
    /\ UNCHANGED <<world, asks, midway, sweep>>

\* mark_started, or the moment the window ends.
CloseWindow ==
    /\ open
    /\ open' = FALSE
    /\ UNCHANGED <<last, proof, seats, waitlist, standing, asks, midway, sweep, caught>>

-----------------------------------------------------------------------------
(* The sweep                                                               *)

\* _send_credentials loads the confirmed registrations.
SweepStart ==
    /\ ~sweep.on
    /\ sweep' = [Off EXCEPT !.on = TRUE, !.todo = Confirmed(reg)]
    /\ UNCHANGED <<proof, seats, world, asks, midway, caught>>

\* A mistake for PasswordEarned to catch: the follow gate is not asked.
SweepCheckChannels(u) ==
    /\ sweep.on /\ sweep.at = Nobody /\ u \in sweep.todo
    /\ sweep' = [sweep EXCEPT !.todo = @ \ {u}, !.at = u]
    /\ UNCHANGED <<proof, seats, world, asks, midway, caught>>

\* deliver_one up to the message.  A membership that cannot be verified and a
\* missing screenshot leave the seat alone; a player who left or is banned loses it.
SweepCheck(u) ==
    /\ sweep.on /\ sweep.at = Nobody /\ u \in sweep.todo
    /\ \/ sweep' = [sweep EXCEPT !.todo = @ \ {u}]
       \/ /\ standing[u] # "member"
          /\ sweep' = [sweep EXCEPT !.todo = @ \ {u}, !.drop = @ \cup {u}]
       \/ /\ Eligible(proof, u)
          /\ sweep' = [sweep EXCEPT !.todo = @ \ {u}, !.at = u]
    /\ UNCHANGED <<proof, seats, world, asks, midway, caught>>

SweepSend ==
    /\ sweep.at # Nobody
    /\ \/ sweep' = [sweep EXCEPT !.at = Nobody, !.sent = @ \cup {sweep.at}]
       \/ sweep' = [sweep EXCEPT !.at = Nobody]
    /\ UNCHANGED <<proof, seats, world, asks, midway, caught>>

\* The demotions are committed with the registrations as they were loaded.
SweepEnd ==
    /\ sweep.on /\ sweep.todo = {} /\ sweep.at = Nobody
    /\ reg' = [u \in Users |-> IF u \in sweep.drop THEN "ineligible" ELSE reg[u]]
    /\ sweep' = Off
    /\ caught' = [u \in Users |-> "no"]
    /\ UNCHANGED <<proof, line, waited, slipped, unheard, world, asks, midway>>

-----------------------------------------------------------------------------
Init ==
    /\ last \in 1..MaxPages
    /\ proof = [u \in Users |-> [p \in 1..MaxPages |-> "none"]]
    /\ reg = [u \in Users |-> "none"]
    /\ line = <<>>
    /\ waited = {}
    /\ waitlist \in BOOLEAN
    /\ standing = [u \in Users |-> "member"]
    /\ open = TRUE
    /\ asks = [u \in Users |-> NoPage]
    /\ midway = [u \in Users |-> 0]
    /\ sweep = Off
    /\ slipped = {}
    /\ caught = [u \in Users |-> "no"]
    /\ unheard = {}

Player(u) ==
    Start(u) \/ Upload(u) \/ FinishUpload(u) \/ Join(u) \/ ChangeStanding(u) \/ ForgetFSM(u)

Organizer ==
    \/ \E u \in Users, p \in Pages : Reject(u, p) \/ Restore(u, p)
    \/ ApproveAll \/ RejectAll \/ CloseWindow

Sweeping == SweepStart \/ (\E u \in Users : SweepCheck(u)) \/ SweepSend \/ SweepEnd

Next == (\E u \in Users : Player(u)) \/ Organizer \/ Sweeping

Spec == Init /\ [][Next]_vars

-----------------------------------------------------------------------------
(* Properties                                                              *)

TypeOK ==
    /\ last \in 1..MaxPages
    /\ proof \in [Users -> [1..MaxPages -> ProofStatus]]
    /\ reg \in [Users -> RegStatus]
    /\ line \in Seq(waited) /\ IsInjective(line)
    /\ waited \subseteq Users
    /\ waitlist \in BOOLEAN /\ open \in BOOLEAN
    /\ standing \in [Users -> {"member", "left", "banned"}]
    /\ asks \in [Users -> Pages \cup {NoPage}]
    /\ midway \in [Users -> 0..MaxUploads]
    /\ sweep \in [on : BOOLEAN, todo : SUBSET Users, at : Users \cup {Nobody},
                  drop : SUBSET Users, sent : SUBSET Users]
    /\ slipped \subseteq Users
    /\ caught \in [Users -> {"no", "before the send", "at the send"}]
    /\ unheard \subseteq Users

\* However uploads, rejections, bulk rejections and registrations interleave: a
\* player with a rejected screenshot holds no confirmed seat - unless the seat
\* came from the waitlist, which is handed on without a look at the gate.
RejectedHoldsNoSeat ==
    \A u \in Users : reg[u] = "confirmed" /\ Rejected(u) => u \in slipped

\* The password goes to a player who holds a seat and has no rejected
\* screenshot; a rejection that comes while the sweep is under way may come too
\* late for the message, or cost the seat of a player who has uploaded again.
SendsToEarners ==
    \A u \in sweep'.sent \ sweep.sent :
        \/ caught[u] = "at the send"
        \/ ~Rejected(u) /\ (reg[u] = "confirmed" \/ caught[u] = "before the send")

\* So does every step of the gate (deliver_one).
PasswordEarned == [][SendsToEarners]_vars

\* When an upload leaves no page to ask for, the bot says that the registration is
\* final.  It says so whatever became of the registration: this is what the words
\* are worth.  With the window open, the player in good standing and a seat free or
\* held, they are true but for a registration that failed or found something else
\* missing - a rejection, a bulk rejection or a second upload that came in between
\* costs nobody the seat without a page being asked for again.
LastUploadSeats ==
    \A u \in Users :
        midway'[u] < midway[u] /\ Owed(proof, u) = {} /\ open /\ standing[u] = "member"
           /\ (HasRoom \/ HasSeat(u)) => HasSeat(u)' \/ u \in unheard'

\* ... and the seat is final in this sense: nothing the player or another player
\* does, no second registration at a moment when Telegram does not answer, and no
\* promotion costs a seat or a place in line, but a rejected screenshot of the
\* player's own, or the sweep.
SeatsLast ==
    \A u \in Users :
        HasSeat(u) /\ ~HasSeat(u)' =>
            \/ \E p \in Pages : proof[u][p] # "rejected" /\ proof'[u][p] = "rejected"
            \/ sweep.on /\ u \in sweep.drop

\* So does every step of the gate (social_screenshot, register_user).
FinalMeansSeated == [][LastUploadSeats /\ SeatsLast]_vars

-----------------------------------------------------------------------------
(* Bounds for model checking: one trouble, one player busy, at a time      *)

Few ==
    LET trouble == Cardinality({u \in Users : standing[u] # "member"}) + Cardinality(unheard)
                   + (IF open THEN 0 ELSE 1)
        busy    == Cardinality({u \in Users : asks[u] # NoPage \/ midway[u] # 0})
    IN  /\ trouble <= 1
        /\ sweep.on \/ trouble = 1 => busy <= 1
        /\ sweep.on => unheard = {}
        /\ last = 2 =>
              /\ trouble = 0
              /\ Cardinality({u \in Users : reg[u] # "none" \/ asks[u] # NoPage}) <= 1
        /\ sweep.on /\ waitlist =>
              \A u \in Users : asks[u] = NoPage /\ standing[u] = "member"
=============================================================================
