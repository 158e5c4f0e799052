---------------------------- MODULE MCComponents ----------------------------
(***************************************************************************)
(* The components around one custom that share no state in the model, in   *)
(* one instance: a behaviour is one of one component, `part`, and leaves    *)
(* the variables of the others blank.  Their sets are made of the same     *)
(* model values, so that one small group of permutations serves them all.  *)
(***************************************************************************)
EXTENDS OrganizerTrust, Sequences, TLC

CONSTANTS
    MaxPages, Capacity, BulkLimit, MaxUploads,                    \* FollowGate
    Members, Host, Admins, Runs, Batch, MaxTries, MaxDue,         \* MassMessages
    Requests, MaxSessions, MaxTokens, MaxCodes, MaxGuesses, Limit, \* AdminSessions
    Channels, MaxChannels, MaxSocial, MaxQueue, MaxWizards, MaxEvents, MaxNews,
    NoChannel,                                                    \* EventWizard
    Customs, RoomIds, Passwords, MaxConfirms, Missing,            \* RoomEntry
    Events, Global, Rows, Updates, Processes,                     \* Referrals
    EventRetention, RoomRetention, Horizon, MaxEntries, MaxVerdicts, MaxFailures,
    Never                                                         \* Retention

VARIABLES
    part,  \* the component looked at
    \* the variables of that component, in its order; of the trust score its own
    v1, v2, v3, v4, v5, v6, v7, v8, v9, v10, v11, v12, v13, v14, v15, v16, v17, v18

Gate == INSTANCE FollowGateProofs WITH
    last <- v1, proof <- v2, reg <- v3, line <- v4, waited <- v5, waitlist <- v6,
    standing <- v7, open <- v8, asks <- v9, midway <- v10, sweep <- v11,
    slipped <- v12, caught <- v13, unheard <- v14

\* The proof modules of two components hold the second one under its own name.
Mass == INSTANCE WorkerProofs WITH
    Users <- Members, kind <- v1, status <- v2, event <- v3, job <- v4, user <- v5,
    rows <- v6, regs <- v7, key <- v8, due <- v9, tries <- v10, admin <- v11, run <- v12,
    got <- v13, listed <- v14, tried <- v15, via <- v16, changed <- v17, mishaps <- v18,
    \* without reports, which nothing reads that a room is made of
    Processes <- Handlers, Reports <- {}, clock <- v1, starts <- v2, room <- v3,
    report <- v5, loop <- v7, tx <- v8, failures <- v9, moved <- v10

Admission == INSTANCE AccountProofs WITH
    MaxTries <- MaxGuesses, session <- v1, active <- v2, tokens <- v3, code <- v4,
    codes <- v5, tries <- v6, hits <- v7, ttl <- v8, req <- v9, spent <- v10,
    opened <- v11, shared <- v12, died <- v13, loose <- v14,
    links <- v1, count <- v2, ref <- v3, accepted <- v4, onboarded <- v5, tx <- v6,
    raced <- v7

Wizard == INSTANCE DialogProofs WITH
    MaxPages <- MaxSocial, state <- v1, data <- v2, queue <- v3, events <- v4,
    news <- v5, wizards <- v6, outrun <- v7, twice <- v8,
    stored <- v4, creds <- v5, custom <- v6, confirms <- v7, buttons <- v8, entered <- v9, unkept <- v10

ASSUME GateOfInstance == Gate!GateConstants

ASSUME MassOfInstance == Mass!MassConstants

ASSUME AdmissionOfInstance == Admission!AdmissionConstants

ASSUME InvitesOfInstance == Admission!Invites!ReferralConstants

ASSUME WizardOfInstance == Wizard!WizardConstants

ASSUME EntryOfInstance == Wizard!Entry!EntryConstants

ASSUME RetentionOfInstance == Mass!Purges!RetentionConstants

-----------------------------------------------------------------------------
(* One component at a time                                                 *)

\* The variables a component has no use for.
From15 == v15 = 0 /\ v16 = 0 /\ v17 = 0 /\ v18 = 0
From11 == v11 = 0 /\ v12 = 0 /\ v13 = 0 /\ v14 = 0 /\ From15
From10 == v10 = 0 /\ From11
From8  == v8 = 0 /\ v9 = 0 /\ From10
All18  == v1 = 0 /\ v2 = 0 /\ v3 = 0 /\ v4 = 0 /\ v5 = 0 /\ v6 = 0 /\ v7 = 0 /\ From8

InitOfPart ==
    /\ Init
    /\ \/ part = "trust" /\ All18
       \/ part = "gate" /\ Gate!Init /\ From15
       \/ part = "mass" /\ Mass!Init
       \/ part = "admission" /\ Admission!Init /\ From15
       \/ part = "wizard" /\ Wizard!Init /\ v9 = 0 /\ From10
       \/ part = "entry" /\ Wizard!Entry!Init /\ From11
       \/ part = "invites" /\ Admission!Invites!Init /\ From8
       \/ part = "retention" /\ Mass!Purges!Init /\ From11

from15 == <<v15, v16, v17, v18>>
from11 == <<v11, v12, v13, v14, from15>>
from10 == <<v10, from11>>
from8  == <<v8, v9, from10>>
all18  == <<v1, v2, v3, v4, v5, v6, v7, from8>>

allVars == <<part, vars, all18>>

Another ==
    \/ part = "gate" /\ Gate!Next /\ UNCHANGED from15
    \/ part = "mass" /\ Mass!Next
    \/ part = "admission" /\ Admission!Next /\ UNCHANGED from15
    \/ part = "wizard" /\ Wizard!Next /\ UNCHANGED <<v9, from10>>
    \/ part = "entry" /\ Wizard!Entry!Next /\ UNCHANGED from11
    \/ part = "invites" /\ Admission!Invites!Next /\ UNCHANGED from8
    \/ part = "retention" /\ Mass!Purges!Next /\ UNCHANGED from11

NextOfPart ==
    \/ part = "trust" /\ Next /\ UNCHANGED <<part, all18>>
    \/ Another /\ UNCHANGED <<part, vars>>

SpecOfPart == InitOfPart /\ [][NextOfPart]_allVars

-----------------------------------------------------------------------------
(* The bounds: few people, and few troubles at once                        *)

Symmetry ==
    {f @@ g @@ h : f \in Permutations(Users), g \in Permutations(Handlers),
                   h \in Permutations(Reports)}

FewDeeds ==
    LET about == Cardinality({u \in Users : claim[u] # "none"}) + Cardinality(reviewed)
                 + Cardinality({r \in Reports : report[r] # NoReport})
    IN  /\ about <= 2
        /\ \A r \in Reports : report[r].status \notin {"rejected", "in_review"}
        /\ Cardinality(reviewed) <= 1
        /\ standing = "rejected" => deeds = 0 /\ about <= 1
        /\ (\E r \in Reports : report[r].status = "closed") => deeds <= 1
        /\ deeds = 3 => about <= 1 /\ (overlapped => raced # {})
        /\ Cardinality({s \in Sessions : tx[s] # Idle /\ ~Holding(s)}) <= 1

Few ==
    /\ part = "trust" => FewDeeds
    /\ part = "gate" => Gate!Few
    /\ part = "mass" => Mass!Few
    /\ part = "admission" => Admission!Few
    /\ part = "wizard" => Wizard!Few
    /\ part = "entry" => Wizard!Entry!Few
    /\ part = "invites" => Admission!Invites!Few
    /\ part = "retention" => Mass!Purges!Few

-----------------------------------------------------------------------------
(* The properties, as the components state them                            *)

\* Every variable of the part looked at has its type.
EveryTypeOK ==
    /\ part = "trust" => TypeOK
    /\ part = "gate" => Gate!TypeOK
    /\ part = "mass" => Mass!TypeOK
    /\ part = "admission" => Admission!TypeOK
    /\ part = "wizard" => Wizard!TypeOK
    /\ part = "entry" => Wizard!Entry!TypeOK
    /\ part = "invites" => Admission!Invites!TypeOK
    /\ part = "retention" => Mass!Purges!TypeOK

\* A player with a rejected screenshot holds no seat but one handed on from the
\* waitlist (_resolve_social, org_social_all_no, register_user).
RejectedHoldsNoSeat == part = "gate" => Gate!RejectedHoldsNoSeat

\* The password goes to who has a seat and no rejected screenshot (deliver_one).
PasswordEarned == [][part = "gate" => Gate!SendsToEarners]_allVars

\* "Registered" after the last upload means a seat, but for a registration that
\* failed or found something else missing; and the seat stays (social_screenshot).
FinalMeansSeated == [][part = "gate" => Gate!LastUploadSeats /\ Gate!SeatsLast]_allVars

\* Nobody gets a message to everybody twice (run_broadcast, the Redis keys).
OnlyOnce == part = "mass" => Mass!OnlyOnce

\* A campaign that is done has a row for everybody (run_broadcast).
DoneReachesAll == part = "mass" => Mass!DoneReachesAll

\* A campaign confirmed over the API is sent (confirm_broadcast).
ConfirmedStarts == part = "mass" => Mass!ConfirmedStarts

\* A reminder that is done has been tried for everybody (_send_reminders).
ReminderReaches == part = "mass" => Mass!ReminderReaches

\* A session grants a refresh token one trade, and a token made without a session
\* none; a one-time code serves once (refresh_tokens, verify_otp).
UsedOnce == part = "admission" => Admission!UsedOnce

\* Who is turned away is let in again (hit_rate_limit).
LimiterRecovers == part = "admission" => Admission!LimiterRecovers

\* A custom asks for the channel it is shown with (_publish_custom, create_event).
GatedByOwnChannel == part = "wizard" => Wizard!GatedByOwnChannel

\* A custom's page and its pages to follow come together (_finish_social_step).
FollowInSync == part = "wizard" => Wizard!FollowInSync

\* A dialog makes one custom, or one announcement (_publish_custom, ann_finish).
OncePerWizard == part = "wizard" => Wizard!OncePerWizard

\* A confirmation commits the pair last entered for the custom (confirm_creds_send).
SentAsEntered == [][part = "entry" => Wizard!Entry!CommitsTheEntered]_allVars

\* The counter of a link matches its rows (validate_pending_referrals).
CountIsRows == part = "invites" => Admission!Invites!CountIsRows

\* What counts as a room was not blanked (purge_old_credentials, update_credentials).
PurgedIsMarked == part = "retention" => Mass!Purges!PurgedIsMarked

\* Only an old custom is deleted (purge_old_events).
OnlyThePastGoes == [][part = "retention" => Mass!Purges!GoesWhenOld]_allVars
=============================================================================
