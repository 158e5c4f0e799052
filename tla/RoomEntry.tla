------------------------------ MODULE RoomEntry ------------------------------
(***************************************************************************)
(* How an organizer enters the room of a custom (bot/handlers/             *)
(* organizer.py): the ROOM ID, the password, a preview, and a button that  *)
(* confirms it.  A preview keeps the pair twice: in the dialog, of which   *)
(* there is one, and in Redis under the custom, for up to 45 minutes.  The *)
(* buttons of old previews stay on the organizer's screen.                 *)
(*                                                                         *)
(* The customs are numbered by their time.  What the sender does with a    *)
(* confirmed pair is CredentialDelivery; here it is one step.              *)
(***************************************************************************)
EXTENDS Naturals, Sequences, FiniteSets

CONSTANTS Customs,      \* 1..n, by starts_at
          RoomIds, Passwords,
          MaxQueue,     \* bound: updates that wait for the connection
          MaxConfirms,  \* bound: confirmations of a custom
          Missing       \* None: of a custom, a ROOM ID, a password or a pair

EntryConstants == MaxConfirms \in Nat

VARIABLES
    state,      \* the state of the dialog
    data,       \* its data
    queue,      \* for each waiting update the state it was dispatched in
    stored,     \* for each custom the pair Redis keeps
    creds,      \* for each custom the pair committed
    custom,     \* for each custom whether its time has come, whether its window is
                \* open and whether its pair was sent
    confirms,   \* for each custom the confirmations committed
    buttons,    \* customs for which the organizer was ever sent a button to confirm
    entered,    \* history: for each custom the pair the dialog took last
    unkept      \* history: customs whose last pair Redis did not take

vars == <<state, data, queue, stored, creds, custom, confirms, buttons, entered, unkept>>

States == {"none", "room_id", "password", "confirm"}

\* An update that waits, or the rest of a confirmation of e that has committed.
Update(s) == [at |-> s, ends |-> Missing]
Finishing(e) == [at |-> "none", ends |-> e]

Pair == [room : RoomIds, pass : Passwords]

NoData == [event |-> Missing, room |-> Missing, pass |-> Missing]

Data == [event : Customs \cup {Missing}, room : RoomIds \cup {Missing},
         pass : Passwords \cup {Missing}]

Entered(r, p) == [room |-> r, pass |-> p]

\* credentials_window_open, or creds_were_provided.
MayEnter(e) == custom[e].open \/ creds[e] # Missing

Waits == queue # <<>> /\ Head(queue).ends = Missing

Turn == Waits /\ queue' = Tail(queue)

\* The update waiting longest was dispatched to the handlers of state s.
Dispatched(s) == Turn /\ Head(queue).at = s

Forget == state' = "none" /\ data' = NoData

Outside == UNCHANGED <<creds, custom, confirms>>

Kept == UNCHANGED <<stored, buttons, entered, unkept>>

-----------------------------------------------------------------------------
(* The entry                                                               *)

Arrive ==
    /\ Len(queue) < MaxQueue
    /\ queue' = Append(queue, Update(state))
    /\ UNCHANGED <<state, data>> /\ Kept /\ Outside

\* ask_live_creds: the ROOM ID of the dialog is forgotten, its password is not.
AskLiveCreds(e) ==
    /\ Turn
    /\ MayEnter(e)
    /\ state' = "room_id"
    /\ data' = [data EXCEPT !.event = e, !.room = Missing]
    /\ Kept /\ Outside

\* _offer_creds_confirm: the pair goes to the dialog, then under the custom if Redis
\* takes it - what Redis had is kept when it does not - then to the screen, and last
\* the state is set.  A message that fails, or whose answer is lost, ends the
\* handler there; one that is too late, or fails before, changes nothing.
Offer(e, pair) ==
    \/ UNCHANGED <<state, data>> /\ Kept
    \/ /\ MayEnter(e)
       /\ data' = [event |-> e, room |-> pair.room, pass |-> pair.pass]
       /\ entered' = [entered EXCEPT ![e] = pair]
       /\ \/ stored' = [stored EXCEPT ![e] = pair] /\ unkept' = unkept \ {e}
          \/ UNCHANGED stored /\ unkept' = unkept \cup {e}
       /\ \/ UNCHANGED <<buttons, state>>
          \/ buttons' = buttons \cup {e} /\ state' \in {state, "confirm"}

ReceiveRoomId(r) ==
    /\ Dispatched("room_id")
    /\ state' = "password"
    /\ data' = [data EXCEPT !.room = r]
    /\ Kept /\ Outside

\* Both in one message, in either state of the dialog that takes them.
ReceiveBoth(r, p) ==
    /\ Dispatched("room_id") \/ (Dispatched("confirm") /\ data.room # Missing /\ data.pass # Missing)
    /\ data.event # Missing
    /\ Offer(data.event, Entered(r, p))
    /\ Outside

ReceivePassword(p) ==
    /\ Dispatched("password")
    /\ data.event # Missing /\ data.room # Missing
    /\ Offer(data.event, Entered(data.room, p))
    /\ Outside

\* creds_awaiting_confirm: any other text brings the button again, for the custom
\* the dialog is at.
RemindConfirm ==
    /\ Dispatched("confirm")
    /\ data.event # Missing /\ data.room # Missing /\ data.pass # Missing
    /\ buttons' = buttons \cup {data.event}
    /\ UNCHANGED <<state, data, stored, entered, unkept>> /\ Outside

ReceivePasswordFirst ==
    /\ Dispatched("password")
    /\ data.room = Missing
    /\ state' = "room_id"
    /\ UNCHANGED data /\ Kept /\ Outside

\* The organizer is banned, the custom is not theirs or gone, or the dialog has lost
\* its data.
EntryRefused ==
    /\ Turn /\ Head(queue).at # "none"
    /\ Forget /\ Kept /\ Outside

\* waiting_live_credential_event: the first custom whose time has come and whose pair
\* was not sent.
Waiting(e) == custom[e].open /\ custom[e].due /\ ~custom[e].sent

WaitingFirst(e) == Waiting(e) /\ \A f \in Customs : Waiting(f) => e <= f

\* maybe_live_creds: digits out of the blue.
MaybeLiveCreds(e) ==
    /\ Dispatched("none")
    /\ WaitingFirst(e)
    /\ \/ \E r \in RoomIds, p \in Passwords : Offer(e, Entered(r, p))
       \/ \E r \in RoomIds :
             /\ state' = "password"
             /\ data' = [data EXCEPT !.event = e, !.room = r]
             /\ Kept
    /\ Outside

-----------------------------------------------------------------------------
(* The confirmation                                                        *)

\* A mistake for SentAsEntered to catch: the dialog alone is trusted.
LoadedFromDialog(e) == Entered(data.room, data.pass)

\* _load_pending_creds, and the dialog when Redis has nothing.
Loaded(e) ==
    IF stored[e] # Missing THEN stored[e] ELSE Entered(data.room, data.pass)

\* A button stays on the screen.
ConfirmTapped(e) == Waits /\ e \in buttons

\* confirm_creds_send without a pair, or too late; the dialog is cleared after the
\* answer.
ConfirmRefused(e) ==
    /\ ConfirmTapped(e)
    /\ Loaded(e) \notin Pair \/ ~MayEnter(e)
    /\ queue' = Tail(queue)
    /\ Forget \/ UNCHANGED <<state, data>>
    /\ Kept /\ Outside

\* _commit_creds_send: the commit lets the next update in.
Confirm(e) ==
    /\ ConfirmTapped(e)
    /\ Loaded(e) \in Pair /\ MayEnter(e)
    /\ confirms[e] < MaxConfirms
    /\ creds' = [creds EXCEPT ![e] = Loaded(e)]
    /\ confirms' = [confirms EXCEPT ![e] = @ + 1]
    /\ queue' = Append(Tail(queue), Finishing(e))
    /\ UNCHANGED <<state, data, custom>> /\ Kept

\* _clear_pending_creds, which Redis may not do.
Clear(e) ==
    /\ stored' \in {stored, [stored EXCEPT ![e] = Missing]}
    /\ UNCHANGED <<buttons, entered, unkept>>

\* The rest of the handler, unless its message fails.
ConfirmEnds(e) ==
    /\ queue # <<>> /\ Head(queue) = Finishing(e)
    /\ queue' = Tail(queue)
    /\ \/ Clear(e) /\ Forget
       \/ Kept /\ UNCHANGED <<state, data>>
    /\ Outside

\* cancel_creds_send: the button names no custom, the dialog does.
CancelSend ==
    /\ Turn
    /\ IF data.event = Missing THEN Kept ELSE Clear(data.event)
    /\ Forget /\ Outside

\* "cancel" as a text, another dialog: the dialog is cleared and nothing else.
Leave ==
    /\ Turn
    /\ Forget /\ Kept /\ Outside

-----------------------------------------------------------------------------
(* Around the entry                                                        *)

\* The 45 minutes of a pair are over, or Redis evicts it.
Expire(e) ==
    /\ stored[e] # Missing
    /\ stored' = [stored EXCEPT ![e] = Missing]
    /\ UNCHANGED <<state, data, queue, buttons, entered, unkept>> /\ Outside

\* Redis evicts the state of the dialog.
EvictState ==
    /\ state # "none" /\ state' = "none"
    /\ UNCHANGED <<data, queue>> /\ Kept /\ Outside

\* A step of the custom itself.
CustomMoves(e, c) ==
    /\ custom' = [custom EXCEPT ![e] = c]
    /\ UNCHANGED <<state, data, queue, creds, confirms>> /\ Kept

TimeComes(e) == ~custom[e].due /\ CustomMoves(e, [custom[e] EXCEPT !.due = TRUE])

\* send_event_credentials.
SendCredentials(e) ==
    /\ custom[e].due /\ creds[e] # Missing /\ ~custom[e].sent
    /\ CustomMoves(e, [custom[e] EXCEPT !.sent = TRUE])

\* org_mark_started, the archive.
CloseWindow(e) == custom[e].open /\ CustomMoves(e, [custom[e] EXCEPT !.open = FALSE])

-----------------------------------------------------------------------------
Init ==
    /\ state = "none"
    /\ data = NoData
    /\ queue = <<>>
    /\ stored = [e \in Customs |-> Missing]
    /\ creds = [e \in Customs |-> Missing]
    /\ custom = [e \in Customs |-> [due |-> FALSE, open |-> TRUE, sent |-> FALSE]]
    /\ confirms = [e \in Customs |-> 0]
    /\ buttons = {}
    /\ entered = [e \in Customs |-> Missing]
    /\ unkept = {}

Entry ==
    \/ Arrive \/ ReceivePasswordFirst \/ RemindConfirm \/ EntryRefused
    \/ \E e \in Customs : AskLiveCreds(e) \/ MaybeLiveCreds(e)
    \/ \E r \in RoomIds : ReceiveRoomId(r)
    \/ \E p \in Passwords : ReceivePassword(p)
    \/ \E r \in RoomIds, p \in Passwords : ReceiveBoth(r, p)

Confirmation ==
    \/ CancelSend \/ Leave
    \/ \E e \in Customs : ConfirmRefused(e) \/ Confirm(e) \/ ConfirmEnds(e)

Around ==
    \/ EvictState
    \/ \E e \in Customs : Expire(e) \/ TimeComes(e) \/ SendCredentials(e) \/ CloseWindow(e)

Next == Entry \/ Confirmation \/ Around

Spec == Init /\ [][Next]_vars

-----------------------------------------------------------------------------
(* Properties                                                              *)

TypeOK ==
    /\ state \in States
    /\ data \in Data
    /\ queue \in Seq([at : States, ends : Customs \cup {Missing}])
    /\ stored \in [Customs -> Pair \cup {Missing}]
    /\ creds \in [Customs -> Pair \cup {Missing}]
    /\ custom \in [Customs -> [due : BOOLEAN, open : BOOLEAN, sent : BOOLEAN]]
    /\ confirms \in [Customs -> 0..MaxConfirms]
    /\ buttons \subseteq Customs
    /\ entered \in [Customs -> Pair \cup {Missing}]
    /\ unkept \subseteq Customs

\* Whichever of the buttons on the screen is tapped, of however old a message and
\* whatever the dialog has gone on to: what it commits to its custom is the pair
\* entered last for that custom (confirm_creds_send).  That is the pair of the last
\* preview, unless sending that preview failed: then it is one never shown.  Two
\* exceptions: Redis did not take the pair, or has none and the dialog has gone on
\* to another custom or another ROOM ID, of which the button then commits what
\* there is.
CommitsTheEntered ==
    \A e \in Customs :
        confirms'[e] > confirms[e] =>
            \/ creds'[e] = entered[e]
            \/ e \in unkept
            \/ stored[e] = Missing /\ (data.event # e \/ state # "confirm")

\* So does every step of the dialog (confirm_creds_send).
SentAsEntered == [][CommitsTheEntered]_vars

-----------------------------------------------------------------------------
(* Bounds for model checking: one thing out of the ordinary                *)

Few ==
    /\ Cardinality(unkept) + Cardinality({e \in Customs : ~custom[e].open})
       + Cardinality({e \in Customs : custom[e].due}) <= IF Len(queue) = MaxQueue THEN 0 ELSE 1
    /\ Len(queue) = MaxQueue => \A e \in Customs : confirms[e] = 0
=============================================================================
