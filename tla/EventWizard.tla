----------------------------- MODULE EventWizard -----------------------------
(***************************************************************************)
(* The dialogs in which an organizer registers a custom, repeats one       *)
(* (bot/handlers/organizer.py) or announces one elsewhere                  *)
(* (bot/handlers/announce.py), and what they make of it                    *)
(* (services/events.py, social.py, announcements.py).  The state and the   *)
(* data of a dialog are two keys in Redis.  An update is dispatched by the *)
(* state it finds on arrival, then waits for the only database connection; *)
(* its handler runs when those before it have released theirs, on whatever *)
(* state and data they left.                                               *)
(***************************************************************************)
EXTENDS Naturals, SequencesExt

CONSTANTS Channels,     \* the channels of the organizer
          MaxChannels,  \* max_required_channels_per_event
          MaxPages,     \* MAX_SOCIAL_TASKS
          MaxQueue,     \* bound: updates that wait for the connection
          MaxWizards,   \* bound: dialogs begun
          MaxEvents,    \* bound: customs
          MaxNews,      \* max_announcements_per_day
          NoChannel     \* no channel

WizardConstants ==
    /\ MaxPages \in Nat /\ MaxWizards \in Nat /\ MaxEvents \in Nat /\ MaxNews \in Nat
    /\ NoChannel \notin Channels

VARIABLES
    state,    \* the state of the dialog
    data,     \* its data
    queue,    \* for each waiting update the state it was dispatched in
    events,   \* the customs registered, in order
    news,     \* the announcements not deleted: the dialog each was made in
    wizards,  \* dialogs begun
    outrun,   \* history: states whose updates were handled in another state
    twice     \* history: dialogs whose organizer was told to try again, or that
              \* were handled between the publication and the end of the dialog

vars == <<state, data, queue, events, news, wizards, outrun, twice>>

States == {"none", "starts_at", "starts_time", "channel", "extra", "prizes", "payout",
           "social", "description", "banner", "day", "time",
           "link", "news_day", "news_time", "preview"}

\* A publication that has committed and waits to clear the state.
Clearing == "clearing"

NoData == [picked |-> FALSE, starts |-> FALSE, ids |-> {}, channel |-> NoChannel,
           prize |-> FALSE, pages |-> 0, url |-> FALSE, source |-> 0,
           link |-> FALSE, wizard |-> 0]

Data == [picked : BOOLEAN, starts : BOOLEAN, ids : SUBSET Channels,
         channel : Channels \cup {NoChannel}, prize : BOOLEAN, pages : 0..MaxPages,
         url : BOOLEAN, source : 0..MaxEvents, link : BOOLEAN, wizard : 0..MaxWizards]

\* What create_event keeps of it.
Event == [ids : SUBSET Channels, channel : Channels, pages : 0..MaxPages, url : BOOLEAN,
          wizard : 0..MaxWizards]

-----------------------------------------------------------------------------
(* Updates                                                                 *)

\* An update arrives and is dispatched.
Arrive ==
    /\ Len(queue) < MaxQueue
    /\ queue' = Append(queue, state)
    /\ UNCHANGED <<state, data, events, news, wizards, outrun, twice>>

\* The first update in line is handled.
Turn ==
    /\ queue # <<>> /\ Head(queue) # Clearing
    /\ queue' = Tail(queue)

\* It was dispatched to the handlers of state s.
Dispatched(s) ==
    /\ Turn
    /\ Head(queue) = s
    /\ outrun' = IF state = s THEN outrun ELSE outrun \cup {s}

\* It is a button that any state answers; the handler looks at the state itself.
Button == Turn /\ UNCHANGED outrun

Goto(s) == state' = s

OnlyData == UNCHANGED <<events, news, wizards, twice>>

-----------------------------------------------------------------------------
(* The steps of the dialog                                                 *)

\* start_org, from the menu, a command or the panel.
StartOrg ==
    /\ Button
    /\ wizards < MaxWizards
    /\ wizards' = wizards + 1
    /\ Goto("starts_at")
    /\ data' = [NoData EXCEPT !.wizard = wizards + 1]
    /\ UNCHANGED <<events, news, twice>>

\* cancel_wiz, MenuResetMiddleware.
CancelWiz ==
    /\ Button
    /\ Goto("none")
    /\ data' = NoData
    /\ OnlyData

WizPickDate ==
    /\ Dispatched("starts_at")
    /\ data' = [data EXCEPT !.picked = TRUE]
    /\ Goto("starts_time")
    /\ OnlyData

\* The time; the channels chosen so far are forgotten, the first of them is not.
WizStarts ==
    /\ Dispatched("starts_time")
    /\ IF ~data.picked THEN Goto("starts_at") /\ UNCHANGED data
       ELSE /\ data' = [data EXCEPT !.starts = TRUE, !.ids = {}]
            /\ Goto("channel")
    /\ OnlyData

\* _attach_wizard_channel: the limit holds from the second channel on.
Attach(c, extra) ==
    IF extra /\ Cardinality(data.ids) >= MaxChannels /\ c \notin data.ids
    THEN UNCHANGED <<state, data>>
    ELSE /\ data' = [data EXCEPT !.ids = @ \cup {c},
                                 !.channel = IF @ = NoChannel THEN c ELSE @]
         /\ IF extra THEN UNCHANGED state ELSE Goto("extra")

WizChannel(c) ==
    /\ Dispatched("channel")
    /\ Attach(c, FALSE)
    /\ OnlyData

WizExtra(c) ==
    /\ Dispatched("extra")
    /\ Cardinality(data.ids) < MaxChannels
    /\ Attach(c, TRUE)
    /\ OnlyData

\* wiz_pick_owned_channel, bot_added_as_channel_admin.
PickOwnedChannel(c) ==
    /\ Button
    /\ state \in {"channel", "extra"}
    /\ Attach(c, state = "extra")
    /\ OnlyData

\* "-" in the channel step, or the button under it.
ChannelsDone ==
    /\ Dispatched("extra") \/ (Button /\ state \in {"channel", "extra"})
    /\ data.ids # {}
    /\ Goto("prizes")
    /\ UNCHANGED data
    /\ OnlyData

WizPrize ==
    /\ Dispatched("prizes")
    /\ data' = [data EXCEPT !.prize = TRUE]
    /\ Goto("payout")
    /\ OnlyData

\* wiz_payout, wiz_payout_shortcut: _apply_payout, and on to _ask_social.
WizPayout ==
    /\ Dispatched("payout")
    /\ data' = [data EXCEPT !.pages = 0]
    /\ Goto("social")
    /\ OnlyData

WizSocial ==
    /\ Dispatched("social")
    /\ data.pages < MaxPages
    /\ data' = [data EXCEPT !.pages = @ + 1]
    /\ UNCHANGED state
    /\ OnlyData

\* A mistake for FollowInSync to catch: without pages the page of the custom stays.
FinishKeepsUrl(pages) ==
    /\ data' = [data EXCEPT !.pages = pages, !.url = (@ \/ pages > 0)]
    /\ Goto("description")

\* _finish_social_step: the first page becomes the custom's own.
FinishSocial(pages) ==
    /\ data' = [data EXCEPT !.pages = pages, !.url = (pages > 0)]
    /\ Goto("description")

\* wiz_social with "done", wiz_social_done.
WizSocialDone ==
    /\ Dispatched("social")
    /\ FinishSocial(data.pages)
    /\ OnlyData

WizDescription ==
    /\ Dispatched("description")
    /\ Goto("banner")
    /\ UNCHANGED data
    /\ OnlyData

\* A mistake for GatedByOwnChannel to catch: the list goes, the first channel stays.
ForgetList == data' = [data EXCEPT !.ids = {}]

ForgetChannels == data' = [data EXCEPT !.ids = {}, !.channel = NoChannel]

\* wiz_back, by the state it finds.
WizBack ==
    /\ Button
    /\ \/ state = "starts_time" /\ Goto("starts_at") /\ UNCHANGED data
       \/ /\ state \in {"channel", "extra"}
          /\ ForgetChannels
          /\ Goto("starts_at")
       \/ state = "prizes" /\ Goto("extra") /\ UNCHANGED data
       \/ state = "payout" /\ Goto("prizes") /\ UNCHANGED data
       \/ state = "social" /\ Goto("payout") /\ data' = [data EXCEPT !.pages = 0]
       \/ state = "description" /\ Goto("social") /\ data' = [data EXCEPT !.pages = 0]
       \/ state = "banner" /\ Goto("description") /\ UNCHANGED data
    /\ OnlyData

\* wiz_skip, likewise.
WizSkip ==
    /\ Button
    /\ \/ state = "social" /\ FinishSocial(0)
       \/ state = "description" /\ Goto("banner") /\ UNCHANGED data
    /\ OnlyData

-----------------------------------------------------------------------------
(* The end of the dialog                                                   *)

\* A photo in the last step, or its skip button.
Publishing == Dispatched("banner") \/ (Button /\ state = "banner")

\* _publish_custom without a prize asks for one.
PublishPrizeless ==
    /\ Publishing
    /\ ~data.prize
    /\ Goto("prizes")
    /\ UNCHANGED data
    /\ OnlyData

\* create_event and submit_for_publish, from the data of the dialog.
Created ==
    /\ data.prize /\ data.starts /\ data.channel # NoChannel
    /\ Len(events) < MaxEvents
    /\ events' = Append(events, [ids |-> data.ids, channel |-> data.channel,
                                 pages |-> data.pages, url |-> data.url,
                                 wizard |-> data.wizard])

\* Somebody may find the dialog as it was, although the custom is there.
Reopened == twice' = twice \cup {data.wizard}

\* No time, no channel, the quota, a time that has passed: nothing is created and
\* the dialog stays where it is.
PublishRefused ==
    /\ Publishing
    /\ UNCHANGED <<state, data>>
    /\ OnlyData

\* A mistake for OncePerWizard to catch: the dialog stays in its last step.
PendingStays ==
    /\ Publishing
    /\ Created
    /\ UNCHANGED <<state, data, news, wizards, twice>>

\* The custom waits for an admin; the dialog is over with the same commit.
PublishPending ==
    /\ Publishing
    /\ Created
    /\ Goto("none") /\ data' = NoData
    /\ UNCHANGED <<news, wizards, twice>>

\* The custom is published and committed, which lets the next update in before
\* the menu is looked up and the state cleared.
PublishCommitted ==
    /\ queue # <<>>
    /\ \/ Head(queue) = "banner" /\ outrun' = IF state = "banner" THEN outrun
                                              ELSE outrun \cup {"banner"}
       \/ Head(queue) # Clearing /\ state = "banner" /\ UNCHANGED outrun
    /\ Created
    /\ queue' = Append(Tail(queue), Clearing)
    /\ twice' = IF Tail(queue) # <<>> THEN twice \cup {data.wizard} ELSE twice
    /\ UNCHANGED <<state, data, news, wizards>>

\* A message to the organizer fails: the bot says that nothing was registered and
\* returns, and the middleware commits the custom.
PublishMisreported ==
    /\ Publishing
    /\ Created
    /\ Reopened
    /\ UNCHANGED <<state, data, news, wizards>>

\* state.clear at the end of the publication.
ClearAfter ==
    /\ queue # <<>> /\ Head(queue) = Clearing
    /\ queue' = Tail(queue)
    /\ Goto("none") /\ data' = NoData
    /\ UNCHANGED <<events, news, wizards, outrun, twice>>

-----------------------------------------------------------------------------
(* Repeating a custom                                                      *)

\* org_repeat_start.
RepeatStart(i) ==
    /\ Button
    /\ i \in DOMAIN events
    /\ wizards < MaxWizards
    /\ wizards' = wizards + 1
    /\ Goto("day")
    /\ data' = [NoData EXCEPT !.source = i, !.wizard = wizards + 1]
    /\ UNCHANGED <<events, news, twice>>

RepeatDay ==
    /\ Dispatched("day")
    /\ data' = [data EXCEPT !.picked = TRUE]
    /\ Goto("time")
    /\ OnlyData

\* No day, no source, or the source is not there any more.
RepeatLost ==
    /\ Dispatched("time")
    /\ Goto("none") /\ data' = NoData
    /\ OnlyData

\* No time, a time that has passed, the quota, a failure: the dialog stays.
RepeatRefused ==
    /\ Dispatched("time")
    /\ data.picked /\ data.source # 0
    /\ UNCHANGED <<state, data>>
    /\ OnlyData

\* repeat_event: the copy has what the source has, and is committed before the
\* state is cleared.
RepeatCommitted ==
    /\ queue # <<>> /\ Head(queue) = "time"
    /\ outrun' = IF state = "time" THEN outrun ELSE outrun \cup {"time"}
    /\ data.picked /\ data.source # 0
    /\ Len(events) < MaxEvents
    /\ events' = Append(events, [events[data.source] EXCEPT !.wizard = data.wizard])
    /\ queue' = Append(Tail(queue), Clearing)
    /\ twice' = IF Tail(queue) # <<>> THEN twice \cup {data.wizard} ELSE twice
    /\ UNCHANGED <<state, data, news, wizards>>

-----------------------------------------------------------------------------
(* Announcing a custom that is played elsewhere                            *)

\* start_ann: whatever data an earlier dialog has left stays.
StartAnn ==
    /\ Button
    /\ wizards < MaxWizards
    /\ wizards' = wizards + 1
    /\ Goto("link")
    /\ data' = [data EXCEPT !.wizard = wizards + 1]
    /\ UNCHANGED <<events, news, twice>>

AnnLink ==
    /\ Dispatched("link")
    /\ data' = [data EXCEPT !.link = TRUE]
    /\ Goto("news_day")
    /\ OnlyData

AnnPickDate ==
    /\ Dispatched("news_day")
    /\ data' = [data EXCEPT !.picked = TRUE]
    /\ Goto("news_time")
    /\ OnlyData

AnnTime ==
    /\ Dispatched("news_time")
    /\ IF ~data.picked THEN Goto("news_day") /\ UNCHANGED data
       ELSE data' = [data EXCEPT !.starts = TRUE] /\ Goto("preview")
    /\ OnlyData

\* create_announcement refuses: the quota, a time that has passed, no link.
AnnRefused ==
    /\ Dispatched("preview")
    /\ data.starts
    /\ UNCHANGED <<state, data>>
    /\ OnlyData

\* There is no time in the data: the dialog is over.
AnnBroken ==
    /\ Dispatched("preview")
    /\ ~data.starts
    /\ Goto("none") /\ data' = NoData
    /\ OnlyData

\* The announcement is made and the state cleared; the middleware commits.
AnnFinish ==
    /\ Dispatched("preview")
    /\ data.starts /\ data.link /\ Len(news) < MaxNews
    /\ news' = Append(news, data.wizard)
    /\ Goto("none") /\ data' = NoData
    /\ UNCHANGED <<events, wizards, twice>>

\* delete_own_announcement.  One that an admin hides stays, and counts to the quota.
AnnDelete(i) ==
    /\ Button
    /\ i \in DOMAIN news
    /\ news' = RemoveAt(news, i)
    /\ UNCHANGED <<state, data, events, wizards, twice>>

-----------------------------------------------------------------------------
(* Redis evicts the state, or the data, of a dialog.                       *)

EvictState ==
    /\ state # "none"
    /\ Goto("none")
    /\ UNCHANGED <<data, queue, events, news, wizards, outrun, twice>>

EvictData ==
    /\ data # NoData
    /\ data' = NoData
    /\ UNCHANGED <<state, queue, events, news, wizards, outrun, twice>>

-----------------------------------------------------------------------------
Init ==
    /\ state = "none"
    /\ data = NoData
    /\ queue = <<>>
    /\ events = <<>>
    /\ news = <<>>
    /\ wizards = 0
    /\ outrun = {}
    /\ twice = {}

Step ==
    \/ StartOrg \/ CancelWiz \/ WizPickDate \/ WizStarts \/ ChannelsDone \/ WizPrize
    \/ WizPayout \/ WizSocial \/ WizSocialDone \/ WizDescription \/ WizBack \/ WizSkip
    \/ \E c \in Channels : WizChannel(c) \/ WizExtra(c) \/ PickOwnedChannel(c)

Publish ==
    \/ PublishPrizeless \/ PublishRefused \/ PublishPending \/ PublishCommitted
    \/ PublishMisreported \/ ClearAfter

Repeat ==
    \/ \E i \in 1..MaxEvents : RepeatStart(i)
    \/ RepeatDay \/ RepeatLost \/ RepeatRefused \/ RepeatCommitted

Announce ==
    \/ StartAnn \/ AnnLink \/ AnnPickDate \/ AnnTime \/ AnnRefused \/ AnnBroken \/ AnnFinish
    \/ \E i \in 1..MaxNews : AnnDelete(i)

Next == Arrive \/ Step \/ Publish \/ Repeat \/ Announce \/ EvictState \/ EvictData

Spec == Init /\ [][Next]_vars

-----------------------------------------------------------------------------
(* Properties                                                              *)

TypeOK ==
    /\ state \in States
    /\ data \in Data
    /\ queue \in Seq(States \cup {Clearing})
    /\ events \in Seq(Event) /\ Len(events) <= MaxEvents
    /\ news \in Seq(0..MaxWizards) /\ Len(news) <= MaxNews
    /\ wizards \in 0..MaxWizards
    /\ outrun \subseteq States
    /\ twice \subseteq 0..MaxWizards

Registered == {events[i] : i \in DOMAIN events}

\* A custom always asks for a channel, and the channel it is shown with is one of
\* those it asks for (create_event takes the two from separate fields of the
\* dialog), unless a time or a channel was handled after the dialog had moved on.
GatedByOwnChannel ==
    outrun \cap {"starts_at", "starts_time", "channel", "extra"} = {} =>
        \A e \in Registered : e.channel \in e.ids

\* The page a custom names as its own and its list of pages to follow come and go
\* together (seed_tasks keeps them in step), unless a page, a description or the
\* last photo was handled when the step of the pages was over, or had begun again.
FollowInSync ==
    outrun \cap {"social", "description", "banner"} = {} =>
        \A e \in Registered : (e.pages > 0) = e.url

\* A dialog makes one custom, however often its last step is sent, unless the bot
\* itself asked for another try or somebody was waiting when it committed (0: what
\* is answered after Redis evicted the data, or a dialog was over).  It makes one
\* announcement, whoever was waiting: there the state is cleared before the commit.
OncePerWizard ==
    /\ \A i, j \in DOMAIN events :
        i # j => events[i].wizard # events[j].wizard \/ events[i].wizard \in twice \cup {0}
    /\ \A i, j \in DOMAIN news : i # j => news[i] # news[j] \/ news[i] = 0

-----------------------------------------------------------------------------
(* Bounds for model checking: one update out of turn, and a second dialog  *)
(* that repeats or announces                                               *)

Few ==
    /\ Cardinality(outrun) + Cardinality(twice) <= 1
    /\ outrun # {} => events = <<>>
    /\ Len(queue) = 2 =>
          /\ wizards <= 1 /\ outrun = {} /\ Len(events) <= 1 /\ news = <<>>
          /\ state \in {"none", "starts_time", "channel", "social", "description", "banner", "time"}
    /\ wizards = 2 =>
          /\ outrun = {} /\ twice = {}
          /\ state \in {"none", "day", "time", "link", "news_day", "news_time", "preview"}
    /\ Len(events) = 2 => wizards = 2 \/ events[2].wizard = events[1].wizard
    /\ Len(events) = 3 => wizards = 2
    /\ news # <<>> => events = <<>>
=============================================================================
