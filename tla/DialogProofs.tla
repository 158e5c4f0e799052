---------------------------- MODULE DialogProofs ----------------------------
(***************************************************************************)
(* Theorems about the two dialogs of an organizer: EventWizard, for any    *)
(* channels and any bounds, and RoomEntry, for any customs, ROOM IDs and   *)
(* passwords.  Both keep the state of the dialog in `state`, its data in   *)
(* `data` and the waiting updates in `queue`.                              *)
(***************************************************************************)
EXTENDS EventWizard, SequenceTheorems, TLAPS

CONSTANTS Customs, RoomIds, Passwords, MaxConfirms, Missing

VARIABLES stored, creds, custom, confirms, buttons, entered, unkept

Entry == INSTANCE RoomEntry

-----------------------------------------------------------------------------
(* The inductive invariant                                                 *)

Gates == {"starts_at", "starts_time", "channel", "extra"}

Pages == {"social", "description", "banner"}

\* The first channel of the dialog is one of its list, which is empty before the
\* time is known.
ChannelsAgree ==
    outrun \cap Gates = {} =>
        /\ data.channel \in data.ids \/ (data.channel = NoChannel /\ data.ids = {})
        /\ state \in {"starts_at", "starts_time"} => data.channel = NoChannel /\ data.ids = {}

\* After the step of the pages the custom's own page goes with the list.
PagesAgree ==
    outrun \cap Pages = {} =>
        (state \in {"description", "banner"} => (data.pages > 0) = data.url)

\* Dialogs are numbered as they begin.
Numbered ==
    /\ data.wizard <= wizards
    /\ \A i \in DOMAIN events : events[i].wizard <= wizards
    /\ \A i \in DOMAIN news : news[i] <= wizards

\* A dialog that has made its custom is about to be cleared; one that has made its
\* announcement is cleared.
Spent ==
    /\ \A i \in DOMAIN events : events[i].wizard = data.wizard =>
          \/ data.wizard \in twice \cup {0}
          \/ queue # <<>> /\ Head(queue) = Clearing
    /\ \A i \in DOMAIN news : news[i] = data.wizard => data.wizard = 0

\* A custom that is repeated is there.
SourceThere == data.source <= Len(events)

IInv ==
    /\ TypeOK /\ SourceThere /\ ChannelsAgree /\ PagesAgree /\ Numbered /\ Spent
    /\ GatedByOwnChannel /\ FollowInSync /\ OncePerWizard

-----------------------------------------------------------------------------
(* What a step makes                                                       *)

\* The custom a dialog registers, and the copy of one.
Fresh == [ids |-> data.ids, channel |-> data.channel, pages |-> data.pages, url |-> data.url,
          wizard |-> data.wizard]

Copy == [events[data.source] EXCEPT !.wizard = data.wizard]

\* A step that registers a custom registers that of the dialog, or a copy, and then the
\* dialog is over, about to be cleared, or known to be seen again.
LEMMA Outcome ==
    ASSUME TypeOK, Next, events' # events
    PROVE  /\ Len(events) < MaxEvents
           /\ \/ events' = Append(events, Fresh) /\ data.channel # NoChannel
                 /\ \/ state = "banner" \/ "banner" \in outrun'
              \/ events' = Append(events, Copy) /\ data.source # 0
           /\ UNCHANGED <<news, wizards>> /\ outrun \subseteq outrun'
           /\ queue # <<>> /\ Head(queue) # Clearing
           /\ \/ data' = NoData /\ state' = "none"
              \/ /\ UNCHANGED <<data, state>>
                 /\ data.wizard \in twice' \/ queue' = Append(<<>>, Clearing)
<1>1. ~Arrive /\ ~EvictState /\ ~EvictData
  BY DEF Arrive, EvictState, EvictData
<1>2. ~Step
  BY DEF Step, StartOrg, CancelWiz, WizPickDate, WizStarts, ChannelsDone, WizPrize, WizPayout,
     WizSocial, WizSocialDone, WizDescription, WizBack, WizSkip, WizChannel, WizExtra,
     PickOwnedChannel, OnlyData
<1>3. ~Announce
  BY DEF Announce, StartAnn, AnnLink, AnnPickDate, AnnTime, AnnRefused, AnnBroken, AnnFinish,
     AnnDelete, OnlyData
<1>4. CASE Publish
  <2>1. ~PublishPrizeless /\ ~PublishRefused /\ ~ClearAfter
    BY DEF PublishPrizeless, PublishRefused, ClearAfter, OnlyData
  <2>2. Created /\ UNCHANGED <<news, wizards>>
    BY <1>4, <2>1 DEF Publish, PublishPending, PublishCommitted, PublishMisreported
  <2>3. (state = "banner" \/ "banner" \in outrun') /\ outrun \subseteq outrun'
    BY <1>4, <2>1 DEF Publish, PublishPending, PublishCommitted, PublishMisreported, Publishing,
       Dispatched, Button
  <2>4. /\ queue # <<>> /\ Head(queue) # Clearing
        /\ \/ data' = NoData /\ state' = "none"
           \/ /\ UNCHANGED <<data, state>>
              /\ data.wizard \in twice' \/ queue' = Append(<<>>, Clearing)
    <3>1. CASE PublishPending
      BY <3>1 DEF PublishPending, Publishing, Dispatched, Button, Turn, Goto
    <3>2. CASE PublishCommitted
      <4>1. "banner" # Clearing
        BY DEF Clearing
      <4> QED
        BY <3>2, <4>1 DEF PublishCommitted
    <3>3. CASE PublishMisreported
      BY <3>3 DEF PublishMisreported, Publishing, Dispatched, Button, Turn, Reopened
    <3> QED
      BY <1>4, <2>1, <3>1, <3>2, <3>3 DEF Publish
  <2> QED
    BY <2>2, <2>3, <2>4 DEF Created, Fresh
<1>5. CASE Repeat
  <2>1. RepeatCommitted
    BY <1>5 DEF Repeat, RepeatStart, RepeatDay, RepeatLost, RepeatRefused, OnlyData
  <2>2. "time" # Clearing
    BY DEF Clearing
  <2> QED
    BY <2>1, <2>2 DEF RepeatCommitted, Copy
<1> QED
  BY <1>1, <1>2, <1>3, <1>4, <1>5 DEF Next

\* Nothing is forgotten of what was handled out of turn.
LEMMA Grows == ASSUME Next PROVE outrun \subseteq outrun' /\ twice \subseteq twice'
<1>1. ASSUME NEW s, Dispatched(s) \/ Button PROVE outrun \subseteq outrun'
  BY <1>1 DEF Dispatched, Button
<1>2. CASE Arrive \/ EvictState \/ EvictData
  BY <1>2 DEF Arrive, EvictState, EvictData
<1>3. CASE Step
  BY <1>1, <1>3 DEF Step, StartOrg, CancelWiz, WizPickDate, WizStarts, ChannelsDone, WizPrize,
     WizPayout, WizSocial, WizSocialDone, WizDescription, WizBack, WizSkip, WizChannel,
     WizExtra,
     PickOwnedChannel, OnlyData
<1>4. CASE Announce
  BY <1>1, <1>4 DEF Announce, StartAnn, AnnLink, AnnPickDate, AnnTime, AnnRefused, AnnBroken,
     AnnFinish, AnnDelete, OnlyData
<1>5. CASE Publish
  BY <1>1, <1>5 DEF Publish, PublishPrizeless, PublishRefused, PublishPending, PublishCommitted,
     PublishMisreported, Reopened, Publishing, ClearAfter, OnlyData
<1>6. CASE Repeat
  BY <1>1, <1>6 DEF Repeat, RepeatStart, RepeatDay, RepeatLost, RepeatRefused, RepeatCommitted,
     OnlyData
<1> QED
  BY <1>2, <1>3, <1>4, <1>5, <1>6 DEF Next

-----------------------------------------------------------------------------
(* Types                                                                   *)

LEMMA InitInv == ASSUME WizardConstants, Init PROVE IInv
<1>1. NoData \in Data
  BY DEF NoData, Data, WizardConstants
<1>2. TypeOK
  <2>1. /\ state \in States /\ outrun \subseteq States /\ twice \subseteq 0..MaxWizards
        /\ wizards \in 0..MaxWizards /\ data \in Data
    BY <1>1 DEF Init, States, WizardConstants
  <2>2. /\ queue \in Seq(States \cup {Clearing}) /\ events \in Seq(Event) /\ news \in Seq(0..MaxWizards)
        /\ Len(events) = 0 /\ Len(news) = 0
    BY DEF Init
  <2> QED
    BY <2>1, <2>2 DEF TypeOK, WizardConstants
<1>3. SourceThere /\ Numbered /\ Spent /\ OncePerWizard
  BY DEF Init, SourceThere, Numbered, Spent, OncePerWizard, NoData
<1>4. ChannelsAgree /\ PagesAgree
  BY DEF Init, ChannelsAgree, PagesAgree, NoData
<1>5. GatedByOwnChannel /\ FollowInSync
  BY DEF Init, GatedByOwnChannel, FollowInSync, Registered
<1> QED
  BY <1>2, <1>3, <1>4, <1>5 DEF IInv

\* The dialog.
LEMMA DataTyped == ASSUME WizardConstants, TypeOK, Next PROVE data' \in Data /\ state' \in States
<1>1. data \in Data /\ state \in States /\ wizards \in 0..MaxWizards /\ NoData \in Data
  BY DEF TypeOK, NoData, Data, WizardConstants
<1>0. 0 \in 0..MaxPages
  BY DEF WizardConstants
<1>2. CASE Arrive \/ EvictState \/ EvictData
  BY <1>1, <1>2 DEF Arrive, EvictState, EvictData, Goto, States
<1>3. CASE StartOrg
  BY <1>1, <1>3 DEF StartOrg, Goto, States, Data, WizardConstants
<1>4. CASE CancelWiz \/ WizPickDate \/ WizStarts \/ ChannelsDone \/ WizPrize \/ WizDescription
  BY <1>1, <1>4 DEF CancelWiz, WizPickDate, WizStarts, ChannelsDone, WizPrize, WizDescription,
     Goto, States, Data
<1>5. CASE WizPayout \/ WizSocial \/ WizSocialDone \/ WizSkip
  <2>1. CASE WizPayout
    BY <1>1, <2>1, <1>0 DEF WizPayout, Goto, States, Data
  <2>2. CASE WizSocial
    BY <1>1, <2>2, <1>0 DEF WizSocial, Goto, States, Data, WizardConstants
  <2>3. ASSUME NEW n \in 0..MaxPages, FinishSocial(n) PROVE data' \in Data /\ state' \in States
    <3>1. (n > 0) \in BOOLEAN
      OBVIOUS
    <3>2. data' = [data EXCEPT !.pages = n, !.url = (n > 0)] /\ state' \in States
      BY <2>3 DEF FinishSocial, Goto, States
    <3> QED
      BY <1>1, <3>1, <3>2 DEF Data
  <2>4. CASE WizSocialDone
    BY <1>1, <2>3, <2>4 DEF WizSocialDone, Data
  <2>5. CASE WizSkip
    BY <1>0, <1>1, <2>3, <2>5 DEF WizSkip, Goto, States
  <2> QED
    BY <1>5, <2>1, <2>2, <2>4, <2>5
<1>6. CASE WizBack
  <2>1. state' \in States
    BY <1>6 DEF WizBack, Goto, States
  <2>2. \/ data' = data
        \/ data' = [data EXCEPT !.ids = {}, !.channel = NoChannel]
        \/ data' = [data EXCEPT !.pages = 0]
    BY <1>6 DEF WizBack, ForgetChannels
  <2>3. data' \in Data
    BY <1>0, <1>1, <2>2 DEF Data
  <2> QED
    BY <2>1, <2>3
<1>7. ASSUME NEW c \in Channels, NEW x, Attach(c, x) PROVE data' \in Data /\ state' \in States
  <2>1. state' \in States
    BY <1>1, <1>7 DEF Attach, Goto, States
  <2>2. \/ data' = data
        \/ data' = [data EXCEPT !.ids = data.ids \cup {c},
                                !.channel = IF data.channel = NoChannel THEN c ELSE data.channel]
    BY <1>1, <1>7 DEF Attach
  <2>3. /\ data.ids \cup {c} \in SUBSET Channels
        /\ (IF data.channel = NoChannel THEN c ELSE data.channel) \in Channels \cup {NoChannel}
    BY <1>1, <1>7 DEF Data
  <2>4. data' \in Data
    BY <1>1, <2>2, <2>3 DEF Data
  <2> QED
    BY <2>1, <2>4
<1>8. CASE \E c \in Channels : WizChannel(c) \/ WizExtra(c) \/ PickOwnedChannel(c)
  BY <1>7, <1>8 DEF WizChannel, WizExtra, PickOwnedChannel
<1>9. CASE Publish
  BY <1>1, <1>9 DEF Publish, PublishPrizeless, PublishRefused, PublishPending, PublishCommitted,
     PublishMisreported, ClearAfter, Goto, States
<1>10. CASE Repeat
  <2>1. ASSUME NEW i \in 1..MaxEvents, RepeatStart(i) PROVE data' \in Data /\ state' \in States
    <3>1. i \in 0..MaxEvents /\ wizards + 1 \in 0..MaxWizards /\ state' \in States
      BY <1>1, <2>1 DEF RepeatStart, Goto, States, WizardConstants
    <3> QED
      BY <1>1, <2>1, <3>1 DEF RepeatStart, Data
  <2>2. CASE RepeatDay \/ RepeatLost \/ RepeatRefused \/ RepeatCommitted
    BY <1>1, <2>2 DEF RepeatDay, RepeatLost, RepeatRefused, RepeatCommitted, Goto, States, Data
  <2> QED
    BY <1>10, <2>1, <2>2 DEF Repeat
<1>11. CASE Announce
  <2>1. CASE StartAnn
    BY <1>1, <2>1 DEF StartAnn, Goto, States, Data, WizardConstants
  <2>2. CASE AnnLink \/ AnnPickDate \/ AnnTime
    BY <1>1, <2>2 DEF AnnLink, AnnPickDate, AnnTime, Goto, States, Data
  <2>3. CASE AnnRefused \/ AnnBroken \/ AnnFinish \/ \E i \in 1..MaxNews : AnnDelete(i)
    BY <1>1, <2>3 DEF AnnRefused, AnnBroken, AnnFinish, AnnDelete, Goto, States
  <2> QED
    BY <1>11, <2>1, <2>2, <2>3 DEF Announce
<1> QED
  BY <1>2, <1>3, <1>4, <1>5, <1>6, <1>8, <1>9, <1>10, <1>11 DEF Next, Step

\* An update arrives, is handled, or leaves the rest of its work behind.
LEMMA Queues ==
    ASSUME Next
    PROVE  \/ queue' = queue
           \/ queue' = Append(queue, state)
           \/ queue # <<>> /\ queue' = Tail(queue) /\ (Head(queue) # Clearing \/ data' = NoData)
           \/ queue # <<>> /\ queue' = Append(Tail(queue), Clearing) /\ Head(queue) # Clearing
<1>1. CASE Arrive \/ EvictState \/ EvictData
  BY <1>1 DEF Arrive, EvictState, EvictData, OnlyData, Turn, Dispatched, Button, Clearing
<1>2. CASE Step
  BY <1>2 DEF Step, StartOrg, CancelWiz, WizPickDate, WizStarts, ChannelsDone, WizPrize,
     WizPayout,
     WizSocial, WizSocialDone, WizDescription, WizBack, WizSkip, WizChannel, WizExtra,
     PickOwnedChannel, OnlyData, Turn, Dispatched, Button, Clearing
<1>3. CASE Announce
  BY <1>3 DEF Announce, StartAnn, AnnLink, AnnPickDate, AnnTime, AnnRefused, AnnBroken,
     AnnFinish,
     AnnDelete, OnlyData, Turn, Dispatched, Button, Clearing
<1>4. CASE Publish
  BY <1>4 DEF Publish, PublishPrizeless, PublishRefused, PublishPending, PublishCommitted,
     PublishMisreported, Publishing, Reopened, ClearAfter, OnlyData, Turn, Dispatched,
     Button, Clearing
<1>5. CASE Repeat
  BY <1>5 DEF Repeat, RepeatStart, RepeatDay, RepeatLost, RepeatRefused, RepeatCommitted,
     OnlyData, Turn, Dispatched, Button, Clearing
<1> QED
  BY <1>1, <1>2, <1>3, <1>4, <1>5 DEF Next

\* What is handled out of turn is remembered.
LEMMA Handled ==
    ASSUME Next
    PROVE  \/ outrun' = outrun
           \/ \E s \in States : outrun' = outrun \cup {s}
<1>1. CASE Arrive \/ EvictState \/ EvictData
  BY <1>1 DEF Arrive, EvictState, EvictData, OnlyData, Dispatched, Button, States
<1>2. CASE Step
  BY <1>2 DEF Step, StartOrg, CancelWiz, WizPickDate, WizStarts, ChannelsDone, WizPrize,
     WizPayout,
     WizSocial, WizSocialDone, WizDescription, WizBack, WizSkip, WizChannel, WizExtra,
     PickOwnedChannel, OnlyData, Dispatched, Button, States
<1>3. CASE Announce
  BY <1>3 DEF Announce, StartAnn, AnnLink, AnnPickDate, AnnTime, AnnRefused, AnnBroken,
     AnnFinish,
     AnnDelete, OnlyData, Dispatched, Button, States
<1>4. CASE Publish
  BY <1>4 DEF Publish, PublishPrizeless, PublishRefused, PublishPending, PublishCommitted,
     PublishMisreported, Publishing, Reopened, ClearAfter, OnlyData, Dispatched, Button, States
<1>5. CASE Repeat
  BY <1>5 DEF Repeat, RepeatStart, RepeatDay, RepeatLost, RepeatRefused, RepeatCommitted,
     OnlyData, Dispatched, Button, States
<1> QED
  BY <1>1, <1>2, <1>3, <1>4, <1>5 DEF Next

\* An announcement is made, or deleted.
LEMMA NewsMade ==
    ASSUME Next
    PROVE  \/ news' = news
           \/ news' = Append(news, data.wizard) /\ Len(news) < MaxNews /\ data' = NoData
           \/ (\E i \in DOMAIN news : news' = RemoveAt(news, i)) /\ UNCHANGED data
<1>1. CASE Arrive \/ EvictState \/ EvictData
  BY <1>1 DEF Arrive, EvictState, EvictData, OnlyData
<1>2. CASE Step
  BY <1>2 DEF Step, StartOrg, CancelWiz, WizPickDate, WizStarts, ChannelsDone, WizPrize,
     WizPayout,
     WizSocial, WizSocialDone, WizDescription, WizBack, WizSkip, WizChannel, WizExtra,
     PickOwnedChannel, OnlyData
<1>3. CASE Announce
  BY <1>3 DEF Announce, StartAnn, AnnLink, AnnPickDate, AnnTime, AnnRefused, AnnBroken,
     AnnFinish,
     AnnDelete, OnlyData
<1>4. CASE Publish
  BY <1>4 DEF Publish, PublishPrizeless, PublishRefused, PublishPending, PublishCommitted,
     PublishMisreported, Publishing, Reopened, ClearAfter, OnlyData
<1>5. CASE Repeat
  BY <1>5 DEF Repeat, RepeatStart, RepeatDay, RepeatLost, RepeatRefused, RepeatCommitted,
     OnlyData
<1> QED
  BY <1>1, <1>2, <1>3, <1>4, <1>5 DEF Next

\* A dialog that may be found again is remembered.
LEMMA Again ==
    ASSUME Next
    PROVE  twice' = twice \/ twice' = twice \cup {data.wizard}
<1>1. CASE Arrive \/ EvictState \/ EvictData
  BY <1>1 DEF Arrive, EvictState, EvictData, OnlyData, Reopened
<1>2. CASE Step
  BY <1>2 DEF Step, StartOrg, CancelWiz, WizPickDate, WizStarts, ChannelsDone, WizPrize,
     WizPayout,
     WizSocial, WizSocialDone, WizDescription, WizBack, WizSkip, WizChannel, WizExtra,
     PickOwnedChannel, OnlyData, Reopened
<1>3. CASE Announce
  BY <1>3 DEF Announce, StartAnn, AnnLink, AnnPickDate, AnnTime, AnnRefused, AnnBroken,
     AnnFinish,
     AnnDelete, OnlyData, Reopened
<1>4. CASE Publish
  BY <1>4 DEF Publish, PublishPrizeless, PublishRefused, PublishPending, PublishCommitted,
     PublishMisreported, Publishing, Reopened, ClearAfter, OnlyData, Reopened
<1>5. CASE Repeat
  BY <1>5 DEF Repeat, RepeatStart, RepeatDay, RepeatLost, RepeatRefused, RepeatCommitted,
     OnlyData, Reopened
<1> QED
  BY <1>1, <1>2, <1>3, <1>4, <1>5 DEF Next

\* A dialog begins with the next number; the others go on with theirs, or end.
LEMMA Numbers ==
    ASSUME TypeOK, Next
    PROVE  \/ wizards' = wizards /\ data'.wizard \in {data.wizard, 0}
           \/ /\ wizards < MaxWizards /\ wizards' = wizards + 1 /\ data'.wizard = wizards + 1
              /\ UNCHANGED <<events, news>>
<1>1. data \in Data /\ NoData.wizard = 0
  BY DEF TypeOK, NoData
<1>2. CASE Arrive \/ EvictState \/ EvictData
  BY <1>1, <1>2 DEF Arrive, EvictState, EvictData
<1>3. CASE StartOrg
  BY <1>1, <1>3 DEF StartOrg, NoData
<1>4. CASE CancelWiz \/ WizPickDate \/ WizStarts \/ ChannelsDone \/ WizPrize \/ WizDescription
  BY <1>1, <1>4 DEF CancelWiz, WizPickDate, WizStarts, ChannelsDone, WizPrize, WizDescription,
     OnlyData, Data
<1>5. CASE WizPayout \/ WizSocial \/ WizSocialDone
  BY <1>1, <1>5 DEF WizPayout, WizSocial, WizSocialDone, FinishSocial, OnlyData, Data
<1>6. CASE WizBack \/ WizSkip
  BY <1>1, <1>6 DEF WizBack, WizSkip, ForgetChannels, FinishSocial, OnlyData, Data
<1>7. ASSUME NEW c, NEW x, Attach(c, x) PROVE data'.wizard = data.wizard
  <2>1. \/ data' = data
        \/ data' = [data EXCEPT !.ids = data.ids \cup {c},
                                !.channel = IF data.channel = NoChannel THEN c ELSE data.channel]
    BY <1>1, <1>7 DEF Attach
  <2> QED
    BY <1>1, <2>1 DEF Data
<1>8. CASE \E c \in Channels : WizChannel(c) \/ WizExtra(c) \/ PickOwnedChannel(c)
  BY <1>7, <1>8 DEF WizChannel, WizExtra, PickOwnedChannel, OnlyData
<1>9. CASE Publish
  BY <1>1, <1>9 DEF Publish, PublishPrizeless, PublishRefused, PublishPending, PublishCommitted,
     PublishMisreported, ClearAfter, OnlyData
<1>10. CASE Repeat
  <2>1. ASSUME NEW i, RepeatStart(i)
        PROVE  /\ wizards < MaxWizards /\ wizards' = wizards + 1 /\ data'.wizard = wizards + 1
               /\ UNCHANGED <<events, news>>
    BY <2>1 DEF RepeatStart, NoData
  <2>2. CASE RepeatDay \/ RepeatLost \/ RepeatRefused \/ RepeatCommitted
    BY <1>1, <2>2 DEF RepeatDay, RepeatLost, RepeatRefused, RepeatCommitted, OnlyData, Data
  <2> QED
    BY <1>10, <2>1, <2>2 DEF Repeat
<1>11. CASE Announce
  <2>1. CASE StartAnn
    BY <1>1, <2>1 DEF StartAnn, Data
  <2>2. CASE AnnLink \/ AnnPickDate \/ AnnTime
    BY <1>1, <2>2 DEF AnnLink, AnnPickDate, AnnTime, OnlyData, Data
  <2>3. CASE AnnRefused \/ AnnBroken \/ AnnFinish \/ \E i \in 1..MaxNews : AnnDelete(i)
    BY <1>1, <2>3 DEF AnnRefused, AnnBroken, AnnFinish, AnnDelete, OnlyData
  <2> QED
    BY <1>11, <2>1, <2>2, <2>3 DEF Announce
<1> QED
  BY <1>2, <1>3, <1>4, <1>5, <1>6, <1>8, <1>9, <1>10, <1>11 DEF Next, Step

\* An announcement less.
LEMMA Removed ==
    ASSUME NEW S, NEW s \in Seq(S), NEW i \in DOMAIN s
    PROVE  /\ RemoveAt(s, i) \in Seq(S) /\ Len(RemoveAt(s, i)) = Len(s) - 1
           /\ \A k \in 1..(i - 1) : RemoveAt(s, i)[k] = s[k]
           /\ \A k \in i..(Len(s) - 1) : RemoveAt(s, i)[k] = s[k + 1]
<1> DEFINE a == SubSeq(s, 1, i - 1)
           b == SubSeq(s, i + 1, Len(s))
<1>1. i \in 1..Len(s) /\ Len(s) \in Nat
  OBVIOUS
<1>2. a \in Seq(S) /\ Len(a) = i - 1 /\ \A k \in 1..(i - 1) : a[k] = s[k]
  BY <1>1
<1>3. b \in Seq(S) /\ Len(b) = Len(s) - i /\ \A k \in 1..(Len(s) - i) : b[k] = s[i + k]
  BY <1>1
<1>4. RemoveAt(s, i) = a \o b
  BY DEF RemoveAt
<1> HIDE DEF a, b
<1>5. /\ a \o b \in Seq(S) /\ Len(a \o b) = Len(a) + Len(b)
      /\ \A k \in 1..(Len(a) + Len(b)) :
            (a \o b)[k] = IF k <= Len(a) THEN a[k] ELSE b[k - Len(a)]
  BY <1>2, <1>3, ConcatProperties
<1>6. \A k \in 1..(i - 1) : (a \o b)[k] = s[k]
  BY <1>1, <1>2, <1>3, <1>5
<1>7. ASSUME NEW k \in i..(Len(s) - 1)
      PROVE  (a \o b)[k] = s[k + 1]
  <2> DEFINE m == k - (i - 1)
  <2>1. m \in 1..(Len(s) - i) /\ i + m = k + 1
    BY <1>1
  <2>2. (a \o b)[k] = b[m]
    <3>1. k \in 1..(Len(a) + Len(b)) /\ ~(k <= Len(a)) /\ k - Len(a) = m
      BY <1>1, <1>2, <1>3
    <3>2. (a \o b)[k] = b[k - Len(a)]
      BY <1>5, <3>1
    <3> QED
      BY <3>1, <3>2
  <2> HIDE DEF m
  <2>3. b[m] = s[i + m]
    BY <1>3, <2>1
  <2> QED
    BY <2>1, <2>2, <2>3
<1>8. Len(a) + Len(b) = Len(s) - 1
  BY <1>1, <1>2, <1>3
<1> QED
  BY <1>4, <1>5, <1>6, <1>7, <1>8

\* What is registered has the number of the dialog.
LEMMA Made ==
    ASSUME TypeOK, SourceThere, Next, events' # events
    PROVE  \E new : events' = Append(events, new) /\ new.wizard = data.wizard
<1>1. Fresh.wizard = data.wizard
  BY DEF Fresh
<1>2. ASSUME data.source # 0 PROVE Copy.wizard = data.wizard
  <2>1. events[data.source] \in Event
    BY <1>2 DEF TypeOK, Data, SourceThere
  <2> QED
    BY <2>1 DEF Copy, Event
<1> QED
  BY <1>1, <1>2, Outcome

\* What is left of the announcements was there, each in a place of its own.
LEMMA Elsewhere ==
    ASSUME NEW S, NEW s \in Seq(S), NEW i \in DOMAIN s
    PROVE  /\ \A j \in DOMAIN RemoveAt(s, i) : \E k \in DOMAIN s : RemoveAt(s, i)[j] = s[k]
           /\ \A j, k \in DOMAIN RemoveAt(s, i) :
                j # k => \E l, m \in DOMAIN s :
                            l # m /\ RemoveAt(s, i)[j] = s[l] /\ RemoveAt(s, i)[k] = s[m]
<1> DEFINE t == RemoveAt(s, i)
           at == [j \in 1..(Len(s) - 1) |-> IF j < i THEN j ELSE j + 1]
<1>1. i \in 1..Len(s) /\ Len(s) \in Nat /\ DOMAIN s = 1..Len(s)
  OBVIOUS
<1>2. t \in Seq(S) /\ Len(t) = Len(s) - 1
  BY Removed
<1>3. DOMAIN t = 1..(Len(s) - 1)
  BY <1>1, <1>2
<1>4. \A j \in 1..(Len(s) - 1) : at[j] \in 1..Len(s)
  BY <1>1
<1>5. \A j, k \in 1..(Len(s) - 1) : j # k => at[j] # at[k]
  BY <1>1
<1>6. \A j \in 1..(Len(s) - 1) : t[j] = s[at[j]]
  <2> SUFFICES ASSUME NEW j \in 1..(Len(s) - 1) PROVE t[j] = s[at[j]]
    OBVIOUS
  <2>1. CASE j < i
    <3>1. j \in 1..(i - 1) /\ at[j] = j
      BY <1>1, <2>1
    <3> QED
      BY <3>1, Removed
  <2>2. CASE ~(j < i)
    <3>1. j \in i..(Len(s) - 1) /\ at[j] = j + 1
      BY <1>1, <2>2
    <3> QED
      BY <3>1, Removed
  <2> QED
    BY <2>1, <2>2
<1> HIDE DEF t, at
<1>7. /\ \A j \in DOMAIN t : \E k \in DOMAIN s : t[j] = s[k]
      /\ \A j, k \in DOMAIN t : j # k => \E l, m \in DOMAIN s : l # m /\ t[j] = s[l] /\ t[k] = s[m]
  BY <1>1, <1>3, <1>4, <1>5, <1>6
<1> QED
  BY <1>7 DEF t

\* The queue, the announcements and the history.
LEMMA RestTyped ==
    ASSUME WizardConstants, TypeOK, Next
    PROVE  /\ queue' \in Seq(States \cup {Clearing})
           /\ news' \in Seq(0..MaxWizards) /\ Len(news') <= MaxNews
           /\ wizards' \in 0..MaxWizards /\ wizards <= wizards'
           /\ outrun' \subseteq States /\ twice' \subseteq 0..MaxWizards
<1>1. /\ state \in States /\ data.wizard \in 0..MaxWizards
      /\ queue \in Seq(States \cup {Clearing})
      /\ news \in Seq(0..MaxWizards) /\ Len(news) <= MaxNews
      /\ wizards \in 0..MaxWizards /\ outrun \subseteq States /\ twice \subseteq 0..MaxWizards
  BY DEF TypeOK, Data
<1>2. queue' \in Seq(States \cup {Clearing})
  <2> DEFINE S == States \cup {Clearing}
  <2>1. state \in S /\ Clearing \in S /\ queue \in Seq(S)
    BY <1>1
  <2>2. queue # <<>> => Tail(queue) \in Seq(S)
    BY <2>1
  <2> HIDE DEF S
  <2>3. Append(queue, state) \in Seq(S) /\ (queue # <<>> => Append(Tail(queue), Clearing) \in Seq(S))
    BY <2>1, <2>2
  <2>4. queue' \in Seq(S)
    BY <2>1, <2>2, <2>3, Queues
  <2> QED
    BY <2>4 DEF S
<1>3. outrun' \subseteq States
  BY <1>1, Handled
<1>4. news' \in Seq(0..MaxWizards) /\ Len(news') <= MaxNews
  <2>1. ASSUME NEW i \in DOMAIN news, news' = RemoveAt(news, i)
        PROVE  news' \in Seq(0..MaxWizards) /\ Len(news') <= MaxNews
    BY <1>1, <2>1, Removed DEF WizardConstants
  <2>2. CASE news' = Append(news, data.wizard) /\ Len(news) < MaxNews
    BY <1>1, <2>2 DEF WizardConstants
  <2> QED
    BY <1>1, <2>1, <2>2, NewsMade
<1>5. wizards' \in 0..MaxWizards /\ wizards <= wizards' /\ twice' \subseteq 0..MaxWizards
  <2>1. wizards' \in 0..MaxWizards /\ wizards <= wizards'
    BY <1>1, Numbers DEF WizardConstants
  <2>2. twice' \subseteq 0..MaxWizards
    BY <1>1, Again
  <2> QED
    BY <2>1, <2>2
<1> QED
  BY <1>2, <1>3, <1>4, <1>5

\* The customs.
LEMMA EventsTyped ==
    ASSUME WizardConstants, TypeOK, SourceThere, Next
    PROVE  /\ events' \in Seq(Event) /\ Len(events') <= MaxEvents /\ Len(events) <= Len(events')
<1>1. events \in Seq(Event) /\ Len(events) <= MaxEvents /\ data \in Data
  BY DEF TypeOK
<1>2. CASE events' = events
  BY <1>1, <1>2 DEF WizardConstants
<1>3. CASE events' # events
  <2>1. data.channel # NoChannel => Fresh \in Event
    BY <1>1 DEF Data, Event, Fresh
  <2>2. data.source # 0 => Copy \in Event
    <3>1. data.source # 0 => events[data.source] \in Event
      BY <1>1 DEF Data, SourceThere
    <3> QED
      BY <1>1, <3>1 DEF Data, Event, Copy
  <2> QED
    BY <1>1, <1>3, <2>1, <2>2, Outcome DEF WizardConstants
<1> QED
  BY <1>2, <1>3

\* A dialog repeats the custom it began with, or one that is there.
LEMMA Sources ==
    ASSUME TypeOK, Next
    PROVE  data'.source \in {data.source, 0} \/ data'.source \in DOMAIN events
<1>1. data \in Data /\ NoData.source = 0
  BY DEF TypeOK, NoData
<1>2. CASE Arrive \/ EvictState \/ EvictData
  BY <1>1, <1>2 DEF Arrive, EvictState, EvictData
<1>3. CASE StartOrg
  BY <1>1, <1>3 DEF StartOrg, NoData
<1>4. CASE CancelWiz \/ WizPickDate \/ WizStarts \/ ChannelsDone \/ WizPrize \/ WizDescription
  BY <1>1, <1>4 DEF CancelWiz, WizPickDate, WizStarts, ChannelsDone, WizPrize,
     WizDescription, Data
<1>5. CASE WizPayout \/ WizSocial \/ WizSocialDone
  BY <1>1, <1>5 DEF WizPayout, WizSocial, WizSocialDone, FinishSocial, Data
<1>6. CASE WizBack \/ WizSkip
  BY <1>1, <1>6 DEF WizBack, WizSkip, ForgetChannels, FinishSocial, Data
<1>7. ASSUME NEW c, NEW x, Attach(c, x) PROVE data'.source = data.source
  <2>1. \/ data' = data
        \/ data' = [data EXCEPT !.ids = data.ids \cup {c},
                                !.channel = IF data.channel = NoChannel THEN c ELSE data.channel]
    BY <1>1, <1>7 DEF Attach
  <2> QED
    BY <1>1, <2>1 DEF Data
<1>8. CASE \E c \in Channels : WizChannel(c) \/ WizExtra(c) \/ PickOwnedChannel(c)
  BY <1>7, <1>8 DEF WizChannel, WizExtra, PickOwnedChannel
<1>9. CASE Publish
  BY <1>1, <1>9 DEF Publish, PublishPrizeless, PublishRefused, PublishPending, PublishCommitted,
     PublishMisreported, ClearAfter
<1>10. CASE Repeat
  <2>1. ASSUME NEW i, RepeatStart(i) PROVE data'.source \in DOMAIN events
    BY <2>1 DEF RepeatStart, NoData
  <2>2. CASE RepeatDay \/ RepeatLost \/ RepeatRefused \/ RepeatCommitted
    BY <1>1, <2>2 DEF RepeatDay, RepeatLost, RepeatRefused, RepeatCommitted, Data
  <2> QED
    BY <1>10, <2>1, <2>2 DEF Repeat
<1>11. CASE Announce
  <2>1. CASE StartAnn
    BY <1>1, <2>1 DEF StartAnn, Data
  <2>2. CASE AnnLink \/ AnnPickDate \/ AnnTime
    BY <1>1, <2>2 DEF AnnLink, AnnPickDate, AnnTime, Data
  <2>3. CASE AnnRefused \/ AnnBroken \/ AnnFinish \/ \E i \in 1..MaxNews : AnnDelete(i)
    BY <1>1, <2>3 DEF AnnRefused, AnnBroken, AnnFinish, AnnDelete
  <2> QED
    BY <1>11, <2>1, <2>2, <2>3 DEF Announce
<1> QED
  BY <1>2, <1>3, <1>4, <1>5, <1>6, <1>8, <1>9, <1>10, <1>11 DEF Next, Step

\* Everything the dialogs keep.
LEMMA TypeInv ==
    ASSUME WizardConstants, TypeOK, SourceThere, Next
    PROVE  TypeOK' /\ SourceThere'
<1>1. TypeOK'
  BY DataTyped, RestTyped, EventsTyped DEF TypeOK
<1>2. data'.source \in {data.source, 0} \/ data'.source \in DOMAIN events
  BY Sources
<1>3. Len(events) \in Nat /\ Len(events') \in Nat /\ Len(events) <= Len(events') /\ data.source \in Nat
  BY <1>1, EventsTyped DEF TypeOK, Data
<1>4. SourceThere'
  BY <1>2, <1>3 DEF SourceThere, TypeOK
<1> QED
  BY <1>1, <1>4

-----------------------------------------------------------------------------
(* The channels of a custom                                                *)

\* The dialog goes on with its channels, forgets them, or adds one; it is asked for
\* its time only when it has none.
LEMMA ChannelsInv ==
    ASSUME TypeOK, ChannelsAgree, Next
    PROVE  ChannelsAgree'
<1> SUFFICES ASSUME outrun' \cap Gates = {}
             PROVE  /\ data'.channel \in data'.ids \/ (data'.channel = NoChannel /\ data'.ids = {})
                    /\ state' \in {"starts_at", "starts_time"} => data'.channel = NoChannel /\ data'.ids = {}
  BY DEF ChannelsAgree
<1> DEFINE Goal ==
      /\ data'.channel \in data'.ids \/ (data'.channel = NoChannel /\ data'.ids = {})
      /\ state' \in {"starts_at", "starts_time"} => data'.channel = NoChannel /\ data'.ids = {}
<1>1. /\ data \in Data /\ NoData.ids = {} /\ NoData.channel = NoChannel
      /\ data.channel \in data.ids \/ (data.channel = NoChannel /\ data.ids = {})
      /\ state \in {"starts_at", "starts_time"} => data.channel = NoChannel /\ data.ids = {}
  BY Grows DEF TypeOK, NoData, ChannelsAgree
<1>2. ASSUME NEW s \in Gates, Dispatched(s) PROVE state = s
  BY <1>2 DEF Dispatched
<1>3. ASSUME data'.ids = data.ids, data'.channel = data.channel,
             state' = state \/ state' \notin {"starts_at", "starts_time"}
                            \/ state \in {"starts_at", "starts_time"}
      PROVE  Goal
  BY <1>1, <1>3
<1>4. ASSUME data'.ids = {}, data'.channel = NoChannel PROVE Goal
  BY <1>4
<1>5. ASSUME NEW c \in Channels, NEW x, Attach(c, x), state \notin {"starts_at", "starts_time"}
      PROVE  Goal
  <2>1. CASE UNCHANGED <<state, data>>
    BY <1>1, <2>1
  <2>2. CASE ~UNCHANGED <<state, data>>
    <3>1. /\ data' = [data EXCEPT !.ids = data.ids \cup {c},
                                  !.channel = IF data.channel = NoChannel THEN c ELSE data.channel]
          /\ state' = state \/ state' = "extra"
      BY <1>1, <1>5, <2>2 DEF Attach, Goto
    <3>2. /\ data'.ids = data.ids \cup {c}
          /\ data'.channel = IF data.channel = NoChannel THEN c ELSE data.channel
      BY <1>1, <3>1 DEF Data
    <3> QED
      BY <1>1, <1>5, <3>1, <3>2
  <2> QED
    BY <2>1, <2>2
<1> HIDE DEF Goal
<1>6. CASE Arrive \/ EvictState \/ EvictData
  BY <1>1, <1>3, <1>4, <1>6 DEF Arrive, EvictState, EvictData, Goto
<1>7. CASE StartOrg \/ CancelWiz
  BY <1>1, <1>4, <1>7 DEF StartOrg, CancelWiz, NoData
<1>8. CASE WizPickDate
  <2>1. state = "starts_at"
    BY <1>2, <1>8 DEF WizPickDate, Gates
  <2> QED
    BY <1>1, <1>3, <1>8, <2>1 DEF WizPickDate, Data
<1>9. CASE WizStarts
  <2>1. state = "starts_time"
    BY <1>2, <1>9 DEF WizStarts, Gates
  <2>2. CASE ~data.picked
    <3>1. data' = data
      BY <1>9, <2>2 DEF WizStarts
    <3> QED
      BY <1>1, <1>3, <2>1, <3>1
  <2>3. CASE data.picked
    <3>1. data'.ids = {} /\ data'.channel = NoChannel
      BY <1>1, <1>9, <2>1, <2>3 DEF WizStarts, Data
    <3> QED
      BY <1>4, <3>1
  <2> QED
    BY <2>2, <2>3
<1>10. CASE ChannelsDone \/ WizPrize \/ WizPayout \/ WizSocial \/ WizDescription
  BY <1>1, <1>3, <1>10 DEF ChannelsDone, WizPrize, WizPayout, WizSocial, WizDescription,
     Goto, Data
<1>11. CASE WizSocialDone \/ WizSkip
  BY <1>1, <1>3, <1>11 DEF WizSocialDone, WizSkip, FinishSocial, Goto, Data
<1>12. CASE WizBack
  <2>1. CASE data' = [data EXCEPT !.ids = {}, !.channel = NoChannel]
    BY <1>1, <1>4, <2>1 DEF Data
  <2>2. CASE data' # [data EXCEPT !.ids = {}, !.channel = NoChannel]
    BY <1>1, <1>3, <1>12, <2>2 DEF WizBack, ForgetChannels, Goto, Data
  <2> QED
    BY <2>1, <2>2
<1>13. ASSUME NEW c \in Channels, WizChannel(c) \/ WizExtra(c) \/ PickOwnedChannel(c) PROVE Goal
  <2>1. state \notin {"starts_at", "starts_time"}
    BY <1>2, <1>13 DEF WizChannel, WizExtra, PickOwnedChannel, Gates
  <2> QED
    BY <1>5, <1>13, <2>1 DEF WizChannel, WizExtra, PickOwnedChannel
<1>14. CASE Publish
  BY <1>1, <1>3, <1>4, <1>14 DEF Publish, PublishPrizeless, PublishRefused, PublishPending,
     PublishCommitted, PublishMisreported, ClearAfter, Goto
<1>15. CASE Repeat
  <2>1. ASSUME NEW i, RepeatStart(i) PROVE Goal
    BY <1>4, <2>1 DEF RepeatStart, NoData
  <2>2. CASE RepeatDay \/ RepeatLost \/ RepeatRefused \/ RepeatCommitted
    <3>1. CASE RepeatDay
      BY <1>1, <1>3, <3>1 DEF RepeatDay, Goto, Data
    <3>2. CASE RepeatLost
      BY <1>1, <1>4, <3>2 DEF RepeatLost
    <3>3. CASE RepeatRefused \/ RepeatCommitted
      BY <1>1, <1>3, <3>3 DEF RepeatRefused, RepeatCommitted
    <3> QED
      BY <2>2, <3>1, <3>2, <3>3
  <2> QED
    BY <1>15, <2>1, <2>2 DEF Repeat, Goal
<1>16. CASE Announce
  <2>1. CASE StartAnn \/ AnnLink \/ AnnPickDate \/ AnnTime
    BY <1>1, <1>3, <2>1 DEF StartAnn, AnnLink, AnnPickDate, AnnTime, Goto, Data
  <2>2. CASE AnnRefused \/ AnnBroken \/ AnnFinish \/ \E i \in 1..MaxNews : AnnDelete(i)
    BY <1>1, <1>3, <1>4, <2>2 DEF AnnRefused, AnnBroken, AnnFinish, AnnDelete, Goto
  <2> QED
    BY <1>16, <2>1, <2>2 DEF Announce
<1> QED
  BY <1>6, <1>7, <1>8, <1>9, <1>10, <1>11, <1>12, <1>13, <1>14, <1>15, <1>16 DEF Next, Step,
     Goal

\* A custom is made of the channels the dialog has then.
LEMMA GatedInv ==
    ASSUME TypeOK, SourceThere, ChannelsAgree, GatedByOwnChannel, Next
    PROVE  GatedByOwnChannel'
<1> SUFFICES ASSUME outrun' \cap Gates = {}, NEW i \in DOMAIN events'
             PROVE  events'[i].channel \in events'[i].ids
  BY DEF GatedByOwnChannel, Registered, Gates
<1>1. /\ outrun \cap Gates = {} /\ events \in Seq(Event) /\ data \in Data
      /\ \A j \in DOMAIN events : events[j].channel \in events[j].ids
  BY Grows DEF TypeOK, GatedByOwnChannel, Registered, Gates
<1>2. CASE events' = events
  BY <1>1, <1>2
<1>3. ASSUME NEW new, events' = Append(events, new), new.channel \in new.ids
      PROVE  events'[i].channel \in events'[i].ids
  BY <1>1, <1>3
<1>4. CASE events' # events
  <2>1. data.channel # NoChannel => Fresh.channel \in Fresh.ids
    BY <1>1 DEF ChannelsAgree, Fresh
  <2>2. data.source # 0 => Copy.channel \in Copy.ids
    <3>1. data.source # 0 => data.source \in DOMAIN events
      BY <1>1 DEF Data, SourceThere
    <3>2. data.source # 0 => events[data.source] \in Event
      BY <1>1, <3>1
    <3> QED
      BY <1>1, <3>1, <3>2 DEF Copy, Event
  <2> QED
    BY <1>3, <1>4, <2>1, <2>2, Outcome
<1> QED
  BY <1>2, <1>4

-----------------------------------------------------------------------------
(* The pages of a custom                                                   *)

\* Once the step of the pages is over, its outcome stays as it is.
LEMMA PagesInv ==
    ASSUME TypeOK, PagesAgree, Next
    PROVE  PagesAgree'
<1> SUFFICES ASSUME outrun' \cap Pages = {}, state' \in {"description", "banner"}
             PROVE  (data'.pages > 0) = data'.url
  BY DEF PagesAgree
<1>1. /\ data \in Data /\ (NoData.pages > 0) = NoData.url
      /\ state \in {"description", "banner"} => (data.pages > 0) = data.url
  <2>1. data \in Data /\ NoData.pages = 0 /\ NoData.url = FALSE
    BY DEF TypeOK, NoData
  <2>2. outrun \cap Pages = {}
    BY Grows
  <2>3. state \in {"description", "banner"} => (data.pages > 0) = data.url
    BY <2>2 DEF PagesAgree
  <2>4. (NoData.pages > 0) = FALSE
    BY <2>1
  <2> QED
    BY <2>1, <2>3, <2>4
<1>2. ASSUME NEW s \in Pages, Dispatched(s) PROVE state = s
  BY <1>2 DEF Dispatched
<1>3. ASSUME data'.pages = data.pages, data'.url = data.url, state \in {"description", "banner"}
      PROVE  (data'.pages > 0) = data'.url
  BY <1>1, <1>3
<1>4. ASSUME NEW n, FinishSocial(n) PROVE (data'.pages > 0) = data'.url
  BY <1>1, <1>4 DEF FinishSocial, Data
<1>5. CASE Arrive \/ EvictState \/ EvictData
  BY <1>1, <1>3, <1>5 DEF Arrive, EvictState, EvictData, Goto
<1>6. ~StartOrg /\ ~CancelWiz /\ ~WizPickDate /\ ~WizStarts /\ ~ChannelsDone /\ ~WizPrize /\ ~WizPayout
  BY DEF StartOrg, CancelWiz, WizPickDate, WizStarts, ChannelsDone, WizPrize, WizPayout, Goto
<1>7. ~WizSocial
  BY <1>2 DEF WizSocial, Pages
<1>8. CASE WizSocialDone
  BY <1>4, <1>8 DEF WizSocialDone
<1>9. CASE WizDescription
  <2>1. state = "description" /\ data' = data
    BY <1>2, <1>9 DEF WizDescription, Pages
  <2> QED
    BY <1>1, <1>3, <2>1
<1>10. CASE WizSkip
  <2>1. CASE FinishSocial(0)
    BY <1>4, <2>1
  <2>2. CASE ~FinishSocial(0)
    BY <1>1, <1>3, <1>10, <2>2 DEF WizSkip, Goto
  <2> QED
    BY <2>1, <2>2
<1>11. CASE WizBack
  <2>1. state = "banner" /\ data' = data
    BY <1>11 DEF WizBack, Goto
  <2> QED
    BY <1>1, <1>3, <2>1
<1>12. ASSUME NEW c \in Channels, NEW x, Attach(c, x), state \notin {"description", "banner"}
       PROVE  FALSE
  BY <1>12 DEF Attach, Goto
<1>13. ASSUME NEW c \in Channels, WizChannel(c) \/ WizExtra(c) \/ PickOwnedChannel(c)
       PROVE  (data'.pages > 0) = data'.url
  <2>1. PICK x : Attach(c, x)
    BY <1>13 DEF WizChannel, WizExtra, PickOwnedChannel
  <2>2. /\ state \in {"description", "banner"} /\ state' = state
    BY <1>12, <2>1 DEF Attach, Goto
  <2>3. \/ data' = data
        \/ data' = [data EXCEPT !.ids = data.ids \cup {c},
                                !.channel = IF data.channel = NoChannel THEN c ELSE data.channel]
    BY <1>1, <2>1 DEF Attach
  <2> QED
    BY <1>1, <1>3, <2>2, <2>3 DEF Data
<1>14. CASE Publish
  <2>1. CASE PublishPrizeless \/ PublishPending \/ ClearAfter
    BY <2>1 DEF PublishPrizeless, PublishPending, ClearAfter, Goto
  <2>2. CASE PublishRefused \/ PublishCommitted \/ PublishMisreported
    BY <1>1, <1>3, <2>2 DEF PublishRefused, PublishCommitted, PublishMisreported
  <2> QED
    BY <1>14, <2>1, <2>2 DEF Publish
<1>15. CASE Repeat
  <2>1. ~RepeatDay /\ ~RepeatLost /\ \A i : ~RepeatStart(i)
    BY DEF RepeatDay, RepeatLost, RepeatStart, Goto
  <2>2. CASE RepeatRefused \/ RepeatCommitted
    BY <1>1, <1>3, <2>2 DEF RepeatRefused, RepeatCommitted
  <2> QED
    BY <1>15, <2>1, <2>2 DEF Repeat
<1>16. CASE Announce
  <2>1. ~StartAnn /\ ~AnnLink /\ ~AnnPickDate /\ ~AnnTime /\ ~AnnBroken /\ ~AnnFinish
    BY DEF StartAnn, AnnLink, AnnPickDate, AnnTime, AnnBroken, AnnFinish, Goto
  <2>2. CASE AnnRefused \/ \E i \in 1..MaxNews : AnnDelete(i)
    BY <1>1, <1>3, <2>2 DEF AnnRefused, AnnDelete
  <2> QED
    BY <1>16, <2>1, <2>2 DEF Announce
<1> QED
  BY <1>5, <1>6, <1>7, <1>8, <1>9, <1>10, <1>11, <1>13, <1>14, <1>15, <1>16 DEF Next, Step

\* A custom is made of the pages the dialog has then.
LEMMA FollowInv ==
    ASSUME TypeOK, SourceThere, PagesAgree, FollowInSync, Next
    PROVE  FollowInSync'
<1> SUFFICES ASSUME outrun' \cap Pages = {}, NEW i \in DOMAIN events'
             PROVE  (events'[i].pages > 0) = events'[i].url
  BY DEF FollowInSync, Registered, Pages
<1>1. /\ outrun \cap Pages = {} /\ events \in Seq(Event) /\ data \in Data
      /\ \A j \in DOMAIN events : (events[j].pages > 0) = events[j].url
  BY Grows DEF TypeOK, FollowInSync, Registered, Pages
<1>2. CASE events' = events
  BY <1>1, <1>2
<1>3. ASSUME NEW new, events' = Append(events, new), (new.pages > 0) = new.url
      PROVE  (events'[i].pages > 0) = events'[i].url
  BY <1>1, <1>3
<1>4. CASE events' # events
  <2>1. state = "banner" => (Fresh.pages > 0) = Fresh.url
    BY <1>1 DEF PagesAgree, Fresh
  <2>2. "banner" \notin outrun'
    BY DEF Pages
  <2>3. data.source # 0 => (Copy.pages > 0) = Copy.url
    <3>1. data.source # 0 => data.source \in DOMAIN events
      BY <1>1 DEF Data, SourceThere
    <3>2. data.source # 0 => events[data.source] \in Event
      BY <1>1, <3>1
    <3> QED
      BY <1>1, <3>1, <3>2 DEF Copy, Event
  <2> QED
    BY <1>3, <1>4, <2>1, <2>2, <2>3, Outcome
<1> QED
  BY <1>2, <1>4

-----------------------------------------------------------------------------
(* The customs and announcements of a dialog                               *)

\* Numbers stay below the number of dialogs begun.
LEMMA NumberedInv ==
    ASSUME WizardConstants, TypeOK, SourceThere, Numbered, Next
    PROVE  Numbered'
<1>1. /\ data \in Data /\ data.wizard \in Nat /\ wizards \in Nat /\ wizards' \in Nat
      /\ events \in Seq(Event) /\ news \in Seq(0..MaxWizards) /\ wizards <= wizards'
  BY RestTyped DEF TypeOK, Data, WizardConstants
<1>2. \A i \in DOMAIN events : events[i].wizard \in Nat
  <2>1. \A i \in DOMAIN events : events[i] \in Event
    BY <1>1
  <2> QED
    BY <2>1 DEF Event, WizardConstants
<1>3. \A i \in DOMAIN news : news[i] \in Nat
  BY <1>1 DEF WizardConstants
<1>4. data'.wizard <= wizards'
  BY <1>1, Numbers DEF Numbered
<1>5. \A i \in DOMAIN events' : events'[i].wizard <= wizards'
  <2>1. CASE events' = events
    BY <1>1, <1>2, <2>1 DEF Numbered
  <2>2. CASE events' # events
    <3>1. \E new : events' = Append(events, new) /\ new.wizard = data.wizard
      BY <2>2, Made
    <3> QED
      BY <1>1, <1>2, <3>1 DEF Numbered
  <2> QED
    BY <2>1, <2>2
<1>6. \A i \in DOMAIN news' : news'[i] <= wizards'
  <2>1. CASE news' = news
    BY <1>1, <1>3, <2>1 DEF Numbered
  <2>2. CASE news' = Append(news, data.wizard)
    BY <1>1, <1>3, <2>2 DEF Numbered
  <2>3. ASSUME NEW i \in DOMAIN news, news' = RemoveAt(news, i)
        PROVE  \A j \in DOMAIN news' : news'[j] <= wizards'
    <3> SUFFICES ASSUME NEW j \in DOMAIN news' PROVE news'[j] <= wizards'
      OBVIOUS
    <3>1. PICK k \in DOMAIN news : news'[j] = news[k]
      BY <1>1, <2>3, Elsewhere
    <3> QED
      BY <1>1, <1>3, <3>1 DEF Numbered
  <2> QED
    BY <2>1, <2>2, <2>3, NewsMade
<1> QED
  BY <1>4, <1>5, <1>6 DEF Numbered

\* No dialog registers twice, or announces twice.
LEMMA OnceInv ==
    ASSUME WizardConstants, TypeOK, SourceThere, Spent, OncePerWizard, Next
    PROVE  OncePerWizard'
<1>1. /\ events \in Seq(Event) /\ news \in Seq(0..MaxWizards) /\ twice \subseteq twice'
  BY Grows DEF TypeOK
<1>2. \A i, j \in DOMAIN events' :
        i # j => events'[i].wizard # events'[j].wizard \/ events'[i].wizard \in twice' \cup {0}
  <2>1. CASE events' = events
    BY <1>1, <2>1 DEF OncePerWizard
  <2>2. CASE events' # events
    <3>1. PICK new : events' = Append(events, new) /\ new.wizard = data.wizard
      BY <2>2, Made
    <3>2. \A i \in DOMAIN events : events[i].wizard = data.wizard => data.wizard \in twice' \cup {0}
      BY <1>1, <2>2, Outcome DEF Spent
    <3>3. /\ DOMAIN events' = DOMAIN events \cup {Len(events) + 1}
          /\ events'[Len(events) + 1] = new
          /\ \A i \in DOMAIN events : events'[i] = events[i]
      BY <1>1, <3>1
    <3> QED
      BY <1>1, <3>1, <3>2, <3>3 DEF OncePerWizard
  <2> QED
    BY <2>1, <2>2
<1>3. \A i, j \in DOMAIN news' : i # j => news'[i] # news'[j] \/ news'[i] = 0
  <2>1. CASE news' = news
    BY <2>1 DEF OncePerWizard
  <2>2. CASE news' = Append(news, data.wizard)
    <3>1. /\ DOMAIN news' = DOMAIN news \cup {Len(news) + 1}
          /\ news'[Len(news) + 1] = data.wizard
          /\ \A i \in DOMAIN news : news'[i] = news[i]
      BY <1>1, <2>2
    <3> QED
      BY <3>1 DEF OncePerWizard, Spent
  <2>3. ASSUME NEW i \in DOMAIN news, news' = RemoveAt(news, i)
        PROVE  \A j, k \in DOMAIN news' : j # k => news'[j] # news'[k] \/ news'[j] = 0
    <3> SUFFICES ASSUME NEW j \in DOMAIN news', NEW k \in DOMAIN news', j # k
                 PROVE  news'[j] # news'[k] \/ news'[j] = 0
      OBVIOUS
    <3>1. PICK l \in DOMAIN news, m \in DOMAIN news : l # m /\ news'[j] = news[l] /\ news'[k] = news[m]
      BY <1>1, <2>3, Elsewhere
    <3> QED
      BY <3>1 DEF OncePerWizard
  <2> QED
    BY <2>1, <2>2, <2>3, NewsMade
<1> QED
  BY <1>2, <1>3 DEF OncePerWizard

\* Who has registered is about to be cleared, or remembered.
LEMMA SpentInv ==
    ASSUME WizardConstants, TypeOK, SourceThere, Numbered, Spent, Next
    PROVE  Spent'
<1>1. /\ events \in Seq(Event) /\ news \in Seq(0..MaxWizards) /\ twice \subseteq twice'
      /\ queue \in Seq(States \cup {Clearing}) /\ NoData.wizard = 0 /\ wizards \in Nat
  BY Grows DEF TypeOK, NoData
<1>2. ASSUME NEW i \in DOMAIN events', events'[i].wizard = data'.wizard
      PROVE  \/ data'.wizard \in twice' \cup {0}
             \/ queue' # <<>> /\ Head(queue') = Clearing
  <2>1. CASE data'.wizard = 0
    BY <2>1
  <2>2. CASE data'.wizard # 0 /\ events' = events
    <3>1. CASE wizards' = wizards /\ data'.wizard = data.wizard
      <4>1. data.wizard \in twice \/ (queue # <<>> /\ Head(queue) = Clearing)
        BY <1>2, <2>2, <3>1 DEF Spent
      <4>2. CASE data.wizard \in twice
        BY <1>1, <3>1, <4>2
      <4>3. CASE queue # <<>> /\ Head(queue) = Clearing
        <5>1. queue' = queue \/ queue' = Append(queue, state)
          BY <1>1, <2>2, <4>3, Queues
        <5>2. queue' # <<>> /\ Head(queue') = Clearing
          BY <1>1, <4>3, <5>1
        <5> QED
          BY <5>2
      <4> QED
        BY <4>1, <4>2, <4>3
    <3>2. CASE data'.wizard = wizards + 1
      <4>1. events[i].wizard <= wizards /\ events[i].wizard \in Nat
        <5>1. i \in DOMAIN events /\ events[i] \in Event
          BY <1>1, <1>2, <2>2
        <5> QED
          BY <5>1 DEF Numbered, Event, WizardConstants
      <4> QED
        BY <1>1, <1>2, <2>2, <3>2, <4>1
    <3> QED
      BY <2>2, <3>1, <3>2, Numbers
  <2>3. CASE data'.wizard # 0 /\ events' # events
    <3>1. data' = data /\ (data.wizard \in twice' \/ queue' = Append(<<>>, Clearing))
      BY <1>1, <2>3, Outcome
    <3>2. Append(<<>>, Clearing) # <<>> /\ Head(Append(<<>>, Clearing)) = Clearing
      OBVIOUS
    <3> QED
      BY <3>1, <3>2
  <2> QED
    BY <2>1, <2>2, <2>3
<1>3. ASSUME NEW i \in DOMAIN news', news'[i] = data'.wizard
      PROVE  data'.wizard = 0
  <2>1. CASE data' = NoData
    BY <1>1, <2>1
  <2>2. CASE news' = news
    <3>1. CASE data'.wizard = wizards + 1
      <4>1. news[i] <= wizards /\ news[i] \in Nat
        BY <1>1, <1>3, <2>2 DEF Numbered, WizardConstants
      <4> QED
        BY <1>1, <1>3, <2>2, <3>1, <4>1
    <3>2. CASE data'.wizard \in {data.wizard, 0}
      BY <1>3, <2>2, <3>2 DEF Spent
    <3> QED
      BY <3>1, <3>2, Numbers
  <2>3. ASSUME NEW j \in DOMAIN news, news' = RemoveAt(news, j), data' = data
        PROVE  data'.wizard = 0
    <3>1. PICK k \in DOMAIN news : news'[i] = news[k]
      BY <1>1, <2>3, Elsewhere
    <3> QED
      BY <1>3, <2>3, <3>1 DEF Spent
  <2> QED
    BY <2>1, <2>2, <2>3, NewsMade
<1> QED
  BY <1>2, <1>3 DEF Spent

-----------------------------------------------------------------------------
(* Theorems                                                                *)

LEMMA NextInv == ASSUME WizardConstants, IInv, [Next]_vars PROVE IInv'
<1>1. CASE Next
  BY <1>1, TypeInv, ChannelsInv, GatedInv, PagesInv, FollowInv, NumberedInv, OnceInv,
     SpentInv DEF IInv
<1>2. CASE UNCHANGED vars
  BY <1>2 DEF vars, IInv, TypeOK, SourceThere, ChannelsAgree, PagesAgree, Numbered, Spent,
     GatedByOwnChannel, FollowInSync, OncePerWizard, Registered
<1> QED
  BY <1>1, <1>2

\* Dialogs, customs and announcements fit together in every reachable state.
THEOREM Invariant == ASSUME WizardConstants PROVE Spec => []IInv
<1>1. Init => IInv
  BY InitInv
<1>2. IInv /\ [Next]_vars => IInv'
  BY NextInv
<1> QED
  BY <1>1, <1>2, PTL DEF Spec

\* The dialog, its queue and what it registers keep their types.
THEOREM TypeCorrect == ASSUME WizardConstants PROVE Spec => []TypeOK
<1>1. IInv => TypeOK
  BY DEF IInv
<1> QED
  BY <1>1, Invariant, PTL

\* The channel a custom is shown with is one it asks for, wherever the dialog went
\* and whatever Redis evicted, unless a step of the channels ran out of turn
\* (_publish_custom, create_event).
THEOREM OwnChannel == ASSUME WizardConstants PROVE Spec => []GatedByOwnChannel
<1>1. IInv => GatedByOwnChannel
  BY DEF IInv
<1> QED
  BY <1>1, Invariant, PTL

\* The page of a custom and its list of pages come together (_finish_social_step).
THEOREM PagesTogether == ASSUME WizardConstants PROVE Spec => []FollowInSync
<1>1. IInv => FollowInSync
  BY DEF IInv
<1> QED
  BY <1>1, Invariant, PTL

\* A dialog makes one custom and one announcement, unless it was to be tried again
\* or somebody was waiting at the commit (_publish_custom, ann_finish).
THEOREM OneEach == ASSUME WizardConstants PROVE Spec => []OncePerWizard
<1>1. IInv => OncePerWizard
  BY DEF IInv
<1> QED
  BY <1>1, Invariant, PTL

-----------------------------------------------------------------------------
(***************************************************************************)
(* The entry of a room                                                     *)
(***************************************************************************)

-----------------------------------------------------------------------------
(* The inductive invariant                                                 *)

\* What Redis keeps of a custom is the pair entered last, if Redis took that one.
KeptIsEntered == \A e \in Customs : stored[e] # Missing => stored[e] = entered[e] \/ e \in unkept

\* While the dialog waits for a confirmation, its pair is the one entered last for
\* its custom, whether shown or not.
DialogIsEntered ==
    state = "confirm" =>
        /\ data.event \in Customs
        /\ entered[data.event] = Entry!Entered(data.room, data.pass)

EntryIInv == Entry!TypeOK /\ KeptIsEntered /\ DialogIsEntered

-----------------------------------------------------------------------------
(* Steps                                                                   *)

LEMMA EntryInitInv == ASSUME Entry!EntryConstants, Entry!Init PROVE EntryIInv
<1>1. /\ state \in Entry!States /\ data \in Entry!Data /\ unkept \subseteq Customs
      /\ queue \in Seq([at : Entry!States, ends : Customs \cup {Missing}])
  BY DEF Entry!Init, Entry!States, Entry!Data, Entry!NoData
<1>2. custom \in [Customs -> [due : BOOLEAN, open : BOOLEAN, sent : BOOLEAN]]
  BY DEF Entry!Init
<1>3. /\ stored \in [Customs -> Entry!Pair \cup {Missing}] /\ creds \in [Customs -> Entry!Pair \cup {Missing}]
      /\ entered \in [Customs -> Entry!Pair \cup {Missing}] /\ buttons \subseteq Customs
  BY DEF Entry!Init
<1>4. confirms \in [Customs -> 0..MaxConfirms]
  BY DEF Entry!Init, Entry!EntryConstants
<1> QED
  BY <1>1, <1>2, <1>3, <1>4 DEF EntryIInv, Entry!TypeOK, KeptIsEntered, DialogIsEntered, Entry!Init

\* The queue gives up its first update.
LEMMA QueueMoves ==
    ASSUME Entry!TypeOK, Entry!Turn
    PROVE  queue' \in Seq([at : Entry!States, ends : Customs \cup {Missing}])
  BY DEF Entry!TypeOK, Entry!Turn, Entry!Waits

\* A pair that is entered goes to the dialog and to its custom; the dialog waits for
\* a confirmation if it did before or if the pair was shown.
LEMMA OfferInv ==
    ASSUME EntryIInv, NEW e \in Customs, NEW pair \in Entry!Pair, Entry!Offer(e, pair), Entry!Turn, Entry!Outside
    PROVE  EntryIInv'
<1>1. queue' \in Seq([at : Entry!States, ends : Customs \cup {Missing}])
  BY QueueMoves DEF EntryIInv
<1>2. CASE UNCHANGED <<state, data>> /\ Entry!Kept
  BY <1>1, <1>2 DEF Entry!Outside, Entry!Kept, EntryIInv, Entry!TypeOK, KeptIsEntered,
                    DialogIsEntered
<1>3. CASE /\ data' = [event |-> e, room |-> pair.room, pass |-> pair.pass]
           /\ entered' = [entered EXCEPT ![e] = pair]
           /\ \/ stored' = [stored EXCEPT ![e] = pair] /\ unkept' = unkept \ {e}
              \/ UNCHANGED stored /\ unkept' = unkept \cup {e}
           /\ \/ UNCHANGED <<buttons, state>>
              \/ buttons' = buttons \cup {e} /\ state' \in {state, "confirm"}
  <2>1. data' \in Entry!Data /\ data'.event = e /\ Entry!Entered(data'.room, data'.pass) = pair
    BY <1>3 DEF Entry!Data, Entry!Pair, Entry!Entered
  <2>2. /\ entered' \in [Customs -> Entry!Pair \cup {Missing}] /\ entered'[e] = pair
        /\ \A f \in Customs \ {e} : entered'[f] = entered[f]
    BY <1>3 DEF EntryIInv, Entry!TypeOK
  <2>3. /\ stored' \in [Customs -> Entry!Pair \cup {Missing}]
        /\ \A f \in Customs \ {e} : stored'[f] = stored[f] /\ (f \in unkept' <=> f \in unkept)
        /\ stored'[e] = pair \/ e \in unkept'
    BY <1>3 DEF EntryIInv, Entry!TypeOK
  <2>4. unkept' \subseteq Customs /\ buttons' \subseteq Customs
    BY <1>3 DEF EntryIInv, Entry!TypeOK
  <2>5. state' \in Entry!States
    BY <1>3 DEF EntryIInv, Entry!TypeOK, Entry!States
  <2>6. Entry!TypeOK'
    BY <1>1, <2>1, <2>2, <2>3, <2>4, <2>5 DEF EntryIInv, Entry!TypeOK, Entry!Outside
  <2>7. KeptIsEntered'
    BY <2>2, <2>3 DEF EntryIInv, KeptIsEntered
  <2>8. DialogIsEntered'
    BY <2>1, <2>2 DEF DialogIsEntered
  <2> QED
    BY <2>6, <2>7, <2>8 DEF EntryIInv
<1> QED
  BY <1>2, <1>3 DEF Entry!Offer

\* What does not take a pair leaves the pairs alone, and the dialog does not wait
\* for a confirmation it was not waiting for.
LEMMA Quiet ==
    ASSUME EntryIInv, Entry!Kept, data' \in Entry!Data,
           queue' \in Seq([at : Entry!States, ends : Customs \cup {Missing}]),
           state' \in Entry!States,
           state' # "confirm" \/ (state' = state /\ data' = data),
           creds' \in [Customs -> Entry!Pair \cup {Missing}],
           confirms' \in [Customs -> 0..MaxConfirms],
           custom' \in [Customs -> [due : BOOLEAN, open : BOOLEAN, sent : BOOLEAN]]
    PROVE  EntryIInv'
  BY DEF Entry!Kept, EntryIInv, Entry!TypeOK, KeptIsEntered, DialogIsEntered

\* The types a step leaves behind that only moves the dialog.
LEMMA Typed ==
    ASSUME Entry!TypeOK
    PROVE  /\ state \in Entry!States /\ data \in Entry!Data /\ Entry!NoData \in Entry!Data
           /\ Entry!Turn => queue' \in Seq([at : Entry!States, ends : Customs \cup {Missing}])
           /\ Entry!Outside => /\ creds' \in [Customs -> Entry!Pair \cup {Missing}]
                         /\ confirms' \in [Customs -> 0..MaxConfirms]
                         /\ custom' \in [Customs -> [due : BOOLEAN, open : BOOLEAN, sent : BOOLEAN]]
<1>1. Entry!NoData \in Entry!Data
  BY DEF Entry!Data, Entry!NoData
<1>2. Entry!Outside => /\ creds' \in [Customs -> Entry!Pair \cup {Missing}]
                 /\ confirms' \in [Customs -> 0..MaxConfirms]
                 /\ custom' \in [Customs -> [due : BOOLEAN, open : BOOLEAN, sent : BOOLEAN]]
  BY DEF Entry!Outside, Entry!TypeOK
<1> QED
  BY <1>1, <1>2, QueueMoves DEF Entry!TypeOK

LEMMA EntryInv == ASSUME EntryIInv, Entry!Entry PROVE EntryIInv'
<1>1. Entry!TypeOK
  BY DEF EntryIInv
<1>2. CASE Entry!Arrive
  <2>1. Entry!Update(state) \in [at : Entry!States, ends : Customs \cup {Missing}]
    BY <1>1, Typed DEF Entry!Update
  <2>2. queue' \in Seq([at : Entry!States, ends : Customs \cup {Missing}])
    BY <1>1, <1>2, <2>1 DEF Entry!Arrive, Entry!TypeOK
  <2> QED
    BY <1>1, <1>2, <2>2, Typed, Quiet DEF Entry!Arrive
<1>3. CASE Entry!ReceivePasswordFirst
  <2>1. state' \in Entry!States /\ state' # "confirm"
    BY <1>3 DEF Entry!ReceivePasswordFirst, Entry!States
  <2> QED
    BY <1>1, <1>3, <2>1, Typed, Quiet DEF Entry!ReceivePasswordFirst, Entry!Dispatched
<1>4. CASE Entry!EntryRefused
  <2>1. state' \in Entry!States /\ state' # "confirm" /\ data' \in Entry!Data
    BY <1>1, <1>4, Typed DEF Entry!EntryRefused, Entry!Forget, Entry!States
  <2> QED
    BY <1>1, <1>4, <2>1, Typed, Quiet DEF Entry!EntryRefused
<1>5. ASSUME NEW e \in Customs, Entry!AskLiveCreds(e) PROVE EntryIInv'
  <2>1. state' \in Entry!States /\ state' # "confirm"
    BY <1>5 DEF Entry!AskLiveCreds, Entry!States
  <2>2. data' \in Entry!Data
    BY <1>1, <1>5, Typed DEF Entry!AskLiveCreds, Entry!Data
  <2> QED
    BY <1>1, <1>5, <2>1, <2>2, Typed, Quiet DEF Entry!AskLiveCreds
<1>6. ASSUME NEW e \in Customs, Entry!MaybeLiveCreds(e) PROVE EntryIInv'
  <2>1. Entry!Turn /\ Entry!Outside
    BY <1>6 DEF Entry!MaybeLiveCreds, Entry!Dispatched
  <2>2. ASSUME NEW r \in RoomIds, NEW p \in Passwords, Entry!Offer(e, Entry!Entered(r, p))
        PROVE EntryIInv'
    <3>1. Entry!Entered(r, p) \in Entry!Pair
      BY DEF Entry!Entered, Entry!Pair
    <3> QED
      BY <2>1, <2>2, <3>1, OfferInv
  <2>3. ASSUME NEW r \in RoomIds, state' = "password",
               data' = [data EXCEPT !.event = e, !.room = r], Entry!Kept
        PROVE  EntryIInv'
    <3>1. state' \in Entry!States /\ state' # "confirm"
      BY <2>3 DEF Entry!States
    <3>2. data' \in Entry!Data
      BY <1>1, <2>3, Typed DEF Entry!Data
    <3> QED
      BY <1>1, <2>1, <2>3, <3>1, <3>2, Typed, Quiet
  <2> QED
    BY <1>6, <2>2, <2>3 DEF Entry!MaybeLiveCreds
<1>7. ASSUME NEW r \in RoomIds, Entry!ReceiveRoomId(r) PROVE EntryIInv'
  <2>1. state' \in Entry!States /\ state' # "confirm"
    BY <1>7 DEF Entry!ReceiveRoomId, Entry!States
  <2>2. data' \in Entry!Data
    BY <1>1, <1>7, Typed DEF Entry!ReceiveRoomId, Entry!Data
  <2> QED
    BY <1>1, <1>7, <2>1, <2>2, Typed, Quiet DEF Entry!ReceiveRoomId, Entry!Dispatched
<1>8. ASSUME NEW p \in Passwords, Entry!ReceivePassword(p) PROVE EntryIInv'
  <2>1. data.event \in Customs /\ data.room \in RoomIds
    BY <1>1, <1>8, Typed DEF Entry!ReceivePassword, Entry!Data
  <2>2. Entry!Entered(data.room, p) \in Entry!Pair
    BY <2>1 DEF Entry!Entered, Entry!Pair
  <2> QED
    BY <1>8, <2>1, <2>2, OfferInv DEF Entry!ReceivePassword, Entry!Dispatched
<1>9. ASSUME NEW r \in RoomIds, NEW p \in Passwords, Entry!ReceiveBoth(r, p) PROVE EntryIInv'
  <2>1. data.event \in Customs
    BY <1>1, <1>9, Typed DEF Entry!ReceiveBoth, Entry!Data
  <2>2. Entry!Entered(r, p) \in Entry!Pair
    BY DEF Entry!Entered, Entry!Pair
  <2> QED
    BY <1>9, <2>1, <2>2, OfferInv DEF Entry!ReceiveBoth, Entry!Dispatched
<1>10. CASE Entry!RemindConfirm
  <2>1. /\ UNCHANGED <<state, data, stored, entered, unkept>> /\ Entry!Turn /\ Entry!Outside
        /\ buttons' = buttons \cup {data.event} /\ data.event # Missing
    BY <1>10 DEF Entry!RemindConfirm, Entry!Dispatched
  <2>2. buttons' \subseteq Customs
    BY <1>1, <2>1 DEF Entry!TypeOK, Entry!Data
  <2>3. Entry!TypeOK'
    BY <1>1, <2>1, <2>2, Typed DEF Entry!TypeOK
  <2>4. KeptIsEntered' /\ DialogIsEntered'
    BY <2>1 DEF EntryIInv, KeptIsEntered, DialogIsEntered
  <2> QED
    BY <2>3, <2>4 DEF EntryIInv
<1> QED
  BY <1>2, <1>3, <1>4, <1>5, <1>6, <1>7, <1>8, <1>9, <1>10 DEF Entry!Entry

\* Redis may forget a pair; it does not get another one.
LEMMA ForgetfulInv ==
    ASSUME EntryIInv, NEW e \in Customs,
           stored' \in {stored, [stored EXCEPT ![e] = Missing]},
           UNCHANGED <<buttons, entered, unkept>>, Entry!Outside,
           queue' \in Seq([at : Entry!States, ends : Customs \cup {Missing}]),
           state' \in Entry!States, data' \in Entry!Data,
           state' # "confirm" \/ (state' = state /\ data' = data)
    PROVE  EntryIInv'
<1>1. stored' \in [Customs -> Entry!Pair \cup {Missing}]
  BY DEF EntryIInv, Entry!TypeOK
<1>2. Entry!TypeOK'
  BY <1>1, Typed DEF EntryIInv, Entry!TypeOK, Entry!Outside
<1>3. \A f \in Customs : stored'[f] = stored[f] \/ stored'[f] = Missing
  BY DEF EntryIInv, Entry!TypeOK
<1>4. KeptIsEntered' /\ DialogIsEntered'
  BY <1>3 DEF EntryIInv, KeptIsEntered, DialogIsEntered
<1> QED
  BY <1>2, <1>4 DEF EntryIInv

LEMMA ConfirmationInv ==
    ASSUME Entry!EntryConstants, EntryIInv, Entry!Confirmation
    PROVE  EntryIInv'
<1>1. Entry!TypeOK
  BY DEF EntryIInv
<1>2. Entry!Forget => state' \in Entry!States /\ state' # "confirm" /\ data' \in Entry!Data
  BY <1>1, Typed DEF Entry!Forget, Entry!States
<1>3. CASE Entry!Leave
  BY <1>1, <1>2, <1>3, Typed, Quiet DEF Entry!Leave
<1>4. CASE Entry!CancelSend
  <2>1. CASE data.event = Missing
    BY <1>1, <1>2, <1>4, <2>1, Typed, Quiet DEF Entry!CancelSend
  <2>2. CASE data.event # Missing
    <3>1. data.event \in Customs
      BY <1>1, <2>2, Typed DEF Entry!Data
    <3> QED
      BY <1>1, <1>2, <1>4, <2>2, <3>1, Typed, ForgetfulInv DEF Entry!CancelSend, Entry!Clear
  <2> QED
    BY <2>1, <2>2
<1>5. ASSUME NEW e \in Customs, Entry!ConfirmRefused(e) PROVE EntryIInv'
  <2>1. Entry!Turn
    BY <1>5 DEF Entry!ConfirmRefused, Entry!ConfirmTapped, Entry!Turn
  <2>2. CASE Entry!Forget
    BY <1>1, <1>2, <1>5, <2>1, <2>2, Typed, Quiet DEF Entry!ConfirmRefused
  <2>3. CASE UNCHANGED <<state, data>>
    BY <1>1, <1>5, <2>1, <2>3, Typed, Quiet DEF Entry!ConfirmRefused
  <2> QED
    BY <1>5, <2>2, <2>3 DEF Entry!ConfirmRefused
<1>6. ASSUME NEW e \in Customs, Entry!Confirm(e) PROVE EntryIInv'
  <2>1. creds' \in [Customs -> Entry!Pair \cup {Missing}]
    BY <1>1, <1>6 DEF Entry!Confirm, Entry!TypeOK
  <2>2. confirms' \in [Customs -> 0..MaxConfirms]
    <3>1. confirms[e] \in Nat /\ confirms[e] + 1 \in 0..MaxConfirms
      BY <1>1, <1>6 DEF Entry!Confirm, Entry!TypeOK, Entry!EntryConstants
    <3> QED
      BY <1>1, <1>6, <3>1 DEF Entry!Confirm, Entry!TypeOK
  <2>3. queue' \in Seq([at : Entry!States, ends : Customs \cup {Missing}])
    <3>1. Entry!Finishing(e) \in [at : Entry!States, ends : Customs \cup {Missing}]
      BY DEF Entry!Finishing, Entry!States
    <3>2. Tail(queue) \in Seq([at : Entry!States, ends : Customs \cup {Missing}])
      BY <1>1, <1>6 DEF Entry!Confirm, Entry!ConfirmTapped, Entry!Waits, Entry!TypeOK
    <3> QED
      BY <1>6, <3>1, <3>2 DEF Entry!Confirm
  <2> QED
    BY <1>1, <1>6, <2>1, <2>2, <2>3, Typed, Quiet DEF Entry!Confirm, Entry!TypeOK
<1>7. ASSUME NEW e \in Customs, Entry!ConfirmEnds(e) PROVE EntryIInv'
  <2>1. queue' \in Seq([at : Entry!States, ends : Customs \cup {Missing}])
    BY <1>1, <1>7 DEF Entry!ConfirmEnds, Entry!TypeOK
  <2>2. CASE Entry!Clear(e) /\ Entry!Forget
    BY <1>1, <1>2, <1>7, <2>1, <2>2, ForgetfulInv DEF Entry!ConfirmEnds, Entry!Clear
  <2>3. CASE Entry!Kept /\ UNCHANGED <<state, data>>
    BY <1>1, <1>7, <2>1, <2>3, Typed, Quiet DEF Entry!ConfirmEnds
  <2> QED
    BY <1>7, <2>2, <2>3 DEF Entry!ConfirmEnds
<1> QED
  BY <1>3, <1>4, <1>5, <1>6, <1>7 DEF Entry!Confirmation

LEMMA AroundInv == ASSUME EntryIInv, Entry!Around PROVE EntryIInv'
<1>1. Entry!TypeOK
  BY DEF EntryIInv
<1>2. CASE Entry!EvictState
  <2>1. state' \in Entry!States /\ state' # "confirm"
    BY <1>2 DEF Entry!EvictState, Entry!States
  <2> QED
    BY <1>1, <1>2, <2>1, Typed, Quiet DEF Entry!EvictState, Entry!TypeOK
<1>3. ASSUME NEW e \in Customs, Entry!Expire(e) PROVE EntryIInv'
  BY <1>1, <1>3, Typed, ForgetfulInv DEF Entry!Expire, Entry!TypeOK
<1>4. ASSUME NEW e \in Customs, NEW c \in [due : BOOLEAN, open : BOOLEAN, sent : BOOLEAN],
             Entry!CustomMoves(e, c)
      PROVE  EntryIInv'
  <2>1. custom' \in [Customs -> [due : BOOLEAN, open : BOOLEAN, sent : BOOLEAN]]
    BY <1>1, <1>4 DEF Entry!CustomMoves, Entry!TypeOK
  <2> QED
    BY <1>1, <1>4, <2>1, Typed, Quiet DEF Entry!CustomMoves, Entry!TypeOK
<1>5. \A e \in Customs :
        /\ [custom[e] EXCEPT !.due = TRUE] \in [due : BOOLEAN, open : BOOLEAN, sent : BOOLEAN]
        /\ [custom[e] EXCEPT !.sent = TRUE] \in [due : BOOLEAN, open : BOOLEAN, sent : BOOLEAN]
        /\ [custom[e] EXCEPT !.open = FALSE] \in [due : BOOLEAN, open : BOOLEAN, sent : BOOLEAN]
  BY <1>1 DEF Entry!TypeOK
<1>6. ASSUME NEW e \in Customs, Entry!TimeComes(e) \/ Entry!SendCredentials(e) \/ Entry!CloseWindow(e)
      PROVE EntryIInv'
  BY <1>4, <1>5, <1>6 DEF Entry!TimeComes, Entry!SendCredentials, Entry!CloseWindow
<1> QED
  BY <1>2, <1>3, <1>6 DEF Entry!Around

LEMMA EntryNextInv ==
    ASSUME Entry!EntryConstants, EntryIInv, [Entry!Next]_(Entry!vars)
    PROVE  EntryIInv'
<1>1. CASE UNCHANGED Entry!vars
  BY <1>1 DEF Entry!vars, EntryIInv, Entry!TypeOK, KeptIsEntered, DialogIsEntered
<1> QED
  BY <1>1, EntryInv, ConfirmationInv, AroundInv DEF Entry!Next

\* Only a button commits, and what it commits was entered last.
LEMMA StepEntered ==
    ASSUME Entry!EntryConstants, EntryIInv, [Entry!Next]_(Entry!vars)
    PROVE  Entry!CommitsTheEntered
<1> SUFFICES ASSUME NEW e \in Customs, confirms'[e] > confirms[e]
             PROVE  \/ creds'[e] = entered[e]
                    \/ e \in unkept
                    \/ stored[e] = Missing /\ (data.event # e \/ state # "confirm")
  BY DEF Entry!CommitsTheEntered
<1>1. \A f \in Customs : confirms[f] \in Nat
  BY DEF EntryIInv, Entry!TypeOK, Entry!EntryConstants
<1>2. confirms' # confirms
  BY <1>1
<1>3. PICK f \in Customs : Entry!Confirm(f)
  <2>1. ~UNCHANGED Entry!vars
    BY <1>2 DEF Entry!vars
  <2>2. ~Entry!Entry
    BY <1>2 DEF Entry!Entry, Entry!Arrive, Entry!ReceivePasswordFirst, Entry!EntryRefused,
                Entry!AskLiveCreds, Entry!MaybeLiveCreds, Entry!ReceiveRoomId,
                Entry!ReceivePassword, Entry!ReceiveBoth, Entry!RemindConfirm, Entry!Outside
  <2>3. ~Entry!Around
    BY <1>2 DEF Entry!Around, Entry!EvictState, Entry!Expire, Entry!TimeComes,
                Entry!SendCredentials, Entry!CloseWindow, Entry!CustomMoves, Entry!Outside
  <2>4. Entry!Confirmation
    BY <2>1, <2>2, <2>3 DEF Entry!Next
  <2> QED
    BY <1>2, <2>4 DEF Entry!Confirmation, Entry!CancelSend, Entry!Leave, Entry!ConfirmRefused,
                      Entry!ConfirmEnds, Entry!Outside
<1>4. e = f
  BY <1>1, <1>3 DEF Entry!Confirm, EntryIInv, Entry!TypeOK
<1>5. creds'[e] = Entry!Loaded(e)
  BY <1>3, <1>4 DEF Entry!Confirm, EntryIInv, Entry!TypeOK
<1>6. CASE stored[e] # Missing
  BY <1>5, <1>6 DEF Entry!Loaded, EntryIInv, KeptIsEntered
<1>7. CASE stored[e] = Missing
  BY <1>5, <1>7 DEF Entry!Loaded, EntryIInv, DialogIsEntered
<1> QED
  BY <1>6, <1>7

-----------------------------------------------------------------------------
(* Theorems                                                                *)

\* What Redis keeps of a custom and what a dialog that waits for a confirmation
\* holds is the pair entered last for that custom, although storing it, showing it
\* and setting the state are three steps of which the last two may fail; only what
\* Redis did not take is another one (_offer_creds_confirm).
THEOREM EntryInvariant == ASSUME Entry!EntryConstants PROVE Entry!Spec => []EntryIInv
<1>1. Entry!Init => EntryIInv
  BY EntryInitInv
<1>2. EntryIInv /\ [Entry!Next]_(Entry!vars) => EntryIInv'
  BY EntryNextInv
<1> QED
  BY <1>1, <1>2, PTL DEF Entry!Spec

\* The dialog, its data and what it commits keep their types.
THEOREM EntryTypeCorrect == ASSUME Entry!EntryConstants PROVE Entry!Spec => []Entry!TypeOK
<1>1. EntryIInv => Entry!TypeOK
  BY DEF EntryIInv
<1> QED
  BY <1>1, EntryInvariant, PTL

\* A confirmation commits the pair entered last for its custom, however old its
\* button is, unless Redis did not take that pair or has lost it while the dialog
\* went on (confirm_creds_send).
THEOREM EnteredIsCommitted == ASSUME Entry!EntryConstants PROVE Entry!Spec => Entry!SentAsEntered
<1>1. EntryIInv /\ [Entry!Next]_(Entry!vars) => [Entry!CommitsTheEntered]_(Entry!vars)
  BY StepEntered
<1> QED
  BY <1>1, EntryInvariant, PTL DEF Entry!Spec, Entry!SentAsEntered
=============================================================================
