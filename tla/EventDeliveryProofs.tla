--------------------------- MODULE EventDeliveryProofs --------------------------
(***************************************************************************)
(* Proofs about EventDelivery: the hub never sends on a closed queue, and  *)
(* the worker serves the channels that stay on and no others, for any      *)
(* number of events, settings, workers, browsers and broadcasters.         *)
(***************************************************************************)
EXTENDS EventDelivery, WellFoundedInduction, TLAPS

--------------------------------------------------------------------------------
(* The hub.                                                                *)

\* Who is held and whose queue is closed follows from the handler alone, so a
\* registered client has an open queue; and broadcasters, who exclude each removal,
\* hold registered clients only.
HubInv ==
    /\ NoClientIsLeaked
    /\ \A b \in Broadcasters : Sending(b) => broadcaster[b].left \subseteq registered

\* The types HubInv rests on.
HubTypes ==
    /\ registered \subseteq Clients
    /\ closed \subseteq Clients
    /\ DOMAIN handler = Clients
    /\ broadcaster \in [Broadcasters -> {Quiet} \cup [step : {"offer"}, left : SUBSET Clients]]

HubOK == HubTypes /\ HubInv

\* A client's queue, connection, writer and topics do not matter.
LEMMA HubUnchanged ==
    ASSUME HubOK, UNCHANGED <<registered, closed, handler, broadcaster>>
    PROVE  HubOK'
BY DEF HubOK, HubTypes, HubInv, NoClientIsLeaked, Sending

\* A step of a broadcaster.
LEMMA BroadcasterKeepsHub ==
    ASSUME HubOK, NEW b \in Broadcasters, BroadcasterStep(b)
    PROVE  HubOK'
<1> USE DEF HubOK, HubTypes, HubInv, NoClientIsLeaked, Sending
<1>1. CASE BeginBroadcast(b)
  <2> DEFINE to == [step |-> "offer", left |-> registered]
  <2>1. /\ broadcaster' = [broadcaster EXCEPT ![b] = to]
        /\ UNCHANGED <<registered, closed, handler>>
    BY <1>1 DEF BeginBroadcast, clientVars
  <2>2. to \in [step : {"offer"}, left : SUBSET Clients]
    OBVIOUS
  <2> QED
    BY <2>1, <2>2
<1>2. ASSUME NEW c \in Clients, Offer(b, c) PROVE HubOK'
  <2> DEFINE to == [broadcaster[b] EXCEPT !.left = @ \ {c}]
  <2>1. /\ broadcaster' = [broadcaster EXCEPT ![b] = to]
        /\ broadcaster[b] \in [step : {"offer"}, left : SUBSET Clients]
        /\ UNCHANGED <<registered, closed, handler>>
    BY <1>2 DEF Offer, clientVars
  <2>2. /\ to \in [step : {"offer"}, left : SUBSET Clients]
        /\ to.left \subseteq broadcaster[b].left
    BY <2>1
  <2>3. broadcaster[b].left \subseteq registered
    BY <1>2 DEF Offer
  <2> QED
    BY <2>1, <2>2, <2>3
<1>3. CASE EndBroadcast(b)
  BY <1>3 DEF EndBroadcast, clientVars
<1> QED
  BY <1>1, <1>2, <1>3 DEF BroadcasterStep

\* A step of a client.
LEMMA ClientKeepsHub ==
    ASSUME HubOK, NEW c \in Clients, ClientStep(c)
    PROVE  HubOK'
<1>1. CASE Connect(c)
  BY <1>1 DEF Connect, HubOK, HubTypes, HubInv, NoClientIsLeaked, Unlocked, Sending
<1>2. CASE Acknowledge(c)
  BY <1>2 DEF Acknowledge, HubOK, HubTypes, HubInv, NoClientIsLeaked, Sending
<1>3. ASSUME NEW wanted \in Subscriptions, Subscribe(c, wanted) PROVE HubOK'
  BY <1>3, HubUnchanged DEF Subscribe
<1>4. ASSUME NEW topic \in Topics, AddTopic(c, topic) PROVE HubOK'
  BY <1>4, HubUnchanged DEF AddTopic
<1>5. CASE ConnectionBreaks(c)
  BY <1>5, HubUnchanged DEF ConnectionBreaks
<1>6. CASE ReadFails(c)
  BY <1>6 DEF ReadFails, HubOK, HubTypes, HubInv, NoClientIsLeaked, Sending
<1>7. CASE Remove(c)
  BY <1>7 DEF Remove, HubOK, HubTypes, HubInv, NoClientIsLeaked, Unlocked, Sending
<1>8. CASE TakeMessage(c)
  BY <1>8, HubUnchanged DEF TakeMessage
<1>9. CASE WriteMessage(c)
  BY <1>9, HubUnchanged DEF WriteMessage
<1>10. CASE WriterEnds(c)
  BY <1>10, HubUnchanged DEF WriterEnds
<1> QED
  BY <1>1, <1>2, <1>3, <1>4, <1>5, <1>6, <1>7, <1>8, <1>9, <1>10 DEF ClientStep

\* The process stops.
LEMMA StopKeepsHub == HubStops => HubOK'
BY DEF HubStops, HubOK, HubTypes, HubInv, NoClientIsLeaked, Sending, Quiet

\* Settings are announced.
LEMMA AnnounceKeepsHub ==
    ASSUME HubOK, NEW b, Announce(b)
    PROVE  HubOK'
BY HubUnchanged DEF Announce, Receive, hubVars, clientVars

\* Every step.
LEMMA HubStep ==
    ASSUME HubOK, deployed \in Deployments, [Next]_vars
    PROVE  HubOK'
<1>1. CASE Shared
  BY <1>1, AnnounceKeepsHub DEF Shared, Publish, SaveChannel, SaveRule
<1>2. CASE UNCHANGED hubVars
  BY <1>2, HubUnchanged DEF hubVars, clientVars
<1>3. ASSUME NEW b \in Broadcasters, BroadcasterStep(b) PROVE HubOK'
  BY <1>3, BroadcasterKeepsHub
<1>4. ASSUME NEW c \in Clients, ClientStep(c) PROVE HubOK'
  BY <1>4, ClientKeepsHub
<1>5. ASSUME NEW b \in Broadcasters, NEW c \in Clients, TopicsRace(b, c) PROVE HubOK'
  BY <1>5, StopKeepsHub DEF TopicsRace
<1>6. CASE HubStops
  BY <1>6, StopKeepsHub
<1> QED
  BY <1>1, <1>2, <1>3, <1>4, <1>5, <1>6, DeliveryAssumption DEF Next, vars

--------------------------------------------------------------------------------
(* The notification worker: what it holds.                                 *)

\* The channels that have been on, under rules that admit e, since e was published.
Steady(e) == {ch \in Channels : \A view \in seen[e] : ch \in view.on /\ view.admitted}
Done(e) == {ch \in Channels : <<e, ch>> \in recorded}

\* Whoever is published has been seen under the present settings.
ViewsAreCurrent ==
    \A e \in Events : Published(e) => ViewOf(e, channels, rules) \in seen[e]

\* What worker w has left to do, and what it may do.
WorkerOK(w) ==
    LET p == notifier[w] IN
    /\ p.step = "sync" => /\ p.channels \subseteq DOMAIN Config.channels
                          /\ p.rules \subseteq DOMAIN Config.rules
    /\ p.step \in {"rules", "send", "record"} =>
          /\ Published(p.event)
          /\ Steady(p.event) \subseteq p.left \cup Done(p.event)
          /\ \A ch \in p.left : \E view \in seen[p.event] : ch \in view.on
    /\ p.step \in {"send", "record"} =>
          /\ p.left # {}
          /\ \E view \in seen[p.event] : view.admitted
    /\ p.step = "ack" =>
          /\ Published(p.event)
          /\ Steady(p.event) \subseteq Done(p.event)

NotifierInv ==
    /\ NotifierTypeOK
    /\ \A e \in waiting : Published(e)
    /\ ViewsAreCurrent
    /\ \A w \in Workers : WorkerOK(w)
    /\ SteadyChannelsAreServed
    /\ SilencedChannelsStaySilent

\* A set of channels that is not empty has a least one, which Min chooses.
LEMMA MinIsMember ==
    ASSUME NEW S \in SUBSET Channels, S # {}
    PROVE  Min(S) \in S
<1> DEFINE R == {ss \in Nat \X Nat : ss[1] < ss[2]}
<1>1. S \subseteq Nat
  BY DEF Channels
<1>2. IsWellFoundedOn(R, Nat)
  BY NatLessThanWellFounded, Zenon DEF OpToRel
<1>3. \E x \in S : \A y \in S : ~ (<<y, x>> \in R)
  <2> HIDE DEF R
  <2> QED
    BY <1>1, <1>2, WFMin, Zenon
<1>4. \E x \in S : \A y \in S : x =< y
  <2>1. PICK x \in S : \A y \in S : ~ (<<y, x>> \in R)
    BY <1>3
  <2>2. ASSUME NEW y \in S PROVE x =< y
    <3>1. x \in Nat /\ y \in Nat /\ <<y, x>> \in Nat \X Nat
      BY <1>1, <2>1
    <3>2. ~ (<<y, x>>[1] < <<y, x>>[2])
      BY <2>1, <3>1, Zenon
    <3> QED
      BY <3>1, <3>2
  <2> QED
    BY <2>2
<1> QED
  BY <1>4 DEF Min

--------------------------------------------------------------------------------
(* The notification worker: settings and events.                           *)

\* What the settings say of an event is a view.
LEMMA ViewOfType ==
    ASSUME NEW e \in Events, NEW cs, NEW rs
    PROVE  ViewOf(e, cs, rs) \in View
<1>1. Enabled(cs) \subseteq Channels
  BY DEF Enabled
<1>2. Admits(e, rs) \in BOOLEAN
  BY DEF Admits
<1> QED
  BY <1>1, <1>2 DEF ViewOf, View

\* The event of a worker, when it has one, and the channels it still has to serve.
LEMMA WorkersHold ==
    ASSUME NotifierTypeOK, NEW w \in Workers
    PROVE  /\ notifier[w].step \in {"rules", "send", "record", "ack"} =>
                  notifier[w].event \in Events
           /\ notifier[w].step \in {"rules", "send", "record"} =>
                  notifier[w].left \subseteq Channels
BY DEF NotifierTypeOK, NotifierStates, Down, Idle

\* A worker that does not move keeps what it holds while views and records grow.
LEMMA WorkerStays ==
    ASSUME NotifierTypeOK, NEW w \in Workers, WorkerOK(w), notifier'[w] = notifier[w],
           \A e \in Events : seen[e] \subseteq seen'[e],
           recorded \subseteq recorded'
    PROVE  WorkerOK(w)'
<1>1. \A e \in Events : /\ Steady(e)' \subseteq Steady(e)
                        /\ Done(e) \subseteq Done(e)'
                        /\ Published(e) => Published(e)'
  BY DEF Steady, Done, Published
<1> QED
  BY <1>1, WorkersHold DEF WorkerOK

\* Settings are saved.
LEMMA SaveKeeps ==
    ASSUME NotifierInv,
           NEW cs \in [Channels -> {"none", "on", "off"}],
           NEW rs \in [Rules -> Rule \cup {NoRule}],
           Save(cs, rs), UNCHANGED <<waiting, called, recorded>>,
           notifier' \in [Workers -> NotifierStates], edits' \in 0 .. MaxEdits,
           \A w \in Workers : notifier'[w] = notifier[w] \/ WorkerOK(w)'
    PROVE  NotifierInv'
<1> USE DEF NotifierInv
<1>1. /\ channels' = cs /\ rules' = rs
      /\ DOMAIN seen' = Events /\ DOMAIN seen = Events
      /\ \A e \in Events : seen[e] \in SUBSET View
      /\ \A e \in Events : seen'[e] =
            IF Published(e) THEN seen[e] \cup {ViewOf(e, cs, rs)} ELSE {}
  BY DEF Save, NotifierTypeOK
<1>2. \A e \in Events : seen[e] \subseteq seen'[e] /\ (Published(e)' <=> Published(e))
  BY <1>1 DEF Published
<1>3. seen' \in [Events -> SUBSET View]
  <2>1. \A e \in Events : seen'[e] \in SUBSET View
    BY <1>1, ViewOfType
  <2> QED
    BY <1>1, <2>1 DEF Save
<1>4. NotifierTypeOK'
  BY <1>1, <1>3 DEF NotifierTypeOK
<1>5. ViewsAreCurrent'
  <2>1. \A e \in Events : ViewOf(e, channels, rules)' = ViewOf(e, cs, rs)
    BY <1>1 DEF ViewOf, Enabled, Admits, Matching
  <2> QED
    BY <1>1, <1>2, <2>1 DEF ViewsAreCurrent
<1>6. \A w \in Workers : WorkerOK(w)'
  BY <1>2, WorkerStays
<1>7. SteadyChannelsAreServed'
  BY <1>2 DEF SteadyChannelsAreServed
<1>8. SilencedChannelsStaySilent'
  BY <1>2 DEF SilencedChannelsStaySilent, NotifierTypeOK
<1>9. \A e \in waiting' : Published(e)'
  BY <1>2 DEF NotifierTypeOK
<1> QED
  BY <1>4, <1>5, <1>6, <1>7, <1>8, <1>9

\* A user saves settings.
LEMMA EditKeeps ==
    ASSUME NotifierInv,
           \/ \E ch \in Channels, value \in {"on", "off"} : EditChannel(ch, value)
           \/ \E r \in Rules, rule \in RuleEdits : EditRule(r, rule)
    PROVE  NotifierInv'
<1>1. /\ edits \in 0 .. MaxEdits
      /\ channels \in [Channels -> {"none", "on", "off"}]
      /\ rules \in [Rules -> Rule \cup {NoRule}]
      /\ notifier \in [Workers -> NotifierStates]
  BY DEF NotifierInv, NotifierTypeOK
<1>2. /\ edits < MaxEdits /\ edits' = edits + 1
      /\ UNCHANGED <<waiting, called, recorded, notifier>>
  BY DEF EditChannel, EditRule
<1>3. edits' \in 0 .. MaxEdits
  BY <1>1, <1>2, NotificationsAssumption
<1>4. ASSUME NEW ch \in Channels, NEW value \in {"on", "off"}, EditChannel(ch, value)
      PROVE  NotifierInv'
  <2>1. [channels EXCEPT ![ch] = value] \in [Channels -> {"none", "on", "off"}]
    BY <1>1
  <2>2. Save([channels EXCEPT ![ch] = value], rules)
    BY <1>4 DEF EditChannel
  <2> QED
    BY <1>1, <1>2, <1>3, <2>1, <2>2, SaveKeeps
<1>5. ASSUME NEW r \in Rules, NEW rule \in RuleEdits, EditRule(r, rule)
      PROVE  NotifierInv'
  <2>1. [rules EXCEPT ![r] = rule] \in [Rules -> Rule \cup {NoRule}]
    BY <1>1, NotificationsAssumption
  <2>2. Save(channels, [rules EXCEPT ![r] = rule])
    BY <1>5 DEF EditRule
  <2> QED
    BY <1>1, <1>2, <1>3, <2>1, <2>2, SaveKeeps
<1> QED
  BY <1>4, <1>5

\* An event is published.
LEMMA PublishKeeps ==
    ASSUME NotifierInv, NEW e \in Events, PublishEvent(e)
    PROVE  NotifierInv'
<1> USE DEF NotifierInv
<1>1. /\ ~ Published(e) /\ waiting' = waiting \cup {e}
      /\ UNCHANGED <<channels, rules, called, recorded, notifier, edits>>
      /\ seen' = [seen EXCEPT ![e] = {ViewOf(e, channels, rules)}]
  BY DEF PublishEvent, settings
<1>2. /\ seen' \in [Events -> SUBSET View]
      /\ seen'[e] = {ViewOf(e, channels, rules)}
      /\ \A d \in Events : d # e => seen'[d] = seen[d]
      /\ \A d \in Events : seen[d] \subseteq seen'[d]
      /\ \A d \in Events : Published(d)' <=> Published(d) \/ d = e
  BY <1>1, ViewOfType DEF NotifierTypeOK, Published
<1>3. NotifierTypeOK'
  BY <1>1, <1>2 DEF NotifierTypeOK
<1>4. ViewsAreCurrent'
  <2>1. \A d \in Events : ViewOf(d, channels, rules)' = ViewOf(d, channels, rules)
    BY <1>1 DEF ViewOf, Enabled, Admits, Matching
  <2> QED
    BY <1>2, <2>1 DEF ViewsAreCurrent
<1>5. \A w \in Workers : WorkerOK(w)'
  BY <1>1, <1>2, WorkerStays
<1>6. SteadyChannelsAreServed'
  BY <1>1, <1>2 DEF SteadyChannelsAreServed
<1>7. SilencedChannelsStaySilent'
  BY <1>1, <1>2 DEF SilencedChannelsStaySilent, NotifierTypeOK
<1>8. \A d \in waiting' : Published(d)'
  BY <1>1, <1>2 DEF NotifierTypeOK
<1> QED
  BY <1>3, <1>4, <1>5, <1>6, <1>7, <1>8

--------------------------------------------------------------------------------
(* The notification worker: its own steps.                                 *)

\* A worker moves, and whatever it writes fits its new state and the properties.
LEMMA MoveKeeps ==
    ASSUME NotifierInv, NEW w \in Workers, NEW to \in NotifierStates, NotifierMoves(w, to),
           UNCHANGED <<channels, rules, edits, seen>>,
           waiting' \subseteq waiting,
           called' \subseteq Events \X Channels,
           recorded \subseteq recorded', recorded' \subseteq Events \X Channels,
           WorkerOK(w)', SteadyChannelsAreServed', SilencedChannelsStaySilent'
    PROVE  NotifierInv'
<1> USE DEF NotifierInv
<1>1. /\ notifier' \in [Workers -> NotifierStates]
      /\ \A v \in Workers : v # w => notifier'[v] = notifier[v]
  BY DEF NotifierTypeOK, NotifierMoves
<1>2. NotifierTypeOK'
  BY <1>1 DEF NotifierTypeOK
<1>3. ViewsAreCurrent'
  BY DEF ViewsAreCurrent, Published, ViewOf, Enabled, Admits, Matching
<1>4. \A v \in Workers : WorkerOK(v)'
  BY <1>1, WorkerStays
<1>5. \A e \in waiting' : Published(e)'
  BY DEF Published
<1> QED
  BY <1>2, <1>3, <1>4, <1>5

\* A worker moves and writes nothing.
LEMMA MoveOnlyKeeps ==
    ASSUME NotifierInv, NEW w \in Workers, NEW to \in NotifierStates, NotifierMoves(w, to),
           UNCHANGED <<channels, rules, waiting, called, recorded, edits, seen>>,
           WorkerOK(w)'
    PROVE  NotifierInv'
<1>1. SteadyChannelsAreServed' /\ SilencedChannelsStaySilent'
  BY DEF NotifierInv, SteadyChannelsAreServed, SilencedChannelsStaySilent, Published
<1>2. called \subseteq Events \X Channels /\ recorded \subseteq Events \X Channels
  BY DEF NotifierInv, NotifierTypeOK
<1> QED
  BY <1>1, <1>2, MoveKeeps

\* The state a worker has moved to.
LEMMA Moved ==
    ASSUME NotifierInv, NEW w \in Workers, NEW to, NotifierMoves(w, to)
    PROVE  notifier'[w] = to
BY DEF NotifierInv, NotifierTypeOK, NotifierMoves

\* A worker without an event holds nothing.
LEMMA RestKeeps ==
    ASSUME NotifierInv, NEW w \in Workers, NEW to \in NotifierStates, NotifierMoves(w, to),
           to.step \notin {"rules", "send", "record", "ack"},
           to.step = "sync" => /\ to.channels \subseteq DOMAIN Config.channels
                               /\ to.rules \subseteq DOMAIN Config.rules,
           UNCHANGED <<channels, rules, waiting, called, recorded, edits, seen>>
    PROVE  NotifierInv'
<1>1. WorkerOK(w)'
  BY Moved DEF WorkerOK
<1> QED
  BY <1>1, MoveOnlyKeeps

\* A worker starts and writes its configuration over the settings.
LEMMA SyncKeeps ==
    ASSUME NotifierInv, NEW w \in Workers,
           \/ \E ch \in Channels : SyncChannel(w, ch)
           \/ \E r \in Rules : SyncRule(w, r)
    PROVE  NotifierInv'
<1> DEFINE p == notifier[w]
<1>1. /\ notifier \in [Workers -> NotifierStates] /\ edits \in 0 .. MaxEdits
      /\ channels \in [Channels -> {"none", "on", "off"}]
      /\ rules \in [Rules -> Rule \cup {NoRule}]
  BY DEF NotifierInv, NotifierTypeOK
<1>2. /\ p \in [step : {"sync"}, channels : SUBSET Channels, rules : SUBSET Rules]
      /\ p.channels \subseteq DOMAIN Config.channels
      /\ p.rules \subseteq DOMAIN Config.rules
  <2>1. p.step = "sync"
    BY DEF SyncChannel, SyncRule
  <2>2. p \in NotifierStates
    BY <1>1
  <2>3. p \in [step : {"sync"}, channels : SUBSET Channels, rules : SUBSET Rules]
    <3> HIDE DEF p
    <3> QED
      BY <2>1, <2>2 DEF NotifierStates, Down, Idle
  <2> QED
    BY <2>1, <2>3 DEF NotifierInv, WorkerOK
<1>3. ASSUME NEW to \in [step : {"sync"}, channels : SUBSET Channels, rules : SUBSET Rules],
             NotifierMoves(w, to), to.channels \subseteq p.channels, to.rules \subseteq p.rules,
             NEW cs \in [Channels -> {"none", "on", "off"}],
             NEW rs \in [Rules -> Rule \cup {NoRule}],
             Save(cs, rs), UNCHANGED <<waiting, called, recorded, edits>>
      PROVE  NotifierInv'
  <2>1. /\ notifier' \in [Workers -> NotifierStates]
        /\ \A v \in Workers : v # w => notifier'[v] = notifier[v]
    BY <1>1, <1>3 DEF NotifierMoves, NotifierStates
  <2>2. WorkerOK(w)'
    BY <1>2, <1>3, Moved DEF WorkerOK
  <2> QED
    BY <1>1, <1>3, <2>1, <2>2, SaveKeeps
<1>4. ASSUME NEW ch \in Channels, SyncChannel(w, ch) PROVE NotifierInv'
  <2> DEFINE to == [p EXCEPT !.channels = @ \ {ch}]
             cs == [channels EXCEPT ![ch] = Config.channels[ch]]
  <2>1. /\ ch \in p.channels /\ Save(cs, rules) /\ NotifierMoves(w, to)
        /\ UNCHANGED <<waiting, called, recorded, edits>>
    BY <1>4 DEF SyncChannel
  <2>2. /\ to \in [step : {"sync"}, channels : SUBSET Channels, rules : SUBSET Rules]
        /\ to.channels \subseteq p.channels /\ to.rules \subseteq p.rules
    BY <1>2
  <2>3. cs \in [Channels -> {"none", "on", "off"}]
    BY <1>1, <1>2, <2>1, NotificationsAssumption
  <2> HIDE DEF to, cs
  <2> QED
    BY <1>1, <1>3, <2>1, <2>2, <2>3
<1>5. ASSUME NEW r \in Rules, SyncRule(w, r) PROVE NotifierInv'
  <2> DEFINE to == [p EXCEPT !.rules = @ \ {r}]
             rs == [rules EXCEPT ![r] = Config.rules[r]]
  <2>1. /\ r \in p.rules /\ Save(channels, rs) /\ NotifierMoves(w, to)
        /\ UNCHANGED <<waiting, called, recorded, edits>>
    BY <1>5 DEF SyncRule
  <2>2. /\ to \in [step : {"sync"}, channels : SUBSET Channels, rules : SUBSET Rules]
        /\ to.channels \subseteq p.channels /\ to.rules \subseteq p.rules
    BY <1>2
  <2>3. rs \in [Rules -> Rule \cup {NoRule}]
    BY <1>1, <1>2, <2>1, NotificationsAssumption
  <2> HIDE DEF to, rs
  <2> QED
    BY <1>1, <1>3, <2>1, <2>2, <2>3
<1> QED
  BY <1>4, <1>5

\* A worker reads the channels.
LEMMA ReadChannelsKeeps ==
    ASSUME NotifierInv, NEW w \in Workers, NEW e \in Events, ReadChannels(w, e)
    PROVE  NotifierInv'
<1> DEFINE to == [step |-> "rules", event |-> e, left |-> Enabled(channels)]
<1>1. /\ e \in waiting /\ NotifierMoves(w, to)
      /\ UNCHANGED <<channels, rules, waiting, called, recorded, edits, seen>>
  BY DEF ReadChannels, settings
<1>2. to \in NotifierStates
  BY DEF NotifierStates, Enabled
<1>3. notifier'[w] = to
  BY <1>1, Moved
<1>4. Published(e) /\ ViewOf(e, channels, rules) \in seen[e]
  BY <1>1 DEF NotifierInv, ViewsAreCurrent
<1>5. Steady(e) \subseteq to.left
  BY <1>4 DEF Steady, ViewOf
<1>6. \A ch \in to.left : \E view \in seen[e] : ch \in view.on
  BY <1>4 DEF ViewOf
<1>7. /\ to.step = "rules" /\ to.event = e
      /\ Published(e)' /\ Steady(e)' = Steady(e) /\ UNCHANGED seen
  BY <1>1, <1>4 DEF Published, Steady
<1>8. WorkerOK(w)'
  <2> HIDE DEF to
  <2> QED
    BY <1>3, <1>5, <1>6, <1>7 DEF WorkerOK
<1> QED
  BY <1>1, <1>2, <1>8, MoveOnlyKeeps

\* What ServeNext leads to.
LEMMA NextIsServed ==
    ASSUME NotifierInv, NEW w \in Workers, NEW e \in Events, NEW left \in SUBSET Channels,
           ServeNext(w, e, left), UNCHANGED seen,
           Published(e), Steady(e) \subseteq left \cup Done(e)',
           \A ch \in left : \E view \in seen[e] : ch \in view.on,
           left # {} => \E view \in seen[e] : view.admitted
    PROVE  WorkerOK(w)' /\ \E to \in NotifierStates : NotifierMoves(w, to)
<1>1. Published(e)' /\ Steady(e)' = Steady(e)
  BY DEF Published, Steady
<1>2. CASE left = {}
  <2> DEFINE to == [step |-> "ack", event |-> e]
  <2>1. NotifierMoves(w, to) /\ to \in NotifierStates
    BY <1>2 DEF ServeNext, NotifierStates
  <2>2. notifier'[w] = to
    BY <2>1, Moved
  <2> QED
    BY <1>1, <1>2, <2>1, <2>2 DEF WorkerOK
<1>3. CASE left # {}
  <2> DEFINE to == [step |-> "send", event |-> e, left |-> left]
  <2>1. NotifierMoves(w, to) /\ to \in NotifierStates
    BY <1>3 DEF ServeNext, NotifierStates
  <2>2. notifier'[w] = to
    BY <2>1, Moved
  <2> QED
    BY <1>1, <1>3, <2>1, <2>2 DEF WorkerOK
<1> QED
  BY <1>2, <1>3

\* A worker reads the rules, a second read: no rule refuses a steady channel.
LEMMA ReadRulesKeeps ==
    ASSUME NotifierInv, NEW w \in Workers, ReadRules(w)
    PROVE  NotifierInv'
<1> DEFINE e == notifier[w].event
           old == notifier[w].left
           left == IF Admits(e, rules) THEN old ELSE {}
<1>1. /\ notifier[w].step = "rules" /\ ServeNext(w, e, left)
      /\ UNCHANGED <<channels, rules, waiting, called, recorded, edits, seen>>
  BY DEF ReadRules, settings
<1>2. /\ e \in Events /\ old \in SUBSET Channels /\ left \in SUBSET Channels
  BY <1>1, WorkersHold DEF NotifierInv
<1>3. /\ Published(e) /\ Steady(e) \subseteq old \cup Done(e)
      /\ \A ch \in old : \E view \in seen[e] : ch \in view.on
  BY <1>1 DEF NotifierInv, WorkerOK
<1>4. ViewOf(e, channels, rules) \in seen[e]
  BY <1>2, <1>3 DEF NotifierInv, ViewsAreCurrent
<1>5. ViewOf(e, channels, rules).admitted = Admits(e, rules)
  BY DEF ViewOf
<1>6. Steady(e) \subseteq left \cup Done(e)
  BY <1>3, <1>4, <1>5 DEF Steady
<1>7. \A ch \in left : \E view \in seen[e] : ch \in view.on
  BY <1>3
<1>8. left # {} => \E view \in seen[e] : view.admitted
  BY <1>4, <1>5
<1>9. PICK f, l : f = e /\ l = left
  OBVIOUS
<1>10. Done(f)' = Done(f)
  BY <1>1 DEF Done
<1>11. WorkerOK(w)' /\ \E to \in NotifierStates : NotifierMoves(w, to)
  <2> HIDE DEF e, old, left
  <2> QED
    BY <1>1, <1>2, <1>3, <1>6, <1>7, <1>8, <1>9, <1>10, NextIsServed
<1> QED
  BY <1>1, <1>11, MoveOnlyKeeps

\* A webhook is called: one of a channel that the worker may serve.
LEMMA SendKeeps ==
    ASSUME NotifierInv, NEW w \in Workers, Send(w)
    PROVE  NotifierInv'
<1> DEFINE e == notifier[w].event
           left == notifier[w].left
<1>1. PICK status \in Statuses, reached \in BOOLEAN :
          /\ called' = IF reached THEN called \cup {<<e, Min(left)>>} ELSE called
          /\ NotifierMoves(w, [step |-> "record", event |-> e, left |-> left,
                               status |-> status])
  BY DEF Send
<1> DEFINE to == [step |-> "record", event |-> e, left |-> left, status |-> status]
<1>2. /\ notifier[w].step = "send"
      /\ UNCHANGED <<channels, rules, waiting, recorded, edits, seen>>
  BY DEF Send, settings
<1>3. e \in Events /\ left \in SUBSET Channels
  BY <1>2, WorkersHold DEF NotifierInv
<1>4. /\ Published(e) /\ Steady(e) \subseteq left \cup Done(e) /\ left # {}
      /\ \A ch \in left : \E view \in seen[e] : ch \in view.on
      /\ \E view \in seen[e] : view.admitted
  BY <1>2 DEF NotifierInv, WorkerOK
<1>5. Min(left) \in left
  BY <1>3, <1>4, MinIsMember
<1>6. to \in NotifierStates
  BY <1>3 DEF NotifierStates
<1>7. notifier'[w] = to
  BY <1>1, Moved
<1>8. WorkerOK(w)'
  <2>1. PICK f, l : f = e /\ l = left
    OBVIOUS
  <2>2. notifier'[w].step = "record" /\ notifier'[w].event = f /\ notifier'[w].left = l
    BY <1>7, <2>1
  <2>3. Published(f)' /\ Steady(f)' = Steady(f) /\ Done(f)' = Done(f)
    BY <1>2, <1>4, <2>1 DEF Published, Steady, Done
  <2> HIDE DEF e, left, to
  <2> QED
    BY <1>2, <1>4, <2>1, <2>2, <2>3 DEF WorkerOK
<1>9. called' \subseteq Events \X Channels
  BY <1>1, <1>3, <1>5 DEF NotifierInv, NotifierTypeOK
<1>10. SilencedChannelsStaySilent'
  BY <1>1, <1>2, <1>4, <1>5 DEF NotifierInv, SilencedChannelsStaySilent
<1>11. SteadyChannelsAreServed'
  BY <1>2 DEF NotifierInv, SteadyChannelsAreServed, Published
<1>12. recorded' \subseteq Events \X Channels
  BY <1>2 DEF NotifierInv, NotifierTypeOK
<1> HIDE DEF to
<1> QED
  BY <1>1, <1>2, <1>6, <1>8, <1>9, <1>10, <1>11, <1>12, MoveKeeps DEF to

\* The attempt is recorded, and the worker goes on with the rest.
LEMMA RecordDeliveryKeeps ==
    ASSUME NotifierInv, NEW w \in Workers, RecordDelivery(w)
    PROVE  NotifierInv'
<1>1. PICK e, left : e = notifier[w].event /\ left = notifier[w].left
  OBVIOUS
<1>2. /\ notifier[w].step = "record"
      /\ recorded' = recorded \cup {<<e, Min(left)>>}
      /\ ServeNext(w, e, left \ {Min(left)})
      /\ UNCHANGED <<channels, rules, waiting, called, edits, seen>>
  BY <1>1 DEF RecordDelivery, settings
<1>3. e \in Events /\ left \in SUBSET Channels
  BY <1>1, <1>2, WorkersHold DEF NotifierInv
<1>4. /\ Published(e) /\ Steady(e) \subseteq left \cup Done(e) /\ left # {}
      /\ \A ch \in left : \E view \in seen[e] : ch \in view.on
      /\ \E view \in seen[e] : view.admitted
  BY <1>1, <1>2 DEF NotifierInv, WorkerOK
<1>5. Min(left) \in left
  BY <1>3, <1>4, MinIsMember
<1>6. Steady(e) \subseteq (left \ {Min(left)}) \cup Done(e)'
  BY <1>2, <1>4 DEF Steady, Done
<1>7. WorkerOK(w)' /\ \E to \in NotifierStates : NotifierMoves(w, to)
  BY <1>2, <1>3, <1>4, <1>6, NextIsServed
<1>8. /\ recorded' \subseteq Events \X Channels
      /\ called' \subseteq Events \X Channels
  BY <1>2, <1>3, <1>5 DEF NotifierInv, NotifierTypeOK
<1>9. SteadyChannelsAreServed'
  BY <1>2 DEF NotifierInv, SteadyChannelsAreServed, Published
<1>10. SilencedChannelsStaySilent'
  BY <1>2 DEF NotifierInv, SilencedChannelsStaySilent
<1> QED
  BY <1>2, <1>7, <1>8, <1>9, <1>10, MoveKeeps

\* The event is acknowledged when nothing is left of it.
LEMMA AckEventKeeps ==
    ASSUME NotifierInv, NEW w \in Workers, AckEvent(w)
    PROVE  NotifierInv'
<1>1. PICK e : e = notifier[w].event
  OBVIOUS
<1>2. /\ notifier[w].step = "ack" /\ waiting' = waiting \ {e} /\ NotifierMoves(w, Idle)
      /\ UNCHANGED <<channels, rules, called, recorded, edits, seen>>
  BY <1>1 DEF AckEvent, settings
<1>3. Published(e) /\ Steady(e) \subseteq Done(e)
  BY <1>1, <1>2 DEF NotifierInv, WorkerOK
<1>4. SteadyChannelsAreServed'
  <2> SUFFICES ASSUME NEW d \in Events, NEW ch \in Channels, Published(d), d \notin waiting',
                      \A view \in seen[d] : ch \in view.on /\ view.admitted
               PROVE  <<d, ch>> \in recorded
    BY <1>2 DEF SteadyChannelsAreServed, Published
  <2>1. CASE d = e
    BY <1>3, <2>1 DEF Steady, Done
  <2>2. CASE d # e
    BY <1>2, <2>2 DEF NotifierInv, SteadyChannelsAreServed
  <2> QED
    BY <2>1, <2>2
<1>5. SilencedChannelsStaySilent'
  BY <1>2 DEF NotifierInv, SilencedChannelsStaySilent
<1>6. Idle \in NotifierStates /\ WorkerOK(w)'
  BY <1>2, Moved DEF NotifierStates, WorkerOK, Idle
<1>7. called' \subseteq Events \X Channels /\ recorded' \subseteq Events \X Channels
  BY <1>2 DEF NotifierInv, NotifierTypeOK
<1> QED
  BY <1>2, <1>4, <1>5, <1>6, <1>7, MoveKeeps

\* Every step of a worker.
LEMMA NotifierStepKeeps ==
    ASSUME NotifierInv, NEW w \in Workers, NotifierStep(w)
    PROVE  NotifierInv'
<1>1. ASSUME StartNotifier(w) \/ NotifierSynced(w) \/ NotifierNaks(w) \/ NotifierStops(w)
      PROVE  NotifierInv'
  <2> DEFINE start == [step |-> "sync", channels |-> DOMAIN Config.channels,
                       rules |-> DOMAIN Config.rules]
  <2>1. {start, Idle, Down} \subseteq NotifierStates
    BY NotificationsAssumption DEF NotifierStates
  <2>2. UNCHANGED <<channels, rules, waiting, called, recorded, edits, seen>>
    BY <1>1 DEF StartNotifier, NotifierSynced, NotifierNaks, NotifierStops, settings
  <2>3. NotifierMoves(w, start) \/ NotifierMoves(w, Idle) \/ NotifierMoves(w, Down)
    BY <1>1 DEF StartNotifier, NotifierSynced, NotifierNaks, NotifierStops
  <2>4. CASE NotifierMoves(w, start)
    BY <2>1, <2>2, <2>4, RestKeeps
  <2>5. CASE NotifierMoves(w, Idle)
    BY <2>1, <2>2, <2>5, RestKeeps DEF Idle
  <2>6. CASE NotifierMoves(w, Down)
    BY <2>1, <2>2, <2>6, RestKeeps DEF Down
  <2> QED
    BY <2>3, <2>4, <2>5, <2>6
<1> QED
  BY <1>1, SyncKeeps, ReadChannelsKeeps, ReadRulesKeeps, SendKeeps, RecordDeliveryKeeps,
     AckEventKeeps DEF NotifierStep

\* Steps of the hub are none of the worker's.
LEMMA NotifierUnchanged ==
    ASSUME NotifierInv, UNCHANGED notifierVars
    PROVE  NotifierInv'
<1>1. UNCHANGED <<channels, rules, waiting, called, recorded, notifier, edits, seen>>
  BY DEF notifierVars, settings
<1> QED
  BY <1>1 DEF NotifierInv, NotifierTypeOK, ViewsAreCurrent, WorkerOK, Steady, Done,
     SteadyChannelsAreServed, SilencedChannelsStaySilent, Published, ViewOf, Enabled,
     Admits, Matching

\* Every step.
LEMMA NotifierStepInv ==
    ASSUME NotifierInv, deployed \in Deployments, [Next]_vars
    PROVE  NotifierInv'
<1>1. CASE Shared
  BY <1>1, PublishKeeps, EditKeeps DEF Shared, Publish, SaveChannel, SaveRule
<1>2. ASSUME NEW w \in deployed.workers, NotifierStep(w) PROVE NotifierInv'
  BY <1>2, NotifierStepKeeps, DeliveryAssumption
<1>3. CASE UNCHANGED notifierVars
  BY <1>3, NotifierUnchanged
<1> QED
  BY <1>1, <1>2, <1>3 DEF Next, vars

--------------------------------------------------------------------------------
(* Types of the hub.                                                       *)

Messages == Topics \cup {"ack"}

\* The hub stops.
LEMMA StopKeepsTypes == HubStops => HubTypeOK'
<1> SUFFICES ASSUME HubStops PROVE HubTypeOK'
  OBVIOUS
<1>1. \A c \in Clients : queue'[c] = << >> /\ << >> \in Seq(Messages) /\ Len(<< >>) = 0
  BY DEF HubStops
<1> QED
  BY <1>1, HubAssumption DEF HubStops, HubTypeOK, Messages

\* A message arrives for a broadcaster, or for none.
LEMMA AnnounceKeepsTypes ==
    ASSUME HubTypeOK, NEW b, Announce(b)
    PROVE  HubTypeOK'
<1>1. CASE b \in Broadcasters /\ Receive(b)
  <2>1. inbox[b] + 1 \in Nat
    BY <1>1 DEF HubTypeOK
  <2> QED
    BY <1>1, <2>1 DEF Receive, HubTypeOK, clientVars
<1>2. CASE UNCHANGED hubVars
  BY <1>2 DEF hubVars, clientVars, HubTypeOK
<1> QED
  BY <1>1, <1>2 DEF Announce

\* A step of a broadcaster: a queue never grows beyond its capacity.
LEMMA BroadcasterKeepsTypes ==
    ASSUME HubTypeOK, NEW b \in Broadcasters, BroadcasterStep(b)
    PROVE  HubTypeOK'
<1>1. CASE BeginBroadcast(b)
  <2> DEFINE to == [step |-> "offer", left |-> registered]
  <2>1. /\ broadcaster' = [broadcaster EXCEPT ![b] = to]
        /\ inbox[b] > 0 /\ inbox' = [inbox EXCEPT ![b] = @ - 1]
        /\ UNCHANGED <<registered, queue, closed, conn, handler, writer, topics, adding>>
    BY <1>1 DEF BeginBroadcast, clientVars
  <2>2. to \in [step : {"offer"}, left : SUBSET Clients]
    BY DEF HubTypeOK
  <2>3. inbox[b] - 1 \in Nat
    BY <2>1 DEF HubTypeOK
  <2> HIDE DEF to
  <2> QED
    BY <2>1, <2>2, <2>3 DEF HubTypeOK
<1>2. ASSUME NEW c \in Clients, Offer(b, c) PROVE HubTypeOK'
  <2> DEFINE to == [broadcaster[b] EXCEPT !.left = @ \ {c}]
             q == IF Subscribed(c, Topic[b]) /\ Len(queue[c]) < Capacity
                  THEN Append(queue[c], Topic[b]) ELSE queue[c]
  <2>1. /\ broadcaster' = [broadcaster EXCEPT ![b] = to]
        /\ queue' = [queue EXCEPT ![c] = q]
        /\ broadcaster[b] # Quiet
        /\ UNCHANGED <<registered, closed, conn, handler, writer, topics, adding, inbox>>
    BY <1>2 DEF Offer, Sending, clientVars
  <2>2. to \in [step : {"offer"}, left : SUBSET Clients]
    BY <2>1 DEF HubTypeOK
  <2>3. q \in Seq(Messages) /\ Len(q) <= Capacity
    <3>1. queue[c] \in Seq(Messages) /\ Len(queue[c]) <= Capacity /\ Len(queue[c]) \in Nat
      BY DEF HubTypeOK, Messages
    <3>2. Topic[b] \in Messages
      BY DEF Topics, Messages
    <3>3. /\ Append(queue[c], Topic[b]) \in Seq(Messages)
          /\ Len(Append(queue[c], Topic[b])) = Len(queue[c]) + 1
      BY <3>1, <3>2
    <3> QED
      BY <3>1, <3>3, HubAssumption
  <2> HIDE DEF to, q
  <2> QED
    BY <2>1, <2>2, <2>3 DEF HubTypeOK, Messages
<1>3. CASE EndBroadcast(b)
  BY <1>3 DEF EndBroadcast, clientVars, HubTypeOK
<1> QED
  BY <1>1, <1>2, <1>3 DEF BroadcasterStep

\* A step of a client.
LEMMA ClientKeepsTypes ==
    ASSUME HubTypeOK, NEW c \in Clients, ClientStep(c)
    PROVE  HubTypeOK'
<1> DEFINE Queues == {q \in Seq(Messages) : Len(q) <= Capacity}
<1>1. queue[c] \in Queues /\ << >> \in Queues
  BY HubAssumption DEF HubTypeOK, Messages
<1>2. ASSUME NEW q \in Queues, queue' = [queue EXCEPT ![c] = q]
      PROVE  queue' \in [Clients -> Seq(Messages)] /\ \A d \in Clients : Len(queue'[d]) <= Capacity
  BY <1>2 DEF HubTypeOK, Messages
<1> HIDE DEF Queues
<1>3. CASE Connect(c)
  BY <1>1, <1>2, <1>3 DEF Connect, HubTypeOK, Messages
<1>4. CASE Acknowledge(c)
  <2>1. Append(queue[c], "ack") \in Queues
    BY <1>1, <1>4, HubAssumption DEF Acknowledge, Queues, Messages
  <2> QED
    BY <1>2, <1>4, <2>1 DEF Acknowledge, HubTypeOK, Messages
<1>5. ASSUME NEW wanted \in Subscriptions, Subscribe(c, wanted) PROVE HubTypeOK'
  BY <1>5 DEF Subscribe, HubTypeOK, Topics
<1>6. ASSUME NEW topic \in Topics, AddTopic(c, topic) PROVE HubTypeOK'
  BY <1>6 DEF AddTopic, HubTypeOK
<1>7. CASE ConnectionBreaks(c)
  BY <1>7 DEF ConnectionBreaks, HubTypeOK
<1>8. CASE ReadFails(c)
  BY <1>8 DEF ReadFails, HubTypeOK
<1>9. CASE Remove(c)
  BY <1>9 DEF Remove, HubTypeOK
<1>10. CASE TakeMessage(c)
  <2>1. queue[c] # << >> /\ queue' = [queue EXCEPT ![c] = Tail(queue[c])]
    BY <1>10 DEF TakeMessage
  <2>2. Tail(queue[c]) \in Queues
    BY <1>1, <2>1, HubAssumption DEF Queues
  <2> QED
    BY <1>2, <1>10, <2>1, <2>2 DEF TakeMessage, HubTypeOK, Messages
<1>11. CASE WriteMessage(c)
  BY <1>11 DEF WriteMessage, HubTypeOK
<1>12. CASE WriterEnds(c)
  BY <1>12 DEF WriterEnds, HubTypeOK
<1> QED
  BY <1>3, <1>4, <1>5, <1>6, <1>7, <1>8, <1>9, <1>10, <1>11, <1>12 DEF ClientStep

--------------------------------------------------------------------------------
(* Theorems.                                                               *)

\* The inductive invariant of the composition.
Inv == deployed \in Deployments /\ HubTypeOK /\ HubOK /\ NotifierInv

\* It holds of the empty tables and the empty hub.
LEMMA InitInv == Init => Inv
<1> SUFFICES ASSUME Init PROVE Inv
  OBVIOUS
<1>1. HubOK
  BY DEF Init, HubInit, HubOK, HubTypes, HubInv, NoClientIsLeaked, Sending, Quiet
<1>2. HubTypeOK
  <2>1. \A c \in Clients : queue[c] = << >> /\ << >> \in Seq(Messages) /\ Len(<< >>) = 0
    BY DEF Init, HubInit
  <2> QED
    BY <2>1, HubAssumption DEF Init, HubInit, HubTypeOK, Messages
<1>3. NotifierTypeOK
  BY NotificationsAssumption DEF Init, NotifierInit, NotifierTypeOK, NotifierStates
<1>4. \A e \in Events : ~ Published(e)
  BY DEF Init, NotifierInit, Published
<1>5. \A w \in Workers : WorkerOK(w)
  BY DEF Init, NotifierInit, WorkerOK, Down
<1>6. ViewsAreCurrent /\ SteadyChannelsAreServed /\ SilencedChannelsStaySilent
  BY <1>4 DEF Init, NotifierInit, ViewsAreCurrent, SteadyChannelsAreServed,
     SilencedChannelsStaySilent
<1> QED
  BY <1>1, <1>2, <1>3, <1>4, <1>5, <1>6 DEF Init, Inv, NotifierInv, NotifierInit

\* Every step keeps it.
LEMMA NextInv == Inv /\ [Next]_vars => Inv'
<1> SUFFICES ASSUME Inv, [Next]_vars PROVE Inv'
  OBVIOUS
<1>1. deployed' \in Deployments
  BY DEF Inv, Next, vars
<1>2. HubOK' /\ NotifierInv'
  BY HubStep, NotifierStepInv DEF Inv
<1>3. HubTypeOK'
  <2>1. CASE Shared
    BY <2>1, AnnounceKeepsTypes DEF Inv, Shared, Publish, SaveChannel, SaveRule
  <2>2. CASE UNCHANGED hubVars
    BY <2>2 DEF hubVars, clientVars, Inv, HubTypeOK
  <2>3. ASSUME NEW b \in Broadcasters, BroadcasterStep(b) PROVE HubTypeOK'
    BY <2>3, BroadcasterKeepsTypes DEF Inv
  <2>4. ASSUME NEW c \in deployed.browsers, ClientStep(c) PROVE HubTypeOK'
    BY <2>4, ClientKeepsTypes, DeliveryAssumption DEF Inv
  <2>5. ASSUME NEW b \in Broadcasters, NEW c \in Clients, TopicsRace(b, c) PROVE HubTypeOK'
    BY <2>5, StopKeepsTypes DEF TopicsRace
  <2>6. CASE HubStops
    BY <2>6, StopKeepsTypes
  <2> QED
    BY <2>1, <2>2, <2>3, <2>4, <2>5, <2>6 DEF Next, vars
<1> QED
  BY <1>1, <1>2, <1>3 DEF Inv

\* Every variable keeps its type; no queue grows beyond its capacity.
THEOREM TypeCorrect == Spec => []TypeOK
<1>1. Inv => TypeOK
  BY DEF Inv, TypeOK, NotifierInv
<1> QED
  BY <1>1, InitInv, NextInv, PTL DEF Spec

\* However many broadcasters run and browsers come and go, nobody sends on a
\* queue that is closed: the lock of the hub is enough.
THEOREM QueuesAreOpen == Spec => []NoSendOnClosedQueue
<1>1. Inv => NoSendOnClosedQueue
  BY DEF Inv, HubOK, HubTypes, HubInv, NoClientIsLeaked, NoSendOnClosedQueue
<1> QED
  BY <1>1, InitInv, NextInv, PTL DEF Spec

\* The hub holds exactly the clients that a handler has yet to remove: none is forgotten
\* in it, and none is left with a queue that nobody closes.
THEOREM ClientsAreRemoved == Spec => []NoClientIsLeaked
<1>1. Inv => NoClientIsLeaked
  BY DEF Inv, HubOK, HubInv
<1> QED
  BY <1>1, InitInv, NextInv, PTL DEF Spec

\* An acknowledged event has a record for each channel that was on, under rules
\* that admit it, ever since it was published, whatever workers share the consumer,
\* crash, fail and write their configuration over the settings.
THEOREM SteadyChannels == Spec => []SteadyChannelsAreServed
<1>1. Inv => SteadyChannelsAreServed
  BY DEF Inv, NotifierInv
<1> QED
  BY <1>1, InitInv, NextInv, PTL DEF Spec

\* A channel that was off, or an event that was refused, all the time is not told.
THEOREM SilencedChannels == Spec => []SilencedChannelsStaySilent
<1>1. Inv => SilencedChannelsStaySilent
  BY DEF Inv, NotifierInv
<1> QED
  BY <1>1, InitInv, NextInv, PTL DEF Spec

================================================================================
