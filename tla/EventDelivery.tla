------------------------------ MODULE EventDelivery -----------------------------
(***************************************************************************)
(* How people learn of an event.  One publication reaches the durable      *)
(* consumer of the notification worker, which delivers it until it is      *)
(* acknowledged, and the plain subscriptions of the API, which broadcast   *)
(* it once to whoever is connected.  Settings that a user saves through    *)
(* the API are announced to the same clients, and reach the worker, which  *)
(* reads them anew for every event.                                        *)
(***************************************************************************)
EXTENDS Notifications, ClientHub

CONSTANT
    Deployments  \* what runs: [workers : SUBSET Workers, browsers : SUBSET Clients]

\* A handler of settings, and the callbacks of the bridge's subscriptions, one per
\* configured subject.
ASSUME DeliveryAssumption ==
    /\ "settings" \in Broadcasters
    /\ Deployments \subseteq [workers : SUBSET Workers, browsers : SUBSET Clients]

VARIABLE deployed

vars == <<notifierVars, hubVars, deployed>>

TypeOK == NotifierTypeOK /\ HubTypeOK /\ deployed \in Deployments

Init == NotifierInit /\ HubInit /\ deployed \in Deployments

--------------------------------------------------------------------------------

\* A broadcast changes nothing where no browser ever connects.
Announce(b) ==
    IF b \in Broadcasters /\ deployed.browsers # {} THEN Receive(b) ELSE UNCHANGED hubVars

\* Steps of both: an event is published; settings are saved and then announced.
Publish(e) == PublishEvent(e) /\ Announce(Subject[e])
SaveChannel(ch, value) == EditChannel(ch, value) /\ Announce("settings")
SaveRule(r, rule) == EditRule(r, rule) /\ Announce("settings")

Shared ==
    \/ \E e \in Events : Publish(e)
    \/ \E ch \in Channels, value \in {"on", "off"} : SaveChannel(ch, value)
    \/ \E r \in Rules, rule \in RuleEdits : SaveRule(r, rule)

NotifierStep(w) ==
    \/ StartNotifier(w)
    \/ \E ch \in Channels : SyncChannel(w, ch)
    \/ \E r \in Rules : SyncRule(w, r)
    \/ NotifierSynced(w)
    \/ \E e \in Events : ReadChannels(w, e)
    \/ ReadRules(w)
    \/ Send(w)
    \/ RecordDelivery(w)
    \/ AckEvent(w)
    \/ NotifierNaks(w)
    \/ NotifierStops(w)

BroadcasterStep(b) ==
    \/ BeginBroadcast(b)
    \/ \E c \in Clients : Offer(b, c)
    \/ EndBroadcast(b)

ClientStep(c) ==
    \/ Connect(c)
    \/ Acknowledge(c)
    \/ \E wanted \in Subscriptions : Subscribe(c, wanted)
    \/ \E topic \in Topics : AddTopic(c, topic)
    \/ ConnectionBreaks(c)
    \/ ReadFails(c)
    \/ Remove(c)
    \/ TakeMessage(c)
    \/ WriteMessage(c)
    \/ WriterEnds(c)

Next ==
    /\ \/ Shared
       \/ UNCHANGED hubVars /\ \E w \in deployed.workers : NotifierStep(w)
       \/ /\ UNCHANGED notifierVars
          /\ \/ \E b \in Broadcasters : BroadcasterStep(b)
             \/ \E c \in deployed.browsers : ClientStep(c)
             \/ \E b \in Broadcasters, c \in Clients : TopicsRace(b, c)
             \/ HubStops
    /\ UNCHANGED deployed

Spec == Init /\ [][Next]_vars

FairSpec == Spec /\ NotifierFairness /\ HubFairness

================================================================================
