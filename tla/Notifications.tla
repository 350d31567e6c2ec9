------------------------------ MODULE Notifications -----------------------------
(***************************************************************************)
(* The notification worker.  It consumes the events of matched jobs and of *)
(* ready applications, reads channels and rules from the settings, which   *)
(* users change through the API while it works, calls the webhook of every *)
(* channel that is on, and records each attempt.  Everything it does for   *)
(* an event is done again when the event is delivered again.               *)
(***************************************************************************)
EXTENDS Integers, FiniteSetsExt

CONSTANTS
    Events,          \* messages of jobs.matched and applications.ready
    Subject, Score,  \* Subject[e], and Score[e] of the match
    LastChannel, LastRule,  \* numbers of names of channels and of rules
    NoRule,          \* a name without row in notification_rules
    Workers,         \* notification workers
    Config,          \* the worker's configuration: some channels and rules
    RuleEdits,       \* rules that users may save
    MaxEdits         \* bound: settings saved by users

\* Names are numbered in their order, in which the queries list them.
Channels == 1 .. LastChannel
Rules == 1 .. LastRule

Subjects == {"jobs.matched", "applications.ready"}
\* A rule without min_score is one with 0.
Rule == [subject : Subjects, enabled : BOOLEAN, min : 0 .. 100]

ASSUME NotificationsAssumption ==
    /\ Subject \in [Events -> Subjects]
    /\ Score \in [Events -> 0 .. 100]
    /\ LastChannel \in Nat /\ LastRule \in Nat
    /\ NoRule \notin Rule
    /\ DOMAIN Config.channels \subseteq Channels
    /\ \A ch \in DOMAIN Config.channels : Config.channels[ch] \in {"on", "off"}
    /\ DOMAIN Config.rules \subseteq Rules
    /\ \A r \in DOMAIN Config.rules : Config.rules[r] \in Rule
    /\ RuleEdits \subseteq Rule
    /\ MaxEdits \in Nat

VARIABLES
    channels,  \* notification_channels: "none" without a row
    rules,     \* notification_rules
    waiting,   \* published events that are not acknowledged
    called,    \* history: <<event, channel>> whose webhook was called
    recorded,  \* <<event, channel>> with a row in notification_deliveries
    notifier,  \* what each worker is doing
    edits,     \* counter of the bound
    seen       \* history: views of the settings since the event was published

settings == <<channels, rules>>
notifierVars == <<settings, waiting, called, recorded, notifier, edits, seen>>

--------------------------------------------------------------------------------

Statuses == {"sent", "failed"}

Down == [step |-> "down"]
Idle == [step |-> "idle"]
NotifierStates ==
    {Down, Idle}
    \cup [step : {"sync"}, channels : SUBSET Channels, rules : SUBSET Rules]
    \cup [step : {"rules", "send"}, event : Events, left : SUBSET Channels]
    \cup [step : {"record"}, event : Events, left : SUBSET Channels, status : Statuses]
    \cup [step : {"ack"}, event : Events]

\* What the settings say about an event: the channels that are on, and whether
\* the first enabled rule for its subject, in the order of names, lets it pass.
Enabled(table) == {ch \in Channels : table[ch] = "on"}
Matching(e, table) ==
    {r \in Rules : table[r] # NoRule /\ table[r].subject = Subject[e] /\ table[r].enabled}
Admits(e, table) ==
    Matching(e, table) # {} /\ Score[e] >= table[Min(Matching(e, table))].min

View == [on : SUBSET Channels, admitted : BOOLEAN]
ViewOf(e, cs, rs) == [on |-> Enabled(cs), admitted |-> Admits(e, rs)]
Published(e) == seen[e] # {}

NotifierTypeOK ==
    /\ channels \in [Channels -> {"none", "on", "off"}]
    /\ rules \in [Rules -> Rule \cup {NoRule}]
    /\ waiting \subseteq Events
    /\ called \subseteq Events \X Channels
    /\ recorded \subseteq Events \X Channels
    /\ notifier \in [Workers -> NotifierStates]
    /\ edits \in 0 .. MaxEdits
    /\ seen \in [Events -> SUBSET View]

\* Before the first worker starts the tables are empty.
NotifierInit ==
    /\ channels = [ch \in Channels |-> "none"]
    /\ rules = [r \in Rules |-> NoRule]
    /\ waiting = {}
    /\ called = {}
    /\ recorded = {}
    /\ notifier = [w \in Workers |-> Down]
    /\ edits = 0
    /\ seen = [e \in Events |-> {}]

--------------------------------------------------------------------------------
(* Events, and settings saved by users or by a starting worker.            *)

\* The stream stores the event of a matching worker.
PublishEvent(e) ==
    /\ ~ Published(e)
    /\ waiting' = waiting \cup {e}
    /\ seen' = [seen EXCEPT ![e] = {ViewOf(e, channels, rules)}]
    /\ UNCHANGED <<settings, called, recorded, notifier, edits>>

\* Every published event may be processed under the new settings.
Save(cs, rs) ==
    /\ channels' = cs
    /\ rules' = rs
    /\ seen' = [e \in Events |->
                  IF Published(e) THEN seen[e] \cup {ViewOf(e, cs, rs)} ELSE {}]

\* UpsertNotificationChannel, called by handleUpsertNotificationChannel.
EditChannel(ch, value) ==
    /\ edits < MaxEdits
    /\ Save([channels EXCEPT ![ch] = value], rules)
    /\ edits' = edits + 1
    /\ UNCHANGED <<waiting, called, recorded, notifier>>

\* UpsertNotificationRule, called by handleUpsertNotificationRule.
EditRule(r, rule) ==
    /\ edits < MaxEdits
    /\ Save(channels, [rules EXCEPT ![r] = rule])
    /\ edits' = edits + 1
    /\ UNCHANGED <<waiting, called, recorded, notifier>>

NotifierMoves(w, to) == notifier' = [notifier EXCEPT ![w] = to]

StartNotifier(w) ==
    /\ notifier[w] = Down
    /\ NotifierMoves(w, [step |-> "sync", channels |-> DOMAIN Config.channels,
                         rules |-> DOMAIN Config.rules])
    /\ UNCHANGED <<settings, waiting, called, recorded, edits, seen>>

\* NewService writes every channel of the configuration over what users saved ...
SyncChannel(w, ch) ==
    /\ notifier[w].step = "sync"
    /\ ch \in notifier[w].channels
    /\ Save([channels EXCEPT ![ch] = Config.channels[ch]], rules)
    /\ NotifierMoves(w, [notifier[w] EXCEPT !.channels = @ \ {ch}])
    /\ UNCHANGED <<waiting, called, recorded, edits>>

\* ... and syncRules the rules; then it subscribes.
SyncRule(w, r) ==
    /\ notifier[w].step = "sync"
    /\ notifier[w].channels = {}
    /\ r \in notifier[w].rules
    /\ Save(channels, [rules EXCEPT ![r] = Config.rules[r]])
    /\ NotifierMoves(w, [notifier[w] EXCEPT !.rules = @ \ {r}])
    /\ UNCHANGED <<waiting, called, recorded, edits>>

NotifierSynced(w) ==
    /\ notifier[w].step = "sync"
    /\ notifier[w].channels \cup notifier[w].rules = {}
    /\ NotifierMoves(w, Idle)
    /\ UNCHANGED <<settings, waiting, called, recorded, edits, seen>>

--------------------------------------------------------------------------------
(* processMessage.  Any event that is not acknowledged may be delivered.   *)

ReadChannelsFaulty(w, e) ==
    /\ notifier[w] = Idle
    /\ e \in waiting
    /\ NotifierMoves(w, [step |-> "rules", event |-> e,
                         left |-> {ch \in Channels : channels[ch] # "none"}])
    /\ UNCHANGED <<settings, waiting, called, recorded, edits, seen>>

\* notificationSettings: ListNotificationChannels, of which processMessage later
\* skips those that are not enabled ...
ReadChannels(w, e) ==
    /\ notifier[w] = Idle
    /\ e \in waiting
    /\ NotifierMoves(w, [step |-> "rules", event |-> e, left |-> Enabled(channels)])
    /\ UNCHANGED <<settings, waiting, called, recorded, edits, seen>>

\* The next channel, or the acknowledgement.
ServeNext(w, e, left) ==
    NotifierMoves(w, IF left = {} THEN [step |-> "ack", event |-> e]
                     ELSE [step |-> "send", event |-> e, left |-> left])

\* ... and ListNotificationRules, a second read.
ReadRules(w) ==
    LET e == notifier[w].event IN
    /\ notifier[w].step = "rules"
    /\ ServeNext(w, e, IF Admits(e, rules) THEN notifier[w].left ELSE {})
    /\ UNCHANGED <<settings, waiting, called, recorded, edits, seen>>

SendFaulty(w) ==
    LET e == notifier[w].event
        left == notifier[w].left IN
    /\ notifier[w].step = "send"
    /\ \/ /\ called' = called \cup {<<e, Min(left)>>}
          /\ NotifierMoves(w, [step |-> "record", event |-> e, left |-> left, status |-> "sent"])
       \/ called' = called /\ NotifierMoves(w, Idle)
    /\ UNCHANGED <<settings, waiting, recorded, edits, seen>>

\* Sender.Send: the webhook takes the message; or it refuses it or does not answer
\* in time; or there is no URL, and nothing is called.
Send(w) ==
    LET e == notifier[w].event
        left == notifier[w].left IN
    /\ notifier[w].step = "send"
    /\ \E status \in Statuses, reached \in BOOLEAN :
          /\ status = "sent" => reached
          /\ called' = IF reached THEN called \cup {<<e, Min(left)>>} ELSE called
          /\ NotifierMoves(w, [step |-> "record", event |-> e, left |-> left,
                               status |-> status])
    /\ UNCHANGED <<settings, waiting, recorded, edits, seen>>

RecordDeliveryFaulty(w) ==
    LET e == notifier[w].event
        left == notifier[w].left IN
    /\ notifier[w].step = "record"
    /\ recorded' = recorded \cup {<<e, Min(left)>>}
    /\ ServeNext(w, e, IF notifier[w].status = "sent" THEN left \ {Min(left)} ELSE {})
    /\ UNCHANGED <<settings, waiting, called, edits, seen>>

\* RecordNotificationDelivery: a failed attempt is recorded and not repeated.
RecordDelivery(w) ==
    LET e == notifier[w].event
        left == notifier[w].left IN
    /\ notifier[w].step = "record"
    /\ recorded' = recorded \cup {<<e, Min(left)>>}
    /\ ServeNext(w, e, left \ {Min(left)})
    /\ UNCHANGED <<settings, waiting, called, edits, seen>>

AckEvent(w) ==
    /\ notifier[w].step = "ack"
    /\ waiting' = waiting \ {notifier[w].event}
    /\ NotifierMoves(w, Idle)
    /\ UNCHANGED <<settings, called, recorded, edits, seen>>

\* A statement fails, and the event is nak'ed with what was sent or recorded of it.
NotifierNaks(w) ==
    /\ notifier[w].step \in {"rules", "record"}
    /\ NotifierMoves(w, Idle)
    /\ UNCHANGED <<settings, waiting, called, recorded, edits, seen>>

\* The process stops, also because the start or an acknowledgement failed.
NotifierStops(w) ==
    /\ notifier[w] # Down
    /\ NotifierMoves(w, Down)
    /\ UNCHANGED <<settings, waiting, called, recorded, edits, seen>>

--------------------------------------------------------------------------------
(* Properties.                                                             *)

\* An event is acknowledged only when each channel that has been on, under rules
\* that have admitted the event, ever since it was published, has its record:
\* whatever attempts failed, on this channel or another, whatever was interrupted
\* and done again, and whatever other settings were saved between the two reads.
SteadyChannelsAreServed ==
    \A e \in Events, ch \in Channels :
        /\ Published(e)
        /\ e \notin waiting
        /\ \A view \in seen[e] : ch \in view.on /\ view.admitted
        => <<e, ch>> \in recorded

\* No webhook is called that was off, or for an event that the rules refused, all
\* the time since the event was published, though a worker may act on settings
\* that have been changed meanwhile.
SilencedChannelsStaySilent ==
    \A e \in Events, ch \in Channels :
        <<e, ch>> \in called =>
            /\ \E view \in seen[e] : ch \in view.on
            /\ \E view \in seen[e] : view.admitted

\* Where a worker is in an event: its step, and the channel it has come to.
Places == ({"rules", "ack"} \X {0}) \cup ({"send", "record"} \X Channels)
PlaceOf(w) ==
    <<notifier[w].step,
      IF notifier[w].step \in {"send", "record"} THEN Min(notifier[w].left) ELSE 0>>

Process(w) == ReadRules(w) \/ Send(w) \/ RecordDelivery(w) \/ AckEvent(w)

\* A worker that runs starts, is delivered every event, and goes on with it: errors
\* of SQLite do not repeat for ever.  A webhook may fail every time.
NotifierFairness ==
    \A w \in Workers :
        /\ WF_notifierVars(\/ \E ch \in Channels : SyncChannel(w, ch)
                           \/ \E r \in Rules : SyncRule(w, r)
                           \/ NotifierSynced(w))
        /\ \A e \in Events :
              /\ SF_notifierVars(ReadChannels(w, e))
              /\ \A place \in Places :
                    SF_notifierVars(/\ notifier[w].step \in {"rules", "send", "record", "ack"}
                                    /\ notifier[w].event = e
                                    /\ PlaceOf(w) = place
                                    /\ Process(w))

\* Every event is acknowledged in the end as long as a worker runs, even if no
\* webhook ever takes a message.
EventsAreAcknowledged ==
    \A e \in Events :
        e \in waiting ~> e \notin waiting \/ \A w \in Workers : notifier[w] = Down

================================================================================
