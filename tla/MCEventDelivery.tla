---------------------------- MODULE MCEventDelivery -----------------------------
(***************************************************************************)
(* One event, three names of rules, and what is deployed, for TLC.        *)
(***************************************************************************)
EXTENDS EventDelivery, TLC

CONSTANTS m1, w1, b1

MCEvents == {m1}
MCSubject == m1 :> "jobs.matched"
MCScore == m1 :> 60

OnMatch(enabled, min) == [subject |-> "jobs.matched", enabled |-> enabled, min |-> min]
OnReady(enabled, min) == [subject |-> "applications.ready", enabled |-> enabled, min |-> min]

\* Rule 2 is "applications-ready", 3 is "jobs-matched"; 1 and channel 2 are names
\* that only users have given.
MCConfig == [channels |-> 1 :> "on",
             rules |-> 2 :> OnReady(TRUE, 0) @@ 3 :> OnMatch(TRUE, 50)]
MCRuleEdits == {OnMatch(TRUE, 70), OnMatch(FALSE, 0)}

MCTopic == "jobs.matched" :> "jobs" @@ "settings" :> "notifications"
MCBroadcasters == DOMAIN MCTopic
MCSubscriptions == {{"jobs"}}

\* The worker without anybody looking on, and browsers without it: the two share
\* no more than the publication of events and the saving of settings.
MCDeployments == {[workers |-> {w1}, browsers |-> {}],
                  [workers |-> {}, browsers |-> {b1}]}

================================================================================
