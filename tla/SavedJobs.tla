-------------------------------- MODULE SavedJobs --------------------------------
(***************************************************************************)
(* What the saving of discovered jobs promises to the rest of the system:  *)
(* a job that a posting leaves without description is asked for.  Events,  *)
(* identities and dispatchers are abstracted away; JobDiscovery implements *)
(* this specification with them, and the pipeline that fetches, parses and *)
(* matches the jobs is built on it.                                        *)
(***************************************************************************)
EXTENDS Naturals

CONSTANT
    Jobs    \* rows of jobs

VARIABLES
    needy,  \* history: jobs that a posting left blank, and nobody has asked for since
    owed    \* jobs that some message of the dispatcher's consumer may still ask for

savedVars == <<needy, owed>>

SavedInit ==
    /\ needy \subseteq Jobs
    /\ owed = needy

--------------------------------------------------------------------------------

\* SaveDiscoveredJob for a posting without description.  Its message will ask.
SaveBlank(j) ==
    /\ needy' = needy \cup {j}
    /\ owed' = owed \cup {j}

\* SaveDiscoveredJob for a posting with one.  It may take the row over from messages
\* that were to ask, or give it back the key of such messages.
SaveText(j) ==
    /\ needy' = needy \ {j}
    /\ owed' \in {owed, owed \cup {j}, owed \ {j}}

\* The request for a description, which may be made again.
Ask(j) ==
    /\ j \in owed
    /\ needy' = needy \ {j}
    /\ owed' \in {owed, owed \ {j}}

\* The description fetcher has served a request.
Fetched(j) ==
    /\ needy' = needy \ {j}
    /\ UNCHANGED owed

\* A message about j is acknowledged, delivered again, or given up by a dispatcher.
\* None that somebody needs is the last to go.
Turn(j) ==
    /\ \/ owed' = owed \cup {j}
       \/ j \notin needy /\ owed' = owed \ {j}
    /\ UNCHANGED needy

SavedNext ==
    \E j \in Jobs : SaveBlank(j) \/ SaveText(j) \/ Ask(j) \/ Fetched(j) \/ Turn(j)

SavedSpec == SavedInit /\ [][SavedNext]_savedVars

================================================================================
