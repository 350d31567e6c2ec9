------------------------------ MODULE JobDiscovery ------------------------------
(***************************************************************************)
(* The persistence dispatcher and the job store: sources publish the       *)
(* postings they see as jobs.discovered events, dispatchers save each      *)
(* event into the table of jobs, find out whether it is a job already      *)
(* known, and ask for the description of a job that came without one.      *)
(* SaveDiscoveredJob is one transaction and one action; publications are   *)
(* actions of their own, so crashes and redeliveries fall between them.    *)
(***************************************************************************)
EXTENDS Integers, Sequences

CONSTANTS
    Sources,      \* names of job sources
    ExternalIds,  \* ids the sources give to their postings
    NoId,         \* a posting without external id
    Links,        \* what else identifies a posting: its URLs, or its other fields
    Written,      \* Written[l]: link l as it enters an idempotency key
    Canonical,    \* Canonical[l]: the canonical URL of link l, or NoUrl
    NoUrl,        \* no URL at all
    Postings,     \* the postings the sources may show
    Dispatchers,  \* persistence-dispatcher processes sharing the durable consumer
    MaxEvents     \* bound: jobs.discovered messages ever stored

Posting == [source : Sources, ext : ExternalIds \cup {NoId}, link : Links,
            text : BOOLEAN]

ASSUME DiscoveryAssumption ==
    /\ MaxEvents \in Nat
    /\ NoId \notin ExternalIds
    /\ DOMAIN Written = Links
    /\ DOMAIN Canonical = Links
    /\ Postings \subseteq Posting

VARIABLES
    log,         \* the postings of the stored jobs.discovered messages
    unacked,     \* messages the consumer has not acknowledged
    audited,     \* job_events: messages whose event id is in the table
    jobs,        \* jobs and job_descriptions, indexed by the autoincrement id
    requested,   \* description fetch requests stored in the stream
    needy,       \* history: jobs that the last save left blank, and that nobody
                 \* has asked for or fetched since
    dispatcher   \* what each dispatcher is doing

vars == <<log, unacked, audited, jobs, requested, needy, dispatcher>>

--------------------------------------------------------------------------------
(* The three identities of a job.                                          *)

None == 0                       \* Go's zero id: no row
EventIds == 1 .. MaxEvents
NoKey == <<>>                   \* source_external_key IS NULL

Ids == ExternalIds \cup {Written[l] : l \in Links}
Keys == Sources \X Ids
ExternalKeys == Sources \X ExternalIds
Urls == {Canonical[l] : l \in Links}

\* JobIdempotencyKey: the external id, else the application URL as written,
\* else a hash of the other fields.
KeyOf(p) == <<p.source, IF p.ext = NoId THEN Written[p.link] ELSE p.ext>>

ExternalKeyFaulty(p) == <<p.source, p.ext>>
\* sourceExternalKey, absent for a posting without external id.
ExternalKey(p) == IF p.ext = NoId THEN NoKey ELSE <<p.source, p.ext>>

Url(p) == Canonical[p.link]

\* The columns a posting writes; "text" is raw_text being present.
RowOf(p) == [key |-> KeyOf(p), ext |-> ExternalKey(p), url |-> Url(p), text |-> p.text]

Row == [key : Keys, ext : ExternalKeys \cup {NoKey}, url : Urls, text : BOOLEAN]

ByKey(p) == {j \in DOMAIN jobs : jobs[j].key = KeyOf(p)}

ByExternalIdFaulty(p) == {j \in DOMAIN jobs : /\ jobs[j].ext # NoKey
                                              /\ jobs[j].ext[2] = p.ext}
ByExternalId(p) == {j \in DOMAIN jobs : /\ jobs[j].ext # NoKey
                                        /\ jobs[j].ext = ExternalKey(p)}
ByUrl(p) == {j \in DOMAIN jobs : jobs[j].url # NoUrl /\ jobs[j].url = Url(p)}

FoundFaulty(p, j) ==
    \/ j \in ByUrl(p) /\ \A i \in ByUrl(p) : j <= i
    \/ ByUrl(p) = {} /\ j \in ByKey(p)

\* The three queries of upsertJob: j is the row that stands for posting p.
Found(p, j) ==
    \/ j \in ByKey(p)
    \/ ByKey(p) = {} /\ j \in ByExternalId(p)
    \/ /\ ByKey(p) = {} /\ ByExternalId(p) = {}
       /\ j \in ByUrl(p) /\ \A i \in ByUrl(p) : j <= i

Known(p) == \E j \in DOMAIN jobs : Found(p, j)

\* The unique indexes on idempotency_key and source_external_key let row j have
\* the identities of p.
Fits(p, j) ==
    \A i \in DOMAIN jobs \ {j} :
        /\ jobs[i].key # KeyOf(p)
        /\ jobs[i].ext # NoKey => jobs[i].ext # ExternalKey(p)

--------------------------------------------------------------------------------

SavedSteps == {"announce", "request", "ack"}    \* the event is in job_events
Idle == [step |-> "idle", event |-> None, job |-> None]
Dispatcher ==
    {Idle} \cup [step : {"save"}, event : EventIds, job : {None}]
           \cup [step : SavedSteps, event : EventIds, job : Nat]

\* The types of all variables.
TypeOK ==
    /\ log \in Seq(Postings)
    /\ Len(log) <= MaxEvents
    /\ unacked \subseteq DOMAIN log
    /\ audited \subseteq DOMAIN log
    /\ jobs \in Seq(Row)
    /\ Len(jobs) <= MaxEvents
    /\ requested \subseteq Sources \X DOMAIN jobs
    /\ needy \subseteq DOMAIN jobs
    /\ dispatcher \in [Dispatchers -> Dispatcher]

Init ==
    /\ log = <<>>
    /\ unacked = {}
    /\ audited = {}
    /\ jobs = <<>>
    /\ requested = {}
    /\ needy = {}
    /\ dispatcher = [d \in Dispatchers |-> Idle]

\* The producer publishes what a source shows now.  A posting whose key was seen
\* within the deduplication window is dropped by the stream: nothing happens.
Discover(p) ==
    /\ Len(log) < MaxEvents
    /\ log' = Append(log, p)
    /\ unacked' = unacked \cup {Len(log) + 1}
    /\ UNCHANGED <<audited, jobs, requested, needy, dispatcher>>

\* The description fetcher has served a request; a page may have no text.
FetchDescription(r, text) ==
    /\ jobs' = [jobs EXCEPT ![r[2]].text = text]
    /\ needy' = needy \ {r[2]}
    /\ UNCHANGED <<log, unacked, audited, requested, dispatcher>>

--------------------------------------------------------------------------------
(* The dispatcher: processMessage.                                         *)

\* A new message, or one again after a Nak, a crash or an ack wait that ran out.
Deliver(d, e) ==
    /\ dispatcher[d].step = "idle"
    /\ e \in unacked
    /\ dispatcher' = [dispatcher EXCEPT ![d] = [step |-> "save", event |-> e, job |-> None]]
    /\ UNCHANGED <<log, unacked, audited, jobs, requested, needy>>

\* An error of the store or the broker (Nak), or the dispatcher stops.
GiveUp(d) ==
    /\ dispatcher[d].step # "idle"
    /\ dispatcher' = [dispatcher EXCEPT ![d] = Idle]
    /\ UNCHANGED <<log, unacked, audited, jobs, requested, needy>>

SavedAs(d, j) ==
    dispatcher' = [dispatcher EXCEPT ![d].step = "announce", ![d].job = j]

Left(j, p) == needy' = IF p.text THEN needy \ {j} ELSE needy \cup {j}

\* SaveDiscoveredJob for an event id not in job_events: the event, the job, the
\* description and the search row in one transaction.  A conflict with a unique
\* index rolls all of it back: a GiveUp.
SaveDiscoveredJob(d) ==
    LET e == dispatcher[d].event
        p == log[e] IN
    /\ dispatcher[d].step = "save"
    /\ e \notin audited
    /\ \/ /\ ~ Known(p)
          /\ jobs' = Append(jobs, RowOf(p))
          /\ SavedAs(d, Len(jobs) + 1)
          /\ Left(Len(jobs) + 1, p)
       \/ \E j \in DOMAIN jobs :
             /\ Found(p, j)
             /\ Fits(p, j)
             /\ jobs' = [jobs EXCEPT ![j] = RowOf(p)]
             /\ SavedAs(d, j)
             /\ Left(j, p)
    /\ audited' = audited \cup {e}
    /\ UNCHANGED <<log, unacked, requested>>

RedeliveredFaulty(d) ==
    /\ dispatcher[d].step = "save"
    /\ dispatcher[d].event \in audited
    /\ \E j \in ByKey(log[dispatcher[d].event]) :
          dispatcher' = [dispatcher EXCEPT ![d].step = "ack", ![d].job = j]
    /\ UNCHANGED <<log, unacked, audited, jobs, requested, needy>>

\* SaveDiscoveredJob for an event id in job_events: the job is looked up by key
\* only, and the error of finding none is a Nak.
Redelivered(d) ==
    /\ dispatcher[d].step = "save"
    /\ dispatcher[d].event \in audited
    /\ \E j \in ByKey(log[dispatcher[d].event]) : SavedAs(d, j)
    /\ UNCHANGED <<log, unacked, audited, jobs, requested, needy>>

\* jobs.saved, which no worker consumes.
PublishSaved(d) ==
    /\ dispatcher[d].step = "announce"
    /\ dispatcher' = [dispatcher EXCEPT ![d].step =
                         IF log[dispatcher[d].event].text THEN "ack" ELSE "request"]
    /\ UNCHANGED <<log, unacked, audited, jobs, requested, needy>>

\* jobs.description.fetch.requested, keyed by source and job.
RequestDescription(d) ==
    /\ dispatcher[d].step = "request"
    /\ requested' = requested \cup {<<log[dispatcher[d].event].source, dispatcher[d].job>>}
    /\ needy' = needy \ {dispatcher[d].job}
    /\ dispatcher' = [dispatcher EXCEPT ![d].step = "ack"]
    /\ UNCHANGED <<log, unacked, audited, jobs>>

AckFaulty(d) ==
    /\ dispatcher[d].step \in {"request", "ack"}
    /\ unacked' = unacked \ {dispatcher[d].event}
    /\ dispatcher' = [dispatcher EXCEPT ![d] = Idle]
    /\ UNCHANGED <<log, audited, jobs, requested, needy>>

Ack(d) ==
    /\ dispatcher[d].step = "ack"
    /\ unacked' = unacked \ {dispatcher[d].event}
    /\ dispatcher' = [dispatcher EXCEPT ![d] = Idle]
    /\ UNCHANGED <<log, audited, jobs, requested, needy>>

Next ==
    \/ \E p \in Postings : Discover(p)
    \/ \E r \in requested, text \in BOOLEAN : FetchDescription(r, text)
    \/ \E d \in Dispatchers :
          \/ \E e \in unacked : Deliver(d, e)
          \/ GiveUp(d)
          \/ SaveDiscoveredJob(d)
          \/ Redelivered(d)
          \/ PublishSaved(d)
          \/ RequestDescription(d)
          \/ Ack(d)

Spec == Init /\ [][Next]_vars

--------------------------------------------------------------------------------
(* Safety.                                                                 *)

\* Whatever the sources have shown so far and show next, and although a row found
\* by one identity takes over the other two, a save never runs into a unique
\* index: no discovery is refused for ever.
SavesNeverConflict ==
    \A p \in Postings : \A j \in DOMAIN jobs : Found(p, j) => Fits(p, j)

\* A row becomes another posting only when both have the same canonical URL:
\* neither a key nor an external id leads to a job of somebody else.
JobsMoveByUrl ==
    [][\A j \in DOMAIN jobs :
          jobs'[j].key # jobs[j].key => /\ jobs'[j].url = jobs[j].url
                                        /\ jobs[j].url # NoUrl]_vars

StillToBeRequested(j) ==
    \E e \in unacked \cap audited : ~ log[e].text /\ KeyOf(log[e]) = jobs[j].key

\* A job that its last posting left without description has been asked for since,
\* or a message that is still to be processed will ask, even when the dispatcher
\* stopped between the save and the request and other events took the row over in
\* between.  No row is blank without a request, old or to come.
BlankJobsAreRequested ==
    \A j \in DOMAIN jobs :
        IF j \in needy THEN StillToBeRequested(j)
        ELSE jobs[j].text \/ \E s \in Sources : <<s, j>> \in requested

\* What the documents promise of every consumer: an event that was saved and is
\* delivered again is recognised and can be processed.
RedeliveriesAreRecognised ==
    \A e \in unacked \cap audited : ByKey(log[e]) # {}

--------------------------------------------------------------------------------
(* What discovery promises to the pipeline.                                *)

\* A dispatcher that is about to ask for the description of job j.
WillAsk(d, j) ==
    /\ dispatcher[d].step \in {"announce", "request"}
    /\ dispatcher[d].job = j
    /\ ~ log[dispatcher[d].event].text

\* There are never more rows than saved events.
Rows == EventIds
Owed == {j \in DOMAIN jobs : StillToBeRequested(j) \/ \E d \in Dispatchers : WillAsk(d, j)}

Saved == INSTANCE SavedJobs WITH Jobs <- Rows, owed <- Owed

\* The dispatchers, with their crashes, redeliveries and changes of identity, keep
\* the promise of SavedJobs, on which the pipeline is built.
ImplementsSavedJobs == Saved!SavedSpec

================================================================================
