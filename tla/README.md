# A TLA+ model of hedhuntr

hedhuntr finds jobs, matches them with a candidate's profile, drafts the
materials of an application, has a human review them, and hands approved
applications to a browser that the human finishes. It is a set of Go processes
around one NATS JetStream stream and one SQLite database. This directory holds
TLA+ modules that model its core, TLC configurations that check them on small
instances, and theorems about them that TLAPS has checked for all instances.

Source lines below are relative to `src/`.

## 1. Inventory

### Processes and how they interact

    source-producer, scheduler --jobs.discovered--> persistence-dispatcher
      --jobs.description.fetch.requested--> description-fetcher
      --jobs.description.fetched--> parser-worker --jobs.parsed--> matching-worker
      --applications.ready--> resume-tuning-worker --applications.materials.drafted--> (UI)
    human --API: review--> applications.ready again (regeneration)
    human --API: approve automation--> automation.run.requested --> automation-worker
      --automation.run.*--> (UI, notification-worker)

Every process opens the same SQLite file (`internal/store`, WAL, pool of ten
connections); a store method is a statement or a transaction, and statements of
different processes interleave freely. Every worker is a durable pull consumer
with manual acknowledgement: `Run` fetches a batch, calls `processMessage`, acks
on success and naks on any error. A nak, a crash, or an ack wait of 30 s that
runs out makes the stream deliver the message again, without limit, backoff or
dead letter. Publishers send the envelope's idempotency key as the message id,
and the stream drops a second message with the same id within its
deduplication window.

### Components

| Component | State it keeps | Operations | What is hard |
|---|---|---|---|
| Automation handoff (`internal/store/automation.go`, `internal/api/server.go`) | `automation_runs`, `automation_logs`, `applications.status`, `selected_*_material_id` | approve, retry, mark submitted, fail, packet | transactions beside bare statements, publication after commit, users racing workers |
| Automation worker (`internal/automationworker`) | none of its own | `processMessage` | nine calls, each of which may be the last before a crash; redelivery; slow browser |
| Resume-tuning worker (`internal/resumetuningworker`, `internal/store/resumes.go`, `application_materials.go`) | `documents`, `resume_versions`, `application_materials` | draft resume, cover letter, answers | select-then-insert races, redelivery after part of the work, redrafting reviewed rows |
| Material review (`internal/store/review.go`, `internal/api/server.go`) | `application_materials.status` | queue, decide, ask for regeneration | stale view, decision by id |
| Dispatcher and job store (`internal/dispatcher`, `internal/store/store.go`) | `jobs`, `job_events`, `job_descriptions`, `jobs_fts` | save a discovered job | three identities of a job (idempotency key, source and external id, canonical URL) that move; redelivery |
| Description fetcher, parser, matcher workers | `job_descriptions`, `job_requirements`, `job_matches`, `applications`, `jobs.status` | fetch, parse, match | statuses set without conditions, the deduplication window, late messages |
| Interviews (`internal/store/interviews.go`) | `interviews`, `interview_tasks` | create, update, tasks | moves the application's status from any other |
| Scheduler and producer (`internal/scheduler`, `internal/producer`) | `job_sources`, `job_source_runs` | run due sources | crash in a run, two schedulers, cancelled context |
| Notification worker (`internal/notificationworker`) | channels, rules, `notification_deliveries` | deliver, record | redelivery after a delivery, partial failure |
| WebSocket hub (`internal/api/hub.go`, `events.go`) | clients, queues, topics | add, remove, broadcast, subscribe | bounded queues, a data race on topics |
| Migrations (`internal/store/migrations.go`), broker setup (`internal/broker`) | schema, stream | create | concurrent start-up |
| Matcher, parser, tuner, profile quality | none | pure functions | text patterns, scores |
| Configuration, adapters, commands, web and desktop interface | none shared | I/O | out of scope |

### What makes them correct

- *Review*: a material is approved only by a human; approved content does not
  change; redelivery and concurrent tuners leave one row per kind and
  announcement; an acknowledged announcement has its whole packet.
- *Handoff*: a run names materials of its own application that a human
  approved; the packet does too; a run moves forward only; review is reached
  with a complete audit trail; approvals make one active run; a submitted
  application has a run that was started; a requested run gets an outcome.
- *Jobs*: one row per job whatever the order and repetition of its discoveries;
  a job that came without description is not lost on its way to a match; its
  match follows its requirements; its status never claims a row that is not
  there; an application that is ready is announced.
- *Scheduling*: a due source is run, once per interval; the row of a run accounts for
  the events that the stream gets of it; an abandoned run stops nothing.
- *Delivery to people*: an event is acknowledged after an attempt on every channel
  that was on; nothing goes to a channel that was off; a broadcast never waits
  for a browser; a broken connection leaves the hub.

`PROJECT.json` lists the hazards with the lines where they bite and the
properties that cover them.

## 2. Modules

| Module | Models |
|---|---|
| `ReviewedMaterials` | the abstract contract of drafting and review: the table `application_materials` as the handoff sees it |
| `ApplicationMaterials` | drafting and review in detail: announcements, redelivery, tuners statement by statement, reviewers who decide by id at any time |
| `AutomationHandoff` | the handoff and the automation worker, on top of `ReviewedMaterials` |
| `SavedJobs` | the abstract contract of discovery: which saved jobs are still to be asked for |
| `JobDiscovery` | the dispatcher and the job store: identities of jobs, redelivery, requests for descriptions |
| `JobMatching` | the parser (skills, remote policy, pay) and the matcher's score, as operators |
| `JobPipeline` | description fetcher, parser worker and matching worker on the rows of a job, redelivery, the deduplication window |
| `SourceScheduler` | the scheduler and the producer it runs: due sources, runs and their rows, stops and changed configurations |
| `Notifications` | the notification worker: settings, attempts and records, call by call |
| `ClientHub` | the WebSocket hub: clients, queues, subscriptions, the two loops of a client |
| `EventDelivery` | the composition of the last two |
| `MC...` | constants for TLC: symmetry, a small job market, a small vocabulary, configurations |
| `ReviewedMaterialsProofs`, `AutomationHandoffProofs`, `ApplicationMaterialsProofs`, `JobDiscoveryProofs`, `JobPipelineProofs`, `SourceSchedulerProofs`, `EventDeliveryProofs` | the theorems and their proofs |
| `SequenceFacts` | lemmas about tables: what an INSERT and an UPDATE do to a sequence of rows |

### How they compose

`AutomationHandoff` EXTENDS `ReviewedMaterials`: its steps on materials are that
module's actions, taken beside the handoff's own, and the theorem
`HandoffKeepsMaterialsContract` proves `Spec => MaterialsSpec`.
`ApplicationMaterials` knows nothing of the handoff; its property
`ImplementsReviewedMaterials` is `MaterialsSpec` under a refinement mapping that
forgets documents and events, maps every status but `approved` to `pending`, and
calls an application *drafting* while a tuner is past its first read. So what is
proved of the handoff over the contract holds over the detailed drafting; the
theorem `Implements` proves the refinement.

`EventDelivery` takes the steps of `Notifications` and `ClientHub` side by side.
They share two things: the publication of an event, which reaches the durable
consumer of the worker and the plain subscriptions of the API's bridge at once
(`Publish`), and the settings that a user saves through the API, whose handler
then broadcasts (`SaveChannel`, `SaveRule`). `Deployments` says which workers
and browsers there are.

`JobPipeline` EXTENDS `SavedJobs`, the contract of what comes before it. Its
`SaveDiscovered`, `RequestDescription` and `DispatcherTurns` are all that the
pipeline sees of the dispatcher, and each takes a step of the contract: `needy`
are the jobs that their last save left blank and nobody has asked for or
fetched since, `owed` those that a message of the dispatcher's consumer may still
ask for, and a needy job never ceases to be owed. `JobDiscovery` implements the
contract with events, identities and dispatchers: `Owed` are the rows whose key a
saved and unacknowledged event without text has, or that a dispatcher past its save is about
to ask for. The theorem `DiscoveryKeepsItsPromise` proves this refinement and
`PipelineKeepsSavedJobs` that the pipeline takes no other steps on the two
variables. So `NoJobIsLost` and `BlankTextsAreRequested`, which rest on the
contract, hold behind dispatchers that crash, overlap and move rows to other identities.

The pipeline ends in `applications.ready`, where `ApplicationMaterials` begins; the
two share that message and the row of the application only.

### Correspondence with the code

- A row of a table is an element of a sequence, its autoincrement id the index.
  Nothing in the modelled code deletes rows.
- A statement outside a transaction is one action, a transaction is one action:
  `Approve` is the transaction of `ApproveApplicationForAutomation`, while
  `MarkAutomationSubmitted` is `SubmitRun` and then `SubmitApplication`, because
  the code runs the two updates separately; `SubmitInterrupted` is the stop in
  between.
- `processMessage` of the automation worker is a program counter `worker[w].step`
  with one action per call. A failure of a call after which the code naks, and a
  crash anywhere, are the same to the rest of the system: the message stays
  unacknowledged and the worker's memory is gone (`GiveUp`). Failures after which
  the code first writes (`MarkAutomationFailed`) are actions of their own
  (`PacketFails`, `BrowserFails`).
- The extra log line of an enabled browser, the status events of the worker and
  all read-backs are left out: nothing reads them but people.
- The stream is a set of unacknowledged messages, any of which may be delivered
  to any idle worker at any time. That covers new messages, naks, crashes and
  ack waits that run out while the first worker is still busy. Deduplication is
  a choice: when a message of the same run has been stored before, a new one may
  be stored or dropped.
- `PublishLost` is every way a committed handoff is not announced: the packet or
  the run cannot be read back, the first of the two events fails, the process stops.
- In `ApplicationMaterials` a place in `KindOrder` is the tuner's position in the
  three blocks of its `processMessage`; `content` is what `Tune` would return
  now, which an edit of the profile changes. `LookForMaterial` and
  `InsertMaterial`/`UpdateMaterial` are the SELECT and the INSERT or UPDATE of
  `CreateApplicationMaterial`, which runs outside a transaction; `UniqueDraft`
  is the unique index that then stops the second INSERT.
- In `JobDiscovery` a posting has a source, perhaps an external id, a `link` and
  perhaps a text. The link stands for all else that identifies it: `Written` is
  what enters the idempotency key (the application URL in lower case, or the hash
  of the other fields), `Canonical` the canonical URL (of the application or
  source URL, or none). `KeyOf`, `ExternalKey` and `Url` are the three
  identities, `Found` the three queries of `upsertJob` in their order.
  `SaveDiscoveredJob` is one action because it is one transaction: in WAL mode a
  writer whose snapshot is no longer the last one gets an error, a `GiveUp`.
  A save that hit a unique index would be one as well; `SavesNeverConflict` says
  there is none.
- In `JobMatching` a text is the set of words and phrases it contains and the pair
  of numbers it offers as pay. `SkillPoints` is the truncated binary fraction the
  code computes, with the two quotients that binary fractions make a point smaller.
- In `JobPipeline` the program counter of a process has a step per statement that
  another process could come between. `Publish` drops a message whose key
  is in `window` and keeps in `muted` that it has; `Expire` is the end of the window.
  A page is a text or none, and a page that cannot be had is a `FetcherGivesUp`.
  `ParseText` takes the text of the event and, only if it is empty, the one that is
  stored. `MarkApplication` and `MarkJob` are the two updates of
  `MarkApplicationReady`, which runs outside a transaction. `jobs.matched` is
  for the notification worker and left to `EventDelivery`.
- In `SourceScheduler` the time of a tick is taken once (`now`) and the due
  sources are read once, as in `RunOnce`. `BeginSourceRun` and `CompleteSourceRun`
  are transactions; the time that the latter writes is taken earlier, by `completeRun`
  (`finished` of the step *complete*), and time may pass between. `PublishJob` is a
  publication that the stream acknowledges: it counts, whether the event is stored or is a
  duplicate within the deduplication window. After a `PublishFails`, or a `Stop` in the middle of
  one, nobody knows what became of the event: its run is in `inflight`, and
  `EventArrives` may store it any time later, also when the run has ended and its process is
  gone. `Stop` is a crash as well as a cancelled context, since every
  later statement fails with it. A configuration is a choice at each `Start`; a row
  whose source has left it stays. `Interval` is a constant, although every start writes the
  configured interval over `interval_seconds`: what is said about intervals is for configurations
  that do not change them.
- In `Notifications` channels and rules are numbered in the order of their names, in
  which the queries list them. `ReadChannels` and `ReadRules` are the two reads
  of `notificationSettings`; `Send` may reach the webhook and still fail
  (`reached`), `RecordDelivery` follows it, and a failure of the latter makes
  the event come again (`NotifierNaks`). `seen[e]` collects what the settings were
  since the publication: what a worker acts on may be a mixture that none of them was.
- In `ClientHub` a broadcaster is a goroutine that calls `Broadcast`: one per
  subscription of the bridge, and an HTTP handler. It holds the read lock from
  `BeginBroadcast` to `EndBroadcast`. `Subscribe` empties the map of topics and
  `AddTopic` fills it, without the lock. When a broadcaster reads the map meanwhile
  the Go runtime may stop the process: `TopicsRace`.
- Histories (`everApproved`, `everSubmitted`, `origin` of a run, `needy` of
  `JobDiscovery`, `posted`, `muted`, `stored`, `called`, `seen`) are read by properties only.
- Operators whose name ends in `Faulty`, and `BeginSourceRunOffByOne` and
  `BeginSourceRunLookedUp`, are wrong versions of the definition that follows them.
  No specification uses them; put in its place, each makes a property fail, which
  shows that the property depends on that line of the code.

## 3. Model checking

| Run | Instance | Shows |
|---|---|---|
| `HandoffRuns` | 1 application, 1 worker, 1 material, 2 runs | `TypeOK`; `RunsHaveSelection`: the packet query never lacks a selected resume; `OneActiveRunPerApproval`; `SubmissionHasARun` |
| `HandoffWorkers` | 1 application, 2 workers, 2 materials, 1 run | under races of two deliveries, users, tuners and reviewers: `RunsNameApprovedMaterials`, `PacketsOfApprovedRows`, `ReviewIsAudited`; `RequestsAreKept`: no acknowledgement loses a run without outcome; `RunProgress`: statuses never go back |
| `HandoffProgress` | 1 worker, 1 run, fairness | `RequestedRunsGetAnOutcome` |
| `MaterialsDrafts` | 2 tuners, 2 contents, 1 announcement | `TypeOK`, `OneMaterialPerKind`, `AcknowledgedMeansDrafted`, `ApprovedContentIsFixed`, `ImplementsReviewedMaterials` |
| `MaterialsProgress` | 1 tuner, fairness | `AnnouncedIsDrafted` |
| `DiscoveredJobs` | 2 dispatchers, 3 events, 5 ways to list one job, 2 sources | `TypeOK`, `SavesNeverConflict`, `JobsMoveByUrl`, `BlankJobsAreRequested`, `ImplementsSavedJobs` |
| `PipelineOrder` | 1 job, 1 text or none, 1 fetcher, 1 parser, 1 matcher, 1 disturbance | `TypeOK`, `NoJobIsLost`, `BlankTextsAreRequested`, `MatchesFollowRequirements`, `ReadyIsAnnounced`, `StatusHasItsRow` |
| `SourceRuns` | 2 sources, 2 configurations, 1 scheduler, 3 runs, fairness | `TypeOK`, `RunsKeepTheInterval`, `RowsAccountForEvents`, `LastSuccessIsTheLast`, `EndedRunsAreFinal`, `DueSourcesAreRun` |
| `Deliveries` | 1 event, 2 channels, 3 rules, 1 edit, 1 worker or 1 browser, fairness | `TypeOK`, `SteadyChannelsAreServed`, `SilencedChannelsStaySilent`, `NoSendOnClosedQueue`, `EventsAreAcknowledged`, `SlowClientsDelayNobody`, `BrokenClientsLeave` |
| `PacketsAreApproved`, `NoHandoffAfterSubmission`, `RedeliveriesAreRecognised` | smallest that shows it | a counterexample, see section 5 |

**Bounds.** `MaxMaterials`, `MaxRuns`, `MaxCopies` and `MaxEvents` limit rows ever
inserted and messages ever stored; they are guards of the inserting actions and
nothing else. Two runs are enough for a run and the one that replaces it: the
reuse query looks at the newest only and a retry copies one other. A message
stays deliverable while a worker holds it, so one copy and two workers give
every overlap of two deliveries; a third worker does only what one of the two
can do after it. Two materials give a resume beside a cover letter, answers, or
a second resume. No statement of the code relates rows of two applications but
through ids taken from one of them, so the runs have one application; the
theorems of section 4 hold for any number, and need none of the other bounds to
be small. One announcement is enough for redelivery; rows of different
announcements are never looked up together. Three events give a job found by one
identity, taken over by the second event and moved or looked for by the third;
the five postings share keys, external ids and canonical URLs in every
combination that the three queries distinguish. 
`MaxDisturbances` counts what the pipeline's environment does to a job after its first
discovery: a rediscovery or the end of a deduplication window. One of either is enough
for a wiped text and for a second message of each kind, and makes two
million states; more only repeat them, and the theorems hold for any number. The
text either earns a score above the threshold or is missing, which scores below
it, so that a job can cross the threshold both ways. `MaxTime` and `MaxRuns` of
the scheduler allow an hourly source (2 units of time) to become due again while
the one without interval is run beside it; its second configuration has left the one and
switched the other off. Two jobs per listing let a run fail half-way. `MaxEdits` is one change of settings,
beside those a restart makes; the rules have a name before, between and
after those of the configuration. A client's queue has room for one message in
place of 16: full and empty are what the code tells apart. The worker without
browsers and browsers without the worker are two deployments of one run, because their
steps touch no common variable but through the two shared actions.

Symmetry is used in runs without
liveness only, over workers, tuners, contents and dispatchers, none of which is named anywhere.

**Deadlock** is checked in the runs of the handoff, the materials, the scheduler
and the delivery, where a user or a restart can always act. Discovery and the pipeline
may stop: sources show nothing new and every event is processed.

**Fairness.** Strong fairness of each delivery and of each step a worker takes for
one message. The consumer loop fetches for ever, the stream delivers
unacknowledged messages again, and the assumption on steps says that an error of
SQLite, the broker or the browser is not repeated for ever. It must be strong:
a crash disables the step and a redelivery enables it again, any number of
times. It is stated per run and step, so that progress with one message
does not count as progress with another. Nothing is assumed of users, of the
publication of a request, or of processes not crashing.
`RequestedRunsGetAnOutcome` therefore starts from a stored message, since a
lost publication leaves a run `requested` until somebody acts.

A scheduler that runs goes on, with success or failure (weak fairness of the
two together: every call has a timeout); beginning a run of a source does not
fail at every tick (strong, per source). Nothing is assumed of restarts or of
completions, so `DueSourcesAreRun` holds although runs fail and are abandoned. The
notification worker's steps are fair per event and place; webhooks may fail every
time. In the hub goroutines run, but a write to an open connection need not
return and a browser need not read: only a broken connection ends a write. A
blocked `Lock` of Go's `RWMutex` excludes readers that come later, so `Remove` is
granted though broadcasts come again and again: strong fairness of the
read loop.

## 4. Proofs

`AutomationHandoffProofs` proves for every number of applications, workers, runs,
copies and materials that `Inv` is inductive, and from it type correctness and
all safety properties of the handoff runs. `Inv` is what a single step needs and
the properties do not say:

- `IdsExist`: no handler, message or worker holds the id of a row that does not exist;
- `OnlyHumansApprove`, from the contract: a row that is approved now was approved
  by a human, so the check of the approval transaction implies the history;
- `SelectionsAreApproved`: what the application selects, and what a worker that
  is between the two queries of the packet has read of it, was approved. Without
  it `PacketsOfApprovedRows` is not inductive;
- `StartedRuns`: `started_at` is set for runs past `requested` and for runs of
  workers past the first step. This is why `review_required`, which the code
  allows from `requested`, is never reached from there, and why a submitted
  application has a run that was started;
- `WorkersLog`: a worker has logged the steps it has passed, for `ReviewIsAudited`;
- `SubmittingRuns`: between the two updates of a submission the run has ended;
- `AnsweredRuns`: a worker that is about to acknowledge holds a run that is neither
  requested nor started. This is what `RequestsAreKept` needs: the message
  an acknowledgement takes away, and every other copy of it, is for a run that has an
  outcome or waits for review, and `RunProgress` says it never goes back.

The argument for the handoff first reduces every step to a few effects on the table of runs
(`RunsStep`, `EveryRunStep`, `NewRunStep`) and on a worker (`EveryWorkerStep`);
each conjunct is then preserved by those effects, in a lemma of its own.
`MaterialsStep` of `ReviewedMaterialsProofs` gives the part about materials,
through `MaterialsApart`: every step of the handoff is a step of the contract or
leaves the materials alone. The proofs assume `HandoffBounds` and
`MaxMaterialsIsNat` (the bounds are natural numbers) and nothing else.

`JobDiscoveryProofs` proves the five properties of `DiscoveredJobs` for every set of
sources, postings, links and dispatchers and every number of events, assuming
`DiscoveryAssumption` only. External ids may even look like URLs. Its
invariant says that

- `UniqueKeys`, `KeysAgree`: the external key of a row, if it has one, is its
  idempotency key, since every save writes both from one posting. This is why the
  second query of `upsertJob` never finds what the first has not
  (`ExternalIdGivesKey`) and why the update fits the unique indexes;
- `HeldRowsExist`, `AcknowledgedIsSaved`: a dispatcher past its save works on a
  stored event and an existing row, and nothing is acknowledged before;
- `BlankJobsAreCovered`, which strengthens `BlankJobsAreRequested`: the message
  that will make the request of a needy job is not held by a dispatcher that works
  for another row or is about to acknowledge it;
- `RowsAreFew`: there are no more rows than saved events, by counting both.

The refinement of `SavedJobs` needs no more than that. Each step concerns one row at most:
a dispatcher that moves concerns the row it holds, a save the row it writes, and an
acknowledgement the one row that has the key of the message (`UniqueKeys`). So
`Owed` gains or loses one element or stays (`OneElement`), and the invariant after the
step says that it was no needy one (`TurnStep`).

`ApplicationMaterialsProofs` proves the safety of drafting and the refinement
for any number of applications, announcements, tuners and contents. In its invariant
`RowsFollowEvents` ties a row to its announcement, `UniqueRows` is the unique
index, `TunerOK` says which rows a tuner at a step may count on, and an
acknowledged announcement is `Drafted`. The bound of the table in `TypeOK`
follows from `UniqueRows` by the pigeonhole principle. For the refinement each step
is mapped to a step of the contract or a stutter (`StepRefines`); a tuner
between its first read and its acknowledgement is what makes an application *drafting*.

`JobPipelineProofs` has two parts. For any number of jobs, texts and processes:
`CopiesAreCounted` (a key is stored again only after its window, and windows are among
the disturbances) gives the types; `ProcessesOK` says that a process that is about to
acknowledge has stored the next message of the job, or its match; with it
`JobsAreHandedOn` is inductive: each message about a job that was ever
stored is pending or has a successor. `BlanksAreRequested` needs that the pending
request is one no fetcher has taken yet (`Untaken`), because a fetcher that has
read the page before the posting wiped the text will acknowledge it.
`ScoreBounds`, needed for the types, follows from the bounds of `SkillPoints`.
`ScoreIsMonotone` compares the scores of one job for two profiles: adding skills,
titles or locations never lowers it, in spite of the two quotients that cost a point
(`SkillPointsGrow`: fewer skills earn no more than the share less that point). Of
the other preferences it says nothing, since a higher minimum salary is meant to lower scores.
With one matcher, `ReadyInv` adds that its message stays unacknowledged until it is
done; with one parser as well, `FollowInv` says that requirements whose match is not
their score are `Fresh`: an unacknowledged message that the matcher has not taken yet, or
a parser before it, will have them read. The assumptions of one process are needed: with two, TLC
finds a match overwritten by an older score, and an application whose second
matcher stops after the first has acknowledged.

`SourceSchedulerProofs` proves types and `RowsAccountForEvents` for any number of
schedulers: every process holds a run of its own that is still *running*
(`RunsAreHeldOnce`), and its counts bound what the stream has of it (`StateOK`). The
invariant speaks of the events to come as well (`Accounted`): a run that succeeded has
nothing in flight, and one that failed has room for the publication that still is, so that
`EventArrives` keeps it whenever it happens. `EndedRunsAreFinal` holds
although `CompleteSourceRun` updates by id with no look at the status: nobody holds a run
that has ended (`EndedRunStays`). Two results are for one scheduler.
`RunsKeepTheInterval`, since only then what was due at the tick is due when the run begins
(`DueIsDue`); the intervals are fixed. `LastSuccessIsTheLast`, since only then a run that is being
completed took its time after all runs that have succeeded (`EndsInOrder`). For any
number, `LastSuccess` says that `last_success_at` is the end of some successful run.

`EventDeliveryProofs` proves the four invariants of `Deliveries` for any number of
events, workers, clients, broadcasters and any deployment. `ViewsAreCurrent`: the
settings as they are belong to what every published event has seen. `WorkerOK`:
what a worker has still to do and what is recorded cover the channels that were on all the time, and
it serves none that was off all the time. `HubInv`: only registered
clients are offered messages, and `NoClientIsLeaked`, a theorem of its own: the hub
holds a client from its `Add` until the handler or read loop that began with it has
called `Remove`, which is also what makes `Remove` close each queue once.

Model-checked only: the liveness properties, which rest on fairness and ENABLED and
are out of the prover's reach, and what the recursive functions of the libraries
compute. The proofs assume the named assumptions on constants and nothing else.

## 5. Where the code and its documents differ

- `PacketsAreApproved`: the packet is loaded by the selected ids with no look at
  the status, so a material rejected after the approval is attached.
- `NoHandoffAfterSubmission`: a new match or an interview overwrites the status
  `submitted`, and with it the guard against a second handoff.
- `RedeliveriesAreRecognised`: an event that was saved but not acknowledged is
  looked up by its key when it is delivered again. Another posting of the job may
  have taken the row over in between, key and all; the error is compared with
  `sql.ErrNoRows` without unwrapping (`internal/store/store.go:56`), so the
  message fails on every delivery and its `jobs.saved` and fetch request are
  never published.

Met while modelling, without a run of their own:

- A second approval changes the application's selection and reuses the run,
  which keeps naming the materials of the first; the worker uses the selection.
  (`ARCHITECTURE.md:679` wants the exact materials preserved for each application.)
- A decision of a review is by id, so the approval of a material that a
  redelivery has redrafted in the meantime is for content the human has not seen.
- The request of a run that has ended (for instance after a crash between
  `review_required` and the ack) is refused and nak'ed on every delivery, without end.
- `MarkAutomationFailed` has no condition on the status: the failure of a slow worker
  makes a run failed that another delivery has brought to review or the user has submitted.
  `RunProgress` allows it, since no document says otherwise.
- `jobs.status` is set by whoever comes last: a fetch or a parse that is delivered again
  takes the status of a matched job back. `StatusHasItsRow` says only that a status has
  its row.
- A job known by its external id may move to the URL of another row; from then on
  two rows have one canonical URL.
- A redelivered announcement inserts documents and resume versions again.
- A posting that comes with its description is saved and goes no further: only
  `jobs.description.fetched` reaches the parser, and only the fetcher publishes it.
  It gets no requirements and no match. (`ARCHITECTURE.md:631` has the fetcher
  retrieve every posting.)
  `NoJobIsLost` names this exception.
- A page without text makes a parsed job without skills, which scores a neutral 35
  and with its title, place and policy may reach the threshold.
- The cap of 100 in `Score` is dead code: `ScoreBounds` proves that no score exceeds
  100 without it.
- A fetched text does not enter the idempotency key. Within the deduplication
  window, a changed text is stored and not parsed, or parsed and not matched, and a job
  whose text a posting has wiped is not fetched again. The invariants name this
  exception (`muted`). A message delivered late parses an older text
  than the one that is stored.
- An application that became ready just before a crash is not announced when its job
  scores below the threshold on redelivery; it stays `ready_to_apply`.
- Nothing matches jobs again when the profile changes. Hourly pay is read as
  thousands a year.
- Two schedulers, or `-run-once` beside the loop, run a source twice within its interval
  (`configs/scheduler.example.json:13`: "It is due every hour after its previous run"):
  nobody asks again before the run is inserted. Their times of completion are taken
  before their transactions and written without condition, so `last_success_at` may go
  back. The documents do not say that several may run.
- `events_published` counts publications that the stream drops as duplicates, and a run
  that failed by a timeout may get its last event stored after its row says so.
- A source that has left the producer's configuration stays enabled in the table, is
  due for ever and fails every time. An interval of less than a second truncates
  to none, and the source is run once.
- A start of the notification worker writes its configuration over the settings users
  have saved (`README.md:160` calls them SQLite-backed). Rules are not a
  union: the first enabled one in the order of names decides alone.
- A webhook that failed is recorded and not tried again, although `ARCHITECTURE.md:389`
  gives the notification service "Delivery retries". A crash between the call and
  the record makes the call happen twice; if the channel is switched off in between, it
  leaves a notification without record.
- A client's map of topics is written by the read loop and read by broadcasts without
  a common lock, which is a data race; while it is empty the client gets all topics.
- The handler of a new WebSocket connection blocks for ever when broadcasts have filled
  its queue between `Add` and the acknowledgement, since its writer is not started yet;
  and other messages may come before `Connected`.

## 6. Plan

In order; what is done is marked.

1. [done] `ReviewedMaterials`, `AutomationHandoff`: the last steps before an
   application leaves the system, where a wrong step costs most. Invariant proved.
2. [done] `ApplicationMaterials`, implementing the contract.
3. [done] `JobDiscovery`: dispatcher and `SaveDiscoveredJob`, with proofs.
4. [done] `JobPipeline`: fetcher, parser, matcher and the deduplication window, and
   `JobMatching`: the score. Invariants proved.
5. [done] `SourceScheduler` with the producer. Safety proved.
6. [done] `Notifications`, `ClientHub` and their composition. Safety proved.
7. [done] Proofs of the safety and the refinement of `ApplicationMaterials`.
8. [done] `SavedJobs`, the contract between discovery and the pipeline: implemented by
   the one, assumed by the other, both proved. Requests of runs, ended source runs and the
   hub's clients proved.
9. Left: a job gets a match in the end, under fairness of the three workers, on an
   instance small enough for liveness; the pipeline with a profile that changes;
   text the tuner writes, as operators.

## 7. Not modelled

- *Start-up*: migrations, broker setup and configuration. The tables are there before
  any service does anything. Processes that start together may both find a
  migration missing, because the version is checked before the transaction; the loser
  exits with an error and finds it applied when it is started again. The pragmas
  are set on one connection of the pool.
- *Text*: what the tuner writes and the HTML stripper leaves, requirements,
  responsibilities and seniority that the parser finds, and the wording of
  notifications. Nothing but people reads them.
- *Interviews and tasks*: single statements on rows that nothing else reads; their
  effect on the application is an action of `AutomationHandoff`.
- *Files of documents*, written once and never changed; the adapter plan and the
  browser command, whose effects are outside the system.
- *Read-only views, command line tools, job source adapters beyond the identities
  they give a posting, and the web and desktop interfaces.*

`PROJECT.json` gives the status of each part.
