--------------------------- MODULE AutomationHandoff ---------------------------
(***************************************************************************)
(* The automation handoff: the API approves an application, creates an     *)
(* automation run and asks the worker to process it through JetStream; the *)
(* worker starts the run, loads the packet, prepares the browser and stops *)
(* at review_required; the user marks the run submitted or failed, or      *)
(* retries it.  Every statement or transaction on SQLite is one action, so *)
(* concurrent requests, workers and crashes interleave between them.       *)
(***************************************************************************)
EXTENDS ReviewedMaterials, FiniteSets

CONSTANTS
    Workers,    \* automation-worker processes sharing the durable consumer
    MaxRuns,    \* bound: rows ever inserted into automation_runs
    MaxCopies   \* bound: automation.run.requested messages stored per run

ASSUME HandoffBounds == MaxRuns \in Nat /\ MaxCopies \in Nat

VARIABLES
    appStatus,    \* applications.status, "none" before the row exists
    selected,     \* applications.selected_*_material_id
    runs,         \* automation_runs, indexed by the autoincrement id
    published,    \* number of request messages the stream has stored per run
    unacked,      \* request messages the consumer has not acknowledged
    publishing,   \* runs an API handler has committed and not published yet
    submitting,   \* runs an API handler has marked submitted, application not yet
    worker,       \* what each automation worker is doing
    everSubmitted \* history: applications that have had status "submitted"

handoffVars == <<appStatus, selected, runs, published, unacked,
                 publishing, submitting, worker, everSubmitted>>
vars == <<materialVars, handoffVars>>

--------------------------------------------------------------------------------

None == 0                       \* Go's zero id: no row
RunIds == 1 .. MaxRuns
MaterialIds == 1 .. MaxMaterials
Messages == [run : RunIds, copy : 1 .. MaxCopies]

AppStatuses == {"none", "ready_to_apply", "approved_for_automation",
                "submitted", "interview"}
RunStatuses == {"requested", "started", "review_required", "submitted", "failed"}

\* The WHERE clauses on status: which runs may be started, may be sent to
\* review, may be submitted by the user, are reused by an approval.
StartableFaulty == {"requested", "started", "review_required"}
Startable == {"requested", "started"}
Reviewable == {"requested", "started", "review_required"}
SubmittableFaulty == {"requested", "started", "review_required"}
Submittable == {"review_required", "started"}
ReusableFaulty == {"requested", "started"}
Reusable == {"requested", "started", "review_required"}
LogKinds == {"started", "packet", "plan"}

\* "startedAt" is the column started_at being set; "origin" is history: which
\* endpoint inserted the row.
Run == [app : Applications, status : RunStatuses, startedAt : BOOLEAN,
        resume : MaterialIds, cover : MaterialIds \cup {None},
        logs : SUBSET LogKinds, origin : {"approve", "retry"}]

Item == [id : MaterialIds, status : ReviewStatuses]
NoItem == [id |-> None, status |-> "none"]
Packet == [resume : Item \cup {NoItem}, cover : Item \cup {NoItem},
           answers : SUBSET MaterialIds]
NoPacket == [resume |-> NoItem, cover |-> NoItem, answers |-> {}]

Steps == {"start", "log_started", "read_selection", "load_materials",
          "log_packet", "log_plan", "browser", "ack"}
Selection == [resume : MaterialIds \cup {None}, cover : MaterialIds \cup {None}]
NoSelection == [resume |-> None, cover |-> None]

IdleWorker == [step |-> "idle", run |-> None, copy |-> 0,
               selection |-> NoSelection, packet |-> NoPacket]
BusyWorker == [step : Steps, run : RunIds, copy : 1 .. MaxCopies,
               selection : Selection, packet : Packet]
Worker == BusyWorker \cup {IdleWorker}

\* The types of all variables.
TypeOK ==
    /\ MaterialsTypeOK
    /\ Len(materials) <= MaxMaterials
    /\ appStatus \in [Applications -> AppStatuses]
    /\ selected \in [Applications -> Selection]
    /\ runs \in Seq(Run)
    /\ Len(runs) <= MaxRuns
    /\ published \in [RunIds -> 0 .. MaxCopies]
    /\ unacked \subseteq Messages
    /\ publishing \subseteq RunIds
    /\ submitting \subseteq RunIds
    /\ worker \in [Workers -> Worker]
    /\ everSubmitted \subseteq Applications

Init ==
    /\ MaterialsInit
    /\ appStatus = [a \in Applications |-> "none"]
    /\ selected = [a \in Applications |-> NoSelection]
    /\ runs = <<>>
    /\ published = [r \in RunIds |-> 0]
    /\ unacked = {}
    /\ publishing = {}
    /\ submitting = {}
    /\ worker = [w \in Workers |-> IdleWorker]
    /\ everSubmitted = {}

--------------------------------------------------------------------------------
(* The matching worker, interviews and the review of materials.            *)

\* MarkApplicationReady: inserts the application, or puts an existing one back
\* to ready_to_apply whatever its status was.
MarkApplicationReady(a) ==
    /\ appStatus' = [appStatus EXCEPT ![a] = "ready_to_apply"]
    /\ UNCHANGED <<materialVars, selected, runs, published, unacked,
                   publishing, submitting, worker, everSubmitted>>

\* CreateInterview: the application moves to "interview" from any status.
CreateInterview(a) ==
    /\ appStatus[a] # "none"
    /\ appStatus' = [appStatus EXCEPT ![a] = "interview"]
    /\ UNCHANGED <<materialVars, selected, runs, published, unacked,
                   publishing, submitting, worker, everSubmitted>>

\* GetApplicationReadyContext guards the start of drafting and nothing later.
StartDrafting(a) ==
    /\ appStatus[a] = "ready_to_apply"
    /\ BeginDrafting(a)
    /\ UNCHANGED handoffVars

ChangeMaterials ==
    /\ \/ \E a \in Applications : EndDrafting(a)
       \/ \E a \in Applications, k \in Kinds : InsertDraft(a, k)
       \/ \E m \in DOMAIN materials :
             \/ ReplaceDraft(m)
             \/ \E s \in ReviewStatuses : ReviewMaterial(m, s)
    /\ UNCHANGED handoffVars

--------------------------------------------------------------------------------
(* The API handlers.                                                       *)

MaterialsOf(a) == {m \in DOMAIN materials : materials[m].app = a}
OfKind(a, k) == {m \in MaterialsOf(a) : materials[m].kind = k}
ResumesFaulty(a) == OfKind(a, "resume") \cup {None}
Resumes(a) == OfKind(a, "resume")
CoverLetters(a) == OfKind(a, "cover_letter")
ApprovedAnswersFaulty(a) == OfKind(a, "application_answers")
ApprovedAnswers(a) ==
    {m \in OfKind(a, "application_answers") : materials[m].status = "approved"}
AllApprovedFaulty(a) == \A m \in Resumes(a) : materials[m].status = "approved"
AllApproved(a) == \A m \in MaterialsOf(a) : materials[m].status = "approved"
RunsOf(a) == {r \in DOMAIN runs : runs[r].app = a}
ReusableRuns(a) == {r \in RunsOf(a) : runs[r].status \in Reusable}

\* approvedMaterialIDsTx keeps the last row it scans (the index on
\* application_id yields them by rowid), None when there is no row.
IsLastOf(S, m) == \/ S = {} /\ m = None
                  \/ m \in S /\ \A n \in S : n <= m

NewRun(a, resume, cover, origin) ==
    [app |-> a, status |-> "requested", startedAt |-> FALSE,
     resume |-> resume, cover |-> cover, logs |-> {}, origin |-> origin]

\* The selected_* columns of the application.
SelectFaulty(a, resume, cover) == UNCHANGED selected
Select(a, resume, cover) ==
    selected' = [selected EXCEPT ![a] = [resume |-> resume, cover |-> cover]]

\* ApproveApplicationForAutomation, one transaction: reuses the newest active
\* run as it is, else inserts one.
Approve(a) ==
    /\ appStatus[a] \notin {"none", "submitted"}
    /\ AllApproved(a)
    /\ \E resume \in Resumes(a), cover \in CoverLetters(a) \cup {None} :
          /\ IsLastOf(Resumes(a), resume)
          /\ IsLastOf(CoverLetters(a), cover)
          /\ Select(a, resume, cover)
          /\ \/ /\ ReusableRuns(a) = {}
                /\ Len(runs) < MaxRuns
                /\ runs' = Append(runs, NewRun(a, resume, cover, "approve"))
                /\ publishing' = publishing \cup {Len(runs) + 1}
             \/ \E r \in ReusableRuns(a) :
                   /\ IsLastOf(ReusableRuns(a), r)
                   /\ publishing' = publishing \cup {r}
                   /\ UNCHANGED runs
    /\ appStatus' = [appStatus EXCEPT ![a] = "approved_for_automation"]
    /\ UNCHANGED <<materialVars, published, unacked, submitting, worker, everSubmitted>>

\* RetryAutomationRun: a new requested run with the old run's materials, with
\* no condition on the run, the application or the materials.
Retry(r) ==
    /\ Len(runs) < MaxRuns
    /\ runs' = Append(runs, NewRun(runs[r].app, runs[r].resume, runs[r].cover, "retry"))
    /\ publishing' = publishing \cup {Len(runs) + 1}
    /\ UNCHANGED <<materialVars, appStatus, selected, published, unacked,
                   submitting, worker, everSubmitted>>

\* publishAutomationRunRequested: the stream stores the message, or drops it as
\* a duplicate of one stored within the deduplication window.
PublishRequest(r) ==
    /\ r \in publishing
    /\ \/ /\ published[r] < MaxCopies
          /\ published' = [published EXCEPT ![r] = @ + 1]
          /\ unacked' = unacked \cup {[run |-> r, copy |-> published[r] + 1]}
       \/ /\ published[r] > 0
          /\ UNCHANGED <<published, unacked>>
    /\ publishing' = publishing \ {r}
    /\ UNCHANGED <<materialVars, appStatus, selected, runs, submitting, worker, everSubmitted>>

\* The read-back, the first of the two events or the broker fails, or the API
\* stops: the run is committed and never announced.
PublishLost(r) ==
    /\ r \in publishing
    /\ publishing' = publishing \ {r}
    /\ UNCHANGED <<materialVars, appStatus, selected, runs, published, unacked,
                   submitting, worker, everSubmitted>>

\* MarkAutomationSubmitted, first statement.
SubmitRun(r) ==
    /\ runs[r].status \in Submittable
    /\ runs' = [runs EXCEPT ![r].status = "submitted"]
    /\ submitting' = submitting \cup {r}
    /\ UNCHANGED <<materialVars, appStatus, selected, published, unacked,
                   publishing, worker, everSubmitted>>

\* MarkAutomationSubmitted, second statement, outside any transaction.
SubmitApplication(r) ==
    /\ r \in submitting
    /\ appStatus' = [appStatus EXCEPT ![runs[r].app] = "submitted"]
    /\ submitting' = submitting \ {r}
    /\ everSubmitted' = everSubmitted \cup {runs[r].app}
    /\ UNCHANGED <<materialVars, selected, runs, published, unacked,
                   publishing, worker>>

\* The API stops, or SQLite is busy, between the two statements.
SubmitInterrupted(r) ==
    /\ r \in submitting
    /\ submitting' = submitting \ {r}
    /\ UNCHANGED <<materialVars, appStatus, selected, runs, published, unacked,
                   publishing, worker, everSubmitted>>

\* MarkAutomationFailed: an UPDATE with no condition on the status.
Failed(rs, r) == [rs EXCEPT ![r].status = "failed"]

\* POST /api/automation/runs/{id}/fail.
FailRun(r) ==
    /\ runs' = Failed(runs, r)
    /\ UNCHANGED <<materialVars, appStatus, selected, published, unacked,
                   publishing, submitting, worker, everSubmitted>>

--------------------------------------------------------------------------------
(* The automation worker: processMessage, one action per call.             *)

otherThanWorker == <<materialVars, appStatus, selected, published, unacked,
                     publishing, submitting, everSubmitted>>

Moves(w, from, to) ==
    /\ worker[w].step = from
    /\ worker' = [worker EXCEPT ![w].step = to]

DeliverFaulty(w, msg) ==
    /\ worker[w].step = "idle"
    /\ msg \in unacked
    /\ worker' = [worker EXCEPT ![w] = [IdleWorker EXCEPT !.step = "start",
                                            !.run = msg.run, !.copy = msg.copy]]
    /\ unacked' = unacked \ {msg}
    /\ UNCHANGED <<materialVars, appStatus, selected, published, publishing,
                   submitting, everSubmitted, runs>>

\* An unacknowledged message is delivered: new, after a Nak, after a crash or
\* because the ack wait of another delivery ran out.
Deliver(w, msg) ==
    /\ worker[w].step = "idle"
    /\ msg \in unacked
    /\ worker' = [worker EXCEPT ![w] = [IdleWorker EXCEPT !.step = "start",
                                            !.run = msg.run, !.copy = msg.copy]]
    /\ UNCHANGED <<otherThanWorker, runs>>

\* An error of the store or the broker (Nak), or the worker stops: the message
\* stays unacknowledged and everything the worker had in memory is gone.
GiveUp(w) ==
    /\ worker[w].step # "idle"
    /\ worker' = [worker EXCEPT ![w] = IdleWorker]
    /\ UNCHANGED <<otherThanWorker, runs>>

StartRun(w) ==
    LET r == worker[w].run IN
    /\ Moves(w, "start", "log_started")
    /\ runs[r].status \in Startable
    /\ runs' = [runs EXCEPT ![r].status = "started", ![r].startedAt = TRUE]
    /\ UNCHANGED otherThanWorker

\* "automation run is not startable": Nak.
NotStartable(w) ==
    /\ worker[w].step = "start"
    /\ runs[worker[w].run].status \notin Startable
    /\ worker' = [worker EXCEPT ![w] = IdleWorker]
    /\ UNCHANGED <<otherThanWorker, runs>>

AddLogFaulty(w, kind, from, to) ==
    /\ Moves(w, from, to)
    /\ UNCHANGED <<otherThanWorker, runs>>

\* AddAutomationLog; the event published after "started" changes nothing here, a
\* failure to publish it is a GiveUp at the next step.
AddLog(w, kind, from, to) ==
    /\ Moves(w, from, to)
    /\ runs' = [runs EXCEPT ![worker[w].run].logs = @ \cup {kind}]
    /\ UNCHANGED otherThanWorker

\* The packet could not be loaded or the browser failed: the run is failed,
\* whatever its status is by now, the event is published best effort, and the
\* message is Nak'ed.
FailAndNak(w) ==
    /\ runs' = Failed(runs, worker[w].run)
    /\ worker' = [worker EXCEPT ![w] = IdleWorker]
    /\ UNCHANGED otherThanWorker

\* AutomationPacket fails: a query does, or nothing is selected.
PacketFails(w) ==
    /\ worker[w].step \in {"read_selection", "load_materials"}
    /\ FailAndNak(w)

\* AutomationPacket, first query: the application's selection, not the run's.
ReadSelection(w) ==
    LET selection == selected[runs[worker[w].run].app] IN
    /\ worker[w].step = "read_selection"
    /\ selection.resume # None
    /\ worker' = [worker EXCEPT ![w].selection = selection,
                                ![w].step = "load_materials"]
    /\ UNCHANGED <<otherThanWorker, runs>>

ItemOf(m) == IF m = None THEN NoItem
             ELSE [id |-> m, status |-> materials[m].status]

\* AutomationPacket, the other queries: the selected rows as they are now, and
\* the answers that are approved now.
LoadMaterials(w) ==
    LET selection == worker[w].selection IN
    /\ worker[w].step = "load_materials"
    /\ worker' = [worker EXCEPT
          ![w].step = "log_packet",
          ![w].selection = NoSelection,
          ![w].packet = [resume |-> ItemOf(selection.resume),
                         cover |-> ItemOf(selection.cover),
                         answers |-> ApprovedAnswers(runs[worker[w].run].app)]]
    /\ UNCHANGED <<otherThanWorker, runs>>

\* ExecuteAssistedBrowser fails; it changes nothing anyone else sees.
BrowserFails(w) ==
    /\ worker[w].step = "browser"
    /\ FailAndNak(w)

\* The browser is disabled or has been prepared: MarkAutomationReviewRequired.
\* A failure to publish the event that follows is a GiveUp at "ack".
MarkReviewRequired(w) ==
    LET r == worker[w].run IN
    /\ Moves(w, "browser", "ack")
    /\ runs[r].status \in Reviewable
    /\ runs' = [runs EXCEPT ![r].status = "review_required"]
    /\ UNCHANGED otherThanWorker

\* "automation run cannot be marked review_required": Nak.
ReviewRefused(w) ==
    /\ worker[w].step = "browser"
    /\ runs[worker[w].run].status \notin Reviewable
    /\ worker' = [worker EXCEPT ![w] = IdleWorker]
    /\ UNCHANGED <<otherThanWorker, runs>>

Ack(w) ==
    /\ worker[w].step = "ack"
    /\ unacked' = unacked \ {[run |-> worker[w].run, copy |-> worker[w].copy]}
    /\ worker' = [worker EXCEPT ![w] = IdleWorker]
    /\ UNCHANGED <<materialVars, appStatus, selected, runs, published,
                   publishing, submitting, everSubmitted>>

\* processMessage after the delivery, without its failures.
Process(w) ==
    \/ StartRun(w)
    \/ NotStartable(w)
    \/ AddLog(w, "started", "log_started", "read_selection")
    \/ PacketFails(w)
    \/ ReadSelection(w)
    \/ LoadMaterials(w)
    \/ AddLog(w, "packet", "log_packet", "log_plan")
    \/ AddLog(w, "plan", "log_plan", "browser")
    \/ BrowserFails(w)
    \/ MarkReviewRequired(w)
    \/ ReviewRefused(w)
    \/ Ack(w)

--------------------------------------------------------------------------------

Next ==
    \/ \E a \in Applications :
          \/ MarkApplicationReady(a)
          \/ CreateInterview(a)
          \/ StartDrafting(a)
          \/ Approve(a)
    \/ ChangeMaterials
    \/ \E r \in DOMAIN runs :
          \/ Retry(r)
          \/ PublishRequest(r)
          \/ PublishLost(r)
          \/ SubmitRun(r)
          \/ SubmitApplication(r)
          \/ SubmitInterrupted(r)
          \/ FailRun(r)
    \/ \E w \in Workers :
          \/ \E msg \in unacked : Deliver(w, msg)
          \/ Process(w)
          \/ GiveUp(w)

Spec == Init /\ [][Next]_vars
--------------------------------------------------------------------------------
(* Safety.                                                                 *)

WereApproved(a, k) == {m \in everApproved : materials[m].app = a /\ materials[m].kind = k}

\* Whatever path inserted a run (approval or any chain of retries), it names a
\* resume, and if any a cover letter, of its own application that a human has
\* approved.
RunsNameApprovedMaterials ==
    \A r \in DOMAIN runs :
        /\ runs[r].resume \in WereApproved(runs[r].app, "resume")
        /\ runs[r].cover \in WereApproved(runs[r].app, "cover_letter") \cup {None}

\* AutomationPacket finds a selected resume for every run there is: the worker
\* never has to fail a run for the lack of one.  The selection is of materials
\* of the application that a human has approved.
RunsHaveSelection ==
    \A r \in DOMAIN runs :
        LET a == runs[r].app IN
        /\ selected[a].resume \in WereApproved(a, "resume")
        /\ selected[a].cover \in WereApproved(a, "cover_letter") \cup {None}

\* A packet in the hands of a worker is made of rows of the run's application
\* that a human has approved at some time, resume, cover letter and answers.
PacketsOfApprovedRows ==
    \A w \in Workers : LET p == worker[w].packet IN
        p # NoPacket =>
            LET a == runs[worker[w].run].app IN
            /\ p.resume.id \in WereApproved(a, "resume")
            /\ p.cover.id \in WereApproved(a, "cover_letter") \cup {None}
            /\ p.answers \subseteq WereApproved(a, "application_answers")

\* A run waits for the user's review only with the audit trail of how it got
\* there: started, packet loaded, adapter plan, in spite of crashes and
\* redeliveries between the log entries.
ReviewIsAudited ==
    \A r \in DOMAIN runs :
        runs[r].status = "review_required" => {"started", "packet", "plan"} \subseteq runs[r].logs

Unfinished(a) == {r \in RunsOf(a) : runs[r].status \notin {"submitted", "failed"}}

\* Approvals never give an application two runs to work on at the same time:
\* only a retry makes a second one.
OneActiveRunPerApproval ==
    \A a \in Applications : \A r, s \in Unfinished(a) :
        r # s => "retry" \in {runs[r].origin, runs[s].origin}

\* An application is submitted only if one of its runs was started by a worker
\* and has ended; a submission interrupted half-way does not break this.
SubmissionHasARun ==
    \A a \in everSubmitted : \E r \in RunsOf(a) :
        runs[r].startedAt /\ runs[r].status \in {"submitted", "failed"}

\* A run whose request the stream has stored keeps a request that is not acknowledged
\* until it has an outcome: workers stop, time out and overlap, two deliveries of a
\* request and its copies race, but none acknowledges a run that another has still to do.
RequestsAreKept ==
    \A r \in DOMAIN runs :
        runs[r].status \in {"requested", "started"} /\ published[r] > 0 =>
            \E msg \in unacked : msg.run = r

Successors ==
    [requested       |-> {"started", "failed"},
     started         |-> {"review_required", "submitted", "failed"},
     review_required |-> {"submitted", "failed"},
     submitted       |-> {"failed"},
     failed          |-> {}]

\* The life of a run, under any interleaving of the user, retries and workers:
\* nothing leaves "failed", nothing skips "started", nothing goes back.
RunProgress ==
    [][\A r \in DOMAIN runs :
          runs'[r].status \in {runs[r].status} \cup Successors[runs[r].status]]_runs

--------------------------------------------------------------------------------
(* The inductive invariant: what the safety properties rest on.            *)

\* No id that a handler, a message or a worker holds is of a row that does not
\* exist.
IdsExist ==
    /\ publishing \cup submitting \subseteq DOMAIN runs
    /\ \A msg \in unacked : msg.run \in DOMAIN runs
    /\ \A w \in Workers : worker[w].step # "idle" => worker[w].run \in DOMAIN runs

IsSelectionOf(selection, a) ==
    /\ selection.resume \in WereApproved(a, "resume")
    /\ selection.cover \in WereApproved(a, "cover_letter") \cup {None}

\* What is selected, and what a worker has read of it, was approved.
SelectionsAreApproved ==
    /\ \A a \in Applications :
          selected[a] = NoSelection \/ IsSelectionOf(selected[a], a)
    /\ \A w \in Workers : worker[w].step = "load_materials" =>
          IsSelectionOf(worker[w].selection, runs[worker[w].run].app)

\* started_at tells whether a run was ever started, and a worker past the start
\* holds a run that was.
StartedRuns ==
    /\ \A r \in DOMAIN runs :
          /\ runs[r].status = "requested" => ~ runs[r].startedAt
          /\ runs[r].status \notin {"requested", "failed"} => runs[r].startedAt
    /\ \A w \in Workers : worker[w].step \notin {"idle", "start"} =>
          runs[worker[w].run].startedAt

LogsBefore(step) ==
    CASE step \in {"start", "log_started"} -> {}
      [] step \in {"read_selection", "load_materials", "log_packet"} -> {"started"}
      [] step = "log_plan" -> {"started", "packet"}
      [] OTHER -> LogKinds

\* A worker has logged what it has done.
WorkersLog ==
    \A w \in Workers : worker[w].step # "idle" =>
        LogsBefore(worker[w].step) \subseteq runs[worker[w].run].logs

\* A handler about to submit the application has submitted its run.
SubmittingRuns ==
    \A r \in submitting : runs[r].startedAt /\ runs[r].status \in {"submitted", "failed"}

\* A worker about to acknowledge has seen its run through, and nothing is stored for
\* a run that does not exist yet.
AnsweredRuns ==
    /\ \A w \in Workers : worker[w].step = "ack" =>
          runs[worker[w].run].status \notin {"requested", "started"}
    /\ \A r \in RunIds \ DOMAIN runs : published[r] = 0

Inv ==
    /\ TypeOK
    /\ OnlyHumansApprove
    /\ IdsExist
    /\ RunsNameApprovedMaterials
    /\ RunsHaveSelection
    /\ SelectionsAreApproved
    /\ PacketsOfApprovedRows
    /\ StartedRuns
    /\ WorkersLog
    /\ ReviewIsAudited
    /\ SubmittingRuns
    /\ SubmissionHasARun
    /\ OneActiveRunPerApproval
    /\ AnsweredRuns
    /\ RequestsAreKept

--------------------------------------------------------------------------------
(* Liveness.  The worker's loop never stops for good, and an error of the  *)
(* store, the broker or the browser is not repeated for ever: a step tried *)
(* again and again, for one run, in the end succeeds.                      *)

Fairness ==
    \A w \in Workers :
        /\ \A msg \in Messages : SF_vars(msg \in unacked /\ Deliver(w, msg))
        /\ \A r \in RunIds, step \in Steps :
               SF_vars(worker[w].run = r /\ worker[w].step = step /\ Process(w))

FairSpec == Spec /\ Fairness

Waiting(r) == /\ r \in DOMAIN runs
              /\ runs[r].status = "requested"
              /\ \E msg \in unacked : msg.run = r

\* A requested run whose message reached the stream gets an outcome the user
\* can see, however often workers crash or are interrupted on the way.
RequestedRunsGetAnOutcome ==
    \A r \in RunIds : Waiting(r) ~>
        (r \in DOMAIN runs /\ runs[r].status \in {"review_required", "submitted", "failed"})

--------------------------------------------------------------------------------
(* What the documents say and the code does not do; see README.md.         *)

\* The worker loads packets of approved materials.
PacketsAreApproved ==
    \A w \in Workers : LET p == worker[w].packet IN
        {p.resume.status, p.cover.status} \subseteq {"approved", "none"}

\* A submitted application is not handed off again.
NoHandoffAfterSubmission ==
    [][\A a \in everSubmitted :
          appStatus'[a] = "approved_for_automation" => appStatus[a] = appStatus'[a]]_vars
================================================================================
