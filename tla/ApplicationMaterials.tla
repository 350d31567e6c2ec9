------------------------- MODULE ApplicationMaterials -------------------------
(***************************************************************************)
(* Drafting and review of application materials.  The matching worker or a *)
(* regeneration request announces an application; resume-tuning workers    *)
(* write a resume, a cover letter and answers for each announcement, under *)
(* redelivery and crashes; a human reviews the rows from a queue that may  *)
(* be stale.  Every SQL statement is one action.  The module implements    *)
(* ReviewedMaterials, which the automation handoff is built on.            *)
(***************************************************************************)
EXTENDS Naturals, Sequences, FiniteSets

CONSTANTS
    Applications,   \* application ids (one application per job)
    Tuners,         \* resume-tuning-worker processes sharing the consumer
    Contents,       \* what the tuner may make of the profile, job and resume
    Verdicts,       \* the statuses reviewers set
    NoContent,      \* no content
    MaxEvents       \* bound: applications.ready messages ever stored

MaterialStatuses ==
    {"draft", "approved", "rejected", "needs_changes", "regeneration_requested"}

ASSUME MaterialsAssumption ==
    /\ MaxEvents \in Nat
    /\ Verdicts \subseteq MaterialStatuses
    /\ NoContent \notin Contents

VARIABLES
    ready,        \* applications whose status is ready_to_apply
    content,      \* what the tuner would write now
    rows,         \* application_materials, indexed by the autoincrement id
    versioned,    \* events for which a resume_versions row has been inserted
    announcing,   \* applications whose event is about to be published
    events,       \* the application of each stored applications.ready message
    unacked,      \* messages the consumer has not acknowledged
    tuner,        \* what each tuner is doing
    everApproved  \* history: rows approved at least once

vars == <<ready, content, rows, versioned, announcing, events, unacked, tuner,
          everApproved>>

--------------------------------------------------------------------------------

KindOrder == <<"resume", "cover_letter", "application_answers">>
Places == DOMAIN KindOrder      \* a tuner works on KindOrder[place]
EventIds == 1 .. MaxEvents
RowIds == 1 .. 3 * MaxEvents
None == 0                       \* Go's zero id: no row

Row == [app : Applications, place : Places, event : EventIds,
        content : Contents, status : MaterialStatuses]

Idle == [step |-> "idle", event |-> None, place |-> 1,
         content |-> NoContent, found |-> None]
Tuner == [step : {"idle", "start", "draft", "look", "write", "publish", "ack"},
          event : EventIds \cup {None}, place : Places,
          content : Contents \cup {NoContent}, found : RowIds \cup {None}]

\* The types of all variables.
TypeOK ==
    /\ ready \subseteq Applications
    /\ content \in Contents
    /\ rows \in Seq(Row) /\ Len(rows) <= 3 * MaxEvents
    /\ versioned \subseteq DOMAIN events
    /\ announcing \subseteq Applications
    /\ events \in Seq(Applications) /\ Len(events) <= MaxEvents
    /\ unacked \subseteq DOMAIN events
    /\ tuner \in [Tuners -> Tuner]
    /\ everApproved \subseteq DOMAIN rows

Init ==
    /\ ready = {}
    /\ content \in Contents
    /\ rows = <<>>
    /\ versioned = {}
    /\ announcing = {}
    /\ events = <<>>
    /\ unacked = {}
    /\ tuner = [t \in Tuners |-> Idle]
    /\ everApproved = {}

--------------------------------------------------------------------------------
(* The surroundings: the profile, the matching worker, the broker.         *)

\* The profile or the base resume is edited, or the job is parsed again.
EditProfile ==
    /\ content' \in Contents
    /\ UNCHANGED <<ready, rows, versioned, announcing, events, unacked, tuner,
                   everApproved>>

\* MarkApplicationReady, then the event is to be published.
MarkApplicationReady(a) ==
    /\ ready' = ready \cup {a}
    /\ announcing' = announcing \cup {a}
    /\ UNCHANGED <<content, rows, versioned, events, unacked, tuner, everApproved>>

\* The application is handed off, submitted or gets an interview.
LeaveReady(a) ==
    /\ a \in ready
    /\ ready' = ready \ {a}
    /\ UNCHANGED <<content, rows, versioned, announcing, events, unacked, tuner,
                   everApproved>>

Announce(a) ==
    /\ a \in announcing
    /\ Len(events) < MaxEvents
    /\ announcing' = announcing \ {a}
    /\ events' = Append(events, a)
    /\ unacked' = unacked \cup {Len(events) + 1}
    /\ UNCHANGED <<ready, content, rows, versioned, tuner, everApproved>>

\* The publisher fails or stops, or the stream drops a duplicate.
AnnounceLost(a) ==
    /\ a \in announcing
    /\ announcing' = announcing \ {a}
    /\ UNCHANGED <<ready, content, rows, versioned, events, unacked, tuner,
                   everApproved>>

--------------------------------------------------------------------------------
(* The resume-tuning worker: processMessage, one action per statement.     *)

otherThanTuner == <<ready, content, announcing, events>>

\* New, after a Nak or a crash, or because the ack wait ran out elsewhere.
Deliver(t, e) ==
    /\ tuner[t].step = "idle"
    /\ e \in unacked
    /\ tuner' = [tuner EXCEPT ![t] = [Idle EXCEPT !.step = "start", !.event = e]]
    /\ UNCHANGED <<otherThanTuner, rows, versioned, unacked, everApproved>>

\* An error (Nak) or a crash: the message stays unacknowledged.
GiveUp(t) ==
    /\ tuner[t].step # "idle"
    /\ tuner' = [tuner EXCEPT ![t] = Idle]
    /\ UNCHANGED <<otherThanTuner, rows, versioned, unacked, everApproved>>

\* GetApplicationReadyContext, the profile and the base resume; an application
\* that is not ready_to_apply is a GiveUp.
GetContext(t) ==
    /\ tuner[t].step = "start"
    /\ events[tuner[t].event] \in ready
    /\ tuner' = [tuner EXCEPT ![t].step = "draft", ![t].content = content]
    /\ UNCHANGED <<otherThanTuner, rows, versioned, unacked, everApproved>>

\* StoreContent, CreateDocument and, for a resume, CreateResumeVersion: new
\* rows that nothing refers to yet, one more for every delivery.
CreateDocument(t) ==
    LET e == tuner[t].event IN
    /\ tuner[t].step = "draft"
    /\ tuner' = [tuner EXCEPT ![t].step = "look"]
    /\ versioned' = IF KindOrder[tuner[t].place] = "resume"
                    THEN versioned \cup {e} ELSE versioned
    /\ UNCHANGED <<otherThanTuner, rows, unacked, everApproved>>

RowsOf(e, place) == {m \in DOMAIN rows : /\ rows[m].app = events[e]
                                         /\ rows[m].place = place
                                         /\ rows[m].event = e}

LookForMaterialFaulty(t) ==
    /\ tuner[t].step = "look"
    /\ tuner' = [tuner EXCEPT ![t].step = "write"]
    /\ UNCHANGED <<otherThanTuner, rows, versioned, unacked, everApproved>>

\* CreateApplicationMaterial, SELECT id ... source_event_id = ?
LookForMaterial(t) ==
    LET existing == RowsOf(tuner[t].event, tuner[t].place) IN
    /\ tuner[t].step = "look"
    /\ \E m \in existing \cup {None} :
          /\ m = None => existing = {}
          /\ tuner' = [tuner EXCEPT ![t].step = "write", ![t].found = m]
    /\ UNCHANGED <<otherThanTuner, rows, versioned, unacked, everApproved>>

NextPlaceFaulty(place) == place + 2
NextPlace(place) == place + 1

ContinueFaulty(t) ==
    tuner' = [tuner EXCEPT ![t].step = "draft", ![t].place = @ + 1, ![t].found = None]
\* On to the next kind of material, or to the event that ends the drafting.
Continue(t) ==
    LET next == NextPlace(tuner[t].place) IN
    tuner' = [tuner EXCEPT
        ![t].step = IF next \in Places THEN "draft" ELSE "publish",
        ![t].place = IF next \in Places THEN next ELSE @,
        ![t].found = None]

UniqueDraftFaulty(t) == TRUE
\* The unique index on (application_id, kind, source_event_id); a conflict is
\* an error of the INSERT, a GiveUp.
UniqueDraft(t) == RowsOf(tuner[t].event, tuner[t].place) = {}

NewDraftFaulty(t) ==
    [app |-> events[tuner[t].event], place |-> tuner[t].place, event |-> tuner[t].event,
     content |-> tuner[t].content, status |-> "approved"]
NewDraft(t) ==
    [app |-> events[tuner[t].event], place |-> tuner[t].place,
     event |-> tuner[t].event, content |-> tuner[t].content, status |-> "draft"]

\* CreateApplicationMaterial, INSERT.
InsertMaterial(t) ==
    /\ tuner[t].step = "write"
    /\ tuner[t].found = None
    /\ UniqueDraft(t)
    /\ rows' = Append(rows, NewDraft(t))
    /\ Continue(t)
    /\ UNCHANGED <<otherThanTuner, versioned, unacked, everApproved>>

RedraftFaulty(m, new) == [rows EXCEPT ![m].content = new]
Redraft(m, new) == [rows EXCEPT ![m].content = new, ![m].status = "draft"]

\* CreateApplicationMaterial, UPDATE: new content, a draft again.
UpdateMaterial(t) ==
    /\ tuner[t].step = "write"
    /\ tuner[t].found # None
    /\ rows' = Redraft(tuner[t].found, tuner[t].content)
    /\ Continue(t)
    /\ UNCHANGED <<otherThanTuner, versioned, unacked, everApproved>>

\* applications.materials.drafted, for the browser only.
PublishDrafted(t) ==
    /\ tuner[t].step = "publish"
    /\ tuner' = [tuner EXCEPT ![t].step = "ack"]
    /\ UNCHANGED <<otherThanTuner, rows, versioned, unacked, everApproved>>

Ack(t) ==
    /\ tuner[t].step = "ack"
    /\ unacked' = unacked \ {tuner[t].event}
    /\ tuner' = [tuner EXCEPT ![t] = Idle]
    /\ UNCHANGED <<otherThanTuner, rows, versioned, everApproved>>

Process(t) ==
    \/ GetContext(t)
    \/ CreateDocument(t)
    \/ LookForMaterial(t)
    \/ InsertMaterial(t)
    \/ UpdateMaterial(t)
    \/ PublishDrafted(t)
    \/ Ack(t)

--------------------------------------------------------------------------------
(* The review.                                                             *)

\* handleReviewMaterialStatus and UpdateApplicationMaterialStatus: by id, with no
\* condition on the row.  APIReviewQueue shows a row from its insertion on, so any
\* row may be decided at any time, and from a view that is no longer true.
ReviewMaterial(m, status) ==
    /\ rows' = [rows EXCEPT ![m].status = status]
    /\ everApproved' = IF status = "approved" THEN everApproved \cup {m} ELSE everApproved
    /\ announcing' = IF status = "regeneration_requested"
                     THEN announcing \cup {rows[m].app} ELSE announcing
    /\ UNCHANGED <<ready, content, versioned, events, unacked, tuner>>

--------------------------------------------------------------------------------

Next ==
    \/ EditProfile
    \/ \E a \in Applications :
          \/ MarkApplicationReady(a)
          \/ LeaveReady(a)
          \/ Announce(a)
          \/ AnnounceLost(a)
    \/ \E t \in Tuners :
          \/ \E e \in unacked : Deliver(t, e)
          \/ Process(t)
          \/ GiveUp(t)
    \/ \E m \in DOMAIN rows :
          \E status \in Verdicts : ReviewMaterial(m, status)

Spec == Init /\ [][Next]_vars

--------------------------------------------------------------------------------
(* What drafting and review promise to the automation handoff.             *)

Drafting == {events[tuner[t].event] :
                t \in {u \in Tuners : tuner[u].step \notin {"idle", "start"}}}

Reviewed == INSTANCE ReviewedMaterials WITH
    MaxMaterials <- 3 * MaxEvents,
    materials <- [m \in DOMAIN rows |->
        [app |-> rows[m].app, kind |-> KindOrder[rows[m].place],
         status |-> IF rows[m].status = "approved" THEN "approved" ELSE "pending"]],
    drafting <- Drafting

\* Tuners, redeliveries, crashes and reviews do to the table only what the
\* handoff relies on: rows are inserted as drafts and redrafted to drafts while
\* a tuner is at work on their application, and only reviews approve them.
ImplementsReviewedMaterials == Reviewed!MaterialsSpec

--------------------------------------------------------------------------------
(* Safety and liveness.                                                    *)

DraftsOf(e) == {m \in DOMAIN rows : rows[m].event = e}

\* Whatever the redeliveries and however many tuners work on the same message,
\* an announcement has at most one material of each kind.
OneMaterialPerKind ==
    \A e \in DOMAIN events : \A m, n \in DraftsOf(e) :
        rows[m].place = rows[n].place => m = n

\* A message is acknowledged only when its whole packet is in the table: resume,
\* cover letter and answers, and a resume version.
AcknowledgedMeansDrafted ==
    \A e \in DOMAIN events \ unacked :
        /\ {rows[m].place : m \in DraftsOf(e)} = Places
        /\ e \in versioned

\* What a reviewer approved is not changed behind his back: as long as a row is
\* approved its content is the one it had when it was approved.
ApprovedContentIsFixed ==
    [][\A m \in DOMAIN rows :
          rows[m].status = "approved" /\ rows'[m].status = "approved" =>
              rows'[m].content = rows[m].content]_vars

\* Where a tuner can be in a message.
Positions == {<<"start", 1>>, <<"publish", 3>>, <<"ack", 3>>}
             \cup ({"draft", "look", "write"} \X Places)

\* An error of the store or the broker is not repeated for ever: a step tried
\* again and again for one message in the end succeeds.
Fairness ==
    \A t \in Tuners, e \in EventIds :
        /\ SF_vars(e \in unacked /\ Deliver(t, e))
        /\ \A p \in Positions :
              SF_vars(/\ tuner[t].event = e
                      /\ <<tuner[t].step, tuner[t].place>> = p
                      /\ Process(t))

FairSpec == Spec /\ Fairness

\* An announced application that stays ready_to_apply gets its drafts, however
\* often the tuners crash on the way and start again: its message does not
\* wait for ever while the application is ready.
AnnouncedIsDrafted ==
    \A e \in EventIds : []<>(e \notin unacked \/ events[e] \notin ready)

================================================================================
