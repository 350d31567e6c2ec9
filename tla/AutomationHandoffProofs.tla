------------------------ MODULE AutomationHandoffProofs ------------------------
(***************************************************************************)
(* Proofs about the automation handoff.  Every step is first characterised *)
(* by what it does to the materials, to the table of runs and to the ids   *)
(* that handlers, messages and workers hold; the inductive invariant Inv   *)
(* is then preserved part by part.                                         *)
(***************************************************************************)
EXTENDS AutomationHandoff, ReviewedMaterialsProofs

\* Steps of the drafting and the review.
MaterialsAction == \/ \E a \in Applications : StartDrafting(a)
                   \/ ChangeMaterials

\* A step of the handoff changes no material; the other steps are steps of
\* ReviewedMaterials and change nothing else.
LEMMA MaterialsApart ==
    ASSUME [Next]_vars
    PROVE  /\ [MaterialsNext]_materialVars
           /\ ~ UNCHANGED materialVars => UNCHANGED handoffVars
<1>1. ASSUME NEW a \in Applications,
             MarkApplicationReady(a) \/ CreateInterview(a) \/ Approve(a)
      PROVE  UNCHANGED materialVars
  BY <1>1 DEF MarkApplicationReady, CreateInterview, Approve
<1>2. ASSUME NEW r \in DOMAIN runs,
             \/ Retry(r) \/ PublishRequest(r) \/ PublishLost(r) \/ SubmitRun(r)
             \/ SubmitApplication(r) \/ SubmitInterrupted(r) \/ FailRun(r)
      PROVE  UNCHANGED materialVars
  BY <1>2 DEF Retry, PublishRequest, PublishLost, SubmitRun, SubmitApplication,
              SubmitInterrupted, FailRun
<1>3. ASSUME NEW w \in Workers,
             (\E msg \in unacked : Deliver(w, msg)) \/ Process(w) \/ GiveUp(w)
      PROVE  UNCHANGED materialVars
  BY <1>3 DEF Deliver, Process, GiveUp, StartRun, NotStartable, AddLog, PacketFails,
              FailAndNak, ReadSelection, LoadMaterials, BrowserFails,
              MarkReviewRequired, ReviewRefused, Ack, otherThanWorker
<1>4. ASSUME MaterialsAction
      PROVE  MaterialsNext /\ UNCHANGED handoffVars
  BY <1>4 DEF MaterialsAction, StartDrafting, ChangeMaterials, MaterialsNext
<1>5. CASE UNCHANGED vars
  BY <1>5 DEF vars
<1> QED
  BY <1>1, <1>2, <1>3, <1>4, <1>5 DEF Next, MaterialsAction

\* The handoff leaves the contract of drafting and review intact.
THEOREM HandoffKeepsMaterialsContract == Spec => MaterialsSpec
<1>1. Init => MaterialsInit
  BY DEF Init
<1>2. [Next]_vars => [MaterialsNext]_materialVars
  BY MaterialsApart
<1> QED
  BY <1>1, <1>2, PTL DEF Spec, MaterialsSpec

--------------------------------------------------------------------------------
(* The table of runs.                                                      *)

\* What no step takes from a run.
Keeps(old, new) ==
    /\ new.app = old.app /\ new.resume = old.resume
    /\ new.cover = old.cover /\ new.origin = old.origin
    /\ old.startedAt => new.startedAt
    /\ old.logs \subseteq new.logs

\* An UPDATE of one run.
RunUpdated == \E r \in DOMAIN runs, new \in Run :
    /\ Keeps(runs[r], new)
    /\ runs' = [runs EXCEPT ![r] = new]

\* An INSERT of a run.
RunInserted == \E new \in Run :
    /\ Len(runs) < MaxRuns
    /\ runs' = Append(runs, new)

RunsPersist ==
    /\ runs' \in Seq(Run) /\ Len(runs') <= MaxRuns
    /\ DOMAIN runs \subseteq DOMAIN runs'
    /\ \A r \in DOMAIN runs : Keeps(runs[r], runs'[r])

\* A worker that holds a message holds a record of BusyWorker.
LEMMA Busy ==
    ASSUME TypeOK, NEW w \in Workers, worker[w].step # "idle"
    PROVE  worker[w] \in BusyWorker
  BY DEF TypeOK, Worker, IdleWorker

\* The elements and the domain of runs.
LEMMA RunTypes ==
    ASSUME TypeOK
    PROVE  /\ Len(runs) \in Nat
           /\ DOMAIN runs = 1 .. Len(runs)
           /\ DOMAIN runs \subseteq RunIds
           /\ \A r \in DOMAIN runs : runs[r] \in Run
<1>1. Len(runs) \in Nat /\ DOMAIN runs = 1 .. Len(runs) /\ Len(runs) <= MaxRuns
  BY LenProperties DEF TypeOK
<1>2. DOMAIN runs \subseteq RunIds
  BY <1>1, HandoffBounds DEF RunIds
<1>3. \A r \in DOMAIN runs : runs[r] \in Run
  BY <1>1, ElementOfSeq DEF TypeOK
<1> QED
  BY <1>1, <1>2, <1>3

\* The id of an inserted run.
LEMMA NewRunId ==
    ASSUME TypeOK, Len(runs) < MaxRuns
    PROVE  Len(runs) + 1 \in RunIds
<1>1. Len(runs) \in Nat /\ MaxRuns \in Nat
  BY RunTypes, HandoffBounds
<1> QED
  BY <1>1 DEF RunIds

\* The elements and the domain of materials.
LEMMA MaterialTypes ==
    ASSUME TypeOK
    PROVE  /\ Len(materials) \in Nat
           /\ DOMAIN materials = 1 .. Len(materials)
           /\ DOMAIN materials \subseteq MaterialIds
           /\ \A m \in DOMAIN materials : materials[m] \in Material
<1>1. /\ Len(materials) \in Nat /\ Len(materials) <= MaxMaterials
      /\ DOMAIN materials = 1 .. Len(materials)
  BY LenProperties DEF TypeOK, MaterialsTypeOK
<1>2. DOMAIN materials \subseteq MaterialIds
  BY <1>1, MaxMaterialsIsNat DEF MaterialIds
<1>3. \A m \in DOMAIN materials : materials[m] \in Material
  BY <1>1, ElementOfSeq DEF TypeOK, MaterialsTypeOK
<1> QED
  BY <1>1, <1>2, <1>3

\* A change of status, of started_at or of the logs is an update of the run.
LEMMA StatusUpdate ==
    ASSUME TypeOK, NEW r \in DOMAIN runs, NEW s \in RunStatuses,
           NEW new, new = [runs[r] EXCEPT !.status = s]
    PROVE  new \in Run /\ Keeps(runs[r], new)
<1>1. runs[r] \in Run
  BY RunTypes
<1> QED
  BY <1>1 DEF Run, Keeps

\* A status change of the run r, written as the actions write it.
LEMMA StatusUpdated ==
    ASSUME TypeOK, NEW r \in DOMAIN runs, NEW s \in RunStatuses,
           runs' = [runs EXCEPT ![r].status = s]
    PROVE  RunUpdated
<1> DEFINE new == [runs[r] EXCEPT !.status = s]
<1>1. new \in Run /\ Keeps(runs[r], new)
  BY StatusUpdate
<1>2. runs' = [runs EXCEPT ![r] = new]
  OBVIOUS
<1> QED
  BY <1>1, <1>2 DEF RunUpdated

\* What an approval selects, and the run it inserts if it inserts one.
LEMMA ApproveEffect ==
    ASSUME TypeOK, NEW a \in Applications, Approve(a)
    PROVE  \E resume \in Resumes(a), cover \in CoverLetters(a) \cup {None} :
              /\ selected' = [selected EXCEPT ![a] = [resume |-> resume, cover |-> cover]]
              /\ \/ UNCHANGED runs
                 \/ /\ ReusableRuns(a) = {}
                    /\ Len(runs) < MaxRuns
                    /\ NewRun(a, resume, cover, "approve") \in Run
                    /\ runs' = Append(runs, NewRun(a, resume, cover, "approve"))
<1>1. PICK resume \in Resumes(a), cover \in CoverLetters(a) \cup {None} :
         /\ selected' = [selected EXCEPT ![a] = [resume |-> resume, cover |-> cover]]
         /\ \/ UNCHANGED runs
            \/ /\ ReusableRuns(a) = {}
               /\ Len(runs) < MaxRuns
               /\ runs' = Append(runs, NewRun(a, resume, cover, "approve"))
  BY DEF Approve, Select
<1>2. resume \in MaterialIds /\ cover \in MaterialIds \cup {None}
  BY MaterialTypes DEF Resumes, CoverLetters, OfKind, MaterialsOf
<1>3. NewRun(a, resume, cover, "approve") \in Run
  BY <1>2 DEF NewRun, Run, RunStatuses
<1> QED
  BY <1>1, <1>3

\* The run a retry inserts.
LEMMA RetryEffect ==
    ASSUME TypeOK, NEW r \in DOMAIN runs, Retry(r)
    PROVE  LET new == NewRun(runs[r].app, runs[r].resume, runs[r].cover, "retry") IN
           /\ new \in Run
           /\ Len(runs) < MaxRuns
           /\ runs' = Append(runs, new)
<1>1. runs[r] \in Run
  BY RunTypes
<1> QED
  BY <1>1 DEF Retry, NewRun, Run, RunStatuses

\* Every step leaves the runs alone, updates one or inserts one.
LEMMA RunSteps ==
    ASSUME TypeOK, IdsExist, [Next]_vars
    PROVE  UNCHANGED runs \/ RunUpdated \/ RunInserted
<1>1. ASSUME NEW a \in Applications,
             MarkApplicationReady(a) \/ CreateInterview(a) \/ StartDrafting(a)
      PROVE  UNCHANGED runs
  BY <1>1 DEF MarkApplicationReady, CreateInterview, StartDrafting, handoffVars
<1>2. ASSUME NEW a \in Applications, Approve(a)
      PROVE  UNCHANGED runs \/ RunInserted
  BY <1>2, ApproveEffect DEF RunInserted
<1>3. ASSUME ChangeMaterials
      PROVE  UNCHANGED runs
  BY <1>3 DEF ChangeMaterials, handoffVars
<1>4. ASSUME NEW r \in DOMAIN runs, Retry(r)
      PROVE  RunInserted
  BY <1>4, RetryEffect DEF RunInserted
<1>5. ASSUME NEW r \in DOMAIN runs,
             \/ PublishRequest(r) \/ PublishLost(r)
             \/ SubmitApplication(r) \/ SubmitInterrupted(r)
      PROVE  UNCHANGED runs
  BY <1>5 DEF PublishRequest, PublishLost, SubmitApplication, SubmitInterrupted
<1>6. ASSUME NEW r \in DOMAIN runs, SubmitRun(r)
      PROVE  RunUpdated
  BY <1>6, StatusUpdated DEF SubmitRun, RunStatuses
<1>7. ASSUME NEW r \in DOMAIN runs, FailRun(r)
      PROVE  RunUpdated
  BY <1>7, StatusUpdated DEF FailRun, Failed, RunStatuses
<1>8. ASSUME NEW w \in Workers,
             \/ \E msg \in unacked : Deliver(w, msg)
             \/ GiveUp(w) \/ NotStartable(w) \/ ReadSelection(w)
             \/ LoadMaterials(w) \/ ReviewRefused(w) \/ Ack(w)
      PROVE  UNCHANGED runs
  BY <1>8 DEF Deliver, GiveUp, NotStartable, ReadSelection, LoadMaterials,
              ReviewRefused, Ack
<1>9. ASSUME NEW w \in Workers, StartRun(w)
      PROVE  RunUpdated
  <2> DEFINE r == worker[w].run
             new == [runs[r] EXCEPT !.status = "started", !.startedAt = TRUE]
  <2>1. r \in DOMAIN runs /\ runs[r] \in Run
    BY <1>9, RunTypes DEF StartRun, Moves, IdsExist
  <2>2. new \in Run /\ Keeps(runs[r], new)
    BY <2>1 DEF Run, RunStatuses, Keeps
  <2>3. runs' = [runs EXCEPT ![r] = new]
    BY <1>9 DEF StartRun
  <2> QED
    BY <2>1, <2>2, <2>3 DEF RunUpdated
<1>10. ASSUME NEW w \in Workers, NEW kind \in LogKinds, NEW from \in Steps, NEW to \in Steps,
              AddLog(w, kind, from, to)
       PROVE  RunUpdated
  <2> DEFINE r == worker[w].run
             new == [runs[r] EXCEPT !.logs = @ \cup {kind}]
  <2>1. r \in DOMAIN runs /\ runs[r] \in Run
    BY <1>10, RunTypes DEF AddLog, Moves, IdsExist, Steps
  <2>2. new \in Run /\ Keeps(runs[r], new)
    BY <2>1 DEF Run, Keeps
  <2>3. runs' = [runs EXCEPT ![r] = new]
    BY <1>10 DEF AddLog
  <2> QED
    BY <2>1, <2>2, <2>3 DEF RunUpdated
<1>11. ASSUME NEW w \in Workers, PacketFails(w) \/ BrowserFails(w)
       PROVE  RunUpdated
  <2>1. worker[w].run \in DOMAIN runs
    BY <1>11 DEF PacketFails, BrowserFails, IdsExist
  <2> QED
    BY <1>11, <2>1, StatusUpdated
       DEF PacketFails, BrowserFails, FailAndNak, Failed, RunStatuses
<1>12. ASSUME NEW w \in Workers, MarkReviewRequired(w)
       PROVE  RunUpdated
  <2>1. worker[w].run \in DOMAIN runs
    BY <1>12 DEF MarkReviewRequired, Moves, IdsExist
  <2> QED
    BY <1>12, <2>1, StatusUpdated DEF MarkReviewRequired, RunStatuses
<1>13. CASE UNCHANGED vars
  BY <1>13 DEF vars, handoffVars
<1>14. /\ {"started", "packet", "plan"} \subseteq LogKinds
       /\ {"log_started", "read_selection", "log_packet", "log_plan", "browser"} \subseteq Steps
  BY DEF LogKinds, Steps
<1> QED
  BY <1>1, <1>2, <1>3, <1>4, <1>5, <1>6, <1>7, <1>8, <1>9, <1>10, <1>11, <1>12,
     <1>13, <1>14 DEF Next, Process

\* Runs are never deleted, and keep what Keeps names.
LEMMA RunsStep ==
    ASSUME TypeOK, IdsExist, [Next]_vars
    PROVE  RunsPersist
<1> USE DEF RunsPersist
<1>1. runs \in Seq(Run) /\ Len(runs) <= MaxRuns /\ Len(runs) \in Nat
  BY RunTypes DEF TypeOK
<1>2. CASE UNCHANGED runs
  BY <1>1, <1>2 DEF Keeps
<1>3. CASE RunUpdated
  <2>1. PICK r \in DOMAIN runs, new \in Run :
           Keeps(runs[r], new) /\ runs' = [runs EXCEPT ![r] = new]
    BY <1>3 DEF RunUpdated
  <2>2. /\ runs' \in Seq(Run) /\ Len(runs') = Len(runs)
        /\ DOMAIN runs' = DOMAIN runs
        /\ runs'[r] = new
        /\ \A q \in DOMAIN runs : q # r => runs'[q] = runs[q]
    BY <1>1, <2>1, UpdateSeq
  <2> QED
    BY <1>1, <2>1, <2>2 DEF Keeps
<1>4. CASE RunInserted
  <2>1. PICK new \in Run : Len(runs) < MaxRuns /\ runs' = Append(runs, new)
    BY <1>4 DEF RunInserted
  <2>2. /\ runs' \in Seq(Run) /\ Len(runs') = Len(runs) + 1
        /\ DOMAIN runs \subseteq DOMAIN runs'
        /\ \A q \in DOMAIN runs : runs'[q] = runs[q]
    BY <1>1, <2>1, ExtendSeq
  <2> QED
    BY <1>1, <2>1, <2>2, HandoffBounds DEF Keeps
<1> QED
  BY <1>2, <1>3, <1>4, RunSteps

--------------------------------------------------------------------------------
(* Types.                                                                  *)

\* The types of the variables that are not tables or workers.
SmallTypes ==
    /\ appStatus \in [Applications -> AppStatuses]
    /\ selected \in [Applications -> Selection]
    /\ published \in [RunIds -> 0 .. MaxCopies]
    /\ unacked \subseteq Messages
    /\ publishing \subseteq RunIds
    /\ submitting \subseteq RunIds
    /\ everSubmitted \subseteq Applications

\* The actions of the API and of its surroundings keep those types.
LEMMA SmallTypesStep ==
    ASSUME TypeOK, IdsExist, [Next]_vars
    PROVE  SmallTypes'
<1> USE DEF SmallTypes
<1>0. SmallTypes
  BY DEF TypeOK
<1>1. ASSUME NEW a \in Applications,
             MarkApplicationReady(a) \/ CreateInterview(a)
      PROVE  SmallTypes'
  BY <1>0, <1>1 DEF MarkApplicationReady, CreateInterview, AppStatuses
<1>2. ASSUME NEW a \in Applications, Approve(a)
      PROVE  SmallTypes'
  <2>1. PICK resume \in Resumes(a), cover \in CoverLetters(a) \cup {None} :
           /\ selected' = [selected EXCEPT ![a] = [resume |-> resume, cover |-> cover]]
           /\ \/ Len(runs) < MaxRuns /\ publishing' = publishing \cup {Len(runs) + 1}
              \/ \E r \in ReusableRuns(a) : publishing' = publishing \cup {r}
    BY <1>2 DEF Approve, Select
  <2>2. [resume |-> resume, cover |-> cover] \in Selection
    BY MaterialTypes DEF Resumes, CoverLetters, OfKind, MaterialsOf, Selection
  <2>3. selected' \in [Applications -> Selection]
    BY <1>0, <2>1, <2>2
  <2>4. publishing' \subseteq RunIds
    <3>1. ReusableRuns(a) \subseteq RunIds
      BY RunTypes DEF ReusableRuns, RunsOf
    <3> QED
      BY <1>0, <2>1, <3>1, NewRunId
  <2> QED
    BY <1>0, <1>2, <2>3, <2>4 DEF Approve, AppStatuses
<1>3. ASSUME MaterialsAction
      PROVE  SmallTypes'
  BY <1>0, <1>3 DEF MaterialsAction, StartDrafting, ChangeMaterials, handoffVars
<1>4. ASSUME NEW r \in DOMAIN runs, Retry(r)
      PROVE  SmallTypes'
  <2>1. Len(runs) + 1 \in RunIds
    BY <1>4, NewRunId DEF Retry
  <2> QED
    BY <1>0, <1>4, <2>1 DEF Retry
<1>5. ASSUME NEW r \in DOMAIN runs, PublishRequest(r)
      PROVE  SmallTypes'
  <2>1. r \in RunIds /\ published[r] \in 0 .. MaxCopies
    BY <1>0, RunTypes
  <2>2. \/ /\ published[r] < MaxCopies
           /\ published' = [published EXCEPT ![r] = @ + 1]
           /\ unacked' = unacked \cup {[run |-> r, copy |-> published[r] + 1]}
        \/ UNCHANGED <<published, unacked>>
    BY <1>5 DEF PublishRequest
  <2>3. published' \in [RunIds -> 0 .. MaxCopies]
    BY <1>0, <2>1, <2>2, HandoffBounds
  <2>4. unacked' \subseteq Messages
    BY <1>0, <2>1, <2>2, HandoffBounds DEF Messages
  <2> QED
    BY <1>0, <1>5, <2>3, <2>4 DEF PublishRequest
<1>6. ASSUME NEW r \in DOMAIN runs, SubmitApplication(r)
      PROVE  SmallTypes'
  <2>1. runs[r].app \in Applications
    BY RunTypes DEF Run
  <2> QED
    BY <1>0, <1>6, <2>1 DEF SubmitApplication, AppStatuses
<1>7. ASSUME NEW r \in DOMAIN runs,
             PublishLost(r) \/ SubmitRun(r) \/ SubmitInterrupted(r) \/ FailRun(r)
      PROVE  SmallTypes'
  BY <1>0, <1>7, RunTypes DEF PublishLost, SubmitRun, SubmitInterrupted, FailRun
<1>8. ASSUME NEW w \in Workers,
             (\E msg \in unacked : Deliver(w, msg)) \/ Process(w) \/ GiveUp(w)
      PROVE  SmallTypes'
  BY <1>0, <1>8
     DEF Deliver, Process, GiveUp, StartRun, NotStartable, AddLog, PacketFails,
         FailAndNak, ReadSelection, LoadMaterials, BrowserFails,
         MarkReviewRequired, ReviewRefused, Ack, otherThanWorker
<1>9. CASE UNCHANGED vars
  BY <1>0, <1>9 DEF vars, handoffVars
<1> QED
  BY <1>1, <1>2, <1>3, <1>4, <1>5, <1>6, <1>7, <1>8, <1>9 DEF Next, MaterialsAction

\* The bound on the number of materials is kept.
LEMMA MaterialsBound ==
    ASSUME TypeOK, [Next]_vars
    PROVE  Len(materials') <= MaxMaterials
<1>1. materials \in Seq(Material) /\ Len(materials) <= MaxMaterials /\ Len(materials) \in Nat
  BY MaterialTypes DEF TypeOK, MaterialsTypeOK
<1>2. ASSUME NEW a \in Applications, NEW k \in Kinds, InsertDraft(a, k)
      PROVE  Len(materials') <= MaxMaterials
  <2> DEFINE new == [app |-> a, kind |-> k, status |-> "pending"]
  <2>1. new \in Material /\ Len(materials) < MaxMaterials /\ materials' = Append(materials, new)
    BY <1>2 DEF InsertDraft, Material, ReviewStatuses
  <2>2. Len(materials') = Len(materials) + 1
    BY <1>1, <2>1, ExtendSeq
  <2> QED
    BY <1>1, <2>1, <2>2, MaxMaterialsIsNat
<1>3. ASSUME NEW m \in DOMAIN materials, NEW s \in ReviewStatuses,
             materials' = [materials EXCEPT ![m].status = s]
      PROVE  Len(materials') <= MaxMaterials
  <2> DEFINE new == [materials[m] EXCEPT !.status = s]
  <2>1. new \in Material
    BY MaterialTypes DEF Material
  <2>2. materials' = [materials EXCEPT ![m] = new]
    BY <1>3
  <2> QED
    BY <1>1, <2>1, <2>2, UpdateSeq
<1>4. ASSUME UNCHANGED materials
      PROVE  Len(materials') <= MaxMaterials
  BY <1>1, <1>4
<1> QED
  BY <1>2, <1>3, <1>4, MaterialsApart
     DEF MaterialsNext, materialVars, BeginDrafting, EndDrafting, ReplaceDraft,
         ReviewMaterial, ReviewStatuses

\* Deliver, processMessage and its interruptions keep the type of the workers.
LEMMA WorkerTypeStep ==
    ASSUME TypeOK, IdsExist, SelectionsAreApproved, [Next]_vars
    PROVE  worker' \in [Workers -> Worker]
<1>0. worker \in [Workers -> Worker]
  BY DEF TypeOK
<1>1. ASSUME NEW w \in Workers, worker' = [worker EXCEPT ![w] = IdleWorker]
      PROVE  worker' \in [Workers -> Worker]
  BY <1>0, <1>1 DEF Worker
<1>2. ASSUME NEW w \in Workers, NEW from \in Steps, NEW to \in Steps, Moves(w, from, to)
      PROVE  worker' \in [Workers -> Worker]
  <2>1. worker[w] \in BusyWorker
    BY <1>2, Busy DEF Moves, Steps
  <2> QED
    BY <1>0, <1>2, <2>1 DEF Moves, Worker, BusyWorker
<1>3. ASSUME NEW w \in Workers, NEW msg \in unacked, Deliver(w, msg)
      PROVE  worker' \in [Workers -> Worker]
  <2> DEFINE new == [IdleWorker EXCEPT !.step = "start", !.run = msg.run, !.copy = msg.copy]
  <2>1. msg \in Messages
    BY DEF TypeOK
  <2>2. new \in BusyWorker
    BY <2>1 DEF BusyWorker, Messages, IdleWorker, Steps, Selection, NoSelection,
                Packet, NoPacket
  <2> QED
    BY <1>0, <1>3, <2>2 DEF Deliver, Worker
<1>4. ASSUME NEW w \in Workers, ReadSelection(w)
      PROVE  worker' \in [Workers -> Worker]
  <2>1. worker[w] \in BusyWorker
    BY <1>4, Busy DEF ReadSelection
  <2>2. runs[worker[w].run].app \in Applications
    BY <1>4, RunTypes DEF ReadSelection, IdsExist, Run
  <2>3. selected[runs[worker[w].run].app] \in Selection
    BY <2>2 DEF TypeOK
  <2> QED
    BY <1>0, <1>4, <2>1, <2>3 DEF ReadSelection, Worker, BusyWorker, Steps
<1>5. ASSUME NEW w \in Workers, LoadMaterials(w)
      PROVE  worker' \in [Workers -> Worker]
  <2> DEFINE sel == worker[w].selection
             a == runs[worker[w].run].app
             packet == [resume |-> ItemOf(sel.resume), cover |-> ItemOf(sel.cover),
                        answers |-> ApprovedAnswers(a)]
  <2>1. worker[w] \in BusyWorker
    BY <1>5, Busy DEF LoadMaterials
  <2>2. IsSelectionOf(sel, a)
    BY <1>5 DEF LoadMaterials, SelectionsAreApproved
  <2>3. sel.resume \in DOMAIN materials /\ sel.cover \in DOMAIN materials \cup {None}
    BY <2>2 DEF IsSelectionOf, WereApproved, TypeOK, MaterialsTypeOK
  <2>4. \A m \in DOMAIN materials : ItemOf(m) \in Item \cup {NoItem}
    BY MaterialTypes DEF ItemOf, Item, Material
  <2>5. ItemOf(None) = NoItem
    BY DEF ItemOf
  <2>6. ApprovedAnswers(a) \subseteq MaterialIds
    BY MaterialTypes DEF ApprovedAnswers, OfKind, MaterialsOf
  <2>7. packet \in Packet
    BY <2>3, <2>4, <2>5, <2>6 DEF Packet
  <2>8. worker' = [worker EXCEPT ![w] = [worker[w] EXCEPT
           !.step = "log_packet", !.selection = NoSelection, !.packet = packet]]
    BY <1>5 DEF LoadMaterials
  <2>9. [worker[w] EXCEPT !.step = "log_packet", !.selection = NoSelection,
                          !.packet = packet] \in BusyWorker
    BY <2>1, <2>7 DEF BusyWorker, Steps, Selection, NoSelection
  <2> QED
    BY <1>0, <2>8, <2>9 DEF Worker
<1>6. ASSUME NEW w \in Workers, Process(w)
      PROVE  worker' \in [Workers -> Worker]
  BY <1>1, <1>2, <1>4, <1>5, <1>6
     DEF Process, StartRun, NotStartable, AddLog, PacketFails, FailAndNak,
         BrowserFails, MarkReviewRequired, ReviewRefused, Ack, Steps
<1>7. ASSUME NEW w \in Workers, GiveUp(w)
      PROVE  worker' \in [Workers -> Worker]
  BY <1>1, <1>7 DEF GiveUp
<1>8. ASSUME UNCHANGED worker
      PROVE  worker' \in [Workers -> Worker]
  BY <1>0, <1>8
<1> QED
  BY <1>3, <1>6, <1>7, <1>8
     DEF Next, vars, handoffVars, MarkApplicationReady, CreateInterview, StartDrafting,
         Approve, ChangeMaterials, Retry, PublishRequest, PublishLost, SubmitRun,
         SubmitApplication, SubmitInterrupted, FailRun

\* All types are kept.
LEMMA TypeStep ==
    ASSUME TypeOK, OnlyHumansApprove, IdsExist, SelectionsAreApproved, [Next]_vars
    PROVE  TypeOK'
<1>1. MaterialsTypeOK'
  BY MaterialsApart, MaterialsStep DEF TypeOK
<1> QED
  BY <1>1, MaterialsBound, SmallTypesStep, RunsStep, WorkerTypeStep
     DEF TypeOK, SmallTypes, RunsPersist

--------------------------------------------------------------------------------
(* What a step may do to one run, to the set of runs and to one worker.    *)

\* The five ways a step treats the run r.
RunStep(r) ==
    \/ /\ runs'[r].status = runs[r].status
       /\ runs'[r].startedAt = runs[r].startedAt
    \/ /\ runs[r].status \in Startable
       /\ runs'[r].status = "started"
       /\ runs'[r].startedAt = TRUE
    \/ /\ runs'[r].status = "failed"
       /\ runs'[r].startedAt = runs[r].startedAt
    \/ /\ runs[r].status \in Submittable
       /\ runs'[r].status = "submitted"
       /\ runs'[r].startedAt = runs[r].startedAt
    \/ /\ \E w \in Workers : worker[w].step = "browser" /\ worker[w].run = r
       /\ runs[r].status \in Reviewable
       /\ runs'[r].status = "review_required"
       /\ runs'[r].startedAt = runs[r].startedAt

\* The effect of a status change on every run.
LEMMA StatusEffect ==
    ASSUME TypeOK, NEW q \in DOMAIN runs, NEW s, s \in RunStatuses,
           runs' = [runs EXCEPT ![q].status = s],
           NEW r \in DOMAIN runs
    PROVE  /\ runs'[r].startedAt = runs[r].startedAt
           /\ runs'[r].logs = runs[r].logs
           /\ runs'[r].status = IF r = q THEN s ELSE runs[r].status
<1> DEFINE new == [runs[q] EXCEPT !.status = s]
<1>1. runs[q] \in Run /\ runs \in Seq(Run)
  BY RunTypes DEF TypeOK
<1>2. new \in Run /\ new.status = s /\ new.startedAt = runs[q].startedAt
      /\ new.logs = runs[q].logs
  BY <1>1 DEF Run
<1>3. runs' = [runs EXCEPT ![q] = new]
  OBVIOUS
<1>4. runs'[q] = new /\ (r # q => runs'[r] = runs[r])
  BY <1>1, <1>2, <1>3, UpdateSeq
<1> QED
  BY <1>2, <1>4

\* The effect of an inserted run on the others.
LEMMA InsertEffect ==
    ASSUME TypeOK, NEW new \in Run, runs' = Append(runs, new)
    PROVE  /\ \A r \in DOMAIN runs : runs'[r] = runs[r]
           /\ DOMAIN runs' = DOMAIN runs \cup {Len(runs) + 1}
           /\ runs'[Len(runs) + 1] = new
           /\ Len(runs) + 1 \notin DOMAIN runs
  BY ExtendSeq DEF TypeOK

\* StartRun and AddLog, on the run of the worker.
LEMMA StartEffect ==
    ASSUME TypeOK, IdsExist, NEW w \in Workers, StartRun(w), NEW r \in DOMAIN runs
    PROVE  /\ worker[w].run \in DOMAIN runs
           /\ runs[worker[w].run].status \in Startable
           /\ IF r = worker[w].run
              THEN /\ runs'[r].status = "started" /\ runs'[r].startedAt = TRUE
                   /\ runs'[r].logs = runs[r].logs
              ELSE runs'[r] = runs[r]
<1> DEFINE q == worker[w].run
           new == [runs[q] EXCEPT !.status = "started", !.startedAt = TRUE]
<1>1. q \in DOMAIN runs /\ runs[q] \in Run /\ runs \in Seq(Run)
  BY RunTypes DEF StartRun, Moves, IdsExist, TypeOK
<1>2. /\ new \in Run /\ new.status = "started" /\ new.startedAt = TRUE
      /\ new.logs = runs[q].logs
  BY <1>1 DEF Run, RunStatuses
<1>3. runs' = [runs EXCEPT ![q] = new] /\ runs[q].status \in Startable
  BY DEF StartRun
<1>4. runs'[q] = new /\ (r # q => runs'[r] = runs[r])
  BY <1>1, <1>2, <1>3, UpdateSeq
<1> QED
  BY <1>1, <1>2, <1>3, <1>4

\* A log entry changes the logs of the worker's run and nothing else of any run.
LEMMA LogEffect ==
    ASSUME TypeOK, IdsExist, NEW w \in Workers, NEW kind \in LogKinds,
           NEW from \in Steps, NEW to, AddLog(w, kind, from, to), NEW r \in DOMAIN runs
    PROVE  /\ worker[w].run \in DOMAIN runs
           /\ IF r = worker[w].run
              THEN /\ runs'[r].status = runs[r].status
                   /\ runs'[r].startedAt = runs[r].startedAt
                   /\ runs'[r].logs = runs[r].logs \cup {kind}
              ELSE runs'[r] = runs[r]
<1> DEFINE q == worker[w].run
           new == [runs[q] EXCEPT !.logs = @ \cup {kind}]
<1>1. q \in DOMAIN runs /\ runs[q] \in Run /\ runs \in Seq(Run)
  BY RunTypes DEF AddLog, Moves, IdsExist, Steps, TypeOK
<1>2. /\ new \in Run /\ new.status = runs[q].status
      /\ new.startedAt = runs[q].startedAt
      /\ new.logs = runs[q].logs \cup {kind}
  BY <1>1 DEF Run
<1>3. runs' = [runs EXCEPT ![q] = new]
  BY DEF AddLog
<1>4. runs'[q] = new /\ (r # q => runs'[r] = runs[r])
  BY <1>1, <1>2, <1>3, UpdateSeq
<1> QED
  BY <1>1, <1>2, <1>4

\* Every step treats every run in one of those ways.
LEMMA EveryRunStep ==
    ASSUME TypeOK, IdsExist, [Next]_vars, NEW r \in DOMAIN runs
    PROVE  RunStep(r)
<1>0. ASSUME UNCHANGED runs
      PROVE  RunStep(r)
  BY <1>0 DEF RunStep
<1>1. ASSUME RunInserted
      PROVE  RunStep(r)
  BY <1>1, InsertEffect DEF RunInserted, RunStep
<1>2. ASSUME NEW q \in DOMAIN runs, SubmitRun(q)
      PROVE  RunStep(r)
  BY <1>2, StatusEffect DEF SubmitRun, RunStep, RunStatuses
<1>3. ASSUME NEW q \in DOMAIN runs, runs' = Failed(runs, q)
      PROVE  RunStep(r)
  BY <1>3, StatusEffect DEF Failed, RunStep, RunStatuses
<1>4. ASSUME NEW w \in Workers, StartRun(w)
      PROVE  RunStep(r)
  BY <1>4, StartEffect DEF RunStep
<1>5. ASSUME NEW w \in Workers, NEW kind \in LogKinds, NEW from \in Steps, NEW to,
             AddLog(w, kind, from, to)
      PROVE  RunStep(r)
  BY <1>5, LogEffect DEF RunStep
<1>6. ASSUME NEW w \in Workers, MarkReviewRequired(w)
      PROVE  RunStep(r)
  <2>1. /\ worker[w].step = "browser" /\ worker[w].run \in DOMAIN runs
        /\ runs[worker[w].run].status \in Reviewable
        /\ runs' = [runs EXCEPT ![worker[w].run].status = "review_required"]
    BY <1>6 DEF MarkReviewRequired, Moves, IdsExist
  <2> QED
    BY <2>1, StatusEffect DEF RunStep, RunStatuses
<1>7. ASSUME NEW w \in Workers, PacketFails(w) \/ BrowserFails(w)
      PROVE  RunStep(r)
  BY <1>3, <1>7 DEF PacketFails, BrowserFails, FailAndNak, IdsExist
<1>8. ASSUME NEW w \in Workers, Process(w)
      PROVE  RunStep(r)
  BY <1>0, <1>4, <1>5, <1>6, <1>7, <1>8
     DEF Process, NotStartable, ReadSelection, LoadMaterials, ReviewRefused, Ack,
         LogKinds, Steps
<1>9. ASSUME NEW a \in Applications, Approve(a)
      PROVE  RunStep(r)
  BY <1>0, <1>1, <1>9, ApproveEffect DEF RunInserted
<1>10. ASSUME NEW q \in DOMAIN runs, Retry(q)
       PROVE  RunStep(r)
  BY <1>1, <1>10, RetryEffect DEF RunInserted
<1>11. ASSUME NEW w \in Workers, (\E msg \in unacked : Deliver(w, msg)) \/ GiveUp(w)
       PROVE  RunStep(r)
  BY <1>0, <1>11 DEF Deliver, GiveUp
<1>12. CASE \/ UNCHANGED vars
            \/ MaterialsAction
            \/ \E a \in Applications : MarkApplicationReady(a) \/ CreateInterview(a)
            \/ \E q \in DOMAIN runs : \/ PublishRequest(q) \/ PublishLost(q)
                                     \/ SubmitApplication(q) \/ SubmitInterrupted(q)
  BY <1>0, <1>12
     DEF vars, handoffVars, MaterialsAction, StartDrafting, ChangeMaterials,
         MarkApplicationReady, CreateInterview, PublishRequest, PublishLost,
         SubmitApplication, SubmitInterrupted
<1> QED
  BY <1>2, <1>3, <1>8, <1>9, <1>10, <1>11, <1>12 DEF Next, FailRun, MaterialsAction

\* A new run was inserted by an approval or a retry.
LEMMA NewRunStep ==
    ASSUME TypeOK, IdsExist, [Next]_vars, NEW q \in DOMAIN runs', q \notin DOMAIN runs
    PROVE  \/ \E a \in Applications : \E resume \in Resumes(a), cover \in CoverLetters(a) \cup {None} :
                 /\ Approve(a)
                 /\ ReusableRuns(a) = {}
                 /\ selected' = [selected EXCEPT ![a] = [resume |-> resume, cover |-> cover]]
                 /\ DOMAIN runs' = DOMAIN runs \cup {q}
                 /\ runs'[q] = NewRun(a, resume, cover, "approve")
           \/ \E r \in DOMAIN runs :
                 /\ Retry(r)
                 /\ DOMAIN runs' = DOMAIN runs \cup {q}
                 /\ runs'[q] = NewRun(runs[r].app, runs[r].resume, runs[r].cover, "retry")
<1>2. DOMAIN runs' # DOMAIN runs
  OBVIOUS
<1>3. ASSUME NEW r \in DOMAIN runs, NEW new, runs' = [runs EXCEPT ![r] = new]
      PROVE  FALSE
  BY <1>2, <1>3, RunTypes DEF TypeOK
<1>4. \/ \E a \in Applications : Approve(a)
      \/ \E r \in DOMAIN runs : Retry(r)
  BY <1>2, <1>3
     DEF Next, vars, handoffVars, MarkApplicationReady, CreateInterview, StartDrafting,
         ChangeMaterials, PublishRequest, PublishLost, SubmitRun, SubmitApplication,
         SubmitInterrupted, FailRun, Failed, Process, Deliver, GiveUp, StartRun,
         NotStartable, AddLog, PacketFails, FailAndNak, ReadSelection, LoadMaterials,
         BrowserFails, MarkReviewRequired, ReviewRefused, Ack, otherThanWorker
<1>5. ASSUME NEW a \in Applications, Approve(a)
      PROVE  \E resume \in Resumes(a), cover \in CoverLetters(a) \cup {None} :
                 /\ ReusableRuns(a) = {}
                 /\ selected' = [selected EXCEPT ![a] = [resume |-> resume, cover |-> cover]]
                 /\ DOMAIN runs' = DOMAIN runs \cup {q}
                 /\ runs'[q] = NewRun(a, resume, cover, "approve")
  <2>1. PICK resume \in Resumes(a), cover \in CoverLetters(a) \cup {None} :
           /\ selected' = [selected EXCEPT ![a] = [resume |-> resume, cover |-> cover]]
           /\ ReusableRuns(a) = {}
           /\ NewRun(a, resume, cover, "approve") \in Run
           /\ runs' = Append(runs, NewRun(a, resume, cover, "approve"))
    BY <1>2, <1>5, ApproveEffect
  <2> QED
    BY <2>1, InsertEffect
<1>6. ASSUME NEW r \in DOMAIN runs, Retry(r)
      PROVE  /\ DOMAIN runs' = DOMAIN runs \cup {q}
             /\ runs'[q] = NewRun(runs[r].app, runs[r].resume, runs[r].cover, "retry")
  <2>1. /\ NewRun(runs[r].app, runs[r].resume, runs[r].cover, "retry") \in Run
        /\ runs' = Append(runs, NewRun(runs[r].app, runs[r].resume, runs[r].cover, "retry"))
    BY <1>6, RetryEffect
  <2> QED
    BY <2>1, InsertEffect
<1> QED
  BY <1>4, <1>5, <1>6

\* A worker stays as it is, is idle, has got a message, has taken a step on the
\* same run, or has got its selection or its packet.
WorkerStep(w) ==
    \/ worker'[w] = worker[w]
    \/ worker'[w] = IdleWorker
    \/ \E msg \in unacked :
          worker'[w] = [IdleWorker EXCEPT !.step = "start", !.run = msg.run, !.copy = msg.copy]
    \/ StartRun(w)
    \/ AddLog(w, "started", "log_started", "read_selection")
    \/ ReadSelection(w)
    \/ LoadMaterials(w)
    \/ AddLog(w, "packet", "log_packet", "log_plan")
    \/ AddLog(w, "plan", "log_plan", "browser")
    \/ MarkReviewRequired(w)

\* What any step does to a worker is one of these.
LEMMA EveryWorkerStep ==
    ASSUME TypeOK, [Next]_vars, NEW w \in Workers
    PROVE  WorkerStep(w)
<1>0. worker \in [Workers -> Worker]
  BY DEF TypeOK
<1>1. ASSUME UNCHANGED worker
      PROVE  WorkerStep(w)
  BY <1>1 DEF WorkerStep
<1>2. ASSUME NEW v \in Workers, worker' = [worker EXCEPT ![v] = IdleWorker]
      PROVE  WorkerStep(w)
  BY <1>0, <1>2 DEF WorkerStep
<1>3. ASSUME NEW v \in Workers, NEW msg \in unacked, Deliver(v, msg)
      PROVE  WorkerStep(w)
  BY <1>0, <1>3 DEF Deliver, WorkerStep
<1>4. ASSUME NEW v \in Workers, v # w, NEW new, worker' = [worker EXCEPT ![v] = new]
      PROVE  WorkerStep(w)
  BY <1>0, <1>4 DEF WorkerStep
<1>5. ASSUME NEW v \in Workers, Process(v)
      PROVE  WorkerStep(w)
  <2>1. CASE v = w
    BY <1>2, <1>5, <2>1
       DEF Process, NotStartable, PacketFails, FailAndNak, BrowserFails,
           ReviewRefused, Ack, WorkerStep
  <2>2. CASE v # w
    BY <1>0, <1>2, <1>5, <2>2
       DEF Process, StartRun, Moves, NotStartable, AddLog, PacketFails, FailAndNak,
           ReadSelection, LoadMaterials, BrowserFails, MarkReviewRequired,
           ReviewRefused, Ack, WorkerStep
  <2> QED
    BY <2>1, <2>2
<1> QED
  BY <1>1, <1>2, <1>3, <1>5
     DEF Next, vars, handoffVars, MarkApplicationReady, CreateInterview, StartDrafting,
         Approve, ChangeMaterials, Retry, PublishRequest, PublishLost, SubmitRun,
         SubmitApplication, SubmitInterrupted, FailRun, GiveUp

\* Moves changes the step of the worker and nothing else of it.
LEMMA MovesEffect ==
    ASSUME TypeOK, NEW w \in Workers, NEW from \in Steps, NEW to, Moves(w, from, to)
    PROVE  /\ worker[w].step = from
           /\ worker'[w].step = to
           /\ worker'[w].run = worker[w].run
           /\ worker'[w].selection = worker[w].selection
           /\ worker'[w].packet = worker[w].packet
<1>1. worker \in [Workers -> Worker] /\ worker[w] \in BusyWorker
  BY Busy DEF TypeOK, Moves, Steps
<1> QED
  BY <1>1 DEF Moves, BusyWorker

\* The steps that only move the worker, and their ends.
OnlyMoves(w) == \E from \in Steps, to \in {"log_started", "read_selection", "log_plan", "browser", "ack"} :
    Moves(w, from, to)

\* These steps put nothing new in a worker's hands.
LEMMA SmallWorkerSteps ==
    ASSUME NEW w \in Workers, WorkerStep(w)
    PROVE  \/ worker'[w] = worker[w]
           \/ worker'[w] = IdleWorker
           \/ worker'[w].step = "start" /\ worker'[w].packet = NoPacket
           \/ ReadSelection(w)
           \/ LoadMaterials(w)
           \/ OnlyMoves(w)
<1>1. CASE StartRun(w)
  BY <1>1 DEF StartRun, OnlyMoves, Steps
<1>2. CASE \/ AddLog(w, "started", "log_started", "read_selection")
           \/ AddLog(w, "packet", "log_packet", "log_plan")
           \/ AddLog(w, "plan", "log_plan", "browser")
  BY <1>2 DEF AddLog, OnlyMoves, Steps
<1>3. CASE MarkReviewRequired(w)
  BY <1>3 DEF MarkReviewRequired, OnlyMoves, Steps
<1>4. CASE \E msg \in unacked :
          worker'[w] = [IdleWorker EXCEPT !.step = "start", !.run = msg.run, !.copy = msg.copy]
  BY <1>4 DEF IdleWorker
<1> QED
  BY <1>1, <1>2, <1>3, <1>4 DEF WorkerStep

\* The run a busy worker works on after a step: the one before, or that of a
\* message it has just got.
LEMMA WorkerRun ==
    ASSUME TypeOK, [Next]_vars, NEW w \in Workers, worker'[w].step # "idle"
    PROVE  \/ /\ worker[w].step # "idle"
              /\ worker'[w].run = worker[w].run
           \/ /\ worker'[w].step = "start"
              /\ worker'[w].packet = NoPacket
              /\ \E msg \in unacked : worker'[w].run = msg.run
<1>0. worker \in [Workers -> Worker]
  BY DEF TypeOK
<1>1. worker[w].step # "idle" => worker[w] \in BusyWorker
  BY Busy
<1>2. CASE worker'[w] = worker[w]
  BY <1>2
<1>3. CASE worker'[w] = IdleWorker
  BY <1>3 DEF IdleWorker
<1>4. CASE \E msg \in unacked :
              worker'[w] = [IdleWorker EXCEPT !.step = "start", !.run = msg.run, !.copy = msg.copy]
  BY <1>4 DEF IdleWorker
<1>5. ASSUME NEW from \in Steps, NEW to, Moves(w, from, to)
      PROVE  worker[w].step # "idle" /\ worker'[w].run = worker[w].run
  BY <1>0, <1>1, <1>5 DEF Moves, BusyWorker, Steps
<1>6. CASE ReadSelection(w) \/ LoadMaterials(w)
  BY <1>0, <1>1, <1>6 DEF ReadSelection, LoadMaterials, BusyWorker
<1> QED
  BY <1>2, <1>3, <1>4, <1>5, <1>6, EveryWorkerStep
     DEF WorkerStep, StartRun, AddLog, MarkReviewRequired, Steps

\* Ids that are held stay ids of rows.
LEMMA IdsStep ==
    ASSUME TypeOK, IdsExist, [Next]_vars
    PROVE  IdsExist'
<1>0. DOMAIN runs \subseteq DOMAIN runs'
  BY RunsStep DEF RunsPersist
<1>1. \A w \in Workers : worker'[w].step # "idle" => worker'[w].run \in DOMAIN runs'
  BY <1>0, WorkerRun DEF IdsExist
<1>2. ASSUME UNCHANGED <<publishing, submitting, unacked>>
      PROVE  IdsExist'
  BY <1>0, <1>1, <1>2 DEF IdsExist
<1>3. ASSUME NEW a \in Applications, Approve(a)
      PROVE  IdsExist'
  <2>1. \/ /\ Len(runs) < MaxRuns
           /\ publishing' = publishing \cup {Len(runs) + 1}
           /\ ~ UNCHANGED runs
        \/ \E r \in ReusableRuns(a) : publishing' = publishing \cup {r}
    <3>1. \A new : Append(runs, new) # runs
      BY RunTypes DEF TypeOK
    <3> QED
      BY <1>3, <3>1 DEF Approve
  <2>2. ~ UNCHANGED runs => Len(runs) + 1 \in DOMAIN runs'
    BY <1>3, ApproveEffect, InsertEffect
  <2>3. publishing' \subseteq DOMAIN runs'
    BY <1>0, <2>1, <2>2 DEF IdsExist, ReusableRuns, RunsOf
  <2> QED
    BY <1>0, <1>1, <1>3, <2>3 DEF Approve, IdsExist
<1>4. ASSUME NEW r \in DOMAIN runs, Retry(r)
      PROVE  IdsExist'
  <2>1. Len(runs) + 1 \in DOMAIN runs'
    BY <1>4, RetryEffect, InsertEffect
  <2> QED
    BY <1>0, <1>1, <1>4, <2>1 DEF Retry, IdsExist
<1>5. ASSUME NEW r \in DOMAIN runs,
             \/ PublishRequest(r) \/ PublishLost(r) \/ SubmitRun(r)
             \/ SubmitApplication(r) \/ SubmitInterrupted(r)
      PROVE  IdsExist'
  BY <1>0, <1>1, <1>5 DEF PublishRequest, PublishLost, SubmitRun, SubmitApplication,
                          SubmitInterrupted, IdsExist
<1>6. ASSUME NEW w \in Workers, Ack(w)
      PROVE  IdsExist'
  BY <1>0, <1>1, <1>6 DEF Ack, IdsExist
<1>7. ASSUME NEW w \in Workers, Process(w), ~ Ack(w)
      PROVE  IdsExist'
  BY <1>2, <1>7
     DEF Process, StartRun, NotStartable, AddLog, PacketFails, FailAndNak,
         ReadSelection, LoadMaterials, BrowserFails, MarkReviewRequired,
         ReviewRefused, otherThanWorker
<1> QED
  BY <1>2, <1>3, <1>4, <1>5, <1>6, <1>7
     DEF Next, vars, handoffVars, MarkApplicationReady, CreateInterview, StartDrafting,
         ChangeMaterials, FailRun, Deliver, GiveUp, otherThanWorker

--------------------------------------------------------------------------------
(* What runs, selections and packets name was approved by a human.         *)

\* What was approved stays approved, of the same application and kind.
LEMMA WereApprovedStep ==
    ASSUME TypeOK, OnlyHumansApprove, [Next]_vars, NEW a, NEW k
    PROVE  WereApproved(a, k) \subseteq WereApproved(a, k)'
<1>1. MaterialsPersist
  BY MaterialsApart, MaterialsStep DEF TypeOK
<1>2. everApproved \subseteq DOMAIN materials
  BY DEF TypeOK, MaterialsTypeOK
<1> QED
  BY <1>1, <1>2 DEF MaterialsPersist, WereApproved

\* What an approval selects was approved.
LEMMA ApprovedSelection ==
    ASSUME OnlyHumansApprove, NEW a \in Applications, Approve(a),
           NEW resume \in Resumes(a), NEW cover \in CoverLetters(a) \cup {None}
    PROVE  /\ resume \in WereApproved(a, "resume")
           /\ cover \in WereApproved(a, "cover_letter") \cup {None}
<1>1. AllApproved(a)
  BY DEF Approve
<1>2. \A k : OfKind(a, k) \subseteq WereApproved(a, k)
  BY <1>1 DEF AllApproved, OfKind, MaterialsOf, OnlyHumansApprove, WereApproved
<1> QED
  BY <1>2 DEF Resumes, CoverLetters

\* The two halves of "the run q names approved materials of a".
NamesApproved(run, a) ==
    /\ run.app = a
    /\ run.resume \in WereApproved(a, "resume")
    /\ run.cover \in WereApproved(a, "cover_letter") \cup {None}

\* Every path that inserts a run names approved materials.
LEMMA RunsNameStep ==
    ASSUME TypeOK, OnlyHumansApprove, IdsExist, RunsNameApprovedMaterials, [Next]_vars
    PROVE  RunsNameApprovedMaterials'
<1> SUFFICES ASSUME NEW q \in DOMAIN runs'
             PROVE  \E a \in Applications : NamesApproved(runs[q], a)'
  BY DEF RunsNameApprovedMaterials, NamesApproved
<1>1. ASSUME NEW r \in DOMAIN runs
      PROVE  \E a \in Applications : /\ NamesApproved(runs[r], a)
                                     /\ runs[r].app = a
                                     /\ runs[r].resume \in WereApproved(a, "resume")'
                                     /\ runs[r].cover \in WereApproved(a, "cover_letter")' \cup {None}
  <2>1. PICK a \in Applications : a = runs[r].app
    BY RunTypes DEF Run
  <2>2. NamesApproved(runs[r], a)
    BY <2>1 DEF RunsNameApprovedMaterials, NamesApproved
  <2> QED
    BY <2>1, <2>2, WereApprovedStep DEF NamesApproved
<1>2. CASE q \in DOMAIN runs
  BY <1>1, <1>2, RunsStep DEF RunsPersist, Keeps, NamesApproved
<1>3. ASSUME NEW a \in Applications, NEW resume \in Resumes(a),
             NEW cover \in CoverLetters(a) \cup {None}, Approve(a),
             runs'[q] = NewRun(a, resume, cover, "approve")
      PROVE  NamesApproved(runs[q], a)'
  <2>1. /\ resume \in WereApproved(a, "resume")'
        /\ cover \in WereApproved(a, "cover_letter")' \cup {None}
    BY <1>3, ApprovedSelection, WereApprovedStep
  <2> QED
    BY <1>3, <2>1 DEF NewRun, NamesApproved
<1>4. ASSUME NEW r \in DOMAIN runs,
             runs'[q] = NewRun(runs[r].app, runs[r].resume, runs[r].cover, "retry")
      PROVE  \E a \in Applications : NamesApproved(runs[q], a)'
  BY <1>1, <1>4 DEF NewRun, NamesApproved
<1> QED
  BY <1>2, <1>3, <1>4, NewRunStep

\* The selection of an application changes only with an approval of it.
LEMMA SelectedStep ==
    ASSUME TypeOK, OnlyHumansApprove, [Next]_vars, NEW a \in Applications
    PROVE  \/ selected'[a] = selected[a]
           \/ IsSelectionOf(selected[a], a)'
<1>1. ASSUME NEW b \in Applications, Approve(b)
      PROVE  selected'[a] = selected[a] \/ IsSelectionOf(selected[a], a)'
  <2>1. PICK resume \in Resumes(b), cover \in CoverLetters(b) \cup {None} :
           selected' = [selected EXCEPT ![b] = [resume |-> resume, cover |-> cover]]
    BY <1>1, ApproveEffect
  <2>2. CASE a = b
    <3>1. selected'[a] = [resume |-> resume, cover |-> cover]
      BY <2>1, <2>2 DEF TypeOK
    <3>2. /\ resume \in WereApproved(b, "resume")'
          /\ cover \in WereApproved(b, "cover_letter")' \cup {None}
      BY <1>1, ApprovedSelection, WereApprovedStep
    <3> QED
      BY <2>2, <3>1, <3>2 DEF IsSelectionOf
  <2>3. CASE a # b
    BY <2>1, <2>3 DEF TypeOK
  <2> QED
    BY <2>2, <2>3
<1>2. CASE UNCHANGED selected
  BY <1>2
<1> QED
  BY <1>1, <1>2
     DEF Next, vars, handoffVars, MarkApplicationReady, CreateInterview, StartDrafting,
         ChangeMaterials, Retry, PublishRequest, PublishLost, SubmitRun,
         SubmitApplication, SubmitInterrupted, FailRun, Deliver, Process, GiveUp,
         StartRun, NotStartable, AddLog, PacketFails, FailAndNak, ReadSelection,
         LoadMaterials, BrowserFails, MarkReviewRequired, ReviewRefused, Ack,
         otherThanWorker

\* An approved selection of an application is replaced only by another.
LEMMA SelectedStaysApproved ==
    ASSUME TypeOK, OnlyHumansApprove, [Next]_vars, NEW a \in Applications,
           IsSelectionOf(selected[a], a)
    PROVE  IsSelectionOf(selected[a], a)'
  BY SelectedStep, WereApprovedStep DEF IsSelectionOf

\* Every application with a run keeps an approved selection.
LEMMA RunsHaveSelectionStep ==
    ASSUME TypeOK, OnlyHumansApprove, IdsExist, RunsHaveSelection, [Next]_vars
    PROVE  RunsHaveSelection'
<1> SUFFICES ASSUME NEW q \in DOMAIN runs'
             PROVE  \E a \in Applications : runs'[q].app = a /\ IsSelectionOf(selected[a], a)'
  BY DEF RunsHaveSelection, IsSelectionOf
<1>1. ASSUME NEW r \in DOMAIN runs
      PROVE  \E a \in Applications : runs[r].app = a /\ IsSelectionOf(selected[a], a)'
  <2>1. PICK a \in Applications : a = runs[r].app
    BY RunTypes DEF Run
  <2>2. IsSelectionOf(selected[a], a)
    BY <2>1 DEF RunsHaveSelection, IsSelectionOf
  <2> QED
    BY <2>1, <2>2, SelectedStaysApproved
<1>2. CASE q \in DOMAIN runs
  BY <1>1, <1>2, RunsStep DEF RunsPersist, Keeps
<1>3. ASSUME NEW r \in DOMAIN runs,
             runs'[q] = NewRun(runs[r].app, runs[r].resume, runs[r].cover, "retry")
      PROVE  \E a \in Applications : runs'[q].app = a /\ IsSelectionOf(selected[a], a)'
  BY <1>1, <1>3 DEF NewRun
<1>4. ASSUME NEW a \in Applications, NEW resume \in Resumes(a),
             NEW cover \in CoverLetters(a) \cup {None}, Approve(a),
             selected' = [selected EXCEPT ![a] = [resume |-> resume, cover |-> cover]],
             runs'[q] = NewRun(a, resume, cover, "approve")
      PROVE  runs'[q].app = a /\ IsSelectionOf(selected[a], a)'
  <2>1. runs'[q].app = a /\ selected'[a] = [resume |-> resume, cover |-> cover]
    BY <1>4 DEF NewRun, TypeOK
  <2>2. /\ resume \in WereApproved(a, "resume")'
        /\ cover \in WereApproved(a, "cover_letter")' \cup {None}
    BY <1>4, ApprovedSelection, WereApprovedStep
  <2> QED
    BY <2>1, <2>2 DEF IsSelectionOf
<1> QED
  BY <1>2, <1>3, <1>4, NewRunStep

\* The application of the run a busy worker works on.
LEMMA WorkerApplication ==
    ASSUME TypeOK, IdsExist, [Next]_vars, NEW w \in Workers, worker[w].step # "idle"
    PROVE  \E a \in Applications : /\ runs[worker[w].run].app = a
                                   /\ runs'[worker[w].run].app = a
<1>1. worker[w].run \in DOMAIN runs
  BY DEF IdsExist
<1>2. runs[worker[w].run] \in Run
  BY <1>1, RunTypes
<1>3. runs'[worker[w].run].app = runs[worker[w].run].app
  BY <1>1, RunsStep DEF RunsPersist, Keeps
<1> QED
  BY <1>2, <1>3 DEF Run

\* Selections, stored or read, stay approved.
LEMMA SelectionsStep ==
    ASSUME TypeOK, OnlyHumansApprove, IdsExist, SelectionsAreApproved, [Next]_vars
    PROVE  SelectionsAreApproved'
<1>1. ASSUME NEW a \in Applications
      PROVE  selected'[a] = NoSelection \/ IsSelectionOf(selected[a], a)'
  BY SelectedStep, SelectedStaysApproved DEF SelectionsAreApproved
<1>2. ASSUME NEW w \in Workers, worker'[w].step = "load_materials"
      PROVE  IsSelectionOf(worker[w].selection, runs[worker[w].run].app)'
  <2>0. worker \in [Workers -> Worker] /\ (worker[w].step # "idle" => worker[w] \in BusyWorker)
    BY Busy DEF TypeOK
  <2>1. CASE worker'[w] = worker[w]
    <3>1. PICK a \in Applications : runs[worker[w].run].app = a /\ runs'[worker[w].run].app = a
      BY <1>2, <2>1, WorkerApplication
    <3>2. IsSelectionOf(worker[w].selection, a)
      BY <1>2, <2>1, <3>1 DEF SelectionsAreApproved
    <3>3. /\ worker[w].selection.resume \in WereApproved(a, "resume")'
          /\ worker[w].selection.cover \in WereApproved(a, "cover_letter")' \cup {None}
      BY <3>2, WereApprovedStep DEF IsSelectionOf
    <3> QED
      BY <2>1, <3>1, <3>3 DEF IsSelectionOf
  <2>2. CASE ReadSelection(w)
    <3>1. PICK a \in Applications : runs[worker[w].run].app = a /\ runs'[worker[w].run].app = a
      BY <2>2, WorkerApplication DEF ReadSelection
    <3>2. /\ selected[a].resume # None
          /\ worker'[w].selection = selected[a]
          /\ worker'[w].run = worker[w].run
      BY <2>0, <2>2, <3>1 DEF ReadSelection, BusyWorker
    <3>3. IsSelectionOf(selected[a], a)
      BY <3>2 DEF SelectionsAreApproved, NoSelection
    <3>4. /\ selected[a].resume \in WereApproved(a, "resume")'
          /\ selected[a].cover \in WereApproved(a, "cover_letter")' \cup {None}
      BY <3>3, WereApprovedStep DEF IsSelectionOf
    <3> QED
      BY <3>1, <3>2, <3>4 DEF IsSelectionOf
  <2>3. CASE worker'[w] # worker[w] /\ ~ ReadSelection(w)
    <3>1. CASE LoadMaterials(w)
      BY <1>2, <2>0, <3>1 DEF LoadMaterials, BusyWorker
    <3>2. CASE OnlyMoves(w)
      BY <1>2, <3>2, MovesEffect DEF OnlyMoves
    <3> QED
      BY <1>2, <2>3, <3>1, <3>2, EveryWorkerStep, SmallWorkerSteps DEF IdleWorker
  <2> QED
    BY <2>1, <2>2, <2>3
<1> QED
  BY <1>1, <1>2 DEF SelectionsAreApproved

\* The parts of a packet are rows of the application a that were approved.
PacketApproved(p, a) ==
    /\ p.resume.id \in WereApproved(a, "resume")
    /\ p.cover.id \in WereApproved(a, "cover_letter") \cup {None}
    /\ p.answers \subseteq WereApproved(a, "application_answers")

\* Packets are made of approved rows.
LEMMA PacketsStep ==
    ASSUME TypeOK, OnlyHumansApprove, IdsExist, SelectionsAreApproved,
           PacketsOfApprovedRows, [Next]_vars
    PROVE  PacketsOfApprovedRows'
<1> SUFFICES ASSUME NEW w \in Workers, worker'[w].packet # NoPacket
             PROVE  \E a \in Applications :
                       /\ runs'[worker'[w].run].app = a
                       /\ PacketApproved(worker[w].packet, a)'
  BY DEF PacketsOfApprovedRows, PacketApproved
<1>0. worker \in [Workers -> Worker] /\ (worker[w].step # "idle" => worker[w] \in BusyWorker)
  BY Busy DEF TypeOK
<1>1. worker'[w].step # "idle" /\ worker[w].step # "idle" /\ worker'[w].run = worker[w].run
  <2>1. worker'[w] \in Worker
    BY WorkerTypeStep
  <2>2. worker'[w].step # "idle"
    BY <2>1 DEF Worker, BusyWorker, Steps, IdleWorker
  <2> QED
    BY <2>2, WorkerRun
<1>2. PICK a \in Applications : runs[worker[w].run].app = a /\ runs'[worker[w].run].app = a
  BY <1>1, WorkerApplication
<1>3. ASSUME NEW p, PacketApproved(p, a), worker'[w].packet = p
      PROVE  PacketApproved(worker[w].packet, a)'
  BY <1>3, WereApprovedStep DEF PacketApproved
<1>4. CASE LoadMaterials(w)
  <2> DEFINE sel == worker[w].selection
             p == [resume |-> ItemOf(sel.resume), cover |-> ItemOf(sel.cover),
                   answers |-> ApprovedAnswers(a)]
  <2>1. worker'[w].packet = p
    BY <1>0, <1>1, <1>2, <1>4 DEF LoadMaterials, BusyWorker
  <2>2. IsSelectionOf(sel, a)
    BY <1>2, <1>4 DEF LoadMaterials, SelectionsAreApproved
  <2>3. \A m : ItemOf(m).id = m
    BY DEF ItemOf, NoItem
  <2>4. ApprovedAnswers(a) \subseteq WereApproved(a, "application_answers")
    BY DEF ApprovedAnswers, OfKind, MaterialsOf, OnlyHumansApprove, WereApproved
  <2>5. PacketApproved(p, a)
    BY <2>2, <2>3, <2>4 DEF PacketApproved, IsSelectionOf
  <2> QED
    BY <1>1, <1>2, <1>3, <2>1, <2>5
<1>5. CASE ~ LoadMaterials(w)
  <2>1. worker'[w].packet = worker[w].packet
    <3>1. CASE ReadSelection(w)
      BY <1>0, <1>1, <3>1 DEF ReadSelection, BusyWorker
    <3>2. CASE OnlyMoves(w)
      BY <3>2, MovesEffect DEF OnlyMoves
    <3> QED
      BY <1>1, <1>5, <3>1, <3>2, EveryWorkerStep, SmallWorkerSteps DEF IdleWorker
  <2>2. PacketApproved(worker[w].packet, a)
    BY <1>2, <2>1 DEF PacketsOfApprovedRows, PacketApproved
  <2> QED
    BY <1>1, <1>2, <1>3, <2>1, <2>2
<1> QED
  BY <1>4, <1>5

--------------------------------------------------------------------------------
(* The life of a run.                                                      *)

\* A new run is requested; it is a retry, or no run of its application is active.
LEMMA NewRunShape ==
    ASSUME TypeOK, IdsExist, [Next]_vars, NEW q \in DOMAIN runs', q \notin DOMAIN runs
    PROVE  /\ runs'[q].status = "requested"
           /\ runs'[q].startedAt = FALSE
           /\ DOMAIN runs' = DOMAIN runs \cup {q}
           /\ \/ runs'[q].origin = "retry"
              \/ \E a : runs'[q].app = a /\ ReusableRuns(a) = {}
<1>1. CASE \E a \in Applications : \E resume \in Resumes(a), cover \in CoverLetters(a) \cup {None} :
             /\ ReusableRuns(a) = {}
             /\ DOMAIN runs' = DOMAIN runs \cup {q}
             /\ runs'[q] = NewRun(a, resume, cover, "approve")
  <2>1. PICK a \in Applications :
           \E resume \in Resumes(a), cover \in CoverLetters(a) \cup {None} :
              /\ ReusableRuns(a) = {}
              /\ DOMAIN runs' = DOMAIN runs \cup {q}
              /\ runs'[q] = NewRun(a, resume, cover, "approve")
    BY <1>1
  <2> QED
    BY <2>1 DEF NewRun
<1>2. CASE \E r \in DOMAIN runs :
             /\ DOMAIN runs' = DOMAIN runs \cup {q}
             /\ runs'[q] = NewRun(runs[r].app, runs[r].resume, runs[r].cover, "retry")
  BY <1>2 DEF NewRun
<1> QED
  BY <1>1, <1>2, NewRunStep

\* A worker that is past the start after a step has not just got a message.
LEMMA PastStart ==
    ASSUME TypeOK, [Next]_vars, NEW w \in Workers, worker'[w].step \notin {"idle", "start"}
    PROVE  \/ worker'[w] = worker[w]
           \/ StartRun(w)
           \/ AddLog(w, "started", "log_started", "read_selection")
           \/ ReadSelection(w)
           \/ LoadMaterials(w)
           \/ AddLog(w, "packet", "log_packet", "log_plan")
           \/ AddLog(w, "plan", "log_plan", "browser")
           \/ MarkReviewRequired(w)
<1>1. worker'[w] # IdleWorker
  BY DEF IdleWorker
<1>2. \A msg : worker'[w] # [IdleWorker EXCEPT !.step = "start", !.run = msg.run, !.copy = msg.copy]
  BY DEF IdleWorker
<1> QED
  BY <1>1, <1>2, EveryWorkerStep DEF WorkerStep

\* One step of one run, under the invariant.
LEMMA ProgressStep ==
    ASSUME TypeOK, IdsExist, StartedRuns, [Next]_vars, NEW r \in DOMAIN runs
    PROVE  runs'[r].status \in {runs[r].status} \cup Successors[runs[r].status]
<1>1. RunStep(r) /\ runs[r] \in Run /\ runs[r].status \in RunStatuses
  BY EveryRunStep, RunTypes DEF Run
<1>2. ASSUME runs'[r].status = "review_required", runs[r].status \in Reviewable,
             \E w \in Workers : worker[w].step = "browser" /\ worker[w].run = r
      PROVE  runs[r].status \in {"started", "review_required"}
  BY <1>2 DEF StartedRuns, Reviewable
<1> QED
  BY <1>1, <1>2
     DEF RunStep, RunStatuses, Successors, Startable, Submittable

\* started_at is kept with the status, and workers past the start hold started
\* runs.
LEMMA StartedStep ==
    ASSUME TypeOK, IdsExist, StartedRuns, [Next]_vars
    PROVE  StartedRuns'
<1>1. ASSUME NEW r \in DOMAIN runs'
      PROVE  /\ runs'[r].status = "requested" => ~ runs'[r].startedAt
             /\ runs'[r].status \notin {"requested", "failed"} => runs'[r].startedAt
  <2>1. CASE r \in DOMAIN runs
    <3>1. RunStep(r)
      BY <2>1, EveryRunStep
    <3>2. /\ runs[r].status = "requested" => ~ runs[r].startedAt
          /\ runs[r].status \notin {"requested", "failed"} => runs[r].startedAt
      BY <2>1 DEF StartedRuns
    <3>3. ASSUME NEW w \in Workers, worker[w].step = "browser", worker[w].run = r
          PROVE  runs[r].startedAt
      BY <3>3 DEF StartedRuns
    <3> QED
      BY <3>1, <3>2, <3>3 DEF RunStep, Submittable
  <2>2. CASE r \notin DOMAIN runs
    BY <2>2, NewRunShape
  <2> QED
    BY <2>1, <2>2
<1>2. ASSUME NEW w \in Workers, worker'[w].step \notin {"idle", "start"}
      PROVE  runs'[worker'[w].run].startedAt
  <2>1. /\ worker[w].step # "idle" /\ worker'[w].run = worker[w].run
        /\ worker[w].run \in DOMAIN runs
    BY <1>2, WorkerRun DEF IdsExist
  <2>2. Keeps(runs[worker[w].run], runs'[worker[w].run])
    BY <2>1, RunsStep DEF RunsPersist
  <2>3. CASE worker[w].step # "start"
    BY <2>1, <2>2, <2>3 DEF Keeps, StartedRuns
  <2>4. CASE worker[w].step = "start"
    <3>1. StartRun(w)
      BY <1>2, <2>4, PastStart
         DEF AddLog, Moves, ReadSelection, LoadMaterials, MarkReviewRequired
    <3> QED
      BY <2>1, <3>1, StartEffect
  <2> QED
    BY <2>3, <2>4
<1> QED
  BY <1>1, <1>2 DEF StartedRuns

\* A worker's log entries keep up with its steps.
LEMMA WorkersLogStep ==
    ASSUME TypeOK, IdsExist, WorkersLog, [Next]_vars
    PROVE  WorkersLog'
<1> SUFFICES ASSUME NEW w \in Workers, worker'[w].step # "idle"
             PROVE  LogsBefore(worker'[w].step) \subseteq runs'[worker'[w].run].logs
  BY DEF WorkersLog, LogsBefore
<1>1. CASE worker'[w].step = "start"
  BY <1>1 DEF LogsBefore
<1>2. CASE worker'[w].step # "start"
  <2>1. /\ worker[w].step # "idle" /\ worker'[w].run = worker[w].run
        /\ worker[w].run \in DOMAIN runs
        /\ worker \in [Workers -> Worker] /\ worker[w] \in BusyWorker
    BY <1>2, WorkerRun, Busy DEF IdsExist, TypeOK
  <2>2. runs[worker[w].run].logs \subseteq runs'[worker[w].run].logs
    BY <2>1, RunsStep DEF RunsPersist, Keeps
  <2>3. LogsBefore(worker[w].step) \subseteq runs[worker[w].run].logs
    BY <2>1 DEF WorkersLog
  <2>4. CASE worker'[w] = worker[w]
    BY <2>1, <2>2, <2>3, <2>4
  <2>5. CASE StartRun(w)
    <3>1. worker'[w].step = "log_started"
      BY <2>5, MovesEffect DEF StartRun, Steps
    <3> QED
      BY <3>1 DEF LogsBefore
  <2>6. ASSUME NEW kind \in LogKinds, NEW from \in Steps, NEW to,
               LogsBefore(to) \subseteq LogsBefore(from) \cup {kind},
               AddLog(w, kind, from, to)
        PROVE  LogsBefore(worker'[w].step) \subseteq runs'[worker'[w].run].logs
    <3>1. worker[w].step = from /\ worker'[w].step = to
      BY <2>6, MovesEffect DEF AddLog
    <3>2. kind \in runs'[worker[w].run].logs
      BY <2>1, <2>6, LogEffect
    <3> QED
      BY <2>1, <2>2, <2>3, <2>6, <3>1, <3>2
  <2>7. CASE ReadSelection(w) \/ LoadMaterials(w)
    <3>1. \/ worker[w].step = "read_selection" /\ worker'[w].step = "load_materials"
          \/ worker[w].step = "load_materials" /\ worker'[w].step = "log_packet"
      BY <2>1, <2>7 DEF ReadSelection, LoadMaterials, BusyWorker
    <3> QED
      BY <2>1, <2>2, <2>3, <3>1 DEF LogsBefore
  <2>8. CASE MarkReviewRequired(w)
    <3>1. worker[w].step = "browser" /\ worker'[w].step = "ack"
      BY <2>8, MovesEffect DEF MarkReviewRequired, Steps
    <3> QED
      BY <2>1, <2>2, <2>3, <3>1 DEF LogsBefore
  <2>9. /\ LogsBefore("read_selection") \subseteq LogsBefore("log_started") \cup {"started"}
        /\ LogsBefore("log_plan") \subseteq LogsBefore("log_packet") \cup {"packet"}
        /\ LogsBefore("browser") \subseteq LogsBefore("log_plan") \cup {"plan"}
        /\ {"started", "packet", "plan"} \subseteq LogKinds
        /\ {"log_started", "log_packet", "log_plan"} \subseteq Steps
    BY DEF LogsBefore, LogKinds, Steps
  <2>10. CASE AddLog(w, "started", "log_started", "read_selection")
    BY <2>6, <2>9, <2>10
  <2>11. CASE AddLog(w, "packet", "log_packet", "log_plan")
    BY <2>6, <2>9, <2>11
  <2>12. CASE AddLog(w, "plan", "log_plan", "browser")
    BY <2>6, <2>9, <2>12
  <2> QED
    BY <1>2, <2>4, <2>5, <2>7, <2>8, <2>10, <2>11, <2>12, PastStart
<1> QED
  BY <1>1, <1>2

\* Only a worker that has logged everything marks a run review_required.
LEMMA AuditStep ==
    ASSUME TypeOK, IdsExist, WorkersLog, ReviewIsAudited, [Next]_vars
    PROVE  ReviewIsAudited'
<1> SUFFICES ASSUME NEW r \in DOMAIN runs', runs'[r].status = "review_required"
             PROVE  {"started", "packet", "plan"} \subseteq runs'[r].logs
  BY DEF ReviewIsAudited
<1>1. r \in DOMAIN runs
  BY NewRunShape
<1>2. runs[r].logs \subseteq runs'[r].logs
  BY <1>1, RunsStep DEF RunsPersist, Keeps
<1>3. RunStep(r)
  BY <1>1, EveryRunStep
<1>4. CASE runs[r].status = "review_required"
  BY <1>1, <1>2, <1>4 DEF ReviewIsAudited
<1>5. ASSUME NEW w \in Workers, worker[w].step = "browser", worker[w].run = r
      PROVE  {"started", "packet", "plan"} \subseteq runs[r].logs
  BY <1>5 DEF WorkersLog, LogsBefore, LogKinds
<1> QED
  BY <1>2, <1>3, <1>4, <1>5 DEF RunStep

\* A run that has ended, once started, stays so.
LEMMA EndedStaysEnded ==
    ASSUME TypeOK, IdsExist, StartedRuns, [Next]_vars, NEW r \in DOMAIN runs,
           runs[r].startedAt, runs[r].status \in {"submitted", "failed"}
    PROVE  runs'[r].startedAt /\ runs'[r].status \in {"submitted", "failed"}
<1>1. runs'[r].startedAt
  BY RunsStep DEF RunsPersist, Keeps
<1> QED
  BY <1>1, ProgressStep DEF Successors

\* The handlers between the two statements of a submission.
LEMMA SubmittingStep ==
    ASSUME TypeOK, IdsExist, StartedRuns, SubmittingRuns, [Next]_vars
    PROVE  SubmittingRuns'
<1>1. ASSUME NEW r \in submitting
      PROVE  runs'[r].startedAt /\ runs'[r].status \in {"submitted", "failed"}
  BY EndedStaysEnded DEF IdsExist, SubmittingRuns
<1>2. ASSUME NEW q \in DOMAIN runs, SubmitRun(q)
      PROVE  SubmittingRuns'
  <2>0. runs' = [runs EXCEPT ![q].status = "submitted"] /\ "submitted" \in RunStatuses
    BY <1>2 DEF SubmitRun, RunStatuses
  <2>1. runs'[q].status = "submitted" /\ runs'[q].startedAt = runs[q].startedAt
    <3> DEFINE s == "submitted"
    <3>1. s \in RunStatuses /\ runs' = [runs EXCEPT ![q].status = s]
      BY <2>0
    <3> HIDE DEF s
    <3>2. /\ runs'[q].startedAt = runs[q].startedAt
          /\ runs'[q].status = IF q = q THEN s ELSE runs[q].status
      BY <3>1, StatusEffect
    <3> QED
      BY <3>2 DEF s
  <2>2. runs[q].startedAt
    BY <1>2 DEF SubmitRun, Submittable, StartedRuns
  <2>3. submitting' = submitting \cup {q}
    BY <1>2 DEF SubmitRun
  <2> QED
    BY <1>1, <2>1, <2>2, <2>3 DEF SubmittingRuns
<1>3. CASE submitting' \subseteq submitting
  BY <1>1, <1>3 DEF SubmittingRuns
<1> QED
  BY <1>2, <1>3
     DEF Next, vars, handoffVars, MarkApplicationReady, CreateInterview, StartDrafting,
         Approve, ChangeMaterials, Retry, PublishRequest, PublishLost,
         SubmitApplication, SubmitInterrupted, FailRun, Deliver, Process, GiveUp,
         StartRun, NotStartable, AddLog, PacketFails, FailAndNak, ReadSelection,
         LoadMaterials, BrowserFails, MarkReviewRequired, ReviewRefused, Ack,
         otherThanWorker

\* Submitted applications have a run that was started and has ended.
LEMMA SubmissionStep ==
    ASSUME TypeOK, IdsExist, StartedRuns, SubmittingRuns, SubmissionHasARun, [Next]_vars
    PROVE  SubmissionHasARun'
<1>1. ASSUME NEW a \in Applications, NEW r \in RunsOf(a),
             runs[r].startedAt, runs[r].status \in {"submitted", "failed"}
      PROVE  \E q \in DOMAIN runs' : /\ runs'[q].app = a /\ runs'[q].startedAt
                                     /\ runs'[q].status \in {"submitted", "failed"}
  <2>1. r \in DOMAIN runs /\ runs[r].app = a
    BY DEF RunsOf
  <2>2. r \in DOMAIN runs' /\ runs'[r].app = a
    BY <2>1, RunsStep DEF RunsPersist, Keeps
  <2> QED
    BY <1>1, <2>1, <2>2, EndedStaysEnded
<1>2. ASSUME NEW a \in everSubmitted'
      PROVE  \E q \in DOMAIN runs' : /\ runs'[q].app = a /\ runs'[q].startedAt
                                     /\ runs'[q].status \in {"submitted", "failed"}
  <2>1. CASE a \in everSubmitted
    BY <1>1, <2>1 DEF SubmissionHasARun, TypeOK
  <2>2. ASSUME NEW r \in DOMAIN runs, SubmitApplication(r), a = runs[r].app
        PROVE  \E q \in DOMAIN runs' : /\ runs'[q].app = a /\ runs'[q].startedAt
                                       /\ runs'[q].status \in {"submitted", "failed"}
    <3>1. runs[r].startedAt /\ runs[r].status \in {"submitted", "failed"}
      BY <2>2 DEF SubmitApplication, SubmittingRuns
    <3>2. a \in Applications /\ r \in RunsOf(a)
      BY <2>2, RunTypes DEF Run, RunsOf
    <3> QED
      BY <1>1, <3>1, <3>2
  <2>3. \/ everSubmitted' = everSubmitted
        \/ \E r \in DOMAIN runs : /\ SubmitApplication(r)
                                  /\ everSubmitted' = everSubmitted \cup {runs[r].app}
    BY DEF Next, vars, handoffVars, MarkApplicationReady, CreateInterview, StartDrafting,
         Approve, ChangeMaterials, Retry, PublishRequest, PublishLost, SubmitRun,
         SubmitApplication, SubmitInterrupted, FailRun, Deliver, Process, GiveUp,
         StartRun, NotStartable, AddLog, PacketFails, FailAndNak, ReadSelection,
         LoadMaterials, BrowserFails, MarkReviewRequired, ReviewRefused, Ack,
         otherThanWorker
  <2> QED
    BY <2>1, <2>2, <2>3
<1> QED
  BY <1>2 DEF SubmissionHasARun, RunsOf

\* An approval inserts a run only when no run of the application is active.
LEMMA OneActiveStep ==
    ASSUME TypeOK, IdsExist, StartedRuns, OneActiveRunPerApproval, [Next]_vars
    PROVE  OneActiveRunPerApproval'
<1>1. ASSUME NEW a, NEW r \in DOMAIN runs, r \in Unfinished(a)'
      PROVE  r \in Unfinished(a) /\ runs'[r].origin = runs[r].origin
  <2>1. Keeps(runs[r], runs'[r])
    BY RunsStep DEF RunsPersist
  <2>2. runs'[r].app = a /\ runs'[r].status \notin {"submitted", "failed"}
    BY <1>1 DEF Unfinished, RunsOf
  <2>3. runs[r].status \notin {"submitted", "failed"}
    BY <2>2, ProgressStep DEF Successors
  <2> QED
    BY <2>1, <2>2, <2>3 DEF Keeps, Unfinished, RunsOf
<1>2. ASSUME NEW a \in Applications, NEW q \in DOMAIN runs', q \notin DOMAIN runs,
             NEW r \in DOMAIN runs, q \in Unfinished(a)', r \in Unfinished(a)'
      PROVE  runs'[q].origin = "retry"
  <2>1. r \in Unfinished(a)
    BY <1>1, <1>2
  <2>2. r \in ReusableRuns(a)
    BY <2>1, RunTypes DEF Unfinished, ReusableRuns, RunsOf, Reusable, Run, RunStatuses
  <2>3. runs'[q].app = a
    BY <1>2 DEF Unfinished, RunsOf
  <2> QED
    BY <1>2, <2>2, <2>3, NewRunShape
<1>3. ASSUME NEW q \in DOMAIN runs', NEW r \in DOMAIN runs',
             q \notin DOMAIN runs, r \notin DOMAIN runs
      PROVE  q = r
  BY <1>3, NewRunStep
<1> SUFFICES ASSUME NEW a \in Applications, NEW r \in DOMAIN runs', NEW s \in DOMAIN runs',
                    r \in Unfinished(a)', s \in Unfinished(a)', r # s
             PROVE  "retry" \in {runs'[r].origin, runs'[s].origin}
  BY DEF OneActiveRunPerApproval, Unfinished, RunsOf
<1>4. CASE r \in DOMAIN runs /\ s \in DOMAIN runs
  BY <1>1, <1>4 DEF OneActiveRunPerApproval
<1>5. CASE r \in DOMAIN runs /\ s \notin DOMAIN runs
  BY <1>2, <1>5
<1>6. CASE r \notin DOMAIN runs /\ s \in DOMAIN runs
  BY <1>2, <1>6
<1> QED
  BY <1>3, <1>4, <1>5, <1>6

\* What is in the stream after a step: all that was, but for the acknowledged
\* message, and perhaps a new copy.
LEMMA StreamStep ==
    ASSUME TypeOK, [Next]_vars
    PROVE  \/ UNCHANGED <<published, unacked>>
           \/ \E r \in DOMAIN runs : \E msg :
                 /\ PublishRequest(r)
                 /\ msg.run = r
                 /\ published' = [published EXCEPT ![r] = @ + 1]
                 /\ unacked' = unacked \cup {msg}
           \/ \E w \in Workers : Ack(w)
<1>1. ASSUME NEW r \in DOMAIN runs, PublishRequest(r)
      PROVE  \/ UNCHANGED <<published, unacked>>
             \/ \E msg : /\ msg.run = r
                         /\ published' = [published EXCEPT ![r] = @ + 1]
                         /\ unacked' = unacked \cup {msg}
  <2> DEFINE new == [run |-> r, copy |-> published[r] + 1]
  <2>1. new.run = r
    OBVIOUS
  <2> QED
    BY <1>1, <2>1 DEF PublishRequest
<1> QED
  BY <1>1
     DEF Next, vars, handoffVars, MarkApplicationReady, CreateInterview, StartDrafting,
         Approve, ChangeMaterials, Retry, PublishLost, SubmitRun, SubmitApplication,
         SubmitInterrupted, FailRun, Deliver, Process, GiveUp, StartRun, NotStartable,
         AddLog, PacketFails, FailAndNak, ReadSelection, LoadMaterials, BrowserFails,
         MarkReviewRequired, ReviewRefused, otherThanWorker

\* A worker that is about to acknowledge, since this step or before, is done with its run.
LEMMA AnsweredStep ==
    ASSUME TypeOK, IdsExist, StartedRuns, AnsweredRuns, [Next]_vars
    PROVE  AnsweredRuns'
<1>1. ASSUME NEW w \in Workers, worker'[w].step = "ack"
      PROVE  runs'[worker'[w].run].status \notin {"requested", "started"}
  <2>1. /\ worker[w].step # "idle" /\ worker'[w].run = worker[w].run
        /\ worker[w].run \in DOMAIN runs
        /\ worker \in [Workers -> Worker] /\ worker[w] \in BusyWorker
    BY <1>1, WorkerRun, Busy DEF IdsExist, TypeOK
  <2>2. CASE worker'[w] = worker[w]
    <3>1. runs[worker[w].run].status \notin {"requested", "started"}
      BY <1>1, <2>2 DEF AnsweredRuns
    <3>2. runs[worker[w].run] \in Run
      BY <2>1, RunTypes
    <3> QED
      BY <2>1, <2>2, <3>1, <3>2, ProgressStep DEF Successors, Run, RunStatuses
  <2>3. CASE MarkReviewRequired(w)
    <3>1. runs' = [runs EXCEPT ![worker[w].run].status = "review_required"]
      BY <2>3 DEF MarkReviewRequired
    <3> DEFINE s == "review_required"
    <3>2. s \in RunStatuses /\ runs' = [runs EXCEPT ![worker[w].run].status = s]
      BY <3>1 DEF RunStatuses
    <3>3. s \notin {"requested", "started"}
      OBVIOUS
    <3> HIDE DEF s
    <3>4. runs'[worker[w].run].status =
              IF worker[w].run = worker[w].run THEN s ELSE runs[worker[w].run].status
      BY <2>1, <3>2, StatusEffect
    <3> QED
      BY <2>1, <3>3, <3>4
  <2>4. CASE StartRun(w)
    <3>1. worker'[w].step = "log_started"
      BY <2>4, MovesEffect DEF StartRun, Steps
    <3> QED
      BY <1>1, <3>1
  <2>5. ASSUME NEW kind \in LogKinds, NEW from \in Steps, NEW to, to # "ack",
               AddLog(w, kind, from, to)
        PROVE  FALSE
    BY <1>1, <2>5, MovesEffect DEF AddLog
  <2>6. CASE ReadSelection(w) \/ LoadMaterials(w)
    BY <1>1, <2>1, <2>6 DEF ReadSelection, LoadMaterials, BusyWorker
  <2>7. /\ {"started", "packet", "plan"} \subseteq LogKinds
        /\ {"log_started", "log_packet", "log_plan"} \subseteq Steps
    BY DEF LogKinds, Steps
  <2> QED
    BY <1>1, <2>2, <2>3, <2>4, <2>5, <2>6, <2>7, PastStart
<1>2. ASSUME NEW r \in RunIds \ DOMAIN runs'
      PROVE  published'[r] = 0
  <2>1. r \notin DOMAIN runs /\ published[r] = 0
    BY <1>2, RunsStep DEF RunsPersist, AnsweredRuns
  <2> QED
    BY <2>1, StreamStep DEF Ack, TypeOK
<1> QED
  BY <1>1, <1>2 DEF AnsweredRuns

\* A message leaves the stream by the acknowledgement of a worker that has seen the
\* run through; a run that is still to be done keeps the message it had.
LEMMA RequestsStep ==
    ASSUME TypeOK, IdsExist, StartedRuns, AnsweredRuns, RequestsAreKept, [Next]_vars
    PROVE  RequestsAreKept'
<1> SUFFICES ASSUME NEW r \in DOMAIN runs', runs'[r].status \in {"requested", "started"},
                    published'[r] > 0
             PROVE  \E msg \in unacked' : msg.run = r
  BY DEF RequestsAreKept
<1>1. CASE r \in DOMAIN runs
  <2>1. runs[r].status \in {"requested", "started"}
    BY <1>1, ProgressStep, RunTypes DEF Successors, Run, RunStatuses
  <2>2. CASE UNCHANGED <<published, unacked>>
    BY <1>1, <2>1, <2>2 DEF RequestsAreKept
  <2>3. ASSUME NEW q \in DOMAIN runs, NEW msg, msg.run = q,
               published' = [published EXCEPT ![q] = @ + 1],
               unacked' = unacked \cup {msg}
        PROVE  \E m \in unacked' : m.run = r
    <3>1. CASE q = r
      BY <2>3, <3>1
    <3>2. CASE q # r
      <4>1. published[r] > 0
        BY <2>3, <3>2 DEF TypeOK
      <4> QED
        BY <1>1, <2>1, <2>3, <4>1 DEF RequestsAreKept
    <3> QED
      BY <3>1, <3>2
  <2>4. ASSUME NEW w \in Workers, Ack(w)
        PROVE  \E m \in unacked' : m.run = r
    <3>1. /\ worker[w].run # r
          /\ UNCHANGED published
          /\ unacked' = unacked \ {[run |-> worker[w].run, copy |-> worker[w].copy]}
      BY <2>1, <2>4 DEF Ack, AnsweredRuns
    <3>2. PICK m \in unacked : m.run = r
      BY <1>1, <2>1, <3>1 DEF RequestsAreKept
    <3>3. m # [run |-> worker[w].run, copy |-> worker[w].copy]
      BY <3>1, <3>2
    <3> QED
      BY <3>1, <3>2, <3>3
  <2> QED
    BY <2>2, <2>3, <2>4, StreamStep
<1>2. CASE r \notin DOMAIN runs
  <2>1. r \in RunIds
    <3>1. runs' \in Seq(Run) /\ Len(runs') <= MaxRuns
      BY RunsStep DEF RunsPersist
    <3>2. Len(runs') \in Nat /\ DOMAIN runs' = 1 .. Len(runs')
      BY <3>1, LenProperties
    <3> QED
      BY <3>1, <3>2, HandoffBounds DEF RunIds
  <2>2. published[r] = 0
    BY <1>2, <2>1 DEF AnsweredRuns
  <2>3. UNCHANGED published
    BY <1>2, NewRunStep DEF Approve, Retry
  <2> QED
    BY <2>2, <2>3
<1> QED
  BY <1>1, <1>2

--------------------------------------------------------------------------------
(* The theorems.                                                           *)

\* The tables start empty.
LEMMA InvInit == Init => Inv
<1> SUFFICES ASSUME Init PROVE Inv
  OBVIOUS
<1>1. materials = <<>> /\ MaterialsTypeOK /\ OnlyHumansApprove
  BY MaterialsStart DEF Init, MaterialsInit
<1>2. /\ Len(materials) = 0 /\ runs = <<>> /\ Len(runs) = 0 /\ DOMAIN runs = {}
      /\ runs \in Seq(Run)
  BY <1>1, EmptySeq DEF Init
<1>3. TypeOK
  BY <1>1, <1>2, MaxMaterialsIsNat, HandoffBounds
     DEF Init, TypeOK, AppStatuses, Selection, NoSelection, Worker, None
<1>4. IdsExist /\ WorkersLog /\ StartedRuns
  BY <1>2 DEF Init, IdsExist, WorkersLog, StartedRuns, IdleWorker
<1>5. RunsNameApprovedMaterials /\ RunsHaveSelection /\ ReviewIsAudited
  BY <1>2 DEF RunsNameApprovedMaterials, RunsHaveSelection, ReviewIsAudited
<1>6. SelectionsAreApproved
  BY DEF Init, SelectionsAreApproved, IdleWorker
<1>7. PacketsOfApprovedRows
  BY DEF Init, PacketsOfApprovedRows, IdleWorker
<1>8. SubmittingRuns /\ SubmissionHasARun
  BY DEF Init, SubmittingRuns, SubmissionHasARun
<1>9. OneActiveRunPerApproval
  BY <1>2 DEF OneActiveRunPerApproval, Unfinished, RunsOf
<1>10. AnsweredRuns /\ RequestsAreKept
  BY <1>2 DEF Init, AnsweredRuns, RequestsAreKept, IdleWorker
<1> QED
  BY <1>1, <1>3, <1>4, <1>5, <1>6, <1>7, <1>8, <1>9, <1>10 DEF Inv

\* Inv is inductive.
LEMMA InvStep == Inv /\ [Next]_vars => Inv'
<1> SUFFICES ASSUME Inv, [Next]_vars PROVE Inv'
  OBVIOUS
<1> USE DEF Inv
<1>1. TypeOK' /\ OnlyHumansApprove'
  BY TypeStep, MaterialsApart, MaterialsStep DEF TypeOK
<1>2. IdsExist' /\ RunsNameApprovedMaterials' /\ RunsHaveSelection'
  BY IdsStep, RunsNameStep, RunsHaveSelectionStep
<1>3. SelectionsAreApproved' /\ PacketsOfApprovedRows'
  BY SelectionsStep, PacketsStep
<1>4. StartedRuns' /\ WorkersLog' /\ ReviewIsAudited'
  BY StartedStep, WorkersLogStep, AuditStep
<1>5. SubmittingRuns' /\ SubmissionHasARun' /\ OneActiveRunPerApproval'
  BY SubmittingStep, SubmissionStep, OneActiveStep
<1>6. AnsweredRuns' /\ RequestsAreKept'
  BY AnsweredStep, RequestsStep
<1> QED
  BY <1>1, <1>2, <1>3, <1>4, <1>5, <1>6

\* The inductive invariant holds in every reachable state.
THEOREM Invariance == Spec => []Inv
  BY InvInit, InvStep, PTL DEF Spec

\* Every variable keeps its type: no handler or worker stores an unknown status,
\* the id of a run that cannot exist or a packet of a worker that is idle.
THEOREM TypeCorrect == Spec => []TypeOK
<1>1. Inv => TypeOK
  BY DEF Inv
<1> QED
  BY <1>1, Invariance, PTL

\* Every run, however it was inserted, names materials of its application that
\* a human has approved.
THEOREM RunsNameApproved == Spec => []RunsNameApprovedMaterials
<1>1. Inv => RunsNameApprovedMaterials
  BY DEF Inv
<1> QED
  BY <1>1, Invariance, PTL

\* The worker finds a selected resume for every run there is.
THEOREM RunsAreSelected == Spec => []RunsHaveSelection
<1>1. Inv => RunsHaveSelection
  BY DEF Inv
<1> QED
  BY <1>1, Invariance, PTL

\* The packets that workers load are made of rows a human has approved.
THEOREM PacketsApproved == Spec => []PacketsOfApprovedRows
<1>1. Inv => PacketsOfApprovedRows
  BY DEF Inv
<1> QED
  BY <1>1, Invariance, PTL

\* A run waits for review only with its whole audit trail.
THEOREM ReviewsAudited == Spec => []ReviewIsAudited
<1>1. Inv => ReviewIsAudited
  BY DEF Inv
<1> QED
  BY <1>1, Invariance, PTL

\* An application that was ever submitted has a run that was started and ended.
THEOREM SubmissionsHaveRuns == Spec => []SubmissionHasARun
<1>1. Inv => SubmissionHasARun
  BY DEF Inv
<1> QED
  BY <1>1, Invariance, PTL

\* Only a retry gives an application a second unfinished run.
THEOREM OneActiveRun == Spec => []OneActiveRunPerApproval
<1>1. Inv => OneActiveRunPerApproval
  BY DEF Inv
<1> QED
  BY <1>1, Invariance, PTL

\* Until a run has an outcome, a request for it that was stored is still to be
\* delivered: no acknowledgement of another worker or of a copy loses it.
THEOREM RequestsKept == Spec => []RequestsAreKept
<1>1. Inv => RequestsAreKept
  BY DEF Inv
<1> QED
  BY <1>1, Invariance, PTL

\* No interleaving of users, retries, workers and redeliveries moves a run's
\* status backwards, past "started" or out of "failed".
THEOREM RunsProgress == Spec => RunProgress
<1>1. Inv /\ [Next]_vars =>
        [\A r \in DOMAIN runs :
            runs'[r].status \in {runs[r].status} \cup Successors[runs[r].status]]_runs
  BY ProgressStep DEF Inv
<1> QED
  BY <1>1, Invariance, PTL DEF Spec, RunProgress

================================================================================
