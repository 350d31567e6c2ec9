--------------------------- MODULE ReviewedMaterials ---------------------------
(***************************************************************************)
(* What the drafting and the review of application materials promise to    *)
(* the rest of the system: the table application_materials as seen by the  *)
(* automation handoff.  Documents, events and workers are abstracted away; *)
(* ApplicationMaterials implements this specification with them.           *)
(***************************************************************************)
EXTENDS Naturals, Sequences

CONSTANTS
    Applications,   \* application ids (one application per job)
    MaxMaterials    \* bound: rows ever inserted into application_materials

ASSUME MaxMaterialsIsNat == MaxMaterials \in Nat

Kinds == {"resume", "cover_letter", "application_answers"}

\* The handoff tells "approved" from everything else ("draft", "rejected",
\* "needs_changes", "regeneration_requested"), which is "pending" here.
ReviewStatuses == {"pending", "approved"}

VARIABLES
    materials,      \* application_materials, indexed by the autoincrement id
    drafting,       \* applications whose drafting has begun and is not over
    everApproved    \* history: ids of rows a human has approved at least once

materialVars == <<materials, drafting, everApproved>>

Material == [app : Applications, kind : Kinds, status : ReviewStatuses]

MaterialsTypeOK ==
    /\ materials \in Seq(Material)
    /\ drafting \subseteq Applications
    /\ everApproved \subseteq DOMAIN materials

MaterialsInit ==
    /\ materials = <<>>
    /\ drafting = {}
    /\ everApproved = {}

--------------------------------------------------------------------------------

\* The tuning worker has read the application and starts writing drafts.
BeginDrafting(a) ==
    /\ drafting' = drafting \cup {a}
    /\ UNCHANGED <<materials, everApproved>>

\* The tuning worker is done with an application, or gave up.
EndDrafting(a) ==
    /\ drafting' = drafting \ {a}
    /\ UNCHANGED <<materials, everApproved>>

\* CreateApplicationMaterial, for an event that has no row of this kind yet.
InsertDraft(a, k) ==
    /\ a \in drafting
    /\ Len(materials) < MaxMaterials
    /\ materials' = Append(materials, [app |-> a, kind |-> k, status |-> "pending"])
    /\ UNCHANGED <<drafting, everApproved>>

\* CreateApplicationMaterial, for a redelivered event: the row gets a new
\* document and is a draft again, whatever a human decided about it.
ReplaceDraft(m) ==
    /\ materials[m].app \in drafting
    /\ materials' = [materials EXCEPT ![m].status = "pending"]
    /\ UNCHANGED <<drafting, everApproved>>

\* POST /api/review/materials/{id}/status: any status at any time.
ReviewMaterial(m, s) ==
    /\ materials' = [materials EXCEPT ![m].status = s]
    /\ everApproved' = IF s = "approved" THEN everApproved \cup {m} ELSE everApproved
    /\ UNCHANGED drafting

MaterialsNext ==
    \/ \E a \in Applications : BeginDrafting(a) \/ EndDrafting(a)
    \/ \E a \in Applications, k \in Kinds : InsertDraft(a, k)
    \/ \E m \in DOMAIN materials :
          \/ ReplaceDraft(m)
          \/ \E s \in ReviewStatuses : ReviewMaterial(m, s)

MaterialsSpec == MaterialsInit /\ [][MaterialsNext]_materialVars

--------------------------------------------------------------------------------

\* A row is approved only if a human approved it: no drafting step, first or
\* repeated, leaves or makes a row approved.
OnlyHumansApprove ==
    \A m \in DOMAIN materials : materials[m].status = "approved" => m \in everApproved

================================================================================
