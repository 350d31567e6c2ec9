------------------------ MODULE ReviewedMaterialsProofs ------------------------
(***************************************************************************)
(* Proofs about ReviewedMaterials: types, who approves, and what every     *)
(* step preserves of the rows that exist.                                  *)
(***************************************************************************)
EXTENDS ReviewedMaterials, SequenceFacts, TLAPS

\* The rows that exist keep their id, application and kind, and the record of
\* approvals only grows.
MaterialsPersist ==
    /\ DOMAIN materials \subseteq DOMAIN materials'
    /\ \A m \in DOMAIN materials : /\ materials'[m].app = materials[m].app
                                   /\ materials'[m].kind = materials[m].kind
    /\ everApproved \subseteq everApproved'

\* One step: types and OnlyHumansApprove are preserved and rows persist.
LEMMA MaterialsStep ==
    ASSUME MaterialsTypeOK, OnlyHumansApprove, [MaterialsNext]_materialVars
    PROVE  MaterialsTypeOK' /\ OnlyHumansApprove' /\ MaterialsPersist
<1> USE DEF MaterialsTypeOK, OnlyHumansApprove, MaterialsPersist
<1>1. ASSUME NEW a \in Applications, BeginDrafting(a)
      PROVE  MaterialsTypeOK' /\ OnlyHumansApprove' /\ MaterialsPersist
  BY <1>1 DEF BeginDrafting
<1>2. ASSUME NEW a \in Applications, EndDrafting(a)
      PROVE  MaterialsTypeOK' /\ OnlyHumansApprove' /\ MaterialsPersist
  BY <1>2 DEF EndDrafting
<1>3. ASSUME NEW a \in Applications, NEW k \in Kinds, InsertDraft(a, k)
      PROVE  MaterialsTypeOK' /\ OnlyHumansApprove' /\ MaterialsPersist
  <2> DEFINE new == [app |-> a, kind |-> k, status |-> "pending"]
  <2>1. new \in Material
    BY DEF Material, ReviewStatuses
  <2>2. materials' = Append(materials, new) /\ UNCHANGED <<drafting, everApproved>>
    BY <1>3 DEF InsertDraft
  <2>3. /\ materials' \in Seq(Material)
        /\ DOMAIN materials' = DOMAIN materials \cup {Len(materials) + 1}
        /\ materials'[Len(materials) + 1] = new
        /\ \A m \in DOMAIN materials : materials'[m] = materials[m]
    BY <2>1, <2>2, ExtendSeq
  <2> QED
    BY <2>2, <2>3
<1>4. ASSUME NEW m \in DOMAIN materials, NEW s \in ReviewStatuses,
             materials' = [materials EXCEPT ![m].status = s],
             UNCHANGED drafting,
             \/ s = "pending" /\ UNCHANGED everApproved
             \/ s = "approved" /\ everApproved' = everApproved \cup {m}
      PROVE  MaterialsTypeOK' /\ OnlyHumansApprove' /\ MaterialsPersist
  <2> DEFINE new == [materials[m] EXCEPT !.status = s]
  <2>1. materials[m] \in Material
    BY ElementOfSeq, LenProperties
  <2>2. /\ new \in Material /\ new.status = s
        /\ new.app = materials[m].app /\ new.kind = materials[m].kind
    BY <2>1 DEF Material
  <2>3. materials' = [materials EXCEPT ![m] = new]
    BY <1>4
  <2>4. /\ materials' \in Seq(Material)
        /\ DOMAIN materials' = DOMAIN materials
        /\ materials'[m] = new
        /\ \A n \in DOMAIN materials : n # m => materials'[n] = materials[n]
    BY <2>2, <2>3, UpdateSeq
  <2> QED
    BY <2>2, <2>4, <1>4
<1>5. ASSUME NEW m \in DOMAIN materials, ReplaceDraft(m)
      PROVE  MaterialsTypeOK' /\ OnlyHumansApprove' /\ MaterialsPersist
  BY <1>4, <1>5 DEF ReplaceDraft, ReviewStatuses
<1>6. ASSUME NEW m \in DOMAIN materials, NEW s \in ReviewStatuses, ReviewMaterial(m, s)
      PROVE  MaterialsTypeOK' /\ OnlyHumansApprove' /\ MaterialsPersist
  BY <1>4, <1>6 DEF ReviewMaterial, ReviewStatuses
<1>7. CASE UNCHANGED materialVars
  BY <1>7 DEF materialVars
<1> QED
  BY <1>1, <1>2, <1>3, <1>5, <1>6, <1>7 DEF MaterialsNext

\* MaterialsInit establishes the types and OnlyHumansApprove.
LEMMA MaterialsStart == MaterialsInit => MaterialsTypeOK /\ OnlyHumansApprove
  BY EmptySeq DEF MaterialsInit, MaterialsTypeOK, OnlyHumansApprove

\* Whatever tuners and reviewers do, a row is approved only if a human approved
\* it.
THEOREM OnlyHumansApproveAlways == MaterialsSpec => []OnlyHumansApprove
<1>1. MaterialsInit => MaterialsTypeOK /\ OnlyHumansApprove
  BY MaterialsStart
<1>2. MaterialsTypeOK /\ OnlyHumansApprove /\ [MaterialsNext]_materialVars
        => (MaterialsTypeOK /\ OnlyHumansApprove)'
  BY MaterialsStep
<1> QED
  BY <1>1, <1>2, PTL DEF MaterialsSpec

================================================================================
