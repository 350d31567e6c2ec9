------------------------ MODULE MCApplicationMaterials ------------------------
(***************************************************************************)
(* Model values and symmetry for the TLC runs of ApplicationMaterials.     *)
(***************************************************************************)
EXTENDS ApplicationMaterials, TLC

\* Tuners run the same code, and contents are only compared with each other.
Symmetry == Permutations(Tuners) \cup Permutations(Contents)

================================================================================
