------------------------- MODULE MCAutomationHandoff -------------------------
(***************************************************************************)
(* Model values and symmetry for the TLC runs of AutomationHandoff.        *)
(***************************************************************************)
EXTENDS AutomationHandoff, TLC

\* Workers run the same code and applications are told apart by nothing.
Symmetry == Permutations(Workers) \cup Permutations(Applications)

================================================================================
