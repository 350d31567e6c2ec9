---------------------------- MODULE MCSourceScheduler ---------------------------
(***************************************************************************)
(* Two sources for TLC, one run again and again and one whose interval is  *)
(* less than a second; and a configuration that the first has left, and    *)
(* that switches the second off.                                           *)
(***************************************************************************)
EXTENDS SourceScheduler

MCInterval == [s \in Sources |-> IF s = "hourly" THEN 2 ELSE 0]

Both == [known |-> Sources, scheduled |-> [s \in Sources |-> TRUE]]
Reduced == [known |-> {"often"}, scheduled |-> [s \in {"often"} |-> FALSE]]
MCConfigs == {Both, Reduced}

================================================================================
