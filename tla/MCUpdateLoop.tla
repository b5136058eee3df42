----------------------------- MODULE MCUpdateLoop -----------------------------
(* Small instances of UpdateLoop.  Timeouts keep the order of the code's      *)
(* (0 < 60 < 600 = 600 seconds) on a short clock.  What is written is the     *)
(* clock, the second thing that a read function asks for.                     *)
EXTENDS UpdateLoop

CodeTimeout == [f \in Flags |-> CASE f = TR -> 0 [] f = SR -> 1 [] OTHER -> 2]
EarlyTimeout == [f \in Flags |-> 0]
NoFaults == {}
AllFaults == FaultKinds
Setting == {"RTC"}
=============================================================================
