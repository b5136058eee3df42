------------------------------- MODULE MCLifecycle -------------------------------
(* The display's thread and a handler beside main: enough for two of them to       *)
(* construct an instance before main's is assigned, and for all three to ask at    *)
(* once afterwards.                                                                *)
EXTENDS Lifecycle
=============================================================================
