----------------------------- MODULE MCClientQueue -----------------------------
(* Small instances of ClientQueue: a queue of two or three messages takes the *)
(* place of fifty, so that a few messages fill it.                            *)
EXTENDS ClientQueue
=============================================================================
