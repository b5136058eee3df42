---------------------------- MODULE MCCommandServer ----------------------------
(* Two slots and two connections at a time, a listen queue of one, and one    *)
(* forward of the first slot that fails.                                      *)
EXTENDS CommandServer

MCMaxFailures == <<1, 0>>
=============================================================================
