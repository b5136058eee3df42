------------------------------- MODULE MCModbusTcp -------------------------------
(* One slot and as many callers that one is turned away; a table with a            *)
(* gap, of which two registers fit in an answer: a request for two registers that  *)
(* are there, one over the gap, one for nothing, whose last address wraps, and     *)
(* one that finds the entry behind the table.                                      *)
EXTENDS ModbusTcp

MCRegisters == <<12544, 12545, 12547>>
MCRequests == {<<12544, 2>>, <<12545, 2>>, <<0, 0>>, <<65535, 1>>}
=============================================================================
