---------------------------- MODULE MCModbusMaster ----------------------------
(* Small instances of ModbusMaster: four requests and a few faults are enough  *)
(* for an answer to lag two requests behind, two retries for the twenty.       *)
EXTENDS ModbusMaster
=============================================================================
