---------------------------- MODULE MCMessageBuffer ----------------------------
(* Registers and coils whose addresses and values are made of control bytes.  *)
EXTENDS MessageBuffer

MCCommands ==
  [type : {51}, address : {4096, 4112, 1283, 12544}, payload : {<<>>, <<16, 2>>, <<3, 16>>, <<16, 16, 5>>}]
    \cup [type : {52}, address : {528}, payload : {<<1>>, <<16, 4, 16, 5>>}]
=============================================================================
