---------------------------- MODULE MCMemoryMirror ----------------------------
(* A block of two registers, which also are a 32 bit register; a register of   *)
(* its own after a gap, which displays are shown with the block and which is   *)
(* outside the range sent every minute; one entry in the tables that are read  *)
(* in one piece.                                                               *)
EXTENDS MemoryMirror

MCList ==
  [eReg |-> <<1, 2, 4>>, eCoil |-> <<>>, eDiscInp |-> <<>>, eDevInfo |-> <<1, 2>>,
   eUserReg |-> <<7>>, eUserCoil |-> <<3>>]
MCBlocks == {<<1, 2>>}
MCShown == {<<1, 4>>}
MCWide == {1}
MCRealtime == <<<<1, 2>>>>
MCUserRealtime == [eUserReg |-> <<7, 8>>, eUserCoil |-> <<3, 8>>]
=============================================================================
