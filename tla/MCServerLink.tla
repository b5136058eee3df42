------------------------------ MODULE MCServerLink ------------------------------
(* Two registers and three messages: one register, both registers in one       *)
(* command, and two commands with a value that has to be escaped.              *)
EXTENDS ServerLink

Reg(address, payload) == [type |-> 51, address |-> address, payload |-> payload]

MCRegisters == {12544, 12545}

MCMessages ==
  {<<Reg(12544, <<0, 1>>)>>, <<Reg(12544, <<1, 2, 3, 4>>)>>,
   <<Reg(12544, <<16, 2>>), Reg(12545, <<0, 3>>)>>}
=============================================================================
