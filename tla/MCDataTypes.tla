---------------------------- MODULE MCDataTypes ----------------------------
(* A small instance of DataTypes. *)
EXTENDS DataTypes

MCElems == 0 .. 3
MCFields == {0, 1}
MCFinite == {0, 1}
MCI64 == -2 .. 1
MCNegInf == -9
MCPosInf == 9
=============================================================================
