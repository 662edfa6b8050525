--------------------------- MODULE MCNumbaParity ---------------------------
(* The markets and actions of MCEngineCore, and encoded rows with codes the *)
(* decoder of the Python path would refuse, one of them wider than an int8. *)
EXTENDS NumbaParity, MCEngineCore

Coded(side, units, type, limit) ==
  [side |-> side, units |-> units, type |-> type, limit |-> limit]
MCCodedRows == {Coded(0, 0, 0, NoPrice), Coded(1, 3, 0, NoPrice), Coded(-1, 3, 0, NoPrice),
                Coded(1, 2, 1, 3), Coded(-1, 2, 1, NoPrice), Coded(2, 1, 0, NoPrice),
                Coded(-1, 1, 2, 5), Coded(1, 0, 0, NoPrice), Coded(300, 1, 0, NoPrice)}
\* Rows that rest: one of each side and one of no side.
MCRestingRows == {Coded(1, 2, 1, 1), Coded(-1, 2, 1, 9), Coded(2, 1, 1, 5)}
=============================================================================
