---------------------------- MODULE MCAtlasSingle ----------------------------
(* Instances of AtlasSingle for TLC.                                         *)
EXTENDS AtlasSingle

W(first, len) == [type |-> "WRITE", first |-> first, len |-> len]
R(first, len) == [type |-> "READ", first |-> first, len |-> len]
Disc == [type |-> "DISC", first |-> 0, len |-> 0]

TwoBlocks == {0, 1}
ShapesMix    == {W(0, 2), W(1, 1), R(0, 2), Disc}
ShapesWrites == {W(0, 2), W(0, 1)}

BothPrograms == [pool |-> 6, main |-> 2]
SmallPool    == [pool |-> 2]
=============================================================================
