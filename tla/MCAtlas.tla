------------------------------ MODULE MCAtlas -------------------------------
(* Instances of Atlas for TLC: two nodes, fragments of two bytes, a device   *)
(* of four blocks, a few overlapping requests.                               *)
EXTENDS AtlasInv, TLC

W(offset, len) == [type |-> "WRITE", offset |-> offset, dataLen |-> len]
R(offset, len) == [type |-> "READ", offset |-> offset, dataLen |-> len]
Disc == [type |-> "DISC", offset |-> 0, dataLen |-> 0]

ShapesFew  == {W(0, 6), R(2, 4)}
ShapesDisc == ShapesFew \cup {Disc}

Threads == Permutations(Workers)
=============================================================================
