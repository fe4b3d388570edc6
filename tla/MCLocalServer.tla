---------------------------- MODULE MCLocalServer ----------------------------
(* Instances of LocalServer for TLC.                                         *)
EXTENDS LocalServer

ThreeBlocks == {0, 1, 2}
ShapesAll ==
  {[type |-> t, first |-> f, len |-> l] : t \in {"READ", "WRITE"}, f \in {0, 1}, l \in {1, 2}}
    \cup {[type |-> "DISC", first |-> 0, len |-> 0]}
=============================================================================
