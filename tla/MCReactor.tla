------------------------------ MODULE MCReactor ------------------------------
(* Instances of Reactor for TLC.  Descriptors 0 to 2 belong to the standard  *)
(* streams.                                                                  *)
EXTENDS Reactor

ThreeFds == {3, 4, 6}
=============================================================================
