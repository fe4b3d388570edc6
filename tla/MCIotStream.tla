----------------------------- MODULE MCIotStream -----------------------------
(* Instances of IotStream for TLC.  The halves of one uid may be those of     *)
(* another, as when more than 2^8 requests or 2^16 have been made.            *)
EXTENDS IotStream

ThreeUids == {<<"0", "0">>, <<"1", "0">>, <<"1", "1">>}
=============================================================================
