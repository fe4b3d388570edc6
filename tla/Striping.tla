------------------------------ MODULE Striping ------------------------------
(***************************************************************************)
(* The address arithmetic of RequestHost: how a byte range of the block    *)
(* device is cut into fragments, which IoT node serves a fragment and at    *)
(* which byte of that node's store it lives.  Create, Distribute and        *)
(* SendMsgWrapper compute with these formulas; nothing here has state.      *)
(***************************************************************************)
EXTENDS Integers

CONSTANTS
  FragSize,    (* Consts::frag_size, 1024 in the code                       *)
  NumIot,      (* Consts::num_of_iot, 8 in the code                         *)
  Word,        (* 2^32: the values of uint32_t are 0 .. Word - 1            *)
  StorageSize  (* bytes of the device handed to NbdDevOpen, 2^28 in the code *)

ASSUME StripingAssumption ==
  /\ FragSize \in Nat \ {0}
  /\ NumIot \in Nat \ {0}
  /\ Word \in Nat \ {0}
  /\ StorageSize \in Nat
  /\ StorageSize <= Word

(* The fragments of the device: block k holds bytes k*FragSize onwards.     *)
Blocks == 0 .. (StorageSize \div FragSize) - 1

(* dataLen / frag_size: the fragments of a request.                         *)
NumFrags(dataLen) == dataLen \div FragSize

(* offset / frag_size: the first block a request touches.                   *)
FirstFrag(offset) == offset \div FragSize

(* The tasks of a request, one per node it touches.                         *)
NumTasks(dataLen) ==
  IF NumFrags(dataLen) < NumIot THEN NumFrags(dataLen) ELSE NumIot

(* first_frag_indx % num_of_iot: the node that serves block k.              *)
IotOf(k) == k % NumIot

(* first_frag_indx*frag_size/num_of_iot in uint32_t: int * uint32_t is      *)
(* computed modulo 2^32 and only then divided.                              *)
IotOffset(k) == ((k * FragSize) % Word) \div NumIot

(* Two fragments of FragSize bytes each share a byte.                       *)
Overlap(off1, off2) == off1 < off2 + FragSize /\ off2 < off1 + FragSize
=============================================================================
