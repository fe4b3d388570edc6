----------------------------- MODULE BlockDevice ----------------------------
(***************************************************************************)
(* What the cloud promises to the kernel's nbd driver: a block device.      *)
(* main.cpp is this promise in its simplest form, one array and a memcpy    *)
(* between NbdRequestRead and NbdRequestDone.  Here several requests may be *)
(* pending at once and each of their fragments takes effect at one moment   *)
(* of its own, somewhere between the request and its answer.                *)
(***************************************************************************)
EXTENDS Integers

CONSTANTS
  Requests,  (* request numbers, in the order the kernel issues them        *)
  Ops,       (* what a request may ask: [type, first, frags] records        *)
  Blocks,    (* block numbers of the device                                 *)
  Blank      (* what a block holds before anything was written to it        *)

VARIABLES
  mem,     (* [Blocks -> contents]                                          *)
  op,      (* [Requests -> Ops \cup {NoOp}]                                 *)
  status,  (* [Requests -> {"unused", "pending", "answered"}]               *)
  taken,   (* [Requests -> fragments that have taken effect]                *)
  got      (* [Requests -> [Blocks -> data a READ has collected]]           *)

bdVars == <<mem, op, status, taken, got>>

NoOp == [type |-> "NONE", first |-> 0, frags |-> 0]

Fragments(r) == 0 .. op[r].frags - 1

(* The bytes request r carries for its fragment f.                           *)
Payload(r, f) == <<r, f>>

Init ==
  /\ mem = [b \in Blocks |-> Blank]
  /\ op = [r \in Requests |-> NoOp]
  /\ status = [r \in Requests |-> "unused"]
  /\ taken = [r \in Requests |-> {}]
  /\ got = [r \in Requests |-> [f \in Blocks |-> Blank]]

(* The kernel hands request r to the device.                                 *)
Issue(r) ==
  /\ status[r] = "unused"
  /\ status' = [status EXCEPT ![r] = "pending"]
  /\ \E o \in Ops : op' = [op EXCEPT ![r] = o]
  /\ UNCHANGED <<mem, taken, got>>

(* Fragment f of a pending WRITE reaches its block.                          *)
WriteEffect(r, f) ==
  /\ status[r] = "pending"
  /\ op[r].type = "WRITE"
  /\ f \in Fragments(r) \ taken[r]
  /\ taken' = [taken EXCEPT ![r] = @ \cup {f}]
  /\ mem' = [mem EXCEPT ![op[r].first + f] = Payload(r, f)]
  /\ UNCHANGED <<op, status, got>>

(* Fragment f of a pending READ is taken from its block.                     *)
ReadEffect(r, f) ==
  /\ status[r] = "pending"
  /\ op[r].type = "READ"
  /\ f \in Fragments(r) \ taken[r]
  /\ taken' = [taken EXCEPT ![r] = @ \cup {f}]
  /\ got' = [got EXCEPT ![r][f] = mem[op[r].first + f]]
  /\ UNCHANGED <<op, status, mem>>

(* A request is answered once all its fragments took effect.                 *)
Answer(r) ==
  /\ status[r] = "pending"
  /\ taken[r] = Fragments(r)
  /\ status' = [status EXCEPT ![r] = "answered"]
  /\ UNCHANGED <<mem, op, taken, got>>

Next ==
  \E r \in Requests :
    \/ Issue(r)
    \/ Answer(r)
    \/ \E f \in Fragments(r) : WriteEffect(r, f) \/ ReadEffect(r, f)

Spec == Init /\ [][Next]_bdVars
=============================================================================
