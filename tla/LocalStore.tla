----------------------------- MODULE LocalStore -----------------------------
(***************************************************************************)
(* main.cpp's handler: the block device served from one array in the         *)
(* server's own memory.  One thread, so a request is read, copied block by   *)
(* block and answered before the next one is looked at.  LocalServer adds    *)
(* the processes around it.                                                  *)
(***************************************************************************)
EXTENDS Integers, Sequences

CONSTANTS
  MaxReqs,  (* bound: requests the kernel issues in one run                 *)
  Blocks,   (* blocks of the array                                          *)
  Shapes    (* [type, first, len] requests, in blocks                       *)

Requests == 0 .. MaxReqs - 1

(* The array starts at block 0.  The driver asks for nothing outside the      *)
(* device, and a DISC asks for no block.                                     *)
ASSUME LocalAssumption ==
  /\ MaxReqs \in Nat
  /\ Blocks \subseteq Nat /\ \A b \in Blocks : 0 .. b \subseteq Blocks
  /\ Shapes \subseteq [type : {"READ", "WRITE", "DISC"}, first : Nat, len : Nat]
  /\ \A s \in Shapes : /\ s.first .. s.first + s.len - 1 \subseteq Blocks
                       /\ s.type = "DISC" => s.len = 0

VARIABLES
  nbdSock,   (* numbers of the requests written and not yet read            *)
  shape,     (* [Requests -> what the kernel asks]                          *)
  req,       (* the request Handle works on, or NoRequest                   *)
  copied,    (* blocks memcpy has copied                                    *)
  dataBuf,   (* [Blocks -> data]: its buffer                                *)
  storage,   (* [Blocks -> data]                                            *)
  answers    (* [Requests -> <<>> or <<the data of the reply written>>]     *)

storeVars == <<nbdSock, shape, req, copied, dataBuf, storage, answers>>

Payload(n, i) == <<n, i>>
Blank     == <<-1, 0>>
NoRequest == -1
NoShape   == [type |-> "NONE", first |-> 0, len |-> 0]
Issued(n) == shape[n] # NoShape

StoreInit ==
  /\ nbdSock = <<>> /\ req = NoRequest /\ copied = 0
  /\ shape = [n \in Requests |-> NoShape]
  /\ dataBuf = [i \in Blocks |-> Blank]
  /\ storage = [b \in Blocks |-> Blank]
  /\ answers = [n \in Requests |-> <<>>]

KernelIssues(n) ==
  /\ ~Issued(n) /\ \A m \in 0 .. n - 1 : Issued(m) /\ shape[m].type # "DISC"
  /\ \E s \in Shapes : shape' = [shape EXCEPT ![n] = s]
  /\ nbdSock' = Append(nbdSock, n)
  /\ UNCHANGED <<req, copied, dataBuf, storage, answers>>

(* Handle, first NbdRequestRead.                                             *)
NbdRequestRead ==
  /\ req = NoRequest /\ nbdSock # <<>>
  /\ req' = Head(nbdSock)
  /\ nbdSock' = Tail(nbdSock)
  /\ copied' = 0
  /\ dataBuf' = [i \in Blocks |-> IF shape[req'].type = "WRITE" THEN Payload(req', i)
                                  ELSE Blank]
  /\ UNCHANGED <<shape, storage, answers>>

(* Mutant of Memcpy: the offset of the request is forgotten.                  *)
Memcpy_NoOffset(s, i) ==
  /\ storage' = IF s.type = "WRITE" THEN [storage EXCEPT ![i] = dataBuf[i]] ELSE storage
  /\ dataBuf' = IF s.type = "READ" THEN [dataBuf EXCEPT ![i] = storage[i]] ELSE dataBuf

(* Block i of the switch's memcpy; other types copy nothing.                 *)
Memcpy(s, i) ==
  /\ storage' = IF s.type = "WRITE" THEN [storage EXCEPT ![s.first + i] = dataBuf[i]]
                ELSE storage
  /\ dataBuf' = IF s.type = "READ" THEN [dataBuf EXCEPT ![i] = storage[s.first + i]]
                ELSE dataBuf

Copy ==
  /\ req # NoRequest
  /\ copied < shape[req].len
  /\ Memcpy(shape[req], copied)
  /\ copied' = copied + 1
  /\ UNCHANGED <<nbdSock, shape, req, answers>>

(* Mutants of NbdRequestDone: the request is answered and kept; it is freed   *)
(* without a reply.                                                          *)
NbdRequestDone_Kept ==
  /\ req # NoRequest
  /\ copied = shape[req].len
  /\ answers' = [answers EXCEPT ![req] = Append(@, dataBuf)]
  /\ UNCHANGED <<nbdSock, shape, req, copied, dataBuf, storage>>

NbdRequestDone_NoReply ==
  /\ req # NoRequest
  /\ copied = shape[req].len
  /\ req' = NoRequest
  /\ UNCHANGED <<nbdSock, shape, copied, dataBuf, storage, answers>>

(* NbdRequestDone, whatever the type; a READ's reply has the buffer with it.  *)
NbdRequestDone ==
  /\ req # NoRequest
  /\ copied = shape[req].len
  /\ answers' = [answers EXCEPT ![req] = Append(@, dataBuf)]
  /\ req' = NoRequest
  /\ UNCHANGED <<nbdSock, shape, copied, dataBuf, storage>>

Handle == NbdRequestRead \/ Copy \/ NbdRequestDone
----------------------------------------------------------------------------
(* Properties.                                                               *)

Values == {Blank} \cup (Requests \X Blocks)

(* What the variables range over; a request is read once and answered at     *)
(* most once.                                                                *)
StoreTypeOK ==
  /\ nbdSock \in Seq(Requests)
  /\ shape \in [Requests -> Shapes \cup {NoShape}]
  /\ req \in Requests \cup {NoRequest}
  /\ req # NoRequest => copied \in 0 .. shape[req].len
  /\ dataBuf \in [Blocks -> Values]
  /\ storage \in [Blocks -> Values]
  /\ answers \in [Requests -> Seq([Blocks -> Values])]
  /\ \A n \in Requests : Len(answers[n]) <= 1

(* The array server implements the block device, a block taking effect when  *)
(* memcpy copies it.                                                         *)
Taken(n) ==
  IF answers[n] # <<>> THEN 0 .. shape[n].len - 1
  ELSE IF req = n THEN 0 .. copied - 1 ELSE {}

BdOps    == {[type |-> s.type, first |-> s.first, frags |-> s.len] : s \in Shapes}
BdOp     == [n \in Requests |-> [type |-> shape[n].type, first |-> shape[n].first,
                                 frags |-> shape[n].len]]
BdStatus == [n \in Requests |-> IF ~Issued(n) THEN "unused"
                                ELSE IF answers[n] = <<>> THEN "pending" ELSE "answered"]
BdTaken  == [n \in Requests |-> Taken(n)]
BdGot    == [n \in Requests |-> [i \in Blocks |->
               IF shape[n].type # "READ" \/ i \notin Taken(n) THEN Blank
               ELSE IF answers[n] # <<>> THEN Head(answers[n])[i] ELSE dataBuf[i]]]

BD == INSTANCE BlockDevice WITH
  Ops <- BdOps, mem <- storage, op <- BdOp, status <- BdStatus, taken <- BdTaken, got <- BdGot

RefinesBlockDevice == BD!Spec

(* What the last WRITE issued before request n put into block b.             *)
Writes(n, b) == {m \in 0 .. n - 1 : /\ shape[m].type = "WRITE"
                                    /\ b - shape[m].first \in 0 .. shape[m].len - 1}
Latest(S) == CHOOSE m \in S : \A k \in S : k <= m
LastWrite(n, b) ==
  IF Writes(n, b) = {} THEN Blank
  ELSE LET m == Latest(Writes(n, b)) IN Payload(m, b - shape[m].first)

(* The device is sequential: a READ returns, for each of its blocks, what the *)
(* last WRITE issued before it put there, however many requests were pending. *)
ReadsAreInOrder ==
  \A n \in Requests :
    shape[n].type = "READ" /\ answers[n] # <<>> =>
      \A i \in 0 .. shape[n].len - 1 :
        Head(answers[n])[i] = LastWrite(n, shape[n].first + i)
=============================================================================
