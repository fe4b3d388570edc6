------------------------------ MODULE AtlasInv ------------------------------
(***************************************************************************)
(* The inductive invariant of Atlas.  Its parts say what the properties     *)
(* leave out: who still has what to send, what the messages on the sockets  *)
(* are, and how the loop's running values relate to Distribute's formulas.  *)
(***************************************************************************)
EXTENDS Atlas

(* The block of the device that fragment f of request n is.                  *)
BlockOf(n, f) == FirstFrag(nbdReq[n].offset) + f

(* Two SendMsgInfos whose loops visit the same fragments.                    *)
SameStrand(i, j) == i.uid = j.uid /\ i.frag % NumIot = j.frag % NumIot

(* No task or worker will send fragment f of request n any more.             *)
NotPending(n, f) ==
  /\ \A t \in tasks : ~WillSend(t, n, f)
  /\ \A w \in Workers : Busy(w) => ~WillSend(info[w], n, f)

(* Each strand of a request is in the hands of one task or one worker.       *)
OneHolder ==
  /\ \A t, u \in tasks : SameStrand(t, u) => t = u
  /\ \A t \in tasks, w \in Workers : Busy(w) => ~SameStrand(t, info[w])
  /\ \A v, w \in Workers : Busy(v) /\ Busy(w) /\ SameStrand(info[v], info[w]) => v = w

(* A SendMsgInfo belongs to a request that was read, its buffer is the one   *)
(* of its fragment, its socket and (inside the device) its offset are those  *)
(* of its block.                                                             *)
Addressed(i) ==
  LET b == BlockOf(i.uid, i.frag) IN
    /\ i.uid < reqUid
    /\ i.buf = i.frag
    /\ i.type = nbdReq[i.uid].type
    /\ i.sock = IotOf(b) + 1
    /\ b \in Blocks => i.off = IotOffset(b)

HoldersAddressed ==
  /\ \A t \in tasks : Addressed(t)
  /\ \A w \in Workers : Busy(w) => Addressed(info[w])

(* A worker sends only for blocks of the device.                             *)
SendsInDevice ==
  \A w \in Workers :
    pc[w] = "send" => BlockOf(info[w].uid, info[w].frag) \in Blocks

(* A message on a socket is about a fragment nobody will send again.         *)
Sent(q) ==
  \A k \in 1 .. Len(q) : q[k].uid < reqUid /\ NotPending(q[k].uid, q[k].frag)

SentOnce == \A s \in IotSocks : Sent(toIot[s]) /\ Sent(fromIot[s])

(* An acknowledged fragment will not be sent again.                          *)
AcknowledgedOnce ==
  \A n \in 0 .. reqUid - 1 : \A f \in Frags(n) \ fragSet[n] : NotPending(n, f)

(* A request is released when and only when all fragments are acknowledged,  *)
(* and that is when it is answered.                                          *)
ReleasedWhenDone ==
  /\ \A n \in 0 .. reqUid - 1 : n \notin active => fragSet[n] = {}
  /\ \A n \in Requests :
       replies[n] = IF n < reqUid /\ n \notin active THEN 1 ELSE 0

(* The buffer of a WRITE still holds what the kernel sent.                   *)
WriteBuffersIntact ==
  \A n \in 0 .. reqUid - 1 :
    nbdReq[n].type = "WRITE" => \A f \in Blocks : dataBuf[n][f] = Payload(n, f)

(* Requests the server has read are the kernel's.                            *)
RequestsAreShapes ==
  \A n \in Requests : nbdReq[n] \in IF n < reqUid THEN Shapes ELSE {NoReq}

IInv ==
  /\ TypeOK
  /\ RequestsAreShapes
  /\ OneHolder
  /\ HoldersAddressed
  /\ SendsInDevice
  /\ SentOnce
  /\ AcknowledgedOnce
  /\ ReleasedWhenDone
  /\ WriteBuffersIntact
  /\ CommandsAddressed

(* What the accounting of the fragments and the implementation of the block  *)
(* device need in addition.                                                  *)

(* Nodes do not answer into a full connection.                               *)
RepliesFit == \A s \in IotSocks : Len(fromIot[s]) <= SockCap

(* Commands are of the type of their request.                                *)
CommandsTyped ==
  \A s \in IotSocks : \A k \in 1 .. Len(toIot[s]) :
    toIot[s][k].type = nbdReq[toIot[s][k].uid].type

(* If reading released memory never looks like more work, workers send, and   *)
(* sockets carry, only fragments of the requests they name.                  *)
OwnFragments ==
  "more" \notin StaleRead =>
    /\ \A w \in Workers : pc[w] = "send" => info[w].frag \in Frags(info[w].uid)
    /\ \A s \in IotSocks :
         /\ \A k \in 1 .. Len(toIot[s]) : toIot[s][k].frag \in Frags(toIot[s][k].uid)
         /\ \A k \in 1 .. Len(fromIot[s]) : fromIot[s][k].frag \in Frags(fromIot[s][k].uid)

Accounts ==
  /\ FragmentsAccountedFor
  /\ FaultsHaveACause
  /\ RepliesFit
  /\ CommandsTyped
  /\ OwnFragments

FullInv == IInv /\ Accounts
=============================================================================
