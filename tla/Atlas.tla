-------------------------------- MODULE Atlas -------------------------------
(***************************************************************************)
(* The atlas_iots server: one reactor thread (RequestDispatcher and         *)
(* RequestHost), the pool workers that run RequestHost::SendMsgWrapper, the *)
(* kernel's nbd driver on one side and the IoT nodes on the other.          *)
(*                                                                         *)
(* Sockets are numbered as in the array socfd of atlas_iots.cpp: 0 is the   *)
(* nbd socket, i + 1 the connection to node i.  A request is named by the   *)
(* number RequestHost::Create gives it, which is also the order in which    *)
(* the kernel issued it, the nbd socket being a FIFO.                       *)
(*                                                                         *)
(* Grain.  Both reactor handlers run to completion on one thread and touch  *)
(* what the workers see only by queueing tasks and by releasing the         *)
(* request, so each is one action.  A worker's life is cut where the        *)
(* reactor can come between: at the loop test, which reads the request's    *)
(* memory, and at sendmsg.                                                  *)
(***************************************************************************)
EXTENDS Striping, Sequences

CONSTANTS
  MaxReqs,    (* bound: requests the kernel issues in one run               *)
  Shapes,     (* the [type, offset, dataLen] requests it chooses from       *)
  Workers,    (* the pool's threads                                         *)
  SockCap,    (* messages a socket buffers in one direction                 *)
  Closable,   (* sockets whose peer may close the connection                *)
  StaleRead   (* what reading a released request's dataLen can come to:     *)
              (* "done", "more" or "fault"                                  *)

NbdSock  == 0
IotSocks == 1 .. NumIot
Requests == 0 .. MaxReqs - 1

(* A request always lies on whole fragments inside the device, because      *)
(* NbdDevOpen sets the block size (1024) and the size of the device.  A      *)
(* DISC, which the driver sends when the device is disconnected, is empty.   *)
InDevice(s) ==
  /\ s.offset \in Nat /\ s.dataLen \in Nat
  /\ s.offset % FragSize = 0 /\ s.dataLen % FragSize = 0
  /\ s.offset + s.dataLen <= StorageSize
  /\ (s.dataLen = 0) <=> (s.type = "DISC")

ASSUME AtlasAssumption ==
  /\ MaxReqs \in Nat
  /\ Shapes \subseteq [type : {"READ", "WRITE", "DISC"}, offset : Nat, dataLen : Nat]
  /\ \A s \in Shapes : InDevice(s)
  /\ SockCap \in Nat \ {0}
  /\ Closable \subseteq IotSocks \cup {NbdSock}
  /\ StaleRead \subseteq {"done", "more", "fault"}

VARIABLES
  nbdSock,   (* requests the kernel has written and the server not yet read *)
  reqUid,    (* the static req_uid of RequestHost::Create                    *)
  nbdReq,    (* [Requests -> the NbdRequest of the host]                     *)
  dataBuf,   (* [Requests -> [Blocks -> data]]: its dataBuf, by fragment     *)
  fragSet,   (* [Requests -> fragmentation_set]                              *)
  active,    (* keys of m_activeRequests; a host not in it is destroyed      *)
  replies,   (* [Requests -> nbd replies written for it]                     *)
  tasks,     (* SendMsgInfo of the tasks in the pool's queue                 *)
  pc,        (* [Workers -> {"dequeue", "test", "send"}]                     *)
  info,      (* [Workers -> the SendMsgInfo it works on]                     *)
  toIot,     (* [IotSocks -> commands on their way to the node]              *)
  fromIot,   (* [IotSocks -> replies on their way to the server]             *)
  store,     (* [IotSocks -> [byte offset -> data]]: the nodes' memories     *)
  closed,    (* sockets whose peer is gone                                   *)
  fault      (* what stopped the server process, or "none"                   *)

reqVars    == <<reqUid, nbdReq, dataBuf, fragSet, active, replies>>
workerVars == <<tasks, pc, info>>
iotVars    == <<toIot, fromIot, store>>
vars == <<nbdSock, reqVars, workerVars, iotVars, closed, fault>>

----------------------------------------------------------------------------
(* Data.  A fragment's bytes are named by where they come from.              *)

Payload(n, f) == <<n, f>>     (* what request n carries for its fragment f  *)
Blank == <<-1, 0>>            (* never written, or no data in the message   *)
Junk  == <<-2, 0>>            (* bytes of memory that is not the request's  *)
Values == {Blank, Junk} \cup (Requests \X Blocks)

NoReq  == [type |-> "NONE", offset |-> 0, dataLen |-> 0]
NoInfo == [sock |-> 1, uid |-> 0, frag |-> 0, off |-> 0, type |-> "NONE", buf |-> 0]

(* The byte offsets a node's memory is accessed at.                          *)
Offsets == {IotOffset(k) : k \in Blocks}

Frags(n) == 0 .. NumFrags(nbdReq[n].dataLen) - 1

Running == fault = "none"

(* A worker is inside SendMsgWrapper.                                        *)
Busy(w) == pc[w] # "dequeue"

(* What a worker finds at fragment i of request n's dataBuf.                 *)
BytesAt(n, i) == IF n \in active /\ i \in Frags(n) THEN dataBuf[n][i] ELSE Junk

Init ==
  /\ nbdSock = <<>>
  /\ reqUid = 0
  /\ nbdReq = [n \in Requests |-> NoReq]
  /\ dataBuf = [n \in Requests |-> [f \in Blocks |-> Blank]]
  /\ fragSet = [n \in Requests |-> {}]
  /\ active = {}
  /\ replies = [n \in Requests |-> 0]
  /\ tasks = {}
  /\ pc = [w \in Workers |-> "dequeue"]
  /\ info = [w \in Workers |-> NoInfo]
  /\ toIot = [s \in IotSocks |-> <<>>]
  /\ fromIot = [s \in IotSocks |-> <<>>]
  /\ store = [s \in IotSocks |-> [o \in Offsets |-> Blank]]
  /\ closed = {}
  /\ fault = "none"

----------------------------------------------------------------------------
(* The environment: the kernel's nbd driver and the peers of the sockets.    *)

Issued == reqUid + Len(nbdSock)

(* The request with number n, read by the server or still in the socket.     *)
Request(n) ==
  IF n < reqUid THEN nbdReq[n]
  ELSE IF n < Issued THEN nbdSock[n - reqUid + 1] ELSE NoReq

(* The driver writes a request; nothing follows a DISC.                      *)
KernelIssues ==
  /\ Running
  /\ Issued < MaxReqs
  /\ Len(nbdSock) < SockCap
  /\ NbdSock \notin closed
  /\ \A n \in Requests : Request(n).type # "DISC"
  /\ \E s \in Shapes : nbdSock' = Append(nbdSock, s)
  /\ UNCHANGED <<reqVars, workerVars, iotVars, closed, fault>>

(* A peer closes its connection; commands it has not read are gone.          *)
PeerCloses(s) ==
  /\ s \in Closable \ closed
  /\ closed' = closed \cup {s}
  /\ toIot' = [i \in IotSocks |-> IF i = s THEN <<>> ELSE toIot[i]]
  /\ UNCHANGED <<nbdSock, reqVars, workerVars, fromIot, store, fault>>

(* A node executes the next command and answers with the header's uid and    *)
(* fragment, and with the fragment's bytes if it was a READ.                 *)
IotServes(s) ==
  /\ s \notin closed
  /\ toIot[s] # <<>>
  /\ Len(fromIot[s]) < SockCap
  /\ LET m == Head(toIot[s]) IN
       /\ store' = IF m.type = "WRITE" THEN [store EXCEPT ![s][m.off] = m.data]
                                       ELSE store
       /\ fromIot' = [fromIot EXCEPT ![s] = Append(@,
            [uid |-> m.uid, frag |-> m.frag,
             data |-> IF m.type = "READ" THEN store[s][m.off] ELSE Blank])]
  /\ toIot' = [toIot EXCEPT ![s] = Tail(@)]
  /\ UNCHANGED <<nbdSock, reqVars, workerVars, closed, fault>>

----------------------------------------------------------------------------
(* The reactor thread.                                                       *)

(* What Distribute puts into the j-th task of request n.                     *)
SendInfo(n, r, j) ==
  LET k == FirstFrag(r.offset) + j IN
    [sock |-> IotOf(k) + 1, uid |-> n, frag |-> j, off |-> IotOffset(k),
     type |-> r.type, buf |-> j]

(* Mutants of ToAwait: the loop of Create runs one fragment too far; it      *)
(* stops after one fragment per node, as the one of Distribute does.         *)
ToAwait_OneTooMany(r) == 0 .. NumFrags(r.dataLen)
ToAwait_FirstRound(r) == 0 .. NumTasks(r.dataLen) - 1

(* The fragments whose replies complete request r.                           *)
ToAwait(r) == 0 .. NumFrags(r.dataLen) - 1

(* Distribute: one task per node the request touches.                        *)
Distribute(n, r) == {SendInfo(n, r, j) : j \in 0 .. NumTasks(r.dataLen) - 1}

(* The dataBuf that NbdRequestRead hands over: the payload of a WRITE, else   *)
(* memory nobody looks at before it is filled.                               *)
NbdRequestRead(n, r) ==
  IF r.type = "WRITE" THEN [f \in Blocks |-> Payload(n, f)] ELSE dataBuf[n]

(* NbdRequestsHandle: read the request, create its host with the fragments   *)
(* to wait for, register it, and only then queue the tasks.                  *)
NbdRequestsHandle ==
  /\ Running
  /\ nbdSock # <<>>
  /\ LET n == reqUid
         r == Head(nbdSock)
     IN /\ nbdReq' = [nbdReq EXCEPT ![n] = r]
        /\ dataBuf' = [dataBuf EXCEPT ![n] = NbdRequestRead(n, r)]
        /\ fragSet' = [fragSet EXCEPT ![n] = ToAwait(r)]
        /\ active' = active \cup {n}
        /\ tasks' = tasks \cup Distribute(n, r)
  /\ nbdSock' = Tail(nbdSock)
  /\ reqUid' = reqUid + 1
  /\ UNCHANGED <<replies, pc, info, iotVars, closed, fault>>

(* ReadReply: take the data of a READ, tick the fragment off.                *)
ReadReply(n, m) ==
  /\ dataBuf' = IF nbdReq[n].type = "READ"
                THEN [dataBuf EXCEPT ![n][m.frag] = m.data] ELSE dataBuf
  /\ fragSet' = [fragSet EXCEPT ![n] = @ \ {m.frag}]

(* NbdRequestDone, called by ReadReply: write the nbd reply and free the      *)
(* request; a closed nbd socket ends the process in write_all.               *)
NbdRequestDone(n) ==
  \/ /\ NbdSock \notin closed
     /\ replies' = [replies EXCEPT ![n] = @ + 1]
     /\ active' = active \ {n}
     /\ UNCHANGED fault
  \/ /\ NbdSock \in closed
     /\ fault' = "sigpipe"
     /\ UNCHANGED <<active, replies>>

(* IotHandle for a reply whose uid names a registered host; when no fragment *)
(* is left the request is done and its host dropped.                         *)
IotHandle(s) ==
  /\ Running
  /\ fromIot[s] # <<>>
  /\ LET m == Head(fromIot[s])
         n == m.uid
     IN /\ n \in active
        /\ ReadReply(n, m)
        /\ \/ fragSet'[n] # {} /\ UNCHANGED <<active, replies, fault>>
           \/ fragSet'[n] = {} /\ NbdRequestDone(n)
  /\ fromIot' = [fromIot EXCEPT ![s] = Tail(@)]
  /\ UNCHANGED <<nbdSock, reqUid, nbdReq, workerVars, toIot, store, closed>>

(* IotHandle for any other uid: m_activeRequests[req_uid] makes a null host. *)
IotHandleUnknown(s) ==
  /\ Running
  /\ fromIot[s] # <<>>
  /\ Head(fromIot[s]).uid \notin active
  /\ fault' = "null_host"
  /\ fromIot' = [fromIot EXCEPT ![s] = Tail(@)]
  /\ UNCHANGED <<nbdSock, reqVars, workerVars, toIot, store, closed>>

(* recv and read return 0 or -1 on a closed connection; the assertion in     *)
(* recv_all and in read_all aborts the process.  A reset may overtake data   *)
(* that is still unread.                                                     *)
RecvClosed(s) ==
  /\ Running
  /\ s \in closed
  /\ fault' = "assert"
  /\ UNCHANGED <<nbdSock, reqVars, workerVars, iotVars, closed>>

----------------------------------------------------------------------------
(* The pool's workers in SendMsgWrapper.                                     *)

(* TaskDespacher takes a task.  The queue orders tasks by their heap         *)
(* address, so any of them may be next.                                      *)
Dequeue(w) ==
  /\ Running
  /\ pc[w] = "dequeue"
  /\ \E t \in tasks :
       /\ tasks' = tasks \ {t}
       /\ info' = [info EXCEPT ![w] = t]
  /\ pc' = [pc EXCEPT ![w] = "test"]
  /\ UNCHANGED <<nbdSock, reqVars, iotVars, closed, fault>>

(* Leaving the loop: the task is over and its SendMsgInfo released.          *)
EndTask(w) ==
  /\ pc' = [pc EXCEPT ![w] = "dequeue"]
  /\ info' = [info EXCEPT ![w] = NoInfo]

(* i < m_nbq_req->dataLen/frag_size while the request still exists; the      *)
(* loop variable i always equals the header's m_fragmentUid.                 *)
LoopTest(w) ==
  /\ Running
  /\ pc[w] = "test"
  /\ info[w].uid \in active
  /\ \/ /\ info[w].frag \in Frags(info[w].uid)
        /\ pc' = [pc EXCEPT ![w] = "send"]
        /\ UNCHANGED info
     \/ /\ info[w].frag \notin Frags(info[w].uid)
        /\ EndTask(w)
  /\ UNCHANGED <<nbdSock, reqVars, tasks, iotVars, closed, fault>>

(* The same test after the reactor has freed the request and its host: what  *)
(* it reads is undefined.  Bound: a worker that reads "more" goes on only    *)
(* while the block it would address exists.                                  *)
StaleLoopTest(w) ==
  LET n == info[w].uid IN
  /\ Running
  /\ pc[w] = "test"
  /\ n \notin active
  /\ \/ /\ "done" \in StaleRead
        /\ EndTask(w)
        /\ UNCHANGED fault
     \/ /\ "more" \in StaleRead
        /\ FirstFrag(nbdReq[n].offset) + info[w].frag \in Blocks
        /\ pc' = [pc EXCEPT ![w] = "send"]
        /\ UNCHANGED <<info, fault>>
     \/ /\ "fault" \in StaleRead
        /\ fault' = "stale_read"
        /\ UNCHANGED <<pc, info>>
  /\ UNCHANGED <<nbdSock, reqVars, tasks, iotVars, closed>>

(* The message a worker is about to send: the header, and for a WRITE the    *)
(* fragment at start_data_buff.                                              *)
Command(i) ==
  [uid |-> i.uid, frag |-> i.frag, off |-> i.off, type |-> i.type,
   data |-> IF i.type = "WRITE" THEN BytesAt(i.uid, i.buf) ELSE Blank]

(* Mutants of NextFragment: the fragment number advances by one, the node's  *)
(* offset stays, the buffer stays, nothing advances.                         *)
NextFragment_ByOne(i) ==
  [i EXCEPT !.frag = @ + 1, !.off = @ + FragSize, !.buf = @ + 1]
NextFragment_SameOffset(i) ==
  [i EXCEPT !.frag = @ + NumIot, !.buf = @ + NumIot]
NextFragment_SameBuffer(i) ==
  [i EXCEPT !.frag = @ + NumIot, !.off = @ + FragSize]
NextFragment_Stuck(i) == i

(* The last lines of the loop's body.                                        *)
NextFragment(i) ==
  [i EXCEPT !.frag = @ + NumIot, !.off = @ + FragSize, !.buf = @ + NumIot]

(* sendmsg blocks while the socket is full.  On a closed connection the      *)
(* message is lost, whatever sendmsg returns, for SendMsgWrapper ignores it, *)
(* unless SIGPIPE ends the process.                                          *)
SendRequest(w) ==
  LET s == info[w].sock IN
  /\ Running
  /\ pc[w] = "send"
  /\ \/ /\ s \notin closed
        /\ Len(toIot[s]) < SockCap
        /\ toIot' = [toIot EXCEPT ![s] = Append(@, Command(info[w]))]
        /\ UNCHANGED fault
     \/ /\ s \in closed
        /\ fault' \in {"none", "sigpipe"}
        /\ UNCHANGED toIot
  /\ info' = [info EXCEPT ![w] = NextFragment(@)]
  /\ pc' = [pc EXCEPT ![w] = "test"]
  /\ UNCHANGED <<nbdSock, reqVars, tasks, fromIot, store, closed>>

----------------------------------------------------------------------------
(* Nothing is left to do: every request the kernel may issue was issued and  *)
(* answered, or the process is gone.  Any other standstill is a deadlock.    *)
Quiet ==
  /\ \/ ~Running
     \/ /\ Issued = MaxReqs \/ \E n \in Requests : Request(n).type = "DISC"
        /\ nbdSock = <<>> /\ tasks = {}
        /\ \A n \in active : Frags(n) = {}
        /\ \A w \in Workers : pc[w] = "dequeue"
        /\ \A s \in IotSocks : toIot[s] = <<>> /\ fromIot[s] = <<>>
  /\ UNCHANGED vars

ReactorStep ==
  \/ NbdRequestsHandle
  \/ \E s \in IotSocks : IotHandle(s) \/ IotHandleUnknown(s)
  \/ \E s \in IotSocks \cup {NbdSock} : RecvClosed(s)

WorkerStep(w) ==
  Dequeue(w) \/ LoopTest(w) \/ StaleLoopTest(w) \/ SendRequest(w)

EnvironmentStep ==
  \/ KernelIssues
  \/ \E s \in IotSocks \cup {NbdSock} : PeerCloses(s)
  \/ \E s \in IotSocks : IotServes(s)

Next ==
  \/ ReactorStep
  \/ \E w \in Workers : WorkerStep(w)
  \/ EnvironmentStep
  \/ Quiet

Spec == Init /\ [][Next]_vars

(* Threads that can run do run, select returns every readable socket in its  *)
(* round, and the nodes serve what they receive.  Nothing is assumed of the  *)
(* kernel issuing requests or of peers closing.                              *)
Fairness ==
  /\ WF_vars(NbdRequestsHandle)
  /\ \A s \in IotSocks : WF_vars(IotHandle(s)) /\ WF_vars(IotServes(s))
  /\ \A w \in Workers : WF_vars(WorkerStep(w))

FairSpec == Spec /\ Fairness
----------------------------------------------------------------------------
(* Properties.                                                               *)

Info == [sock : IotSocks, uid : Requests, frag : Nat, off : Nat,
         type : {"READ", "WRITE", "DISC"}, buf : Nat]
Commands == [uid : Requests, frag : Nat, off : Offsets,
             type : {"READ", "WRITE", "DISC"}, data : Values]
Answers == [uid : Requests, frag : Nat, data : Values]

(* What the variables range over; a node is only ever addressed at an offset *)
(* of the device, a request awaits only fragments of its own, and it is      *)
(* answered at most once.                                                    *)
TypeOK ==
  /\ nbdSock \in Seq(Shapes)
  /\ reqUid \in Nat /\ Issued <= MaxReqs
  /\ nbdReq \in [Requests -> Shapes \cup {NoReq}]
  /\ dataBuf \in [Requests -> [Blocks -> Values]]
  /\ fragSet \in [Requests -> SUBSET Nat]
  /\ \A n \in Requests : fragSet[n] \subseteq Frags(n)
  /\ active \subseteq 0 .. reqUid - 1
  /\ replies \in [Requests -> 0 .. 1]
  /\ tasks \subseteq Info
  /\ pc \in [Workers -> {"dequeue", "test", "send"}]
  /\ info \in [Workers -> Info \cup {NoInfo}]
  /\ \A w \in Workers : info[w] \in IF Busy(w) THEN Info ELSE {NoInfo}
  /\ toIot \in [IotSocks -> Seq(Commands)]
  /\ fromIot \in [IotSocks -> Seq(Answers)]
  /\ store \in [IotSocks -> [Offsets -> Values]]
  /\ closed \subseteq Closable
  /\ fault \in {"none", "null_host", "assert", "stale_read", "sigpipe"}

(* The workers and tasks that will still send fragment f of request n: the   *)
(* SendMsgWrapper loop visits every NumIot-th fragment from where it stands. *)
WillSend(i, n, f) == i.uid = n /\ i.frag <= f /\ i.frag % NumIot = f % NumIot

(* The positions at which a socket holds a message about fragment f of n.    *)
Mentions(q, n, f) == {k \in 1 .. Len(q) : q[k].uid = n /\ q[k].frag = f}

(* Where fragment f of request n is: with a queued task, with a worker, in a *)
(* command or in a reply.                                                    *)
Places(n, f) ==
  {<<"task", t, 0>> : t \in {t \in tasks : WillSend(t, n, f)}} \cup
  {<<"worker", w, 0>> : w \in {w \in Workers : Busy(w) /\ WillSend(info[w], n, f)}} \cup
  (UNION {{<<"command", s, k>> : k \in Mentions(toIot[s], n, f)} : s \in IotSocks}) \cup
  (UNION {{<<"reply", s, k>> : k \in Mentions(fromIot[s], n, f)} : s \in IotSocks})

(* A request and its host are freed by the reactor while workers may still   *)
(* hold pointers to them.  A worker is then never short of the end of its    *)
(* loop: all it has left to do to the freed memory is the last loop test.    *)
StaleOnlyAtLastTest ==
  \A w \in Workers :
    Busy(w) /\ info[w].uid \notin active => info[w].frag \notin Frags(info[w].uid)

(* A fragment that has not been acknowledged is in exactly one place: still  *)
(* to be sent by one task or worker, on its way to its node, or in a reply;  *)
(* an acknowledged one is nowhere.  Closing a connection may lose it.        *)
Accounted(n, f) ==
  IF f \notin fragSet[n] THEN Places(n, f) = {}
  ELSE \/ \E p \in Places(n, f) : Places(n, f) = {p}
       \/ Places(n, f) = {} /\ closed # {}

FragmentsAccountedFor ==
  \A n \in 0 .. reqUid - 1 : \A f \in Frags(n) : Accounted(n, f)

(* Every command in flight for a fragment of its request is on the socket of *)
(* the node that owns the block, carries the block's offset on that node     *)
(* and, for a WRITE, the bytes the kernel sent for that very block; so the   *)
(* increments of the SendMsgWrapper loop agree with Distribute's formulas.   *)
CommandsAddressed ==
  \A s \in IotSocks : \A k \in 1 .. Len(toIot[s]) :
    LET m == toIot[s][k]
        b == FirstFrag(nbdReq[m.uid].offset) + m.frag
    IN m.frag \in Frags(m.uid) =>
         /\ s = IotOf(b) + 1
         /\ m.off = IotOffset(b)
         /\ m.type = "WRITE" => m.data = Payload(m.uid, m.frag)

(* The process stops only because a peer closed its connection or because a  *)
(* worker read freed memory; in particular the reactor is handed a reply for *)
(* a request it has already dropped only if such a read sent a worker round  *)
(* its loop once more.                                                       *)
FaultsHaveACause ==
  \/ Running
  \/ fault = "stale_read" /\ "fault" \in StaleRead
  \/ fault = "null_host" /\ "more" \in StaleRead
  \/ fault \in {"assert", "sigpipe"} /\ closed # {}

(* An acknowledged write is stored and a read returns what was stored: the   *)
(* server implements the block device, each fragment taking effect when its  *)
(* node executes the command.                                                *)
AbstractOp(r) ==
  [type |-> r.type, first |-> FirstFrag(r.offset), frags |-> NumFrags(r.dataLen)]

Replied(n, f) ==
  {p \in IotSocks \X (1 .. SockCap) : p[2] \in Mentions(fromIot[p[1]], n, f)}

Taken(n) ==
  {f \in Frags(n) : f \notin fragSet[n] \/ Replied(n, f) # {}}

Got(n, f) ==
  IF Request(n).type # "READ" \/ f \notin Taken(n) THEN Blank
  ELSE IF f \notin fragSet[n] THEN dataBuf[n][f]
  ELSE LET p == CHOOSE p \in Replied(n, f) : TRUE IN fromIot[p[1]][p[2]].data

DevMem == [b \in Blocks |-> store[IotOf(b) + 1][IotOffset(b)]]
DevOp ==
  [n \in Requests |-> IF n < Issued THEN AbstractOp(Request(n))
                      ELSE [type |-> "NONE", first |-> 0, frags |-> 0]]
DevStatus ==
  [n \in Requests |-> IF n >= Issued THEN "unused"
                      ELSE IF replies[n] = 0 THEN "pending" ELSE "answered"]
DevTaken == [n \in Requests |-> IF n < reqUid THEN Taken(n) ELSE {}]
DevGot ==
  [n \in Requests |-> [f \in Blocks |-> IF n < reqUid THEN Got(n, f) ELSE Blank]]

BD == INSTANCE BlockDevice WITH
  Ops <- {AbstractOp(s) : s \in Shapes}, mem <- DevMem, op <- DevOp,
  status <- DevStatus, taken <- DevTaken, got <- DevGot

RefinesBlockDevice == BD!Spec

(* Every READ and WRITE the kernel issues is answered, although the sockets  *)
(* are bounded and workers block in sendmsg: the reactor never waits for a   *)
(* worker, so it keeps draining the replies the nodes are blocked on.  Only  *)
(* a peer that closes, or one of FaultsHaveACause's stops, keeps an answer   *)
(* back.                                                                     *)
RequestsAreAnswered ==
  \A n \in Requests :
    Request(n).type \in {"READ", "WRITE"} ~>
      replies[n] = 1 \/ closed # {} \/ ~Running

(* README.md promises a shared memory: a block holds nothing but what a      *)
(* WRITE of that block put there.                                            *)
BlocksHoldWhatWasWritten ==
  \A b \in Blocks :
    LET v == store[IotOf(b) + 1][IotOffset(b)] IN
      \/ v = Blank
      \/ \E n \in 0 .. reqUid - 1 :
           /\ nbdReq[n].type = "WRITE"
           /\ v = Payload(n, b - FirstFrag(nbdReq[n].offset))
           /\ b - FirstFrag(nbdReq[n].offset) \in Frags(n)
=============================================================================
