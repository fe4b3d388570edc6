----------------------------- MODULE AtlasSingle ----------------------------
(***************************************************************************)
(* The two servers with a single IoT node: atlas_main, whose reactor thread*)
(* sends the commands itself, and atlas_ThreadPool, which queues a task to *)
(* the pool for each.  Both name a request by the address of its           *)
(* NbdRequest, send it to the node in one message whatever its length, and *)
(* cast the address the node echoes back to a pointer.                     *)
(*                                                                         *)
(* The connection to the node is a byte stream, here of chunks: a header,   *)
(* or one block of data.  A sendmsg that finds the buffer full waits, and    *)
(* while it waits another thread's sendmsg may continue the stream.          *)
(***************************************************************************)
EXTENDS Integers, Sequences, FiniteSets

CONSTANTS
  MaxReqs,   (* bound: requests the kernel issues in one run                *)
  Addrs,     (* addresses malloc returns; bound: as many are outstanding    *)
  Blocks,    (* the blocks of the device, 0 .. size - 1                     *)
  Shapes,    (* [type, first, len] requests, in blocks                      *)
  Workers,   (* the threads of atlas_ThreadPool's pool                      *)
  OutCap,    (* [program -> chunks buffered on the way to the node]: the    *)
             (* programs to look at, "main" or "pool", and their bounds     *)
  InCap,     (* ... and on the way back                                     *)
  Closable   (* peers that may close: a subset of {"nbd", "iot"}            *)

Requests == 0 .. MaxReqs - 1
Reactor  == "reactor"
NoThread == "nobody"

ASSUME SingleAssumption ==
  /\ MaxReqs \in Nat /\ InCap \in Nat \ {0} /\ DOMAIN OutCap \subseteq {"main", "pool"}
  /\ \A p \in DOMAIN OutCap : OutCap[p] \in Nat \ {0}
  /\ Blocks \subseteq Nat /\ \A b \in Blocks : 0 .. b \subseteq Blocks
  /\ Shapes \subseteq [type : {"READ", "WRITE", "DISC"}, first : Nat, len : Nat]
  /\ \A s \in Shapes : /\ s.first .. s.first + s.len - 1 \subseteq Blocks
                       /\ (s.len = 0) <=> (s.type = "DISC")
  /\ Closable \subseteq {"nbd", "iot"}
  /\ Addrs \cap {"none", "exited"} = {} /\ Workers \cap {Reactor, NoThread} = {}

VARIABLES
  program,  (* "main" for atlas_main, "pool" for atlas_ThreadPool           *)
  issued,   (* requests the kernel has written                              *)
  shape,    (* [Requests -> what the kernel asks]                           *)
  got,      (* requests the server has read                                 *)
  heap,     (* [Addrs -> the request whose NbdRequest is there, or Freed]   *)
  dataBuf,  (* [Requests -> [Blocks -> data]]: its buffer, by block         *)
  replies,  (* [Requests -> nbd replies written]                            *)
  tasks,    (* SendMsgInfo in the pool's queue, as [uid, req] records       *)
  out,      (* [Threads -> the sendmsg it is in, or Idle]                   *)
  lock,     (* the thread that is filling the stream, or NoThread           *)
  rx,       (* the request IotHandle is at work on between its steps, a READ  *)
            (* still reading or one it died with, or Idle                   *)
  toIot,    (* chunks to the node                                           *)
  fromIot,  (* chunks from the node                                         *)
  cmd,      (* the header the node is executing, or Idle                    *)
  step,     (* its steps done so far                                        *)
  store,    (* [Blocks -> data]: the node's memory                          *)
  closed,   (* peers that are gone                                          *)
  fault     (* what stopped the server, or "none"                           *)

reqVars  == <<program, issued, shape, got, heap, dataBuf, replies>>
sendVars == <<tasks, out, lock>>
nodeVars == <<cmd, step, store>>
vars == <<reqVars, sendVars, rx, toIot, fromIot, nodeVars, closed, fault>>

Payload(n, i) == <<n, i>>
Blank    == <<-1, 0>>
Junk     == <<-2, 0>>
Freed    == -1
NoReq    == [type |-> "NONE", first |-> 0, len |-> 0]
Idle     == [uid |-> "none", req |-> 0, pos |-> 0]
Exited   == [uid |-> "exited", req |-> 0, pos |-> 0]
Running  == fault = "none"
Pooled   == program = "pool"
Threads  == IF Pooled THEN Workers ELSE {Reactor}
Full(q)  == Len(q) >= OutCap[program]
Frags(n) == 0 .. shape[n].len - 1

(* A piece of a stream.  idx 0 is the header, idx i + 1 block i of the data.  *)
(* req tells the properties whose chunk it is; no one reads it.              *)
Chunk(uid, n, idx, val) == [uid |-> uid, req |-> n, idx |-> idx, val |-> val]

Init ==
  /\ program \in DOMAIN OutCap
  /\ issued = 0 /\ got = 0
  /\ shape = [n \in Requests |-> NoReq]
  /\ heap = [a \in Addrs |-> Freed]
  /\ dataBuf = [n \in Requests |-> [i \in Blocks |-> Blank]]
  /\ replies = [n \in Requests |-> 0]
  /\ tasks = {} /\ out = [t \in Workers \cup {Reactor} |-> Idle] /\ lock = NoThread
  /\ rx = Idle /\ toIot = <<>> /\ fromIot = <<>>
  /\ cmd = Idle /\ step = 0 /\ store = [b \in Blocks |-> Blank]
  /\ closed = {} /\ fault = "none"

----------------------------------------------------------------------------
(* The kernel, the node and closing peers.                                   *)

KernelIssues ==
  /\ Running /\ "nbd" \notin closed
  /\ issued < MaxReqs
  /\ Cardinality({n \in 0 .. issued - 1 : replies[n] = 0}) < Cardinality(Addrs)
  /\ \A n \in 0 .. issued - 1 : shape[n].type # "DISC"
  /\ \E s \in Shapes : shape' = [shape EXCEPT ![issued] = s]
  /\ issued' = issued + 1
  /\ UNCHANGED <<program, got, heap, dataBuf, replies, sendVars, rx, toIot, fromIot,
                 nodeVars, closed, fault>>

PeerCloses ==
  /\ \E p \in Closable \ closed : closed' = closed \cup {p}
  /\ toIot' = IF "iot" \in closed' THEN <<>> ELSE toIot
  /\ UNCHANGED <<reqVars, sendVars, rx, fromIot, nodeVars, fault>>

(* The node reads the next header; data where a header should be leaves it    *)
(* with a command it can make no sense of.                                   *)
IotReadsHeader ==
  /\ "iot" \notin closed
  /\ cmd = Idle /\ toIot # <<>>
  /\ Head(toIot).idx = 0
  /\ cmd' = [uid |-> Head(toIot).uid, req |-> Head(toIot).req, pos |-> 0]
  /\ step' = 0
  /\ toIot' = Tail(toIot)
  /\ UNCHANGED <<reqVars, sendVars, rx, fromIot, store, closed, fault>>

(* A WRITE stores its blocks one by one, whatever the stream has in their    *)
(* place.                                                                   *)
IotStores ==
  LET s == shape[cmd.req] IN
  /\ "iot" \notin closed
  /\ cmd # Idle /\ s.type = "WRITE" /\ step < s.len
  /\ toIot # <<>>
  /\ store' = [store EXCEPT ![s.first + step] =
                 IF Head(toIot).idx = 0 THEN Junk ELSE Head(toIot).val]
  /\ toIot' = Tail(toIot)
  /\ step' = step + 1
  /\ UNCHANGED <<reqVars, sendVars, rx, fromIot, cmd, closed, fault>>

(* The reply: the header with the same uid, then the blocks of a READ.       *)
IotReplies ==
  LET s == shape[cmd.req]
      i == IF s.type = "READ" THEN step ELSE 0
  IN
  /\ "iot" \notin closed
  /\ cmd # Idle
  /\ s.type = "WRITE" => step = s.len
  /\ Len(fromIot) < InCap
  /\ fromIot' = Append(fromIot, Chunk(cmd.uid, cmd.req, i,
                  IF i = 0 THEN Blank ELSE store[s.first + i - 1]))
  /\ \/ /\ step < s.len /\ step' = step + 1 /\ UNCHANGED cmd
     \/ /\ step = s.len /\ step' = 0 /\ cmd' = Idle
  /\ UNCHANGED <<reqVars, sendVars, rx, toIot, store, closed, fault>>

----------------------------------------------------------------------------
(* The reactor's handlers.                                                   *)

ReactorFree == Running /\ rx = Idle /\ (~Pooled => out[Reactor] = Idle)

(* Mutant of Malloc: any address, in use or not.                             *)
Malloc_Any == Addrs

(* The addresses NbdRequestRead's malloc may return.                         *)
Malloc == {a \in Addrs : heap[a] = Freed}

(* The header names request n by its address a; with the request it says all  *)
(* that SendMsgInfo says.                                                    *)
ConvertToAtlas(a, n) == [uid |-> a, req |-> n, pos |-> 0]

(* NbdHandle: read the request into fresh memory, convert it, and send it or  *)
(* queue the task that will.                                                 *)
NbdHandle ==
  /\ ReactorFree
  /\ got < issued
  /\ \E a \in Malloc :
       LET send == ConvertToAtlas(a, got) IN
       /\ heap' = [heap EXCEPT ![a] = got]
       /\ IF Pooled THEN tasks' = tasks \cup {send} /\ UNCHANGED out
                    ELSE out' = [out EXCEPT ![Reactor] = send] /\ UNCHANGED tasks
  /\ dataBuf' = IF shape[got].type = "WRITE"
                THEN [dataBuf EXCEPT ![got] = [i \in Blocks |-> Payload(got, i)]]
                ELSE dataBuf
  /\ got' = got + 1
  /\ UNCHANGED <<program, issued, shape, replies, lock, rx, toIot, fromIot, nodeVars,
                 closed, fault>>

(* Mutant of NbdRequestDone: the reply is forgotten.                          *)
NbdRequestDone_NoReply(o) ==
  /\ heap' = [heap EXCEPT ![o.uid] = Freed]
  /\ rx' = Idle
  /\ UNCHANGED <<replies, fault>>

(* NbdRequestDone of the request IotHandle works on, and IotHandle's return;  *)
(* SIGPIPE, if the kernel's driver is gone, ends the process inside.          *)
NbdRequestDone(o) ==
  \/ /\ "nbd" \notin closed
     /\ replies' = [replies EXCEPT ![o.req] = @ + 1]
     /\ heap' = [heap EXCEPT ![o.uid] = Freed]
     /\ rx' = Idle
     /\ UNCHANGED fault
  \/ /\ "nbd" \in closed
     /\ fault' = "sigpipe"
     /\ rx' = o
     /\ UNCHANGED <<replies, heap>>

(* IotHandle, first the header: its uid is cast to a pointer.  A READ goes    *)
(* on reading, anything else is done.  What a pointer to freed memory leads   *)
(* to is not followed further.                                               *)
IotHandle ==
  /\ ReactorFree
  /\ fromIot # <<>>
  /\ LET a == Head(fromIot).uid
         o == [uid |-> a, req |-> heap[a], pos |-> 0]
     IN IF heap[a] = Freed
        THEN fault' = "freed_request" /\ UNCHANGED <<heap, replies, rx>>
        ELSE IF shape[heap[a]].type = "READ"
        THEN rx' = o /\ UNCHANGED <<heap, replies, fault>>
        ELSE NbdRequestDone(o)
  /\ fromIot' = Tail(fromIot)
  /\ UNCHANGED <<program, issued, shape, got, dataBuf, sendVars, toIot, nodeVars, closed>>

(* Mutants of the end of IotHandle: one read, then done; one read too many.   *)
IotHandleLast_OneRead(n, i) == TRUE

IotHandleLast_TooFar(n, i) == i = shape[n].len

IotHandleLast(n, i) == i = shape[n].len - 1

(* ... then the data, blocking until the node has sent all of it.            *)
IotHandleData ==
  LET n == rx.req IN
  /\ Running
  /\ rx # Idle /\ fromIot # <<>>
  /\ dataBuf' = [dataBuf EXCEPT ![n][rx.pos] = Head(fromIot).val]
  /\ \/ /\ IotHandleLast(n, rx.pos)
        /\ NbdRequestDone(rx)
     \/ /\ ~IotHandleLast(n, rx.pos)
        /\ rx' = [rx EXCEPT !.pos = @ + 1]
        /\ UNCHANGED <<heap, replies, fault>>
  /\ fromIot' = Tail(fromIot)
  /\ UNCHANGED <<program, issued, shape, got, sendVars, toIot, nodeVars, closed>>

(* read returns 0 or -1 on a closed connection, and the assertion ends the    *)
(* process; the nbd socket is only read between messages of the node.         *)
ReadClosed ==
  /\ Running
  /\ \/ "iot" \in closed /\ (ReactorFree \/ rx # Idle)
     \/ "nbd" \in closed /\ ReactorFree
  /\ fault' = "assert"
  /\ UNCHANGED <<reqVars, sendVars, rx, toIot, fromIot, nodeVars, closed>>

----------------------------------------------------------------------------
(* sendmsg, by the reactor or in SendMsgWrapper.                             *)

(* Mutant of Dequeue: the task stays in the queue.                           *)
Dequeue_NoPop(w) ==
  /\ Running
  /\ out[w] = Idle
  /\ \E t \in tasks : out' = [out EXCEPT ![w] = t]
  /\ UNCHANGED <<reqVars, tasks, lock, rx, toIot, fromIot, nodeVars, closed, fault>>

(* A worker takes any task of the queue; SendMsgWrapper has its own copy.     *)
Dequeue(w) ==
  /\ Running
  /\ out[w] = Idle
  /\ \E t \in tasks :
       /\ out' = [out EXCEPT ![w] = t]
       /\ tasks' = tasks \ {t}
  /\ UNCHANGED <<reqVars, lock, rx, toIot, fromIot, nodeVars, closed, fault>>

(* A thread in sendmsg still owns the memory it sends from.                   *)
Owns(t) == heap[out[t].uid] = out[t].req

(* The chunk sendmsg copies next, and whether it is the last one: payload[0]  *)
(* is the header, payload[1] the buffer of a WRITE.                          *)
NextChunk(t) ==
  LET o == out[t] IN
    Chunk(o.uid, o.req, o.pos,
          IF o.pos = 0 THEN Blank
          ELSE IF Owns(t) THEN dataBuf[o.req][o.pos - 1] ELSE Junk)

LastChunk(t) ==
  out[t].pos = IF shape[out[t].req].type = "WRITE" THEN shape[out[t].req].len ELSE 0

(* The kernel copies chunks while there is room; when the buffer is full the  *)
(* thread waits without the socket's lock.                                   *)
SendChunk(t) ==
  /\ Running
  /\ out[t] \notin {Idle, Exited}
  /\ lock \in {t, NoThread}
  /\ "iot" \notin closed
  /\ ~Full(toIot)
  /\ toIot' = Append(toIot, NextChunk(t))
  /\ \/ LastChunk(t) /\ out' = [out EXCEPT ![t] = Idle] /\ lock' = NoThread
     \/ /\ ~LastChunk(t) /\ out' = [out EXCEPT ![t].pos = @ + 1]
        /\ lock' = IF Full(toIot') THEN NoThread ELSE t
  /\ UNCHANGED <<reqVars, tasks, rx, fromIot, nodeVars, closed, fault>>

(* sendmsg on a closed connection: SIGPIPE, or -1.  The reactor ignores the   *)
(* -1; SendMsgWrapper returns it and the pool takes it for a BADAPPLE, which  *)
(* ends the worker.                                                         *)
SendFails(t) ==
  /\ Running
  /\ out[t] \notin {Idle, Exited}
  /\ "iot" \in closed
  /\ \/ fault' = "sigpipe" /\ UNCHANGED <<out, lock>>
     \/ /\ out' = [out EXCEPT ![t] = IF Pooled THEN Exited ELSE Idle]
        /\ lock' = IF lock = t THEN NoThread ELSE lock
        /\ UNCHANGED fault
  /\ UNCHANGED <<reqVars, tasks, rx, toIot, fromIot, nodeVars, closed>>

----------------------------------------------------------------------------
(* Each side waits for the other to read: the reactor in sendmsg, the node    *)
(* with a reply, both directions full.                                       *)
MutualWait ==
  /\ ~Pooled /\ out[Reactor] # Idle /\ Full(toIot)
  /\ cmd # Idle /\ Len(fromIot) = InCap

(* Nothing is left to do, or the process is gone, or it waits for ever.       *)
Quiet ==
  /\ \/ ~Running \/ MutualWait
     \/ /\ issued = MaxReqs \/ \E n \in Requests : shape[n].type = "DISC"
        /\ got = issued /\ tasks = {} /\ rx = Idle /\ cmd = Idle
        /\ \A t \in Threads : out[t] \in {Idle, Exited}
        /\ toIot = <<>> /\ fromIot = <<>>
  /\ UNCHANGED vars

ReactorStep == NbdHandle \/ IotHandle \/ IotHandleData \/ ReadClosed
SendStep(t) == SendChunk(t) \/ SendFails(t)
IotStep     == IotReadsHeader \/ IotStores \/ IotReplies

Next ==
  \/ KernelIssues \/ PeerCloses \/ IotStep
  \/ ReactorStep
  \/ \E t \in Threads : SendStep(t)
  \/ \E w \in Workers : Dequeue(w)
  \/ Quiet

Spec == Init /\ [][Next]_vars

(* Threads that can run do run, select returns every readable socket in its   *)
(* round, and the node serves what it receives.                              *)
Fairness ==
  /\ WF_vars(NbdHandle) /\ WF_vars(IotHandle) /\ WF_vars(IotHandleData)
  /\ WF_vars(IotStep)
  /\ \A t \in Workers : WF_vars(Dequeue(t))
  /\ \A t \in Workers \cup {Reactor} : WF_vars(SendChunk(t))

FairSpec == Spec /\ Fairness
----------------------------------------------------------------------------
(* Properties.                                                               *)

Values == {Blank, Junk} \cup (Requests \X Blocks)
Sends  == [uid : Addrs, req : Requests, pos : Nat]
Chunks == [uid : Addrs, req : Requests, idx : Nat, val : Values]

(* What the variables range over; a request is answered at most once, a READ  *)
(* is not read past its end, and a command has no more steps than its reply  *)
(* has chunks.                                                              *)
TypeOK ==
  /\ program \in DOMAIN OutCap
  /\ issued \in 0 .. MaxReqs /\ got \in 0 .. issued
  /\ shape \in [Requests -> Shapes \cup {NoReq}]
  /\ heap \in [Addrs -> Requests \cup {Freed}]
  /\ dataBuf \in [Requests -> [Blocks -> Values]]
  /\ replies \in [Requests -> 0 .. 1]
  /\ tasks \subseteq Sends
  /\ out \in [Workers \cup {Reactor} -> Sends \cup {Idle, Exited}]
  /\ lock \in Threads \cup {NoThread}
  /\ rx \in Sends \cup {Idle} /\ cmd \in Sends \cup {Idle}
  /\ rx # Idle /\ shape[rx.req].type = "READ" => rx.pos \in Frags(rx.req)
  /\ toIot \in Seq(Chunks) /\ fromIot \in Seq(Chunks)
  /\ step \in IF cmd = Idle THEN {0} ELSE 0 .. shape[cmd.req].len
  /\ store \in [Blocks -> Values]
  /\ closed \subseteq Closable
  /\ fault \in {"none", "assert", "sigpipe", "freed_request"}

(* An address is good for a name: whoever still mentions one, a task, a       *)
(* thread in sendmsg, a command on its way or with the node, a reply, means   *)
(* the request that lives there at that moment, although malloc reuses the   *)
(* addresses of answered requests.  So no thread sends from freed memory and  *)
(* no reply is taken for another request's.                                  *)
AddressesNameRequests ==
  Running =>
    /\ \A t \in tasks : heap[t.uid] = t.req
    /\ \A t \in Threads : out[t] \notin {Idle, Exited} => Owns(t)
    /\ cmd # Idle => heap[cmd.uid] = cmd.req
    /\ rx # Idle => heap[rx.uid] = rx.req
    /\ \A q \in {toIot, fromIot} : \A k \in 1 .. Len(q) : heap[q[k].uid] = q[k].req

(* Only a closed connection stops the server.                                *)
FaultsHaveACause ==
  Running \/ (fault \in {"assert", "sigpipe"} /\ closed # {})

(* The server implements the block device: a block of a WRITE takes effect    *)
(* when the node stores it, a block of a READ when it is put into the reply.  *)
Left(n) ==
  \/ replies[n] = 1
  \/ rx # Idle /\ rx.req = n
  \/ \E k \in 1 .. Len(fromIot) : fromIot[k].req = n

Taken(n) ==
  IF cmd # Idle /\ cmd.req = n
  THEN 0 .. step - (IF shape[n].type = "READ" THEN 2 ELSE 1)
  ELSE IF Left(n) THEN Frags(n) ELSE {}

Replied(n, i) == {k \in 1 .. Len(fromIot) : fromIot[k].req = n /\ fromIot[k].idx = i + 1}

Got(n, i) ==
  IF shape[n].type # "READ" \/ i \notin Taken(n) THEN Blank
  ELSE IF Replied(n, i) = {} THEN dataBuf[n][i]
  ELSE fromIot[CHOOSE k \in Replied(n, i) : TRUE].val

BdOps    == {[type |-> s.type, first |-> s.first, frags |-> s.len] : s \in Shapes}
BdOp     == [n \in Requests |-> [type |-> shape[n].type, first |-> shape[n].first,
                                 frags |-> shape[n].len]]
BdStatus == [n \in Requests |-> IF n >= issued THEN "unused"
                                ELSE IF replies[n] = 0 THEN "pending" ELSE "answered"]
BdTaken  == [n \in Requests |-> Taken(n)]
BdGot    == [n \in Requests |-> [i \in Blocks |-> Got(n, i)]]

BD == INSTANCE BlockDevice WITH
  Ops <- BdOps, mem <- store, op <- BdOp, status <- BdStatus, taken <- BdTaken, got <- BdGot

RefinesBlockDevice == BD!Spec

(* Every READ and WRITE is answered, unless a peer closes its connection, or  *)
(* atlas_main and the node end up waiting for each other for ever.  In        *)
(* atlas_ThreadPool a full connection only holds up a worker, and the reactor *)
(* goes on reading.                                                          *)
RequestsAreAnswered ==
  \A n \in Requests :
    shape[n].type \in {"READ", "WRITE"} ~> replies[n] = 1 \/ MutualWait \/ closed # {}

(* README.md promises a shared memory: a block holds nothing but what a       *)
(* WRITE of that block put there.                                            *)
BlocksHoldWhatWasWritten ==
  \A b \in Blocks :
    \/ store[b] = Blank
    \/ \E n \in 0 .. issued - 1 :
         /\ shape[n].type = "WRITE"
         /\ b - shape[n].first \in Frags(n)
         /\ store[b] = Payload(n, b - shape[n].first)
=============================================================================
