-------------------------- MODULE AtlasSingleProofs --------------------------
(***************************************************************************)
(* Theorems about AtlasSingle, for any number of workers, requests,          *)
(* addresses and blocks, and connections of any size: the invariants, first;  *)
(* then types, which hold in every behaviour; then the other invariants, one  *)
(* section for each actor, as long as no sendmsg comes between the chunks of  *)
(* another; then that none does in atlas_main, nor in atlas_ThreadPool with   *)
(* one worker or room in the connection to the node; last the block device.   *)
(***************************************************************************)
EXTENDS AtlasSingle, SequenceTheorems, FiniteSetTheorems, TLAPS

----------------------------------------------------------------------------
(* The invariants.                                                           *)

AllThreads == Workers \cup {Reactor}
Sending(t) == out[t] \notin {Idle, Exited}

(* What lives in the heap is a request that was read and not answered, at one *)
(* address.                                                                 *)
HeapIsLive ==
  /\ \A n \in Requests : replies[n] # 0 => n < got
  /\ \A a \in Addrs : heap[a] # Freed =>
       /\ heap[a] < got /\ replies[heap[a]] = 0
       /\ \A b \in Addrs : heap[b] = heap[a] => b = a

(* IotHandle holds the request it found at the address, a READ unless it died. *)
InHandIsLive ==
  rx # Idle => heap[rx.uid] = rx.req /\ (Running => shape[rx.req].type = "READ")

(* The last chunk of a command.                                              *)
Ends(n) == IF shape[n].type = "WRITE" THEN shape[n].len ELSE 0

(* Commands are about requests that were read, and not sent past their end.   *)
CommandsAreRead ==
  /\ \A t \in tasks : t.req < got /\ t.pos = 0
  /\ \A t \in AllThreads : Sending(t) => out[t].req < got /\ out[t].pos <= Ends(out[t].req)
  /\ \A k \in 1 .. Len(toIot) : toIot[k].req < got
  /\ cmd # Idle => cmd.req < got

TypeInv == TypeOK /\ HeapIsLive /\ InHandIsLive /\ CommandsAreRead

(* Whoever mentions an address means the request that lives there.           *)
Named ==
  /\ \A t \in tasks : heap[t.uid] = t.req
  /\ \A t \in AllThreads : Sending(t) => heap[out[t].uid] = out[t].req
  /\ cmd # Idle => heap[cmd.uid] = cmd.req
  /\ \A k \in 1 .. Len(toIot) : heap[toIot[k].uid] = toIot[k].req
  /\ \A k \in 1 .. Len(fromIot) : heap[fromIot[k].uid] = fromIot[k].req

(* The last chunk of a reply; the reply chunks the node has made of its        *)
(* command.                                                                 *)
ReplyEnds(n) == IF shape[n].type = "READ" THEN shape[n].len ELSE 0
Made         == IF shape[cmd.req].type = "READ" THEN step ELSE 0
AtNode(n)    == cmd # Idle /\ cmd.req = n
InHand(n)    == rx # Idle /\ rx.req = n

(* The node has not taken chunk i of the command of n.                       *)
NotTaken(n, i) ==
  /\ AtNode(n) => step < i
  /\ ~InHand(n)
  /\ \A k \in 1 .. Len(fromIot) : fromIot[k].req # n

(* A request moves from the queue to a thread, chunk by chunk to the stream,   *)
(* to the node, back to the stream and to IotHandle: each of them has only    *)
(* what none before it has.                                                 *)
TasksFirst ==
  \A t \in tasks :
    /\ NotTaken(t.req, 0)
    /\ \A u \in tasks : u.req = t.req => u = t
    /\ \A u \in AllThreads : Sending(u) => out[u].req # t.req
    /\ \A k \in 1 .. Len(toIot) : toIot[k].req # t.req

SendersNext ==
  \A t \in AllThreads : Sending(t) =>
    /\ NotTaken(out[t].req, out[t].pos)
    /\ \A u \in AllThreads : Sending(u) /\ out[u].req = out[t].req => u = t
    /\ \A k \in 1 .. Len(toIot) : toIot[k].req = out[t].req => toIot[k].idx < out[t].pos

CommandsNext ==
  \A k \in 1 .. Len(toIot) :
    /\ toIot[k].idx <= Ends(toIot[k].req) /\ NotTaken(toIot[k].req, toIot[k].idx)
    /\ \A j \in 1 .. Len(toIot) : toIot[j].req = toIot[k].req /\ toIot[j].idx = toIot[k].idx => j = k

NodeNext ==
  cmd # Idle =>
    /\ InHand(cmd.req) => rx.pos < Made
    /\ \A k \in 1 .. Len(fromIot) : fromIot[k].req = cmd.req => fromIot[k].idx < Made

RepliesLast ==
  \A k \in 1 .. Len(fromIot) :
    /\ fromIot[k].idx <= ReplyEnds(fromIot[k].req)
    /\ InHand(fromIot[k].req) => rx.pos < fromIot[k].idx
    /\ \A j \in 1 .. Len(fromIot) :
         fromIot[j].req = fromIot[k].req /\ fromIot[j].idx = fromIot[k].idx => j = k

(* The data of a WRITE is in its buffer as long as it lives, and in its chunks. *)
BuffersIntact ==
  \A a \in Addrs : heap[a] # Freed /\ shape[heap[a]].type = "WRITE" =>
    \A i \in Blocks : dataBuf[heap[a]][i] = Payload(heap[a], i)

ChunksIntact ==
  \A k \in 1 .. Len(toIot) :
    toIot[k].val = IF toIot[k].idx = 0 THEN Blank ELSE Payload(toIot[k].req, toIot[k].idx - 1)

(* The stream to the node is made of whole messages, but for what the node has *)
(* already read of the first and what a thread has still to send of the last.  *)
Reading == cmd # Idle /\ step < Ends(cmd.req)

ToNodeFramed ==
  "iot" \notin closed =>
    /\ toIot # <<>> => IF Reading THEN toIot[1].req = cmd.req /\ toIot[1].idx = step + 1
                                  ELSE toIot[1].idx = 0
    /\ \A k \in 1 .. Len(toIot) - 1 :
         IF toIot[k].idx < Ends(toIot[k].req)
         THEN toIot[k + 1].req = toIot[k].req /\ toIot[k + 1].idx = toIot[k].idx + 1
         ELSE toIot[k + 1].idx = 0

(* ... such a thread is the only one.                                        *)
Halfway == IF toIot = <<>> THEN Reading
           ELSE toIot[Len(toIot)].idx < Ends(toIot[Len(toIot)].req)
LastSent == IF toIot = <<>> THEN <<cmd.req, step>>
            ELSE <<toIot[Len(toIot)].req, toIot[Len(toIot)].idx>>

Midway(t) == Sending(t) /\ out[t].pos > 0

MidwayContinues ==
  "iot" \notin closed =>
    /\ Halfway => \E t \in AllThreads : Midway(t)
    /\ \A t \in AllThreads : Midway(t) => Halfway /\ LastSent = <<out[t].req, out[t].pos - 1>>

(* The stream to the server likewise: IotHandle is in the first message, the   *)
(* node in the last.                                                         *)
FromNodeFramed ==
  Running =>
    /\ fromIot # <<>> => IF rx # Idle THEN fromIot[1].req = rx.req /\ fromIot[1].idx = rx.pos + 1
                                      ELSE fromIot[1].idx = 0
    /\ \A k \in 1 .. Len(fromIot) - 1 :
         IF fromIot[k].idx < ReplyEnds(fromIot[k].req)
         THEN fromIot[k + 1].req = fromIot[k].req /\ fromIot[k + 1].idx = fromIot[k].idx + 1
         ELSE fromIot[k + 1].idx = 0

ReplyHalfway == IF fromIot = <<>> THEN rx # Idle
                ELSE fromIot[Len(fromIot)].idx < ReplyEnds(fromIot[Len(fromIot)].req)
LastMade == IF fromIot = <<>> THEN <<rx.req, rx.pos>>
            ELSE <<fromIot[Len(fromIot)].req, fromIot[Len(fromIot)].idx>>

NodeContinues ==
  Running =>
    /\ ReplyHalfway => cmd # Idle /\ Made > 0
    /\ cmd # Idle /\ Made > 0 => ReplyHalfway /\ LastMade = <<cmd.req, step - 1>>

(* A thread the program does not have sends nothing.                         *)
OthersIdle ==
  /\ \A t \in AllThreads \ Threads : out[t] = Idle
  /\ ~Pooled => tasks = {}

IInv ==
  /\ TypeInv /\ OthersIdle /\ Named
  /\ TasksFirst /\ SendersNext /\ CommandsNext /\ NodeNext /\ RepliesLast
  /\ BuffersIntact /\ ChunksIntact
  /\ ToNodeFramed /\ MidwayContinues /\ FromNodeFramed /\ NodeContinues
  /\ FaultsHaveACause

(* No sendmsg comes between the chunks of another: what finding single_split   *)
(* violates, and what the theorems about the pool assume.                     *)
NoSplit ==
  \A t \in Threads : SendChunk(t) => \A u \in Threads \ {t} : ~Midway(u)

----------------------------------------------------------------------------
(* Requests, chunks and sequences of them.                                   *)

LEMMA Distinct ==
  /\ Idle \notin Sends /\ Exited \notin Sends /\ Idle # Exited
  /\ Freed \notin Requests /\ NoThread \notin AllThreads
  BY SingleAssumption DEF Idle, Exited, Sends, Freed, Requests, NoThread, AllThreads, Reactor

LEMMA ShapeIs ==
  ASSUME TypeOK, NEW n \in Requests
  PROVE  /\ shape[n].len \in Nat /\ shape[n].first \in Nat
         /\ shape[n].type \in {"READ", "WRITE", "DISC", "NONE"}
         /\ shape[n].len = 0 <=> shape[n].type \in {"DISC", "NONE"}
         /\ \A i \in 0 .. shape[n].len - 1 : i \in Blocks /\ shape[n].first + i \in Blocks
<1>1. CASE shape[n] = NoReq
  BY <1>1 DEF NoReq
<1>2. CASE shape[n] \in Shapes
  <2>1. PICK s \in Shapes : s = shape[n]
    BY <1>2
  <2>2. /\ s.len \in Nat /\ s.first \in Nat /\ s.type \in {"READ", "WRITE", "DISC"}
        /\ (s.len = 0) <=> (s.type = "DISC")
    BY SingleAssumption
  <2>3. \A i \in 0 .. s.len - 1 : s.first + i \in Blocks
    <3>1. s.first .. s.first + s.len - 1 \subseteq Blocks
      BY SingleAssumption
    <3> QED
      BY <2>2, <3>1
  <2>4. \A i \in 0 .. s.len - 1 : i \in Blocks
    <3> SUFFICES ASSUME NEW i \in 0 .. s.len - 1 PROVE i \in Blocks
      OBVIOUS
    <3>1. s.first + i \in Blocks /\ i \in 0 .. s.first + i
      BY <2>2, <2>3
    <3> QED
      BY <3>1, SingleAssumption
  <2> QED
    BY <2>1, <2>2, <2>3, <2>4
<1> QED
  BY <1>1, <1>2 DEF TypeOK

LEMMA ChunkType ==
  ASSUME NEW a \in Addrs, NEW n \in Requests, NEW i \in Nat, NEW v \in Values
  PROVE  /\ Chunk(a, n, i, v) \in Chunks
         /\ Chunk(a, n, i, v).uid = a /\ Chunk(a, n, i, v).req = n
         /\ Chunk(a, n, i, v).idx = i /\ Chunk(a, n, i, v).val = v
  BY DEF Chunk, Chunks

LEMMA ValuesAre ==
  /\ Blank \in Values /\ Junk \in Values
  /\ \A n \in Requests, i \in Blocks : Payload(n, i) \in Values
  BY DEF Values, Payload

(* A sequence with an element added or its first one taken.                   *)
LEMMA AppendIs ==
  ASSUME NEW S, NEW q \in Seq(S), NEW c \in S
  PROVE  /\ Append(q, c) \in Seq(S) /\ Len(Append(q, c)) = Len(q) + 1 /\ Append(q, c) # <<>>
         /\ Append(q, c)[Len(q) + 1] = c /\ Len(q) \in Nat
         /\ \A k \in 1 .. Len(q) : Append(q, c)[k] = q[k]
  BY AppendProperties

LEMMA TailIs ==
  ASSUME NEW S, NEW q \in Seq(S), q # <<>>
  PROVE  /\ Tail(q) \in Seq(S) /\ Len(q) \in Nat /\ Len(q) >= 1 /\ Len(Tail(q)) = Len(q) - 1
         /\ Head(q) = q[1] /\ q[1] \in S
         /\ \A k \in 1 .. Len(q) - 1 : Tail(q)[k] = q[k + 1]
         /\ Tail(q) = <<>> <=> Len(q) = 1
<1>1. Len(q) \in Nat /\ Len(q) # 0
  BY EmptySeq
<1>2. Tail(q) \in Seq(S) /\ Len(Tail(q)) = Len(q) - 1
  BY <1>1
<1>3. Tail(q) = <<>> <=> Len(q) = 1
  <2>1. PICK r : r = Tail(q)
    OBVIOUS
  <2>2. r = <<>> <=> Len(r) = 0
    BY <1>2, <2>1, EmptySeq
  <2> QED
    BY <1>1, <1>2, <2>1, <2>2
<1> QED
  BY <1>1, <1>2, <1>3

----------------------------------------------------------------------------
(* Types.                                                                    *)

LEMMA InitType == Init => TypeInv
<1> SUFFICES ASSUME Init PROVE TypeInv
  OBVIOUS
<1>1. TypeOK
  BY SingleAssumption, ValuesAre, EmptySeq
     DEF Init, TypeOK, NoReq, Requests, Threads, Idle
<1>2. HeapIsLive /\ InHandIsLive /\ CommandsAreRead
  BY DEF Init, HeapIsLive, InHandIsLive, CommandsAreRead, Ends, Sending, AllThreads
<1> QED
  BY <1>1, <1>2 DEF TypeInv

LEMMA KernelIssuesType ==
  ASSUME TypeInv, KernelIssues PROVE TypeInv'
<1>1. issued \in Nat /\ issued < MaxReqs /\ issued \in Requests /\ got \in 0 .. issued
  BY SingleAssumption DEF TypeInv, TypeOK, KernelIssues, Requests
<1>2. PICK s \in Shapes : shape' = [shape EXCEPT ![issued] = s]
  BY DEF KernelIssues
<1>3. \A a \in Addrs : heap[a] # Freed => heap[a] \in Requests /\ heap[a] # issued
  BY <1>1 DEF TypeInv, TypeOK, HeapIsLive
<1>4. UNCHANGED <<program, got, heap, dataBuf, replies, sendVars, rx, toIot, fromIot, nodeVars, closed, fault>>
  BY DEF KernelIssues
<1>5. issued' = issued + 1 /\ got' \in 0 .. issued' /\ issued' \in 0 .. MaxReqs
  BY <1>1, <1>4, SingleAssumption DEF KernelIssues
<1>6. shape' \in [Requests -> Shapes \cup {NoReq}] /\ \A n \in Requests : n # issued => shape'[n] = shape[n]
  BY <1>2 DEF TypeInv, TypeOK
<1>7. rx # Idle => rx \in Sends /\ rx.req \in Requests /\ rx.req # issued
  <2>1. rx # Idle => rx \in Sends /\ rx.uid \in Addrs /\ rx.req \in Requests /\ heap[rx.uid] = rx.req
    BY DEF TypeInv, TypeOK, InHandIsLive, Sends
  <2> QED
    BY <1>3, <2>1, Distinct
<1>8. cmd # Idle => cmd \in Sends /\ cmd.req \in Requests /\ cmd.req # issued
  BY <1>1 DEF TypeInv, TypeOK, CommandsAreRead, Sends
<1>9. step' \in IF cmd' = Idle THEN {0} ELSE 0 .. shape'[cmd'.req].len
  BY <1>4, <1>6, <1>8 DEF TypeInv, TypeOK, nodeVars
<1>10. rx' # Idle /\ shape'[rx'.req].type = "READ" => rx'.pos \in 0 .. shape'[rx'.req].len - 1
  BY <1>4, <1>6, <1>7 DEF TypeInv, TypeOK, Frags
<1>11. TypeOK'
  BY <1>4, <1>5, <1>6, <1>9, <1>10
     DEF TypeInv, TypeOK, sendVars, nodeVars, Threads, Pooled, Frags
<1>12. HeapIsLive' /\ InHandIsLive'
  BY <1>4, <1>6, <1>7 DEF TypeInv, HeapIsLive, InHandIsLive, Running
<1>13. \A t \in AllThreads : Sending(t) => out[t].req \in Requests /\ out[t].req # issued
  BY <1>1 DEF TypeInv, TypeOK, CommandsAreRead, Sending, Sends, AllThreads
<1>14. CommandsAreRead'
  BY <1>4, <1>6, <1>13 DEF TypeInv, CommandsAreRead, Ends, Sending, sendVars, nodeVars
<1> QED
  BY <1>11, <1>12, <1>14 DEF TypeInv

LEMMA PeerClosesType ==
  ASSUME TypeInv, PeerCloses PROVE TypeInv'
<1>1. UNCHANGED <<reqVars, sendVars, rx, fromIot, nodeVars, fault>>
  BY DEF PeerCloses
<1>2. closed' \subseteq Closable /\ (toIot' = toIot \/ toIot' = <<>>)
  BY DEF PeerCloses, TypeInv, TypeOK
<1>3. toIot' \in Seq(Chunks) /\ \A k \in 1 .. Len(toIot') : toIot'[k].req < got
  <2>1. <<>> \in Seq(Chunks) /\ Len(<<>>) = 0
    BY EmptySeq
  <2>2. CASE toIot' = <<>>
    <3>1. Len(toIot') = 0
      BY <2>1, <2>2
    <3> QED
      BY <2>1, <2>2, <3>1
  <2>3. CASE toIot' = toIot
    BY <2>3 DEF TypeInv, TypeOK, CommandsAreRead
  <2> QED
    BY <1>2, <2>2, <2>3
<1>4. TypeOK'
  BY <1>1, <1>2, <1>3 DEF TypeInv, TypeOK, reqVars, sendVars, nodeVars, Threads, Pooled, Frags
<1> QED
  BY <1>1, <1>3, <1>4
     DEF TypeInv, HeapIsLive, InHandIsLive, CommandsAreRead, Ends, Sending, Running, reqVars, sendVars, nodeVars

(* What is left of the stream to the node when it takes a chunk.             *)
LEMMA TakenType ==
  ASSUME TypeInv, toIot # <<>>, toIot' = Tail(toIot), got' = got
  PROVE  /\ Head(toIot) = toIot[1] /\ toIot[1] \in Chunks /\ toIot[1].req < got
         /\ toIot' \in Seq(Chunks) /\ \A k \in 1 .. Len(toIot') : toIot'[k].req < got'
         /\ Len(toIot) \in Nat /\ Len(toIot) >= 1 /\ Len(toIot') = Len(toIot) - 1
         /\ \A k \in 1 .. Len(toIot') : toIot'[k] = toIot[k + 1] /\ k + 1 \in 1 .. Len(toIot)
<1>1. toIot \in Seq(Chunks)
  BY DEF TypeInv, TypeOK
<1>2. PICK q : q = Tail(toIot)
  OBVIOUS
<1>3. /\ Head(toIot) = toIot[1] /\ toIot[1] \in Chunks /\ q \in Seq(Chunks)
      /\ Len(toIot) \in Nat /\ Len(toIot) >= 1 /\ Len(q) = Len(toIot) - 1
      /\ \A k \in 1 .. Len(toIot) - 1 : q[k] = toIot[k + 1]
  BY <1>1, <1>2, TailIs
<1>4. \A k \in 1 .. Len(q) : q[k] = toIot[k + 1] /\ k + 1 \in 1 .. Len(toIot)
  BY <1>3
<1>5. \A k \in 1 .. Len(toIot) : toIot[k].req < got
  BY DEF TypeInv, CommandsAreRead
<1>6. \A k \in 1 .. Len(q) : q[k].req < got
  BY <1>4, <1>5
<1>7. 1 \in 1 .. Len(toIot)
  BY <1>3
<1> QED
  BY <1>2, <1>3, <1>4, <1>5, <1>6, <1>7

LEMMA IotReadsHeaderType ==
  ASSUME TypeInv, IotReadsHeader PROVE TypeInv'
<1>1. /\ toIot # <<>> /\ toIot' = Tail(toIot) /\ Head(toIot).idx = 0
      /\ cmd' = [uid |-> Head(toIot).uid, req |-> Head(toIot).req, pos |-> 0] /\ step' = 0
      /\ UNCHANGED <<reqVars, sendVars, rx, fromIot, store, closed, fault>>
  BY DEF IotReadsHeader
<1>2. /\ Head(toIot) \in Chunks /\ Head(toIot).req < got
      /\ toIot' \in Seq(Chunks) /\ \A k \in 1 .. Len(toIot') : toIot'[k].req < got'
  BY <1>1, TakenType DEF reqVars
<1>3. cmd' \in Sends /\ cmd'.req < got /\ cmd'.req \in Requests
  BY <1>1, <1>2 DEF Chunks, Sends
<1>4. step' \in 0 .. shape[cmd'.req].len
  BY <1>1, <1>3, ShapeIs DEF TypeInv
<1>5. TypeOK'
  BY <1>1, <1>2, <1>3, <1>4, Distinct DEF TypeInv, TypeOK, reqVars, sendVars, Threads, Pooled, Frags
<1> QED
  BY <1>1, <1>2, <1>3, <1>5
     DEF TypeInv, HeapIsLive, InHandIsLive, CommandsAreRead, Ends, Sending, Running, reqVars, sendVars

(* The command the node is at and the block its step is about.               *)
LEMMA CommandIs ==
  ASSUME TypeInv, cmd # Idle
  PROVE  /\ cmd \in Sends /\ cmd.uid \in Addrs /\ cmd.req \in Requests /\ cmd.req < got
         /\ step \in Nat /\ step <= shape[cmd.req].len /\ shape[cmd.req].len \in Nat
         /\ step < shape[cmd.req].len => shape[cmd.req].first + step \in Blocks
         /\ step > 0 => shape[cmd.req].first + step - 1 \in Blocks /\ step - 1 \in Blocks
<1>1. cmd \in Sends /\ cmd.uid \in Addrs /\ cmd.req \in Requests /\ cmd.req < got
  BY DEF TypeInv, TypeOK, Sends, CommandsAreRead
<1>2. step \in 0 .. shape[cmd.req].len
  BY DEF TypeInv, TypeOK
<1>3. /\ shape[cmd.req].len \in Nat /\ shape[cmd.req].first \in Nat
      /\ \A i \in 0 .. shape[cmd.req].len - 1 : i \in Blocks /\ shape[cmd.req].first + i \in Blocks
  BY <1>1, ShapeIs DEF TypeInv
<1>4. step > 0 => step - 1 \in 0 .. shape[cmd.req].len - 1
                  /\ shape[cmd.req].first + (step - 1) = shape[cmd.req].first + step - 1
  BY <1>2, <1>3
<1>5. step < shape[cmd.req].len => step \in 0 .. shape[cmd.req].len - 1
  BY <1>2, <1>3
<1> QED
  BY <1>1, <1>2, <1>3, <1>4, <1>5

LEMMA IotStoresType ==
  ASSUME TypeInv, IotStores PROVE TypeInv'
<1>1. /\ toIot # <<>> /\ toIot' = Tail(toIot) /\ cmd # Idle /\ step < shape[cmd.req].len
      /\ step' = step + 1
      /\ UNCHANGED <<reqVars, sendVars, rx, fromIot, cmd, closed, fault>>
  BY DEF IotStores
<1>2. /\ Head(toIot) \in Chunks
      /\ toIot' \in Seq(Chunks) /\ \A k \in 1 .. Len(toIot') : toIot'[k].req < got'
  BY <1>1, TakenType DEF reqVars
<1>3. store' \in [Blocks -> Values]
  <2>1. store' = [store EXCEPT ![shape[cmd.req].first + step] =
                    IF Head(toIot).idx = 0 THEN Junk ELSE Head(toIot).val]
    BY DEF IotStores
  <2>2. (IF Head(toIot).idx = 0 THEN Junk ELSE Head(toIot).val) \in Values
    BY <1>2, ValuesAre DEF Chunks
  <2> QED
    BY <2>1, <2>2 DEF TypeInv, TypeOK
<1>4. step' \in 0 .. shape[cmd.req].len
  BY <1>1, CommandIs
<1>5. TypeOK'
  BY <1>1, <1>2, <1>3, <1>4 DEF TypeInv, TypeOK, reqVars, sendVars, Threads, Pooled, Frags
<1> QED
  BY <1>1, <1>2, <1>5
     DEF TypeInv, HeapIsLive, InHandIsLive, CommandsAreRead, Ends, Sending, Running, reqVars, sendVars

(* The reply chunk the node makes.                                           *)
MadeChunk ==
  LET i == Made IN
    Chunk(cmd.uid, cmd.req, i, IF i = 0 THEN Blank ELSE store[shape[cmd.req].first + i - 1])

LEMMA MadeChunkIs ==
  ASSUME TypeInv, IotReplies
  PROVE  /\ cmd # Idle /\ Made \in Nat /\ MadeChunk \in Chunks
         /\ MadeChunk.uid = cmd.uid /\ MadeChunk.req = cmd.req /\ MadeChunk.idx = Made
         /\ MadeChunk.val = IF Made = 0 THEN Blank ELSE store[shape[cmd.req].first + Made - 1]
         /\ fromIot' = Append(fromIot, MadeChunk) /\ fromIot' \in Seq(Chunks)
         /\ fromIot' # <<>> /\ Len(fromIot) \in Nat /\ Len(fromIot') = Len(fromIot) + 1
         /\ fromIot'[Len(fromIot) + 1] = MadeChunk
         /\ \A k \in 1 .. Len(fromIot) : fromIot'[k] = fromIot[k]
<1>1. cmd # Idle
  BY DEF IotReplies
<1>2. Made \in Nat /\ (Made # 0 => Made = step)
  BY <1>1, CommandIs DEF Made
<1>3. PICK v : v = IF Made = 0 THEN Blank ELSE store[shape[cmd.req].first + Made - 1]
  OBVIOUS
<1>4. v \in Values
  BY <1>1, <1>2, <1>3, CommandIs, ValuesAre DEF TypeInv, TypeOK
<1>5. MadeChunk = Chunk(cmd.uid, cmd.req, Made, v)
  BY <1>3 DEF MadeChunk
<1>6. /\ MadeChunk \in Chunks /\ MadeChunk.uid = cmd.uid /\ MadeChunk.req = cmd.req
      /\ MadeChunk.idx = Made /\ MadeChunk.val = v
  <2>1. PICK i : i = Made
    OBVIOUS
  <2>2. i \in Nat /\ cmd.uid \in Addrs /\ cmd.req \in Requests
    BY <1>1, <1>2, <2>1, CommandIs
  <2>3. MadeChunk = Chunk(cmd.uid, cmd.req, i, v)
    BY <1>5, <2>1
  <2> QED
    BY <1>4, <2>1, <2>2, <2>3, ChunkType
<1>7. fromIot' = Append(fromIot, MadeChunk)
  BY DEF IotReplies, MadeChunk, Made
<1>8. PICK c : c = MadeChunk
  OBVIOUS
<1>9. fromIot \in Seq(Chunks) /\ c \in Chunks /\ fromIot' = Append(fromIot, c)
  BY <1>6, <1>7, <1>8 DEF TypeInv, TypeOK
<1>10. /\ fromIot' \in Seq(Chunks) /\ fromIot' # <<>> /\ Len(fromIot) \in Nat
       /\ Len(fromIot') = Len(fromIot) + 1 /\ fromIot'[Len(fromIot) + 1] = c
       /\ \A k \in 1 .. Len(fromIot) : fromIot'[k] = fromIot[k]
  BY <1>9, AppendIs
<1> QED
  BY <1>1, <1>2, <1>3, <1>6, <1>7, <1>8, <1>10

LEMMA IotRepliesType ==
  ASSUME TypeInv, IotReplies PROVE TypeInv'
<1>1. fromIot' \in Seq(Chunks) /\ cmd # Idle
  BY MadeChunkIs
<1>2. UNCHANGED <<reqVars, sendVars, rx, toIot, store, closed, fault>>
  BY DEF IotReplies
<1>3. /\ cmd' = cmd \/ cmd' = Idle
      /\ step' \in IF cmd' = Idle THEN {0} ELSE 0 .. shape[cmd'.req].len
  BY <1>1, CommandIs DEF IotReplies
<1>4. TypeOK'
  BY <1>1, <1>2, <1>3 DEF TypeInv, TypeOK, reqVars, sendVars, Threads, Pooled, Frags
<1> QED
  BY <1>2, <1>3, <1>4
     DEF TypeInv, HeapIsLive, InHandIsLive, CommandsAreRead, Ends, Sending, Running, reqVars, sendVars

LEMMA NbdHandleType ==
  ASSUME TypeInv, NbdHandle PROVE TypeInv'
<1>1. /\ got < issued /\ got' = got + 1 /\ Running /\ rx = Idle
      /\ UNCHANGED <<program, issued, shape, replies, lock, rx, toIot, fromIot, nodeVars, closed, fault>>
  BY DEF NbdHandle, ReactorFree
<1>2. got \in Nat /\ got \in Requests /\ got' \in 0 .. issued' /\ issued \in 0 .. MaxReqs
  BY <1>1, SingleAssumption DEF TypeInv, TypeOK, Requests
<1>3. PICK a \in Addrs :
        /\ heap[a] = Freed /\ heap' = [heap EXCEPT ![a] = got]
        /\ \/ tasks' = tasks \cup {ConvertToAtlas(a, got)} /\ UNCHANGED out
           \/ out' = [out EXCEPT ![Reactor] = ConvertToAtlas(a, got)] /\ UNCHANGED tasks
  BY DEF NbdHandle, Malloc
<1>4. PICK o : o = ConvertToAtlas(a, got)
  OBVIOUS
<1>5. o \in Sends /\ o.req = got /\ o.uid = a /\ o.pos = 0
  BY <1>2, <1>4 DEF ConvertToAtlas, Sends
<1>6. heap' \in [Addrs -> Requests \cup {Freed}] /\ heap'[a] = got
      /\ \A b \in Addrs : b # a => heap'[b] = heap[b]
  BY <1>2, <1>3 DEF TypeInv, TypeOK
<1>7. dataBuf' \in [Requests -> [Blocks -> Values]]
  BY <1>2, ValuesAre DEF NbdHandle, TypeInv, TypeOK
<1>8. \A b \in Addrs : heap[b] # Freed => heap[b] # got /\ heap[b] < got' /\ heap[b] \in Nat
  BY <1>1, <1>2 DEF TypeInv, TypeOK, HeapIsLive, Requests
<1>9. tasks' \subseteq Sends /\ \A t \in tasks' : t.req < got' /\ t.pos = 0
  <2>1. \A t \in tasks : t \in Sends /\ t.req < got /\ t.req \in Nat /\ t.pos = 0
    BY DEF TypeInv, TypeOK, CommandsAreRead, Sends, Requests
  <2> QED
    BY <1>1, <1>2, <1>3, <1>4, <1>5, <2>1
<1>10. /\ out' \in [AllThreads -> Sends \cup {Idle, Exited}]
       /\ \A t \in AllThreads : out'[t] \notin {Idle, Exited} =>
                                  out'[t].req < got' /\ out'[t].pos <= Ends(out'[t].req)
  <2>1. /\ out \in [AllThreads -> Sends \cup {Idle, Exited}]
        /\ \A t \in AllThreads : out[t] \notin {Idle, Exited} =>
             out[t].req \in Nat /\ out[t].req < got /\ out[t].pos <= Ends(out[t].req)
    BY DEF TypeInv, TypeOK, CommandsAreRead, Sends, Requests, AllThreads, Sending
  <2>2. \A t \in AllThreads : out'[t] = out[t] \/ out'[t] = o
    BY <1>3, <1>4, <2>1
  <2>3. out' \in [AllThreads -> Sends \cup {Idle, Exited}]
    BY <1>3, <1>4, <1>5, <2>1
  <2>4. 0 <= Ends(got)
    BY <1>2, ShapeIs DEF Ends, TypeInv
  <2> QED
    BY <1>1, <1>2, <1>5, <2>1, <2>2, <2>3, <2>4
<1>11. TypeOK'
  BY <1>1, <1>2, <1>6, <1>7, <1>9, <1>10 DEF TypeInv, TypeOK, nodeVars, Threads, Pooled, Frags, AllThreads
<1>12. HeapIsLive'
  <2>1. replies[got] = 0
    BY <1>2 DEF TypeInv, HeapIsLive, Requests
  <2>2. \A n \in Requests : replies'[n] # 0 => n < got'
    BY <1>1, <1>2 DEF TypeInv, HeapIsLive, Requests
  <2>3. ASSUME NEW b \in Addrs, heap'[b] # Freed
        PROVE  /\ heap'[b] < got' /\ replies'[heap'[b]] = 0
               /\ \A c \in Addrs : heap'[c] = heap'[b] => c = b
    <3>1. CASE b = a
      BY <1>1, <1>2, <1>6, <1>8, <2>1, <3>1, Distinct
    <3>2. CASE b # a
      BY <1>1, <1>2, <1>6, <1>8, <2>3, <3>2 DEF TypeInv, HeapIsLive
    <3> QED
      BY <3>1, <3>2
  <2> QED
    BY <2>2, <2>3 DEF HeapIsLive
<1>13. InHandIsLive'
  BY <1>1 DEF InHandIsLive
<1>14. CommandsAreRead'
  <2>1. cmd' # Idle => cmd'.req < got'
    <3>1. cmd # Idle => cmd.req \in Nat /\ cmd.req < got
      BY DEF TypeInv, TypeOK, CommandsAreRead, Sends, Requests
    <3> QED
      BY <1>1, <1>2, <3>1 DEF nodeVars
  <2>2. \A k \in 1 .. Len(toIot') : toIot'[k].req < got'
    <3>1. \A k \in 1 .. Len(toIot) : toIot[k] \in Chunks /\ toIot[k].req < got
      BY DEF TypeInv, TypeOK, CommandsAreRead
    <3>2. \A k \in 1 .. Len(toIot) : toIot[k].req \in Nat /\ toIot[k].req < got
      BY <3>1 DEF Chunks, Requests
    <3> QED
      BY <1>1, <1>2, <3>2
  <2> QED
    BY <1>1, <1>9, <1>10, <2>1, <2>2 DEF CommandsAreRead, Ends, Sending
<1> QED
  BY <1>11, <1>12, <1>13, <1>14 DEF TypeInv

(* A request answered and freed, or IotHandle dead with it.                   *)
LEMMA DoneType ==
  ASSUME TypeInv, Running, NEW o \in Sends, heap[o.uid] = o.req, NbdRequestDone(o),
         UNCHANGED <<program, issued, shape, got, sendVars, toIot, nodeVars, closed>>,
         fromIot' \in Seq(Chunks), dataBuf' \in [Requests -> [Blocks -> Values]],
         rx = Idle \/ rx = o, shape[o.req].type = "READ" => rx = o
  PROVE  TypeInv'
<1>1. o.uid \in Addrs /\ o.req \in Requests /\ o.req # Freed /\ o \notin {Idle, Exited}
  BY Distinct DEF Sends
<1>2. CASE /\ replies' = [replies EXCEPT ![o.req] = @ + 1]
           /\ heap' = [heap EXCEPT ![o.uid] = Freed]
           /\ rx' = Idle /\ UNCHANGED fault
  <2>1. replies[o.req] = 0 /\ o.req < got /\ \A b \in Addrs : heap[b] = o.req => b = o.uid
    BY <1>1 DEF TypeInv, HeapIsLive
  <2>2. /\ replies' \in [Requests -> 0 .. 1]
        /\ \A n \in Requests : n # o.req => replies'[n] = replies[n]
    BY <1>1, <1>2, <2>1 DEF TypeInv, TypeOK
  <2>3. /\ heap' \in [Addrs -> Requests \cup {Freed}] /\ heap'[o.uid] = Freed
        /\ \A b \in Addrs : b # o.uid => heap'[b] = heap[b] /\ heap[b] # o.req
    BY <1>1, <1>2, <2>1 DEF TypeInv, TypeOK
  <2>4. TypeOK'
    BY <1>2, <2>2, <2>3 DEF TypeInv, TypeOK, sendVars, nodeVars, Threads, Pooled, Frags
  <2>5. HeapIsLive'
    <3>1. \A n \in Requests : replies'[n] # 0 => n < got'
      BY <2>1, <2>2 DEF TypeInv, HeapIsLive
    <3>2. ASSUME NEW b \in Addrs, heap'[b] # Freed
          PROVE  /\ heap'[b] < got' /\ replies'[heap'[b]] = 0
                 /\ \A c \in Addrs : heap'[c] = heap'[b] => c = b
      <4>1. b # o.uid /\ heap'[b] = heap[b] /\ heap[b] \in Requests /\ heap[b] # o.req
        BY <2>3, <3>2 DEF TypeInv, TypeOK
      <4>2. heap[b] < got /\ replies[heap[b]] = 0 /\ \A c \in Addrs : heap[c] = heap[b] => c = b
        BY <3>2, <4>1 DEF TypeInv, HeapIsLive
      <4>3. \A c \in Addrs : heap'[c] = heap'[b] => c = b
        BY <2>3, <3>2, <4>1, <4>2
      <4> QED
        BY <2>2, <4>1, <4>2, <4>3
    <3> QED
      BY <3>1, <3>2 DEF HeapIsLive
  <2>6. InHandIsLive' /\ CommandsAreRead'
    BY <1>2 DEF TypeInv, InHandIsLive, CommandsAreRead, Ends, Sending, sendVars, nodeVars
  <2> QED
    BY <2>4, <2>5, <2>6 DEF TypeInv
<1>3. CASE fault' = "sigpipe" /\ rx' = o /\ UNCHANGED <<replies, heap>>
  <2>1. rx' \in Sends /\ (shape'[rx'.req].type = "READ" => rx'.pos \in 0 .. shape'[rx'.req].len - 1)
    BY <1>1, <1>3 DEF TypeInv, TypeOK, Frags
  <2>2. TypeOK'
    BY <1>3, <2>1 DEF TypeInv, TypeOK, sendVars, nodeVars, Threads, Pooled, Frags
  <2>3. HeapIsLive' /\ InHandIsLive' /\ CommandsAreRead'
    BY <1>1, <1>3 DEF TypeInv, HeapIsLive, InHandIsLive, CommandsAreRead, Ends, Sending, Running, sendVars, nodeVars
  <2> QED
    BY <2>2, <2>3 DEF TypeInv
<1> QED
  BY <1>2, <1>3 DEF NbdRequestDone

(* What IotHandle takes from the stream.                                     *)
LEMMA ReceivedType ==
  ASSUME TypeInv, fromIot # <<>>, fromIot' = Tail(fromIot)
  PROVE  /\ Head(fromIot) = fromIot[1] /\ fromIot[1] \in Chunks /\ fromIot' \in Seq(Chunks)
         /\ Len(fromIot) \in Nat /\ Len(fromIot) >= 1 /\ Len(fromIot') = Len(fromIot) - 1
         /\ \A k \in 1 .. Len(fromIot') : fromIot'[k] = fromIot[k + 1] /\ k + 1 \in 1 .. Len(fromIot)
         /\ fromIot' = <<>> <=> Len(fromIot) = 1
<1>1. fromIot \in Seq(Chunks)
  BY DEF TypeInv, TypeOK
<1>2. PICK q : q = Tail(fromIot)
  OBVIOUS
<1>3. /\ Head(fromIot) = fromIot[1] /\ fromIot[1] \in Chunks /\ q \in Seq(Chunks)
      /\ Len(fromIot) \in Nat /\ Len(fromIot) >= 1 /\ Len(q) = Len(fromIot) - 1
      /\ \A k \in 1 .. Len(fromIot) - 1 : q[k] = fromIot[k + 1]
      /\ q = <<>> <=> Len(fromIot) = 1
  BY <1>1, <1>2, TailIs
<1>4. \A k \in 1 .. Len(q) : q[k] = fromIot[k + 1] /\ k + 1 \in 1 .. Len(fromIot)
  BY <1>3
<1> QED
  BY <1>2, <1>3, <1>4

LEMMA IotHandleType ==
  ASSUME TypeInv, IotHandle PROVE TypeInv'
<1>1. /\ Running /\ rx = Idle /\ fromIot # <<>> /\ fromIot' = Tail(fromIot)
      /\ UNCHANGED <<program, issued, shape, got, dataBuf, sendVars, toIot, nodeVars, closed>>
  BY DEF IotHandle, ReactorFree
<1>2. fromIot' \in Seq(Chunks) /\ Head(fromIot).uid \in Addrs
  BY <1>1, ReceivedType DEF Chunks
<1>3. PICK a \in Addrs : a = Head(fromIot).uid
  BY <1>2
<1>4. PICK o : o = [uid |-> a, req |-> heap[a], pos |-> 0]
  OBVIOUS
<1>5. CASE heap[a] = Freed
  <2>1. fault' = "freed_request" /\ UNCHANGED <<heap, replies, rx>>
    BY <1>3, <1>5 DEF IotHandle
  <2>2. TypeOK'
    BY <1>1, <1>2, <2>1 DEF TypeInv, TypeOK, sendVars, nodeVars, Threads, Pooled, Frags
  <2> QED
    BY <1>1, <2>1, <2>2
       DEF TypeInv, HeapIsLive, InHandIsLive, CommandsAreRead, Ends, Sending, Running, sendVars, nodeVars
<1>6. CASE heap[a] # Freed /\ shape[heap[a]].type = "READ"
  <2>1. rx' = o /\ UNCHANGED <<heap, replies, fault>>
    BY <1>3, <1>4, <1>6 DEF IotHandle
  <2>2. o \in Sends /\ o.req \in Requests /\ o.uid = a /\ o.req = heap[a] /\ o.pos = 0
    BY <1>4, <1>6 DEF TypeInv, TypeOK, Sends
  <2>3. 0 \in Frags(o.req)'
    BY <1>1, <1>6, <2>2, ShapeIs DEF TypeInv, Frags
  <2>4. TypeOK'
    BY <1>1, <1>2, <2>1, <2>2, <2>3 DEF TypeInv, TypeOK, sendVars, nodeVars, Threads, Pooled
  <2> QED
    BY <1>1, <1>6, <2>1, <2>2, <2>4
       DEF TypeInv, HeapIsLive, InHandIsLive, CommandsAreRead, Ends, Sending, Running, sendVars, nodeVars
<1>7. CASE heap[a] # Freed /\ shape[heap[a]].type # "READ"
  <2>1. NbdRequestDone(o)
    BY <1>3, <1>4, <1>7 DEF IotHandle
  <2>2. o \in Sends /\ heap[o.uid] = o.req /\ shape[o.req].type # "READ"
    BY <1>4, <1>7 DEF TypeInv, TypeOK, Sends
  <2>3. dataBuf' \in [Requests -> [Blocks -> Values]]
    BY <1>1 DEF TypeInv, TypeOK
  <2> QED
    BY <1>1, <1>2, <2>1, <2>2, <2>3, DoneType
<1> QED
  BY <1>5, <1>6, <1>7

LEMMA IotHandleDataType ==
  ASSUME TypeInv, IotHandleData PROVE TypeInv'
<1>1. /\ Running /\ rx # Idle /\ fromIot # <<>> /\ fromIot' = Tail(fromIot)
      /\ dataBuf' = [dataBuf EXCEPT ![rx.req][rx.pos] = Head(fromIot).val]
      /\ UNCHANGED <<program, issued, shape, got, sendVars, toIot, nodeVars, closed>>
  BY DEF IotHandleData
<1>2. fromIot' \in Seq(Chunks) /\ Head(fromIot).val \in Values
  BY <1>1, ReceivedType DEF Chunks
<1>3. /\ rx \in Sends /\ rx.uid \in Addrs /\ rx.req \in Requests /\ rx.pos \in Nat
      /\ heap[rx.uid] = rx.req /\ shape[rx.req].type = "READ" /\ rx.pos \in 0 .. shape[rx.req].len - 1
  BY <1>1 DEF TypeInv, TypeOK, InHandIsLive, Sends, Frags
<1>4. shape[rx.req].len \in Nat /\ rx.pos \in Blocks
  BY <1>3, ShapeIs DEF TypeInv
<1>5. dataBuf' \in [Requests -> [Blocks -> Values]]
  BY <1>1, <1>2, <1>3, <1>4 DEF TypeInv, TypeOK
<1>6. CASE NbdRequestDone(rx)
  BY <1>1, <1>2, <1>3, <1>5, <1>6, DoneType
<1>7. CASE /\ ~IotHandleLast(rx.req, rx.pos) /\ rx' = [rx EXCEPT !.pos = @ + 1]
           /\ UNCHANGED <<heap, replies, fault>>
  <2>1. rx' \in Sends /\ rx'.req = rx.req /\ rx'.uid = rx.uid /\ rx'.pos = rx.pos + 1 /\ rx' # Idle
    BY <1>3, <1>7, Distinct DEF Sends
  <2>2. rx'.pos \in 0 .. shape'[rx'.req].len - 1
    BY <1>1, <1>3, <1>4, <1>7, <2>1 DEF IotHandleLast
  <2>3. TypeOK'
    BY <1>1, <1>2, <1>5, <1>7, <2>1, <2>2 DEF TypeInv, TypeOK, sendVars, nodeVars, Threads, Pooled, Frags
  <2> QED
    BY <1>1, <1>3, <1>7, <2>1, <2>3
       DEF TypeInv, HeapIsLive, InHandIsLive, CommandsAreRead, Ends, Sending, Running, sendVars, nodeVars
<1> QED
  BY <1>6, <1>7 DEF IotHandleData

LEMMA ReadClosedType ==
  ASSUME TypeInv, ReadClosed PROVE TypeInv'
<1>1. /\ fault' = "assert" /\ Running
      /\ UNCHANGED <<reqVars, sendVars, rx, toIot, fromIot, nodeVars, closed>>
  BY DEF ReadClosed
<1>2. TypeOK'
  BY <1>1 DEF TypeInv, TypeOK, reqVars, sendVars, nodeVars, Threads, Pooled, Frags
<1> QED
  BY <1>1, <1>2
     DEF TypeInv, HeapIsLive, InHandIsLive, CommandsAreRead, Ends, Sending, Running, reqVars, sendVars, nodeVars

LEMMA DequeueType ==
  ASSUME TypeInv, NEW w \in Workers, Dequeue(w) PROVE TypeInv'
<1>1. PICK t \in tasks : out' = [out EXCEPT ![w] = t] /\ tasks' = tasks \ {t}
  BY DEF Dequeue
<1>2. UNCHANGED <<reqVars, lock, rx, toIot, fromIot, nodeVars, closed, fault>>
  BY DEF Dequeue
<1>3. t \in Sends /\ t.req < got /\ t.pos = 0 /\ 0 <= Ends(t.req)
  BY ShapeIs DEF TypeInv, TypeOK, CommandsAreRead, Ends, Sends
<1>4. /\ out' \in [AllThreads -> Sends \cup {Idle, Exited}]
      /\ \A u \in AllThreads : out'[u] = IF u = w THEN t ELSE out[u]
  BY <1>1, <1>3 DEF TypeInv, TypeOK, AllThreads
<1>5. TypeOK'
  BY <1>1, <1>2, <1>4 DEF TypeInv, TypeOK, reqVars, nodeVars, Threads, Pooled, Frags, AllThreads
<1>6. CommandsAreRead'
  BY <1>1, <1>2, <1>3, <1>4 DEF TypeInv, CommandsAreRead, Ends, Sending, reqVars, nodeVars
<1> QED
  BY <1>2, <1>5, <1>6
     DEF TypeInv, HeapIsLive, InHandIsLive, Running, reqVars, nodeVars

(* What SendChunk adds to the stream.                                        *)
LEMMA SentChunkIs ==
  ASSUME TypeInv, NEW t \in AllThreads, SendChunk(t)
  PROVE  /\ Sending(t) /\ out[t] \in Sends /\ out[t].pos \in Nat /\ out[t].req \in Requests
         /\ NextChunk(t) \in Chunks /\ NextChunk(t).uid = out[t].uid
         /\ NextChunk(t).req = out[t].req /\ NextChunk(t).idx = out[t].pos
         /\ toIot' \in Seq(Chunks) /\ toIot' # <<>>
         /\ Len(toIot) \in Nat /\ Len(toIot') = Len(toIot) + 1
         /\ toIot'[Len(toIot) + 1] = NextChunk(t)
         /\ \A k \in 1 .. Len(toIot) : toIot'[k] = toIot[k]
<1>1. Sending(t) /\ toIot' = Append(toIot, NextChunk(t))
  BY DEF SendChunk, Sending
<1>2. /\ out[t] \in Sends /\ out[t].uid \in Addrs /\ out[t].req \in Requests /\ out[t].pos \in Nat
  BY <1>1 DEF TypeInv, TypeOK, Sending, AllThreads, Sends
<1>3. PICK v : v = IF out[t].pos = 0 THEN Blank
                   ELSE IF Owns(t) THEN dataBuf[out[t].req][out[t].pos - 1] ELSE Junk
  OBVIOUS
<1>4. v \in Values
  <2>1. out[t].pos > 0 => out[t].pos - 1 \in Blocks
    <3>1. out[t].pos <= Ends(out[t].req)
      BY <1>1 DEF TypeInv, CommandsAreRead
    <3>2. out[t].pos > 0 => out[t].pos - 1 \in 0 .. shape[out[t].req].len - 1
      BY <1>2, <3>1, ShapeIs DEF TypeInv, Ends
    <3> QED
      BY <1>2, <3>2, ShapeIs DEF TypeInv
  <2> QED
    BY <1>2, <1>3, <2>1, ValuesAre DEF TypeInv, TypeOK
<1>5. NextChunk(t) = Chunk(out[t].uid, out[t].req, out[t].pos, v)
  BY <1>3 DEF NextChunk
<1>6. /\ NextChunk(t) \in Chunks /\ NextChunk(t).uid = out[t].uid
      /\ NextChunk(t).req = out[t].req /\ NextChunk(t).idx = out[t].pos
  BY <1>2, <1>4, <1>5, ChunkType
<1>7. PICK c : c = NextChunk(t)
  OBVIOUS
<1>8. toIot \in Seq(Chunks) /\ c \in Chunks /\ toIot' = Append(toIot, c)
  BY <1>1, <1>6, <1>7 DEF TypeInv, TypeOK
<1>9. /\ toIot' \in Seq(Chunks) /\ toIot' # <<>> /\ Len(toIot) \in Nat
      /\ Len(toIot') = Len(toIot) + 1 /\ toIot'[Len(toIot) + 1] = c
      /\ \A k \in 1 .. Len(toIot) : toIot'[k] = toIot[k]
  BY <1>8, AppendIs
<1> QED
  BY <1>1, <1>2, <1>6, <1>7, <1>9

LEMMA SendChunkType ==
  ASSUME TypeInv, NEW t \in Threads, SendChunk(t) PROVE TypeInv'
<1>1. t \in AllThreads
  BY DEF Threads, AllThreads
<1>2. UNCHANGED <<reqVars, tasks, rx, fromIot, nodeVars, closed, fault>>
  BY DEF SendChunk
<1>3. /\ Sending(t) /\ out[t] \in Sends /\ out[t].pos \in Nat /\ out[t].req \in Requests
      /\ toIot' \in Seq(Chunks) /\ Len(toIot) \in Nat /\ Len(toIot') = Len(toIot) + 1
      /\ toIot'[Len(toIot) + 1].req = out[t].req
      /\ \A k \in 1 .. Len(toIot) : toIot'[k] = toIot[k]
  BY <1>1, SentChunkIs
<1>4. out[t].req < got /\ out[t].pos <= Ends(out[t].req) /\ Ends(out[t].req) \in Nat
  BY <1>1, <1>3, ShapeIs DEF TypeInv, CommandsAreRead, Ends
<1>5. /\ out' \in [AllThreads -> Sends \cup {Idle, Exited}]
      /\ \A u \in AllThreads : u # t => out'[u] = out[u]
      /\ out'[t] = Idle \/ /\ out'[t].req = out[t].req /\ out'[t].pos = out[t].pos + 1
                           /\ out[t].pos # Ends(out[t].req)
  <2>1. out \in [AllThreads -> Sends \cup {Idle, Exited}]
    BY DEF TypeInv, TypeOK, AllThreads
  <2>2. CASE LastChunk(t) /\ out' = [out EXCEPT ![t] = Idle]
    BY <1>1, <2>1, <2>2
  <2>3. CASE ~LastChunk(t) /\ out' = [out EXCEPT ![t].pos = @ + 1]
    <3>1. PICK o : o = [out[t] EXCEPT !.pos = @ + 1]
      OBVIOUS
    <3>2. o \in Sends /\ o.req = out[t].req /\ o.pos = out[t].pos + 1
      BY <1>3, <3>1 DEF Sends
    <3>3. out' = [out EXCEPT ![t] = o]
      BY <2>3, <3>1
    <3> QED
      BY <1>1, <2>1, <2>3, <3>2, <3>3 DEF LastChunk, Ends
  <2> QED
    BY <2>2, <2>3 DEF SendChunk
<1>6. lock' \in (Threads \cup {NoThread})'
  <2>1. Threads' = Threads
    BY <1>2 DEF Threads, Pooled, reqVars
  <2>2. lock' \in {NoThread, t}
    BY DEF SendChunk
  <2> QED
    BY <2>1, <2>2
<1>7. TypeOK'
  BY <1>2, <1>3, <1>5, <1>6 DEF TypeInv, TypeOK, reqVars, nodeVars, Frags, AllThreads
<1>8. CommandsAreRead'
  <2>1. \A k \in 1 .. Len(toIot') : toIot'[k].req < got
    <3>1. \A k \in 1 .. Len(toIot') : k \in 1 .. Len(toIot) \/ k = Len(toIot) + 1
      BY <1>3
    <3> QED
      BY <1>3, <1>4, <3>1 DEF TypeInv, CommandsAreRead
  <2>2. \A u \in AllThreads : out'[u] \notin {Idle, Exited} =>
                                out'[u].req < got /\ out'[u].pos <= Ends(out'[u].req)
    BY <1>3, <1>4, <1>5 DEF TypeInv, CommandsAreRead, Sending
  <2> QED
    BY <1>2, <2>1, <2>2 DEF TypeInv, CommandsAreRead, Ends, Sending, reqVars, nodeVars
<1> QED
  BY <1>2, <1>7, <1>8
     DEF TypeInv, HeapIsLive, InHandIsLive, Running, reqVars, nodeVars

LEMMA SendFailsType ==
  ASSUME TypeInv, NEW t \in Threads, SendFails(t) PROVE TypeInv'
<1>1. UNCHANGED <<reqVars, tasks, rx, toIot, fromIot, nodeVars, closed>>
  BY DEF SendFails
<1>2. /\ out' \in [AllThreads -> Sends \cup {Idle, Exited}]
      /\ \A u \in AllThreads : out'[u] = out[u] \/ out'[u] \in {Idle, Exited}
  <2>1. out \in [AllThreads -> Sends \cup {Idle, Exited}] /\ t \in AllThreads
    BY DEF TypeInv, TypeOK, AllThreads, Threads
  <2>2. out' = out \/ out' = [out EXCEPT ![t] = Idle] \/ out' = [out EXCEPT ![t] = Exited]
    BY DEF SendFails
  <2> QED
    BY <2>1, <2>2
<1>3. lock' \in Threads' \cup {NoThread} /\ fault' \in {fault, "sigpipe"} /\ Running
  BY <1>1 DEF SendFails, TypeInv, TypeOK, Threads, Pooled, reqVars
<1>4. TypeOK'
  BY <1>1, <1>2, <1>3 DEF TypeInv, TypeOK, reqVars, nodeVars, Frags, AllThreads, Threads, Pooled
<1>5. CommandsAreRead'
  BY <1>1, <1>2 DEF TypeInv, CommandsAreRead, Ends, Sending, reqVars, nodeVars
<1>6. InHandIsLive'
  BY <1>1, <1>3 DEF TypeInv, InHandIsLive, Running, reqVars
<1> QED
  BY <1>1, <1>4, <1>5, <1>6 DEF TypeInv, HeapIsLive, reqVars

LEMMA TypeStutter ==
  ASSUME TypeInv, UNCHANGED vars PROVE TypeInv'
<1>1. TypeOK'
  BY DEF TypeInv, TypeOK, vars, reqVars, sendVars, nodeVars, Threads, Pooled, Frags
<1> QED
  BY <1>1 DEF TypeInv, HeapIsLive, InHandIsLive, CommandsAreRead, Ends, Sending, Running,
              vars, reqVars, sendVars, nodeVars

LEMMA TypeStep ==
  ASSUME TypeInv, [Next]_vars PROVE TypeInv'
<1>1. CASE KernelIssues
  BY <1>1, KernelIssuesType
<1>2. CASE PeerCloses
  BY <1>2, PeerClosesType
<1>3. CASE IotStep
  BY <1>3, IotReadsHeaderType, IotStoresType, IotRepliesType DEF IotStep
<1>4. CASE ReactorStep
  BY <1>4, NbdHandleType, IotHandleType, IotHandleDataType, ReadClosedType DEF ReactorStep
<1>5. CASE \E t \in Threads : SendStep(t)
  BY <1>5, SendChunkType, SendFailsType DEF SendStep
<1>6. CASE \E w \in Workers : Dequeue(w)
  BY <1>6, DequeueType
<1>7. CASE Quiet \/ UNCHANGED vars
  BY <1>7, TypeStutter DEF Quiet
<1> QED
  BY <1>1, <1>2, <1>3, <1>4, <1>5, <1>6, <1>7 DEF Next

(* The types of the variables; in particular a request is answered at most     *)
(* once and a READ is not read past its end, whether or not messages mix.      *)
THEOREM TypeCorrect == Spec => []TypeOK
<1>1. Spec => []TypeInv
  BY InitType, TypeStep, PTL DEF Spec
<1>2. TypeInv => TypeOK
  BY DEF TypeInv
<1> QED
  BY <1>1, <1>2, PTL

----------------------------------------------------------------------------
(* What the invariant says of those who mention a request.                    *)

LEMMA StreamsAre ==
  ASSUME TypeInv
  PROVE  /\ Len(toIot) \in Nat /\ (toIot = <<>> <=> Len(toIot) = 0)
         /\ Len(fromIot) \in Nat /\ (fromIot = <<>> <=> Len(fromIot) = 0)
         /\ \A k \in 1 .. Len(toIot) : /\ toIot[k].uid \in Addrs /\ toIot[k].req \in Requests
                                       /\ toIot[k].idx \in Nat
         /\ \A k \in 1 .. Len(fromIot) : /\ fromIot[k].uid \in Addrs /\ fromIot[k].req \in Requests
                                         /\ fromIot[k].idx \in Nat
<1>1. toIot \in Seq(Chunks) /\ fromIot \in Seq(Chunks)
  BY DEF TypeInv, TypeOK
<1>2. /\ Len(toIot) \in Nat /\ (toIot = <<>> <=> Len(toIot) = 0)
      /\ Len(fromIot) \in Nat /\ (fromIot = <<>> <=> Len(fromIot) = 0)
  BY <1>1, EmptySeq
<1>3. /\ \A k \in 1 .. Len(toIot) : toIot[k] \in Chunks
      /\ \A k \in 1 .. Len(fromIot) : fromIot[k] \in Chunks
  BY <1>1
<1> QED
  BY <1>2, <1>3 DEF Chunks

LEMMA SendsAre ==
  ASSUME TypeInv
  PROVE  /\ \A t \in tasks : /\ t \in Sends /\ t.uid \in Addrs /\ t.req \in Requests /\ t.pos = 0
         /\ \A t \in AllThreads : Sending(t) =>
              /\ out[t] \in Sends /\ out[t].uid \in Addrs /\ out[t].req \in Requests
              /\ out[t].pos \in Nat /\ out[t].pos <= Ends(out[t].req)
         /\ cmd # Idle => cmd.uid \in Addrs /\ cmd.req \in Requests
         /\ rx # Idle => rx.uid \in Addrs /\ rx.req \in Requests /\ rx.pos \in Nat
         /\ step \in Nat /\ Made \in Nat
         /\ \A n \in Requests : Ends(n) \in Nat /\ ReplyEnds(n) \in Nat /\ n \in Nat
         /\ got \in Nat
<1>1. /\ \A t \in tasks : t \in Sends /\ t.pos = 0
      /\ \A t \in AllThreads : Sending(t) => out[t] \in Sends /\ out[t].pos <= Ends(out[t].req)
      /\ cmd # Idle => cmd \in Sends
      /\ rx # Idle => rx \in Sends
  BY DEF TypeInv, TypeOK, CommandsAreRead, Sending, AllThreads
<1>2. step \in Nat /\ Made \in Nat
  <2>1. step \in Nat
    <3>1. CASE cmd = Idle
      BY <3>1 DEF TypeInv, TypeOK
    <3>2. CASE cmd # Idle
      BY <3>2, CommandIs
    <3> QED
      BY <3>1, <3>2
  <2> QED
    BY <2>1 DEF Made
<1>3. \A n \in Requests : Ends(n) \in Nat /\ ReplyEnds(n) \in Nat /\ n \in Nat
  BY ShapeIs, SingleAssumption DEF TypeInv, Ends, ReplyEnds, Requests
<1>4. got \in Nat
  BY SingleAssumption DEF TypeInv, TypeOK
<1> QED
  BY <1>1, <1>2, <1>3, <1>4 DEF Sends

LEMMA LiveIs ==
  ASSUME TypeInv, NEW a \in Addrs, NEW n \in Requests, heap[a] = n
  PROVE  n < got /\ replies[n] = 0 /\ \A b \in Addrs : heap[b] = n => b = a
  BY Distinct DEF TypeInv, HeapIsLive

(* Nobody mentions a request that was not read.                              *)
LEMMA MentionsRead ==
  ASSUME TypeInv, Named
  PROVE  /\ \A t \in tasks : t.req < got
         /\ \A t \in AllThreads : Sending(t) => out[t].req < got
         /\ cmd # Idle => cmd.req < got
         /\ rx # Idle => rx.req < got
         /\ \A k \in 1 .. Len(toIot) : toIot[k].req < got
         /\ \A k \in 1 .. Len(fromIot) : fromIot[k].req < got
<1>1. rx # Idle => rx.req < got
  BY SendsAre, LiveIs DEF TypeInv, InHandIsLive
<1>2. \A k \in 1 .. Len(fromIot) : fromIot[k].req < got
  BY StreamsAre, LiveIs DEF Named
<1> QED
  BY <1>1, <1>2 DEF TypeInv, CommandsAreRead

----------------------------------------------------------------------------
(* Initially, and the kernel and the peers.                                  *)

LEMMA InitInv == Init => IInv
<1> SUFFICES ASSUME Init PROVE IInv
  OBVIOUS
<1>1. TypeInv
  BY InitType
<1>2. /\ toIot = <<>> /\ fromIot = <<>> /\ cmd = Idle /\ rx = Idle /\ tasks = {}
      /\ Len(toIot) = 0 /\ Len(fromIot) = 0
      /\ \A t \in AllThreads : out[t] = Idle
      /\ \A a \in Addrs : heap[a] = Freed
  BY EmptySeq DEF Init, AllThreads
<1>3. OthersIdle /\ Named /\ TasksFirst /\ SendersNext /\ CommandsNext /\ NodeNext /\ RepliesLast
  BY <1>2 DEF OthersIdle, Named, TasksFirst, SendersNext, CommandsNext, NodeNext, RepliesLast, Sending
<1>4. BuffersIntact /\ ChunksIntact /\ ToNodeFramed /\ FromNodeFramed
  BY <1>2 DEF BuffersIntact, ChunksIntact, ToNodeFramed, FromNodeFramed
<1>5. MidwayContinues /\ NodeContinues
  BY <1>2 DEF MidwayContinues, NodeContinues, Halfway, Reading, Midway, Sending, ReplyHalfway
<1>6. FaultsHaveACause
  BY DEF Init, FaultsHaveACause, Running
<1> QED
  BY <1>1, <1>3, <1>4, <1>5, <1>6 DEF IInv

LEMMA KernelIssuesInv ==
  ASSUME IInv, TypeInv', KernelIssues PROVE IInv'
<1>1. /\ UNCHANGED <<program, got, heap, dataBuf, replies, sendVars, rx, toIot, fromIot, nodeVars,
                     closed, fault>>
      /\ \E s \in Shapes : shape' = [shape EXCEPT ![issued] = s]
  BY DEF KernelIssues
<1>2. \A n \in Requests : n < got => shape'[n] = shape[n]
  <2>1. issued \in Nat /\ got \in 0 .. issued /\ shape \in [Requests -> Shapes \cup {NoReq}]
    BY SingleAssumption DEF IInv, TypeInv, TypeOK
  <2> QED
    BY <1>1, <2>1 DEF Requests
<1>3. \A n \in Requests : n < got => Ends(n)' = Ends(n) /\ ReplyEnds(n)' = ReplyEnds(n)
  BY <1>2 DEF Ends, ReplyEnds
<1>4. /\ \A k \in 1 .. Len(toIot) : toIot[k].req \in Requests /\ toIot[k].req < got
      /\ \A k \in 1 .. Len(fromIot) : fromIot[k].req \in Requests /\ fromIot[k].req < got
      /\ cmd # Idle => cmd.req \in Requests /\ cmd.req < got
      /\ Len(toIot) \in Nat /\ (toIot = <<>> <=> Len(toIot) = 0)
      /\ Len(fromIot) \in Nat /\ (fromIot = <<>> <=> Len(fromIot) = 0)
  BY StreamsAre, SendsAre, MentionsRead DEF IInv
<1>5. cmd # Idle => Made' = Made
  BY <1>1, <1>2, <1>4 DEF Made, nodeVars
<1>6. OthersIdle' /\ Named' /\ TasksFirst' /\ SendersNext' /\ ChunksIntact'
  BY <1>1 DEF IInv, OthersIdle, Named, TasksFirst, SendersNext, ChunksIntact, NotTaken, AtNode, InHand,
              Sending, Threads, Pooled, sendVars, nodeVars
<1>7. CommandsNext' /\ NodeNext' /\ RepliesLast'
  BY <1>1, <1>3, <1>4, <1>5
     DEF IInv, CommandsNext, NodeNext, RepliesLast, NotTaken, AtNode, InHand, nodeVars
<1>8. BuffersIntact'
  <2>1. \A a \in Addrs : heap[a] # Freed => heap[a] \in Requests /\ heap[a] < got
    BY DEF IInv, TypeInv, TypeOK, HeapIsLive
  <2> QED
    BY <1>1, <1>2, <2>1 DEF IInv, BuffersIntact
<1>9. Reading' <=> Reading
  BY <1>1, <1>3, <1>4 DEF Reading, nodeVars
<1>10. ToNodeFramed'
  BY <1>1, <1>3, <1>4, <1>9 DEF IInv, ToNodeFramed, nodeVars
<1>11. MidwayContinues'
  <2>1. (Halfway' <=> Halfway) /\ LastSent' = LastSent
    BY <1>1, <1>3, <1>4, <1>9 DEF Halfway, LastSent, nodeVars
  <2>2. \A t \in AllThreads : Midway(t)' <=> Midway(t)
    BY <1>1 DEF Midway, Sending, sendVars
  <2> QED
    BY <1>1, <2>1, <2>2 DEF IInv, MidwayContinues, sendVars
<1>12. FromNodeFramed'
  BY <1>1, <1>3, <1>4 DEF IInv, FromNodeFramed, Running
<1>13. NodeContinues'
  <2>1. (ReplyHalfway' <=> ReplyHalfway) /\ LastMade' = LastMade
    BY <1>1, <1>3, <1>4 DEF ReplyHalfway, LastMade
  <2> QED
    BY <1>1, <1>5, <2>1 DEF IInv, NodeContinues, Running, nodeVars
<1>14. FaultsHaveACause'
  BY <1>1 DEF IInv, FaultsHaveACause, Running
<1> QED
  BY <1>6, <1>7, <1>8, <1>10, <1>11, <1>12, <1>13, <1>14 DEF IInv

LEMMA PeerClosesInv ==
  ASSUME IInv, TypeInv', PeerCloses PROVE IInv'
<1>1. /\ UNCHANGED <<reqVars, sendVars, rx, fromIot, nodeVars, fault>>
      /\ closed \subseteq closed' /\ closed' # {}
  BY DEF PeerCloses
<1>2. toIot' = toIot \/ (toIot' = <<>> /\ Len(toIot') = 0 /\ "iot" \in closed')
  <2>1. Len(<<>>) = 0
    BY EmptySeq
  <2>2. toIot' = toIot \/ (toIot' = <<>> /\ "iot" \in closed')
    BY DEF PeerCloses
  <2>3. toIot' = <<>> => Len(toIot') = 0
    BY <2>1
  <2> QED
    BY <2>2, <2>3
<1>3. OthersIdle' /\ NodeNext' /\ RepliesLast' /\ BuffersIntact' /\ FromNodeFramed' /\ NodeContinues'
  BY <1>1 DEF IInv, OthersIdle, NodeNext, RepliesLast, BuffersIntact, FromNodeFramed, NodeContinues,
              Made, AtNode, InHand, ReplyEnds, ReplyHalfway, LastMade, Running, Threads, Pooled,
              reqVars, sendVars, nodeVars
<1>4. CASE toIot' = toIot
  <2>1. Named' /\ TasksFirst' /\ SendersNext' /\ CommandsNext' /\ ChunksIntact'
    BY <1>1, <1>4 DEF IInv, Named, TasksFirst, SendersNext, CommandsNext, ChunksIntact, NotTaken,
                      AtNode, InHand, Ends, Sending, reqVars, sendVars, nodeVars
  <2>2. ToNodeFramed' /\ MidwayContinues'
    BY <1>1, <1>4 DEF IInv, ToNodeFramed, MidwayContinues, Halfway, LastSent, Reading, Midway,
                      Ends, Sending, reqVars, sendVars, nodeVars
  <2> QED
    BY <1>1, <1>3, <2>1, <2>2 DEF IInv, FaultsHaveACause, Running
<1>5. CASE toIot' = <<>> /\ Len(toIot') = 0 /\ "iot" \in closed'
  <2>1. Named' /\ TasksFirst' /\ SendersNext' /\ CommandsNext' /\ ChunksIntact'
    BY <1>1, <1>5 DEF IInv, Named, TasksFirst, SendersNext, CommandsNext, ChunksIntact, NotTaken,
                      AtNode, InHand, Sending, reqVars, sendVars, nodeVars
  <2>2. ToNodeFramed' /\ MidwayContinues'
    BY <1>5 DEF ToNodeFramed, MidwayContinues
  <2> QED
    BY <1>1, <1>3, <2>1, <2>2 DEF IInv, FaultsHaveACause, Running
<1> QED
  BY <1>2, <1>4, <1>5

----------------------------------------------------------------------------
(* The node.                                                                 *)

LEMMA IotReadsHeaderInv ==
  ASSUME IInv, TypeInv', IotReadsHeader PROVE IInv'
<1>1. /\ "iot" \notin closed /\ cmd = Idle /\ toIot # <<>> /\ toIot' = Tail(toIot)
      /\ Head(toIot).idx = 0 /\ step' = 0
      /\ cmd' = [uid |-> Head(toIot).uid, req |-> Head(toIot).req, pos |-> 0]
      /\ UNCHANGED <<reqVars, sendVars, rx, fromIot, store, closed, fault>>
  BY DEF IotReadsHeader
<1>2. PICK c : c = toIot[1]
  OBVIOUS
<1>3. /\ Head(toIot) = c /\ c \in Chunks /\ c.req \in Requests /\ 1 \in 1 .. Len(toIot)
      /\ Len(toIot) \in Nat /\ Len(toIot) >= 1 /\ Len(toIot') = Len(toIot) - 1
      /\ \A k \in 1 .. Len(toIot') : /\ toIot'[k] = toIot[k + 1] /\ k + 1 \in 1 .. Len(toIot)
                                     /\ k + 1 # 1
  BY <1>1, <1>2, TakenType DEF IInv, reqVars, Chunks
<1>4. c.idx = 0 /\ cmd' # Idle /\ cmd'.req = c.req /\ cmd'.uid = c.uid
  BY <1>1, <1>3, Distinct DEF Chunks, Sends
<1>5. /\ ~InHand(c.req) /\ \A k \in 1 .. Len(fromIot) : fromIot[k].req # c.req
      /\ \A k \in 1 .. Len(toIot) : toIot[k].req = c.req /\ toIot[k].idx = 0 => k = 1
  BY <1>2, <1>3, <1>4 DEF IInv, CommandsNext, NotTaken
<1>6. \A t \in tasks : t.req # c.req
  BY <1>2, <1>3 DEF IInv, TasksFirst
<1>7. \A t \in AllThreads : Sending(t) /\ out[t].req = c.req => 0 < out[t].pos
  BY <1>2, <1>3, <1>4 DEF IInv, SendersNext
<1>8. \A k \in 1 .. Len(toIot') : toIot'[k].req = c.req => 0 < toIot'[k].idx
  <2> SUFFICES ASSUME NEW k \in 1 .. Len(toIot'), toIot'[k].req = c.req
               PROVE  0 < toIot'[k].idx
    OBVIOUS
  <2>1. PICK j : j = k + 1
    OBVIOUS
  <2>2. toIot'[k] = toIot[j] /\ j \in 1 .. Len(toIot) /\ j # 1
    BY <1>3, <2>1
  <2>3. toIot[j].idx \in Nat
    BY <2>2, StreamsAre DEF IInv
  <2>4. toIot[j].idx # 0
    BY <1>5, <2>2
  <2> QED
    BY <2>2, <2>3, <2>4
<1>9. OthersIdle' /\ TasksFirst'
  BY <1>1, <1>3, <1>4, <1>6
     DEF IInv, OthersIdle, TasksFirst, NotTaken, AtNode, InHand, Sending, Threads, Pooled, reqVars, sendVars
<1>10. Named'
  <2>1. heap' = heap /\ tasks' = tasks /\ out' = out /\ fromIot' = fromIot
    BY <1>1 DEF reqVars, sendVars
  <2>2. heap[c.uid] = c.req
    BY <1>2, <1>3 DEF IInv, Named
  <2>3. heap'[cmd'.uid] = cmd'.req
    BY <1>4, <2>1, <2>2
  <2>4. ASSUME NEW k \in 1 .. Len(toIot') PROVE heap'[toIot'[k].uid] = toIot'[k].req
    <3>1. PICK j : j \in 1 .. Len(toIot) /\ toIot'[k] = toIot[j]
      BY <1>3
    <3> QED
      BY <2>1, <3>1 DEF IInv, Named
  <2> QED
    BY <2>1, <2>3, <2>4 DEF IInv, Named, Sending
<1>11. SendersNext'
  BY <1>1, <1>3, <1>4, <1>7
     DEF IInv, SendersNext, NotTaken, AtNode, InHand, Sending, sendVars
<1>12. CommandsNext'
  <2>1. ASSUME NEW k \in 1 .. Len(toIot')
        PROVE  /\ toIot'[k].idx <= Ends(toIot'[k].req)
               /\ (cmd' # Idle /\ cmd'.req = toIot'[k].req => step' < toIot'[k].idx)
               /\ ~(rx' # Idle /\ rx'.req = toIot'[k].req)
               /\ \A j \in 1 .. Len(fromIot') : fromIot'[j].req # toIot'[k].req
    BY <1>1, <1>3, <1>4, <1>8 DEF IInv, CommandsNext, NotTaken, InHand
  <2>2. ASSUME NEW k \in 1 .. Len(toIot'), NEW j \in 1 .. Len(toIot'),
               toIot'[j].req = toIot'[k].req, toIot'[j].idx = toIot'[k].idx
        PROVE  j = k
    <3>1. PICK m, l : m = k + 1 /\ l = j + 1
      OBVIOUS
    <3>2. /\ m \in 1 .. Len(toIot) /\ toIot'[k] = toIot[m]
          /\ l \in 1 .. Len(toIot) /\ toIot'[j] = toIot[l]
      BY <1>3, <3>1
    <3>3. l = m
      BY <2>2, <3>2 DEF IInv, CommandsNext
    <3> QED
      BY <3>1, <3>3
  <2> QED
    BY <1>1, <2>1, <2>2 DEF CommandsNext, NotTaken, AtNode, InHand, Ends, reqVars
<1>13. NodeNext' /\ RepliesLast' /\ BuffersIntact'
  BY <1>1, <1>4, <1>5 DEF IInv, NodeNext, RepliesLast, BuffersIntact, ReplyEnds, InHand, reqVars
<1>14. ChunksIntact'
  BY <1>3 DEF IInv, ChunksIntact
<1>15. shape' = shape /\ (Reading' <=> 0 < Ends(c.req)) /\ (\A n \in Requests : Ends(n)' = Ends(n))
  BY <1>1, <1>4 DEF Reading, Ends, reqVars
<1>16. ToNodeFramed'
  <2>1. toIot' # <<>> => 1 \in 1 .. Len(toIot') /\ toIot'[1] = toIot[2] /\ 1 \in 1 .. Len(toIot) - 1
    BY <1>3, StreamsAre DEF IInv
  <2>2. toIot' # <<>> => IF Reading' THEN toIot'[1].req = cmd'.req /\ toIot'[1].idx = step' + 1
                                     ELSE toIot'[1].idx = 0
    BY <1>1, <1>2, <1>3, <1>4, <1>15, <2>1 DEF IInv, ToNodeFramed
  <2>3. ASSUME NEW k \in 1 .. Len(toIot') - 1
        PROVE  IF toIot'[k].idx < Ends(toIot'[k].req)
               THEN toIot'[k + 1].req = toIot'[k].req /\ toIot'[k + 1].idx = toIot'[k].idx + 1
               ELSE toIot'[k + 1].idx = 0
    <3>1. toIot'[k] = toIot[k + 1] /\ toIot'[k + 1] = toIot[k + 1 + 1] /\ k + 1 \in 1 .. Len(toIot) - 1
      BY <1>3
    <3> QED
      BY <1>1, <3>1 DEF IInv, ToNodeFramed
  <2> QED
    BY <1>15, <2>2, <2>3 DEF ToNodeFramed, Ends
<1>17. (Halfway' <=> Halfway) /\ (Halfway => LastSent' = LastSent)
  <2>1. CASE toIot' = <<>>
    <3>1. Len(<<>>) = 0
      BY EmptySeq
    <3>2. Len(toIot') = 0
      BY <2>1, <3>1
    <3>3. Len(toIot) = 1
      BY <1>3, <3>2
    <3>4. toIot[Len(toIot)] = c
      BY <1>2, <3>3
    <3> QED
      BY <1>1, <1>4, <1>15, <2>1, <3>4 DEF Halfway, LastSent
  <2>2. CASE toIot' # <<>>
    <3>1. toIot'[Len(toIot')] = toIot[Len(toIot)]
      BY <1>3, <2>2, StreamsAre DEF IInv
    <3> QED
      BY <1>1, <1>15, <2>2, <3>1 DEF Halfway, LastSent, Ends
  <2> QED
    BY <2>1, <2>2
<1>18. MidwayContinues'
  BY <1>1, <1>17 DEF IInv, MidwayContinues, Midway, Sending, sendVars
<1>19. FromNodeFramed'
  BY <1>1 DEF IInv, FromNodeFramed, Running, ReplyEnds, reqVars
<1>20. NodeContinues'
  BY <1>1, <1>4 DEF IInv, NodeContinues, ReplyHalfway, LastMade, Made, Running, ReplyEnds, reqVars
<1>21. FaultsHaveACause'
  BY <1>1 DEF IInv, FaultsHaveACause, Running
<1> QED
  BY <1>9, <1>10, <1>11, <1>12, <1>13, <1>14, <1>16, <1>18, <1>19, <1>20, <1>21 DEF IInv

LEMMA IotStoresInv ==
  ASSUME IInv, TypeInv', IotStores PROVE IInv'
<1>0. TypeInv
  BY DEF IInv
<1>1. /\ "iot" \notin closed /\ cmd # Idle /\ shape[cmd.req].type = "WRITE" /\ step < shape[cmd.req].len
      /\ toIot # <<>> /\ toIot' = Tail(toIot) /\ step' = step + 1
      /\ UNCHANGED <<reqVars, sendVars, rx, fromIot, cmd, closed, fault>>
  BY DEF IotStores
<1>2. PICK c, n : c = toIot[1] /\ n = cmd.req
  OBVIOUS
<1>3. /\ c \in Chunks /\ 1 \in 1 .. Len(toIot)
      /\ Len(toIot) \in Nat /\ Len(toIot) >= 1 /\ Len(toIot') = Len(toIot) - 1
      /\ \A k \in 1 .. Len(toIot') : /\ toIot'[k] = toIot[k + 1] /\ k + 1 \in 1 .. Len(toIot)
                                     /\ k + 1 # 1
  BY <1>0, <1>1, <1>2, TakenType DEF reqVars
<1>4. /\ n \in Requests /\ step \in Nat /\ Ends(n) = shape[n].len /\ Ends(n) \in Nat /\ Reading
      /\ Made = 0 /\ Made' = 0 /\ shape' = shape
  BY <1>0, <1>1, <1>2, CommandIs DEF Ends, Reading, Made, reqVars
<1>5. c.req = n /\ c.idx = step + 1
  BY <1>1, <1>2, <1>4 DEF IInv, ToNodeFramed
<1>6. \A t \in tasks : t.req # n
  BY <1>2, <1>3, <1>5 DEF IInv, TasksFirst
<1>7. \A t \in AllThreads : Sending(t) /\ out[t].req = n => step + 1 < out[t].pos
  BY <1>2, <1>3, <1>5 DEF IInv, SendersNext
<1>8. \A k \in 1 .. Len(toIot') : toIot'[k].req = n => step + 1 < toIot'[k].idx
  <2>1. \A k \in 1 .. Len(toIot) : toIot[k].idx \in Nat
    BY <1>0, StreamsAre
  <2>2. \A k \in 1 .. Len(toIot) : /\ toIot[k].req = n => step < toIot[k].idx
                                   /\ toIot[k].req = n /\ toIot[k].idx = step + 1 => k = 1
    BY <1>1, <1>2, <1>3, <1>5 DEF IInv, CommandsNext, NotTaken, AtNode
  <2> QED
    BY <1>3, <1>4, <2>1, <2>2
<1>9. OthersIdle' /\ TasksFirst'
  BY <1>1, <1>2, <1>3, <1>6
     DEF IInv, OthersIdle, TasksFirst, NotTaken, AtNode, InHand, Sending, Threads, Pooled, reqVars, sendVars
<1>10. Named'
  BY <1>1, <1>3 DEF IInv, Named, Sending, reqVars, sendVars
<1>11. SendersNext'
  BY <1>1, <1>2, <1>3, <1>7
     DEF IInv, SendersNext, NotTaken, AtNode, InHand, Sending, sendVars
<1>12. CommandsNext'
  <2>1. ASSUME NEW k \in 1 .. Len(toIot')
        PROVE  /\ toIot'[k].idx <= Ends(toIot'[k].req)
               /\ (cmd' # Idle /\ cmd'.req = toIot'[k].req => step' < toIot'[k].idx)
               /\ ~(rx' # Idle /\ rx'.req = toIot'[k].req)
               /\ \A j \in 1 .. Len(fromIot') : fromIot'[j].req # toIot'[k].req
    BY <1>1, <1>2, <1>3, <1>8 DEF IInv, CommandsNext, NotTaken, InHand
  <2>2. ASSUME NEW k \in 1 .. Len(toIot'), NEW j \in 1 .. Len(toIot'),
               toIot'[j].req = toIot'[k].req, toIot'[j].idx = toIot'[k].idx
        PROVE  j = k
    <3>1. PICK m, l : m = k + 1 /\ l = j + 1
      OBVIOUS
    <3>2. /\ m \in 1 .. Len(toIot) /\ toIot'[k] = toIot[m]
          /\ l \in 1 .. Len(toIot) /\ toIot'[j] = toIot[l]
      BY <1>3, <3>1
    <3>3. l = m
      BY <2>2, <3>2 DEF IInv, CommandsNext
    <3> QED
      BY <3>1, <3>3
  <2> QED
    BY <1>1, <2>1, <2>2 DEF CommandsNext, NotTaken, AtNode, InHand, Ends, reqVars
<1>13. NodeNext' /\ RepliesLast' /\ BuffersIntact'
  BY <1>1, <1>4 DEF IInv, NodeNext, RepliesLast, BuffersIntact, ReplyEnds, InHand, reqVars
<1>14. ChunksIntact'
  BY <1>3 DEF IInv, ChunksIntact
<1>15. (Reading' <=> step + 1 < Ends(n)) /\ (\A m \in Requests : Ends(m)' = Ends(m))
  BY <1>1, <1>2, <1>4 DEF Reading, Ends
<1>16. ToNodeFramed'
  <2>1. toIot' # <<>> => 1 \in 1 .. Len(toIot') /\ toIot'[1] = toIot[2] /\ 1 \in 1 .. Len(toIot) - 1
    <3>1. toIot' = <<>> <=> Len(toIot') = 0
      BY EmptySeq DEF TypeInv, TypeOK
    <3> QED
      BY <1>3, <3>1
  <2>2. toIot' # <<>> => IF Reading' THEN toIot'[1].req = cmd'.req /\ toIot'[1].idx = step' + 1
                                     ELSE toIot'[1].idx = 0
    BY <1>1, <1>2, <1>3, <1>4, <1>5, <1>15, <2>1 DEF IInv, ToNodeFramed
  <2>3. ASSUME NEW k \in 1 .. Len(toIot') - 1
        PROVE  IF toIot'[k].idx < Ends(toIot'[k].req)
               THEN toIot'[k + 1].req = toIot'[k].req /\ toIot'[k + 1].idx = toIot'[k].idx + 1
               ELSE toIot'[k + 1].idx = 0
    <3>1. toIot'[k] = toIot[k + 1] /\ toIot'[k + 1] = toIot[k + 1 + 1] /\ k + 1 \in 1 .. Len(toIot) - 1
      BY <1>3
    <3> QED
      BY <1>1, <3>1 DEF IInv, ToNodeFramed
  <2> QED
    BY <1>4, <2>2, <2>3 DEF ToNodeFramed, Ends
<1>17. (Halfway' <=> Halfway) /\ LastSent' = LastSent
  <2>1. CASE toIot' = <<>>
    <3>1. Len(<<>>) = 0
      BY EmptySeq
    <3>2. Len(toIot') = 0
      BY <2>1, <3>1
    <3>3. Len(toIot) = 1
      BY <1>3, <3>2
    <3>4. toIot[Len(toIot)] = c
      BY <1>2, <3>3
    <3> QED
      BY <1>1, <1>2, <1>5, <1>15, <2>1, <3>4 DEF Halfway, LastSent
  <2>2. CASE toIot' # <<>>
    <3>1. toIot'[Len(toIot')] = toIot[Len(toIot)]
      <4>1. Len(toIot') # 0
        BY <2>2, EmptySeq DEF TypeInv, TypeOK
      <4> QED
        BY <1>3, <4>1
    <3> QED
      BY <1>1, <1>4, <2>2, <3>1 DEF Halfway, LastSent, Ends
  <2> QED
    BY <2>1, <2>2
<1>18. MidwayContinues'
  BY <1>1, <1>17 DEF IInv, MidwayContinues, Midway, Sending, sendVars
<1>19. FromNodeFramed'
  BY <1>1 DEF IInv, FromNodeFramed, Running, ReplyEnds, reqVars
<1>20. NodeContinues'
  BY <1>1, <1>4 DEF IInv, NodeContinues, ReplyHalfway, LastMade, Running, ReplyEnds, reqVars
<1>21. FaultsHaveACause'
  BY <1>1 DEF IInv, FaultsHaveACause, Running
<1> QED
  BY <1>9, <1>10, <1>11, <1>12, <1>13, <1>14, <1>16, <1>18, <1>19, <1>20, <1>21 DEF IInv

(* A reply goes on until its last chunk, and only when the command was read.  *)
LEMMA ReplyIs ==
  ASSUME TypeInv, IotReplies
  PROVE  /\ cmd.req \in Requests /\ step \in Nat /\ Made \in Nat /\ ReplyEnds(cmd.req) \in Nat
         /\ Ends(cmd.req) <= step /\ Made <= ReplyEnds(cmd.req)
         /\ (Made > 0 => Made = step) /\ ~Reading /\ ~Reading'
         /\ \/ /\ cmd' = cmd /\ step' = step + 1 /\ Made < ReplyEnds(cmd.req)
               /\ Made = step /\ Made' = step + 1
            \/ cmd' = Idle /\ Made = ReplyEnds(cmd.req)
<1>1. /\ cmd # Idle /\ (shape[cmd.req].type = "WRITE" => step = shape[cmd.req].len)
      /\ shape' = shape
      /\ (step < shape[cmd.req].len /\ step' = step + 1 /\ cmd' = cmd) \/ (step = shape[cmd.req].len /\ cmd' = Idle)
  BY DEF IotReplies, reqVars
<1>2. /\ cmd.req \in Requests /\ step \in Nat /\ step <= shape[cmd.req].len /\ shape[cmd.req].len \in Nat
      /\ shape[cmd.req].type \in {"READ", "WRITE", "DISC", "NONE"}
      /\ shape[cmd.req].type \in {"DISC", "NONE"} => shape[cmd.req].len = 0
  BY <1>1, CommandIs, ShapeIs DEF TypeInv
<1>3. CASE shape[cmd.req].type = "READ"
  BY <1>1, <1>2, <1>3 DEF Made, Ends, ReplyEnds, Reading
<1>4. CASE shape[cmd.req].type # "READ"
  BY <1>1, <1>2, <1>4 DEF Made, Ends, ReplyEnds, Reading
<1> QED
  BY <1>3, <1>4

LEMMA IotRepliesInv ==
  ASSUME IInv, TypeInv', IotReplies PROVE IInv'
<1>0. TypeInv
  BY DEF IInv
<1>1. /\ cmd # Idle
      /\ UNCHANGED <<reqVars, sendVars, rx, toIot, store, closed, fault>>
  BY DEF IotReplies
<1>2. PICK n, m, c : n = cmd.req /\ m = Made /\ c = MadeChunk
  OBVIOUS
<1>3. /\ n \in Requests /\ step \in Nat /\ m \in Nat /\ ReplyEnds(n) \in Nat
      /\ Ends(n) <= step /\ m <= ReplyEnds(n) /\ (m > 0 => m = step) /\ ~Reading /\ ~Reading'
      /\ \/ cmd' = cmd /\ step' = step + 1 /\ m < ReplyEnds(n) /\ m = step /\ Made' = m + 1
         \/ cmd' = Idle /\ m = ReplyEnds(n)
  BY <1>0, <1>2, ReplyIs
<1>4. /\ c.uid = cmd.uid /\ c.req = n /\ c.idx = m
      /\ fromIot' # <<>> /\ Len(fromIot) \in Nat /\ Len(fromIot') = Len(fromIot) + 1
      /\ fromIot'[Len(fromIot) + 1] = c
      /\ \A k \in 1 .. Len(fromIot) : fromIot'[k] = fromIot[k]
  BY <1>0, <1>2, MadeChunkIs
<1>5. \A k \in 1 .. Len(fromIot') : \/ k = Len(fromIot) + 1 /\ fromIot'[k] = c
                                    \/ k \in 1 .. Len(fromIot) /\ fromIot'[k] = fromIot[k]
  BY <1>4
<1>6. \A t \in tasks : t.req # n
  BY <1>1, <1>2, <1>3 DEF IInv, TasksFirst, NotTaken, AtNode
<1>7. \A t \in AllThreads : Sending(t) => out[t].req # n
  <2> SUFFICES ASSUME NEW t \in AllThreads, Sending(t), out[t].req = n PROVE FALSE
    OBVIOUS
  <2>1. out[t].pos \in Nat /\ out[t].pos <= Ends(n) /\ Ends(n) \in Nat
    BY <1>0, <1>3, SendsAre
  <2>2. step < out[t].pos
    BY <1>1, <1>2 DEF IInv, SendersNext, NotTaken, AtNode
  <2> QED
    BY <1>3, <2>1, <2>2
<1>8. \A k \in 1 .. Len(toIot) : toIot[k].req # n
  <2> SUFFICES ASSUME NEW k \in 1 .. Len(toIot), toIot[k].req = n PROVE FALSE
    OBVIOUS
  <2>1. toIot[k].idx \in Nat /\ Ends(n) \in Nat
    BY <1>0, <1>3, StreamsAre, SendsAre
  <2>2. step < toIot[k].idx /\ toIot[k].idx <= Ends(n)
    BY <1>1, <1>2 DEF IInv, CommandsNext, NotTaken, AtNode
  <2> QED
    BY <1>3, <2>1, <2>2
<1>9. \A k \in 1 .. Len(fromIot) : fromIot[k].req = n => fromIot[k].idx \in Nat /\ fromIot[k].idx < m
  BY <1>0, <1>1, <1>2, StreamsAre DEF IInv, NodeNext
<1>10. InHand(n) => rx.pos \in Nat /\ rx.pos < m
  BY <1>0, <1>1, <1>2, SendsAre DEF IInv, NodeNext, InHand
<1>11. \A p \in Requests : Ends(p)' = Ends(p) /\ ReplyEnds(p)' = ReplyEnds(p)
  BY <1>1 DEF Ends, ReplyEnds, reqVars
<1>12. OthersIdle' /\ ChunksIntact' /\ BuffersIntact'
  BY <1>1 DEF IInv, OthersIdle, ChunksIntact, BuffersIntact, Threads, Pooled, reqVars, sendVars
<1>13. Named'
  <2>1. \A k \in 1 .. Len(fromIot') : heap[fromIot'[k].uid] = fromIot'[k].req
    BY <1>1, <1>2, <1>4, <1>5 DEF IInv, Named
  <2> QED
    BY <1>1, <1>3, <2>1 DEF IInv, Named, Sending, reqVars, sendVars
<1>14. ASSUME NEW p, NEW i, p # n, NotTaken(p, i)
       PROVE  /\ ~(cmd' # Idle /\ cmd'.req = p) /\ ~(rx' # Idle /\ rx'.req = p)
              /\ \A k \in 1 .. Len(fromIot') : fromIot'[k].req # p
  BY <1>1, <1>2, <1>3, <1>4, <1>5, <1>14 DEF NotTaken, InHand
<1>15. TasksFirst'
  <2>1. \A t \in tasks : NotTaken(t.req, 0)
    BY DEF IInv, TasksFirst
  <2>2. \A t \in tasks : /\ ~(cmd' # Idle /\ cmd'.req = t.req) /\ ~(rx' # Idle /\ rx'.req = t.req)
                         /\ \A k \in 1 .. Len(fromIot') : fromIot'[k].req # t.req
    BY <1>6, <1>14, <2>1
  <2> QED
    BY <1>1, <2>2 DEF IInv, TasksFirst, NotTaken, AtNode, InHand, Sending, sendVars
<1>16. SendersNext'
  <2>1. \A t \in AllThreads : Sending(t) => NotTaken(out[t].req, out[t].pos)
    BY DEF IInv, SendersNext
  <2>2. \A t \in AllThreads : Sending(t) =>
          /\ ~(cmd' # Idle /\ cmd'.req = out[t].req) /\ ~(rx' # Idle /\ rx'.req = out[t].req)
          /\ \A k \in 1 .. Len(fromIot') : fromIot'[k].req # out[t].req
    BY <1>7, <1>14, <2>1
  <2> QED
    BY <1>1, <2>2 DEF IInv, SendersNext, NotTaken, AtNode, InHand, Sending, sendVars
<1>17. CommandsNext'
  <2>1. \A k \in 1 .. Len(toIot) : NotTaken(toIot[k].req, toIot[k].idx)
    BY DEF IInv, CommandsNext
  <2>2. \A k \in 1 .. Len(toIot) :
          /\ ~(cmd' # Idle /\ cmd'.req = toIot[k].req) /\ ~(rx' # Idle /\ rx'.req = toIot[k].req)
          /\ \A j \in 1 .. Len(fromIot') : fromIot'[j].req # toIot[k].req
    BY <1>8, <1>14, <2>1
  <2> QED
    BY <1>1, <2>2 DEF IInv, CommandsNext, NotTaken, AtNode, InHand, Ends, reqVars
<1>18. NodeNext'
  <2>1. cmd' # Idle => cmd'.req = n /\ Made' = m + 1
    BY <1>2, <1>3
  <2>2. \A k \in 1 .. Len(fromIot') : fromIot'[k].req = n => fromIot'[k].idx < m + 1
    BY <1>3, <1>4, <1>5, <1>9
  <2> QED
    BY <1>1, <1>3, <1>10, <2>1, <2>2 DEF NodeNext, InHand
<1>19. RepliesLast'
  <2>1. \A k \in 1 .. Len(fromIot') :
          /\ fromIot'[k].idx <= ReplyEnds(fromIot'[k].req)
          /\ InHand(fromIot'[k].req) => rx.pos < fromIot'[k].idx
    BY <1>3, <1>4, <1>5, <1>10 DEF IInv, RepliesLast
  <2>2. ASSUME NEW k \in 1 .. Len(fromIot'), NEW j \in 1 .. Len(fromIot'),
               fromIot'[j].req = fromIot'[k].req, fromIot'[j].idx = fromIot'[k].idx
        PROVE  j = k
    <3>1. CASE k \in 1 .. Len(fromIot) /\ j \in 1 .. Len(fromIot)
      BY <1>4, <2>2, <3>1 DEF IInv, RepliesLast
    <3>2. CASE k = Len(fromIot) + 1 \/ j = Len(fromIot) + 1
      BY <1>3, <1>4, <1>5, <1>9, <2>2, <3>2
    <3> QED
      BY <1>5, <3>1, <3>2
  <2> QED
    BY <1>1, <2>1, <2>2 DEF RepliesLast, InHand, ReplyEnds, reqVars
<1>20. ToNodeFramed'
  BY <1>1, <1>3 DEF IInv, ToNodeFramed, Ends, reqVars
<1>21. MidwayContinues'
  <2>1. (Halfway' <=> Halfway) /\ (Halfway => LastSent' = LastSent)
    BY <1>1, <1>3 DEF Halfway, LastSent, Ends, reqVars
  <2> QED
    BY <1>1, <2>1 DEF IInv, MidwayContinues, Midway, Sending, sendVars
<1>22. ASSUME Running
       PROVE  /\ ReplyHalfway => m > 0 /\ LastMade = <<n, m - 1>>
              /\ ~ReplyHalfway => m = 0
  BY <1>1, <1>2, <1>3, <1>22 DEF IInv, NodeContinues
<1>23. FromNodeFramed'
  <2> SUFFICES ASSUME Running PROVE
        /\ IF rx # Idle THEN fromIot'[1].req = rx.req /\ fromIot'[1].idx = rx.pos + 1
                        ELSE fromIot'[1].idx = 0
        /\ \A k \in 1 .. Len(fromIot') - 1 :
             IF fromIot'[k].idx < ReplyEnds(fromIot'[k].req)
             THEN fromIot'[k + 1].req = fromIot'[k].req /\ fromIot'[k + 1].idx = fromIot'[k].idx + 1
             ELSE fromIot'[k + 1].idx = 0
    BY <1>1 DEF FromNodeFramed, Running, ReplyEnds, reqVars
  <2>1. CASE fromIot = <<>>
    <3>1. Len(fromIot) = 0 /\ fromIot'[1] = c
      BY <1>0, <1>4, <2>1, StreamsAre
    <3>2. rx # Idle => rx.pos \in Nat
      BY <1>0, SendsAre
    <3>3. rx # Idle => n = rx.req /\ m = rx.pos + 1
      BY <1>3, <1>22, <2>1, <3>2 DEF ReplyHalfway, LastMade
    <3>4. rx = Idle => m = 0
      BY <1>22, <2>1 DEF ReplyHalfway
    <3> QED
      BY <1>4, <3>1, <3>3, <3>4
  <2>2. CASE fromIot # <<>>
    <3>1. Len(fromIot) >= 1 /\ fromIot'[1] = fromIot[1]
      BY <1>0, <1>4, <2>2, StreamsAre
    <3>2. ASSUME NEW k \in 1 .. Len(fromIot') - 1
          PROVE  IF fromIot'[k].idx < ReplyEnds(fromIot'[k].req)
                 THEN fromIot'[k + 1].req = fromIot'[k].req /\ fromIot'[k + 1].idx = fromIot'[k].idx + 1
                 ELSE fromIot'[k + 1].idx = 0
      <4>1. CASE k \in 1 .. Len(fromIot) - 1
        <5>1. fromIot'[k] = fromIot[k] /\ fromIot'[k + 1] = fromIot[k + 1]
          BY <1>4, <4>1
        <5> QED
          BY <4>1, <5>1 DEF IInv, FromNodeFramed
      <4>2. CASE k = Len(fromIot)
        <5>1. fromIot'[k] = fromIot[k] /\ fromIot'[k + 1] = c /\ fromIot[k].idx \in Nat
          BY <1>0, <1>4, <3>1, <4>2, StreamsAre
        <5>2. fromIot[k].idx < ReplyEnds(fromIot[k].req) => n = fromIot[k].req /\ m = fromIot[k].idx + 1
          BY <1>3, <1>22, <2>2, <4>2, <5>1 DEF ReplyHalfway, LastMade
        <5>3. ~(fromIot[k].idx < ReplyEnds(fromIot[k].req)) => m = 0
          BY <1>22, <2>2, <4>2 DEF ReplyHalfway
        <5> QED
          BY <1>4, <5>1, <5>2, <5>3
      <4> QED
        BY <1>4, <4>1, <4>2
    <3> QED
      BY <2>2, <3>1, <3>2 DEF IInv, FromNodeFramed
  <2> QED
    BY <2>1, <2>2
<1>24. NodeContinues'
  <2>1. (ReplyHalfway' <=> m < ReplyEnds(n)) /\ LastMade' = <<n, m>>
    BY <1>3, <1>4, <1>11 DEF ReplyHalfway, LastMade
  <2>2. CASE cmd' = cmd /\ step' = step + 1 /\ m < ReplyEnds(n) /\ m = step /\ Made' = m + 1
    <3>1. cmd' # Idle /\ Made' > 0 /\ cmd'.req = n /\ step' - 1 = m
      BY <1>1, <1>2, <1>3, <2>2
    <3> QED
      BY <2>1, <2>2, <3>1 DEF NodeContinues
  <2>3. CASE cmd' = Idle /\ m = ReplyEnds(n)
    <3>1. ~ReplyHalfway'
      BY <1>3, <2>1, <2>3
    <3> QED
      BY <2>3, <3>1 DEF NodeContinues
  <2> QED
    BY <1>3, <2>2, <2>3
<1>25. FaultsHaveACause'
  BY <1>1 DEF IInv, FaultsHaveACause, Running
<1> QED
  BY <1>12, <1>13, <1>15, <1>16, <1>17, <1>18, <1>19, <1>20, <1>21, <1>23, <1>24, <1>25 DEF IInv

----------------------------------------------------------------------------
(* NbdHandle: malloc's address is new to everyone, and so is the request.     *)

LEMMA NbdHandleInv ==
  ASSUME IInv, TypeInv', NbdHandle PROVE IInv'
<1>0. TypeInv
  BY DEF IInv
<1>1. /\ got < issued /\ got' = got + 1 /\ Running /\ rx = Idle /\ (~Pooled => out[Reactor] = Idle)
      /\ UNCHANGED <<program, issued, shape, replies, lock, rx, toIot, fromIot, nodeVars, closed, fault>>
  BY DEF NbdHandle, ReactorFree
<1>2. got \in Requests /\ dataBuf \in [Requests -> [Blocks -> Values]]
      /\ heap \in [Addrs -> Requests \cup {Freed}] /\ out \in [AllThreads -> Sends \cup {Idle, Exited}]
  BY <1>0, <1>1, SingleAssumption DEF TypeInv, TypeOK, Requests, AllThreads
<1>3. PICK a \in Addrs :
        /\ heap[a] = Freed /\ heap' = [heap EXCEPT ![a] = got]
        /\ IF Pooled THEN tasks' = tasks \cup {ConvertToAtlas(a, got)} /\ UNCHANGED out
           ELSE out' = [out EXCEPT ![Reactor] = ConvertToAtlas(a, got)] /\ UNCHANGED tasks
  BY DEF NbdHandle, Malloc
<1>4. PICK o : o = ConvertToAtlas(a, got)
  OBVIOUS
<1>5. o.req = got /\ o.uid = a /\ o.pos = 0 /\ o \notin {Idle, Exited}
  BY <1>2, <1>4, Distinct DEF ConvertToAtlas, Sends
<1>6. heap'[a] = got /\ \A b \in Addrs : b # a => heap'[b] = heap[b]
  BY <1>2, <1>3
<1>7. \A b \in Addrs : heap[b] \in Requests => b # a /\ heap'[b] = heap[b]
  BY <1>3, <1>6, Distinct
<1>8. /\ \A t \in tasks : t.uid \in Addrs /\ t.req \in Requests /\ t.req # got
      /\ \A t \in AllThreads : Sending(t) => out[t].uid \in Addrs /\ out[t].req \in Requests /\ out[t].req # got
      /\ cmd # Idle => cmd.uid \in Addrs /\ cmd.req \in Requests /\ cmd.req # got
      /\ \A k \in 1 .. Len(toIot) : toIot[k].uid \in Addrs /\ toIot[k].req \in Requests /\ toIot[k].req # got
      /\ \A k \in 1 .. Len(fromIot) : fromIot[k].uid \in Addrs /\ fromIot[k].req \in Requests /\ fromIot[k].req # got
  <2>1. \A n \in Requests : n < got => n # got
    BY <1>2, SingleAssumption DEF Requests
  <2> QED
    BY <1>0, <2>1, SendsAre, StreamsAre, MentionsRead DEF IInv
<1>9. CommandsNext' /\ NodeNext' /\ RepliesLast' /\ ChunksIntact' /\ FaultsHaveACause'
  BY <1>1 DEF IInv, CommandsNext, NodeNext, RepliesLast, ChunksIntact, FaultsHaveACause, Running,
              NotTaken, AtNode, InHand, Ends, ReplyEnds, Made, nodeVars
<1>10. ToNodeFramed' /\ FromNodeFramed' /\ NodeContinues'
  BY <1>1 DEF IInv, ToNodeFramed, FromNodeFramed, NodeContinues, Running,
              Reading, Ends, ReplyEnds, Made, ReplyHalfway, LastMade, nodeVars
<1>11. BuffersIntact'
  <2>1. \A n \in Requests : n # got => dataBuf'[n] = dataBuf[n]
    BY <1>2 DEF NbdHandle
  <2>2. shape[got].type = "WRITE" => \A i \in Blocks : dataBuf'[got][i] = Payload(got, i)
    BY <1>2 DEF NbdHandle
  <2>3. ASSUME NEW b \in Addrs, heap'[b] # Freed, shape[heap'[b]].type = "WRITE", NEW i \in Blocks
        PROVE  dataBuf'[heap'[b]][i] = Payload(heap'[b], i)
    <3>1. CASE b = a
      BY <1>6, <2>2, <2>3, <3>1
    <3>2. CASE b # a
      <4>1. heap'[b] = heap[b] /\ heap[b] # Freed /\ heap[b] \in Requests /\ heap[b] # got
        <5>1. heap'[b] = heap[b] /\ heap[b] \in Requests
          BY <1>2, <1>6, <2>3, <3>2
        <5>2. heap[b] < got
          BY <1>0, <5>1, LiveIs
        <5> QED
          BY <1>2, <2>3, <5>1, <5>2, SingleAssumption DEF Requests
      <4> QED
        BY <2>1, <2>3, <4>1 DEF IInv, BuffersIntact
    <3> QED
      BY <3>1, <3>2
  <2> QED
    BY <1>1, <2>3 DEF BuffersIntact
<1>12. NotTaken(got, 0)
  BY <1>1, <1>8 DEF NotTaken, AtNode, InHand
<1>13. ASSUME NEW n, NEW i, NotTaken(n, i)
       PROVE  /\ cmd' # Idle /\ cmd'.req = n => step' < i
              /\ ~(rx' # Idle /\ rx'.req = n)
              /\ \A k \in 1 .. Len(fromIot') : fromIot'[k].req # n
  BY <1>1, <1>13 DEF NotTaken, AtNode, InHand, nodeVars
<1>14. CASE Pooled
  <2>1. tasks' = tasks \cup {o} /\ UNCHANGED out
    BY <1>3, <1>4, <1>14
  <2>2. OthersIdle' /\ MidwayContinues'
    BY <1>1, <1>14, <2>1 DEF IInv, OthersIdle, MidwayContinues, Threads, Pooled, Halfway, LastSent, Reading,
                             Ends, Midway, Sending, nodeVars
  <2>3. Named'
    BY <1>1, <1>5, <1>6, <1>7, <1>8, <2>1 DEF IInv, Named, Sending, nodeVars
  <2>4. TasksFirst'
    <3>1. ASSUME NEW t \in tasks'
          PROVE  /\ NotTaken(t.req, 0)
                 /\ \A u \in tasks' : u.req = t.req => u = t
                 /\ \A u \in AllThreads : Sending(u) => out[u].req # t.req
                 /\ \A k \in 1 .. Len(toIot) : toIot[k].req # t.req
      <4>1. CASE t = o
        BY <1>5, <1>8, <1>12, <2>1, <4>1
      <4>2. CASE t \in tasks
        BY <1>5, <1>8, <2>1, <4>2 DEF IInv, TasksFirst
      <4> QED
        BY <2>1, <4>1, <4>2
    <3>2. ASSUME NEW t \in tasks'
          PROVE  /\ cmd' # Idle /\ cmd'.req = t.req => step' < 0
                 /\ ~(rx' # Idle /\ rx'.req = t.req)
                 /\ \A k \in 1 .. Len(fromIot') : fromIot'[k].req # t.req
      BY <1>13, <3>1
    <3> QED
      BY <1>1, <2>1, <3>1, <3>2 DEF TasksFirst, NotTaken, AtNode, InHand, Sending
  <2>5. SendersNext'
    BY <1>1, <2>1 DEF IInv, SendersNext, NotTaken, AtNode, InHand, Sending, nodeVars
  <2> QED
    BY <1>9, <1>10, <1>11, <2>2, <2>3, <2>4, <2>5 DEF IInv
<1>15. CASE ~Pooled
  <2>1. out' = [out EXCEPT ![Reactor] = o] /\ tasks' = {} /\ Reactor \in AllThreads /\ out[Reactor] = Idle
    BY <1>1, <1>3, <1>4, <1>15 DEF IInv, OthersIdle, AllThreads
  <2>2. /\ out'[Reactor] = o
        /\ \A t \in AllThreads : t # Reactor => out'[t] = out[t]
    BY <1>2, <2>1
  <2>3. OthersIdle'
    BY <1>1, <1>15, <2>1, <2>2 DEF IInv, OthersIdle, Threads, Pooled
  <2>4. MidwayContinues'
    <3>1. \A t \in AllThreads : /\ Midway(t)' <=> Midway(t)
                                /\ Midway(t) => out'[t] = out[t]
      BY <1>5, <2>1, <2>2 DEF Midway, Sending
    <3>2. (Halfway' <=> Halfway) /\ LastSent' = LastSent
      BY <1>1 DEF Halfway, LastSent, Reading, Ends, nodeVars
    <3> QED
      BY <1>1, <3>1, <3>2 DEF IInv, MidwayContinues
  <2>5. Named'
    <3>1. \A t \in AllThreads : out'[t] \notin {Idle, Exited} => heap'[out'[t].uid] = out'[t].req
      BY <1>5, <1>6, <1>7, <1>8, <2>2 DEF IInv, Named, Sending
    <3> QED
      BY <1>1, <1>6, <1>7, <1>8, <2>1, <3>1 DEF IInv, Named, Sending, nodeVars
  <2>6. TasksFirst'
    BY <2>1 DEF TasksFirst
  <2>7. SendersNext'
    <3>1. ASSUME NEW t \in AllThreads, out'[t] \notin {Idle, Exited}
          PROVE  /\ NotTaken(out'[t].req, out'[t].pos)
                 /\ \A u \in AllThreads : out'[u] \notin {Idle, Exited} /\ out'[u].req = out'[t].req => u = t
                 /\ \A k \in 1 .. Len(toIot) : toIot[k].req = out'[t].req => toIot[k].idx < out'[t].pos
      <4>1. CASE t = Reactor
        BY <1>5, <1>8, <1>12, <2>2, <4>1 DEF Sending
      <4>2. CASE t # Reactor
        <5>1. Sending(t) /\ out'[t] = out[t] /\ out[t].req # got
          BY <1>8, <2>2, <3>1, <4>2 DEF Sending
        <5> QED
          BY <1>5, <2>2, <5>1 DEF IInv, SendersNext, Sending
      <4> QED
        BY <4>1, <4>2
    <3>2. ASSUME NEW t \in AllThreads, out'[t] \notin {Idle, Exited}
          PROVE  /\ cmd' # Idle /\ cmd'.req = out'[t].req => step' < out'[t].pos
                 /\ ~(rx' # Idle /\ rx'.req = out'[t].req)
                 /\ \A k \in 1 .. Len(fromIot') : fromIot'[k].req # out'[t].req
      BY <1>13, <3>1, <3>2
    <3> QED
      BY <1>1, <3>1, <3>2 DEF SendersNext, NotTaken, AtNode, InHand, Sending
  <2> QED
    BY <1>9, <1>10, <1>11, <2>3, <2>4, <2>5, <2>6, <2>7 DEF IInv
<1> QED
  BY <1>14, <1>15

LEMMA ReadClosedInv ==
  ASSUME IInv, TypeInv', ReadClosed PROVE IInv'
<1>1. /\ fault' = "assert" /\ closed # {}
      /\ UNCHANGED <<reqVars, sendVars, rx, toIot, fromIot, nodeVars, closed>>
  BY DEF ReadClosed
<1>2. /\ OthersIdle' /\ Named' /\ TasksFirst' /\ SendersNext' /\ CommandsNext' /\ NodeNext' /\ RepliesLast'
      /\ BuffersIntact' /\ ChunksIntact'
  BY <1>1 DEF IInv, OthersIdle, Named, TasksFirst, SendersNext, CommandsNext, NodeNext, RepliesLast,
              BuffersIntact, ChunksIntact, NotTaken, AtNode, InHand, Sending, Threads, Pooled, Ends, ReplyEnds,
              Made, reqVars, sendVars, nodeVars
<1>3. ToNodeFramed' /\ MidwayContinues'
  BY <1>1 DEF IInv, ToNodeFramed, MidwayContinues, Halfway, LastSent, Reading, Midway, Sending, Ends,
              reqVars, sendVars, nodeVars
<1>4. FromNodeFramed' /\ NodeContinues' /\ FaultsHaveACause'
  BY <1>1 DEF FromNodeFramed, NodeContinues, FaultsHaveACause, Running
<1> QED
  BY <1>2, <1>3, <1>4 DEF IInv

LEMMA StutterInv ==
  ASSUME IInv, TypeInv', UNCHANGED vars PROVE IInv'
<1>1. /\ OthersIdle' /\ Named' /\ TasksFirst' /\ SendersNext' /\ CommandsNext' /\ NodeNext' /\ RepliesLast'
      /\ BuffersIntact' /\ ChunksIntact'
  BY DEF IInv, OthersIdle, Named, TasksFirst, SendersNext, CommandsNext, NodeNext, RepliesLast,
         BuffersIntact, ChunksIntact, NotTaken, AtNode, InHand, Sending, Threads, Pooled, Ends, ReplyEnds,
         Made, vars, reqVars, sendVars, nodeVars
<1>2. ToNodeFramed' /\ MidwayContinues'
  BY DEF IInv, ToNodeFramed, MidwayContinues, Halfway, LastSent, Reading, Midway, Sending, Ends,
         vars, reqVars, sendVars, nodeVars
<1>3. FromNodeFramed' /\ NodeContinues' /\ FaultsHaveACause'
  BY DEF IInv, FromNodeFramed, NodeContinues, FaultsHaveACause, Running, ReplyEnds, Made, ReplyHalfway,
         LastMade, vars, reqVars, nodeVars
<1> QED
  BY <1>1, <1>2, <1>3 DEF IInv

----------------------------------------------------------------------------
(* IotHandle.                                                                *)

(* A request whose last reply chunk is the next to be read: nothing else       *)
(* mentions it, so it may be answered and freed, or left where it is.         *)
LEMMA DoneInv ==
  ASSUME IInv, TypeInv', Running, NEW o \in Sends, heap[o.uid] = o.req, NbdRequestDone(o),
         UNCHANGED <<program, issued, shape, got, sendVars, toIot, nodeVars, closed>>,
         fromIot # <<>>, fromIot' = Tail(fromIot),
         fromIot[1].req = o.req, fromIot[1].idx = ReplyEnds(o.req), rx = Idle \/ rx = o,
         \A k \in 2 .. Len(fromIot) : fromIot[k].req # o.req,
         \A n \in Requests : (n = o.req /\ shape[n].type = "READ") \/ dataBuf'[n] = dataBuf[n]
  PROVE  IInv'
<1>0. TypeInv
  BY DEF IInv
<1>1. PICK n : n = o.req
  OBVIOUS
<1>2. n \in Requests /\ o.uid \in Addrs /\ o \notin {Idle, Exited}
  BY <1>1, Distinct DEF Sends
<1>3. /\ Len(fromIot) \in Nat /\ Len(fromIot) >= 1 /\ Len(fromIot') = Len(fromIot) - 1
      /\ 1 \in 1 .. Len(fromIot)
      /\ \A k \in 1 .. Len(fromIot') : fromIot'[k] = fromIot[k + 1] /\ k + 1 \in 1 .. Len(fromIot)
      /\ fromIot' = <<>> <=> Len(fromIot) = 1
  BY <1>0, ReceivedType
<1>4. \A k \in 1 .. Len(fromIot') : fromIot'[k].req # n
  <2>1. \A k \in 1 .. Len(fromIot') : k + 1 \in 2 .. Len(fromIot)
    BY <1>3
  <2> QED
    BY <1>1, <1>3, <2>1
<1>5. /\ \A t \in tasks : t.req # n
      /\ \A t \in AllThreads : Sending(t) => out[t].req # n
      /\ \A k \in 1 .. Len(toIot) : toIot[k].req # n
  BY <1>1, <1>3 DEF IInv, TasksFirst, SendersNext, CommandsNext, NotTaken
<1>6. cmd # Idle => cmd.req # n
  <2> SUFFICES ASSUME cmd # Idle, cmd.req = n PROVE FALSE
    OBVIOUS
  <2>1. ReplyEnds(n) < Made
    BY <1>1, <1>3 DEF IInv, NodeNext
  <2>2. Made \in Nat /\ Made <= ReplyEnds(n) /\ ReplyEnds(n) \in Nat
    BY <1>0, <1>2, CommandIs DEF Made, ReplyEnds
  <2> QED
    BY <2>1, <2>2
<1>7. OthersIdle' /\ ChunksIntact' /\ ToNodeFramed' /\ MidwayContinues'
  BY DEF IInv, OthersIdle, ChunksIntact, ToNodeFramed, MidwayContinues, Halfway, LastSent, Reading,
         Midway, Sending, Ends, Threads, Pooled, sendVars, nodeVars
<1>8. (rx' = Idle \/ rx' = o) /\ \A p : p # n => ~(rx' # Idle /\ rx'.req = p)
  BY <1>1 DEF NbdRequestDone
<1>9. ASSUME NEW p, NEW i, p # n, NotTaken(p, i)
      PROVE  /\ cmd' # Idle /\ cmd'.req = p => step' < i
             /\ ~(rx' # Idle /\ rx'.req = p)
             /\ \A k \in 1 .. Len(fromIot') : fromIot'[k].req # p
  BY <1>3, <1>8, <1>9 DEF NotTaken, AtNode, nodeVars
<1>10. TasksFirst'
  <2>1. \A t \in tasks : /\ cmd' # Idle /\ cmd'.req = t.req => step' < 0
                         /\ ~(rx' # Idle /\ rx'.req = t.req)
                         /\ \A k \in 1 .. Len(fromIot') : fromIot'[k].req # t.req
    BY <1>5, <1>9 DEF IInv, TasksFirst
  <2> QED
    BY <2>1 DEF IInv, TasksFirst, NotTaken, AtNode, InHand, Sending, sendVars
<1>11. SendersNext'
  <2>1. \A t \in AllThreads : Sending(t) =>
          /\ cmd' # Idle /\ cmd'.req = out[t].req => step' < out[t].pos
          /\ ~(rx' # Idle /\ rx'.req = out[t].req)
          /\ \A k \in 1 .. Len(fromIot') : fromIot'[k].req # out[t].req
    BY <1>5, <1>9 DEF IInv, SendersNext
  <2> QED
    BY <2>1 DEF IInv, SendersNext, NotTaken, AtNode, InHand, Sending, sendVars
<1>12. CommandsNext'
  <2>1. \A k \in 1 .. Len(toIot) :
          /\ cmd' # Idle /\ cmd'.req = toIot[k].req => step' < toIot[k].idx
          /\ ~(rx' # Idle /\ rx'.req = toIot[k].req)
          /\ \A j \in 1 .. Len(fromIot') : fromIot'[j].req # toIot[k].req
    BY <1>5, <1>9 DEF IInv, CommandsNext
  <2> QED
    BY <2>1 DEF IInv, CommandsNext, NotTaken, AtNode, InHand, Ends
<1>13. NodeNext'
  <2>1. cmd' = cmd /\ Made' = Made
    BY DEF Made, nodeVars
  <2>2. cmd # Idle => \A k \in 1 .. Len(fromIot') : fromIot'[k].req = cmd.req => fromIot'[k].idx < Made
    BY <1>3 DEF IInv, NodeNext
  <2> QED
    BY <1>6, <1>8, <2>1, <2>2 DEF NodeNext, InHand
<1>14. RepliesLast'
  <2>1. \A k \in 1 .. Len(fromIot') : fromIot'[k].idx <= ReplyEnds(fromIot'[k].req)
    BY <1>3 DEF IInv, RepliesLast
  <2>2. ASSUME NEW k \in 1 .. Len(fromIot'), NEW j \in 1 .. Len(fromIot'),
               fromIot'[j].req = fromIot'[k].req, fromIot'[j].idx = fromIot'[k].idx
        PROVE  j = k
    <3>1. j + 1 = k + 1
      BY <1>3, <2>2 DEF IInv, RepliesLast
    <3> QED
      BY <3>1
  <2> QED
    BY <1>4, <1>8, <2>1, <2>2 DEF RepliesLast, InHand, ReplyEnds
<1>15. ASSUME NEW b \in Addrs, heap[b] # Freed, shape[heap[b]].type = "WRITE", NEW i \in Blocks
       PROVE  dataBuf'[heap[b]][i] = Payload(heap[b], i)
  <2>1. heap[b] \in Requests /\ dataBuf'[heap[b]] = dataBuf[heap[b]]
    BY <1>0, <1>15 DEF TypeInv, TypeOK
  <2> QED
    BY <1>15, <2>1 DEF IInv, BuffersIntact
<1>16. CASE /\ heap' = [heap EXCEPT ![o.uid] = Freed] /\ rx' = Idle /\ fault' = fault
  <2>1. /\ heap'[o.uid] = Freed
        /\ \A b \in Addrs : b # o.uid => heap'[b] = heap[b]
    BY <1>0, <1>2, <1>16 DEF TypeInv, TypeOK
  <2>2. \A b \in Addrs : heap[b] # n => heap'[b] = heap[b]
    BY <1>1, <2>1
  <2>3. Named'
    <3>1. /\ \A t \in tasks : t.uid \in Addrs
          /\ \A t \in AllThreads : Sending(t) => out[t].uid \in Addrs
          /\ cmd # Idle => cmd.uid \in Addrs
          /\ \A k \in 1 .. Len(toIot) : toIot[k].uid \in Addrs
          /\ \A k \in 1 .. Len(fromIot) : fromIot[k].uid \in Addrs
      BY <1>0, SendsAre, StreamsAre
    <3>2. \A k \in 1 .. Len(fromIot') : heap'[fromIot'[k].uid] = fromIot'[k].req
      BY <1>3, <1>4, <2>2, <3>1 DEF IInv, Named
    <3> QED
      BY <1>5, <1>6, <2>2, <3>1, <3>2 DEF IInv, Named, Sending, sendVars, nodeVars
  <2>4. BuffersIntact'
    <3>1. \A b \in Addrs : heap'[b] # Freed => heap'[b] = heap[b]
      BY <2>1
    <3> QED
      BY <1>15, <3>1 DEF BuffersIntact
  <2>5. FromNodeFramed'
    <3>1. fromIot' # <<>> => 1 \in 1 .. Len(fromIot') /\ fromIot'[1] = fromIot[2] /\ 1 \in 1 .. Len(fromIot) - 1
      BY <1>3
    <3>2. ~(fromIot[1].idx < ReplyEnds(fromIot[1].req))
      BY <1>0, <1>1, <1>2, SendsAre
    <3>3. fromIot' # <<>> => fromIot'[1].idx = 0
      BY <3>1, <3>2 DEF IInv, FromNodeFramed
    <3>4. ASSUME NEW k \in 1 .. Len(fromIot') - 1
          PROVE  IF fromIot'[k].idx < ReplyEnds(fromIot'[k].req)
                 THEN fromIot'[k + 1].req = fromIot'[k].req /\ fromIot'[k + 1].idx = fromIot'[k].idx + 1
                 ELSE fromIot'[k + 1].idx = 0
      <4>1. /\ fromIot'[k] = fromIot[k + 1] /\ fromIot'[k + 1] = fromIot[k + 1 + 1]
            /\ k + 1 \in 1 .. Len(fromIot) - 1
        BY <1>3
      <4> QED
        BY <4>1 DEF IInv, FromNodeFramed
    <3> QED
      BY <1>16, <3>3, <3>4 DEF FromNodeFramed, ReplyEnds
  <2>6. NodeContinues'
    <3>1. (ReplyHalfway' <=> ReplyHalfway) /\ (ReplyHalfway => LastMade' = LastMade)
      <4>1. CASE fromIot' = <<>>
        <5>1. fromIot[Len(fromIot)] = fromIot[1]
          BY <1>3, <4>1
        <5>2. ~ReplyHalfway
          BY <1>0, <1>1, <1>2, <5>1, SendsAre DEF ReplyHalfway
        <5> QED
          BY <1>16, <4>1, <5>2 DEF ReplyHalfway
      <4>2. CASE fromIot' # <<>>
        <5>1. fromIot'[Len(fromIot')] = fromIot[Len(fromIot)]
          BY <1>3, <4>2
        <5> QED
          BY <4>2, <5>1 DEF ReplyHalfway, LastMade, ReplyEnds
      <4> QED
        BY <4>1, <4>2
    <3> QED
      BY <3>1 DEF IInv, NodeContinues, Made, nodeVars
  <2> QED
    BY <1>7, <1>10, <1>11, <1>12, <1>13, <1>14, <1>16, <2>3, <2>4, <2>5, <2>6
       DEF IInv, FaultsHaveACause, Running
<1>17. CASE "nbd" \in closed /\ fault' = "sigpipe" /\ heap' = heap
  <2>1. Named'
    BY <1>3, <1>17 DEF IInv, Named, Sending, sendVars, nodeVars
  <2>2. BuffersIntact'
    BY <1>15, <1>17 DEF BuffersIntact
  <2>3. FromNodeFramed' /\ NodeContinues' /\ FaultsHaveACause'
    BY <1>17 DEF FromNodeFramed, NodeContinues, FaultsHaveACause, Running
  <2> QED
    BY <1>7, <1>10, <1>11, <1>12, <1>13, <1>14, <2>1, <2>2, <2>3 DEF IInv
<1> QED
  BY <1>16, <1>17 DEF NbdRequestDone

(* A reply chunk that is not the last of its READ is taken into hand.         *)
LEMMA GoesOnInv ==
  ASSUME IInv, TypeInv', Running, fromIot # <<>>, fromIot' = Tail(fromIot),
         UNCHANGED <<program, issued, shape, got, heap, replies, sendVars, toIot, nodeVars, closed, fault>>,
         rx' # Idle, rx'.req = fromIot[1].req, rx'.pos = fromIot[1].idx,
         fromIot[1].idx < ReplyEnds(fromIot[1].req), rx = Idle \/ rx.req = fromIot[1].req,
         \A k \in 2 .. Len(fromIot) : fromIot[k].req = fromIot[1].req => fromIot[1].idx < fromIot[k].idx,
         \A n \in Requests : (n = fromIot[1].req /\ shape[n].type = "READ") \/ dataBuf'[n] = dataBuf[n]
  PROVE  IInv'
<1>0. TypeInv
  BY DEF IInv
<1>1. PICK c, n : c = fromIot[1] /\ n = c.req
  OBVIOUS
<1>3. /\ Len(fromIot) \in Nat /\ Len(fromIot) >= 1 /\ Len(fromIot') = Len(fromIot) - 1
      /\ 1 \in 1 .. Len(fromIot)
      /\ \A k \in 1 .. Len(fromIot') : fromIot'[k] = fromIot[k + 1] /\ k + 1 \in 1 .. Len(fromIot)
      /\ fromIot' = <<>> <=> Len(fromIot) = 1
  BY <1>0, ReceivedType
<1>4. \A k \in 1 .. Len(fromIot') : fromIot'[k].req = n => rx'.pos < fromIot'[k].idx
  <2>1. \A k \in 1 .. Len(fromIot') : k + 1 \in 2 .. Len(fromIot)
    BY <1>3
  <2> QED
    BY <1>1, <1>3, <2>1
<1>5. /\ \A t \in tasks : t.req # n
      /\ \A t \in AllThreads : Sending(t) => out[t].req # n
      /\ \A k \in 1 .. Len(toIot) : toIot[k].req # n
  BY <1>1, <1>3 DEF IInv, TasksFirst, SendersNext, CommandsNext, NotTaken
<1>6. cmd # Idle /\ cmd.req = n => rx'.pos < Made
  BY <1>1, <1>3 DEF IInv, NodeNext
<1>7. OthersIdle' /\ ChunksIntact' /\ ToNodeFramed' /\ MidwayContinues' /\ FaultsHaveACause'
  BY DEF IInv, OthersIdle, ChunksIntact, ToNodeFramed, MidwayContinues, FaultsHaveACause, Running, Halfway,
         LastSent, Reading, Midway, Sending, Ends, Threads, Pooled, sendVars, nodeVars
<1>8. \A p : p # n => ~(rx' # Idle /\ rx'.req = p)
  BY <1>1
<1>9. ASSUME NEW p, NEW i, p # n, NotTaken(p, i)
      PROVE  /\ cmd' # Idle /\ cmd'.req = p => step' < i
             /\ ~(rx' # Idle /\ rx'.req = p)
             /\ \A k \in 1 .. Len(fromIot') : fromIot'[k].req # p
  BY <1>3, <1>8, <1>9 DEF NotTaken, AtNode, nodeVars
<1>10. TasksFirst'
  <2>1. \A t \in tasks : /\ cmd' # Idle /\ cmd'.req = t.req => step' < 0
                         /\ ~(rx' # Idle /\ rx'.req = t.req)
                         /\ \A k \in 1 .. Len(fromIot') : fromIot'[k].req # t.req
    BY <1>5, <1>9 DEF IInv, TasksFirst
  <2> QED
    BY <2>1 DEF IInv, TasksFirst, NotTaken, AtNode, InHand, Sending, sendVars
<1>11. SendersNext'
  <2>1. \A t \in AllThreads : Sending(t) =>
          /\ cmd' # Idle /\ cmd'.req = out[t].req => step' < out[t].pos
          /\ ~(rx' # Idle /\ rx'.req = out[t].req)
          /\ \A k \in 1 .. Len(fromIot') : fromIot'[k].req # out[t].req
    BY <1>5, <1>9 DEF IInv, SendersNext
  <2> QED
    BY <2>1 DEF IInv, SendersNext, NotTaken, AtNode, InHand, Sending, sendVars
<1>12. CommandsNext'
  <2>1. \A k \in 1 .. Len(toIot) :
          /\ cmd' # Idle /\ cmd'.req = toIot[k].req => step' < toIot[k].idx
          /\ ~(rx' # Idle /\ rx'.req = toIot[k].req)
          /\ \A j \in 1 .. Len(fromIot') : fromIot'[j].req # toIot[k].req
    BY <1>5, <1>9 DEF IInv, CommandsNext
  <2> QED
    BY <2>1 DEF IInv, CommandsNext, NotTaken, AtNode, InHand, Ends
<1>13. NodeNext'
  <2>1. cmd' = cmd /\ Made' = Made
    BY DEF Made, nodeVars
  <2>2. cmd # Idle => \A k \in 1 .. Len(fromIot') : fromIot'[k].req = cmd.req => fromIot'[k].idx < Made
    BY <1>3 DEF IInv, NodeNext
  <2> QED
    BY <1>1, <1>6, <2>1, <2>2 DEF NodeNext, InHand
<1>14. RepliesLast'
  <2>1. \A k \in 1 .. Len(fromIot') : fromIot'[k].idx <= ReplyEnds(fromIot'[k].req)
    BY <1>3 DEF IInv, RepliesLast
  <2>2. ASSUME NEW k \in 1 .. Len(fromIot'), NEW j \in 1 .. Len(fromIot'),
               fromIot'[j].req = fromIot'[k].req, fromIot'[j].idx = fromIot'[k].idx
        PROVE  j = k
    <3>1. j + 1 = k + 1
      BY <1>3, <2>2 DEF IInv, RepliesLast
    <3> QED
      BY <3>1
  <2> QED
    BY <1>1, <1>4, <2>1, <2>2 DEF RepliesLast, InHand, ReplyEnds
<1>15. Named'
  BY <1>3 DEF IInv, Named, Sending, sendVars, nodeVars
<1>16. BuffersIntact'
  <2>1. ASSUME NEW b \in Addrs, heap[b] # Freed, shape[heap[b]].type = "WRITE", NEW i \in Blocks
        PROVE  dataBuf'[heap[b]][i] = Payload(heap[b], i)
    <3>1. heap[b] \in Requests /\ dataBuf'[heap[b]] = dataBuf[heap[b]]
      BY <1>0, <2>1 DEF TypeInv, TypeOK
    <3> QED
      BY <2>1, <3>1 DEF IInv, BuffersIntact
  <2> QED
    BY <2>1 DEF BuffersIntact
<1>17. FromNodeFramed'
  <2>1. fromIot' # <<>> => 1 \in 1 .. Len(fromIot') /\ fromIot'[1] = fromIot[2] /\ 1 \in 1 .. Len(fromIot) - 1
    BY <1>3
  <2>2. fromIot' # <<>> => fromIot'[1].req = rx'.req /\ fromIot'[1].idx = rx'.pos + 1
    BY <2>1 DEF IInv, FromNodeFramed
  <2>3. ASSUME NEW k \in 1 .. Len(fromIot') - 1
        PROVE  IF fromIot'[k].idx < ReplyEnds(fromIot'[k].req)
               THEN fromIot'[k + 1].req = fromIot'[k].req /\ fromIot'[k + 1].idx = fromIot'[k].idx + 1
               ELSE fromIot'[k + 1].idx = 0
    <3>1. /\ fromIot'[k] = fromIot[k + 1] /\ fromIot'[k + 1] = fromIot[k + 1 + 1]
          /\ k + 1 \in 1 .. Len(fromIot) - 1
      BY <1>3
    <3> QED
      BY <3>1 DEF IInv, FromNodeFramed
  <2> QED
    BY <2>2, <2>3 DEF FromNodeFramed, ReplyEnds
<1>18. NodeContinues'
  <2>1. (ReplyHalfway' <=> ReplyHalfway) /\ LastMade' = LastMade
    <3>1. CASE fromIot' = <<>>
      <4>1. fromIot[Len(fromIot)] = fromIot[1]
        BY <1>3, <3>1
      <4> QED
        BY <3>1, <4>1 DEF ReplyHalfway, LastMade
    <3>2. CASE fromIot' # <<>>
      <4>1. fromIot'[Len(fromIot')] = fromIot[Len(fromIot)]
        BY <1>3, <3>2
      <4> QED
        BY <3>2, <4>1 DEF ReplyHalfway, LastMade, ReplyEnds
    <3> QED
      BY <3>1, <3>2
  <2> QED
    BY <2>1 DEF IInv, NodeContinues, Made, Running, nodeVars
<1> QED
  BY <1>7, <1>10, <1>11, <1>12, <1>13, <1>14, <1>15, <1>16, <1>17, <1>18 DEF IInv

(* The header IotHandle reads is one, and of the request that lives where its  *)
(* uid points.                                                               *)
LEMMA HeaderIs ==
  ASSUME IInv, Running, rx = Idle, fromIot # <<>>
  PROVE  /\ fromIot[1].idx = 0 /\ fromIot[1].uid \in Addrs /\ fromIot[1].req \in Requests
         /\ heap[fromIot[1].uid] = fromIot[1].req
         /\ \A k \in 2 .. Len(fromIot) :
              fromIot[k].req = fromIot[1].req => fromIot[k].idx > 0 /\ fromIot[k].idx <= ReplyEnds(fromIot[k].req)
<1>0. TypeInv
  BY DEF IInv
<1>1. /\ Len(fromIot) \in Nat /\ 1 \in 1 .. Len(fromIot) /\ \A k \in 2 .. Len(fromIot) : k \in 1 .. Len(fromIot) /\ k # 1
      /\ \A k \in 1 .. Len(fromIot) : fromIot[k].idx \in Nat /\ fromIot[k].uid \in Addrs /\ fromIot[k].req \in Requests
  BY <1>0, StreamsAre
<1>2. fromIot[1].idx = 0
  BY DEF IInv, FromNodeFramed
<1>3. \A k \in 1 .. Len(fromIot) : /\ fromIot[k].idx <= ReplyEnds(fromIot[k].req)
                                   /\ fromIot[k].req = fromIot[1].req /\ fromIot[k].idx = 0 => k = 1
  BY <1>1, <1>2 DEF IInv, RepliesLast
<1> QED
  BY <1>1, <1>2, <1>3 DEF IInv, Named

LEMMA IotHandleInv ==
  ASSUME IInv, TypeInv', IotHandle PROVE IInv'
<1>0. TypeInv
  BY DEF IInv
<1>1. /\ Running /\ rx = Idle /\ fromIot # <<>> /\ fromIot' = Tail(fromIot)
      /\ UNCHANGED <<program, issued, shape, got, dataBuf, sendVars, toIot, nodeVars, closed>>
  BY DEF IotHandle, ReactorFree
<1>2. PICK c : c = fromIot[1]
  OBVIOUS
<1>3. Head(fromIot) = c
  BY <1>0, <1>1, <1>2, ReceivedType
<1>4. /\ c.idx = 0 /\ c.uid \in Addrs /\ c.req \in Requests /\ heap[c.uid] = c.req /\ c.req # Freed
      /\ \A k \in 2 .. Len(fromIot) :
           fromIot[k].req = c.req => fromIot[k].idx > 0 /\ fromIot[k].idx <= ReplyEnds(c.req)
  BY <1>1, <1>2, HeaderIs, Distinct
<1>5. PICK o : o = [uid |-> c.uid, req |-> c.req, pos |-> 0]
  OBVIOUS
<1>6. o \in Sends /\ o.uid = c.uid /\ o.req = c.req /\ o.pos = 0 /\ o # Idle
  BY <1>4, <1>5, Distinct DEF Sends
<1>7. CASE shape[c.req].type = "READ"
  <2>1. rx' = o /\ UNCHANGED <<heap, replies, fault>>
    BY <1>3, <1>4, <1>5, <1>7 DEF IotHandle
  <2>2. c.idx < ReplyEnds(c.req)
    BY <1>0, <1>4, <1>7, ShapeIs DEF ReplyEnds, TypeInv
  <2> QED
    BY <1>1, <1>2, <1>4, <1>6, <2>1, <2>2, GoesOnInv
<1>8. CASE shape[c.req].type # "READ"
  <2>1. NbdRequestDone(o)
    BY <1>3, <1>4, <1>5, <1>8 DEF IotHandle
  <2>2. ReplyEnds(c.req) = 0
    BY <1>8 DEF ReplyEnds
  <2>3. \A k \in 2 .. Len(fromIot) : fromIot[k].req # c.req
    <3>1. \A k \in 2 .. Len(fromIot) : fromIot[k].idx \in Nat
      BY <1>0, StreamsAre
    <3> QED
      BY <1>4, <2>2, <3>1
  <2> QED
    BY <1>1, <1>2, <1>4, <1>6, <2>1, <2>2, <2>3, DoneInv
<1> QED
  BY <1>7, <1>8

LEMMA IotHandleDataInv ==
  ASSUME IInv, TypeInv', IotHandleData PROVE IInv'
<1>0. TypeInv
  BY DEF IInv
<1>1. /\ Running /\ rx # Idle /\ fromIot # <<>> /\ fromIot' = Tail(fromIot)
      /\ dataBuf' = [dataBuf EXCEPT ![rx.req][rx.pos] = Head(fromIot).val]
      /\ UNCHANGED <<program, issued, shape, got, sendVars, toIot, nodeVars, closed>>
  BY DEF IotHandleData
<1>2. PICK c, n : c = fromIot[1] /\ n = rx.req
  OBVIOUS
<1>3. /\ rx \in Sends /\ n \in Requests /\ rx.pos \in Nat
      /\ heap[rx.uid] = n /\ shape[n].type = "READ" /\ rx.pos \in 0 .. shape[n].len - 1
  BY <1>0, <1>1, <1>2 DEF TypeInv, TypeOK, InHandIsLive, Sends, Frags
<1>4. c.req = n /\ c.idx = rx.pos + 1 /\ ReplyEnds(n) = shape[n].len /\ shape[n].len \in Nat
  BY <1>0, <1>1, <1>2, <1>3, ShapeIs DEF IInv, TypeInv, FromNodeFramed, ReplyEnds
<1>5. \A k \in 2 .. Len(fromIot) : fromIot[k].req = n => c.idx < fromIot[k].idx /\ fromIot[k].idx <= ReplyEnds(n)
  <2>1. /\ Len(fromIot) \in Nat /\ 1 \in 1 .. Len(fromIot)
        /\ \A k \in 2 .. Len(fromIot) : k \in 1 .. Len(fromIot) /\ k # 1
        /\ \A k \in 1 .. Len(fromIot) : fromIot[k].idx \in Nat
    BY <1>0, <1>1, StreamsAre
  <2>2. \A k \in 1 .. Len(fromIot) : fromIot[k].req = n =>
          /\ fromIot[k].idx <= ReplyEnds(n) /\ rx.pos < fromIot[k].idx
          /\ fromIot[k].idx = rx.pos + 1 => k = 1
    BY <1>1, <1>2, <1>4, <2>1 DEF IInv, RepliesLast, InHand
  <2> QED
    BY <1>3, <1>4, <2>1, <2>2
<1>6. \A p \in Requests : (p = n /\ shape[p].type = "READ") \/ dataBuf'[p] = dataBuf[p]
  BY <1>0, <1>1, <1>2, <1>3 DEF TypeInv, TypeOK
<1>7. CASE IotHandleLast(n, rx.pos) /\ NbdRequestDone(rx)
  <2>1. c.idx = ReplyEnds(n)
    BY <1>3, <1>4, <1>7 DEF IotHandleLast
  <2>2. \A k \in 2 .. Len(fromIot) : fromIot[k].req # n
    <3>1. \A k \in 2 .. Len(fromIot) : fromIot[k].idx \in Nat
      BY <1>0, StreamsAre
    <3> QED
      BY <1>4, <1>5, <2>1, <3>1
  <2> QED
    BY <1>1, <1>2, <1>3, <1>4, <1>6, <1>7, <2>1, <2>2, DoneInv
<1>8. CASE /\ ~IotHandleLast(n, rx.pos) /\ rx' = [rx EXCEPT !.pos = @ + 1]
           /\ UNCHANGED <<heap, replies, fault>>
  <2>1. rx' \in Sends /\ rx' # Idle /\ rx'.req = n /\ rx'.pos = c.idx
    BY <1>2, <1>3, <1>4, <1>8, Distinct DEF Sends
  <2>2. c.idx < ReplyEnds(n)
    BY <1>3, <1>4, <1>8 DEF IotHandleLast
  <2>3. \A k \in 2 .. Len(fromIot) : fromIot[k].req = n => c.idx < fromIot[k].idx
    BY <1>5
  <2> QED
    BY <1>1, <1>2, <1>4, <1>6, <1>8, <2>1, <2>2, <2>3, GoesOnInv
<1> QED
  BY <1>2, <1>7, <1>8 DEF IotHandleData

----------------------------------------------------------------------------
(* sendmsg.                                                                  *)

LEMMA DequeueInv ==
  ASSUME IInv, TypeInv', NEW w \in Workers, Dequeue(w) PROVE IInv'
<1>0. TypeInv
  BY DEF IInv
<1>1. /\ out[w] = Idle /\ w \in AllThreads
      /\ UNCHANGED <<reqVars, lock, rx, toIot, fromIot, nodeVars, closed, fault>>
  BY DEF Dequeue, AllThreads
<1>2. PICK o \in tasks : out' = [out EXCEPT ![w] = o] /\ tasks' = tasks \ {o}
  BY DEF Dequeue
<1>3. o \in Sends /\ o.pos = 0 /\ o \notin {Idle, Exited} /\ out \in [AllThreads -> Sends \cup {Idle, Exited}]
  BY <1>0, SendsAre, Distinct DEF TypeInv, TypeOK, AllThreads
<1>4. out'[w] = o /\ \A t \in AllThreads : t # w => out'[t] = out[t]
  BY <1>1, <1>2, <1>3
<1>5. /\ NotTaken(o.req, 0) /\ heap[o.uid] = o.req
      /\ \A u \in tasks : u # o => u.req # o.req
      /\ \A u \in AllThreads : Sending(u) => out[u].req # o.req
      /\ \A k \in 1 .. Len(toIot) : toIot[k].req # o.req
  BY <1>2 DEF IInv, TasksFirst, Named
<1>6. CommandsNext' /\ NodeNext' /\ RepliesLast' /\ BuffersIntact' /\ ChunksIntact' /\ FaultsHaveACause'
  BY <1>1 DEF IInv, CommandsNext, NodeNext, RepliesLast, BuffersIntact, ChunksIntact, FaultsHaveACause, Running,
              NotTaken, AtNode, InHand, Ends, ReplyEnds, Made, reqVars, nodeVars
<1>7. ToNodeFramed' /\ FromNodeFramed' /\ NodeContinues'
  BY <1>1 DEF IInv, ToNodeFramed, FromNodeFramed, NodeContinues, Running,
              Reading, Ends, ReplyEnds, Made, ReplyHalfway, LastMade, reqVars, nodeVars
<1>8. OthersIdle'
  BY <1>1, <1>2, <1>4 DEF IInv, OthersIdle, Threads, Pooled, reqVars
<1>9. Named'
  BY <1>1, <1>2, <1>4, <1>5 DEF IInv, Named, Sending, reqVars, nodeVars
<1>10. TasksFirst'
  <2>1. ASSUME NEW t \in tasks'
        PROVE  \A u \in AllThreads : out'[u] \notin {Idle, Exited} => out'[u].req # t.req
    BY <1>2, <1>4, <1>5, <2>1 DEF IInv, TasksFirst, Sending
  <2> QED
    BY <1>1, <1>2, <2>1 DEF IInv, TasksFirst, NotTaken, AtNode, InHand, Sending, nodeVars
<1>11. SendersNext'
  <2>1. ASSUME NEW t \in AllThreads, out'[t] \notin {Idle, Exited}
        PROVE  /\ NotTaken(out'[t].req, out'[t].pos)
               /\ \A u \in AllThreads : out'[u] \notin {Idle, Exited} /\ out'[u].req = out'[t].req => u = t
               /\ \A k \in 1 .. Len(toIot) : toIot[k].req = out'[t].req => toIot[k].idx < out'[t].pos
    <3>1. CASE t = w
      BY <1>3, <1>4, <1>5, <3>1 DEF Sending
    <3>2. CASE t # w
      <4>1. Sending(t) /\ out'[t] = out[t] /\ out[t].req # o.req
        BY <1>4, <1>5, <2>1, <3>2 DEF Sending
      <4> QED
        BY <1>4, <4>1 DEF IInv, SendersNext, Sending
    <3> QED
      BY <3>1, <3>2
  <2> QED
    BY <1>1, <2>1 DEF SendersNext, NotTaken, AtNode, InHand, Sending, nodeVars
<1>12. MidwayContinues'
  <2>1. \A t \in AllThreads : /\ Midway(t)' <=> Midway(t)
                              /\ Midway(t) => out'[t] = out[t]
    BY <1>1, <1>3, <1>4 DEF Midway, Sending
  <2>2. (Halfway' <=> Halfway) /\ LastSent' = LastSent
    BY <1>1 DEF Halfway, LastSent, Reading, Ends, reqVars, nodeVars
  <2> QED
    BY <1>1, <2>1, <2>2 DEF IInv, MidwayContinues
<1> QED
  BY <1>6, <1>7, <1>8, <1>9, <1>10, <1>11, <1>12 DEF IInv

LEMMA SendFailsInv ==
  ASSUME IInv, TypeInv', NEW t \in Threads, SendFails(t) PROVE IInv'
<1>1. /\ "iot" \in closed
      /\ UNCHANGED <<reqVars, tasks, rx, toIot, fromIot, nodeVars, closed>>
  BY DEF SendFails
<1>2. \A u \in AllThreads : /\ out'[u] = out[u] \/ out'[u] \in {Idle, Exited}
                            /\ u # t => out'[u] = out[u]
  <2>1. out \in [AllThreads -> Sends \cup {Idle, Exited}] /\ t \in AllThreads
    BY DEF IInv, TypeInv, TypeOK, AllThreads, Threads
  <2>2. out' = out \/ out' = [out EXCEPT ![t] = Idle] \/ out' = [out EXCEPT ![t] = Exited]
    BY DEF SendFails
  <2> QED
    BY <2>1, <2>2
<1>3. \A u \in AllThreads : out'[u] \notin {Idle, Exited} => Sending(u) /\ out'[u] = out[u]
  BY <1>2 DEF Sending
<1>4. OthersIdle'
  BY <1>1, <1>2 DEF IInv, OthersIdle, Threads, Pooled, reqVars
<1>5. Named' /\ TasksFirst' /\ SendersNext'
  BY <1>1, <1>3 DEF IInv, Named, TasksFirst, SendersNext, NotTaken, AtNode, InHand, Sending, reqVars, nodeVars
<1>6. CommandsNext' /\ NodeNext' /\ RepliesLast' /\ BuffersIntact' /\ ChunksIntact'
  BY <1>1 DEF IInv, CommandsNext, NodeNext, RepliesLast, BuffersIntact, ChunksIntact,
              NotTaken, AtNode, InHand, Ends, ReplyEnds, Made, reqVars, nodeVars
<1>7. ToNodeFramed' /\ MidwayContinues'
  BY <1>1 DEF ToNodeFramed, MidwayContinues
<1>8. fault' = fault \/ fault' = "sigpipe"
  BY DEF SendFails
<1>9. FromNodeFramed' /\ NodeContinues' /\ FaultsHaveACause'
  BY <1>1, <1>8 DEF IInv, FromNodeFramed, NodeContinues, FaultsHaveACause, Running,
                    ReplyEnds, Made, ReplyHalfway, LastMade, reqVars, nodeVars
<1> QED
  BY <1>4, <1>5, <1>6, <1>7, <1>9 DEF IInv

(* The chunk a thread sends continues the message the stream stopped in.      *)
LEMMA ContinuesIs ==
  ASSUME IInv, NoSplit, NEW t \in Threads, SendChunk(t)
  PROVE  /\ Halfway => out[t].pos > 0 /\ LastSent = <<out[t].req, out[t].pos - 1>>
         /\ ~Halfway => out[t].pos = 0
         /\ \A u \in AllThreads : u # t => ~Midway(u)
<1>1. /\ Halfway => \E u \in AllThreads : Midway(u)
      /\ \A u \in AllThreads : Midway(u) => Halfway /\ LastSent = <<out[u].req, out[u].pos - 1>>
  BY DEF IInv, MidwayContinues, SendChunk
<1>2. \A u \in AllThreads : u # t => ~Midway(u)
  <2>1. \A u \in Threads \ {t} : ~Midway(u)
    BY DEF NoSplit
  <2>2. \A u \in AllThreads \ Threads : ~Midway(u)
    BY DEF IInv, OthersIdle, Midway, Sending
  <2> QED
    BY <2>1, <2>2
<1>3. t \in AllThreads /\ Sending(t) /\ out[t].pos \in Nat
  <2>1. t \in AllThreads /\ Sending(t)
    BY DEF SendChunk, Sending, AllThreads, Threads
  <2> QED
    BY <2>1, SendsAre DEF IInv
<1>4. Midway(t) <=> out[t].pos > 0
  BY <1>3 DEF Midway
<1> QED
  BY <1>1, <1>2, <1>3, <1>4

LEMMA SendChunkInv ==
  ASSUME IInv, TypeInv', NoSplit, NEW t \in Threads, SendChunk(t) PROVE IInv'
<1>0. TypeInv /\ t \in AllThreads
  BY DEF IInv, AllThreads, Threads
<1>1. UNCHANGED <<reqVars, tasks, rx, fromIot, nodeVars, closed, fault>>
  BY DEF SendChunk
<1>2. PICK n, i, c : n = out[t].req /\ i = out[t].pos /\ c = NextChunk(t)
  OBVIOUS
<1>3. /\ Sending(t) /\ i \in Nat /\ n \in Requests /\ c.uid = out[t].uid /\ c.req = n /\ c.idx = i
      /\ toIot' # <<>> /\ Len(toIot) \in Nat /\ Len(toIot') = Len(toIot) + 1
      /\ toIot'[Len(toIot) + 1] = c
      /\ \A k \in 1 .. Len(toIot) : toIot'[k] = toIot[k]
  BY <1>0, <1>2, SentChunkIs
<1>4. \A k \in 1 .. Len(toIot') : \/ k = Len(toIot) + 1 /\ toIot'[k] = c
                                  \/ k \in 1 .. Len(toIot) /\ toIot'[k] = toIot[k]
  BY <1>3
<1>5. i <= Ends(n) /\ Ends(n) \in Nat /\ Ends(n)' = Ends(n)
  BY <1>0, <1>1, <1>2, <1>3, SendsAre DEF Ends, reqVars
<1>6. /\ \A u \in AllThreads : u # t => out'[u] = out[u]
      /\ \/ i = Ends(n) /\ out'[t] = Idle
         \/ i < Ends(n) /\ out'[t] \notin {Idle, Exited} /\ out'[t].uid = out[t].uid
                        /\ out'[t].req = n /\ out'[t].pos = i + 1
  <2>1. out \in [AllThreads -> Sends \cup {Idle, Exited}] /\ out[t] \in Sends
    BY <1>0, <1>3, SendsAre DEF TypeInv, TypeOK, AllThreads
  <2>2. CASE LastChunk(t) /\ out' = [out EXCEPT ![t] = Idle]
    BY <1>0, <1>2, <2>1, <2>2 DEF LastChunk, Ends
  <2>3. CASE ~LastChunk(t) /\ out' = [out EXCEPT ![t].pos = @ + 1]
    <3>1. PICK o : o = [out[t] EXCEPT !.pos = @ + 1]
      OBVIOUS
    <3>2. o \in Sends /\ o.uid = out[t].uid /\ o.req = n /\ o.pos = i + 1
      BY <1>2, <1>3, <2>1, <3>1 DEF Sends
    <3>3. out' = [out EXCEPT ![t] = o]
      BY <2>3, <3>1
    <3>4. out'[t] = o /\ \A u \in AllThreads : u # t => out'[u] = out[u]
      BY <1>0, <2>1, <3>3
    <3>5. i # Ends(n)
      BY <1>2, <2>3 DEF LastChunk, Ends
    <3> QED
      BY <1>3, <1>5, <3>2, <3>4, <3>5, Distinct
  <2> QED
    BY <2>2, <2>3 DEF SendChunk
<1>7. \A u \in AllThreads : out'[u] \notin {Idle, Exited} =>
        /\ Sending(u) /\ out'[u].uid = out[u].uid /\ out'[u].req = out[u].req
        /\ u # t => out'[u] = out[u]
  BY <1>2, <1>3, <1>6 DEF Sending
<1>8. /\ NotTaken(n, i) /\ heap[c.uid] = n
      /\ \A u \in AllThreads : Sending(u) /\ u # t => out[u].req # n
      /\ \A k \in 1 .. Len(toIot) : toIot[k].req = n => toIot[k].idx < i /\ toIot[k].idx \in Nat
      /\ \A u \in tasks : u.req # n
  BY <1>0, <1>2, <1>3, StreamsAre DEF IInv, SendersNext, TasksFirst, Named
<1>9. NodeNext' /\ RepliesLast' /\ BuffersIntact' /\ FromNodeFramed' /\ NodeContinues' /\ FaultsHaveACause'
  BY <1>1 DEF IInv, NodeNext, RepliesLast, BuffersIntact, FromNodeFramed, NodeContinues, FaultsHaveACause,
              Running, InHand, ReplyEnds, Made, ReplyHalfway, LastMade, reqVars, nodeVars
<1>10. OthersIdle'
  BY <1>1, <1>6 DEF IInv, OthersIdle, Threads, Pooled, reqVars
<1>11. Named'
  <2>1. \A k \in 1 .. Len(toIot') : heap[toIot'[k].uid] = toIot'[k].req
    BY <1>3, <1>4, <1>8 DEF IInv, Named
  <2>2. \A u \in AllThreads : out'[u] \notin {Idle, Exited} => heap[out'[u].uid] = out'[u].req
    BY <1>7 DEF IInv, Named
  <2> QED
    BY <1>1, <2>1, <2>2 DEF IInv, Named, Sending, reqVars, nodeVars
<1>12. TasksFirst'
  <2>1. \A u \in tasks : /\ \A v \in AllThreads : out'[v] \notin {Idle, Exited} => out'[v].req # u.req
                         /\ \A k \in 1 .. Len(toIot') : toIot'[k].req # u.req
    BY <1>3, <1>4, <1>7, <1>8 DEF IInv, TasksFirst
  <2> QED
    BY <1>1, <2>1 DEF IInv, TasksFirst, NotTaken, AtNode, InHand, Sending, nodeVars
<1>13. SendersNext'
  <2>1. ASSUME NEW u \in AllThreads, out'[u] \notin {Idle, Exited}
        PROVE  /\ NotTaken(out'[u].req, out'[u].pos)
               /\ \A v \in AllThreads : out'[v] \notin {Idle, Exited} /\ out'[v].req = out'[u].req => v = u
               /\ \A k \in 1 .. Len(toIot') : toIot'[k].req = out'[u].req => toIot'[k].idx < out'[u].pos
    <3>1. \A v \in AllThreads : out'[v] \notin {Idle, Exited} /\ out'[v].req = out'[u].req => v = u
      BY <1>7, <2>1 DEF IInv, SendersNext
    <3>2. CASE u = t
      <4>1. out'[t].req = n /\ out'[t].pos = i + 1
        BY <1>6, <2>1, <3>2
      <4>2. NotTaken(n, i + 1)
        BY <1>0, <1>3, <1>8, SendsAre DEF NotTaken
      <4>3. \A k \in 1 .. Len(toIot') : toIot'[k].req = n => toIot'[k].idx < i + 1
        BY <1>3, <1>4, <1>8
      <4> QED
        BY <3>1, <3>2, <4>1, <4>2, <4>3
    <3>3. CASE u # t
      <4>1. Sending(u) /\ out'[u] = out[u] /\ out[u].req # n
        BY <1>7, <1>8, <2>1, <3>3
      <4> QED
        BY <1>3, <1>4, <3>1, <4>1 DEF IInv, SendersNext
    <3> QED
      BY <3>2, <3>3
  <2> QED
    BY <1>1, <2>1 DEF SendersNext, NotTaken, AtNode, InHand, Sending, nodeVars
<1>14. CommandsNext'
  <2>1. ASSUME NEW k \in 1 .. Len(toIot')
        PROVE  toIot'[k].idx <= Ends(toIot'[k].req) /\ NotTaken(toIot'[k].req, toIot'[k].idx)
    BY <1>3, <1>4, <1>5, <1>8 DEF IInv, CommandsNext
  <2>2. ASSUME NEW k \in 1 .. Len(toIot'), NEW j \in 1 .. Len(toIot'),
               toIot'[j].req = toIot'[k].req, toIot'[j].idx = toIot'[k].idx
        PROVE  j = k
    <3>1. CASE k \in 1 .. Len(toIot) /\ j \in 1 .. Len(toIot)
      BY <1>3, <2>2, <3>1 DEF IInv, CommandsNext
    <3>2. CASE k = Len(toIot) + 1 \/ j = Len(toIot) + 1
      BY <1>3, <1>4, <1>8, <2>2, <3>2
    <3> QED
      BY <1>4, <3>1, <3>2
  <2> QED
    BY <1>1, <2>1, <2>2 DEF CommandsNext, NotTaken, AtNode, InHand, Ends, reqVars, nodeVars
<1>15. ChunksIntact'
  <2>1. c.val = IF i = 0 THEN Blank ELSE Payload(n, i - 1)
    <3>1. c.val = IF i = 0 THEN Blank ELSE dataBuf[n][i - 1]
      BY <1>0, <1>2, <1>3 DEF IInv, Named, NextChunk, Chunk, Owns
    <3>2. ASSUME i > 0 PROVE dataBuf[n][i - 1] = Payload(n, i - 1)
      <4>1. shape[n].type = "WRITE" /\ i - 1 \in 0 .. shape[n].len - 1
        BY <1>0, <1>3, <1>5, <3>2, ShapeIs DEF Ends, TypeInv
      <4>2. i - 1 \in Blocks
        BY <1>0, <1>3, <4>1, ShapeIs DEF TypeInv
      <4>3. c.uid \in Addrs /\ heap[c.uid] = n /\ n # Freed
        BY <1>0, <1>3, <1>8, SendsAre, Distinct
      <4> QED
        BY <4>1, <4>2, <4>3 DEF IInv, BuffersIntact
    <3> QED
      BY <1>3, <3>1, <3>2
  <2> QED
    BY <1>3, <1>4, <2>1 DEF IInv, ChunksIntact
<1>16. /\ Halfway => i > 0 /\ LastSent = <<n, i - 1>>
       /\ ~Halfway => i = 0
       /\ \A u \in AllThreads : u # t => ~Midway(u)
  BY <1>2, ContinuesIs
<1>17. (Reading' <=> Reading) /\ "iot" \notin closed
  BY <1>1 DEF Reading, Ends, SendChunk, reqVars, nodeVars
<1>18. ToNodeFramed'
  <2>1. IF Reading THEN toIot'[1].req = cmd.req /\ toIot'[1].idx = step + 1 ELSE toIot'[1].idx = 0
    <3>1. CASE toIot = <<>>
      <4>1. toIot'[1] = c /\ step \in Nat
        BY <1>0, <1>3, <3>1, StreamsAre, SendsAre
      <4>2. Reading => n = cmd.req /\ i = step + 1
        BY <1>3, <1>16, <3>1, <4>1 DEF Halfway, LastSent
      <4>3. ~Reading => i = 0
        BY <1>16, <3>1 DEF Halfway
      <4> QED
        BY <1>3, <4>1, <4>2, <4>3
    <3>2. CASE toIot # <<>>
      <4>1. toIot'[1] = toIot[1]
        BY <1>0, <1>3, <3>2, StreamsAre
      <4> QED
        BY <1>17, <3>2, <4>1 DEF IInv, ToNodeFramed
    <3> QED
      BY <3>1, <3>2
  <2>2. ASSUME NEW k \in 1 .. Len(toIot') - 1
        PROVE  IF toIot'[k].idx < Ends(toIot'[k].req)
               THEN toIot'[k + 1].req = toIot'[k].req /\ toIot'[k + 1].idx = toIot'[k].idx + 1
               ELSE toIot'[k + 1].idx = 0
    <3>1. CASE k \in 1 .. Len(toIot) - 1
      <4>1. toIot'[k] = toIot[k] /\ toIot'[k + 1] = toIot[k + 1]
        BY <1>3, <3>1
      <4> QED
        BY <1>17, <3>1, <4>1 DEF IInv, ToNodeFramed
    <3>2. CASE k = Len(toIot)
      <4>1. /\ toIot # <<>> /\ toIot'[k] = toIot[k] /\ toIot'[k + 1] = c /\ toIot[k].idx \in Nat
        BY <1>0, <1>3, <3>2, StreamsAre
      <4>2. toIot[k].idx < Ends(toIot[k].req) => n = toIot[k].req /\ i = toIot[k].idx + 1
        BY <1>3, <1>16, <3>2, <4>1 DEF Halfway, LastSent
      <4>3. ~(toIot[k].idx < Ends(toIot[k].req)) => i = 0
        BY <1>16, <3>2, <4>1 DEF Halfway
      <4> QED
        BY <1>3, <4>1, <4>2, <4>3
    <3> QED
      BY <1>3, <3>1, <3>2
  <2> QED
    BY <1>1, <1>17, <2>1, <2>2 DEF ToNodeFramed, Ends, reqVars, nodeVars
<1>19. MidwayContinues'
  <2>1. (Halfway' <=> i < Ends(n)) /\ LastSent' = <<n, i>>
    BY <1>3, <1>5 DEF Halfway, LastSent
  <2>2. \A u \in AllThreads : u # t => ~Midway(u)'
    BY <1>6, <1>16 DEF Midway, Sending
  <2>3. CASE i = Ends(n) /\ out'[t] = Idle
    <3>1. ~Halfway' /\ ~Midway(t)'
      BY <1>5, <2>1, <2>3 DEF Midway, Sending
    <3> QED
      BY <2>2, <3>1 DEF MidwayContinues
  <2>4. CASE i < Ends(n) /\ out'[t] \notin {Idle, Exited} /\ out'[t].req = n /\ out'[t].pos = i + 1
    <3>1. Halfway' /\ Midway(t)' /\ out'[t].pos - 1 = i
      BY <1>3, <2>1, <2>4 DEF Midway, Sending
    <3> QED
      BY <1>0, <2>1, <2>2, <2>4, <3>1 DEF MidwayContinues
  <2> QED
    BY <1>6, <2>3, <2>4
<1> QED
  BY <1>9, <1>10, <1>11, <1>12, <1>13, <1>14, <1>15, <1>18, <1>19 DEF IInv

----------------------------------------------------------------------------
(* The invariant, where no message is split.                                 *)

LEMMA InvStep ==
  ASSUME IInv, [Next]_vars, [NoSplit]_vars PROVE IInv'
<1>0. TypeInv'
  BY TypeStep DEF IInv
<1>1. CASE UNCHANGED vars
  BY <1>0, <1>1, StutterInv
<1>2. CASE Next /\ NoSplit
  <2>1. CASE KernelIssues
    BY <1>0, <2>1, KernelIssuesInv
  <2>2. CASE PeerCloses
    BY <1>0, <2>2, PeerClosesInv
  <2>3. CASE IotStep
    BY <1>0, <2>3, IotReadsHeaderInv, IotStoresInv, IotRepliesInv DEF IotStep
  <2>4. CASE ReactorStep
    BY <1>0, <2>4, NbdHandleInv, IotHandleInv, IotHandleDataInv, ReadClosedInv DEF ReactorStep
  <2>5. CASE \E t \in Threads : SendStep(t)
    BY <1>0, <1>2, <2>5, SendChunkInv, SendFailsInv DEF SendStep
  <2>6. CASE \E w \in Workers : Dequeue(w)
    BY <1>0, <2>6, DequeueInv
  <2>7. CASE Quiet
    BY <1>0, <2>7, StutterInv DEF Quiet
  <2> QED
    BY <1>2, <2>1, <2>2, <2>3, <2>4, <2>5, <2>6, <2>7 DEF Next
<1> QED
  BY <1>1, <1>2

(* As long as no sendmsg comes between the chunks of another, the invariant    *)
(* holds: whatever the number of workers, requests and addresses, the sizes  *)
(* of the two connections, and whichever peers close.                        *)
THEOREM Invariance == Spec /\ [][NoSplit]_vars => []IInv
  BY InitInv, InvStep, PTL DEF Spec

LEMMA InvAddresses == IInv => AddressesNameRequests
<1> SUFFICES ASSUME IInv, Running PROVE AddressesNameRequests
  BY DEF AddressesNameRequests
<1>1. /\ \A t \in tasks : heap[t.uid] = t.req
      /\ \A t \in AllThreads : Sending(t) => heap[out[t].uid] = out[t].req
      /\ cmd # Idle => heap[cmd.uid] = cmd.req
      /\ rx # Idle => heap[rx.uid] = rx.req
      /\ \A k \in 1 .. Len(toIot) : heap[toIot[k].uid] = toIot[k].req
      /\ \A k \in 1 .. Len(fromIot) : heap[fromIot[k].uid] = fromIot[k].req
  BY DEF IInv, Named, TypeInv, InHandIsLive
<1>2. \A t \in Threads : t \in AllThreads
  BY DEF Threads, AllThreads
<1>3. \A t \in Threads : out[t] \notin {Idle, Exited} => Owns(t)
  BY <1>1, <1>2 DEF Sending, Owns
<1>4. \A q \in {toIot, fromIot} : \A k \in 1 .. Len(q) : heap[q[k].uid] = q[k].req
  BY <1>1
<1> QED
  BY <1>1, <1>3, <1>4 DEF AddressesNameRequests

(* atlas_main has one thread that sends, so no message is split.              *)
LEMMA MainIsWhole == Spec /\ ~Pooled => [][NoSplit]_vars
<1>1. ~Pooled /\ [Next]_vars => ~Pooled'
  <2> SUFFICES ASSUME ~Pooled, [Next]_vars PROVE program' = program
    BY DEF Pooled
  <2>1. CASE IotStep
    BY <2>1 DEF IotStep, IotReadsHeader, IotStores, IotReplies, reqVars
  <2>2. CASE ReactorStep
    BY <2>2 DEF ReactorStep, NbdHandle, IotHandle, IotHandleData, ReadClosed, reqVars
  <2>3. CASE \E t \in Threads : SendStep(t)
    BY <2>3 DEF SendStep, SendChunk, SendFails, reqVars
  <2>4. CASE KernelIssues \/ PeerCloses \/ Quiet \/ (\E w \in Workers : Dequeue(w)) \/ UNCHANGED vars
    BY <2>4 DEF KernelIssues, PeerCloses, Quiet, Dequeue, vars, reqVars
  <2> QED
    BY <2>1, <2>2, <2>3, <2>4 DEF Next
<1>2. ~Pooled => [NoSplit]_vars
  BY DEF NoSplit, Threads
<1> QED
  BY <1>1, <1>2, PTL DEF Spec

----------------------------------------------------------------------------
(* A connection with room for all the commands that may be outstanding at     *)
(* once never makes a sendmsg wait halfway.                                  *)

Room ==
  /\ IsFiniteSet(Addrs)
  /\ \E len \in Nat : /\ \A s \in Shapes : s.len <= len
                      /\ Cardinality(Addrs) * (len + 1) <= OutCap["pool"]

(* Who is halfway through a message holds the lock.                          *)
LockHeld == \A t \in Threads : Midway(t) => lock = t

LEMMA PairIs == \A a, b, c, d : <<a, b>> = <<c, d>> => a = c /\ b = d
  OBVIOUS

LEMMA RoomLeft ==
  ASSUME Room, IInv, Pooled, NEW t \in AllThreads, Sending(t)
  PROVE  ~Full(toIot)
<1>0. TypeInv
  BY DEF IInv
<1>1. PICK len \in Nat : /\ \A s \in Shapes : s.len <= len
                         /\ Cardinality(Addrs) * (len + 1) <= OutCap["pool"]
  BY DEF Room
<1>2. IsFiniteSet(Addrs)
  BY DEF Room
<1>3. PICK T : T = Addrs \X (0 .. len)
  OBVIOUS
<1>4. IsFiniteSet(T) /\ Cardinality(T) <= OutCap["pool"]
  <2>1. IsFiniteSet(0 .. len) /\ Cardinality(0 .. len) = len + 1
    BY FS_Interval
  <2>2. IsFiniteSet(Addrs \X (0 .. len))
        /\ Cardinality(Addrs \X (0 .. len)) = Cardinality(Addrs) * Cardinality(0 .. len)
    BY <1>2, <2>1, FS_Product
  <2> QED
    BY <1>1, <1>3, <2>1, <2>2
<1>5. PICK L \in Nat : L = Len(toIot)
  BY <1>0, StreamsAre
<1>6. \A n \in Requests : Ends(n) \in Nat /\ Ends(n) <= len
  <2> SUFFICES ASSUME NEW n \in Requests PROVE Ends(n) \in Nat /\ Ends(n) <= len
    OBVIOUS
  <2>1. shape[n] \in Shapes \/ shape[n] = NoReq
    BY <1>0 DEF TypeInv, TypeOK
  <2>2. Ends(n) \in Nat
    BY <1>0, SendsAre
  <2> QED
    BY <1>1, <2>1, <2>2 DEF Ends, NoReq
<1>7. /\ out[t].uid \in Addrs /\ out[t].req \in Requests /\ out[t].pos \in 0 .. len
      /\ heap[out[t].uid] = out[t].req
  <2>1. /\ out[t].uid \in Addrs /\ out[t].req \in Requests /\ out[t].pos \in Nat
        /\ out[t].pos <= Ends(out[t].req)
    BY <1>0, SendsAre
  <2>2. heap[out[t].uid] = out[t].req
    BY DEF IInv, Named
  <2> QED
    BY <1>6, <2>1, <2>2
<1>8. \A k \in 1 .. L : /\ toIot[k].uid \in Addrs /\ toIot[k].req \in Requests /\ toIot[k].idx \in 0 .. len
                        /\ heap[toIot[k].uid] = toIot[k].req
  <2>1. \A k \in 1 .. L : /\ toIot[k].uid \in Addrs /\ toIot[k].req \in Requests /\ toIot[k].idx \in Nat
    BY <1>0, <1>5, StreamsAre
  <2>2. \A k \in 1 .. L : heap[toIot[k].uid] = toIot[k].req /\ toIot[k].idx <= Ends(toIot[k].req)
    BY <1>5 DEF IInv, Named, CommandsNext
  <2> QED
    BY <1>6, <2>1, <2>2
<1>9. /\ \A k, j \in 1 .. L : toIot[j].req = toIot[k].req /\ toIot[j].idx = toIot[k].idx => j = k
      /\ \A k \in 1 .. L : ~(toIot[k].req = out[t].req /\ toIot[k].idx = out[t].pos)
  <2>1. \A k \in 1 .. L : toIot[k].req = out[t].req => toIot[k].idx < out[t].pos
    BY <1>5 DEF IInv, SendersNext
  <2>2. \A k \in 1 .. L : toIot[k].req = out[t].req => toIot[k].idx # out[t].pos
    BY <1>7, <1>8, <2>1
  <2> QED
    BY <1>5, <2>2 DEF IInv, CommandsNext
<1>10. PICK f : f = [k \in 1 .. L + 1 |-> IF k = L + 1 THEN <<out[t].uid, out[t].pos>>
                                          ELSE <<toIot[k].uid, toIot[k].idx>>]
  OBVIOUS
<1>11. f \in Injection(1 .. L + 1, T)
  <2>1. \A k \in 1 .. L + 1 : k \in 1 .. L \/ k = L + 1
    OBVIOUS
  <2>2. f \in [1 .. L + 1 -> T]
    BY <1>3, <1>7, <1>8, <1>10, <2>1
  <2>3. ASSUME NEW k \in 1 .. L + 1, NEW j \in 1 .. L + 1, f[k] = f[j]
        PROVE  k = j
    <3>1. CASE k = L + 1 /\ j = L + 1
      BY <3>1
    <3>2. CASE k \in 1 .. L /\ j \in 1 .. L
      <4>1. f[k] = <<toIot[k].uid, toIot[k].idx>> /\ f[j] = <<toIot[j].uid, toIot[j].idx>>
        BY <1>10, <3>2
      <4>2. toIot[k].uid = toIot[j].uid /\ toIot[k].idx = toIot[j].idx
        <5>1. <<toIot[k].uid, toIot[k].idx>> = <<toIot[j].uid, toIot[j].idx>>
          BY <2>3, <4>1
        <5> QED
          BY <5>1, PairIs
      <4> QED
        BY <1>8, <1>9, <3>2, <4>2
    <3>3. CASE k = L + 1 /\ j \in 1 .. L
      <4>1. f[k] = <<out[t].uid, out[t].pos>> /\ f[j] = <<toIot[j].uid, toIot[j].idx>>
        BY <1>10, <3>3
      <4>2. out[t].uid = toIot[j].uid /\ out[t].pos = toIot[j].idx
        <5>1. <<out[t].uid, out[t].pos>> = <<toIot[j].uid, toIot[j].idx>>
          BY <2>3, <4>1
        <5> QED
          BY <5>1, PairIs
      <4> QED
        BY <1>7, <1>8, <1>9, <3>3, <4>2
    <3>4. CASE k \in 1 .. L /\ j = L + 1
      <4>1. f[j] = <<out[t].uid, out[t].pos>> /\ f[k] = <<toIot[k].uid, toIot[k].idx>>
        BY <1>10, <3>4
      <4>2. out[t].uid = toIot[k].uid /\ out[t].pos = toIot[k].idx
        <5>1. <<out[t].uid, out[t].pos>> = <<toIot[k].uid, toIot[k].idx>>
          BY <2>3, <4>1
        <5> QED
          BY <5>1, PairIs
      <4> QED
        BY <1>7, <1>8, <1>9, <3>4, <4>2
    <3> QED
      BY <2>1, <3>1, <3>2, <3>3, <3>4
  <2> QED
    BY <2>2, <2>3 DEF Injection, IsInjective
<1>12. Cardinality(1 .. L + 1) <= Cardinality(T)
  BY <1>4, <1>11, FS_Injection
<1>13. Cardinality(1 .. L + 1) = L + 1
  BY FS_Interval
<1>14. OutCap[program] \in Nat /\ OutCap[program] = OutCap["pool"]
  BY <1>0, SingleAssumption DEF TypeInv, TypeOK, Pooled
<1>15. Cardinality(T) \in Nat
  BY <1>4, FS_CardinalityType
<1> QED
  BY <1>4, <1>5, <1>12, <1>13, <1>14, <1>15 DEF Full

LEMMA RoomLeftNext == (Room /\ IInv /\ Pooled => \A t \in AllThreads : Sending(t) => ~Full(toIot))'
<1>1. Room /\ IInv /\ Pooled => \A t \in AllThreads : Sending(t) => ~Full(toIot)
  BY RoomLeft
<1> QED
  BY <1>1, PTL

LEMMA HeldIsWhole ==
  ASSUME LockHeld PROVE NoSplit
<1> SUFFICES ASSUME NEW t \in Threads, SendChunk(t), NEW u \in Threads \ {t}, Midway(u) PROVE FALSE
  BY DEF NoSplit
<1>1. lock = u /\ lock \in {t, NoThread} /\ u # NoThread
  BY Distinct DEF LockHeld, SendChunk, Threads, AllThreads
<1> QED
  BY <1>1

LEMMA LockStep ==
  ASSUME Room, Pooled, IInv, IInv', LockHeld, [Next]_vars
  PROVE  LockHeld' /\ Pooled'
<1>0. out \in [AllThreads -> Sends \cup {Idle, Exited}] /\ Threads \subseteq AllThreads
  BY DEF IInv, TypeInv, TypeOK, AllThreads, Threads
<1>1. CASE UNCHANGED <<program, out, lock>>
  BY <1>1 DEF LockHeld, Midway, Sending, Threads, Pooled
<1>2. CASE NbdHandle
  BY <1>2 DEF NbdHandle, LockHeld, Midway, Sending, Threads, Pooled
<1>3. CASE \E w \in Workers : Dequeue(w)
  <2>1. PICK w \in Workers, o \in tasks : out' = [out EXCEPT ![w] = o] /\ UNCHANGED <<program, lock>>
    BY <1>3 DEF Dequeue, reqVars
  <2>2. o.pos = 0
    BY SendsAre DEF IInv
  <2>3. \A u \in AllThreads : out'[u] = o \/ out'[u] = out[u]
    BY <1>0, <2>1
  <2> QED
    BY <1>0, <2>1, <2>2, <2>3 DEF LockHeld, Midway, Sending, Threads, Pooled
<1>4. CASE \E t \in Threads : SendChunk(t)
  <2>1. PICK t \in Threads : SendChunk(t)
    BY <1>4
  <2>2. /\ program' = program /\ lock \in {t, NoThread} /\ t \in AllThreads
        /\ \/ out' = [out EXCEPT ![t] = Idle] /\ lock' = NoThread
           \/ /\ out' = [out EXCEPT ![t].pos = @ + 1]
              /\ lock' = IF Full(toIot') THEN NoThread ELSE t
    BY <1>0, <2>1 DEF SendChunk, reqVars
  <2>3. \A u \in Threads : u # t => out'[u] = out[u] /\ ~Midway(u)
    <3>1. \A u \in Threads : u # t => ~Midway(u)
      BY <2>1, HeldIsWhole DEF NoSplit
    <3> QED
      BY <1>0, <2>2, <3>1
  <2>4. Threads' = Threads /\ Pooled'
    BY <2>2 DEF Threads, Pooled
  <2>5. out'[t] \notin {Idle, Exited} => lock' = t
    <3> SUFFICES ASSUME out'[t] \notin {Idle, Exited} PROVE lock' = t
      OBVIOUS
    <3>1. ~Full(toIot')
      <4>1. Room'
        BY DEF Room
      <4>2. \A u \in AllThreads : out'[u] \notin {Idle, Exited} => ~Full(toIot')
        BY <2>2, <2>4, <4>1, RoomLeftNext DEF Sending, Full
      <4> QED
        BY <2>2, <4>2
    <3> QED
      BY <1>0, <2>2, <3>1
  <2> QED
    BY <2>3, <2>4, <2>5 DEF LockHeld, Midway, Sending
<1>5. CASE \E t \in Threads : SendFails(t)
  <2>1. PICK t \in Threads : SendFails(t)
    BY <1>5
  <2>2. /\ program' = program /\ t \in AllThreads
        /\ \/ out' = out /\ lock' = lock
           \/ /\ out' = [out EXCEPT ![t] = Exited] \/ out' = [out EXCEPT ![t] = Idle]
              /\ lock' = IF lock = t THEN NoThread ELSE lock
    BY <1>0, <2>1 DEF SendFails, reqVars
  <2> QED
    BY <1>0, <2>2 DEF LockHeld, Midway, Sending, Threads, Pooled
<1>6. CASE KernelIssues \/ PeerCloses \/ IotStep \/ IotHandle \/ IotHandleData \/ ReadClosed \/ Quiet \/ UNCHANGED vars
  <2>1. UNCHANGED <<program, out, lock>>
    BY <1>6 DEF KernelIssues, PeerCloses, IotStep, IotReadsHeader, IotStores, IotReplies, IotHandle, IotHandleData,
                ReadClosed, Quiet, vars, reqVars, sendVars
  <2> QED
    BY <1>1, <2>1
<1> QED
  BY <1>2, <1>3, <1>4, <1>5, <1>6 DEF Next, ReactorStep, SendStep

OneWorker == \E w : Workers = {w}

(* Messages are whole in atlas_main, in atlas_ThreadPool with a single worker, *)
(* and where the connection to the node has room for as many commands as      *)
(* addresses.                                                               *)
THEOREM Whole == Spec /\ (~Pooled \/ OneWorker \/ Room) => [][NoSplit]_vars
<1>1. Init /\ Room => LockHeld
  BY DEF Init, LockHeld, Midway, Sending, Threads
<1>2. Room /\ Pooled /\ IInv /\ LockHeld /\ [Next]_vars =>
        /\ [NoSplit]_vars /\ IInv' /\ LockHeld' /\ Pooled'
  BY HeldIsWhole, InvStep, LockStep
<1>3. Room => Room'
  BY DEF Room
<1>4. Spec /\ Pooled /\ Room => [][NoSplit]_vars
  BY <1>1, <1>2, <1>3, InitInv, PTL DEF Spec
<1>5. OneWorker => [NoSplit]_vars
  <2> SUFFICES ASSUME NEW w, Workers = {w} PROVE NoSplit
    BY DEF OneWorker
  <2>1. \A t, u \in Threads : u = t
    BY DEF Threads
  <2> QED
    BY <2>1 DEF NoSplit
<1>6. OneWorker => OneWorker'
  BY DEF OneWorker
<1>7. OneWorker => [][NoSplit]_vars
  BY <1>5, <1>6, PTL
<1> QED
  BY <1>4, <1>7, MainIsWhole, PTL

(* The hypothesis of the theorems below: no message is split, or the program,  *)
(* its workers or the size of the connection see to it.                      *)
WholeMessages == [][NoSplit]_vars \/ ~Pooled \/ OneWorker \/ Room

(* An address names the request that lives there, for everyone who mentions   *)
(* it, so no thread sends from freed memory, no reply is taken for another   *)
(* request's, and ConvertToAtlas's cast of a pointer is sound.               *)
THEOREM AddressesAreGood == Spec /\ WholeMessages => []AddressesNameRequests
  BY Invariance, Whole, InvAddresses, PTL DEF WholeMessages

(* IotHandle never finds freed memory at the address a reply names: only a     *)
(* closed connection stops the server.                                       *)
THEOREM FaultsAreCaused == Spec /\ WholeMessages => []FaultsHaveACause
<1>1. IInv => FaultsHaveACause
  BY DEF IInv
<1> QED
  BY <1>1, Invariance, Whole, PTL DEF WholeMessages

----------------------------------------------------------------------------
(* The block device.                                                         *)

Status(n) ==
  IF n >= issued THEN "unused" ELSE IF replies[n] = 0 THEN "pending" ELSE "answered"

LEMMA BdFunctions ==
  /\ BdStatus = [n \in Requests |-> Status(n)]
  /\ BdTaken = [n \in Requests |-> Taken(n)]
  /\ BdGot = [n \in Requests |-> [i \in Blocks |-> Got(n, i)]]
  BY DEF BdStatus, BdTaken, BdGot, Status

LEMMA BdFunctionsNext ==
  /\ BdStatus' = [n \in Requests |-> Status(n)']
  /\ BdTaken' = [n \in Requests |-> Taken(n)']
  /\ BdGot' = [n \in Requests |-> [i \in Blocks |-> Got(n, i)']]
  BY DEF BdStatus, BdTaken, BdGot, Status

LEMMA BdOpIs ==
  ASSUME NEW n \in Requests
  PROVE  /\ BdOp[n] = [type |-> shape[n].type, first |-> shape[n].first, frags |-> shape[n].len]
         /\ BD!Fragments(n) = Frags(n)
  BY DEF BdOp, BD!Fragments, Frags

(* A READ's block that was taken is in its reply chunk until IotHandle has     *)
(* read that, and then in the buffer.                                        *)
LEMMA GotIs ==
  IInv => \A n, i :
    /\ shape[n].type # "READ" \/ i \notin Taken(n) => Got(n, i) = Blank
    /\ shape[n].type = "READ" /\ i \in Taken(n) =>
         /\ (\A k \in 1 .. Len(fromIot) : ~(fromIot[k].req = n /\ fromIot[k].idx = i + 1))
              => Got(n, i) = dataBuf[n][i]
         /\ \A k \in 1 .. Len(fromIot) :
              fromIot[k].req = n /\ fromIot[k].idx = i + 1 => Got(n, i) = fromIot[k].val
<1> SUFFICES ASSUME IInv, NEW n, NEW i
    PROVE  /\ shape[n].type # "READ" \/ i \notin Taken(n) => Got(n, i) = Blank
           /\ shape[n].type = "READ" /\ i \in Taken(n) =>
                /\ (\A k \in 1 .. Len(fromIot) : ~(fromIot[k].req = n /\ fromIot[k].idx = i + 1))
                     => Got(n, i) = dataBuf[n][i]
                /\ \A k \in 1 .. Len(fromIot) :
                     fromIot[k].req = n /\ fromIot[k].idx = i + 1 => Got(n, i) = fromIot[k].val
  OBVIOUS
<1>1. shape[n].type # "READ" \/ i \notin Taken(n) => Got(n, i) = Blank
  BY DEF Got
<1>2. (\A k \in 1 .. Len(fromIot) : ~(fromIot[k].req = n /\ fromIot[k].idx = i + 1)) => Replied(n, i) = {}
  BY DEF Replied
<1>3. ASSUME NEW k \in 1 .. Len(fromIot), fromIot[k].req = n, fromIot[k].idx = i + 1
      PROVE  Replied(n, i) # {} /\ fromIot[CHOOSE j \in Replied(n, i) : TRUE].val = fromIot[k].val
  <2>1. \A j \in Replied(n, i) : j = k
    BY <1>3 DEF IInv, RepliesLast, Replied
  <2>2. k \in Replied(n, i)
    BY <1>3 DEF Replied
  <2>3. (CHOOSE j \in Replied(n, i) : TRUE) = k
    BY <2>1, <2>2
  <2> QED
    BY <2>2, <2>3
<1> QED
  BY <1>1, <1>2, <1>3 DEF Got

LEMMA GotIsNext ==
  (IInv => \A n, i :
    /\ shape[n].type # "READ" \/ i \notin Taken(n) => Got(n, i) = Blank
    /\ shape[n].type = "READ" /\ i \in Taken(n) =>
         /\ (\A k \in 1 .. Len(fromIot) : ~(fromIot[k].req = n /\ fromIot[k].idx = i + 1))
              => Got(n, i) = dataBuf[n][i]
         /\ \A k \in 1 .. Len(fromIot) :
              fromIot[k].req = n /\ fromIot[k].idx = i + 1 => Got(n, i) = fromIot[k].val)'
  BY GotIs, PTL

(* What IotHandle takes from the stream changes nothing for the other chunks.  *)
LEMMA ShiftGot ==
  ASSUME IInv, IInv', NEW n, NEW i, shape' = shape, Taken(n)' = Taken(n), dataBuf'[n][i] = dataBuf[n][i],
         fromIot # <<>>, fromIot' = Tail(fromIot), ~(fromIot[1].req = n /\ fromIot[1].idx = i + 1)
  PROVE  Got(n, i)' = Got(n, i)
<1>1. /\ Len(fromIot) \in Nat /\ Len(fromIot') = Len(fromIot) - 1
      /\ \A k \in 1 .. Len(fromIot') : fromIot'[k] = fromIot[k + 1] /\ k + 1 \in 1 .. Len(fromIot)
  BY ReceivedType DEF IInv
<1>2. CASE shape[n].type # "READ" \/ i \notin Taken(n)
  BY <1>2, GotIs, GotIsNext
<1>3. CASE /\ shape[n].type = "READ" /\ i \in Taken(n)
           /\ \E k \in 1 .. Len(fromIot) : fromIot[k].req = n /\ fromIot[k].idx = i + 1
  <2>1. PICK k \in 1 .. Len(fromIot) : fromIot[k].req = n /\ fromIot[k].idx = i + 1
    BY <1>3
  <2>2. PICK j : j = k - 1
    OBVIOUS
  <2>3. j \in 1 .. Len(fromIot') /\ j + 1 = k
    BY <1>1, <2>1, <2>2
  <2>4. fromIot'[j] = fromIot[k]
    BY <1>1, <2>3
  <2>5. Got(n, i) = fromIot[k].val
    BY <1>3, <2>1, GotIs
  <2>6. Got(n, i)' = fromIot'[j].val
    BY <1>3, <2>1, <2>3, <2>4, GotIsNext
  <2> QED
    BY <2>4, <2>5, <2>6
<1>4. CASE /\ shape[n].type = "READ" /\ i \in Taken(n)
           /\ \A k \in 1 .. Len(fromIot) : ~(fromIot[k].req = n /\ fromIot[k].idx = i + 1)
  <2>1. \A k \in 1 .. Len(fromIot') : ~(fromIot'[k].req = n /\ fromIot'[k].idx = i + 1)
    BY <1>1, <1>4
  <2>2. Got(n, i) = dataBuf[n][i]
    BY <1>4, GotIs
  <2>3. Got(n, i)' = dataBuf'[n][i]
    BY <1>4, <2>1, GotIsNext
  <2> QED
    BY <2>2, <2>3
<1> QED
  BY <1>2, <1>3, <1>4

LEMMA InitBd == Init => BD!Init
<1> SUFFICES ASSUME Init PROVE BD!Init
  OBVIOUS
<1>1. IInv /\ Len(fromIot) = 0
  BY InitInv, StreamsAre DEF Init, IInv
<1>2. ASSUME NEW n \in Requests
      PROVE  /\ Status(n) = "unused" /\ Taken(n) = {} /\ \A i \in Blocks : Got(n, i) = Blank
             /\ shape[n] = NoReq
  <2>1. n >= issued /\ replies[n] = 0
    BY SingleAssumption DEF Init, Requests
  <2> QED
    BY <1>1, <2>1 DEF Init, Status, Taken, Left, Got
<1>3. BdOp = [n \in Requests |-> BD!NoOp]
  BY <1>2 DEF BdOp, BD!NoOp, NoReq
<1> QED
  BY <1>2, <1>3, BdFunctions DEF BD!Init, Init

(* A step that changes neither the requests nor what is taken of them.       *)
LEMMA BdStutter ==
  ASSUME shape' = shape, store' = store, issued' = issued, replies' = replies,
         \A n \in Requests : Taken(n)' = Taken(n) /\ \A i \in Blocks : Got(n, i)' = Got(n, i)
  PROVE  UNCHANGED BD!bdVars
<1>1. \A n \in Requests : Status(n)' = Status(n)
  BY DEF Status
<1>2. BdOp' = BdOp
  BY DEF BdOp
<1>3. BdStatus' = BdStatus /\ BdTaken' = BdTaken
  BY <1>1, BdFunctions, BdFunctionsNext
<1>4. BdGot' = BdGot
  BY BdFunctions, BdFunctionsNext
<1> QED
  BY <1>2, <1>3, <1>4 DEF BD!bdVars

(* A step that moves no chunk of a reply either.                              *)
LEMMA BdQuiet ==
  ASSUME UNCHANGED <<issued, shape, replies, dataBuf, rx, fromIot, nodeVars>>
  PROVE  UNCHANGED BD!bdVars
<1>1. \A n \in Requests : Taken(n)' = Taken(n)
  BY DEF Taken, Left, Frags, nodeVars
<1>2. \A n \in Requests : \A i \in Blocks : Got(n, i)' = Got(n, i)
  BY <1>1 DEF Got, Replied
<1> QED
  BY <1>1, <1>2, BdStutter DEF nodeVars

LEMMA KernelIssuesBd ==
  ASSUME IInv, KernelIssues PROVE BD!Next
<1>0. TypeInv
  BY DEF IInv
<1>1. /\ UNCHANGED <<program, got, heap, dataBuf, replies, sendVars, rx, toIot, fromIot, nodeVars,
                     closed, fault>>
      /\ issued < MaxReqs /\ issued' = issued + 1
  BY DEF KernelIssues
<1>2. PICK s \in Shapes : shape' = [shape EXCEPT ![issued] = s]
  BY DEF KernelIssues
<1>3. issued \in Requests /\ issued \in Nat /\ got \in Nat /\ got <= issued
  BY <1>0, <1>1, SingleAssumption DEF TypeInv, TypeOK, Requests
<1>4. shape'[issued] = s /\ \A n \in Requests : n # issued => shape'[n] = shape[n]
  BY <1>0, <1>2, <1>3 DEF TypeInv, TypeOK
<1>5. /\ replies[issued] = 0
      /\ cmd # Idle => cmd.req # issued
      /\ rx # Idle => rx.req # issued
      /\ \A k \in 1 .. Len(fromIot) : fromIot[k].req # issued
  <2>1. replies[issued] = 0
    BY <1>0, <1>3 DEF TypeInv, HeapIsLive
  <2> QED
    BY <1>0, <1>3, <2>1, MentionsRead DEF IInv
<1>6. Taken(issued) = {} /\ (\A n \in Requests : n = issued => Taken(n)' = {})
  BY <1>1, <1>5 DEF Taken, Left, nodeVars
<1>7. \A n \in Requests : Taken(n)' = Taken(n)
  <2>1. \A n \in Requests : n # issued => Taken(n)' = Taken(n)
    BY <1>1, <1>4 DEF Taken, Left, Frags, nodeVars
  <2> QED
    BY <1>6, <2>1
<1>8. \A n \in Requests : \A i \in Blocks : Got(n, i)' = Got(n, i)
  <2>1. \A n \in Requests : n # issued => \A i \in Blocks : Got(n, i)' = Got(n, i)
    BY <1>1, <1>4, <1>7 DEF Got, Replied
  <2>2. \A n \in Requests : n = issued => \A i \in Blocks : Got(n, i)' = Got(n, i)
    BY <1>6, <1>7 DEF Got
  <2> QED
    BY <2>1, <2>2
<1>9. /\ \A n \in Requests : n # issued => Status(n)' = Status(n)
      /\ Status(issued) = "unused" /\ \A n \in Requests : n = issued => Status(n)' = "pending"
  <2>1. \A n \in Requests : n \in Nat
    BY SingleAssumption DEF Requests
  <2> QED
    BY <1>1, <1>3, <1>5, <2>1 DEF Status
<1>10. BdStatus[issued] = "unused" /\ BdStatus' = [BdStatus EXCEPT ![issued] = "pending"]
  BY <1>3, <1>9, BdFunctions, BdFunctionsNext
<1>11. BdTaken' = BdTaken /\ BdGot' = BdGot
  BY <1>7, <1>8, BdFunctions, BdFunctionsNext
<1>12. \E o \in BdOps : BdOp' = [BdOp EXCEPT ![issued] = o]
  <2>1. PICK o : o = [type |-> s.type, first |-> s.first, frags |-> s.len]
    OBVIOUS
  <2>2. o \in BdOps
    BY <2>1 DEF BdOps
  <2>3. BdOp' = [BdOp EXCEPT ![issued] = o]
    BY <1>3, <1>4, <2>1 DEF BdOp
  <2> QED
    BY <2>2, <2>3
<1> QED
  BY <1>1, <1>3, <1>10, <1>11, <1>12 DEF BD!Issue, BD!Next, nodeVars

LEMMA IotReadsHeaderBd ==
  ASSUME IInv, IotReadsHeader PROVE UNCHANGED BD!bdVars
<1>0. TypeInv
  BY DEF IInv
<1>1. /\ cmd = Idle /\ toIot # <<>> /\ toIot' = Tail(toIot) /\ step' = 0
      /\ cmd' = [uid |-> Head(toIot).uid, req |-> Head(toIot).req, pos |-> 0]
      /\ UNCHANGED <<reqVars, sendVars, rx, fromIot, store, closed, fault>>
  BY DEF IotReadsHeader
<1>2. PICK c, n : c = toIot[1] /\ n = c.req
  OBVIOUS
<1>3. Head(toIot) = c /\ 1 \in 1 .. Len(toIot) /\ n \in Requests /\ c.uid \in Addrs
  BY <1>0, <1>1, <1>2, TakenType DEF reqVars, Chunks
<1>4. cmd'.req = n /\ cmd' # Idle
  <2>1. cmd' = [uid |-> c.uid, req |-> n, pos |-> 0]
    BY <1>1, <1>2, <1>3
  <2> QED
    BY <1>3, <2>1, Distinct DEF Sends
<1>5. ~InHand(n) /\ \A k \in 1 .. Len(fromIot) : fromIot[k].req # n
  BY <1>2, <1>3 DEF IInv, CommandsNext, NotTaken
<1>6. replies[n] = 0
  <2>1. heap[c.uid] = n
    BY <1>2, <1>3 DEF IInv, Named
  <2> QED
    BY <1>0, <1>3, <2>1, LiveIs
<1>7. \A p \in Requests : Taken(p)' = Taken(p)
  <2>1. Taken(n) = {}
    BY <1>1, <1>5, <1>6 DEF Taken, Left, InHand
  <2>2. \A p \in Requests : p = n => Taken(p)' = {}
    <3>1. 0 .. 0 - 1 = {} /\ 0 .. 0 - 2 = {}
      OBVIOUS
    <3> QED
      BY <1>1, <1>4, <3>1 DEF Taken
  <2>3. \A p \in Requests : p # n => Taken(p)' = Taken(p)
    BY <1>1, <1>4 DEF Taken, Left, Frags, reqVars
  <2> QED
    BY <2>1, <2>2, <2>3
<1>8. \A p \in Requests : \A i \in Blocks : Got(p, i)' = Got(p, i)
  BY <1>1, <1>7 DEF Got, Replied, reqVars
<1> QED
  BY <1>1, <1>7, <1>8, BdStutter DEF reqVars

(* A request the node is executing is pending.                                *)
LEMMA CommandPending ==
  ASSUME IInv, cmd # Idle
  PROVE  cmd.req \in Requests /\ replies[cmd.req] = 0 /\ Status(cmd.req) = "pending"
<1>1. cmd.req \in Requests /\ cmd.uid \in Addrs /\ heap[cmd.uid] = cmd.req
  BY SendsAre DEF IInv, Named
<1>2. cmd.req < got /\ replies[cmd.req] = 0
  BY <1>1, LiveIs DEF IInv
<1>3. ~(cmd.req >= issued)
  BY <1>1, <1>2, SingleAssumption DEF IInv, TypeInv, TypeOK, Requests
<1> QED
  BY <1>1, <1>2, <1>3 DEF Status

LEMMA IotStoresBd ==
  ASSUME IInv, IotStores PROVE BD!Next
<1>0. TypeInv
  BY DEF IInv
<1>1. /\ "iot" \notin closed /\ cmd # Idle /\ shape[cmd.req].type = "WRITE" /\ step < shape[cmd.req].len
      /\ toIot # <<>> /\ toIot' = Tail(toIot) /\ step' = step + 1
      /\ store' = [store EXCEPT ![shape[cmd.req].first + step] =
                     IF Head(toIot).idx = 0 THEN Junk ELSE Head(toIot).val]
      /\ UNCHANGED <<reqVars, sendVars, rx, fromIot, cmd, closed, fault>>
  BY DEF IotStores
<1>2. PICK c, n : c = toIot[1] /\ n = cmd.req
  OBVIOUS
<1>3. Head(toIot) = c /\ 1 \in 1 .. Len(toIot)
  BY <1>0, <1>1, <1>2, TakenType DEF reqVars
<1>4. /\ n \in Requests /\ step \in Nat /\ Ends(n) = shape[n].len /\ shape[n].len \in Nat /\ Reading
      /\ shape' = shape
  BY <1>0, <1>1, <1>2, CommandIs DEF Ends, Reading, reqVars
<1>5. c.req = n /\ c.idx = step + 1 /\ c.val = Payload(n, step)
  <2>1. c.req = n /\ c.idx = step + 1
    BY <1>1, <1>2, <1>4 DEF IInv, ToNodeFramed
  <2>2. c.val = IF c.idx = 0 THEN Blank ELSE Payload(c.req, c.idx - 1)
    BY <1>2, <1>3 DEF IInv, ChunksIntact
  <2>3. c.idx # 0 /\ c.idx - 1 = step
    BY <1>4, <2>1
  <2> QED
    BY <2>1, <2>2, <2>3
<1>6. store' = [store EXCEPT ![shape[n].first + step] = Payload(n, step)]
  <2>1. c.idx # 0
    BY <1>4, <1>5
  <2> QED
    BY <1>1, <1>2, <1>3, <1>5, <2>1
<1>7. Taken(n) = 0 .. step - 1 /\ (\A p \in Requests : p = n => Taken(p)' = 0 .. step)
  <2>1. step + 1 - 1 = step
    BY <1>4
  <2> QED
    BY <1>1, <1>2, <1>4, <2>1 DEF Taken
<1>8. \A p \in Requests : p # n => Taken(p)' = Taken(p)
  BY <1>1, <1>2 DEF Taken, Left, Frags, reqVars
<1>9. Taken(n)' = Taken(n) \cup {step} /\ step \in Frags(n) \ Taken(n)
  <2>1. \A j : j \in 0 .. step <=> j \in 0 .. step - 1 \/ j = step
    BY <1>4
  <2>2. step \in 0 .. shape[n].len - 1 /\ step \notin 0 .. step - 1
    BY <1>1, <1>2, <1>4
  <2> QED
    BY <1>4, <1>7, <2>1, <2>2 DEF Frags
<1>10. BdTaken' = [BdTaken EXCEPT ![n] = @ \cup {step}] /\ BdTaken[n] = Taken(n)
  BY <1>4, <1>8, <1>9, BdFunctions, BdFunctionsNext
<1>11. BdGot' = BdGot
  <2>1. \A p \in Requests : \A i \in Blocks : Got(p, i)' = Got(p, i)
    BY <1>1, <1>2, <1>4, <1>8 DEF Got, Replied, reqVars
  <2> QED
    BY <2>1, BdFunctions, BdFunctionsNext
<1>12. BdOp' = BdOp /\ BdStatus' = BdStatus /\ BdStatus[n] = "pending"
  <2>1. BdOp' = BdOp /\ BdStatus' = BdStatus
    BY <1>1 DEF BdOp, BdStatus, reqVars
  <2> QED
    BY <1>1, <1>2, <2>1, CommandPending, BdFunctions
<1>13. BdOp[n].type = "WRITE" /\ BdOp[n].first = shape[n].first /\ step \in BD!Fragments(n) \ BdTaken[n]
  <2>1. BdOp[n] = [type |-> shape[n].type, first |-> shape[n].first, frags |-> shape[n].len]
    BY <1>4, BdOpIs
  <2>2. BD!Fragments(n) = Frags(n)
    BY <1>4, BdOpIs
  <2> QED
    BY <1>1, <1>2, <1>9, <1>10, <2>1, <2>2
<1>14. BD!WriteEffect(n, step)
  <2>1. BD!Payload(n, step) = Payload(n, step)
    BY DEF BD!Payload, Payload
  <2> QED
    BY <1>6, <1>10, <1>11, <1>12, <1>13, <2>1 DEF BD!WriteEffect
<1> QED
  BY <1>4, <1>13, <1>14 DEF BD!Next

LEMMA NbdHandleBd ==
  ASSUME IInv, NbdHandle PROVE UNCHANGED BD!bdVars
<1>1. /\ got < issued
      /\ dataBuf' = IF shape[got].type = "WRITE"
                    THEN [dataBuf EXCEPT ![got] = [i \in Blocks |-> Payload(got, i)]] ELSE dataBuf
      /\ UNCHANGED <<program, issued, shape, replies, lock, rx, toIot, fromIot, nodeVars, closed, fault>>
  BY DEF NbdHandle
<1>2. \A n \in Requests : shape[n].type = "READ" => dataBuf'[n] = dataBuf[n]
  BY <1>1 DEF IInv, TypeInv, TypeOK
<1>3. \A n \in Requests : Taken(n)' = Taken(n)
  BY <1>1 DEF Taken, Left, Frags, nodeVars
<1>4. \A n \in Requests : \A i \in Blocks : Got(n, i)' = Got(n, i)
  BY <1>1, <1>2, <1>3 DEF Got, Replied
<1> QED
  BY <1>1, <1>3, <1>4, BdStutter DEF nodeVars

(* What the node adds to the stream changes nothing for the other chunks.     *)
LEMMA AppendGot ==
  ASSUME IInv, IInv', NEW n, NEW i, shape' = shape, i \in Taken(n)' <=> i \in Taken(n),
         dataBuf'[n][i] = dataBuf[n][i],
         Len(fromIot) \in Nat, Len(fromIot') = Len(fromIot) + 1,
         \A k \in 1 .. Len(fromIot) : fromIot'[k] = fromIot[k],
         ~(fromIot'[Len(fromIot) + 1].req = n /\ fromIot'[Len(fromIot) + 1].idx = i + 1)
  PROVE  Got(n, i)' = Got(n, i)
<1>1. CASE shape[n].type # "READ" \/ i \notin Taken(n)
  BY <1>1, GotIs, GotIsNext
<1>2. CASE /\ shape[n].type = "READ" /\ i \in Taken(n)
           /\ \E k \in 1 .. Len(fromIot) : fromIot[k].req = n /\ fromIot[k].idx = i + 1
  <2>1. PICK k \in 1 .. Len(fromIot) : fromIot[k].req = n /\ fromIot[k].idx = i + 1
    BY <1>2
  <2>2. k \in 1 .. Len(fromIot') /\ fromIot'[k] = fromIot[k]
    BY <2>1
  <2>3. Got(n, i) = fromIot[k].val
    BY <1>2, <2>1, GotIs
  <2>4. Got(n, i)' = fromIot'[k].val
    BY <1>2, <2>1, <2>2, GotIsNext
  <2> QED
    BY <2>2, <2>3, <2>4
<1>3. CASE /\ shape[n].type = "READ" /\ i \in Taken(n)
           /\ \A k \in 1 .. Len(fromIot) : ~(fromIot[k].req = n /\ fromIot[k].idx = i + 1)
  <2>1. \A k \in 1 .. Len(fromIot') : ~(fromIot'[k].req = n /\ fromIot'[k].idx = i + 1)
    <3>1. \A k \in 1 .. Len(fromIot') : k \in 1 .. Len(fromIot) \/ k = Len(fromIot) + 1
      OBVIOUS
    <3> QED
      BY <1>3, <3>1
  <2>2. Got(n, i) = dataBuf[n][i]
    BY <1>3, GotIs
  <2>3. Got(n, i)' = dataBuf'[n][i]
    BY <1>3, <2>1, GotIsNext
  <2> QED
    BY <2>2, <2>3
<1> QED
  BY <1>1, <1>2, <1>3

LEMMA IotRepliesBd ==
  ASSUME IInv, IInv', IotReplies PROVE [BD!Next]_BD!bdVars
<1>0. TypeInv
  BY DEF IInv
<1>1. /\ cmd # Idle /\ (shape[cmd.req].type = "WRITE" => step = shape[cmd.req].len)
      /\ \/ step < shape[cmd.req].len /\ step' = step + 1 /\ cmd' = cmd
         \/ step = shape[cmd.req].len /\ cmd' = Idle
      /\ UNCHANGED <<reqVars, sendVars, rx, toIot, store, closed, fault>>
  BY DEF IotReplies
<1>2. PICK n, c : n = cmd.req /\ c = MadeChunk
  OBVIOUS
<1>3. /\ n \in Requests /\ step \in Nat /\ shape[n].len \in Nat /\ step <= shape[n].len
      /\ shape[n].type \in {"READ", "WRITE", "DISC", "NONE"}
      /\ shape[n].len = 0 <=> shape[n].type \in {"DISC", "NONE"}
      /\ shape' = shape /\ dataBuf' = dataBuf
  BY <1>0, <1>1, <1>2, CommandIs, ShapeIs DEF TypeInv, reqVars
<1>4. /\ c.req = n /\ c.idx = Made
      /\ c.val = IF Made = 0 THEN Blank ELSE store[shape[n].first + Made - 1]
      /\ Len(fromIot) \in Nat /\ Len(fromIot') = Len(fromIot) + 1
      /\ fromIot'[Len(fromIot) + 1] = c
      /\ \A k \in 1 .. Len(fromIot) : fromIot'[k] = fromIot[k]
  BY <1>0, <1>2, MadeChunkIs
<1>5. Len(fromIot) + 1 \in 1 .. Len(fromIot')
      /\ \A k \in 1 .. Len(fromIot') : \/ k = Len(fromIot) + 1 /\ fromIot'[k] = c
                                       \/ k \in 1 .. Len(fromIot) /\ fromIot'[k] = fromIot[k]
  BY <1>4
<1>6. \A p \in Requests : p # n => Taken(p)' = Taken(p)
  <2>1. \A p : p # n => ((\E k \in 1 .. Len(fromIot') : fromIot'[k].req = p)
                           <=> (\E k \in 1 .. Len(fromIot) : fromIot[k].req = p))
    <3>1. 1 .. Len(fromIot) \subseteq 1 .. Len(fromIot')
      BY <1>4
    <3> QED
      BY <1>4, <1>5, <3>1
  <2> QED
    BY <1>1, <1>2, <2>1 DEF Taken, Left, Frags, reqVars
<1>7. \A p \in Requests : p # n => \A i \in Blocks : Got(p, i)' = Got(p, i)
  <2> SUFFICES ASSUME NEW p \in Requests, p # n, NEW i \in Blocks PROVE Got(p, i)' = Got(p, i)
    OBVIOUS
  <2>1. Taken(p)' = Taken(p) /\ dataBuf'[p][i] = dataBuf[p][i]
    BY <1>3, <1>6
  <2> QED
    BY <1>3, <1>4, <2>1, AppendGot
<1>8. \A p : p = n => (Left(p)' /\ Frags(p)' = Frags(n))
  BY <1>3, <1>4, <1>5 DEF Left, Frags
<1>9. CASE shape[n].type # "READ"
  <2>1. step = shape[n].len /\ cmd' = Idle
    BY <1>1, <1>2, <1>3, <1>9
  <2>2. Taken(n) = Frags(n)
    BY <1>1, <1>2, <1>9, <2>1 DEF Taken, Frags
  <2>3. \A p \in Requests : Taken(p)' = Taken(p)
    <3>1. \A p : p = n => Taken(p)' = Frags(n)
      BY <1>8, <2>1 DEF Taken
    <3> QED
      BY <1>6, <2>2, <3>1
  <2>4. \A p \in Requests : \A i \in Blocks : Got(p, i)' = Got(p, i)
    <3>1. \A p \in Requests : p = n => \A i \in Blocks : Got(p, i)' = Got(p, i)
      BY <1>3, <1>9 DEF Got
    <3> QED
      BY <1>7, <3>1
  <2> QED
    BY <1>1, <2>3, <2>4, BdStutter DEF reqVars
<1>10. CASE shape[n].type = "READ" /\ step = 0
  <2>1. cmd' = cmd /\ step' = 1
    BY <1>1, <1>2, <1>3, <1>10
  <2>2. Taken(n) = {} /\ \A p : p = n => Taken(p)' = {}
    <3>1. 0 .. 0 - 2 = {} /\ 0 .. 1 - 2 = {}
      OBVIOUS
    <3> QED
      BY <1>1, <1>2, <1>3, <1>10, <2>1, <3>1 DEF Taken
  <2>3. \A p \in Requests : Taken(p)' = Taken(p)
    BY <1>6, <2>2
  <2>4. \A p \in Requests : \A i \in Blocks : Got(p, i)' = Got(p, i)
    <3>1. \A p \in Requests : p = n => \A i \in Blocks : Got(p, i)' = Got(p, i)
      BY <2>2 DEF Got
    <3> QED
      BY <1>7, <3>1
  <2> QED
    BY <1>1, <2>3, <2>4, BdStutter DEF reqVars
<1>11. CASE shape[n].type = "READ" /\ step # 0
  <2>1. PICK f : f = step - 1
    OBVIOUS
  <2>2. /\ f \in Nat /\ step = f + 1 /\ f \in 0 .. shape[n].len - 1 /\ f \in Blocks
        /\ c.idx = f + 1 /\ c.val = store[shape[n].first + f]
    <3>1. f \in Nat /\ step = f + 1 /\ f \in 0 .. shape[n].len - 1
      BY <1>3, <1>11, <2>1
    <3>2. Made = step /\ shape[n].first \in Nat /\ f \in Blocks
      BY <1>0, <1>2, <1>3, <1>11, <3>1, ShapeIs DEF Made, TypeInv
    <3>3. shape[n].first + Made - 1 = shape[n].first + f /\ Made # 0
      BY <1>11, <3>1, <3>2
    <3> QED
      BY <1>4, <3>1, <3>2, <3>3
  <2>3. Taken(n) = 0 .. f - 1
    <3>1. step - 2 = f - 1
      BY <2>2
    <3> QED
      BY <1>1, <1>2, <1>11, <3>1 DEF Taken
  <2>4. \A p : p = n => Taken(p)' = 0 .. f
    <3>1. CASE cmd' = cmd /\ step' = step + 1
      <4>1. step' - 2 = f
        BY <2>2, <3>1
      <4> QED
        BY <1>1, <1>2, <1>3, <1>11, <3>1, <4>1 DEF Taken
    <3>2. CASE cmd' = Idle /\ step = shape[n].len
      <4>1. Frags(n) = 0 .. f
        BY <2>2, <3>2 DEF Frags
      <4> QED
        BY <1>8, <3>2, <4>1 DEF Taken
    <3> QED
      BY <1>1, <1>2, <3>1, <3>2
  <2>5. Taken(n)' = Taken(n) \cup {f} /\ f \in Frags(n) \ Taken(n)
    <3>1. \A j : j \in 0 .. f <=> j \in 0 .. f - 1 \/ j = f
      BY <2>2
    <3>2. f \notin 0 .. f - 1
      BY <2>2
    <3> QED
      BY <2>2, <2>3, <2>4, <3>1, <3>2 DEF Frags
  <2>6. BdTaken' = [BdTaken EXCEPT ![n] = @ \cup {f}] /\ BdTaken[n] = Taken(n)
    BY <1>3, <1>6, <2>5, BdFunctions, BdFunctionsNext
  <2>7. \A p : p = n => Got(p, f)' = store[shape[n].first + f]
    <3>1. f \in Taken(n)'
      BY <2>5
    <3> QED
      BY <1>3, <1>4, <1>5, <1>11, <2>2, <3>1, GotIsNext
  <2>8. \A i \in Blocks : i # f => Got(n, i)' = Got(n, i)
    <3> SUFFICES ASSUME NEW i \in Blocks, i # f PROVE Got(n, i)' = Got(n, i)
      OBVIOUS
    <3>1. i \in Taken(n)' <=> i \in Taken(n)
      BY <2>5
    <3>2. c.idx # i + 1 /\ dataBuf'[n][i] = dataBuf[n][i]
      BY <1>3, <2>2, SingleAssumption
    <3> QED
      BY <1>3, <1>4, <3>1, <3>2, AppendGot
  <2>9. BdGot' = [BdGot EXCEPT ![n][f] = store[shape[n].first + f]]
    <3>1. BdGot = [p \in Requests |-> [i \in Blocks |-> Got(p, i)]]
      BY BdFunctions
    <3>2. BdGot' = [p \in Requests |-> [i \in Blocks |-> Got(p, i)']]
      BY BdFunctionsNext
    <3>3. BdGot[n] = [i \in Blocks |-> Got(n, i)]
      BY <1>3, <3>1
    <3>4. [BdGot[n] EXCEPT ![f] = store[shape[n].first + f]] = [i \in Blocks |-> Got(n, i)']
      BY <2>2, <2>7, <2>8, <3>3
    <3>5. \A p \in Requests : p # n => BdGot[p] = [i \in Blocks |-> Got(p, i)']
      BY <1>7, <3>1
    <3> QED
      BY <1>3, <3>1, <3>2, <3>4, <3>5, ZenonT(40)
  <2>10. BdOp' = BdOp /\ BdStatus' = BdStatus /\ BdStatus[n] = "pending"
    <3>1. BdOp' = BdOp /\ BdStatus' = BdStatus
      BY <1>1 DEF BdOp, BdStatus, reqVars
    <3> QED
      BY <1>1, <1>2, <3>1, CommandPending, BdFunctions
  <2>11. BdOp[n].type = "READ" /\ BdOp[n].first = shape[n].first /\ f \in BD!Fragments(n) \ BdTaken[n]
    <3>1. BdOp[n] = [type |-> shape[n].type, first |-> shape[n].first, frags |-> shape[n].len]
      BY <1>3, BdOpIs
    <3>2. BD!Fragments(n) = Frags(n)
      BY <1>3, BdOpIs
    <3> QED
      BY <1>11, <2>5, <2>6, <3>1, <3>2
  <2>12. BD!ReadEffect(n, f)
    BY <1>1, <2>6, <2>9, <2>10, <2>11 DEF BD!ReadEffect
  <2> QED
    BY <1>3, <2>11, <2>12 DEF BD!Next
<1> QED
  BY <1>9, <1>10, <1>11

(* IotHandle takes a chunk of a request from the stream: the other requests    *)
(* are mentioned there as before.                                            *)
LEMMA OthersMentioned ==
  ASSUME TypeInv, fromIot # <<>>, fromIot' = Tail(fromIot), NEW p, p # fromIot[1].req
  PROVE  (\E k \in 1 .. Len(fromIot') : fromIot'[k].req = p) <=> (\E k \in 1 .. Len(fromIot) : fromIot[k].req = p)
<1>1. /\ Len(fromIot) \in Nat /\ Len(fromIot') = Len(fromIot) - 1
      /\ \A k \in 1 .. Len(fromIot') : fromIot'[k] = fromIot[k + 1] /\ k + 1 \in 1 .. Len(fromIot)
  BY ReceivedType
<1>2. ASSUME NEW k \in 1 .. Len(fromIot), fromIot[k].req = p
      PROVE  \E j \in 1 .. Len(fromIot') : fromIot'[j].req = p
  <2>1. PICK j : j = k - 1
    OBVIOUS
  <2>2. k # 1
    BY <1>2
  <2>3. j \in 1 .. Len(fromIot') /\ j + 1 = k
    BY <1>1, <2>1, <2>2
  <2>4. fromIot'[j] = fromIot[k]
    BY <1>1, <2>3
  <2> QED
    BY <1>2, <2>3, <2>4
<1> QED
  BY <1>1, <1>2

LEMMA DoneBd ==
  ASSUME IInv, NEW o \in Sends, heap[o.uid] = o.req, NbdRequestDone(o),
         UNCHANGED <<issued, shape, nodeVars>>, fromIot # <<>>, fromIot' = Tail(fromIot),
         fromIot[1].req = o.req, fromIot[1].idx = ReplyEnds(o.req), rx = Idle \/ rx = o,
         \A n \in Requests : Taken(n)' = Taken(n) => \A i \in Blocks : Got(n, i)' = Got(n, i)
  PROVE  [BD!Next]_BD!bdVars
<1>0. TypeInv
  BY DEF IInv
<1>1. PICK n : n = o.req
  OBVIOUS
<1>2. n \in Requests /\ o.uid \in Addrs /\ o # Idle
  BY <1>1, Distinct DEF Sends
<1>3. replies[n] = 0 /\ Status(n) = "pending"
  <2>1. n < got /\ replies[n] = 0
    BY <1>0, <1>1, <1>2, LiveIs
  <2>2. ~(n >= issued)
    BY <1>0, <1>2, <2>1, SingleAssumption DEF TypeInv, TypeOK, Requests
  <2> QED
    BY <2>1, <2>2 DEF Status
<1>4. 1 \in 1 .. Len(fromIot) /\ fromIot[1].req = n /\ fromIot[1].idx = ReplyEnds(n)
  BY <1>0, <1>1, ReceivedType
<1>5. ~(cmd # Idle /\ cmd.req = n)
  <2> SUFFICES ASSUME cmd # Idle, cmd.req = n PROVE FALSE
    OBVIOUS
  <2>1. ReplyEnds(n) < Made
    BY <1>4 DEF IInv, NodeNext
  <2>2. Made \in Nat /\ Made <= ReplyEnds(n) /\ ReplyEnds(n) \in Nat
    BY <1>0, <1>2, CommandIs DEF Made, ReplyEnds
  <2> QED
    BY <2>1, <2>2
<1>6. Taken(n) = Frags(n)
  BY <1>4, <1>5 DEF Taken, Left
<1>7. \A p : p # n =>
        ((\E k \in 1 .. Len(fromIot') : fromIot'[k].req = p) <=> (\E k \in 1 .. Len(fromIot) : fromIot[k].req = p))
  BY <1>0, <1>4, OthersMentioned
<1>8. CASE replies' = [replies EXCEPT ![n] = @ + 1] /\ rx' = Idle
  <2>1. replies'[n] = 1 /\ \A p \in Requests : p # n => replies'[p] = replies[p]
    BY <1>0, <1>2, <1>3, <1>8 DEF TypeInv, TypeOK
  <2>2. \A p : p = n => Taken(p)' = Frags(n)
    BY <1>5, <2>1 DEF Taken, Left, Frags, nodeVars
  <2>3. \A p \in Requests : p # n => Taken(p)' = Taken(p)
    BY <1>1, <1>7, <1>8, <2>1 DEF Taken, Left, Frags, nodeVars
  <2>4. \A p \in Requests : Taken(p)' = Taken(p)
    BY <1>6, <2>2, <2>3
  <2>5. BdTaken' = BdTaken /\ BdGot' = BdGot
    BY <2>4, BdFunctions, BdFunctionsNext
  <2>6. /\ \A p \in Requests : p # n => Status(p)' = Status(p)
        /\ \A p \in Requests : p = n => Status(p)' = "answered"
    BY <1>3, <2>1 DEF Status
  <2>7. BdStatus[n] = "pending" /\ BdStatus' = [BdStatus EXCEPT ![n] = "answered"]
    BY <1>2, <1>3, <2>6, BdFunctions, BdFunctionsNext
  <2>8. BdTaken[n] = BD!Fragments(n) /\ BdOp' = BdOp /\ store' = store
    BY <1>2, <1>6, BdFunctions, BdOpIs DEF BdOp, nodeVars
  <2>9. BD!Answer(n)
    BY <2>5, <2>7, <2>8 DEF BD!Answer
  <2> QED
    BY <1>2, <2>9 DEF BD!Next
<1>9. CASE rx' = o /\ replies' = replies
  <2>1. \A p : p = n => Taken(p)' = Frags(n)
    BY <1>1, <1>2, <1>5, <1>9 DEF Taken, Left, Frags, nodeVars
  <2>2. \A p \in Requests : p # n => Taken(p)' = Taken(p)
    BY <1>1, <1>2, <1>7, <1>9 DEF Taken, Left, Frags, nodeVars
  <2>3. \A p \in Requests : Taken(p)' = Taken(p)
    BY <1>6, <2>1, <2>2
  <2> QED
    BY <1>9, <2>3, BdStutter DEF nodeVars
<1> QED
  BY <1>1, <1>8, <1>9 DEF NbdRequestDone

LEMMA GoesOnBd ==
  ASSUME IInv, UNCHANGED <<issued, shape, replies, nodeVars>>, fromIot # <<>>, fromIot' = Tail(fromIot),
         rx' # Idle, rx'.req = fromIot[1].req, rx = Idle \/ rx.req = fromIot[1].req,
         \A n \in Requests : Taken(n)' = Taken(n) => \A i \in Blocks : Got(n, i)' = Got(n, i)
  PROVE  UNCHANGED BD!bdVars
<1>0. TypeInv
  BY DEF IInv
<1>1. PICK n : n = fromIot[1].req
  OBVIOUS
<1>2. 1 \in 1 .. Len(fromIot)
  BY <1>0, ReceivedType
<1>3. \A p : p # n =>
        ((\E k \in 1 .. Len(fromIot') : fromIot'[k].req = p) <=> (\E k \in 1 .. Len(fromIot) : fromIot[k].req = p))
  BY <1>0, <1>1, OthersMentioned
<1>4. \A p : Left(p)' <=> Left(p)
  <2>1. \A p : p # n => (Left(p)' <=> Left(p))
    BY <1>1, <1>3 DEF Left
  <2>2. \A p : p = n => Left(p)' /\ Left(p)
    BY <1>1, <1>2 DEF Left
  <2> QED
    BY <2>1, <2>2
<1>5. \A p \in Requests : Taken(p)' = Taken(p)
  BY <1>4 DEF Taken, Frags, nodeVars
<1> QED
  BY <1>5, BdStutter DEF nodeVars

LEMMA IotHandleBd ==
  ASSUME IInv, IInv', IotHandle PROVE [BD!Next]_BD!bdVars
<1>0. TypeInv
  BY DEF IInv
<1>1. /\ Running /\ rx = Idle /\ fromIot # <<>> /\ fromIot' = Tail(fromIot)
      /\ UNCHANGED <<program, issued, shape, got, dataBuf, sendVars, toIot, nodeVars, closed>>
  BY DEF IotHandle, ReactorFree
<1>2. PICK c : c = fromIot[1]
  OBVIOUS
<1>3. Head(fromIot) = c
  BY <1>0, <1>1, <1>2, ReceivedType
<1>4. /\ c.idx = 0 /\ c.uid \in Addrs /\ c.req \in Requests /\ heap[c.uid] = c.req /\ c.req # Freed
  BY <1>1, <1>2, HeaderIs, Distinct
<1>5. PICK o : o = [uid |-> c.uid, req |-> c.req, pos |-> 0]
  OBVIOUS
<1>6. o \in Sends /\ o.uid = c.uid /\ o.req = c.req /\ o # Idle
  BY <1>4, <1>5, Distinct DEF Sends
<1>7. ASSUME NEW n \in Requests, Taken(n)' = Taken(n), NEW i \in Blocks
      PROVE  Got(n, i)' = Got(n, i)
  <2>1. c.idx # i + 1 /\ dataBuf'[n][i] = dataBuf[n][i]
    BY <1>1, <1>4, SingleAssumption
  <2> QED
    BY <1>1, <1>2, <1>7, <2>1, ShiftGot
<1>8. CASE shape[c.req].type = "READ"
  <2>1. rx' = o /\ UNCHANGED <<heap, replies, fault>>
    BY <1>3, <1>4, <1>5, <1>8 DEF IotHandle
  <2> QED
    BY <1>1, <1>2, <1>6, <1>7, <2>1, GoesOnBd
<1>9. CASE shape[c.req].type # "READ"
  <2>1. NbdRequestDone(o)
    BY <1>3, <1>4, <1>5, <1>9 DEF IotHandle
  <2>2. ReplyEnds(c.req) = 0
    BY <1>9 DEF ReplyEnds
  <2> QED
    BY <1>1, <1>2, <1>4, <1>6, <1>7, <2>1, <2>2, DoneBd
<1> QED
  BY <1>8, <1>9

LEMMA IotHandleDataBd ==
  ASSUME IInv, IInv', IotHandleData PROVE [BD!Next]_BD!bdVars
<1>0. TypeInv
  BY DEF IInv
<1>1. /\ Running /\ rx # Idle /\ fromIot # <<>> /\ fromIot' = Tail(fromIot)
      /\ dataBuf' = [dataBuf EXCEPT ![rx.req][rx.pos] = Head(fromIot).val]
      /\ UNCHANGED <<program, issued, shape, got, sendVars, toIot, nodeVars, closed>>
  BY DEF IotHandleData
<1>2. PICK c, n, f : c = fromIot[1] /\ n = rx.req /\ f = rx.pos
  OBVIOUS
<1>3. /\ rx \in Sends /\ n \in Requests /\ f \in Nat
      /\ heap[rx.uid] = n /\ shape[n].type = "READ" /\ f \in 0 .. shape[n].len - 1
  BY <1>0, <1>1, <1>2 DEF TypeInv, TypeOK, InHandIsLive, Sends, Frags
<1>4. c.req = n /\ c.idx = f + 1 /\ ReplyEnds(n) = shape[n].len /\ shape[n].len \in Nat /\ f \in Blocks
  BY <1>0, <1>1, <1>2, <1>3, ShapeIs DEF IInv, TypeInv, FromNodeFramed, ReplyEnds
<1>5. /\ dataBuf'[n][f] = c.val
      /\ \A p \in Requests, i \in Blocks : p # n \/ i # f => dataBuf'[p][i] = dataBuf[p][i]
  <2>1. dataBuf' = [dataBuf EXCEPT ![n][f] = c.val]
    BY <1>0, <1>1, <1>2, ReceivedType
  <2> QED
    BY <1>0, <1>3, <1>4, <2>1 DEF TypeInv, TypeOK
<1>6. ASSUME Taken(n)' = Taken(n) PROVE Got(n, f)' = Got(n, f)
  <2>1. CASE f \notin Taken(n)
    BY <1>6, <2>1, GotIs, GotIsNext
  <2>2. CASE f \in Taken(n)
    <3>1. /\ 1 \in 1 .. Len(fromIot) /\ Len(fromIot) \in Nat
          /\ \A k \in 1 .. Len(fromIot') : /\ fromIot'[k] = fromIot[k + 1] /\ k + 1 \in 1 .. Len(fromIot)
                                           /\ k + 1 # 1
      BY <1>0, <1>1, ReceivedType
    <3>2. \A k \in 1 .. Len(fromIot) : fromIot[k].req = n /\ fromIot[k].idx = f + 1 => k = 1
      BY <1>2, <1>4, <3>1 DEF IInv, RepliesLast
    <3>3. \A k \in 1 .. Len(fromIot') : ~(fromIot'[k].req = n /\ fromIot'[k].idx = f + 1)
      BY <3>1, <3>2
    <3>4. Got(n, f) = c.val
      BY <1>2, <1>3, <1>4, <2>2, <3>1, GotIs
    <3>5. Got(n, f)' = dataBuf'[n][f]
      BY <1>1, <1>3, <1>6, <2>2, <3>3, GotIsNext
    <3> QED
      BY <1>5, <3>4, <3>5
  <2> QED
    BY <2>1, <2>2
<1>7. ASSUME NEW p \in Requests, Taken(p)' = Taken(p), NEW i \in Blocks
      PROVE  Got(p, i)' = Got(p, i)
  <2>1. CASE p = n /\ i = f
    BY <1>6, <1>7, <2>1
  <2>2. CASE p # n \/ i # f
    <3>1. dataBuf'[p][i] = dataBuf[p][i]
      BY <1>5, <2>2
    <3>2. ~(c.req = p /\ c.idx = i + 1)
      <4>1. i \in Nat /\ (f + 1 = i + 1 => f = i)
        BY <1>3, SingleAssumption
      <4> QED
        BY <1>4, <2>2, <4>1
    <3> QED
      BY <1>1, <1>2, <1>7, <3>1, <3>2, ShiftGot
  <2> QED
    BY <2>1, <2>2
<1>8. CASE IotHandleLast(n, f) /\ NbdRequestDone(rx)
  <2>1. c.idx = ReplyEnds(n)
    BY <1>3, <1>4, <1>8 DEF IotHandleLast
  <2> QED
    BY <1>1, <1>2, <1>3, <1>4, <1>7, <1>8, <2>1, DoneBd
<1>9. CASE /\ rx' = [rx EXCEPT !.pos = @ + 1] /\ UNCHANGED <<heap, replies, fault>>
  <2>1. rx' # Idle /\ rx'.req = n
    <3>1. rx' \in Sends /\ rx'.req = n
      BY <1>2, <1>3, <1>9 DEF Sends
    <3> QED
      BY <3>1, Distinct
  <2> QED
    BY <1>1, <1>2, <1>4, <1>7, <1>9, <2>1, GoesOnBd
<1> QED
  BY <1>2, <1>8, <1>9 DEF IotHandleData

LEMMA NextBd ==
  ASSUME IInv, IInv', [Next]_vars PROVE [BD!Next]_BD!bdVars
<1>1. CASE KernelIssues
  BY <1>1, KernelIssuesBd
<1>2. CASE IotStep
  BY <1>2, IotReadsHeaderBd, IotStoresBd, IotRepliesBd DEF IotStep
<1>3. CASE ReactorStep
  <2>1. CASE ReadClosed
    BY <2>1, BdQuiet DEF ReadClosed, reqVars
  <2> QED
    BY <1>3, <2>1, NbdHandleBd, IotHandleBd, IotHandleDataBd DEF ReactorStep
<1>4. CASE PeerCloses \/ (\E t \in Threads : SendStep(t)) \/ (\E w \in Workers : Dequeue(w)) \/ Quiet \/ UNCHANGED vars
  <2>1. UNCHANGED <<issued, shape, replies, dataBuf, rx, fromIot, nodeVars>>
    BY <1>4 DEF PeerCloses, SendStep, SendChunk, SendFails, Dequeue, Quiet, vars, reqVars
  <2> QED
    BY <2>1, BdQuiet
<1> QED
  BY <1>1, <1>2, <1>3, <1>4 DEF Next

(* Each of the two servers is a block device: a block of a WRITE takes effect  *)
(* once, when the node stores it, a block of a READ once, when the node puts  *)
(* it into the reply, both between the request and its one answer, and what   *)
(* IotHandle leaves in the buffer is what the block held at that moment.      *)
THEOREM ImplementsBlockDevice == Spec /\ WholeMessages => RefinesBlockDevice
<1>1. IInv /\ IInv' /\ [Next]_vars => [BD!Next]_BD!bdVars
  BY NextBd
<1>2. Spec /\ WholeMessages => []IInv
  BY Invariance, Whole, PTL DEF WholeMessages
<1> QED
  BY <1>1, <1>2, InitBd, PTL DEF Spec, RefinesBlockDevice, BD!Spec
=============================================================================
