----------------------------- MODULE AtlasProofs -----------------------------
(***************************************************************************)
(* Theorems about Atlas, in four parts.  The address arithmetic of            *)
(* RequestHost, for every fragment size, number of nodes and device size that *)
(* fit into uint32_t.  IInv, which holds initially and is preserved by every  *)
(* action (one lemma per action), with the properties that follow from it.    *)
(* FullInv, which adds to IInv where each fragment is and what caused each    *)
(* reply, proved in the same way.  And that Atlas implements BlockDevice: the *)
(* mapping (DevMem .. DevGot, in Atlas) is followed step by step.             *)
(* KernelIssues is Issue, a daemon's serving a command is Write or            *)
(* ReadEffect, IotHandle's last fragment is Answer; every other step is a     *)
(* stutter.                                                                  *)
(***************************************************************************)
EXTENDS AtlasInv, TLAPS

----------------------------------------------------------------------------
(* The address arithmetic.                                                   *)

(* Quotient and remainder are determined by what they add up to.             *)
LEMMA DivModUnique ==
  ASSUME NEW n \in Nat \ {0}, NEW a \in Int, NEW q \in Int, NEW r \in 0 .. n - 1,
         a = n * q + r
  PROVE  a \div n = q /\ a % n = r
OBVIOUS

LEMMA DivModSum ==
  ASSUME NEW n \in Nat \ {0}, NEW a \in Int
  PROVE  /\ a \div n \in Int
         /\ a % n \in 0 .. n - 1
         /\ a = (n * (a \div n)) + (a % n)
OBVIOUS

(* Adding a multiple of the divisor.                                         *)
LEMMA DivModShift ==
  ASSUME NEW n \in Nat \ {0}, NEW a \in Int, NEW m \in Int
  PROVE  (a + n * m) \div n = (a \div n) + m /\ (a + n * m) % n = a % n
<1> DEFINE q == a \div n
           r == a % n
<1>1. q \in Int /\ r \in 0 .. n - 1 /\ a = n * q + r
  BY DivModSum
<1> HIDE DEF q, r
<1>2. n * (q + m) = n * q + n * m
  BY <1>1
<1>3. a + n * m = n * (q + m) + r
  BY <1>1, <1>2
<1>4. a + n * m \in Int /\ q + m \in Int
  BY <1>1
<1>5. (a + n * m) \div n = q + m /\ (a + n * m) % n = r
  BY <1>1, <1>3, <1>4, DivModUnique
<1> QED
  BY <1>5 DEF q, r

(* Remainders of small numbers.                                              *)
LEMMA SmallMod ==
  ASSUME NEW n \in Nat \ {0}, NEW a \in 0 .. n - 1
  PROVE  a % n = a /\ a \div n = 0
<1>1. a = n * 0 + a
  OBVIOUS
<1> QED
  BY <1>1, DivModUnique

LEMMA NumFragsNat ==
  ASSUME NEW len \in Nat
  PROVE  NumFrags(len) \in Nat /\ NumTasks(len) \in 0 .. NumIot
  BY StripingAssumption DEF NumFrags, NumTasks

(* A block of the device lies inside it, so its byte address is a uint32_t.  *)
LEMMA BlockInDevice ==
  ASSUME NEW k \in Blocks
  PROVE  k \in Nat /\ k * FragSize \in 0 .. Word - 1
<1> USE StripingAssumption
<1> DEFINE q == StorageSize \div FragSize
<1>1. k \in Nat /\ k + 1 <= q /\ q \in Nat
  BY DEF Blocks
<1>2. FragSize * q <= StorageSize
  BY DivModSum
<1> HIDE DEF q
<1>3. \E d \in Nat : q = k + 1 + d
  <2>1. q - (k + 1) \in Nat /\ q = k + 1 + (q - (k + 1))
    BY <1>1
  <2> QED  BY <2>1
<1>4. PICK d \in Nat : q = k + 1 + d
  BY <1>3
<1>5. FragSize * q = FragSize * k + FragSize + FragSize * d
  BY <1>1, <1>4
<1>6. FragSize * d \in Nat /\ FragSize * k \in Nat /\ k * FragSize = FragSize * k
  BY <1>1
<1> QED
  BY <1>1, <1>2, <1>5, <1>6

(* For the blocks of the device the computation in uint32_t does not wrap.   *)
LEMMA IotOffsetExact ==
  ASSUME NEW k \in Blocks
  PROVE  IotOffset(k) = (k * FragSize) \div NumIot /\ IotOffset(k) \in Nat
<1>1. (k * FragSize) % Word = k * FragSize
  BY StripingAssumption, BlockInDevice, SmallMod
<1> QED
  BY <1>1, StripingAssumption, BlockInDevice DEF IotOffset

(* Blocks that are m rounds of the nodes apart.                              *)
LEMMA RoundsApart ==
  ASSUME NEW k \in Blocks, NEW m \in Nat, k + NumIot * m \in Blocks
  PROVE  /\ IotOf(k + NumIot * m) = IotOf(k)
         /\ IotOffset(k + NumIot * m) = IotOffset(k) + (m * FragSize)
<1> USE StripingAssumption
<1>1. k \in Nat
  BY BlockInDevice
<1>2. (k + NumIot * m) * FragSize = (k * FragSize) + NumIot * (m * FragSize)
  BY <1>1
<1>3. k * FragSize \in Nat /\ m * FragSize \in Nat
  BY <1>1
<1>4. ((k * FragSize) + NumIot * (m * FragSize)) \div NumIot
        = ((k * FragSize) \div NumIot) + (m * FragSize)
  BY <1>3, DivModShift
<1>5. IotOffset(k + NumIot * m) = ((k + NumIot * m) * FragSize) \div NumIot
  BY IotOffsetExact
<1>6. IotOffset(k) = (k * FragSize) \div NumIot
  BY IotOffsetExact
<1>7. (k + NumIot * m) % NumIot = k % NumIot
  <2>1. k \in Int /\ m \in Int
    BY <1>1
  <2> QED  BY <2>1, DivModShift
<1> QED
  BY <1>2, <1>4, <1>5, <1>6, <1>7 DEF IotOf

(* The increments at the end of the SendMsgWrapper loop: stepping NumIot     *)
(* fragments ahead stays on the same node and moves FragSize bytes on, which *)
(* is what Distribute's formulas give for that block.                        *)
THEOREM LoopFollowsStriping ==
  ASSUME NEW k \in Nat, k + NumIot \in Blocks
  PROVE  /\ k \in Blocks
         /\ IotOf(k + NumIot) = IotOf(k)
         /\ IotOffset(k + NumIot) = IotOffset(k) + FragSize
<1> USE StripingAssumption
<1>1. k \in Blocks
  BY DEF Blocks
<1>2. k + NumIot * 1 = k + NumIot /\ 1 * FragSize = FragSize
  OBVIOUS
<1> QED
  BY <1>1, <1>2, RoundsApart

(* Two blocks of the device never share a byte of a node's store, although   *)
(* Distribute divides the byte address by the number of nodes instead of     *)
(* counting the fragments of a node.                                         *)
THEOREM BlocksDoNotOverlap ==
  ASSUME NEW j \in Blocks, NEW k \in Blocks, j # k, IotOf(j) = IotOf(k)
  PROVE  ~Overlap(IotOffset(j), IotOffset(k))
<1> USE StripingAssumption
<1> DEFINE Apart(a, b) ==
      \E m \in Nat \ {0} : b = a + NumIot * m
<1>1. j \in Nat /\ k \in Nat
  BY BlockInDevice
<1>2. Apart(j, k) \/ Apart(k, j)
  <2>1. /\ j = NumIot * (j \div NumIot) + (j % NumIot)
        /\ k = NumIot * (k \div NumIot) + (k % NumIot)
        /\ j \div NumIot \in Int /\ k \div NumIot \in Int
    BY <1>1, DivModSum
  <2> DEFINE d == (k \div NumIot) - (j \div NumIot)
  <2>2. NumIot * d = NumIot * (k \div NumIot) - NumIot * (j \div NumIot)
    BY <2>1
  <2>3. d \in Int /\ k = j + NumIot * d /\ d # 0
    BY <1>1, <2>1, <2>2 DEF IotOf
  <2>4. NumIot * (-d) = -(NumIot * d)
    BY <2>3
  <2> HIDE DEF d
  <2>5. CASE d > 0
    BY <2>3, <2>5
  <2>6. CASE d < 0
    <3>1. -d \in Nat \ {0} /\ j = k + NumIot * (-d)
      BY <1>1, <2>3, <2>4, <2>6
    <3> QED  BY <3>1
  <2> QED  BY <2>3, <2>5, <2>6
<1>3. ASSUME NEW a \in Blocks, NEW b \in Blocks, Apart(a, b)
      PROVE  IotOffset(a) + FragSize <= IotOffset(b)
  <2>1. PICK m \in Nat \ {0} : b = a + NumIot * m
    BY <1>3
  <2>2. IotOffset(b) = IotOffset(a) + (m * FragSize)
    BY <2>1, RoundsApart
  <2>3. m * FragSize = (m - 1) * FragSize + FragSize /\ (m - 1) * FragSize \in Nat
    <3>1. m - 1 \in Nat
      OBVIOUS
    <3> QED  BY <3>1
  <2>4. IotOffset(a) \in Nat
    BY IotOffsetExact
  <2> QED
    BY <2>2, <2>3, <2>4
<1> HIDE DEF Apart
<1>4. IotOffset(j) \in Nat /\ IotOffset(k) \in Nat
  BY IotOffsetExact
<1> QED
  BY <1>2, <1>3, <1>4 DEF Overlap

----------------------------------------------------------------------------
(* Sequences.                                                                *)

LEMMA TailElements ==
  ASSUME NEW S, NEW q \in Seq(S), q # <<>>
  PROVE  /\ Head(q) \in S /\ Head(q) = q[1] /\ 1 \in 1 .. Len(q)
         /\ Tail(q) \in Seq(S)
         /\ \A k \in 1 .. Len(Tail(q)) : Tail(q)[k] = q[k + 1] /\ k + 1 \in 1 .. Len(q)
OBVIOUS

LEMMA AppendElements ==
  ASSUME NEW S, NEW q \in Seq(S), NEW e \in S
  PROVE  /\ Append(q, e) \in Seq(S)
         /\ Len(Append(q, e)) = Len(q) + 1
         /\ \A k \in 1 .. Len(Append(q, e)) :
              \/ k \in 1 .. Len(q) /\ Append(q, e)[k] = q[k]
              \/ k = Len(q) + 1 /\ Append(q, e)[k] = e
OBVIOUS

----------------------------------------------------------------------------
(* Constants.                                                                *)

LEMMA DivLowerBound ==
  ASSUME NEW n \in Nat \ {0}, NEW a \in Nat, NEW q \in Nat, n * q <= a
  PROVE  q <= a \div n
<1> DEFINE p == a \div n
<1>1. p \in Int /\ a < (n * p) + n
  BY DivModSum
<1> HIDE DEF p
<1>2. ASSUME q > p PROVE FALSE
  <2>1. n * (q - p - 1) = ((n * q) - (n * p)) - n
    BY <1>1
  <2>2. q - p - 1 \in Nat
    BY <1>1, <1>2
  <2>3. n * (q - p - 1) \in Nat
    BY <2>2
  <2>4. n * q \in Int /\ n * p \in Int
    BY <1>1
  <2> QED
    BY <1>1, <2>1, <2>3, <2>4
<1> QED
  BY <1>1, <1>2 DEF p

LEMMA ExactDivision ==
  ASSUME NEW n \in Nat \ {0}, NEW a \in Nat, a % n = 0
  PROVE  a \div n \in Nat /\ a = n * (a \div n)
<1>1. a = (n * (a \div n)) + (a % n) /\ a \div n \in Int
  BY DivModSum
<1>2. a \div n \in Nat
  OBVIOUS
<1>3. n * (a \div n) \in Int
  BY <1>1
<1> QED
  BY <1>1, <1>2, <1>3

(* A request lies inside the device.                                         *)
LEMMA RequestInDevice ==
  ASSUME NEW r \in Shapes
  PROVE  /\ r.type \in {"READ", "WRITE", "DISC"}
         /\ FirstFrag(r.offset) \in Nat
         /\ NumFrags(r.dataLen) \in Nat
         /\ NumTasks(r.dataLen) \in 0 .. NumIot
         /\ NumTasks(r.dataLen) <= NumFrags(r.dataLen)
         /\ \A f \in 0 .. NumFrags(r.dataLen) - 1 :
              f \in Blocks /\ FirstFrag(r.offset) + f \in Blocks
<1> USE StripingAssumption
<1>1. /\ r \in [type : {"READ", "WRITE", "DISC"}, offset : Nat, dataLen : Nat]
      /\ InDevice(r)
  BY AtlasAssumption
<1>2. r.offset \in Nat /\ r.dataLen \in Nat /\ r.type \in {"READ", "WRITE", "DISC"}
  BY <1>1
<1> DEFINE o == r.offset \div FragSize
           l == r.dataLen \div FragSize
<1>0. r.offset % FragSize = 0 /\ r.dataLen % FragSize = 0
  BY <1>1 DEF InDevice
<1>3. o \in Nat /\ r.offset = FragSize * o
  BY <1>0, <1>2, ExactDivision
<1>4. l \in Nat /\ r.dataLen = FragSize * l
  BY <1>0, <1>2, ExactDivision
<1>5. r.offset + r.dataLen <= StorageSize
  BY <1>1 DEF InDevice
<1> HIDE DEF o, l
<1>6. FragSize * (o + l) = (FragSize * o) + (FragSize * l)
  BY <1>3, <1>4
<1>7. o + l <= StorageSize \div FragSize
  BY <1>3, <1>4, <1>5, <1>6, DivLowerBound
<1>8. StorageSize \div FragSize \in Nat
  OBVIOUS
<1>9. \A f \in 0 .. l - 1 : f \in Blocks /\ o + f \in Blocks
  BY <1>3, <1>4, <1>7, <1>8 DEF Blocks
<1> QED
  BY <1>2, <1>3, <1>4, <1>9 DEF o, l, FirstFrag, NumFrags, NumTasks

LEMMA IotOfBlock ==
  ASSUME NEW b \in Nat
  PROVE  IotOf(b) + 1 \in IotSocks
<1>1. b % NumIot \in 0 .. NumIot - 1
  BY StripingAssumption, DivModSum
<1> QED
  BY <1>1, StripingAssumption DEF IotOf, IotSocks

LEMMA OffsetsOfBlocks ==
  /\ \A b \in Blocks : IotOffset(b) \in Offsets
  /\ \A o \in Offsets : o \in Nat
  /\ \A k \in Nat : IotOffset(k) \in Nat
BY StripingAssumption, IotOffsetExact DEF Offsets, IotOffset

LEMMA ReqUidBound == TypeOK => reqUid \in Nat /\ reqUid <= MaxReqs
<1> SUFFICES ASSUME TypeOK PROVE reqUid \in Nat /\ reqUid <= MaxReqs
  OBVIOUS
<1>1. Len(nbdSock) \in Nat
  BY DEF TypeOK
<1> QED
  BY <1>1, AtlasAssumption DEF TypeOK, Issued

LEMMA NoFragsBeforeRead ==
  ASSUME RequestsAreShapes, reqUid \in Nat, NEW n \in Requests, n >= reqUid
  PROVE  nbdReq[n] = NoReq /\ Frags(n) = {}
<1>1. nbdReq[n] = NoReq
  BY DEF RequestsAreShapes, Requests
<1>2. NumFrags(0) = 0
  BY StripingAssumption, SmallMod DEF NumFrags
<1> QED
  BY <1>1, <1>2 DEF Frags, NoReq

(* The fragments of a request that was read.                                 *)
LEMMA FragsInDevice ==
  ASSUME RequestsAreShapes, reqUid \in Nat, reqUid <= MaxReqs,
         NEW n \in 0 .. reqUid - 1
  PROVE  /\ n \in Requests /\ nbdReq[n] \in Shapes
         /\ FirstFrag(nbdReq[n].offset) \in Nat
         /\ Frags(n) \subseteq Nat
         /\ \A f \in Frags(n) : f \in Blocks /\ BlockOf(n, f) \in Blocks
<1>1. n \in Requests /\ nbdReq[n] \in Shapes
  BY AtlasAssumption DEF Requests, RequestsAreShapes
<1> QED
  BY <1>1, RequestInDevice DEF Frags, BlockOf

----------------------------------------------------------------------------
(* The initial states.                                                       *)

LEMMA InitIInv == Init => IInv
<1> SUFFICES ASSUME Init PROVE IInv
  OBVIOUS
<1> USE DEF Init
<1>1. RequestsAreShapes
  BY DEF RequestsAreShapes, Requests
<1>2. Blank \in Values /\ NoInfo \notin Info
  BY DEF Values, NoInfo, Info
<1>3. TypeOK
  <2>1. \A n \in Requests : fragSet[n] \subseteq Frags(n)
    OBVIOUS
  <2>2. Issued = 0
    BY DEF Issued
  <2>3. /\ nbdSock \in Seq(Shapes)
        /\ toIot \in [IotSocks -> Seq(Commands)]
        /\ fromIot \in [IotSocks -> Seq(Answers)]
    OBVIOUS
  <2> QED
    BY <1>2, <2>1, <2>2, <2>3, AtlasAssumption DEF TypeOK, Busy
<1>4. OneHolder /\ HoldersAddressed /\ SendsInDevice
  BY DEF OneHolder, HoldersAddressed, SendsInDevice, Busy
<1>5. SentOnce /\ AcknowledgedOnce /\ CommandsAddressed
  BY DEF SentOnce, Sent, AcknowledgedOnce, CommandsAddressed
<1>6. ReleasedWhenDone /\ WriteBuffersIntact
  BY DEF ReleasedWhenDone, WriteBuffersIntact, Requests
<1> QED
  BY <1>1, <1>3, <1>4, <1>5, <1>6 DEF IInv

----------------------------------------------------------------------------
(* Steps that leave the workers and the requests alone keep what is said of  *)
(* them.                                                                     *)

LEMMA UnchangedHolders ==
  ASSUME UNCHANGED workerVars, UNCHANGED reqVars, IInv
  PROVE  /\ RequestsAreShapes' /\ OneHolder' /\ HoldersAddressed' /\ SendsInDevice'
         /\ AcknowledgedOnce' /\ ReleasedWhenDone' /\ WriteBuffersIntact'
         /\ \A n, f : NotPending(n, f) => NotPending(n, f)'
<1> USE DEF workerVars, reqVars, IInv
<1>1. RequestsAreShapes' /\ ReleasedWhenDone' /\ WriteBuffersIntact'
  BY DEF RequestsAreShapes, ReleasedWhenDone, WriteBuffersIntact
<1>2. OneHolder' /\ HoldersAddressed' /\ SendsInDevice'
  BY DEF OneHolder, HoldersAddressed, SendsInDevice, Addressed, BlockOf, Busy
<1>3. \A n, f : NotPending(n, f) => NotPending(n, f)'
  BY DEF NotPending, Busy
<1>4. AcknowledgedOnce'
  BY <1>3 DEF AcknowledgedOnce, Frags
<1> QED
  BY <1>1, <1>2, <1>3, <1>4

LEMMA KernelIssuesIInv == IInv /\ KernelIssues => IInv'
<1> SUFFICES ASSUME IInv, KernelIssues PROVE IInv'
  OBVIOUS
<1> USE DEF KernelIssues
<1>1. TypeOK'
  <2>1. PICK r \in Shapes : nbdSock' = Append(nbdSock, r)
    OBVIOUS
  <2>2. nbdSock' \in Seq(Shapes) /\ Len(nbdSock') = Len(nbdSock) + 1
    BY <2>1, AppendElements DEF IInv, TypeOK
  <2>3. Issued' <= MaxReqs
    BY <2>2, AtlasAssumption DEF Issued, reqVars, IInv, TypeOK
  <2> QED
    BY <2>2, <2>3 DEF IInv, TypeOK, reqVars, workerVars, iotVars, Busy, Frags
<1>2. SentOnce'
  BY UnchangedHolders DEF IInv, SentOnce, Sent, iotVars, reqVars
<1>3. CommandsAddressed'
  BY DEF IInv, CommandsAddressed, iotVars, reqVars, Frags
<1> QED
  BY <1>1, <1>2, <1>3, UnchangedHolders DEF IInv

LEMMA RecvClosedIInv ==
  ASSUME NEW s, IInv, RecvClosed(s) PROVE IInv'
<1> USE DEF RecvClosed
<1>1. TypeOK'
  BY DEF IInv, TypeOK, reqVars, workerVars, iotVars, Busy, Frags, Issued
<1>2. SentOnce'
  BY UnchangedHolders DEF IInv, SentOnce, Sent, iotVars, reqVars
<1>3. CommandsAddressed'
  BY DEF IInv, CommandsAddressed, iotVars, reqVars, Frags
<1> QED
  BY <1>1, <1>2, <1>3, UnchangedHolders DEF IInv

LEMMA PeerClosesIInv ==
  ASSUME NEW s, IInv, PeerCloses(s) PROVE IInv'
<1> USE DEF PeerCloses
<1>1. TypeOK'
  <2>1. toIot' \in [IotSocks -> Seq(Commands)] /\ closed' \subseteq Closable
    BY DEF IInv, TypeOK
  <2> QED
    BY <2>1 DEF IInv, TypeOK, reqVars, workerVars, Busy, Frags, Issued
<1>2. SentOnce'
  BY UnchangedHolders DEF IInv, SentOnce, Sent, reqVars
<1>3. CommandsAddressed'
  BY DEF IInv, CommandsAddressed, reqVars, Frags
<1> QED
  BY <1>1, <1>2, <1>3, UnchangedHolders DEF IInv

LEMMA IotServesIInv ==
  ASSUME NEW s \in IotSocks, IInv, IotServes(s) PROVE IInv'
<1> USE DEF IotServes
<1> DEFINE m == Head(toIot[s])
           a == [uid |-> m.uid, frag |-> m.frag,
                 data |-> IF m.type = "READ" THEN store[s][m.off] ELSE Blank]
<1>1. toIot[s] \in Seq(Commands) /\ fromIot[s] \in Seq(Answers) /\ toIot[s] # <<>>
  BY DEF IInv, TypeOK
<1>2. /\ m \in Commands /\ m = toIot[s][1] /\ 1 \in 1 .. Len(toIot[s])
      /\ Tail(toIot[s]) \in Seq(Commands)
      /\ \A k \in 1 .. Len(Tail(toIot[s])) :
           Tail(toIot[s])[k] = toIot[s][k + 1] /\ k + 1 \in 1 .. Len(toIot[s])
  BY <1>1, TailElements
<1>3. a \in Answers /\ a.uid = m.uid /\ a.frag = m.frag
  BY <1>2 DEF IInv, TypeOK, Commands, Answers, Values
<1>4. /\ toIot' = [toIot EXCEPT ![s] = Tail(toIot[s])]
      /\ fromIot' = [fromIot EXCEPT ![s] = Append(fromIot[s], a)]
  OBVIOUS
<1>5. store' \in [IotSocks -> [Offsets -> Values]]
  <2>1. m.data \in Values /\ store \in [IotSocks -> [Offsets -> Values]]
    BY <1>2 DEF Commands, IInv, TypeOK
  <2>2. store' = store \/ store' = [store EXCEPT ![s][m.off] = m.data]
    OBVIOUS
  <2> HIDE DEF m
  <2> QED  BY <2>1, <2>2
<1> HIDE DEF m, a, IotServes
<1>6. /\ Append(fromIot[s], a) \in Seq(Answers)
      /\ Len(Append(fromIot[s], a)) = Len(fromIot[s]) + 1
      /\ \A k \in 1 .. Len(Append(fromIot[s], a)) :
           \/ k \in 1 .. Len(fromIot[s]) /\ Append(fromIot[s], a)[k] = fromIot[s][k]
           \/ k = Len(fromIot[s]) + 1 /\ Append(fromIot[s], a)[k] = a
  BY <1>1, <1>3, AppendElements
<1>7. UNCHANGED <<nbdSock, reqVars, workerVars, closed, fault>>
  BY DEF IotServes
<1>8. TypeOK'
  <2>1. /\ toIot' \in [IotSocks -> Seq(Commands)]
        /\ fromIot' \in [IotSocks -> Seq(Answers)]
    BY <1>2, <1>4, <1>6 DEF IInv, TypeOK
  <2> QED
    BY <2>1, <1>5, <1>7 DEF IInv, TypeOK, reqVars, workerVars, Busy, Frags, Issued
<1>9. SentOnce'
  <2>1. \A n, f : NotPending(n, f) => NotPending(n, f)'
    BY <1>7, UnchangedHolders
  <2>2. \A q : Sent(q) => Sent(q)'
    BY <1>7, <2>1 DEF Sent, reqVars
  <2>3. Sent(toIot[s]) /\ Sent(fromIot[s])
    BY DEF IInv, SentOnce
  <2>4. Sent(Tail(toIot[s]))
    BY <1>2, <2>3 DEF Sent
  <2>5. Sent(Append(fromIot[s], a))
    BY <1>2, <1>3, <1>6, <2>3 DEF Sent
  <2>6. \A i \in IotSocks : Sent(toIot'[i]) /\ Sent(fromIot'[i])
    BY <1>4, <2>4, <2>5 DEF IInv, SentOnce, TypeOK
  <2> QED
    BY <2>2, <2>6, <1>7 DEF SentOnce, Sent, reqVars
<1>10. CommandsAddressed'
  <2>1. UNCHANGED nbdReq
    BY <1>7 DEF reqVars
  <2>2. ASSUME NEW i \in IotSocks, NEW k \in 1 .. Len(toIot'[i])
        PROVE  \E j \in 1 .. Len(toIot[i]) : toIot'[i][k] = toIot[i][j]
    BY <1>2, <1>4 DEF IInv, TypeOK
  <2>3. ASSUME NEW i \in IotSocks, NEW k \in 1 .. Len(toIot'[i]),
               NEW c, c = toIot'[i][k], c.frag \in Frags(c.uid)
        PROVE  /\ i = IotOf(FirstFrag(nbdReq[c.uid].offset) + c.frag) + 1
               /\ c.off = IotOffset(FirstFrag(nbdReq[c.uid].offset) + c.frag)
               /\ c.type = "WRITE" => c.data = Payload(c.uid, c.frag)
    <3>1. PICK j \in 1 .. Len(toIot[i]) : c = toIot[i][j]
      BY <2>2, <2>3
    <3> QED
      BY <2>3, <3>1 DEF IInv, CommandsAddressed
  <2> QED
    BY <2>1, <2>3 DEF CommandsAddressed, Frags
<1> QED
  BY <1>7, <1>8, <1>9, <1>10, UnchangedHolders DEF IInv

LEMMA IotHandleUnknownIInv ==
  ASSUME NEW s \in IotSocks, IInv, IotHandleUnknown(s) PROVE IInv'
<1> USE DEF IotHandleUnknown
<1>1. /\ Tail(fromIot[s]) \in Seq(Answers)
      /\ \A k \in 1 .. Len(Tail(fromIot[s])) :
           Tail(fromIot[s])[k] = fromIot[s][k + 1] /\ k + 1 \in 1 .. Len(fromIot[s])
  BY TailElements DEF IInv, TypeOK
<1>2. TypeOK'
  BY <1>1 DEF IInv, TypeOK, reqVars, workerVars, Busy, Frags, Issued
<1>3. SentOnce'
  <2>1. \A n, f : NotPending(n, f) => NotPending(n, f)'
    BY UnchangedHolders
  <2>2. Sent(Tail(fromIot[s]))
    BY <1>1 DEF IInv, SentOnce, Sent
  <2>3. \A i \in IotSocks : Sent(toIot'[i]) /\ Sent(fromIot'[i])
    BY <2>2 DEF IInv, SentOnce, TypeOK
  <2> QED
    BY <2>1, <2>3 DEF SentOnce, Sent, reqVars
<1>4. CommandsAddressed'
  BY DEF IInv, CommandsAddressed, reqVars, Frags
<1> QED
  BY <1>2, <1>3, <1>4, UnchangedHolders DEF IInv

----------------------------------------------------------------------------
(* The reactor's handlers.                                                   *)

LEMMA IotHandleIInv ==
  ASSUME NEW s \in IotSocks, IInv, IotHandle(s) PROVE IInv'
<1> DEFINE m == Head(fromIot[s])
           n == m.uid
<1>1. /\ m \in Answers /\ m = fromIot[s][1] /\ 1 \in 1 .. Len(fromIot[s])
      /\ Tail(fromIot[s]) \in Seq(Answers)
      /\ \A k \in 1 .. Len(Tail(fromIot[s])) :
           Tail(fromIot[s])[k] = fromIot[s][k + 1] /\ k + 1 \in 1 .. Len(fromIot[s])
  BY TailElements DEF IInv, TypeOK, IotHandle
<1>2. /\ n \in Requests /\ n \in active /\ n \in 0 .. reqUid - 1
      /\ m.data \in Values /\ m.frag \in Nat
  BY <1>1 DEF IotHandle, IInv, TypeOK, Answers
<1>3. /\ fragSet' = [fragSet EXCEPT ![n] = fragSet[n] \ {m.frag}]
      /\ dataBuf' = IF nbdReq[n].type = "READ"
                    THEN [dataBuf EXCEPT ![n][m.frag] = m.data] ELSE dataBuf
      /\ fromIot' = [fromIot EXCEPT ![s] = Tail(fromIot[s])]
      /\ UNCHANGED <<nbdSock, reqUid, nbdReq, workerVars, toIot, store, closed>>
  BY DEF IotHandle, ReadReply
<1>4. \/ UNCHANGED <<active, replies>>
      \/ /\ fragSet'[n] = {}
         /\ replies' = [replies EXCEPT ![n] = replies[n] + 1]
         /\ active' = active \ {n}
  BY DEF IotHandle, NbdRequestDone
<1>5. fault' \in {"none", "null_host", "assert", "stale_read", "sigpipe"}
  BY DEF IotHandle, NbdRequestDone, IInv, TypeOK
<1>6. NotPending(n, m.frag)
  BY <1>1 DEF IInv, SentOnce, Sent
<1> HIDE DEF m, n
<1>7. \A k, f : NotPending(k, f) => NotPending(k, f)'
  BY <1>3 DEF NotPending, workerVars, Busy
<1>8. ReleasedWhenDone'
  <2>1. CASE UNCHANGED <<active, replies>>
    BY <1>2, <1>3, <2>1 DEF IInv, ReleasedWhenDone, TypeOK
  <2>2. CASE /\ fragSet'[n] = {}
             /\ replies' = [replies EXCEPT ![n] = replies[n] + 1]
             /\ active' = active \ {n}
    <3>1. replies[n] = 0
      BY <1>2 DEF IInv, ReleasedWhenDone
    <3> QED
      BY <1>2, <1>3, <2>2, <3>1 DEF IInv, ReleasedWhenDone, TypeOK
  <2> QED
    BY <1>4, <2>1, <2>2
<1>9. TypeOK'
  <2>1. dataBuf' \in [Requests -> [Blocks -> Values]]
    BY <1>2, <1>3 DEF IInv, TypeOK
  <2>2. fragSet' \in [Requests -> SUBSET Nat]
    BY <1>2, <1>3 DEF IInv, TypeOK
  <2>3. \A k \in Requests : fragSet'[k] \subseteq Frags(k)'
    BY <1>2, <1>3 DEF IInv, TypeOK, Frags
  <2>4. active' \subseteq 0 .. reqUid' - 1
    BY <1>3, <1>4 DEF IInv, TypeOK
  <2>5. replies' \in [Requests -> 0 .. 1]
    <3>1. replies[n] = 0 /\ replies \in [Requests -> 0 .. 1]
      BY <1>2 DEF IInv, ReleasedWhenDone, TypeOK
    <3> QED
      BY <1>4, <3>1
  <2>6. fromIot' \in [IotSocks -> Seq(Answers)]
    BY <1>1, <1>3 DEF IInv, TypeOK
  <2>7. UNCHANGED <<Issued, nbdSock, reqUid, nbdReq, tasks, pc, info, toIot, store, closed>>
    BY <1>3 DEF Issued, workerVars
  <2> QED
    BY <1>5, <2>1, <2>2, <2>3, <2>4, <2>5, <2>6, <2>7 DEF IInv, TypeOK, Busy
<1>10. SentOnce'
  <2>1. Sent(Tail(fromIot[s]))
    BY <1>1 DEF IInv, SentOnce, Sent
  <2>2. \A i \in IotSocks : Sent(toIot'[i]) /\ Sent(fromIot'[i])
    BY <1>3, <2>1 DEF IInv, SentOnce, TypeOK
  <2> QED
    BY <1>3, <1>7, <2>2 DEF SentOnce, Sent
<1>11. AcknowledgedOnce'
  <2>1. ASSUME NEW k \in 0 .. reqUid - 1, NEW f \in Frags(k), f \notin fragSet'[k]
        PROVE  f \notin fragSet[k] \/ (k = n /\ f = m.frag)
    BY <1>2, <1>3, <2>1 DEF IInv, TypeOK
  <2> QED
    BY <1>3, <1>6, <1>7, <2>1 DEF IInv, AcknowledgedOnce, Frags
<1>12. WriteBuffersIntact'
  <2>1. \A k \in 0 .. reqUid - 1 : nbdReq[k].type = "WRITE" => dataBuf'[k] = dataBuf[k]
    BY <1>2, <1>3, AtlasAssumption DEF IInv, TypeOK, Requests, Issued
  <2> QED
    BY <1>3, <2>1 DEF IInv, WriteBuffersIntact
<1>13. RequestsAreShapes' /\ OneHolder' /\ HoldersAddressed' /\ SendsInDevice'
  BY <1>3 DEF IInv, RequestsAreShapes, OneHolder, HoldersAddressed, SendsInDevice,
              Addressed, BlockOf, Busy, workerVars
<1>14. CommandsAddressed'
  BY <1>3 DEF IInv, CommandsAddressed, Frags
<1> QED
  BY <1>8, <1>9, <1>10, <1>11, <1>12, <1>13, <1>14 DEF IInv

LEMMA NbdRequestsHandleIInv == IInv /\ NbdRequestsHandle => IInv'
<1> SUFFICES ASSUME IInv, NbdRequestsHandle PROVE IInv'
  OBVIOUS
<1>0. PICK n \in Nat : n = reqUid
  BY DEF IInv, TypeOK
<1> DEFINE r == Head(nbdSock)
           new == {SendInfo(n, r, j) : j \in 0 .. NumTasks(r.dataLen) - 1}
<1>1. /\ r \in Shapes
      /\ Tail(nbdSock) \in Seq(Shapes)
      /\ Len(Tail(nbdSock)) = Len(nbdSock) - 1 /\ Len(nbdSock) \in Nat \ {0}
  BY DEF NbdRequestsHandle, IInv, TypeOK
<1>2. n \in Nat /\ n \in Requests
  BY <1>0, <1>1, AtlasAssumption DEF IInv, TypeOK, Issued, Requests
<1>3. /\ nbdReq' = [nbdReq EXCEPT ![n] = r]
      /\ dataBuf' = [dataBuf EXCEPT ![n] =
            IF r.type = "WRITE" THEN [f \in Blocks |-> Payload(n, f)] ELSE dataBuf[n]]
      /\ fragSet' = [fragSet EXCEPT ![n] = ToAwait(r)]
      /\ active' = active \cup {n}
      /\ tasks' = tasks \cup new
      /\ nbdSock' = Tail(nbdSock)
      /\ reqUid' = reqUid + 1
      /\ UNCHANGED <<replies, pc, info, iotVars, closed, fault>>
  BY <1>0 DEF NbdRequestsHandle, NbdRequestRead, Distribute
<1>4. /\ nbdReq'[n] = r
      /\ \A k \in 0 .. reqUid - 1 : nbdReq'[k] = nbdReq[k] /\ Frags(k)' = Frags(k)
      /\ Frags(n)' = ToAwait(r)
      /\ fragSet'[n] = ToAwait(r)
      /\ \A k \in Requests \ {n} : fragSet'[k] = fragSet[k] /\ Frags(k)' = Frags(k)
  <2>1. nbdReq'[n] = r /\ fragSet'[n] = ToAwait(r)
    BY <1>2, <1>3 DEF IInv, TypeOK
  <2>2. \A k \in Requests \ {n} :
          nbdReq'[k] = nbdReq[k] /\ fragSet'[k] = fragSet[k] /\ Frags(k)' = Frags(k)
    BY <1>2, <1>3 DEF IInv, TypeOK, Frags
  <2>3. Frags(n)' = ToAwait(r)
    BY <2>1 DEF Frags, ToAwait
  <2>4. \A k \in 0 .. reqUid - 1 : k \in Requests \ {n}
    BY <1>0, <1>2, AtlasAssumption DEF Requests
  <2> QED
    BY <2>1, <2>2, <2>3, <2>4
<1>5. ASSUME NEW t \in new
      PROVE  /\ t \in Info /\ t.uid = n /\ t.frag \in 0 .. NumIot - 1
             /\ t.frag % NumIot = t.frag
             /\ \A u \in new : u.frag = t.frag => u = t
             /\ Addressed(t)'
  <2>1. PICK j \in 0 .. NumTasks(r.dataLen) - 1 : t = SendInfo(n, r, j)
    BY <1>5
  <2>2. j \in 0 .. NumIot - 1 /\ FirstFrag(r.offset) + j \in Blocks
    <3>1. /\ NumTasks(r.dataLen) \in 0 .. NumIot
          /\ NumFrags(r.dataLen) \in Nat
          /\ NumTasks(r.dataLen) <= NumFrags(r.dataLen)
          /\ \A f \in 0 .. NumFrags(r.dataLen) - 1 : FirstFrag(r.offset) + f \in Blocks
      BY <1>1, RequestInDevice
    <3> HIDE DEF r
    <3>2. j \in 0 .. NumFrags(r.dataLen) - 1 /\ j \in 0 .. NumIot - 1
      BY <3>1, StripingAssumption
    <3> QED
      BY <3>1, <3>2
  <2>3. FirstFrag(r.offset) + j \in Nat
    BY <2>2, BlockInDevice
  <2>4. IotOf(FirstFrag(r.offset) + j) + 1 \in IotSocks
        /\ IotOffset(FirstFrag(r.offset) + j) \in Nat
    BY <2>3, IotOfBlock, OffsetsOfBlocks
  <2>5. t.frag = j /\ t.uid = n /\ t \in Info
    BY <1>1, <1>2, <2>1, <2>2, <2>4, RequestInDevice DEF SendInfo, Info
  <2>6. \A u \in new : u.frag = t.frag => u = t
    BY <2>1 DEF SendInfo
  <2>7. Addressed(t)'
    BY <1>0, <1>2, <1>3, <1>4, <2>1 DEF Addressed, BlockOf, SendInfo
  <2> QED
    BY <2>2, <2>5, <2>6, <2>7, SmallMod, StripingAssumption
<1> HIDE DEF r, new
<1>6. /\ \A t \in tasks : t \in Info /\ t.uid \in 0 .. reqUid - 1
      /\ \A w \in Workers : Busy(w) => info[w] \in Info /\ info[w].uid \in 0 .. reqUid - 1
  BY DEF IInv, TypeOK, HoldersAddressed, Addressed, Info, Requests
<1>7. \A w \in Workers : Busy(w)' = Busy(w) /\ info'[w] = info[w]
  BY <1>3 DEF Busy
<1>8. \A k \in 0 .. reqUid - 1 : \A f : NotPending(k, f) => NotPending(k, f)'
  BY <1>0, <1>3, <1>5, <1>7 DEF NotPending, WillSend
<1>9. TypeOK'
  <2>1. /\ nbdReq' \in [Requests -> Shapes \cup {NoReq}]
        /\ nbdSock' \in Seq(Shapes)
        /\ reqUid' \in Nat /\ Issued' <= MaxReqs
    BY <1>0, <1>1, <1>2, <1>3 DEF IInv, TypeOK, Issued
  <2>2. dataBuf' \in [Requests -> [Blocks -> Values]]
    <3>1. \A f \in Blocks : Payload(n, f) \in Values
      BY <1>2 DEF Payload, Values
    <3> QED
      BY <1>2, <1>3, <3>1 DEF IInv, TypeOK
  <2>3. fragSet' \in [Requests -> SUBSET Nat]
    BY <1>1, <1>2, <1>3, RequestInDevice DEF IInv, TypeOK, ToAwait
  <2>4. ASSUME NEW k \in Requests PROVE fragSet'[k] \subseteq Frags(k)'
    <3>1. CASE k = n
      BY <1>4, <3>1
    <3>2. CASE k # n
      BY <1>4, <3>2 DEF IInv, TypeOK
    <3> QED  BY <3>1, <3>2
  <2>5. active' \subseteq 0 .. reqUid' - 1
    BY <1>0, <1>2, <1>3 DEF IInv, TypeOK
  <2>6. tasks' \subseteq Info
    BY <1>3, <1>5 DEF IInv, TypeOK
  <2> QED
    BY <1>3, <1>7, <2>1, <2>2, <2>3, <2>4, <2>5, <2>6 DEF IInv, TypeOK, iotVars
<1>10. RequestsAreShapes'
  BY <1>0, <1>1, <1>2, <1>3, <1>4 DEF IInv, RequestsAreShapes, TypeOK, Requests
<1>11. OneHolder'
  <2>1. ASSUME NEW t \in tasks', NEW u \in tasks', SameStrand(t, u) PROVE t = u
    <3>1. CASE t \in new /\ u \in new
      BY <1>5, <2>1, <3>1 DEF SameStrand
    <3>2. CASE t \in tasks /\ u \in tasks
      BY <2>1, <3>2 DEF IInv, OneHolder
    <3>3. ~(t \in new /\ u \in tasks) /\ ~(t \in tasks /\ u \in new)
      BY <1>0, <1>2, <1>5, <1>6, <2>1 DEF SameStrand
    <3> QED
      BY <1>3, <3>1, <3>2, <3>3
  <2>2. ASSUME NEW t \in tasks', NEW w \in Workers, Busy(w) PROVE ~SameStrand(t, info[w])
    <3>1. t \in new => ~SameStrand(t, info[w])
      BY <1>0, <1>2, <1>5, <1>6, <2>2 DEF SameStrand
    <3> QED
      BY <1>3, <2>2, <3>1 DEF IInv, OneHolder
  <2> QED
    BY <1>3, <1>7, <2>1, <2>2 DEF IInv, OneHolder
<1>12. HoldersAddressed'
  <2>1. \A i : i.uid \in 0 .. reqUid - 1 /\ Addressed(i) => Addressed(i)'
    BY <1>0, <1>2, <1>3, <1>4 DEF Addressed, BlockOf
  <2> QED
    BY <1>3, <1>5, <1>6, <1>7, <2>1 DEF IInv, HoldersAddressed
<1>13. SendsInDevice'
  BY <1>3, <1>4, <1>6, <1>7 DEF IInv, SendsInDevice, BlockOf, Busy
<1>14. SentOnce'
  <2>1. ASSUME NEW q, Sent(q), \A k \in 1 .. Len(q) : q[k].uid \in Nat
        PROVE  Sent(q)'
    <3>1. ASSUME NEW k \in 1 .. Len(q)
          PROVE  q[k].uid < reqUid + 1 /\ NotPending(q[k].uid, q[k].frag)'
      <4>1. q[k].uid \in 0 .. reqUid - 1 /\ NotPending(q[k].uid, q[k].frag)
        BY <1>0, <1>2, <2>1 DEF Sent
      <4> QED
        BY <1>0, <1>2, <1>8, <4>1
    <3> QED
      BY <1>3, <3>1 DEF Sent
  <2>2. ASSUME NEW s \in IotSocks
        PROVE  /\ \A k \in 1 .. Len(toIot[s]) : toIot[s][k].uid \in Nat
               /\ \A k \in 1 .. Len(fromIot[s]) : fromIot[s][k].uid \in Nat
    <3>1. toIot[s] \in Seq(Commands) /\ fromIot[s] \in Seq(Answers)
      BY DEF IInv, TypeOK
    <3>2. /\ \A m \in Commands : m.uid \in Nat
          /\ \A m \in Answers : m.uid \in Nat
      BY AtlasAssumption DEF Commands, Answers, Requests
    <3> QED
      BY <3>1, <3>2
  <2> QED
    BY <1>3, <2>1, <2>2 DEF IInv, SentOnce, iotVars, Sent
<1>15. AcknowledgedOnce'
  <2>1. ASSUME NEW k \in 0 .. reqUid, NEW f \in Frags(k)' \ fragSet'[k]
        PROVE  NotPending(k, f)'
    <3>1. k # n
      BY <1>4, <2>1
    <3>2. k \in 0 .. reqUid - 1 /\ k \in Requests \ {n}
      BY <1>0, <1>2, <3>1, AtlasAssumption DEF Requests
    <3>3. NotPending(k, f)
      BY <1>4, <3>2 DEF IInv, AcknowledgedOnce
    <3> QED
      BY <1>8, <3>2, <3>3
  <2> QED
    BY <1>0, <1>2, <1>3, <2>1 DEF AcknowledgedOnce
<1>16. ReleasedWhenDone'
  BY <1>0, <1>2, <1>3, <1>4 DEF IInv, ReleasedWhenDone, Requests, TypeOK
<1>17. WriteBuffersIntact'
  BY <1>0, <1>2, <1>3, <1>4 DEF IInv, WriteBuffersIntact, TypeOK, Requests
<1>18. CommandsAddressed'
  <2>1. ASSUME NEW s \in IotSocks, NEW k \in 1 .. Len(toIot[s])
        PROVE  toIot[s][k].uid \in 0 .. reqUid - 1
    <3>1. toIot[s] \in Seq(Commands)
      BY DEF IInv, TypeOK
    <3>2. toIot[s][k] \in Commands
      BY <3>1
    <3>3. toIot[s][k].uid < reqUid
      BY DEF IInv, SentOnce, Sent
    <3> QED
      BY <1>0, <1>2, <3>2, <3>3, AtlasAssumption DEF Requests, Commands
  <2> QED
    BY <1>3, <1>4, <2>1 DEF IInv, CommandsAddressed, iotVars
<1> QED
  BY <1>9, <1>10, <1>11, <1>12, <1>13, <1>14, <1>15, <1>16, <1>17, <1>18 DEF IInv

----------------------------------------------------------------------------
(* The workers.                                                              *)

LEMMA DequeueIInv ==
  ASSUME NEW w \in Workers, IInv, Dequeue(w) PROVE IInv'
<1>1. PICK t \in tasks : /\ tasks' = tasks \ {t}
                         /\ info' = [info EXCEPT ![w] = t]
                         /\ pc' = [pc EXCEPT ![w] = "test"]
                         /\ UNCHANGED <<nbdSock, reqVars, iotVars, closed, fault>>
  BY DEF Dequeue
<1>2. /\ info'[w] = t /\ Busy(w)' /\ ~Busy(w) /\ t \in Info
      /\ \A v \in Workers \ {w} : info'[v] = info[v] /\ pc'[v] = pc[v]
  BY <1>1 DEF IInv, TypeOK, Busy, Dequeue
<1>3. \A n, f : NotPending(n, f) => NotPending(n, f)'
  BY <1>1, <1>2 DEF NotPending, Busy
<1>4. TypeOK'
  <2>1. /\ pc' \in [Workers -> {"dequeue", "test", "send"}]
        /\ info' \in [Workers -> Info \cup {NoInfo}]
        /\ \A v \in Workers : info'[v] \in IF Busy(v)' THEN Info ELSE {NoInfo}
    BY <1>1, <1>2 DEF IInv, TypeOK, Busy
  <2> QED
    BY <1>1, <2>1 DEF IInv, TypeOK, Issued, Frags, reqVars, iotVars
<1>5. OneHolder'
  <2>1. \A v \in Workers \ {w} : Busy(v) =>
          ~SameStrand(t, info[v]) /\ ~SameStrand(info[v], t)
    BY DEF IInv, OneHolder, SameStrand
  <2>2. \A u \in tasks' : ~SameStrand(u, t)
    BY <1>1 DEF IInv, OneHolder
  <2>3. \A v \in Workers \ {w} : Busy(v)' = Busy(v)
    BY <1>2 DEF Busy
  <2> QED
    BY <1>1, <1>2, <2>1, <2>2, <2>3 DEF IInv, OneHolder
<1>6. HoldersAddressed'
  BY <1>1, <1>2 DEF IInv, HoldersAddressed, Addressed, BlockOf, Busy, reqVars
<1>7. SendsInDevice'
  BY <1>1 DEF IInv, SendsInDevice, BlockOf, TypeOK, reqVars
<1>8. SentOnce' /\ AcknowledgedOnce'
  BY <1>1, <1>3 DEF IInv, SentOnce, Sent, AcknowledgedOnce, Frags, reqVars, iotVars
<1>9. RequestsAreShapes' /\ ReleasedWhenDone' /\ WriteBuffersIntact' /\ CommandsAddressed'
  BY <1>1 DEF IInv, RequestsAreShapes, ReleasedWhenDone, WriteBuffersIntact,
              CommandsAddressed, Frags, reqVars, iotVars
<1> QED
  BY <1>4, <1>5, <1>6, <1>7, <1>8, <1>9 DEF IInv

(* Both loop tests: the worker leaves the loop, goes on to send for a block  *)
(* of the device, or takes the process down.                                 *)
LEMMA TestIInv ==
  ASSUME NEW w \in Workers, IInv, pc[w] = "test",
         UNCHANGED <<nbdSock, reqVars, tasks, iotVars, closed>>,
         fault' \in {"none", "null_host", "assert", "stale_read", "sigpipe"},
         \/ EndTask(w)
         \/ /\ BlockOf(info[w].uid, info[w].frag) \in Blocks
            /\ pc' = [pc EXCEPT ![w] = "send"]
            /\ UNCHANGED info
         \/ UNCHANGED <<pc, info>>
  PROVE  IInv'
<1>1. /\ \A v \in Workers : Busy(v)' => Busy(v) /\ info'[v] = info[v]
      /\ \A v \in Workers : pc'[v] = "send" =>
           pc[v] = "send" \/ BlockOf(info[v].uid, info[v].frag) \in Blocks
  BY DEF EndTask, Busy, IInv, TypeOK
<1>2. /\ pc' \in [Workers -> {"dequeue", "test", "send"}]
      /\ info' \in [Workers -> Info \cup {NoInfo}]
      /\ \A v \in Workers : info'[v] \in IF Busy(v)' THEN Info ELSE {NoInfo}
  BY DEF EndTask, Busy, IInv, TypeOK
<1>3. \A n, f : NotPending(n, f) => NotPending(n, f)'
  BY <1>1 DEF NotPending
<1>4. TypeOK'
  BY <1>2 DEF IInv, TypeOK, Issued, Frags, reqVars, iotVars
<1>5. OneHolder'
  BY <1>1 DEF IInv, OneHolder
<1>6. HoldersAddressed'
  BY <1>1 DEF IInv, HoldersAddressed, Addressed, BlockOf, reqVars
<1>7. SendsInDevice'
  <2>1. \A v \in Workers : pc'[v] = "send" => Busy(v)'
    BY DEF Busy
  <2> QED
    BY <1>1, <2>1 DEF IInv, SendsInDevice, BlockOf, reqVars
<1>8. SentOnce' /\ AcknowledgedOnce'
  BY <1>3 DEF IInv, SentOnce, Sent, AcknowledgedOnce, Frags, reqVars, iotVars
<1>9. RequestsAreShapes' /\ ReleasedWhenDone' /\ WriteBuffersIntact' /\ CommandsAddressed'
  BY DEF IInv, RequestsAreShapes, ReleasedWhenDone, WriteBuffersIntact,
         CommandsAddressed, Frags, reqVars, iotVars
<1> QED
  BY <1>4, <1>5, <1>6, <1>7, <1>8, <1>9 DEF IInv

LEMMA LoopTestIInv ==
  ASSUME NEW w \in Workers, IInv, LoopTest(w) PROVE IInv'
<1>1. info[w].uid \in 0 .. reqUid - 1 /\ reqUid \in Nat /\ reqUid <= MaxReqs
  BY ReqUidBound DEF LoopTest, IInv, TypeOK
<1>2. \A f \in Frags(info[w].uid) : BlockOf(info[w].uid, f) \in Blocks
  BY <1>1, FragsInDevice DEF IInv
<1> QED
  BY <1>2, TestIInv DEF LoopTest, IInv, TypeOK

LEMMA StaleLoopTestIInv ==
  ASSUME NEW w \in Workers, IInv, StaleLoopTest(w) PROVE IInv'
BY TestIInv DEF StaleLoopTest, BlockOf, IInv, TypeOK

(* The next round of the loop: the same strand, one fragment further, and     *)
(* still addressed as Distribute would.                                      *)
LEMMA NextFragmentAddressed ==
  ASSUME NEW i \in Info, IInv, Addressed(i)
  PROVE  LET i2 == NextFragment(i) IN
           /\ i2 \in Info /\ i2.uid = i.uid /\ i2.frag = i.frag + NumIot
           /\ i2.frag % NumIot = i.frag % NumIot
           /\ Addressed(i2)
<1> USE StripingAssumption
<1> DEFINE b == BlockOf(i.uid, i.frag)
           i2 == NextFragment(i)
<1>1. /\ i.uid \in Requests /\ i.frag \in Nat /\ i.off \in Nat /\ i.buf \in Nat
      /\ i.sock \in IotSocks /\ i.type \in {"READ", "WRITE", "DISC"}
  BY DEF Info
<1>2. /\ i2.sock = i.sock /\ i2.uid = i.uid /\ i2.type = i.type
      /\ i2.frag = i.frag + NumIot /\ i2.off = i.off + FragSize
      /\ i2.buf = i.buf + NumIot
  BY DEF NextFragment, Info
<1>3. i2 \in Info
  <2> DEFINE j == [i EXCEPT !.frag = i.frag + NumIot]
             k == [j EXCEPT !.off = i.off + FragSize]
  <2>1. j \in Info
    BY <1>1 DEF Info
  <2>2. k \in Info
    <3> HIDE DEF j
    <3> QED  BY <1>1, <2>1 DEF Info
  <2>3. i2 = [k EXCEPT !.buf = i.buf + NumIot]
    BY DEF NextFragment, Info
  <2> HIDE DEF k
  <2> QED
    BY <1>1, <2>2, <2>3 DEF Info
<1>4. FirstFrag(nbdReq[i.uid].offset) \in Nat
  <2>1. i.uid \in 0 .. reqUid - 1
    BY <1>1, ReqUidBound, AtlasAssumption DEF Addressed, IInv, Requests
  <2> QED
    BY <2>1, ReqUidBound, FragsInDevice DEF IInv
<1>5. b \in Nat /\ BlockOf(i.uid, i2.frag) = b + NumIot
  BY <1>1, <1>2, <1>4 DEF BlockOf
<1> HIDE DEF b, i2
<1>6. i2.frag % NumIot = i.frag % NumIot /\ IotOf(b + NumIot) = IotOf(b)
  <2>1. \A a \in Nat : (a + NumIot) % NumIot = a % NumIot
    <3> TAKE a \in Nat
    <3>1. a + NumIot = a + NumIot * 1
      OBVIOUS
    <3>2. a \in Int /\ 1 \in Int
      OBVIOUS
    <3>3. (a + NumIot * 1) % NumIot = a % NumIot
      BY <3>2, DivModShift
    <3> QED  BY <3>1, <3>3
  <2> QED
    BY <1>1, <1>2, <1>5, <2>1 DEF IotOf
<1>7. b + NumIot \in Blocks => i.off + FragSize = IotOffset(b + NumIot)
  BY <1>5, LoopFollowsStriping DEF Addressed, b
<1>8. Addressed(i2)
  BY <1>1, <1>2, <1>3, <1>5, <1>6, <1>7 DEF Addressed, b
<1> QED
  BY <1>2, <1>3, <1>6, <1>8 DEF i2

LEMMA CommandWellFormed ==
  ASSUME NEW w \in Workers, IInv, pc[w] = "send"
  PROVE  LET i == info[w]
             c == Command(i)
             b == BlockOf(i.uid, i.frag)
         IN  /\ i \in Info /\ Addressed(i)
             /\ c \in Commands /\ c.uid = i.uid /\ c.frag = i.frag
             /\ c.off = IotOffset(b) /\ i.sock = IotOf(b) + 1
             /\ c.type = "WRITE" /\ i.uid \in active /\ i.frag \in Frags(i.uid)
                  => c.data = Payload(i.uid, i.frag)
<1> DEFINE i == info[w]
           c == Command(i)
           b == BlockOf(i.uid, i.frag)
<1>1. /\ i \in Info /\ Addressed(i) /\ b \in Blocks
  BY DEF IInv, TypeOK, HoldersAddressed, SendsInDevice, Busy
<1>2. /\ i.uid \in Requests /\ i.frag \in Nat
      /\ i.type \in {"READ", "WRITE", "DISC"}
  BY <1>1 DEF Info
<1>3. i.uid \in 0 .. reqUid - 1 /\ reqUid \in Nat /\ reqUid <= MaxReqs
  BY <1>1, <1>2, ReqUidBound, AtlasAssumption DEF Addressed, IInv, Requests
<1>4. i.off = IotOffset(b) /\ i.buf = i.frag /\ i.sock = IotOf(b) + 1 /\ i.off \in Offsets
      /\ i.type = nbdReq[i.uid].type
  BY <1>1, OffsetsOfBlocks DEF Addressed
<1>5. \A f \in Frags(i.uid) : f \in Blocks
  BY <1>3, FragsInDevice DEF IInv
<1>6. BytesAt(i.uid, i.buf) \in Values
  <2>1. Junk \in Values
    BY DEF Values
  <2> QED
    BY <1>2, <1>5, <2>1 DEF BytesAt, IInv, TypeOK
<1>7. c = [uid |-> i.uid, frag |-> i.frag, off |-> i.off, type |-> i.type,
           data |-> IF i.type = "WRITE" THEN BytesAt(i.uid, i.buf) ELSE Blank]
  BY DEF Command
<1>8. ASSUME i.type = "WRITE", i.uid \in active, i.frag \in Frags(i.uid)
      PROVE  c.data = Payload(i.uid, i.frag)
  <2>1. i.frag \in Blocks /\ nbdReq[i.uid].type = "WRITE"
    BY <1>4, <1>5, <1>8
  <2>2. dataBuf[i.uid][i.frag] = Payload(i.uid, i.frag)
    BY <1>3, <2>1 DEF IInv, WriteBuffersIntact
  <2>3. BytesAt(i.uid, i.buf) = Payload(i.uid, i.frag)
    BY <1>4, <1>8, <2>2 DEF BytesAt
  <2> QED
    BY <1>7, <1>8, <2>3
<1>9. c \in Commands
  BY <1>2, <1>4, <1>6, <1>7 DEF Commands, Values
<1> QED
  BY <1>1, <1>4, <1>7, <1>8, <1>9

LEMMA SendRequestIInv ==
  ASSUME NEW w \in Workers, IInv, SendRequest(w) PROVE IInv'
<1>0. PICK i : i = info[w]
  OBVIOUS
<1> DEFINE i2 == NextFragment(i)
           c == Command(i)
           s == i.sock
           b == BlockOf(i.uid, i.frag)
<1>1. /\ pc[w] = "send" /\ Busy(w)
      /\ info' = [info EXCEPT ![w] = i2]
      /\ pc' = [pc EXCEPT ![w] = "test"]
      /\ UNCHANGED <<nbdSock, reqVars, tasks, fromIot, store, closed>>
      /\ fault' \in {"none", "null_host", "assert", "stale_read", "sigpipe"}
      /\ toIot' = toIot \/ toIot' = [toIot EXCEPT ![s] = Append(toIot[s], c)]
  BY <1>0 DEF SendRequest, Busy, IInv, TypeOK
<1>2. /\ i \in Info /\ Addressed(i)
      /\ c \in Commands /\ c.uid = i.uid /\ c.frag = i.frag
      /\ c.off = IotOffset(b) /\ s = IotOf(b) + 1
      /\ c.type = "WRITE" /\ i.uid \in active /\ i.frag \in Frags(i.uid)
           => c.data = Payload(i.uid, i.frag)
  BY <1>0, <1>1, CommandWellFormed
<1>3. /\ i2 \in Info /\ i2.uid = i.uid /\ i2.frag = i.frag + NumIot
      /\ i2.frag % NumIot = i.frag % NumIot
      /\ Addressed(i2)
  BY <1>2, NextFragmentAddressed
<1>4. i.frag \in Nat /\ i.uid \in 0 .. reqUid - 1 /\ s \in IotSocks /\ reqUid \in Nat
  BY <1>2, ReqUidBound, AtlasAssumption DEF Info, Addressed, IInv, Requests
<1> HIDE DEF i2, c, s, b
<1>5. /\ info'[w] = i2 /\ Busy(w)' /\ info[w] = i
      /\ \A v \in Workers \ {w} : info'[v] = info[v] /\ pc'[v] = pc[v]
                                 /\ Busy(v)' = Busy(v)
      /\ tasks' = tasks
  BY <1>0, <1>1 DEF IInv, TypeOK, Busy
<1>6. \A n : \A f \in Int : WillSend(i2, n, f) => WillSend(i, n, f)
  BY <1>3, <1>4, StripingAssumption DEF WillSend
<1>7. \A n : \A f \in Int : NotPending(n, f) => NotPending(n, f)'
  BY <1>1, <1>5, <1>6 DEF NotPending
<1>8. NotPending(i.uid, i.frag)'
  <2>1. ~WillSend(i2, i.uid, i.frag)
    BY <1>3, <1>4, StripingAssumption DEF WillSend
  <2>2. \A t \in tasks : ~SameStrand(t, i)
    BY <1>1, <1>5 DEF IInv, OneHolder
  <2>3. \A v \in Workers \ {w} : Busy(v) => ~SameStrand(info[v], i)
    BY <1>1, <1>5 DEF IInv, OneHolder
  <2>4. \A j : WillSend(j, i.uid, i.frag) => SameStrand(j, i)
    BY DEF WillSend, SameStrand
  <2> QED
    BY <1>5, <2>1, <2>2, <2>3, <2>4 DEF NotPending
<1>9. /\ toIot[s] \in Seq(Commands)
      /\ Append(toIot[s], c) \in Seq(Commands)
      /\ \A k \in 1 .. Len(Append(toIot[s], c)) :
           \/ k \in 1 .. Len(toIot[s]) /\ Append(toIot[s], c)[k] = toIot[s][k]
           \/ k = Len(toIot[s]) + 1 /\ Append(toIot[s], c)[k] = c
  <2>1. toIot[s] \in Seq(Commands)
    BY <1>4 DEF IInv, TypeOK
  <2> QED
    BY <1>2, <2>1, AppendElements
<1>10. ASSUME NEW q \in IotSocks, NEW k \in 1 .. Len(toIot'[q])
       PROVE  \/ k \in 1 .. Len(toIot[q]) /\ toIot'[q][k] = toIot[q][k]
              \/ q = s /\ toIot'[q][k] = c
  BY <1>1, <1>9 DEF IInv, TypeOK
<1>11. TypeOK'
  <2>1. pc' \in [Workers -> {"dequeue", "test", "send"}]
    BY <1>1 DEF IInv, TypeOK
  <2>2. /\ info' \in [Workers -> Info \cup {NoInfo}]
        /\ \A v \in Workers : info'[v] \in IF Busy(v)' THEN Info ELSE {NoInfo}
    BY <1>1, <1>3, <1>5 DEF IInv, TypeOK
  <2>3. toIot' \in [IotSocks -> Seq(Commands)]
    BY <1>1, <1>9 DEF IInv, TypeOK
  <2> QED
    BY <1>1, <2>1, <2>2, <2>3 DEF IInv, TypeOK, Issued, Frags, reqVars
<1>12. OneHolder'
  <2>1. \A j : (SameStrand(j, i2) => SameStrand(j, i)) /\ (SameStrand(i2, j) => SameStrand(i, j))
    BY <1>3 DEF SameStrand
  <2> QED
    BY <1>1, <1>5, <2>1 DEF IInv, OneHolder
<1>13. HoldersAddressed'
  <2>1. \A j : Addressed(j) => Addressed(j)'
    BY <1>1 DEF Addressed, BlockOf, reqVars
  <2> QED
    BY <1>3, <1>5, <2>1 DEF IInv, HoldersAddressed
<1>14. SendsInDevice'
  <2>1. pc'[w] = "test"
    BY <1>1 DEF IInv, TypeOK
  <2> QED
    BY <1>1, <1>5, <2>1 DEF IInv, SendsInDevice, BlockOf, reqVars
<1>15. SentOnce'
  <2>1. ASSUME NEW q \in IotSocks, NEW k \in 1 .. Len(toIot'[q]), NEW m, m = toIot'[q][k]
        PROVE  m.uid < reqUid /\ NotPending(m.uid, m.frag)'
    <3>1. CASE k \in 1 .. Len(toIot[q]) /\ m = toIot[q][k]
      <4>1. m.frag \in Int
        <5>1. toIot[q] \in Seq(Commands)
          BY DEF IInv, TypeOK
        <5>2. m \in Commands
          BY <3>1, <5>1
        <5> QED  BY <5>2 DEF Commands
      <4> QED
        BY <1>7, <3>1, <4>1 DEF IInv, SentOnce, Sent
    <3>2. CASE m = c
      BY <1>2, <1>4, <1>8, <3>2
    <3> QED  BY <1>10, <2>1, <3>1, <3>2
  <2>2. ASSUME NEW q \in IotSocks, NEW k \in 1 .. Len(fromIot[q]), NEW m, m = fromIot[q][k]
        PROVE  m.uid < reqUid /\ NotPending(m.uid, m.frag)'
    <3>1. m.frag \in Int
      <4>1. fromIot[q] \in Seq(Answers)
        BY DEF IInv, TypeOK
      <4>2. m \in Answers
        BY <2>2, <4>1
      <4> QED  BY <4>2 DEF Answers
    <3> QED
      BY <1>7, <2>2, <3>1 DEF IInv, SentOnce, Sent
  <2> QED
    BY <1>1, <2>1, <2>2 DEF SentOnce, Sent, reqVars
<1>16. AcknowledgedOnce'
  <2>1. \A n \in 0 .. reqUid - 1 : \A f \in Frags(n) : f \in Int
    BY <1>4, ReqUidBound, FragsInDevice DEF IInv
  <2> QED
    BY <1>1, <1>7, <2>1 DEF IInv, AcknowledgedOnce, Frags, reqVars
<1>17. CommandsAddressed'
  <2>1. ASSUME i.frag \in Frags(i.uid) PROVE i.uid \in active
    <3>1. fragSet[i.uid] # {}
      <4>1. ~NotPending(i.uid, i.frag)
        BY <1>1, <1>4, <1>5 DEF NotPending, WillSend
      <4> QED
        BY <1>4, <2>1, <4>1 DEF IInv, AcknowledgedOnce
    <3> QED
      BY <1>4, <3>1 DEF IInv, ReleasedWhenDone
  <2>2. ASSUME NEW q \in IotSocks, NEW k \in 1 .. Len(toIot'[q]), toIot'[q][k] = c, q = s,
               c.frag \in Frags(c.uid)
        PROVE  /\ q = IotOf(FirstFrag(nbdReq[c.uid].offset) + c.frag) + 1
               /\ c.off = IotOffset(FirstFrag(nbdReq[c.uid].offset) + c.frag)
               /\ c.type = "WRITE" => c.data = Payload(c.uid, c.frag)
    BY <1>2, <2>1, <2>2 DEF b, BlockOf
  <2> QED
    BY <1>1, <1>10, <2>2, SMTT(30) DEF IInv, CommandsAddressed, Frags, reqVars
<1>18. RequestsAreShapes' /\ ReleasedWhenDone' /\ WriteBuffersIntact'
  BY <1>1 DEF IInv, RequestsAreShapes, ReleasedWhenDone, WriteBuffersIntact, reqVars
<1> QED
  BY <1>11, <1>12, <1>13, <1>14, <1>15, <1>16, <1>17, <1>18 DEF IInv

----------------------------------------------------------------------------
(* The invariant is inductive.                                               *)

LEMMA StutterIInv == IInv /\ UNCHANGED vars => IInv'
<1> SUFFICES ASSUME IInv, UNCHANGED vars PROVE IInv'
  OBVIOUS
<1>1. UNCHANGED <<nbdSock, reqVars, workerVars, iotVars, closed, fault>>
  BY DEF vars, reqVars, workerVars, iotVars
<1>2. TypeOK'
  BY <1>1 DEF IInv, TypeOK, reqVars, workerVars, iotVars, Busy, Frags, Issued
<1>3. SentOnce' /\ CommandsAddressed'
  BY <1>1, UnchangedHolders
     DEF IInv, SentOnce, Sent, CommandsAddressed, iotVars, reqVars, Frags
<1> QED
  BY <1>1, <1>2, <1>3, UnchangedHolders DEF IInv

LEMMA NextIInv == IInv /\ [Next]_vars => IInv'
<1> SUFFICES ASSUME IInv, [Next]_vars PROVE IInv'
  OBVIOUS
<1>1. CASE ReactorStep
  BY <1>1, NbdRequestsHandleIInv, IotHandleIInv, IotHandleUnknownIInv, RecvClosedIInv
     DEF ReactorStep
<1>2. CASE \E w \in Workers : WorkerStep(w)
  BY <1>2, DequeueIInv, LoopTestIInv, StaleLoopTestIInv, SendRequestIInv DEF WorkerStep
<1>3. CASE EnvironmentStep
  BY <1>3, KernelIssuesIInv, PeerClosesIInv, IotServesIInv DEF EnvironmentStep
<1>4. CASE Quiet
  BY <1>4, StutterIInv DEF Quiet
<1>5. CASE UNCHANGED vars
  BY <1>5, StutterIInv
<1> QED
  BY <1>1, <1>2, <1>3, <1>4, <1>5 DEF Next

(* In every reachable state each strand of a request is in one pair of hands *)
(* and nothing acknowledged or in flight will be sent again.                 *)
THEOREM Invariance == Spec => []IInv
<1>1. Init => IInv
  BY InitIInv
<1>2. IInv /\ [Next]_vars => IInv'
  BY NextIInv
<1> QED
  BY <1>1, <1>2, PTL DEF Spec

(* The variables keep their types: the nodes are only addressed at offsets   *)
(* of the device, requests await only their own fragments and are answered   *)
(* at most once.                                                             *)
THEOREM TypeCorrect == Spec => []TypeOK
<1>1. IInv => TypeOK
  BY DEF IInv
<1> QED
  BY <1>1, Invariance, PTL

LEMMA IInvReleaseIsLate == IInv => StaleOnlyAtLastTest
<1> SUFFICES ASSUME IInv, NEW w \in Workers, Busy(w), info[w].uid \notin active,
                    info[w].frag \in Frags(info[w].uid)
             PROVE  FALSE
  BY DEF StaleOnlyAtLastTest
<1>1. info[w].uid \in 0 .. reqUid - 1 /\ info[w].frag \in Nat
  <2>1. info[w] \in Info /\ Addressed(info[w])
    BY DEF IInv, TypeOK, HoldersAddressed
  <2> QED
    BY <2>1, ReqUidBound, AtlasAssumption DEF Info, Addressed, IInv, Requests
<1>2. fragSet[info[w].uid] = {}
  BY <1>1 DEF IInv, ReleasedWhenDone
<1>3. NotPending(info[w].uid, info[w].frag)
  BY <1>1, <1>2 DEF IInv, AcknowledgedOnce
<1> QED
  BY <1>1, <1>3 DEF NotPending, WillSend

(* NbdRequestDone and m_activeRequests.erase free what the workers' loop     *)
(* tests read, but a worker that is overtaken has only its last test to do:  *)
(* for any number of workers, nodes and requests, whatever the freed memory  *)
(* reads as.                                                                 *)
THEOREM ReleaseIsLate == Spec => []StaleOnlyAtLastTest
BY IInvReleaseIsLate, Invariance, PTL

(* Every command on its way to a node carries the node, the offset and, for  *)
(* a WRITE, the bytes of its own fragment: for any fragment size and number  *)
(* of nodes, and for every device that uint32_t can address.                 *)
THEOREM CommandsReachTheirBlock == Spec => []CommandsAddressed
<1>1. IInv => CommandsAddressed
  BY DEF IInv
<1> QED
  BY <1>1, Invariance, PTL

----------------------------------------------------------------------------
(* Where a fragment is.                                                      *)

PlacesAt(n, f) ==
  /\ \A t : <<"task", t, 0>> \in Places(n, f) <=> t \in tasks /\ WillSend(t, n, f)
  /\ \A w : <<"worker", w, 0>> \in Places(n, f) <=>
             w \in Workers /\ Busy(w) /\ WillSend(info[w], n, f)
  /\ \A s, k : <<"command", s, k>> \in Places(n, f) <=>
             s \in IotSocks /\ k \in Mentions(toIot[s], n, f)
  /\ \A s, k : <<"reply", s, k>> \in Places(n, f) <=>
             s \in IotSocks /\ k \in Mentions(fromIot[s], n, f)
  /\ \A p \in Places(n, f) :
       \/ \E t \in tasks : p = <<"task", t, 0>>
       \/ \E w \in Workers : p = <<"worker", w, 0>>
       \/ \E s \in IotSocks : \E k \in Mentions(toIot[s], n, f) : p = <<"command", s, k>>
       \/ \E s \in IotSocks : \E k \in Mentions(fromIot[s], n, f) : p = <<"reply", s, k>>

LEMMA PlacesElements == \A n, f : PlacesAt(n, f)
<1> TAKE n, f
<1> DEFINE T == {<<"task", t, 0>> : t \in {t \in tasks : WillSend(t, n, f)}}
           W == {<<"worker", w, 0>> : w \in {w \in Workers : Busy(w) /\ WillSend(info[w], n, f)}}
           C == UNION {{<<"command", s, k>> : k \in Mentions(toIot[s], n, f)} : s \in IotSocks}
           R == UNION {{<<"reply", s, k>> : k \in Mentions(fromIot[s], n, f)} : s \in IotSocks}
<1>1. Places(n, f) = T \cup W \cup C \cup R
  BY DEF Places
<1>2. /\ \A p \in T : p[1] = "task" /\ p = <<"task", p[2], 0>>
            /\ p[2] \in tasks /\ WillSend(p[2], n, f)
      /\ \A t : t \in tasks /\ WillSend(t, n, f) => <<"task", t, 0>> \in T
  OBVIOUS
<1>3. /\ \A p \in W : p[1] = "worker" /\ p = <<"worker", p[2], 0>>
            /\ p[2] \in Workers /\ Busy(p[2]) /\ WillSend(info[p[2]], n, f)
      /\ \A w : w \in Workers /\ Busy(w) /\ WillSend(info[w], n, f) => <<"worker", w, 0>> \in W
  OBVIOUS
<1>4. /\ \A p \in C : p[1] = "command" /\ p = <<"command", p[2], p[3]>>
            /\ p[2] \in IotSocks /\ p[3] \in Mentions(toIot[p[2]], n, f)
      /\ \A s, k : s \in IotSocks /\ k \in Mentions(toIot[s], n, f) => <<"command", s, k>> \in C
  OBVIOUS
<1>5. /\ \A p \in R : p[1] = "reply" /\ p = <<"reply", p[2], p[3]>>
            /\ p[2] \in IotSocks /\ p[3] \in Mentions(fromIot[p[2]], n, f)
      /\ \A s, k : s \in IotSocks /\ k \in Mentions(fromIot[s], n, f) => <<"reply", s, k>> \in R
  OBVIOUS
<1> HIDE DEF T, W, C, R
<1>6. \A t : <<"task", t, 0>> \in Places(n, f) <=> t \in tasks /\ WillSend(t, n, f)
  BY <1>1, <1>2, <1>3, <1>4, <1>5
<1>7. \A w : <<"worker", w, 0>> \in Places(n, f) <=>
              w \in Workers /\ Busy(w) /\ WillSend(info[w], n, f)
  BY <1>1, <1>2, <1>3, <1>4, <1>5
<1>8. \A s, k : <<"command", s, k>> \in Places(n, f) <=>
              s \in IotSocks /\ k \in Mentions(toIot[s], n, f)
  BY <1>1, <1>2, <1>3, <1>4, <1>5
<1>9. \A s, k : <<"reply", s, k>> \in Places(n, f) <=>
              s \in IotSocks /\ k \in Mentions(fromIot[s], n, f)
  BY <1>1, <1>2, <1>3, <1>4, <1>5
<1>10. ASSUME NEW p \in Places(n, f)
       PROVE  \/ \E t \in tasks : p = <<"task", t, 0>>
              \/ \E w \in Workers : p = <<"worker", w, 0>>
              \/ \E s \in IotSocks : \E k \in Mentions(toIot[s], n, f) : p = <<"command", s, k>>
              \/ \E s \in IotSocks : \E k \in Mentions(fromIot[s], n, f) : p = <<"reply", s, k>>
  <2>1. CASE p \in T
    BY <1>2, <2>1
  <2>2. CASE p \in W
    BY <1>3, <2>2
  <2>3. CASE p \in C
    BY <1>4, <2>3
  <2>4. CASE p \in R
    BY <1>5, <2>4
  <2> QED
    BY <1>1, <2>1, <2>2, <2>3, <2>4
<1> QED
  BY <1>6, <1>7, <1>8, <1>9, <1>10 DEF PlacesAt

LEMMA PlacesElementsNext == (\A n, f : PlacesAt(n, f))'
BY PlacesElements, PTL

(* Places that move one to one keep a fragment accounted for.                *)
LEMMA MovedAccounted ==
  ASSUME NEW n, NEW f, NEW G, Accounted(n, f),
         f \in fragSet'[n] <=> f \in fragSet[n], closed # {} => closed' # {},
         \A p \in Places(n, f) : G[p] \in Places(n, f)',
         \A q \in Places(n, f)' : \E p \in Places(n, f) : q = G[p]
  PROVE  Accounted(n, f)'
<1> DEFINE A == Places(n, f)
           B == Places(n, f)'
<1>1. A = {} => B = {}
  OBVIOUS
<1>2. ASSUME NEW p \in A, A = {p} PROVE \E q \in B : B = {q}
  <2>1. B = {G[p]}
    BY <1>2
  <2> QED
    BY <2>1
<1> HIDE DEF A, B
<1>3. IF f \notin fragSet[n] THEN A = {}
      ELSE (\E p \in A : A = {p}) \/ (A = {} /\ closed # {})
  BY DEF Accounted, A
<1>4. IF f \notin fragSet'[n] THEN B = {}
      ELSE (\E q \in B : B = {q}) \/ (B = {} /\ closed' # {})
  BY <1>1, <1>2, <1>3
<1> QED
  BY <1>4 DEF Accounted, B

LEMMA SameAccounted ==
  ASSUME NEW n, NEW f, Accounted(n, f), Places(n, f)' = Places(n, f),
         f \in fragSet'[n] <=> f \in fragSet[n], closed # {} => closed' # {}
  PROVE  Accounted(n, f)'
BY DEF Accounted

(* A fragment is never in two places, and in none once it is acknowledged.   *)
LEMMA OnlyPlace ==
  ASSUME NEW n, NEW f, Accounted(n, f), NEW p \in Places(n, f)
  PROVE  f \in fragSet[n] /\ Places(n, f) = {p}
BY DEF Accounted

LEMMA SamePlaces ==
  ASSUME NEW n, NEW f, UNCHANGED <<tasks, toIot, fromIot>>,
         \A w \in Workers : (Busy(w) /\ WillSend(info[w], n, f))' <=>
                            (Busy(w) /\ WillSend(info[w], n, f))
  PROVE  Places(n, f)' = Places(n, f)
<1>1. {w \in Workers : Busy(w)' /\ WillSend(info'[w], n, f)} =
      {w \in Workers : Busy(w) /\ WillSend(info[w], n, f)}
  BY DEF WillSend
<1>2. \A s : Mentions(toIot'[s], n, f) = Mentions(toIot[s], n, f)
           /\ Mentions(fromIot'[s], n, f) = Mentions(fromIot[s], n, f)
  OBVIOUS
<1>3. {t \in tasks' : WillSend(t, n, f)} = {t \in tasks : WillSend(t, n, f)}
  OBVIOUS
<1> QED
  BY <1>1, <1>2, <1>3 DEF Places

(* Steps that move no fragment.                                              *)
LEMMA NoMoveAccounts ==
  ASSUME FragmentsAccountedFor, UNCHANGED <<reqUid, nbdReq, fragSet, tasks, toIot, fromIot>>,
         closed # {} => closed' # {},
         \A n \in 0 .. reqUid - 1 : \A f \in Frags(n) : \A w \in Workers :
           (Busy(w) /\ WillSend(info[w], n, f))' <=> (Busy(w) /\ WillSend(info[w], n, f))
  PROVE  FragmentsAccountedFor'
<1> SUFFICES ASSUME NEW n \in (0 .. reqUid - 1)', NEW f \in Frags(n)'
             PROVE  Accounted(n, f)'
  BY DEF FragmentsAccountedFor
<1>1. n \in 0 .. reqUid - 1 /\ f \in Frags(n)
  BY DEF Frags
<1>2. Places(n, f)' = Places(n, f)
  BY <1>1, SamePlaces
<1> QED
  BY <1>1, <1>2, SameAccounted DEF FragmentsAccountedFor

LEMMA TailMentions ==
  ASSUME NEW S, NEW q \in Seq(S), q # <<>>, NEW n, NEW f
  PROVE  /\ \A k : k \in Mentions(Tail(q), n, f) <=>
                    k \in Nat \ {0} /\ k + 1 \in Mentions(q, n, f)
         /\ \A k \in Mentions(q, n, f) \ {1} : k \in Nat /\ k - 1 \in Mentions(Tail(q), n, f)
<1>1. /\ Tail(q) \in Seq(S) /\ Len(q) \in Nat /\ Len(Tail(q)) = Len(q) - 1
      /\ \A k \in 1 .. Len(Tail(q)) : Tail(q)[k] = q[k + 1]
  OBVIOUS
<1>2. \A k : k \in Mentions(Tail(q), n, f) <=> k \in Nat \ {0} /\ k + 1 \in Mentions(q, n, f)
  BY <1>1 DEF Mentions
<1>3. ASSUME NEW k \in Mentions(q, n, f) \ {1}
      PROVE  k \in Nat /\ k - 1 \in Mentions(Tail(q), n, f)
  <2>1. k \in 1 .. Len(q) /\ k # 1
    BY DEF Mentions
  <2>2. k - 1 \in Nat \ {0} /\ (k - 1) + 1 = k
    BY <1>1, <2>1
  <2> QED
    BY <1>2, <2>1, <2>2
<1> QED
  BY <1>2, <1>3

LEMMA AppendMentions ==
  ASSUME NEW S, NEW q \in Seq(S), NEW e \in S, NEW n, NEW f
  PROVE  \A k : k \in Mentions(Append(q, e), n, f) <=>
              \/ k \in Mentions(q, n, f)
              \/ k = Len(q) + 1 /\ e.uid = n /\ e.frag = f
BY DEF Mentions

(* A reply is taken from a socket.                                           *)
LEMMA TakenReplyAccounts ==
  ASSUME NEW s \in IotSocks, NEW n, NEW f, TypeOK, Accounted(n, f), fromIot[s] # <<>>,
         fromIot' = [fromIot EXCEPT ![s] = Tail(fromIot[s])],
         UNCHANGED <<workerVars, toIot, closed>>,
         1 \notin Mentions(fromIot[s], n, f),
         f \in fragSet'[n] <=> f \in fragSet[n]
  PROVE  Accounted(n, f)'
<1> DEFINE G == [p \in Places(n, f) |->
                  IF p[1] = "reply" /\ p[2] = s THEN <<"reply", s, p[3] - 1>> ELSE p]
<1>1. fromIot[s] \in Seq(Answers) /\ fromIot'[s] = Tail(fromIot[s])
  BY DEF TypeOK
<1>2. /\ \A k : k \in Mentions(fromIot'[s], n, f) <=>
               k \in Nat \ {0} /\ k + 1 \in Mentions(fromIot[s], n, f)
      /\ \A k \in Mentions(fromIot[s], n, f) :
           k \in Nat /\ k - 1 \in Mentions(fromIot'[s], n, f)
  BY <1>1, TailMentions
<1>3. \A i \in IotSocks \ {s} : fromIot'[i] = fromIot[i]
  BY DEF TypeOK
<1>4. \A w : Busy(w)' = Busy(w) /\ info'[w] = info[w]
  BY DEF Busy, workerVars
<1>6. ASSUME NEW p \in Places(n, f) PROVE G[p] \in Places(n, f)'
  <2>1. CASE \E k \in Mentions(fromIot[s], n, f) : p = <<"reply", s, k>>
    BY <1>2, <2>1, PlacesElements, PlacesElementsNext DEF PlacesAt
  <2>2. CASE \E i \in IotSocks \ {s} : \E k \in Mentions(fromIot[i], n, f) : p = <<"reply", i, k>>
    BY <1>3, <2>2, PlacesElements, PlacesElementsNext DEF PlacesAt
  <2>3. CASE \E i \in IotSocks : \E k \in Mentions(toIot[i], n, f) : p = <<"command", i, k>>
    BY <2>3, PlacesElements, PlacesElementsNext DEF PlacesAt
  <2>4. CASE \E w \in Workers : p = <<"worker", w, 0>>
    BY <1>4, <2>4, PlacesElements, PlacesElementsNext DEF PlacesAt
  <2>5. CASE \E t \in tasks : p = <<"task", t, 0>>
    BY <2>5, PlacesElements, PlacesElementsNext DEF PlacesAt, workerVars
  <2> QED
    BY <2>1, <2>2, <2>3, <2>4, <2>5, PlacesElements, PlacesElementsNext DEF PlacesAt
<1>7. ASSUME NEW q \in Places(n, f)' PROVE \E p \in Places(n, f) : q = G[p]
  <2>1. CASE \E k \in Mentions(fromIot'[s], n, f) : q = <<"reply", s, k>>
    <3>1. PICK k \in Mentions(fromIot'[s], n, f) : q = <<"reply", s, k>>
      BY <2>1
    <3>2. k \in Nat /\ <<"reply", s, k + 1>> \in Places(n, f)
      BY <1>2, <3>1, PlacesElements, PlacesElementsNext DEF PlacesAt
    <3>3. G[<<"reply", s, k + 1>>] = q
      BY <3>1, <3>2
    <3> QED
      BY <3>2, <3>3
  <2>2. CASE q \in Places(n, f) /\ ~(q[1] = "reply" /\ q[2] = s)
    BY <2>2
  <2>3. CASE \E i \in IotSocks \ {s} : \E k \in Mentions(fromIot'[i], n, f) : q = <<"reply", i, k>>
    BY <1>3, <2>2, <2>3, PlacesElements, PlacesElementsNext DEF PlacesAt
  <2>4. CASE \E i \in IotSocks : \E k \in Mentions(toIot'[i], n, f) : q = <<"command", i, k>>
    BY <2>2, <2>4, PlacesElements, PlacesElementsNext DEF PlacesAt
  <2>5. CASE \E w \in Workers : q = <<"worker", w, 0>>
    <3>1. PICK w \in Workers : q = <<"worker", w, 0>> /\ Busy(w)' /\ WillSend(info'[w], n, f)
      BY <2>5, PlacesElementsNext DEF PlacesAt
    <3>2. q \in Places(n, f) /\ q[1] = "worker"
      BY <1>4, <3>1, PlacesElements DEF PlacesAt
    <3> QED
      BY <2>2, <3>2
  <2>6. CASE \E t \in tasks' : q = <<"task", t, 0>>
    BY <2>2, <2>6, PlacesElements, PlacesElementsNext DEF PlacesAt, workerVars
  <2> QED
    BY <2>1, <2>3, <2>4, <2>5, <2>6, PlacesElements, PlacesElementsNext DEF PlacesAt
<1> HIDE DEF G
<1> QED
  BY <1>6, <1>7, MovedAccounted

LEMMA IotServesAccounts ==
  ASSUME NEW s \in IotSocks, FullInv, IotServes(s) PROVE FragmentsAccountedFor'
<1> SUFFICES ASSUME NEW n \in (0 .. reqUid - 1)', NEW f \in Frags(n)'
             PROVE  Accounted(n, f)'
  BY DEF FragmentsAccountedFor
<1>0. PICK m : m = Head(toIot[s])
  OBVIOUS
<1>1. PICK a : a = [uid |-> m.uid, frag |-> m.frag,
                    data |-> IF m.type = "READ" THEN store[s][m.off] ELSE Blank]
  OBVIOUS
<1>2. /\ toIot[s] \in Seq(Commands) /\ fromIot[s] \in Seq(Answers) /\ toIot[s] # <<>>
      /\ toIot' = [toIot EXCEPT ![s] = Tail(toIot[s])]
      /\ fromIot' = [fromIot EXCEPT ![s] = Append(fromIot[s], a)]
      /\ UNCHANGED <<reqVars, workerVars, closed>>
  BY <1>0, <1>1 DEF IotServes, FullInv, IInv, TypeOK
<1>3. Accounted(n, f)
  BY <1>2 DEF FullInv, Accounts, FragmentsAccountedFor, Frags, reqVars
<1>4. /\ toIot'[s] = Tail(toIot[s]) /\ fromIot'[s] = Append(fromIot[s], a)
      /\ \A i \in IotSocks \ {s} : toIot'[i] = toIot[i] /\ fromIot'[i] = fromIot[i]
  BY <1>2 DEF FullInv, IInv, TypeOK
<1>5. m \in Commands /\ m = toIot[s][1] /\ 1 \in 1 .. Len(toIot[s])
  BY <1>0, <1>2, TailElements
<1>6. a \in Answers /\ a.uid = m.uid /\ a.frag = m.frag
  <2>1. /\ \A x \in Commands : x.off \in Offsets /\ x.uid \in Requests /\ x.frag \in Nat
        /\ Blank \in Values
    BY DEF Commands, Values
  <2>2. m.type = "READ" => store[s][m.off] \in Values
    BY <1>5, <2>1 DEF FullInv, IInv, TypeOK
  <2> QED
    BY <1>1, <1>5, <2>1, <2>2 DEF Answers
<1>7. 1 \in Mentions(toIot[s], n, f) <=> m.uid = n /\ m.frag = f
  BY <1>5 DEF Mentions
<1>8. /\ \A k : k \in Mentions(toIot'[s], n, f) <=>
               k \in Nat \ {0} /\ k + 1 \in Mentions(toIot[s], n, f)
      /\ \A k \in Mentions(toIot[s], n, f) \ {1} :
           k \in Nat /\ k - 1 \in Mentions(toIot'[s], n, f)
  BY <1>2, <1>4, TailMentions
<1>9. \A k : k \in Mentions(fromIot'[s], n, f) <=>
             \/ k \in Mentions(fromIot[s], n, f)
             \/ k = Len(fromIot[s]) + 1 /\ 1 \in Mentions(toIot[s], n, f)
  <2>1. \A k : k \in Mentions(Append(fromIot[s], a), n, f) <=>
             \/ k \in Mentions(fromIot[s], n, f)
             \/ k = Len(fromIot[s]) + 1 /\ a.uid = n /\ a.frag = f
    BY <1>2, <1>6, AppendMentions
  <2> QED
    BY <1>4, <1>6, <1>7, <2>1
<1>10. \A w : Busy(w)' = Busy(w) /\ info'[w] = info[w]
  BY <1>2 DEF Busy, workerVars
<1> DEFINE new == <<"reply", s, Len(fromIot[s]) + 1>>
           G == [p \in Places(n, f) |->
                  IF ~(p[1] = "command" /\ p[2] = s) THEN p
                  ELSE IF p[3] = 1 THEN new ELSE <<"command", s, p[3] - 1>>]
<1>11. ASSUME NEW p \in Places(n, f) PROVE G[p] \in Places(n, f)'
  <2>1. CASE p = <<"command", s, 1>>
    <3>1. G[p] = new /\ 1 \in Mentions(toIot[s], n, f)
      BY <2>1, PlacesElements DEF PlacesAt
    <3>2. Len(fromIot[s]) + 1 \in Mentions(fromIot'[s], n, f)
      BY <1>9, <3>1
    <3> QED
      BY <3>1, <3>2, PlacesElementsNext DEF PlacesAt
  <2>2. CASE \E k \in Mentions(toIot[s], n, f) \ {1} : p = <<"command", s, k>>
    BY <1>8, <2>2, PlacesElementsNext DEF PlacesAt
  <2>3. CASE \E i \in IotSocks \ {s} : \E k \in Mentions(toIot[i], n, f) : p = <<"command", i, k>>
    BY <1>4, <2>3, PlacesElementsNext DEF PlacesAt
  <2>4. CASE \E i \in IotSocks : \E k \in Mentions(fromIot[i], n, f) : p = <<"reply", i, k>>
    <3>1. PICK i \in IotSocks : \E k \in Mentions(fromIot[i], n, f) : p = <<"reply", i, k>>
      BY <2>4
    <3>2. PICK k \in Mentions(fromIot[i], n, f) : p = <<"reply", i, k>>
      BY <3>1
    <3>3. k \in Mentions(fromIot'[i], n, f)
      BY <1>4, <1>9, <3>2
    <3>4. G[p] = p
      BY <3>2
    <3> QED
      BY <3>2, <3>3, <3>4, PlacesElementsNext DEF PlacesAt
  <2>5. CASE \E w \in Workers : p = <<"worker", w, 0>>
    BY <1>10, <2>5, PlacesElements, PlacesElementsNext DEF PlacesAt
  <2>6. CASE \E t \in tasks : p = <<"task", t, 0>>
    BY <1>2, <2>6, PlacesElements, PlacesElementsNext DEF PlacesAt, workerVars
  <2> QED
    BY <2>1, <2>2, <2>3, <2>4, <2>5, <2>6, PlacesElements DEF PlacesAt
<1>12. ASSUME NEW q \in Places(n, f)' PROVE \E p \in Places(n, f) : q = G[p]
  <2>1. CASE \E k \in Mentions(toIot'[s], n, f) : q = <<"command", s, k>>
    <3>1. PICK k \in Mentions(toIot'[s], n, f) : q = <<"command", s, k>>
      BY <2>1
    <3>2. k \in Nat \ {0} /\ <<"command", s, k + 1>> \in Places(n, f)
      BY <1>8, <3>1, PlacesElements DEF PlacesAt
    <3>3. G[<<"command", s, k + 1>>] = q
      BY <3>1, <3>2
    <3> QED
      BY <3>2, <3>3
  <2>2. CASE q = new /\ 1 \in Mentions(toIot[s], n, f)
    <3>1. <<"command", s, 1>> \in Places(n, f)
      BY <2>2, PlacesElements DEF PlacesAt
    <3>2. G[<<"command", s, 1>>] = q
      BY <2>2, <3>1
    <3> QED
      BY <3>1, <3>2
  <2>3. CASE q \in Places(n, f) /\ ~(q[1] = "command" /\ q[2] = s)
    BY <2>3
  <2>4. CASE \E i \in IotSocks \ {s} : \E k \in Mentions(toIot'[i], n, f) : q = <<"command", i, k>>
    <3>1. q \in Places(n, f) /\ q[2] # s
      BY <1>4, <2>4, PlacesElements DEF PlacesAt
    <3> QED
      BY <2>3, <3>1
  <2>5. CASE \E i \in IotSocks : \E k \in Mentions(fromIot[i], n, f) : q = <<"reply", i, k>>
    <3>1. q \in Places(n, f) /\ q[1] = "reply"
      BY <2>5, PlacesElements DEF PlacesAt
    <3> QED
      BY <2>3, <3>1
  <2>6. CASE \E i \in IotSocks : \E k \in Mentions(fromIot'[i], n, f) : q = <<"reply", i, k>>
    <3>0. PICK i \in IotSocks : \E k \in Mentions(fromIot'[i], n, f) : q = <<"reply", i, k>>
      BY <2>6
    <3>1. PICK k \in Mentions(fromIot'[i], n, f) : q = <<"reply", i, k>>
      BY <3>0
    <3>2. CASE k \in Mentions(fromIot[i], n, f)
      BY <2>5, <3>1, <3>2
    <3>3. CASE k \notin Mentions(fromIot[i], n, f)
      <4>1. i = s
        BY <1>4, <3>1, <3>3
      <4>2. q = new /\ 1 \in Mentions(toIot[s], n, f)
        BY <1>9, <3>1, <3>3, <4>1
      <4> QED
        BY <2>2, <4>2
    <3> QED
      BY <3>2, <3>3
  <2>7. CASE \E w \in Workers : q = <<"worker", w, 0>>
    <3>1. PICK w \in Workers : q = <<"worker", w, 0>> /\ Busy(w)' /\ WillSend(info'[w], n, f)
      BY <2>7, PlacesElementsNext DEF PlacesAt
    <3>2. q \in Places(n, f) /\ q[1] = "worker"
      BY <1>10, <3>1, PlacesElements DEF PlacesAt
    <3> QED
      BY <2>3, <3>2
  <2>8. CASE \E t \in tasks' : q = <<"task", t, 0>>
    <3>1. q \in Places(n, f) /\ q[1] = "task"
      BY <1>2, <2>8, PlacesElements, PlacesElementsNext DEF PlacesAt, workerVars
    <3> QED
      BY <2>3, <3>1
  <2> QED
    BY <2>1, <2>4, <2>6, <2>7, <2>8, PlacesElementsNext DEF PlacesAt
<1> HIDE DEF G
<1> QED
  BY <1>2, <1>3, <1>11, <1>12, MovedAccounted DEF reqVars

LEMMA IotHandleAccounts ==
  ASSUME NEW s \in IotSocks, FullInv, IotHandle(s) PROVE FragmentsAccountedFor'
<1> SUFFICES ASSUME NEW n \in (0 .. reqUid - 1)', NEW f \in Frags(n)'
             PROVE  Accounted(n, f)'
  BY DEF FragmentsAccountedFor
<1>0. PICK m : m = Head(fromIot[s])
  OBVIOUS
<1>1. /\ fromIot[s] # <<>> /\ m.uid \in active
      /\ fragSet' = [fragSet EXCEPT ![m.uid] = fragSet[m.uid] \ {m.frag}]
      /\ fromIot' = [fromIot EXCEPT ![s] = Tail(fromIot[s])]
      /\ UNCHANGED <<reqUid, nbdReq, workerVars, toIot, closed>>
  BY <1>0 DEF IotHandle, ReadReply
<1>2. /\ fromIot[s] \in Seq(Answers) /\ m = fromIot[s][1] /\ 1 \in 1 .. Len(fromIot[s])
      /\ m \in Answers /\ m.uid \in Requests /\ n \in Requests /\ TypeOK
  <2>1. TypeOK /\ fromIot[s] \in Seq(Answers)
    BY DEF FullInv, IInv, TypeOK
  <2>2. m = fromIot[s][1] /\ 1 \in 1 .. Len(fromIot[s]) /\ m \in Answers
    BY <1>0, <1>1, <2>1, TailElements
  <2>3. n \in Requests
    BY <1>1, <2>1, ReqUidBound, AtlasAssumption DEF Requests
  <2> QED
    BY <2>1, <2>2, <2>3 DEF Answers
<1>3. Accounted(n, f)
  BY <1>1 DEF FullInv, Accounts, FragmentsAccountedFor, Frags
<1>4. 1 \in Mentions(fromIot[s], n, f) <=> m.uid = n /\ m.frag = f
  BY <1>2 DEF Mentions
<1>5. CASE ~(m.uid = n /\ m.frag = f)
  <2>1. f \in fragSet'[n] <=> f \in fragSet[n]
    BY <1>1, <1>2, <1>5 DEF TypeOK
  <2> QED
    BY <1>1, <1>2, <1>3, <1>4, <1>5, <2>1, TakenReplyAccounts
<1>6. CASE m.uid = n /\ m.frag = f
  <2>1. <<"reply", s, 1>> \in Places(n, f)
    BY <1>4, <1>6, PlacesElements DEF PlacesAt
  <2>2. Places(n, f) = {<<"reply", s, 1>>}
    BY <1>3, <2>1, OnlyPlace
  <2>3. f \notin fragSet'[n]
    BY <1>1, <1>2, <1>6 DEF TypeOK
  <2>4. /\ \A k : k \in Mentions(fromIot'[s], n, f) =>
                 k \in Nat \ {0} /\ k + 1 \in Mentions(fromIot[s], n, f)
        /\ \A i \in IotSocks \ {s} : fromIot'[i] = fromIot[i]
    <3>1. fromIot'[s] = Tail(fromIot[s])
      BY <1>1, <1>2 DEF TypeOK
    <3> QED
      BY <1>1, <1>2, <3>1, TailMentions DEF TypeOK
  <2>5. \A w : Busy(w)' = Busy(w) /\ info'[w] = info[w]
    BY <1>1 DEF Busy, workerVars
  <2>6. ASSUME NEW q \in Places(n, f)' PROVE FALSE
    <3>1. CASE \E k \in Mentions(fromIot'[s], n, f) : q = <<"reply", s, k>>
      <4>1. PICK k \in Nat \ {0} : <<"reply", s, k + 1>> \in Places(n, f)
        BY <2>4, <3>1, PlacesElements DEF PlacesAt
      <4> QED
        BY <2>2, <4>1
    <3>2. CASE \E i \in IotSocks \ {s} : \E k \in Mentions(fromIot'[i], n, f) : q = <<"reply", i, k>>
      <4>1. q \in Places(n, f) /\ q[2] # s
        BY <2>4, <3>2, PlacesElements DEF PlacesAt
      <4> QED
        BY <2>2, <4>1
    <3>3. CASE \E i \in IotSocks : \E k \in Mentions(toIot'[i], n, f) : q = <<"command", i, k>>
      <4>1. q \in Places(n, f) /\ q[1] = "command"
        BY <1>1, <3>3, PlacesElements DEF PlacesAt
      <4> QED
        BY <2>2, <4>1
    <3>4. CASE \E w \in Workers : q = <<"worker", w, 0>>
      <4>1. PICK w \in Workers : q = <<"worker", w, 0>> /\ Busy(w)' /\ WillSend(info'[w], n, f)
        BY <3>4, PlacesElementsNext DEF PlacesAt
      <4>2. q \in Places(n, f) /\ q[1] = "worker"
        BY <2>5, <4>1, PlacesElements DEF PlacesAt
      <4> QED
        BY <2>2, <4>2
    <3>5. CASE \E t \in tasks' : q = <<"task", t, 0>>
      <4>1. q \in Places(n, f) /\ q[1] = "task"
        BY <1>1, <3>5, PlacesElements, PlacesElementsNext DEF PlacesAt, workerVars
      <4> QED
        BY <2>2, <4>1
    <3> QED
      BY <3>1, <3>2, <3>3, <3>4, <3>5, PlacesElementsNext DEF PlacesAt
  <2>7. Places(n, f)' = {}
    BY <2>6
  <2> QED
    BY <2>3, <2>7 DEF Accounted
<1> QED
  BY <1>5, <1>6

(* A reply that finds no request is about no fragment of its request.        *)
LEMMA UnknownReply ==
  ASSUME NEW s \in IotSocks, FullInv, fromIot[s] # <<>>, Head(fromIot[s]).uid \notin active,
         NEW n \in 0 .. reqUid - 1, NEW f \in Frags(n)
  PROVE  1 \notin Mentions(fromIot[s], n, f)
<1> SUFFICES ASSUME 1 \in Mentions(fromIot[s], n, f) PROVE FALSE
  OBVIOUS
<1>1. fromIot[s] \in Seq(Answers) /\ Head(fromIot[s]) = fromIot[s][1]
  BY TailElements DEF FullInv, IInv, TypeOK
<1>2. n \notin active
  BY <1>1 DEF Mentions
<1>3. fragSet[n] = {}
  BY <1>2 DEF FullInv, IInv, ReleasedWhenDone
<1>4. <<"reply", s, 1>> \in Places(n, f)
  BY PlacesElements DEF PlacesAt
<1> QED
  BY <1>3, <1>4, OnlyPlace DEF FullInv, Accounts, FragmentsAccountedFor

LEMMA IotHandleUnknownAccounts ==
  ASSUME NEW s \in IotSocks, FullInv, IotHandleUnknown(s) PROVE FragmentsAccountedFor'
<1> SUFFICES ASSUME NEW n \in (0 .. reqUid - 1)', NEW f \in Frags(n)'
             PROVE  Accounted(n, f)'
  BY DEF FragmentsAccountedFor
<1>1. /\ n \in 0 .. reqUid - 1 /\ f \in Frags(n) /\ Accounted(n, f)
      /\ fromIot' = [fromIot EXCEPT ![s] = Tail(fromIot[s])]
      /\ UNCHANGED <<fragSet, workerVars, toIot, closed>>
      /\ fromIot[s] # <<>> /\ Head(fromIot[s]).uid \notin active
  BY DEF IotHandleUnknown, reqVars, Frags, FullInv, Accounts, FragmentsAccountedFor
<1> QED
  BY <1>1, UnknownReply, TakenReplyAccounts DEF FullInv, IInv

LEMMA PeerClosesAccounts ==
  ASSUME NEW s, FullInv, PeerCloses(s) PROVE FragmentsAccountedFor'
<1> SUFFICES ASSUME NEW n \in (0 .. reqUid - 1)', NEW f \in Frags(n)'
             PROVE  Accounted(n, f)'
  BY DEF FragmentsAccountedFor
<1>1. /\ closed' # {} /\ UNCHANGED <<reqVars, workerVars, fromIot>>
      /\ \A i \in IotSocks : toIot'[i] = toIot[i] \/ toIot'[i] = <<>>
  BY DEF PeerCloses
<1>2. Accounted(n, f) /\ fragSet' = fragSet
  BY <1>1 DEF FullInv, Accounts, FragmentsAccountedFor, Frags, reqVars
<1>3. \A i \in IotSocks : Mentions(toIot'[i], n, f) \subseteq Mentions(toIot[i], n, f)
  BY <1>1 DEF Mentions
<1>4. Places(n, f)' \subseteq Places(n, f)
  <2> SUFFICES ASSUME NEW q \in Places(n, f)' PROVE q \in Places(n, f)
    OBVIOUS
  <2>1. \A w : Busy(w)' = Busy(w) /\ info'[w] = info[w]
    BY <1>1 DEF Busy, workerVars
  <2>2. CASE \E w \in Workers : q = <<"worker", w, 0>>
    BY <2>1, <2>2, PlacesElements, PlacesElementsNext DEF PlacesAt
  <2>3. CASE \E t \in tasks' : q = <<"task", t, 0>>
    BY <1>1, <2>3, PlacesElements, PlacesElementsNext DEF PlacesAt, workerVars
  <2>4. CASE \E i \in IotSocks : \E k \in Mentions(toIot'[i], n, f) : q = <<"command", i, k>>
    BY <1>3, <2>4, PlacesElements DEF PlacesAt
  <2>5. CASE \E i \in IotSocks : \E k \in Mentions(fromIot'[i], n, f) : q = <<"reply", i, k>>
    BY <1>1, <2>5, PlacesElements DEF PlacesAt
  <2> QED
    BY <2>2, <2>3, <2>4, <2>5, PlacesElementsNext DEF PlacesAt
<1> QED
  BY <1>1, <1>2, <1>4 DEF Accounted

(* Leaving the loop gives up no fragment: the worker stood behind the last.   *)
LEMMA TestAccounts ==
  ASSUME NEW w \in Workers, FullInv,
         UNCHANGED <<reqUid, nbdReq, fragSet, tasks, toIot, fromIot, closed>>,
         \/ EndTask(w) /\ pc[w] = "test" /\ info[w].frag \notin Frags(info[w].uid)
         \/ pc[w] = "test" /\ pc' = [pc EXCEPT ![w] = "send"] /\ UNCHANGED info
         \/ UNCHANGED <<pc, info>>
  PROVE  FragmentsAccountedFor'
<1>1. TypeOK /\ FragmentsAccountedFor
  BY DEF FullInv, IInv, Accounts
<1>2. ASSUME NEW n \in 0 .. reqUid - 1, NEW f \in Frags(n), NEW v \in Workers
      PROVE  (Busy(v) /\ WillSend(info[v], n, f))' <=> (Busy(v) /\ WillSend(info[v], n, f))
  <2>1. CASE UNCHANGED <<pc, info>>
    BY <2>1 DEF Busy, WillSend
  <2>2. CASE pc[w] = "test" /\ pc' = [pc EXCEPT ![w] = "send"] /\ UNCHANGED info
    BY <1>1, <2>2 DEF Busy, WillSend, TypeOK
  <2>3. CASE EndTask(w) /\ pc[w] = "test" /\ info[w].frag \notin Frags(info[w].uid)
    <3>1. v # w => info'[v] = info[v] /\ pc'[v] = pc[v]
      BY <1>1, <2>3 DEF EndTask, TypeOK
    <3>2. ~Busy(w)' /\ Busy(w) /\ info[w].frag \in Nat
      BY <1>1, <2>3 DEF EndTask, TypeOK, Busy, Info
    <3>3. ~WillSend(info[w], n, f)
      <4>1. NumFrags(nbdReq[n].dataLen) \in Nat
        BY <1>1, ReqUidBound, FragsInDevice, RequestInDevice DEF FullInv, IInv
      <4> QED
        BY <2>3, <3>2, <4>1 DEF WillSend, Frags
    <3> QED
      BY <3>1, <3>2, <3>3 DEF Busy, WillSend
  <2> QED
    BY <2>1, <2>2, <2>3
<1> QED
  BY <1>1, <1>2, NoMoveAccounts

LEMMA DequeueAccounts ==
  ASSUME NEW w \in Workers, FullInv, Dequeue(w) PROVE FragmentsAccountedFor'
<1> SUFFICES ASSUME NEW n \in (0 .. reqUid - 1)', NEW f \in Frags(n)'
             PROVE  Accounted(n, f)'
  BY DEF FragmentsAccountedFor
<1>1. PICK t \in tasks : /\ tasks' = tasks \ {t}
                         /\ info' = [info EXCEPT ![w] = t]
                         /\ pc' = [pc EXCEPT ![w] = "test"]
                         /\ pc[w] = "dequeue"
                         /\ UNCHANGED <<reqVars, iotVars, closed>>
  BY DEF Dequeue
<1>2. /\ info'[w] = t /\ Busy(w)' /\ ~Busy(w)
      /\ \A v \in Workers \ {w} : info'[v] = info[v] /\ Busy(v)' = Busy(v)
  BY <1>1 DEF FullInv, IInv, TypeOK, Busy
<1>3. Accounted(n, f)
  BY <1>1 DEF FullInv, Accounts, FragmentsAccountedFor, Frags, reqVars
<1>4. UNCHANGED <<toIot, fromIot, fragSet, closed>>
  BY <1>1 DEF iotVars, reqVars
<1> DEFINE G == [p \in Places(n, f) |-> IF p = <<"task", t, 0>> THEN <<"worker", w, 0>> ELSE p]
<1>5. ASSUME NEW p \in Places(n, f) PROVE G[p] \in Places(n, f)'
  <2>1. CASE p = <<"task", t, 0>>
    BY <1>2, <2>1, PlacesElements, PlacesElementsNext DEF PlacesAt
  <2>2. CASE \E u \in tasks \ {t} : p = <<"task", u, 0>>
    BY <1>1, <2>2, PlacesElements, PlacesElementsNext DEF PlacesAt
  <2>3. CASE \E v \in Workers : p = <<"worker", v, 0>>
    BY <1>2, <2>3, PlacesElements, PlacesElementsNext DEF PlacesAt
  <2>4. CASE \E i \in IotSocks : \E k \in Mentions(toIot[i], n, f) : p = <<"command", i, k>>
    <3>1. p \in Places(n, f)' /\ p[1] = "command"
      BY <1>4, <2>4, PlacesElementsNext DEF PlacesAt
    <3> QED
      BY <3>1
  <2>5. CASE \E i \in IotSocks : \E k \in Mentions(fromIot[i], n, f) : p = <<"reply", i, k>>
    <3>1. p \in Places(n, f)' /\ p[1] = "reply"
      BY <1>4, <2>5, PlacesElementsNext DEF PlacesAt
    <3> QED
      BY <3>1
  <2> QED
    BY <2>1, <2>2, <2>3, <2>4, <2>5, PlacesElements DEF PlacesAt
<1>6. ASSUME NEW q \in Places(n, f)' PROVE \E p \in Places(n, f) : q = G[p]
  <2>1. CASE q = <<"worker", w, 0>>
    <3>1. <<"task", t, 0>> \in Places(n, f)
      BY <1>2, <2>1, PlacesElements, PlacesElementsNext DEF PlacesAt
    <3> QED
      BY <2>1, <3>1
  <2>2. CASE q \in Places(n, f) /\ q # <<"task", t, 0>>
    BY <2>2
  <2>3. CASE \E u \in tasks' : q = <<"task", u, 0>>
    <3>1. q \in Places(n, f) /\ q # <<"task", t, 0>>
      BY <1>1, <2>3, PlacesElements, PlacesElementsNext DEF PlacesAt
    <3> QED
      BY <2>2, <3>1
  <2>4. CASE \E v \in Workers \ {w} : q = <<"worker", v, 0>>
    <3>1. q \in Places(n, f) /\ q[1] = "worker"
      BY <1>2, <2>4, PlacesElements, PlacesElementsNext DEF PlacesAt
    <3> QED
      BY <2>2, <3>1
  <2>5. CASE \E i \in IotSocks : \E k \in Mentions(toIot'[i], n, f) : q = <<"command", i, k>>
    <3>1. q \in Places(n, f) /\ q[1] = "command"
      BY <1>4, <2>5, PlacesElements DEF PlacesAt
    <3> QED
      BY <2>2, <3>1
  <2>6. CASE \E i \in IotSocks : \E k \in Mentions(fromIot'[i], n, f) : q = <<"reply", i, k>>
    <3>1. q \in Places(n, f) /\ q[1] = "reply"
      BY <1>4, <2>6, PlacesElements DEF PlacesAt
    <3> QED
      BY <2>2, <3>1
  <2> QED
    BY <2>1, <2>3, <2>4, <2>5, <2>6, PlacesElementsNext DEF PlacesAt
<1> HIDE DEF G
<1> QED
  BY <1>3, <1>4, <1>5, <1>6, MovedAccounted

(* A strand's next fragment is NumIot further.                               *)
LEMMA StrandStep ==
  ASSUME NEW a \in Nat, NEW f \in Nat, a % NumIot = f % NumIot
  PROVE  a + NumIot <= f <=> a <= f /\ a # f
<1> USE StripingAssumption
<1> DEFINE q == a \div NumIot
           p == f \div NumIot
           r == a % NumIot
<1>1. /\ q \in Int /\ p \in Int /\ r \in 0 .. NumIot - 1
      /\ a = (NumIot * q) + r /\ f = (NumIot * p) + r
  BY DivModSum
<1> HIDE DEF q, p, r
<1>2. f - a = NumIot * (p - q)
  BY <1>1
<1>3. ASSUME a < f PROVE a + NumIot <= f
  <2>1. p > q
    <3> SUFFICES ASSUME p <= q PROVE FALSE
      BY <1>1
    <3>1. NumIot * (q - p) \in Nat /\ NumIot * (q - p) = a - f
      BY <1>1
    <3> QED
      BY <1>3, <3>1
  <2>2. p - q - 1 \in Nat /\ NumIot * (p - q - 1) = (f - a) - NumIot
    BY <1>1, <1>2, <2>1
  <2>3. NumIot * (p - q - 1) \in Nat
    BY <2>2
  <2> QED
    BY <2>2, <2>3
<1> QED
  BY <1>3

(* sendmsg moves the fragment the worker stands at, and no other.            *)
LEMMA SendRequestAccounts ==
  ASSUME NEW w \in Workers, FullInv, SendRequest(w) PROVE FragmentsAccountedFor'
<1> SUFFICES ASSUME NEW n \in (0 .. reqUid - 1)', NEW f \in Frags(n)'
             PROVE  Accounted(n, f)'
  BY DEF FragmentsAccountedFor
<1>0. PICK i : i = info[w]
  OBVIOUS
<1>a. PICK c : c = Command(i)
  OBVIOUS
<1>b. PICK s : s = i.sock
  OBVIOUS
<1> DEFINE i2 == NextFragment(i)
<1>1. /\ pc[w] = "send"
      /\ info' = [info EXCEPT ![w] = i2]
      /\ pc' = [pc EXCEPT ![w] = "test"]
      /\ UNCHANGED <<reqVars, tasks, fromIot, closed>>
      /\ \/ toIot' = [toIot EXCEPT ![s] = Append(toIot[s], c)]
         \/ s \in closed /\ UNCHANGED toIot
  BY <1>0, <1>a, <1>b DEF SendRequest
<1>2. n \in 0 .. reqUid - 1 /\ f \in Frags(n) /\ Accounted(n, f) /\ fragSet' = fragSet
  BY <1>1 DEF FullInv, Accounts, FragmentsAccountedFor, Frags, reqVars
<1>3. TypeOK /\ IInv
  BY DEF FullInv, IInv
<1>4. /\ i \in Info /\ Addressed(i) /\ c \in Commands /\ c.uid = i.uid /\ c.frag = i.frag
      /\ s \in IotSocks /\ i.frag \in Nat
  BY <1>0, <1>a, <1>b, <1>1, <1>3, CommandWellFormed DEF Info
<1>5. /\ i2.uid = i.uid /\ i2.frag = i.frag + NumIot
      /\ i2.frag % NumIot = i.frag % NumIot
  BY <1>3, <1>4, NextFragmentAddressed
<1> HIDE DEF i2
<1>6. /\ Busy(w) /\ Busy(w)' /\ info'[w] = i2 /\ info[w] = i
      /\ \A v \in Workers \ {w} : info'[v] = info[v] /\ Busy(v)' = Busy(v)
  BY <1>0, <1>1, <1>3 DEF TypeOK, Busy
<1>7. f \in Nat
  BY <1>2, <1>3, ReqUidBound, FragsInDevice DEF IInv
<1>8. WillSend(i2, n, f) <=> WillSend(i, n, f) /\ f # i.frag
  BY <1>4, <1>5, <1>7, StrandStep DEF WillSend
<1>9. WillSend(i, n, i.frag) <=> n = i.uid
  BY <1>4 DEF WillSend
<1>10. toIot[s] \in Seq(Commands)
  BY <1>3, <1>4 DEF TypeOK
<1>11. \A k : k \in Mentions(Append(toIot[s], c), n, f) <=>
              \/ k \in Mentions(toIot[s], n, f)
              \/ k = Len(toIot[s]) + 1 /\ i.uid = n /\ i.frag = f
  BY <1>4, <1>10, AppendMentions
<1>12. \A j \in IotSocks : \A k : k \in Mentions(toIot'[j], n, f) =>
         \/ k \in Mentions(toIot[j], n, f)
         \/ /\ j = s /\ k = Len(toIot[s]) + 1 /\ i.uid = n /\ i.frag = f
            /\ toIot'[s] = Append(toIot[s], c)
  BY <1>1, <1>3, <1>4, <1>11 DEF TypeOK
<1>13. \A j \in IotSocks : \A k \in Mentions(toIot[j], n, f) : k \in Mentions(toIot'[j], n, f)
  BY <1>1, <1>3, <1>4, <1>11 DEF TypeOK
<1> DEFINE here == <<"worker", w, 0>>
           sent == <<"command", s, Len(toIot[s]) + 1>>
<1>14. ASSUME NEW q \in Places(n, f)', q \notin Places(n, f)
       PROVE  /\ q = sent /\ i.uid = n /\ i.frag = f
              /\ toIot'[s] = Append(toIot[s], c)
  <2>1. CASE \E j \in IotSocks : \E k \in Mentions(toIot'[j], n, f) : q = <<"command", j, k>>
    <3>1. PICK j \in IotSocks : \E k \in Mentions(toIot'[j], n, f) : q = <<"command", j, k>>
      BY <2>1
    <3>2. PICK k \in Mentions(toIot'[j], n, f) : q = <<"command", j, k>>
      BY <3>1
    <3>3. k \notin Mentions(toIot[j], n, f)
      BY <1>14, <3>2, PlacesElements DEF PlacesAt
    <3> QED
      BY <1>12, <3>2, <3>3
  <2>2. CASE \E j \in IotSocks : \E k \in Mentions(fromIot'[j], n, f) : q = <<"reply", j, k>>
    BY <1>1, <1>14, <2>2, PlacesElements DEF PlacesAt
  <2>3. CASE \E t \in tasks' : q = <<"task", t, 0>>
    BY <1>1, <1>14, <2>3, PlacesElements, PlacesElementsNext DEF PlacesAt
  <2>4. CASE \E v \in Workers : q = <<"worker", v, 0>>
    <3>1. PICK v \in Workers : q = <<"worker", v, 0>> /\ Busy(v)' /\ WillSend(info'[v], n, f)
      BY <2>4, PlacesElementsNext DEF PlacesAt
    <3>2. Busy(v) /\ WillSend(info[v], n, f)
      BY <1>6, <1>8, <3>1
    <3> QED
      BY <1>14, <3>1, <3>2, PlacesElements DEF PlacesAt
  <2> QED
    BY <2>1, <2>2, <2>3, <2>4, PlacesElementsNext DEF PlacesAt
<1>15. ASSUME ~(i.uid = n /\ i.frag = f) PROVE Accounted(n, f)'
  <2>1. Places(n, f)' \subseteq Places(n, f)
    BY <1>14, <1>15
  <2>2. ASSUME NEW p \in Places(n, f) PROVE p \in Places(n, f)'
    <3>1. CASE \E j \in IotSocks : \E k \in Mentions(toIot[j], n, f) : p = <<"command", j, k>>
      BY <1>13, <3>1, PlacesElementsNext DEF PlacesAt
    <3>2. CASE \E j \in IotSocks : \E k \in Mentions(fromIot[j], n, f) : p = <<"reply", j, k>>
      BY <1>1, <3>2, PlacesElementsNext DEF PlacesAt
    <3>3. CASE \E t \in tasks : p = <<"task", t, 0>>
      BY <1>1, <3>3, PlacesElements, PlacesElementsNext DEF PlacesAt
    <3>4. CASE \E v \in Workers : p = <<"worker", v, 0>>
      <4>1. PICK v \in Workers : p = <<"worker", v, 0>> /\ Busy(v) /\ WillSend(info[v], n, f)
        BY <3>4, PlacesElements DEF PlacesAt
      <4>2. Busy(v)' /\ WillSend(info'[v], n, f)
        BY <1>6, <1>8, <1>9, <1>15, <4>1
      <4> QED
        BY <4>1, <4>2, PlacesElementsNext DEF PlacesAt
    <3> QED
      BY <3>1, <3>2, <3>3, <3>4, PlacesElements DEF PlacesAt
  <2>3. Places(n, f)' = Places(n, f)
    BY <2>1, <2>2
  <2> QED
    BY <1>1, <1>2, <2>3, SameAccounted
<1>16. ASSUME i.uid = n, i.frag = f PROVE Accounted(n, f)'
  <2>1. here \in Places(n, f)
    BY <1>6, <1>9, <1>16, PlacesElements DEF PlacesAt
  <2>2. Places(n, f) = {here} /\ f \in fragSet[n]
    BY <1>2, <2>1, OnlyPlace
  <2>3. here \notin Places(n, f)'
    BY <1>6, <1>8, <1>16, PlacesElementsNext DEF PlacesAt
  <2>4. \A q \in Places(n, f)' : q = sent
    BY <1>14, <2>2, <2>3
  <2>5. CASE toIot' = [toIot EXCEPT ![s] = Append(toIot[s], c)]
    <3>1. sent \in Places(n, f)'
      <4>1. toIot'[s] = Append(toIot[s], c)
        BY <1>3, <1>4, <2>5 DEF TypeOK
      <4>2. Len(toIot[s]) + 1 \in Mentions(toIot'[s], n, f)
        BY <1>11, <1>16, <4>1
      <4> QED
        BY <1>4, <4>2, PlacesElementsNext DEF PlacesAt
    <3>2. Places(n, f)' = {sent}
      BY <2>4, <3>1
    <3> HIDE DEF sent
    <3> QED
      BY <1>2, <2>2, <3>1, <3>2 DEF Accounted
  <2>6. CASE s \in closed /\ UNCHANGED toIot
    <3>1. sent \notin Places(n, f)'
      <4>1. Len(toIot[s]) + 1 \notin Mentions(toIot'[s], n, f)
        BY <1>10, <2>6 DEF Mentions
      <4> QED
        BY <4>1, PlacesElementsNext DEF PlacesAt
    <3>2. Places(n, f)' = {} /\ closed' # {}
      BY <1>1, <2>4, <2>6, <3>1
    <3> QED
      BY <1>2, <2>2, <3>2 DEF Accounted
  <2> QED
    BY <1>1, <2>5, <2>6
<1> QED
  BY <1>15, <1>16

(* A new request's fragments are all with the tasks Distribute queues.       *)
LEMMA NbdRequestsHandleAccounts ==
  ASSUME FullInv, NbdRequestsHandle PROVE FragmentsAccountedFor'
<1> SUFFICES ASSUME NEW n \in (0 .. reqUid - 1)', NEW f \in Frags(n)'
             PROVE  Accounted(n, f)'
  BY DEF FragmentsAccountedFor
<1>0. PICK r : r = Head(nbdSock)
  OBVIOUS
<1>1. /\ nbdSock # <<>>
      /\ nbdReq' = [nbdReq EXCEPT ![reqUid] = r]
      /\ fragSet' = [fragSet EXCEPT ![reqUid] = ToAwait(r)]
      /\ tasks' = tasks \cup Distribute(reqUid, r)
      /\ reqUid' = reqUid + 1
      /\ UNCHANGED <<pc, info, toIot, fromIot, closed>>
  BY <1>0 DEF NbdRequestsHandle, iotVars
<1>2. TypeOK /\ IInv
  BY DEF FullInv, IInv
<1>3. r \in Shapes /\ reqUid \in Nat /\ reqUid < MaxReqs /\ reqUid \in Requests
  <2>1. nbdSock \in Seq(Shapes) /\ reqUid \in Nat /\ reqUid + Len(nbdSock) <= MaxReqs
    BY <1>2 DEF TypeOK, Issued
  <2>2. Len(nbdSock) \in Nat \ {0} /\ r \in Shapes
    BY <1>0, <1>1, <2>1, TailElements
  <2> QED
    BY <2>1, <2>2, AtlasAssumption DEF Requests
<1>4. \A t \in Distribute(reqUid, r) : t.uid = reqUid
  BY DEF Distribute, SendInfo
<1>5. \A w : Busy(w)' = Busy(w) /\ info'[w] = info[w]
  BY <1>1 DEF Busy
<1>6. ASSUME n # reqUid PROVE Accounted(n, f)'
  <2>1. n \in 0 .. reqUid - 1 /\ n \in Requests \ {reqUid}
    BY <1>1, <1>3, <1>6, AtlasAssumption DEF Requests
  <2>2. f \in Frags(n) /\ fragSet'[n] = fragSet[n]
    BY <1>1, <1>2, <2>1 DEF Frags, TypeOK
  <2>3. {t \in tasks' : WillSend(t, n, f)} = {t \in tasks : WillSend(t, n, f)}
    BY <1>1, <1>4, <1>6 DEF WillSend
  <2>4. {w \in Workers : Busy(w)' /\ WillSend(info'[w], n, f)} =
        {w \in Workers : Busy(w) /\ WillSend(info[w], n, f)}
    BY <1>5
  <2>5. Places(n, f)' = Places(n, f)
    BY <1>1, <2>3, <2>4 DEF Places
  <2>6. Accounted(n, f)
    BY <2>1, <2>2 DEF FullInv, Accounts, FragmentsAccountedFor
  <2> QED
    BY <1>1, <2>2, <2>5, <2>6, SameAccounted
<1>7. ASSUME n = reqUid PROVE Accounted(n, f)'
  <2>1. nbdReq'[n] = r /\ fragSet'[n] = ToAwait(r)
    BY <1>1, <1>2, <1>3, <1>7 DEF TypeOK
  <2>2. f \in ToAwait(r) /\ f \in 0 .. NumFrags(r.dataLen) - 1
    BY <2>1 DEF Frags, ToAwait
  <2>3. NumFrags(r.dataLen) \in Nat /\ f \in Nat
    BY <1>3, <2>2, RequestInDevice
  <2> DEFINE j == f % NumIot
             t == SendInfo(n, r, j)
  <2>4. j \in 0 .. NumTasks(r.dataLen) - 1 /\ j <= f /\ j % NumIot = j
    <3> USE StripingAssumption
    <3>0. j \in 0 .. NumIot - 1
      BY <2>3, DivModSum
    <3>1. j \in 0 .. NumIot - 1 /\ j % NumIot = j
      <4> HIDE DEF j
      <4> QED
        BY <3>0, SmallMod
    <3>2. CASE f < NumIot
      <4>1. j = f
        BY <2>3, <3>2, SmallMod
      <4> HIDE DEF j
      <4> QED
        BY <2>2, <2>3, <3>1, <3>2, <4>1 DEF NumTasks
    <3>3. CASE f >= NumIot
      <4> HIDE DEF j
      <4> QED
        BY <2>2, <2>3, <3>1, <3>3 DEF NumTasks
    <3> QED
      BY <2>3, <3>2, <3>3
  <2> HIDE DEF j
  <2>5. t \in tasks' /\ WillSend(t, n, f)
    <3>1. t.uid = n /\ t.frag = j
      BY DEF SendInfo
    <3>2. j = f % NumIot
      BY DEF j
    <3>3. t \in Distribute(n, r)
      BY <2>4 DEF Distribute
    <3> HIDE DEF t
    <3> QED
      BY <1>1, <1>7, <2>4, <3>1, <3>2, <3>3 DEF WillSend
  <2>6. ASSUME NEW u \in tasks', WillSend(u, n, f) PROVE u = t
    <3>1. u \in Distribute(n, r)
      <4>1. \A v \in tasks : v.uid < reqUid
        BY <1>2 DEF IInv, HoldersAddressed, Addressed
      <4> QED
        BY <1>1, <1>3, <1>7, <2>6, <4>1 DEF WillSend
    <3>2. PICK k \in 0 .. NumTasks(r.dataLen) - 1 : u = SendInfo(n, r, k)
      BY <3>1 DEF Distribute
    <3>3. k \in 0 .. NumIot - 1 /\ u.frag = k
      BY <1>3, <3>2, RequestInDevice, StripingAssumption DEF SendInfo
    <3>4. k = j
      BY <2>6, <3>3, SmallMod, StripingAssumption DEF WillSend, j
    <3> QED
      BY <3>2, <3>4
  <2>7. \A w \in Workers : Busy(w)' => ~WillSend(info'[w], n, f)
    <3>1. \A w \in Workers : Busy(w) => info[w].uid < reqUid
      BY <1>2 DEF IInv, HoldersAddressed, Addressed
    <3> QED
      BY <1>3, <1>5, <1>7, <3>1 DEF WillSend
  <2>8. \A i \in IotSocks : Mentions(toIot'[i], n, f) = {} /\ Mentions(fromIot'[i], n, f) = {}
    <3>1. \A i \in IotSocks : /\ \A k \in 1 .. Len(toIot[i]) : toIot[i][k].uid < reqUid
                              /\ \A k \in 1 .. Len(fromIot[i]) : fromIot[i][k].uid < reqUid
      BY <1>2 DEF IInv, SentOnce, Sent
    <3> QED
      BY <1>1, <1>3, <1>7, <3>1 DEF Mentions
  <2> HIDE DEF t
  <2>9. <<"task", t, 0>> \in Places(n, f)'
    BY <2>5, PlacesElementsNext DEF PlacesAt
  <2>10. ASSUME NEW q \in Places(n, f)' PROVE q = <<"task", t, 0>>
    <3>1. CASE \E u \in tasks' : q = <<"task", u, 0>>
      BY <2>6, <3>1, PlacesElementsNext DEF PlacesAt
    <3>2. CASE \E w \in Workers : q = <<"worker", w, 0>>
      BY <2>7, <3>2, PlacesElementsNext DEF PlacesAt
    <3> QED
      BY <2>8, <3>1, <3>2, PlacesElementsNext DEF PlacesAt
  <2>11. Places(n, f)' = {<<"task", t, 0>>}
    BY <2>9, <2>10
  <2> QED
    BY <2>1, <2>2, <2>9, <2>11 DEF Accounted
<1> QED
  BY <1>6, <1>7
----------------------------------------------------------------------------
(* The rest of FullInv: what messages are about, and what stops the process. *)

(* Steps that add no command.                                                *)
LEMMA KeptMessages ==
  ASSUME FullInv, IInv', FragmentsAccountedFor', FaultsHaveACause', RepliesFit', UNCHANGED nbdReq,
         \A s \in IotSocks : \A k \in 1 .. Len(toIot'[s]) :
           \E j \in 1 .. Len(toIot[s]) : toIot'[s][k] = toIot[s][j],
         \A s \in IotSocks : \A k \in 1 .. Len(fromIot'[s]) :
           \/ \E j \in 1 .. Len(fromIot[s]) : fromIot'[s][k] = fromIot[s][j]
           \/ \E j \in 1 .. Len(toIot[s]) : /\ fromIot'[s][k].uid = toIot[s][j].uid
                                            /\ fromIot'[s][k].frag = toIot[s][j].frag,
         "more" \notin StaleRead =>
           \A w \in Workers : pc'[w] = "send" =>
             \/ pc[w] = "send" /\ info'[w] = info[w]
             \/ info'[w].frag \in Frags(info'[w].uid)
  PROVE  FullInv'
<1>1. \A n : Frags(n)' = Frags(n)
  BY DEF Frags
<1>2. CommandsTyped'
  <2>1. CommandsTyped
    BY DEF FullInv, Accounts
  <2>2. ASSUME NEW s \in IotSocks, NEW k \in 1 .. Len(toIot'[s])
        PROVE  toIot'[s][k].type = nbdReq[toIot'[s][k].uid].type
    <3>1. PICK j \in 1 .. Len(toIot[s]) : toIot'[s][k] = toIot[s][j]
      OBVIOUS
    <3> QED
      BY <2>1, <3>1 DEF CommandsTyped
  <2> QED
    BY <2>2 DEF CommandsTyped
<1>3. OwnFragments'
  <2> SUFFICES ASSUME "more" \notin StaleRead PROVE OwnFragments'
    BY DEF OwnFragments
  <2>1. OwnFragments
    BY DEF FullInv, Accounts
  <2>2. ASSUME NEW w \in Workers, pc'[w] = "send"
        PROVE  info'[w].frag \in Frags(info'[w].uid)
    BY <2>1, <2>2 DEF OwnFragments
  <2>3. ASSUME NEW s \in IotSocks, NEW k \in 1 .. Len(toIot'[s])
        PROVE  toIot'[s][k].frag \in Frags(toIot'[s][k].uid)
    <3>1. PICK j \in 1 .. Len(toIot[s]) : toIot'[s][k] = toIot[s][j]
      OBVIOUS
    <3> QED
      BY <2>1, <3>1 DEF OwnFragments
  <2>4. ASSUME NEW s \in IotSocks, NEW k \in 1 .. Len(fromIot'[s])
        PROVE  fromIot'[s][k].frag \in Frags(fromIot'[s][k].uid)
    BY <2>1 DEF OwnFragments
  <2> QED
    BY <1>1, <2>2, <2>3, <2>4 DEF OwnFragments
<1> QED
  BY <1>2, <1>3 DEF FullInv, Accounts

LEMMA KernelIssuesFullInv == FullInv /\ KernelIssues => FullInv'
<1> SUFFICES ASSUME FullInv, KernelIssues PROVE FullInv'
  OBVIOUS
<1>1. UNCHANGED <<reqVars, workerVars, iotVars, closed, fault>>
  BY DEF KernelIssues
<1>2. UNCHANGED <<reqUid, nbdReq, fragSet, tasks, toIot, fromIot, closed, pc, info, fault>>
  BY <1>1 DEF reqVars, workerVars, iotVars
<1>3. FragmentsAccountedFor'
  BY <1>2, NoMoveAccounts DEF FullInv, Accounts, Busy, WillSend
<1>4. FaultsHaveACause' /\ RepliesFit'
  BY <1>2 DEF FullInv, Accounts, FaultsHaveACause, RepliesFit, Running
<1> QED
  BY <1>2, <1>3, <1>4, KernelIssuesIInv, KeptMessages DEF FullInv

LEMMA RecvClosedFullInv ==
  ASSUME NEW s, FullInv, RecvClosed(s) PROVE FullInv'
<1>1. /\ UNCHANGED <<reqUid, nbdReq, fragSet, tasks, toIot, fromIot, closed, pc, info>>
      /\ fault' = "assert" /\ closed # {}
  BY DEF RecvClosed, reqVars, workerVars, iotVars
<1>2. FragmentsAccountedFor'
  BY <1>1, NoMoveAccounts DEF FullInv, Accounts, Busy, WillSend
<1>3. FaultsHaveACause' /\ RepliesFit'
  BY <1>1 DEF FullInv, Accounts, FaultsHaveACause, RepliesFit, Running
<1> QED
  BY <1>1, <1>2, <1>3, RecvClosedIInv, KeptMessages DEF FullInv

LEMMA PeerClosesFullInv ==
  ASSUME NEW s, FullInv, PeerCloses(s) PROVE FullInv'
<1>1. /\ UNCHANGED <<nbdReq, fromIot, pc, info, fault>>
      /\ closed' # {}
      /\ \A i \in IotSocks : toIot'[i] = toIot[i] \/ toIot'[i] = <<>>
  BY DEF PeerCloses, reqVars, workerVars
<1>2. FaultsHaveACause' /\ RepliesFit'
  BY <1>1 DEF FullInv, Accounts, FaultsHaveACause, RepliesFit, Running
<1>3. \A i \in IotSocks : \A k \in 1 .. Len(toIot'[i]) :
        \E j \in 1 .. Len(toIot[i]) : toIot'[i][k] = toIot[i][j]
  BY <1>1
<1> QED
  BY <1>1, <1>2, <1>3, PeerClosesIInv, PeerClosesAccounts, KeptMessages DEF FullInv

LEMMA IotServesFullInv ==
  ASSUME NEW s \in IotSocks, FullInv, IotServes(s) PROVE FullInv'
<1>1. PICK a : /\ a.uid = Head(toIot[s]).uid /\ a.frag = Head(toIot[s]).frag
               /\ fromIot' = [fromIot EXCEPT ![s] = Append(fromIot[s], a)]
  BY DEF IotServes
<1>2. /\ toIot' = [toIot EXCEPT ![s] = Tail(toIot[s])]
      /\ toIot[s] # <<>> /\ Len(fromIot[s]) < SockCap
      /\ UNCHANGED <<nbdReq, pc, info, closed, fault>>
  BY DEF IotServes, reqVars, workerVars
<1>3. /\ toIot[s] \in Seq(Commands) /\ fromIot[s] \in Seq(Answers)
      /\ toIot'[s] = Tail(toIot[s]) /\ fromIot'[s] = Append(fromIot[s], a)
      /\ \A i \in IotSocks \ {s} : toIot'[i] = toIot[i] /\ fromIot'[i] = fromIot[i]
  BY <1>1, <1>2 DEF FullInv, IInv, TypeOK
<1>4. /\ Head(toIot[s]) = toIot[s][1] /\ 1 \in 1 .. Len(toIot[s])
      /\ \A k \in 1 .. Len(Tail(toIot[s])) :
           Tail(toIot[s])[k] = toIot[s][k + 1] /\ k + 1 \in 1 .. Len(toIot[s])
  BY <1>2, <1>3, TailElements
<1>5. /\ Len(Append(fromIot[s], a)) = Len(fromIot[s]) + 1 /\ Len(fromIot[s]) \in Nat
      /\ \A k \in 1 .. Len(Append(fromIot[s], a)) :
           \/ k \in 1 .. Len(fromIot[s]) /\ Append(fromIot[s], a)[k] = fromIot[s][k]
           \/ Append(fromIot[s], a)[k] = a
  BY <1>3
<1>6. RepliesFit'
  <2>1. Len(fromIot'[s]) <= SockCap
    BY <1>2, <1>3, <1>5, AtlasAssumption
  <2> QED
    BY <1>3, <2>1 DEF RepliesFit, FullInv, Accounts
<1>7. FaultsHaveACause'
  BY <1>2 DEF FullInv, Accounts, FaultsHaveACause, Running
<1>8. ASSUME NEW i \in IotSocks, NEW k \in 1 .. Len(toIot'[i])
      PROVE  \E j \in 1 .. Len(toIot[i]) : toIot'[i][k] = toIot[i][j]
  <2>1. CASE i = s
    BY <1>3, <1>4, <2>1
  <2>2. CASE i # s
    BY <1>3, <2>2
  <2> QED
    BY <2>1, <2>2
<1>9. ASSUME NEW i \in IotSocks, NEW k \in 1 .. Len(fromIot'[i])
      PROVE  \/ \E j \in 1 .. Len(fromIot[i]) : fromIot'[i][k] = fromIot[i][j]
             \/ \E j \in 1 .. Len(toIot[i]) : /\ fromIot'[i][k].uid = toIot[i][j].uid
                                              /\ fromIot'[i][k].frag = toIot[i][j].frag
  BY <1>1, <1>3, <1>4, <1>5
<1> QED
  BY <1>2, <1>6, <1>7, <1>8, <1>9, IotServesIInv, IotServesAccounts, KeptMessages DEF FullInv

(* Taking a reply adds none.                                                 *)
LEMMA TakenReplies ==
  ASSUME NEW s \in IotSocks, FullInv, fromIot[s] # <<>>,
         fromIot' = [fromIot EXCEPT ![s] = Tail(fromIot[s])]
  PROVE  /\ RepliesFit'
         /\ \A i \in IotSocks : \A k \in 1 .. Len(fromIot'[i]) :
              \E j \in 1 .. Len(fromIot[i]) : fromIot'[i][k] = fromIot[i][j]
<1>1. /\ fromIot[s] \in Seq(Answers) /\ fromIot'[s] = Tail(fromIot[s])
      /\ \A i \in IotSocks \ {s} : fromIot'[i] = fromIot[i]
  BY DEF FullInv, IInv, TypeOK
<1>2. /\ Len(Tail(fromIot[s])) = Len(fromIot[s]) - 1 /\ Len(fromIot[s]) \in Nat
      /\ \A k \in 1 .. Len(Tail(fromIot[s])) :
           Tail(fromIot[s])[k] = fromIot[s][k + 1] /\ k + 1 \in 1 .. Len(fromIot[s])
  BY <1>1
<1>3. RepliesFit'
  <2>1. Len(fromIot[s]) <= SockCap
    BY DEF FullInv, Accounts, RepliesFit
  <2>2. Len(fromIot'[s]) <= SockCap
    BY <1>1, <1>2, <2>1, AtlasAssumption
  <2> QED
    BY <1>1, <2>2 DEF RepliesFit, FullInv, Accounts
<1> QED
  BY <1>1, <1>2, <1>3

LEMMA IotHandleFullInv ==
  ASSUME NEW s \in IotSocks, FullInv, IotHandle(s) PROVE FullInv'
<1>1. /\ fromIot' = [fromIot EXCEPT ![s] = Tail(fromIot[s])] /\ fromIot[s] # <<>>
      /\ UNCHANGED <<nbdReq, pc, info, toIot, closed>>
      /\ fault = "none"
      /\ fault' = fault \/ (fault' = "sigpipe" /\ closed # {})
  BY DEF IotHandle, NbdRequestDone, workerVars, Running
<1>2. FaultsHaveACause'
  BY <1>1 DEF FaultsHaveACause, Running
<1> QED
  BY <1>1, <1>2, TakenReplies, IotHandleIInv, IotHandleAccounts, KeptMessages DEF FullInv

(* Without a stale read that says "more", no reply is ever for a request     *)
(* that is gone.                                                             *)
LEMMA NoUnknownReply ==
  ASSUME NEW s \in IotSocks, FullInv, "more" \notin StaleRead, fromIot[s] # <<>>
  PROVE  Head(fromIot[s]).uid \in active
<1> SUFFICES ASSUME Head(fromIot[s]).uid \notin active PROVE FALSE
  OBVIOUS
<1>0. PICK m : m = Head(fromIot[s])
  OBVIOUS
<1>1. /\ m = fromIot[s][1] /\ 1 \in 1 .. Len(fromIot[s]) /\ m \in Answers
  BY <1>0, TailElements DEF FullInv, IInv, TypeOK
<1>2. m.uid \in 0 .. reqUid - 1
  <2>1. m.uid < reqUid
    BY <1>1 DEF FullInv, IInv, SentOnce, Sent
  <2> QED
    BY <1>1, <2>1, ReqUidBound, AtlasAssumption DEF Answers, Requests, FullInv, IInv
<1>3. m.frag \in Frags(m.uid)
  BY <1>1 DEF FullInv, Accounts, OwnFragments
<1>4. 1 \in Mentions(fromIot[s], m.uid, m.frag)
  BY <1>1 DEF Mentions
<1> QED
  BY <1>0, <1>2, <1>3, <1>4, UnknownReply

LEMMA IotHandleUnknownFullInv ==
  ASSUME NEW s \in IotSocks, FullInv, IotHandleUnknown(s) PROVE FullInv'
<1>1. /\ fromIot' = [fromIot EXCEPT ![s] = Tail(fromIot[s])] /\ fromIot[s] # <<>>
      /\ UNCHANGED <<nbdReq, pc, info, toIot, closed>>
      /\ fault' = "null_host"
  BY DEF IotHandleUnknown, reqVars, workerVars
<1>2. "more" \in StaleRead
  BY NoUnknownReply DEF IotHandleUnknown
<1>3. FaultsHaveACause'
  BY <1>1, <1>2 DEF FaultsHaveACause
<1> QED
  BY <1>1, <1>3, TakenReplies, IotHandleUnknownIInv, IotHandleUnknownAccounts, KeptMessages
     DEF FullInv

LEMMA DequeueFullInv ==
  ASSUME NEW w \in Workers, FullInv, Dequeue(w) PROVE FullInv'
<1>1. PICK t : /\ info' = [info EXCEPT ![w] = t]
               /\ pc' = [pc EXCEPT ![w] = "test"]
               /\ UNCHANGED <<nbdReq, toIot, fromIot, closed, fault>>
  BY DEF Dequeue, reqVars, iotVars
<1>2. \A v \in Workers : pc'[v] = "send" => pc[v] = "send" /\ info'[v] = info[v]
  BY <1>1 DEF FullInv, IInv, TypeOK
<1>3. FaultsHaveACause' /\ RepliesFit'
  BY <1>1 DEF FullInv, Accounts, FaultsHaveACause, RepliesFit, Running
<1> QED
  BY <1>1, <1>2, <1>3, DequeueIInv, DequeueAccounts, KeptMessages DEF FullInv

LEMMA LoopTestFullInv ==
  ASSUME NEW w \in Workers, FullInv, LoopTest(w) PROVE FullInv'
<1>1. /\ UNCHANGED <<reqUid, nbdReq, fragSet, tasks, toIot, fromIot, closed, fault>>
      /\ pc[w] = "test"
      /\ \/ /\ info[w].frag \in Frags(info[w].uid)
            /\ pc' = [pc EXCEPT ![w] = "send"] /\ UNCHANGED info
         \/ info[w].frag \notin Frags(info[w].uid) /\ EndTask(w)
  BY DEF LoopTest, reqVars, iotVars
<1>2. FragmentsAccountedFor'
  BY <1>1, TestAccounts
<1>3. FaultsHaveACause' /\ RepliesFit'
  BY <1>1 DEF FullInv, Accounts, FaultsHaveACause, RepliesFit, Running
<1>4. \A v \in Workers : pc'[v] = "send" =>
        \/ pc[v] = "send" /\ info'[v] = info[v]
        \/ info'[v].frag \in Frags(info'[v].uid)
  BY <1>1 DEF EndTask, FullInv, IInv, TypeOK
<1> QED
  BY <1>1, <1>2, <1>3, <1>4, LoopTestIInv, KeptMessages DEF FullInv

LEMMA StaleLoopTestFullInv ==
  ASSUME NEW w \in Workers, FullInv, StaleLoopTest(w) PROVE FullInv'
<1>1. /\ UNCHANGED <<reqUid, nbdReq, fragSet, tasks, toIot, fromIot, closed>>
      /\ pc[w] = "test" /\ info[w].uid \notin active
      /\ \/ EndTask(w) /\ UNCHANGED fault
         \/ /\ "more" \in StaleRead
            /\ pc' = [pc EXCEPT ![w] = "send"] /\ UNCHANGED <<info, fault>>
         \/ /\ "fault" \in StaleRead /\ fault' = "stale_read"
            /\ UNCHANGED <<pc, info>>
  BY DEF StaleLoopTest, reqVars, iotVars
<1>2. info[w].frag \notin Frags(info[w].uid)
  BY <1>1, IInvReleaseIsLate DEF FullInv, StaleOnlyAtLastTest, Busy
<1>3. FragmentsAccountedFor'
  BY <1>1, <1>2, TestAccounts
<1>4. FaultsHaveACause' /\ RepliesFit'
  BY <1>1 DEF FullInv, Accounts, FaultsHaveACause, RepliesFit, Running
<1>5. "more" \notin StaleRead =>
        \A v \in Workers : pc'[v] = "send" => pc[v] = "send" /\ info'[v] = info[v]
  BY <1>1 DEF EndTask, FullInv, IInv, TypeOK
<1> QED
  BY <1>1, <1>3, <1>4, <1>5, StaleLoopTestIInv, KeptMessages DEF FullInv

LEMMA SendRequestFullInv ==
  ASSUME NEW w \in Workers, FullInv, SendRequest(w) PROVE FullInv'
<1>0. PICK i : i = info[w]
  OBVIOUS
<1>a. PICK c : c = Command(i)
  OBVIOUS
<1>1. /\ pc[w] = "send"
      /\ pc' = [pc EXCEPT ![w] = "test"]
      /\ \A v \in Workers \ {w} : info'[v] = info[v]
      /\ UNCHANGED <<nbdReq, fromIot, closed>>
      /\ \/ toIot' = [toIot EXCEPT ![i.sock] = Append(toIot[i.sock], c)] /\ UNCHANGED fault
         \/ fault' \in {"none", "sigpipe"} /\ closed # {} /\ UNCHANGED toIot
  BY <1>0, <1>a DEF SendRequest, reqVars, FullInv, IInv, TypeOK
<1>2. /\ i \in Info /\ Addressed(i) /\ c \in Commands /\ c.uid = i.uid /\ c.frag = i.frag
      /\ i.sock \in IotSocks
  BY <1>0, <1>a, <1>1, CommandWellFormed DEF Info, FullInv, IInv
<1>3. c.type = nbdReq[c.uid].type
  BY <1>a, <1>2 DEF Command, Addressed
<1>4. toIot[i.sock] \in Seq(Commands)
  BY <1>2 DEF FullInv, IInv, TypeOK
<1>5. ASSUME NEW s \in IotSocks, NEW k \in 1 .. Len(toIot'[s])
      PROVE  (k \in 1 .. Len(toIot[s]) /\ toIot'[s][k] = toIot[s][k]) \/ toIot'[s][k] = c
  <2>1. \A j \in 1 .. Len(Append(toIot[i.sock], c)) :
          \/ j \in 1 .. Len(toIot[i.sock]) /\ Append(toIot[i.sock], c)[j] = toIot[i.sock][j]
          \/ Append(toIot[i.sock], c)[j] = c
    BY <1>2, <1>4, AppendElements
  <2> QED
    BY <1>1, <2>1 DEF FullInv, IInv, TypeOK
<1>6. FaultsHaveACause' /\ RepliesFit'
  BY <1>1 DEF FullInv, Accounts, FaultsHaveACause, RepliesFit, Running
<1>7. CommandsTyped'
  BY <1>1, <1>3, <1>5 DEF CommandsTyped, FullInv, Accounts
<1>8. OwnFragments'
  <2>1. \A v \in Workers : pc'[v] = "send" => pc[v] = "send" /\ info'[v] = info[v]
    BY <1>1 DEF FullInv, IInv, TypeOK
  <2>2. \A n : Frags(n)' = Frags(n)
    BY <1>1 DEF Frags
  <2>3. "more" \notin StaleRead => c.frag \in Frags(c.uid)
    BY <1>0, <1>1, <1>2 DEF FullInv, Accounts, OwnFragments
  <2>4. \A s \in IotSocks : \A k \in 1 .. Len(toIot'[s]) :
          "more" \notin StaleRead => toIot'[s][k].frag \in Frags(toIot'[s][k].uid)
    BY <1>5, <2>3 DEF FullInv, Accounts, OwnFragments
  <2> QED
    BY <1>1, <2>1, <2>2, <2>4 DEF OwnFragments, FullInv, Accounts
<1> QED
  BY <1>6, <1>7, <1>8, SendRequestIInv, SendRequestAccounts DEF FullInv, Accounts

LEMMA NbdRequestsHandleFullInv == FullInv /\ NbdRequestsHandle => FullInv'
<1> SUFFICES ASSUME FullInv, NbdRequestsHandle PROVE FullInv'
  OBVIOUS
<1>1. PICK r : /\ nbdReq' = [nbdReq EXCEPT ![reqUid] = r]
               /\ UNCHANGED <<pc, info, toIot, fromIot, closed, fault>>
  BY DEF NbdRequestsHandle, iotVars
<1>2. \A n \in Requests \ {reqUid} : nbdReq'[n] = nbdReq[n] /\ Frags(n)' = Frags(n)
  BY <1>1 DEF FullInv, IInv, TypeOK, Frags
<1>3. ASSUME NEW s \in IotSocks
      PROVE  /\ \A k \in 1 .. Len(toIot[s]) : toIot[s][k].uid \in Requests \ {reqUid}
             /\ \A k \in 1 .. Len(fromIot[s]) : fromIot[s][k].uid \in Requests \ {reqUid}
  <2>1. toIot[s] \in Seq(Commands) /\ fromIot[s] \in Seq(Answers) /\ reqUid \in Nat
    BY DEF FullInv, IInv, TypeOK
  <2>2. /\ \A k \in 1 .. Len(toIot[s]) : toIot[s][k] \in Commands
        /\ \A k \in 1 .. Len(fromIot[s]) : fromIot[s][k] \in Answers
    BY <2>1
  <2>3. /\ \A k \in 1 .. Len(toIot[s]) : toIot[s][k].uid < reqUid
        /\ \A k \in 1 .. Len(fromIot[s]) : fromIot[s][k].uid < reqUid
    BY DEF FullInv, IInv, SentOnce, Sent
  <2> QED
    BY <2>1, <2>2, <2>3 DEF Commands, Answers
<1>4. \A w \in Workers : pc[w] = "send" => info[w].uid \in Requests \ {reqUid}
  <2>1. \A w \in Workers : Busy(w) => info[w] \in Info /\ info[w].uid < reqUid
    BY DEF FullInv, IInv, TypeOK, HoldersAddressed, Addressed
  <2> QED
    BY <2>1 DEF Busy, Info, FullInv, IInv, TypeOK
<1>5. FaultsHaveACause' /\ RepliesFit'
  BY <1>1 DEF FullInv, Accounts, FaultsHaveACause, RepliesFit, Running
<1>6. CommandsTyped'
  BY <1>1, <1>2, <1>3 DEF CommandsTyped, FullInv, Accounts
<1>7. OwnFragments'
  BY <1>1, <1>2, <1>3, <1>4 DEF OwnFragments, FullInv, Accounts
<1> QED
  BY <1>5, <1>6, <1>7, NbdRequestsHandleIInv, NbdRequestsHandleAccounts DEF FullInv, Accounts

LEMMA StutterFullInv == FullInv /\ UNCHANGED vars => FullInv'
<1> SUFFICES ASSUME FullInv, UNCHANGED vars PROVE FullInv'
  OBVIOUS
<1>1. UNCHANGED <<reqUid, nbdReq, fragSet, tasks, toIot, fromIot, closed, pc, info, fault>>
  BY DEF vars, reqVars, workerVars, iotVars
<1>2. FragmentsAccountedFor'
  BY <1>1, NoMoveAccounts DEF FullInv, Accounts, Busy, WillSend
<1>3. FaultsHaveACause' /\ RepliesFit'
  BY <1>1 DEF FullInv, Accounts, FaultsHaveACause, RepliesFit, Running
<1> QED
  BY <1>1, <1>2, <1>3, StutterIInv, KeptMessages DEF FullInv

LEMMA InitFullInv == Init => FullInv
<1> SUFFICES ASSUME Init PROVE FullInv
  OBVIOUS
<1>1. FragmentsAccountedFor
  BY DEF Init, FragmentsAccountedFor
<1>2. FaultsHaveACause
  BY DEF Init, FaultsHaveACause, Running
<1>3. RepliesFit /\ CommandsTyped
  BY AtlasAssumption DEF Init, RepliesFit, CommandsTyped
<1>4. OwnFragments
  BY DEF Init, OwnFragments
<1> QED
  BY <1>1, <1>2, <1>3, <1>4, InitIInv DEF FullInv, Accounts

LEMMA NextFullInv == FullInv /\ [Next]_vars => FullInv'
<1> SUFFICES ASSUME FullInv, [Next]_vars PROVE FullInv'
  OBVIOUS
<1>1. CASE ReactorStep
  BY <1>1, NbdRequestsHandleFullInv, IotHandleFullInv, IotHandleUnknownFullInv,
     RecvClosedFullInv DEF ReactorStep
<1>2. CASE \E w \in Workers : WorkerStep(w)
  BY <1>2, DequeueFullInv, LoopTestFullInv, StaleLoopTestFullInv, SendRequestFullInv
     DEF WorkerStep
<1>3. CASE EnvironmentStep
  BY <1>3, KernelIssuesFullInv, PeerClosesFullInv, IotServesFullInv DEF EnvironmentStep
<1>4. CASE Quiet
  BY <1>4, StutterFullInv DEF Quiet
<1>5. CASE UNCHANGED vars
  BY <1>5, StutterFullInv
<1> QED
  BY <1>1, <1>2, <1>3, <1>4, <1>5 DEF Next

(* The accounting of the fragments is inductive together with IInv.          *)
THEOREM FullInvariance == Spec => []FullInv
BY InitFullInv, NextFullInv, PTL DEF Spec

(* From ToAwait to the last tick of ReadReply no fragment is sent twice, in   *)
(* two places, answered twice or forgotten, unless a peer closes: for any    *)
(* number of nodes, workers and requests, whatever freed memory reads as.    *)
THEOREM FragmentsAreAccountedFor == Spec => []FragmentsAccountedFor
<1>1. FullInv => FragmentsAccountedFor
  BY DEF FullInv, Accounts
<1> QED
  BY <1>1, FullInvariance, PTL

(* The process stops only if a peer closes or a worker reads freed memory;    *)
(* in particular m_activeRequests[req_uid] finds its host for every reply    *)
(* unless such a read sent a worker round its loop once more.                *)
THEOREM FaultsAreCaused == Spec => []FaultsHaveACause
<1>1. FullInv => FaultsHaveACause
  BY DEF FullInv, Accounts
<1> QED
  BY <1>1, FullInvariance, PTL
----------------------------------------------------------------------------
(* The block device Atlas implements.                                        *)

LEMMA BlocksApart ==
  ASSUME NEW b \in Blocks, NEW c \in Blocks, IotOf(b) = IotOf(c), IotOffset(b) = IotOffset(c)
  PROVE  b = c
<1>1. Overlap(IotOffset(b), IotOffset(c))
  BY StripingAssumption, OffsetsOfBlocks, IotOffsetExact DEF Overlap
<1> QED
  BY <1>1, BlocksDoNotOverlap

LEMMA DeviceFragments ==
  ASSUME FullInv, NEW n \in 0 .. reqUid - 1
  PROVE  /\ n \in Requests /\ n < Issued /\ Request(n) = nbdReq[n]
         /\ DevOp[n] = AbstractOp(nbdReq[n])
         /\ BD!Fragments(n) = Frags(n)
         /\ Frags(n) \subseteq Blocks
<1>1. /\ n \in Requests /\ reqUid \in Nat /\ reqUid <= MaxReqs /\ Len(nbdSock) \in Nat
      /\ Frags(n) \subseteq Blocks
  BY ReqUidBound, FragsInDevice DEF FullInv, IInv, TypeOK
<1>2. n < Issued /\ Request(n) = nbdReq[n]
  BY <1>1 DEF Issued, Request
<1>3. DevOp[n] = AbstractOp(nbdReq[n])
  BY <1>1, <1>2 DEF DevOp
<1> QED
  BY <1>1, <1>2, <1>3 DEF BD!Fragments, AbstractOp, Frags

(* A reply that waits in a socket is the fragment's only place.              *)
LEMMA RepliedPlace ==
  ASSUME FullInv, NEW n \in 0 .. reqUid - 1, NEW f \in Frags(n)
  PROVE  /\ \A p \in Replied(n, f) :
              /\ p[1] \in IotSocks /\ p[2] \in Nat /\ p = <<p[1], p[2]>>
              /\ p[2] \in Mentions(fromIot[p[1]], n, f)
              /\ f \in fragSet[n] /\ Places(n, f) = {<<"reply", p[1], p[2]>>}
              /\ Replied(n, f) = {p}
         /\ \A s \in IotSocks : \A k \in Mentions(fromIot[s], n, f) : <<s, k>> \in Replied(n, f)
<1>1. \A s \in IotSocks : \A k \in Mentions(fromIot[s], n, f) :
        k \in 1 .. SockCap /\ <<s, k>> \in Replied(n, f)
  <2> TAKE s \in IotSocks
  <2>1. Len(fromIot[s]) \in Nat /\ Len(fromIot[s]) <= SockCap
    BY DEF FullInv, IInv, TypeOK, Accounts, RepliesFit
  <2>2. \A k \in Mentions(fromIot[s], n, f) : k \in 1 .. SockCap
    BY <2>1, AtlasAssumption DEF Mentions
  <2> QED
    BY <2>2 DEF Replied
<1>2. \A p \in Replied(n, f) :
        /\ p[1] \in IotSocks /\ p[2] \in Nat /\ p = <<p[1], p[2]>>
        /\ p[2] \in Mentions(fromIot[p[1]], n, f)
  BY DEF Replied
<1>3. ASSUME NEW p \in Replied(n, f)
      PROVE  f \in fragSet[n] /\ Places(n, f) = {<<"reply", p[1], p[2]>>}
  <2>1. <<"reply", p[1], p[2]>> \in Places(n, f)
    BY <1>2, PlacesElements DEF PlacesAt
  <2>2. Accounted(n, f)
    BY DEF FullInv, Accounts, FragmentsAccountedFor
  <2> QED
    BY <2>1, <2>2, OnlyPlace
<1>4. \A p, q \in Replied(n, f) : p = q
  <2> SUFFICES ASSUME NEW p \in Replied(n, f), NEW q \in Replied(n, f) PROVE p = q
    OBVIOUS
  <2>1. <<"reply", p[1], p[2]>> = <<"reply", q[1], q[2]>>
    BY <1>3
  <2> QED
    BY <1>2, <2>1
<1>5. \A p \in Replied(n, f) : Replied(n, f) = {p}
  BY <1>4
<1> QED
  BY <1>1, <1>2, <1>3, <1>5

(* What the mapping of a pending fragment depends on.                        *)
LEMMA NotTaken ==
  ASSUME FullInv, NEW n \in 0 .. reqUid - 1, NEW f \in Frags(n), NEW p \in Places(n, f),
         p[1] # "reply"
  PROVE  f \in fragSet[n] /\ Replied(n, f) = {} /\ f \notin Taken(n)
<1>1. f \in fragSet[n] /\ Places(n, f) = {p}
  BY OnlyPlace DEF FullInv, Accounts, FragmentsAccountedFor
<1>2. Replied(n, f) = {}
  BY <1>1, RepliedPlace
<1> QED
  BY <1>1, <1>2 DEF Taken

(* A request with a fragment outstanding is unanswered.                      *)
LEMMA OutstandingIsPending ==
  ASSUME FullInv, NEW n \in 0 .. reqUid - 1, fragSet[n] # {}
  PROVE  n \in active /\ replies[n] = 0 /\ DevStatus[n] = "pending"
<1>1. n \in active /\ n \in Requests /\ n < Issued
  BY DeviceFragments DEF FullInv, IInv, ReleasedWhenDone
<1>2. replies[n] = 0
  BY <1>1 DEF FullInv, IInv, ReleasedWhenDone
<1>3. Issued \in Nat /\ n \in Nat
  BY DEF FullInv, IInv, TypeOK, Issued
<1> QED
  BY <1>1, <1>2, <1>3 DEF DevStatus

SomeReply(R) == CHOOSE p \in R : TRUE

(* What a READ's fragment has brought back.                                  *)
LEMMA GotValue ==
  \A n, f : Got(n, f) =
    IF Request(n).type # "READ" \/ f \notin Taken(n) THEN Blank
    ELSE IF f \notin fragSet[n] THEN dataBuf[n][f]
    ELSE fromIot[SomeReply(Replied(n, f))[1]][SomeReply(Replied(n, f))[2]].data
BY DEF Got, SomeReply

LEMMA GotValueNext ==
  (\A n, f : Got(n, f) =
    IF Request(n).type # "READ" \/ f \notin Taken(n) THEN Blank
    ELSE IF f \notin fragSet[n] THEN dataBuf[n][f]
    ELSE fromIot[SomeReply(Replied(n, f))[1]][SomeReply(Replied(n, f))[2]].data)'
BY GotValue, PTL

LEMMA SomeReplyOf ==
  ASSUME NEW R, NEW p, R = {p} PROVE SomeReply(R) = p
BY DEF SomeReply

LEMMA SameMap ==
  ASSUME UNCHANGED <<nbdSock, reqUid, nbdReq, fragSet, dataBuf, replies, fromIot, store>>
  PROVE  UNCHANGED BD!bdVars
<1>1. DevMem' = DevMem
  BY DEF DevMem
<1>2. Issued' = Issued /\ \A n : Request(n)' = Request(n)
  BY DEF Issued, Request
<1>3. DevOp' = DevOp /\ DevStatus' = DevStatus
  BY <1>2 DEF DevOp, DevStatus
<1>4. \A n, f : Replied(n, f)' = Replied(n, f)
  BY DEF Replied, Mentions
<1>5. \A n : Taken(n)' = Taken(n)
  BY <1>4 DEF Taken, Frags
<1>6. \A n, f : Got(n, f)' = Got(n, f)
  BY <1>2, <1>4, <1>5, GotValue, GotValueNext
<1> QED
  BY <1>1, <1>3, <1>5, <1>6 DEF BD!bdVars, DevTaken, DevGot

LEMMA KernelIssuesBD ==
  ASSUME FullInv, KernelIssues PROVE BD!Next
<1>1. PICK r \in Shapes : nbdSock' = Append(nbdSock, r)
  BY DEF KernelIssues
<1>2. /\ UNCHANGED <<reqUid, nbdReq, fragSet, dataBuf, replies, fromIot, store>>
      /\ Issued < MaxReqs
  BY DEF KernelIssues, reqVars, iotVars
<1>3. /\ nbdSock \in Seq(Shapes) /\ Len(nbdSock) \in Nat /\ reqUid \in Nat
  BY DEF FullInv, IInv, TypeOK
<1>4. PICK k \in Requests : k = Issued /\ k = reqUid + Len(nbdSock)
  BY <1>2, <1>3, AtlasAssumption DEF Issued, Requests
<1>5. Issued' = k + 1
  BY <1>1, <1>2, <1>3, <1>4 DEF Issued
<1>6. \A n \in Requests : n < k => Request(n)' = Request(n)
  <2> SUFFICES ASSUME NEW n \in Requests, n < k PROVE Request(n)' = Request(n)
    OBVIOUS
  <2>1. n \in Nat /\ k \in Nat
    BY AtlasAssumption DEF Requests
  <2>2. CASE n < reqUid
    BY <1>2, <2>2 DEF Request
  <2>3. CASE ~(n < reqUid)
    <3>1. nbdSock'[n - reqUid + 1] = nbdSock[n - reqUid + 1]
      BY <1>1, <1>3, <1>4, <2>1, <2>3
    <3> QED
      BY <1>2, <1>4, <1>5, <2>1, <2>3, <3>1 DEF Request
  <2> QED
    BY <2>2, <2>3
<1>7. Request(k)' = r
  <2>1. nbdSock'[k - reqUid + 1] = r
    BY <1>1, <1>3, <1>4
  <2> QED
    BY <1>2, <1>3, <1>4, <1>5, <2>1 DEF Request
<1>8. k \in Nat /\ \A n \in Requests : n \in Nat
  BY AtlasAssumption DEF Requests
<1>9. DevOp' = [DevOp EXCEPT ![k] = AbstractOp(r)]
  <2>1. DevOp' = [n \in Requests |-> IF n < k + 1 THEN AbstractOp(Request(n)')
                      ELSE [type |-> "NONE", first |-> 0, frags |-> 0]]
    BY <1>5 DEF DevOp, AbstractOp
  <2>2. DevOp = [n \in Requests |-> IF n < k THEN AbstractOp(Request(n))
                      ELSE [type |-> "NONE", first |-> 0, frags |-> 0]]
    BY <1>4 DEF DevOp
  <2>3. ASSUME NEW n \in Requests
        PROVE  DevOp'[n] = IF n = k THEN AbstractOp(r) ELSE DevOp[n]
    BY <1>6, <1>7, <1>8, <2>1, <2>2
  <2> QED
    BY <2>1, <2>2, <2>3
<1>10. DevStatus[k] = "unused" /\ DevStatus' = [DevStatus EXCEPT ![k] = "pending"]
  <2>1. replies[k] = 0
    BY <1>3, <1>4 DEF FullInv, IInv, ReleasedWhenDone
  <2>2. DevStatus' = [n \in Requests |-> IF n >= k + 1 THEN "unused"
                        ELSE IF replies[n] = 0 THEN "pending" ELSE "answered"]
    BY <1>2, <1>5 DEF DevStatus
  <2>3. DevStatus = [n \in Requests |-> IF n >= k THEN "unused"
                       ELSE IF replies[n] = 0 THEN "pending" ELSE "answered"]
    BY <1>4 DEF DevStatus
  <2>4. ASSUME NEW n \in Requests
        PROVE  DevStatus'[n] = IF n = k THEN "pending" ELSE DevStatus[n]
    BY <1>8, <2>1, <2>2, <2>3
  <2>5. DevStatus[k] = "unused"
    BY <1>8, <2>3
  <2> QED
    BY <2>2, <2>3, <2>4, <2>5
<1>11. DevMem' = DevMem
  BY <1>2 DEF DevMem
<1>12. \A n, f : Replied(n, f)' = Replied(n, f)
  BY <1>2 DEF Replied, Mentions
<1>13. \A n : Taken(n)' = Taken(n)
  BY <1>2, <1>12 DEF Taken, Frags
<1>14. \A n \in Requests : \A f : n < reqUid => Got(n, f)' = Got(n, f)
  <2>1. \A n \in Requests : n < reqUid => Request(n)' = Request(n)
    BY <1>3, <1>4, <1>6, <1>8
  <2> QED
    BY <1>2, <1>12, <1>13, <2>1, GotValue, GotValueNext
<1>15. DevTaken' = DevTaken /\ DevGot' = DevGot
  BY <1>2, <1>13, <1>14 DEF DevTaken, DevGot
<1>16. BD!Issue(k)
  BY <1>9, <1>10, <1>11, <1>15 DEF BD!Issue
<1> QED
  BY <1>16 DEF BD!Next

(* Reading a request from the socket changes nothing for the kernel.         *)
LEMMA NbdRequestsHandleBD ==
  ASSUME FullInv, FullInv', NbdRequestsHandle PROVE UNCHANGED BD!bdVars
<1>0. PICK r : r = Head(nbdSock)
  OBVIOUS
<1>00. PICK k : k = reqUid
  OBVIOUS
<1>1. /\ nbdSock # <<>> /\ nbdSock' = Tail(nbdSock) /\ reqUid' = reqUid + 1
      /\ nbdReq' = [nbdReq EXCEPT ![k] = r]
      /\ fragSet' = [fragSet EXCEPT ![k] = ToAwait(r)]
      /\ \E d : dataBuf' = [dataBuf EXCEPT ![k] = d]
      /\ UNCHANGED <<replies, fromIot, store>>
  BY <1>0, <1>00 DEF NbdRequestsHandle, iotVars
<1>2. /\ nbdSock \in Seq(Shapes) /\ Len(nbdSock) \in Nat \ {0} /\ k \in Nat
      /\ Len(nbdSock') = Len(nbdSock) - 1 /\ r = nbdSock[1]
      /\ \A i \in 1 .. Len(nbdSock) - 1 : nbdSock'[i] = nbdSock[i + 1]
  BY <1>0, <1>00, <1>1 DEF FullInv, IInv, TypeOK
<1>3. Issued' = Issued /\ Issued = k + Len(nbdSock)
  BY <1>00, <1>1, <1>2 DEF Issued
<1>4. k \in Requests /\ \A n \in Requests : n \in Nat
  BY <1>2, <1>3, AtlasAssumption DEF Requests, FullInv, IInv, TypeOK
<1>5. /\ nbdReq'[k] = r /\ fragSet'[k] = ToAwait(r)
      /\ \A n \in Requests \ {k} : /\ nbdReq'[n] = nbdReq[n] /\ fragSet'[n] = fragSet[n]
                                  /\ dataBuf'[n] = dataBuf[n]
  BY <1>1, <1>4 DEF FullInv, IInv, TypeOK
<1>6. \A n \in Requests : Request(n)' = Request(n)
  <2> SUFFICES ASSUME NEW n \in Requests PROVE Request(n)' = Request(n)
    OBVIOUS
  <2>1. CASE n < k
    BY <1>00, <1>1, <1>2, <1>4, <1>5, <2>1 DEF Request
  <2>2. CASE n = k
    BY <1>00, <1>1, <1>2, <1>3, <1>5, <2>2 DEF Request
  <2>3. CASE n > k /\ n < Issued
    <3>1. nbdSock'[n - (k + 1) + 1] = nbdSock[n - k + 1]
      BY <1>2, <1>3, <1>4, <2>3
    <3> QED
      BY <1>00, <1>1, <1>2, <1>3, <1>4, <2>3, <3>1 DEF Request
  <2>4. CASE n > k /\ ~(n < Issued)
    BY <1>00, <1>1, <1>2, <1>3, <1>4, <2>4 DEF Request
  <2>5. n \in Nat /\ k \in Nat
    BY <1>2, <1>4
  <2>6. n < k \/ n = k \/ (n > k /\ n < Issued) \/ (n > k /\ ~(n < Issued))
    BY <2>5
  <2> QED
    BY <2>1, <2>2, <2>3, <2>4, <2>6
<1>7. DevOp' = DevOp /\ DevStatus' = DevStatus /\ DevMem' = DevMem
  BY <1>1, <1>3, <1>6 DEF DevOp, DevStatus, DevMem, AbstractOp
<1>8. \A n, f : Replied(n, f)' = Replied(n, f)
  BY <1>1 DEF Replied, Mentions
<1>9. \A n \in Requests \ {k} : Taken(n)' = Taken(n)
  BY <1>5, <1>8 DEF Taken, Frags
<1>10. Taken(k)' = {}
  <2>1. \A s \in IotSocks : \A j \in 1 .. Len(fromIot[s]) : fromIot[s][j].uid < k
    BY <1>00 DEF FullInv, IInv, SentOnce, Sent
  <2>2. \A f : Replied(k, f) = {}
    BY <1>2, <2>1 DEF Replied, Mentions
  <2> QED
    BY <1>5, <1>8, <2>2 DEF Taken, Frags, ToAwait
<1>11. \A n \in Requests \ {k} : \A f : Got(n, f)' = Got(n, f)
  BY <1>1, <1>5, <1>6, <1>8, <1>9, GotValue, GotValueNext
<1>12. \A f : Got(k, f)' = Blank
  BY <1>10, GotValueNext
<1>13. \A n \in Requests : n < k + 1 <=> n < k \/ n = k
  BY <1>2, <1>4
<1>14. DevTaken' = DevTaken
  <2>1. DevTaken' = [n \in Requests |-> IF n < k + 1 THEN Taken(n)' ELSE {}]
    BY <1>00, <1>1 DEF DevTaken
  <2>2. DevTaken = [n \in Requests |-> IF n < k THEN Taken(n) ELSE {}]
    BY <1>00 DEF DevTaken
  <2>3. ~(k < k)
    BY <1>2
  <2> QED
    BY <1>9, <1>10, <1>13, <2>1, <2>2, <2>3
<1>15. DevGot' = DevGot
  <2>1. DevGot' = [n \in Requests |-> [f \in Blocks |->
                     IF n < k + 1 THEN Got(n, f)' ELSE Blank]]
    BY <1>00, <1>1 DEF DevGot
  <2>2. DevGot = [n \in Requests |-> [f \in Blocks |-> IF n < k THEN Got(n, f) ELSE Blank]]
    BY <1>00 DEF DevGot
  <2> QED
    BY <1>2, <1>11, <1>12, <1>13, <2>1, <2>2
<1> QED
  BY <1>7, <1>14, <1>15 DEF BD!bdVars
(* What the mapping says of a fragment, in one formula that also holds next. *)
Mapped(n, f) ==
  /\ Request(n) = nbdReq[n]
  /\ f \in Taken(n) <=> f \notin fragSet[n] \/ Replied(n, f) # {}
  /\ \A s \in IotSocks : \A k \in Mentions(fromIot[s], n, f) : <<s, k>> \in Replied(n, f)
  /\ \A p \in Replied(n, f) :
       /\ p[1] \in IotSocks /\ p[2] \in Nat /\ p = <<p[1], p[2]>>
       /\ p[2] \in Mentions(fromIot[p[1]], n, f)
       /\ f \in fragSet[n]
       /\ Replied(n, f) = {p}
       /\ nbdReq[n].type = "READ" => Got(n, f) = fromIot[p[1]][p[2]].data
  /\ nbdReq[n].type = "READ" /\ f \notin fragSet[n] => Got(n, f) = dataBuf[n][f]
  /\ nbdReq[n].type # "READ" \/ f \notin Taken(n) => Got(n, f) = Blank

AllMapped == \A n \in 0 .. reqUid - 1 : \A f \in Frags(n) : Mapped(n, f)

LEMMA FullInvMapped == FullInv => AllMapped
<1> SUFFICES ASSUME FullInv, NEW n \in 0 .. reqUid - 1, NEW f \in Frags(n)
             PROVE  Mapped(n, f)
  BY DEF AllMapped
<1>1. Request(n) = nbdReq[n]
  BY DeviceFragments
<1>2. f \in Taken(n) <=> f \notin fragSet[n] \/ Replied(n, f) # {}
  BY DEF Taken
<1>3. \A p \in Replied(n, f) : SomeReply(Replied(n, f)) = p
  BY RepliedPlace, SomeReplyOf
<1>4. \A p \in Replied(n, f) : nbdReq[n].type = "READ" =>
        Got(n, f) = fromIot[p[1]][p[2]].data
  BY <1>1, <1>2, <1>3, RepliedPlace, GotValue
<1> QED
  BY <1>1, <1>2, <1>4, RepliedPlace, GotValue DEF Mapped

LEMMA FullInvMappedNext == FullInv' => AllMapped'
BY FullInvMapped, PTL

(* The functions DevTaken and DevGot, from their values.                     *)
LEMMA SameTakenGot ==
  ASSUME FullInv, UNCHANGED <<reqUid, nbdReq, nbdSock>>,
         \A n \in 0 .. reqUid - 1 : \A f \in Frags(n) :
           /\ f \in Taken(n)' <=> f \in Taken(n)
           /\ Got(n, f)' = Got(n, f)
  PROVE  DevTaken' = DevTaken /\ DevGot' = DevGot /\ DevOp' = DevOp
<1>1. \A n : Frags(n)' = Frags(n) /\ Request(n)' = Request(n)
  BY DEF Frags, Request, Issued
<1>2. \A n \in 0 .. reqUid - 1 : Taken(n)' = Taken(n)
  <2> TAKE n \in 0 .. reqUid - 1
  <2>1. Taken(n) \subseteq Frags(n) /\ Taken(n)' \subseteq Frags(n)
    BY <1>1 DEF Taken
  <2> QED
    BY <2>1
<1>3. \A n \in 0 .. reqUid - 1 : \A f : Got(n, f)' = Got(n, f)
  <2> TAKE n \in 0 .. reqUid - 1
  <2> TAKE f
  <2>1. CASE f \in Frags(n)
    BY <2>1
  <2>2. CASE f \notin Frags(n)
    <3>1. f \notin Taken(n) /\ f \notin Taken(n)'
      BY <1>1, <2>2 DEF Taken
    <3> QED
      BY <3>1, GotValue, GotValueNext
  <2> QED
    BY <2>1, <2>2
<1>4. \A n \in Requests : n < reqUid => n \in 0 .. reqUid - 1
  BY AtlasAssumption DEF Requests, FullInv, IInv, TypeOK
<1> QED
  BY <1>1, <1>2, <1>3, <1>4 DEF DevTaken, DevGot, DevOp, Issued

(* ReadReply moves what a fragment brought from the socket into the buffer;   *)
(* NbdRequestDone answers.                                                   *)
LEMMA IotHandleBD ==
  ASSUME NEW s \in IotSocks, FullInv, FullInv', "more" \notin StaleRead, IotHandle(s)
  PROVE  [BD!Next]_BD!bdVars
<1>0. PICK m : m = Head(fromIot[s])
  OBVIOUS
<1>00. PICK n : n = m.uid
  OBVIOUS
<1>000. PICK f : f = m.frag
  OBVIOUS
<1>1. /\ fromIot[s] # <<>> /\ n \in active
      /\ fragSet' = [fragSet EXCEPT ![n] = fragSet[n] \ {f}]
      /\ dataBuf' = IF nbdReq[n].type = "READ"
                    THEN [dataBuf EXCEPT ![n][f] = m.data] ELSE dataBuf
      /\ fromIot' = [fromIot EXCEPT ![s] = Tail(fromIot[s])]
      /\ UNCHANGED <<nbdSock, reqUid, nbdReq, toIot, store, closed>>
  BY <1>0, <1>00, <1>000 DEF IotHandle, ReadReply
<1>2. \/ UNCHANGED replies
      \/ /\ fragSet'[n] = {}
         /\ replies' = [replies EXCEPT ![n] = replies[n] + 1]
  BY <1>0, <1>00 DEF IotHandle, NbdRequestDone
<1>3. /\ TypeOK /\ fromIot[s] \in Seq(Answers) /\ m = fromIot[s][1]
      /\ 1 \in 1 .. Len(fromIot[s]) /\ n \in 0 .. reqUid - 1
  BY <1>0, <1>1, TailElements DEF FullInv, IInv, TypeOK
<1>4. f \in Frags(n) /\ n \in Requests /\ f \in Blocks
  BY <1>00, <1>000, <1>3, DeviceFragments DEF FullInv, Accounts, OwnFragments
<1>5. 1 \in Mentions(fromIot[s], n, f)
  BY <1>00, <1>000, <1>3 DEF Mentions
<1>6. /\ \A k \in 0 .. reqUid - 1 : \A g \in Frags(k) : Mapped(k, g) /\ Mapped(k, g)'
      /\ \A k : Frags(k)' = Frags(k)
  <2>1. \A k : Frags(k)' = Frags(k)
    BY <1>1 DEF Frags
  <2> QED
    BY <1>1, <2>1, FullInvMapped, FullInvMappedNext DEF AllMapped
<1>7. /\ f \notin fragSet'[n]
      /\ \A k \in Requests : \A g : ~(k = n /\ g = f) => (g \in fragSet'[k] <=> g \in fragSet[k])
      /\ nbdReq[n].type = "READ" => dataBuf'[n][f] = m.data
      /\ \A k \in Requests : \A g \in Blocks : ~(k = n /\ g = f) => dataBuf'[k][g] = dataBuf[k][g]
  BY <1>1, <1>3, <1>4 DEF TypeOK
<1>8. /\ fromIot'[s] = Tail(fromIot[s])
      /\ \A i \in IotSocks \ {s} : fromIot'[i] = fromIot[i]
      /\ \A k \in Nat \ {0} : k + 1 \in 1 .. Len(fromIot[s]) =>
            fromIot'[s][k] = fromIot[s][k + 1]
  BY <1>1, <1>3 DEF TypeOK
<1>9. ASSUME NEW k \in 0 .. reqUid - 1, NEW g \in Frags(k)
      PROVE  /\ g \in Taken(k)' <=> g \in Taken(k)
             /\ Got(k, g)' = Got(k, g)
  <2>1. CASE k = n /\ g = f
    <3>1. <<s, 1>> \in Replied(n, f)
      BY <1>3, <1>4, <1>5, <1>6 DEF Mapped
    <3>2. f \in Taken(n)
      BY <1>3, <1>4, <1>6, <3>1 DEF Mapped
    <3>3. f \in Taken(n)'
      BY <1>3, <1>4, <1>6, <1>7 DEF Mapped
    <3>4. nbdReq[n].type = "READ" => Got(n, f) = m.data
      BY <1>3, <1>4, <1>6, <3>1 DEF Mapped
    <3>5. nbdReq[n].type = "READ" => Got(n, f)' = m.data
      BY <1>1, <1>3, <1>4, <1>6, <1>7 DEF Mapped
    <3>6. nbdReq[n].type # "READ" => Got(n, f) = Blank /\ Got(n, f)' = Blank
      BY <1>1, <1>3, <1>4, <1>6 DEF Mapped
    <3> QED
      BY <2>1, <3>2, <3>3, <3>4, <3>5, <3>6
  <2>2. CASE ~(k = n /\ g = f)
    <3>1. k \in Requests /\ g \in Blocks /\ Mapped(k, g) /\ Mapped(k, g)'
      BY <1>6, DeviceFragments
    <3>2. g \in fragSet'[k] <=> g \in fragSet[k]
      BY <1>7, <2>2, <3>1
    <3>3. dataBuf'[k][g] = dataBuf[k][g]
      BY <1>7, <2>2, <3>1
    <3>4. 1 \notin Mentions(fromIot[s], k, g)
      BY <1>00, <1>000, <1>3, <2>2 DEF Mentions
    <3>5. ASSUME NEW p \in Replied(k, g)
          PROVE  \E q \in Replied(k, g)' :
                   fromIot'[q[1]][q[2]] = fromIot[p[1]][p[2]]
      <4>1. /\ p[1] \in IotSocks /\ p[2] \in Nat /\ p = <<p[1], p[2]>>
            /\ p[2] \in Mentions(fromIot[p[1]], k, g)
        BY <3>1 DEF Mapped
      <4>2. CASE p[1] # s
        <5>1. p[2] \in Mentions(fromIot'[p[1]], k, g)
          BY <1>8, <4>1, <4>2
        <5>2. <<p[1], p[2]>> \in Replied(k, g)'
          BY <3>1, <4>1, <5>1 DEF Mapped
        <5> QED
          BY <1>8, <4>1, <4>2, <5>2
      <4>3. CASE p[1] = s
        <5>1. p[2] - 1 \in Mentions(Tail(fromIot[s]), k, g) /\ p[2] \in 1 .. Len(fromIot[s])
          <6>1. p[2] \in Mentions(fromIot[s], k, g) \ {1}
            BY <3>4, <4>1, <4>3
          <6>2. p[2] \in 1 .. Len(fromIot[s])
            BY <6>1 DEF Mentions
          <6> QED
            BY <1>1, <1>3, <6>1, <6>2, TailMentions
        <5>2. <<s, p[2] - 1>> \in Replied(k, g)'
          BY <1>8, <3>1, <5>1 DEF Mapped
        <5>3. p[2] - 1 \in Nat \ {0} /\ (p[2] - 1) + 1 = p[2]
          <6>1. p[2] # 1
            BY <3>4, <4>1, <4>3
          <6> QED
            BY <4>1, <5>1, <6>1
        <5>4. fromIot'[s][p[2] - 1] = fromIot[s][p[2]]
          BY <1>8, <5>1, <5>3
        <5> QED
          BY <4>3, <5>2, <5>4
      <4> QED
        BY <4>2, <4>3
    <3>6. ASSUME NEW q \in Replied(k, g)' PROVE Replied(k, g) # {}
      <4>1. /\ q[1] \in IotSocks /\ q[2] \in Nat /\ q = <<q[1], q[2]>>
            /\ q[2] \in Mentions(fromIot'[q[1]], k, g)
        BY <3>1 DEF Mapped
      <4>2. CASE q[1] # s
        BY <1>8, <3>1, <4>1, <4>2 DEF Mapped
      <4>3. CASE q[1] = s
        <5>1. q[2] + 1 \in Mentions(fromIot[s], k, g)
          BY <1>1, <1>3, <1>8, <4>1, <4>3, TailMentions
        <5> QED
          BY <3>1, <5>1 DEF Mapped
      <4> QED
        BY <4>2, <4>3
    <3>7. Replied(k, g)' # {} <=> Replied(k, g) # {}
      BY <3>5, <3>6
    <3>8. g \in Taken(k)' <=> g \in Taken(k)
      BY <3>1, <3>2, <3>7 DEF Mapped
    <3>9. Got(k, g)' = Got(k, g)
      <4>1. CASE nbdReq[k].type # "READ" \/ g \notin Taken(k)
        BY <1>1, <3>1, <3>8, <4>1 DEF Mapped
      <4>2. CASE nbdReq[k].type = "READ" /\ g \notin fragSet[k]
        BY <1>1, <3>1, <3>2, <3>3, <4>2 DEF Mapped
      <4>3. ASSUME nbdReq[k].type = "READ", NEW p \in Replied(k, g) PROVE Got(k, g)' = Got(k, g)
        <5>1. PICK q \in Replied(k, g)' : fromIot'[q[1]][q[2]] = fromIot[p[1]][p[2]]
          BY <3>5
        <5>2. Got(k, g) = fromIot[p[1]][p[2]].data
          BY <3>1, <4>3 DEF Mapped
        <5>3. Got(k, g)' = fromIot'[q[1]][q[2]].data
          BY <1>1, <3>1, <4>3 DEF Mapped
        <5> QED
          BY <5>1, <5>2, <5>3
      <4>4. g \in Taken(k) => g \notin fragSet[k] \/ Replied(k, g) # {}
        BY <3>1 DEF Mapped
      <4> QED
        BY <4>1, <4>2, <4>3, <4>4
    <3> QED
      BY <3>8, <3>9
  <2> QED
    BY <2>1, <2>2
<1>10. DevTaken' = DevTaken /\ DevGot' = DevGot /\ DevOp' = DevOp
  BY <1>1, <1>9, SameTakenGot
<1>11. DevMem' = DevMem /\ Issued' = Issued
  BY <1>1 DEF DevMem, Issued
<1>12. CASE UNCHANGED replies
  <2>1. DevStatus' = DevStatus
    BY <1>11, <1>12 DEF DevStatus
  <2> QED
    BY <1>10, <1>11, <2>1 DEF BD!bdVars
<1>13. CASE fragSet'[n] = {} /\ replies' = [replies EXCEPT ![n] = replies[n] + 1]
  <2>1. /\ DevStatus[n] = "pending" /\ replies[n] = 0 /\ n < Issued /\ n \in Nat
        /\ Issued \in Nat /\ BD!Fragments(n) = Frags(n)
    <3>1. <<s, 1>> \in Replied(n, f)
      BY <1>3, <1>4, <1>5, <1>6 DEF Mapped
    <3>2. f \in fragSet[n]
      BY <1>3, <1>4, <1>6, <3>1 DEF Mapped
    <3> QED
      BY <1>3, <3>2, OutstandingIsPending, DeviceFragments DEF TypeOK, Issued
  <2>2. DevTaken[n] = BD!Fragments(n)
    <3>1. Frags(n) \subseteq Taken(n)'
      BY <1>3, <1>6, <1>13 DEF Mapped
    <3>2. Taken(n)' \subseteq Frags(n)
      BY <1>6 DEF Taken
    <3>3. DevTaken[n] = Taken(n)
      BY <1>3, <1>4 DEF DevTaken, TypeOK
    <3>4. Taken(n) \subseteq Frags(n) /\ Taken(n) = Taken(n)'
      <4>1. Taken(n) \subseteq Frags(n)
        BY DEF Taken
      <4>2. \A g \in Frags(n) : g \in Taken(n)' <=> g \in Taken(n)
        BY <1>3, <1>9
      <4> QED
        BY <3>2, <4>1, <4>2
    <3>5. Taken(n) = Frags(n)
      BY <3>1, <3>4
    <3> QED
      BY <2>1, <3>3, <3>5
  <2>3. DevStatus' = [DevStatus EXCEPT ![n] = "answered"]
    <3>1. \A k \in Requests : replies'[k] = IF k = n THEN 1 ELSE replies[k]
      BY <1>3, <1>4, <1>13, <2>1 DEF TypeOK
    <3>2. DevStatus' = [k \in Requests |-> IF k >= Issued THEN "unused"
                          ELSE IF replies'[k] = 0 THEN "pending" ELSE "answered"]
      BY <1>11 DEF DevStatus
    <3>3. DevStatus = [k \in Requests |-> IF k >= Issued THEN "unused"
                         ELSE IF replies[k] = 0 THEN "pending" ELSE "answered"]
      BY DEF DevStatus
    <3>4. \A k \in Requests : DevStatus'[k] = IF k = n THEN "answered" ELSE DevStatus[k]
      BY <2>1, <3>1, <3>2, <3>3
    <3> QED
      BY <3>2, <3>3, <3>4
  <2>4. BD!Answer(n)
    BY <1>10, <1>11, <2>1, <2>2, <2>3 DEF BD!Answer
  <2> QED
    BY <1>4, <2>4 DEF BD!Next
<1> QED
  BY <1>2, <1>12, <1>13
(* A node that executes a command makes the fragment take effect.            *)
LEMMA IotServesBD ==
  ASSUME NEW s \in IotSocks, FullInv, FullInv', "more" \notin StaleRead, IotServes(s)
  PROVE  BD!Next
<1>0. PICK m : m = Head(toIot[s])
  OBVIOUS
<1>00. PICK n : n = m.uid
  OBVIOUS
<1>000. PICK f : f = m.frag
  OBVIOUS
<1>a. PICK a : a = [uid |-> n, frag |-> f,
                    data |-> IF m.type = "READ" THEN store[s][m.off] ELSE Blank]
  OBVIOUS
<1>1. /\ toIot[s] # <<>> /\ Len(fromIot[s]) < SockCap
      /\ store' = IF m.type = "WRITE" THEN [store EXCEPT ![s][m.off] = m.data] ELSE store
      /\ fromIot' = [fromIot EXCEPT ![s] = Append(fromIot[s], a)]
      /\ UNCHANGED <<nbdSock, reqUid, nbdReq, dataBuf, fragSet, replies>>
  BY <1>0, <1>00, <1>000, <1>a DEF IotServes, reqVars
<1>2. /\ TypeOK /\ toIot[s] \in Seq(Commands) /\ fromIot[s] \in Seq(Answers)
      /\ Len(fromIot[s]) \in Nat
      /\ m = toIot[s][1] /\ 1 \in 1 .. Len(toIot[s]) /\ m \in Commands
  BY <1>0, <1>1, TailElements DEF FullInv, IInv, TypeOK
<1>3. n \in 0 .. reqUid - 1 /\ n \in Requests
  <2>1. n < reqUid
    BY <1>00, <1>2 DEF FullInv, IInv, SentOnce, Sent
  <2> QED
    BY <1>00, <1>2, <2>1, ReqUidBound, AtlasAssumption DEF Commands, Requests
<1>4. /\ f \in Frags(n) /\ f \in Blocks /\ BlockOf(n, f) \in Blocks
      /\ nbdReq[n] \in Shapes
  <2>1. f \in Frags(n)
    BY <1>00, <1>000, <1>2 DEF FullInv, Accounts, OwnFragments
  <2> QED
    BY <1>2, <1>3, <2>1, ReqUidBound, FragsInDevice DEF FullInv, IInv
<1>5. /\ s = IotOf(BlockOf(n, f)) + 1 /\ m.off = IotOffset(BlockOf(n, f))
      /\ m.type = "WRITE" => m.data = Payload(n, f)
      /\ m.type = nbdReq[n].type
  BY <1>00, <1>000, <1>2, <1>4 DEF FullInv, IInv, CommandsAddressed, Accounts, CommandsTyped, BlockOf
<1>6. m.type \in {"READ", "WRITE"}
  <2>1. nbdReq[n].dataLen # 0
    <3>1. NumFrags(0) = 0
      BY StripingAssumption, SmallMod DEF NumFrags
    <3> QED
      BY <1>4, <3>1 DEF Frags
  <2> QED
    BY <1>4, <1>5, <2>1, RequestInDevice, AtlasAssumption DEF InDevice
<1>7. /\ f \in fragSet[n] /\ Replied(n, f) = {} /\ f \notin Taken(n)
  <2>1. <<"command", s, 1>> \in Places(n, f)
    BY <1>00, <1>000, <1>2, PlacesElements DEF PlacesAt, Mentions
  <2> QED
    BY <1>3, <1>4, <2>1, NotTaken
<1>8. DevStatus[n] = "pending"
  BY <1>3, <1>7, OutstandingIsPending
<1>9. /\ \A k \in 0 .. reqUid - 1 : \A g \in Frags(k) : Mapped(k, g) /\ Mapped(k, g)'
      /\ \A k : Frags(k)' = Frags(k) /\ Request(k)' = Request(k)
      /\ Issued' = Issued
  <2>1. \A k : Frags(k)' = Frags(k)
    BY <1>1 DEF Frags
  <2>2. Issued' = Issued /\ \A k : Request(k)' = Request(k)
    BY <1>1 DEF Issued, Request
  <2> QED
    BY <1>1, <2>1, <2>2, FullInvMapped, FullInvMappedNext DEF AllMapped
<1>10. a \in Answers /\ a.uid = n /\ a.frag = f
  <2>1. m.off \in Offsets /\ n \in Requests /\ f \in Nat /\ Blank \in Values
    BY <1>00, <1>000, <1>2 DEF Commands, Values
  <2>2. store[s][m.off] \in Values
    BY <1>2, <2>1 DEF TypeOK
  <2> QED
    BY <1>a, <2>1, <2>2 DEF Answers
<1>11. /\ fromIot'[s] = Append(fromIot[s], a)
       /\ fromIot'[s][Len(fromIot[s]) + 1] = a
       /\ \A j \in 1 .. Len(fromIot[s]) : fromIot'[s][j] = fromIot[s][j]
       /\ \A i \in IotSocks \ {s} : fromIot'[i] = fromIot[i]
  BY <1>1, <1>2, <1>10 DEF TypeOK
<1>12. ASSUME NEW k, NEW g
       PROVE  \A j : j \in Mentions(fromIot'[s], k, g) <=>
                \/ j \in Mentions(fromIot[s], k, g)
                \/ j = Len(fromIot[s]) + 1 /\ n = k /\ f = g
  BY <1>2, <1>10, <1>11, AppendMentions
<1>13. /\ f \in Taken(n)'
       /\ nbdReq[n].type = "READ" => Got(n, f)' = store[s][m.off]
       /\ nbdReq[n].type # "READ" => Got(n, f)' = Blank
  <2>1. Len(fromIot[s]) + 1 \in Mentions(fromIot'[s], n, f)
    BY <1>12
  <2>2. <<s, Len(fromIot[s]) + 1>> \in Replied(n, f)'
    BY <1>3, <1>4, <1>9, <2>1 DEF Mapped
  <2>3. f \in Taken(n)'
    BY <1>3, <1>4, <1>9, <2>2 DEF Mapped
  <2>4. nbdReq[n].type = "READ" => Got(n, f)' = a.data
    BY <1>1, <1>3, <1>4, <1>9, <1>11, <2>2 DEF Mapped
  <2> QED
    BY <1>1, <1>3, <1>4, <1>5, <1>9, <1>a, <2>3, <2>4 DEF Mapped
<1>14. ASSUME NEW k \in 0 .. reqUid - 1, NEW g \in Frags(k), ~(k = n /\ g = f)
       PROVE  /\ g \in Taken(k)' <=> g \in Taken(k)
              /\ Got(k, g)' = Got(k, g)
  <2>1. \A i \in IotSocks : Mentions(fromIot'[i], k, g) = Mentions(fromIot[i], k, g)
    <3>1. Mentions(fromIot'[s], k, g) = Mentions(fromIot[s], k, g)
      <4>1. \A j : j \in Mentions(fromIot'[s], k, g) <=> j \in Mentions(fromIot[s], k, g)
        BY <1>12, <1>14
      <4> QED
        BY <4>1
    <3> QED
      BY <1>11, <3>1
  <2>2. Replied(k, g)' = Replied(k, g)
    BY <2>1 DEF Replied
  <2>3. \A p \in Replied(k, g) : fromIot'[p[1]][p[2]] = fromIot[p[1]][p[2]]
    BY <1>11 DEF Replied, Mentions
  <2>4. g \in Taken(k)' <=> g \in Taken(k)
    BY <1>1, <1>9, <2>2 DEF Mapped
  <2>5. Mapped(k, g) /\ Mapped(k, g)'
    BY <1>9
  <2>6. CASE nbdReq[k].type # "READ" \/ g \notin Taken(k)
    BY <1>1, <2>4, <2>5, <2>6 DEF Mapped
  <2>7. CASE nbdReq[k].type = "READ" /\ g \notin fragSet[k]
    BY <1>1, <2>5, <2>7 DEF Mapped
  <2>8. ASSUME nbdReq[k].type = "READ", NEW p \in Replied(k, g) PROVE Got(k, g)' = Got(k, g)
    <3>1. Got(k, g) = fromIot[p[1]][p[2]].data
      BY <2>5, <2>8 DEF Mapped
    <3>2. Got(k, g)' = fromIot'[p[1]][p[2]].data
      BY <1>1, <2>2, <2>5, <2>8 DEF Mapped
    <3> QED
      BY <2>3, <3>1, <3>2
  <2>9. g \in Taken(k) => g \notin fragSet[k] \/ Replied(k, g) # {}
    BY <2>5 DEF Mapped
  <2> QED
    BY <2>4, <2>6, <2>7, <2>8, <2>9
<1>15. \A k \in 0 .. reqUid - 1 : Taken(k)' = IF k = n THEN Taken(n) \cup {f} ELSE Taken(k)
  <2> TAKE k \in 0 .. reqUid - 1
  <2>1. Taken(k)' \subseteq Frags(k) /\ Taken(k) \subseteq Frags(k)
    BY <1>9 DEF Taken
  <2> QED
    BY <1>4, <1>13, <1>14, <2>1
<1>16. \A k \in Requests : k < reqUid => k \in 0 .. reqUid - 1
  BY <1>2, AtlasAssumption DEF Requests, TypeOK
<1>17. n < reqUid /\ reqUid' = reqUid
  BY <1>1, <1>2, <1>3 DEF TypeOK
<1>18. DevTaken' = [DevTaken EXCEPT ![n] = DevTaken[n] \cup {f}]
  <2>1. DevTaken = [k \in Requests |-> IF k < reqUid THEN Taken(k) ELSE {}]
    BY DEF DevTaken
  <2>2. DevTaken' = [k \in Requests |-> IF k < reqUid THEN Taken(k)' ELSE {}]
    BY <1>17 DEF DevTaken
  <2>3. \A k \in Requests : DevTaken'[k] = IF k = n THEN DevTaken[n] \cup {f} ELSE DevTaken[k]
    BY <1>3, <1>15, <1>16, <1>17, <2>1, <2>2
  <2> QED
    BY <2>1, <2>2, <2>3
<1>19. f \in BD!Fragments(n) \ DevTaken[n]
  BY <1>3, <1>4, <1>7, <1>17, DeviceFragments DEF DevTaken
<1>20. DevOp' = DevOp /\ DevStatus' = DevStatus
  BY <1>1, <1>9 DEF DevOp, DevStatus, AbstractOp
<1>21. DevOp[n].type = nbdReq[n].type /\ DevOp[n].first + f = BlockOf(n, f)
  <2>1. DevOp[n] = AbstractOp(nbdReq[n])
    BY <1>3, DeviceFragments
  <2> QED
    BY <2>1 DEF AbstractOp, BlockOf
<1>22. ASSUME NEW k \in Requests, NEW g \in Blocks
       PROVE  /\ DevGot[k][g] = IF k < reqUid THEN Got(k, g) ELSE Blank
              /\ DevGot'[k][g] = IF k < reqUid THEN Got(k, g)' ELSE Blank
              /\ ~(k = n /\ g = f) => DevGot'[k][g] = DevGot[k][g]
  <2>1. /\ DevGot[k][g] = IF k < reqUid THEN Got(k, g) ELSE Blank
        /\ DevGot'[k][g] = IF k < reqUid THEN Got(k, g)' ELSE Blank
    BY <1>17 DEF DevGot
  <2>2. ASSUME k < reqUid, ~(k = n /\ g = f) PROVE Got(k, g)' = Got(k, g)
    <3>1. CASE g \in Frags(k)
      BY <1>14, <1>16, <2>2, <3>1
    <3>2. CASE g \notin Frags(k)
      <4>1. g \notin Taken(k) /\ g \notin Taken(k)'
        BY <1>9, <3>2 DEF Taken
      <4> QED
        BY <4>1, GotValue, GotValueNext
    <3> QED
      BY <3>1, <3>2
  <2> QED
    BY <2>1, <2>2
<1>23. /\ DevGot = [k \in Requests |-> [g \in Blocks |-> DevGot[k][g]]]
       /\ DevGot' = [k \in Requests |-> [g \in Blocks |-> DevGot'[k][g]]]
  BY DEF DevGot
<1>24. \A b \in Blocks : DevMem[b] = store[IotOf(b) + 1][IotOffset(b)]
  BY DEF DevMem
<1>25. CASE m.type = "WRITE"
  <2>1. DevMem' = [DevMem EXCEPT ![BlockOf(n, f)] = Payload(n, f)]
    <3>1. DevMem' = [b \in Blocks |-> store'[IotOf(b) + 1][IotOffset(b)]]
      BY DEF DevMem
    <3>2. \A b \in Blocks : IotOf(b) + 1 \in IotSocks /\ IotOffset(b) \in Offsets /\ b \in Nat
                         /\ IotOf(b) \in Int
      <4>1. \A b \in Blocks : b \in Nat
        BY BlockInDevice
      <4>2. \A b \in Blocks : IotOf(b) \in Int
        BY <4>1, StripingAssumption DEF IotOf
      <4> QED
        BY <4>1, <4>2, IotOfBlock, OffsetsOfBlocks
    <3>3. ASSUME NEW b \in Blocks
          PROVE  store'[IotOf(b) + 1][IotOffset(b)] =
                   IF b = BlockOf(n, f) THEN Payload(n, f)
                   ELSE store[IotOf(b) + 1][IotOffset(b)]
      <4>1. store' = [store EXCEPT ![s][m.off] = Payload(n, f)]
        BY <1>1, <1>5, <1>25
      <4>2. store \in [IotSocks -> [Offsets -> Values]]
        BY <1>2 DEF TypeOK
      <4>3. CASE b = BlockOf(n, f)
        BY <1>5, <3>2, <4>1, <4>2, <4>3
      <4>4. CASE b # BlockOf(n, f)
        <5>1. ~(IotOf(b) + 1 = s /\ IotOffset(b) = m.off)
          <6>1. IotOf(b) + 1 = s => IotOf(b) = IotOf(BlockOf(n, f))
            BY <1>4, <1>5, <3>2
          <6> QED
            BY <1>4, <1>5, <4>4, <6>1, BlocksApart
        <5> QED
          BY <3>2, <4>1, <4>2, <4>4, <5>1
      <4> QED
        BY <4>3, <4>4
    <3> QED
      BY <1>4, <3>1, <3>3 DEF DevMem
  <2>2. DevGot' = DevGot
    <3>1. Got(n, f) = Blank /\ Got(n, f)' = Blank
      BY <1>3, <1>4, <1>5, <1>9, <1>13, <1>25 DEF Mapped
    <3>2. DevGot'[n][f] = DevGot[n][f]
      BY <1>3, <1>4, <1>22, <3>1
    <3> QED
      BY <1>22, <1>23, <3>2
  <2>3. BD!Payload(n, f) = Payload(n, f)
    BY DEF BD!Payload, Payload
  <2>4. BD!WriteEffect(n, f)
    BY <1>5, <1>8, <1>18, <1>19, <1>20, <1>21, <1>25, <2>1, <2>2, <2>3 DEF BD!WriteEffect
  <2> QED
    BY <1>3, <1>19, <2>4 DEF BD!Next
<1>26. CASE m.type = "READ"
  <2>1. DevMem' = DevMem
    BY <1>1, <1>26 DEF DevMem
  <2>2. Got(n, f)' = DevMem[BlockOf(n, f)]
    BY <1>4, <1>5, <1>13, <1>24, <1>26
  <2>3. DevGot'[n][f] = DevMem[BlockOf(n, f)]
    BY <1>3, <1>4, <1>17, <1>22, <2>2
  <2>4. DevGot' = [DevGot EXCEPT ![n][f] = DevMem[BlockOf(n, f)]]
    BY <1>3, <1>4, <1>22, <1>23, <2>3
  <2>5. BD!ReadEffect(n, f)
    BY <1>5, <1>8, <1>18, <1>19, <1>20, <1>21, <1>26, <2>1, <2>4 DEF BD!ReadEffect
  <2> QED
    BY <1>3, <1>19, <2>5 DEF BD!Next
<1> QED
  BY <1>6, <1>25, <1>26

LEMMA InitBD == Init => BD!Init
<1> SUFFICES ASSUME Init PROVE BD!Init
  OBVIOUS
<1>1. Issued = 0 /\ reqUid = 0
  BY DEF Init, Issued
<1>2. \A n \in Requests : ~(n < 0) /\ n >= 0
  BY AtlasAssumption DEF Requests
<1>3. DevMem = [b \in Blocks |-> Blank]
  <2>1. \A b \in Blocks : IotOf(b) + 1 \in IotSocks /\ IotOffset(b) \in Offsets
    BY IotOfBlock, OffsetsOfBlocks, BlockInDevice
  <2> QED
    BY <2>1 DEF Init, DevMem
<1>4. DevOp = [n \in Requests |-> BD!NoOp]
  BY <1>1, <1>2 DEF DevOp, BD!NoOp
<1>5. DevStatus = [n \in Requests |-> "unused"]
  BY <1>1, <1>2 DEF DevStatus
<1>6. DevTaken = [n \in Requests |-> {}] /\ DevGot = [n \in Requests |-> [f \in Blocks |-> Blank]]
  BY <1>1, <1>2 DEF DevTaken, DevGot
<1> QED
  BY <1>3, <1>4, <1>5, <1>6 DEF BD!Init

LEMMA NextBD ==
  ASSUME FullInv, FullInv', "more" \notin StaleRead, [Next]_vars
  PROVE  [BD!Next]_BD!bdVars
<1>1. ASSUME NEW w \in Workers, WorkerStep(w) PROVE UNCHANGED BD!bdVars
  <2>1. UNCHANGED <<nbdSock, reqUid, nbdReq, fragSet, dataBuf, replies, fromIot, store>>
    BY <1>1 DEF WorkerStep, Dequeue, LoopTest, StaleLoopTest, SendRequest, reqVars, iotVars
  <2> QED
    BY <2>1, SameMap
<1>2. ASSUME NEW s \in IotSocks, IotHandleUnknown(s) PROVE FALSE
  BY <1>2, NoUnknownReply DEF IotHandleUnknown
<1>3. ASSUME NEW s, RecvClosed(s) \/ PeerCloses(s) PROVE UNCHANGED BD!bdVars
  <2>1. UNCHANGED <<nbdSock, reqUid, nbdReq, fragSet, dataBuf, replies, fromIot, store>>
    BY <1>3 DEF RecvClosed, PeerCloses, reqVars, iotVars
  <2> QED
    BY <2>1, SameMap
<1>4. ASSUME UNCHANGED vars PROVE UNCHANGED BD!bdVars
  BY <1>4, SameMap DEF vars, reqVars, iotVars
<1>5. CASE ReactorStep
  BY <1>2, <1>3, <1>5, NbdRequestsHandleBD, IotHandleBD DEF ReactorStep
<1>6. CASE EnvironmentStep
  BY <1>3, <1>6, KernelIssuesBD, IotServesBD DEF EnvironmentStep
<1> QED
  BY <1>1, <1>4, <1>5, <1>6 DEF Next, Quiet

(* The server implements the block device of BlockDevice.tla: every fragment *)
(* of a READ or WRITE takes effect once, at the moment its node executes the *)
(* command, on the right block and between the request and its answer, and   *)
(* no answer comes before all its fragments: for any number of nodes,        *)
(* workers, requests and blocks, with peers that close and workers that stop *)
(* the process.  The hypothesis excludes only that the dataLen of a freed    *)
(* request reads as more than it was.                                        *)
THEOREM ImplementsBlockDevice ==
  ASSUME "more" \notin StaleRead PROVE Spec => RefinesBlockDevice
<1>1. Init => BD!Init
  BY InitBD
<1>2. FullInv /\ FullInv' /\ [Next]_vars => [BD!Next]_BD!bdVars
  BY NextBD
<1> QED
  BY <1>1, <1>2, FullInvariance, PTL DEF Spec, RefinesBlockDevice, BD!Spec
=============================================================================
