-------------------------- MODULE LocalServerProofs --------------------------
(***************************************************************************)
(* Theorems about LocalServer, for any number of nodes, requests and blocks. *)
(* DevInv says what each process' descriptor table is at each point of its   *)
(* start, StoreInv how far the handler is with the requests and what the     *)
(* array holds; both hold initially and are preserved by every action, and   *)
(* the properties follow from them.                                          *)
(***************************************************************************)
EXTENDS LocalServer, FiniteSetTheorems, WellFoundedInduction, TLAPS

----------------------------------------------------------------------------
(* The processes.                                                            *)

(* The descriptor tables: with the device open, with the socket pair, and as  *)
(* the nodes are connected in the server and in the forked process, which has *)
(* closed sp[0] and whose first node takes over its number.                   *)
NbdTab       == [f \in Fds |-> IF f <= 2 THEN Std ELSE IF f = 3 THEN Nbd ELSE Closed]
PairTab      == [f \in Fds |-> IF f <= 2 THEN Std ELSE IF f = 3 THEN Nbd ELSE
                               IF f = 4 THEN Sp(0) ELSE IF f = 5 THEN Sp(1) ELSE Closed]
ChildTab     == [f \in Fds |-> IF f = 4 THEN Closed ELSE PairTab[f]]
ServerTab(k) == [f \in Fds |-> IF f <= 2 THEN Std ELSE IF f = 3 THEN Nbd ELSE
                               IF f = 4 THEN Sp(0) ELSE
                               IF f \in 5 .. 4 + k THEN Node(f - 4) ELSE Closed]
DriverTab(k) == [f \in Fds |-> IF f <= 2 THEN Std ELSE IF f = 3 THEN Nbd ELSE
                               IF f \in 4 .. 3 + k THEN Node(f - 3) ELSE Closed]
ServerSoc(k) == [i \in 0 .. nodes |-> IF i <= k THEN 4 + i ELSE 0]
DriverSoc(k) == [i \in 0 .. nodes |-> IF i = 0 THEN 4 ELSE IF i <= k THEN 3 + i ELSE 0]

HasPair(p) == nbd[p] = 3 /\ sp[p] = <<4, 5>>
Before(p)  == socfd[p] = Unconnected

ServerAt ==
  /\ pc["server"] \notin {"forked", "doit"}
  /\ pc["server"] = "open" =>
       fds["server"] = StdFds /\ sp["server"][1] <= 2 /\ Before("server")
  /\ pc["server"] = "pair" =>
       /\ fds["server"] = NbdTab /\ nbd["server"] = 3
       /\ sp["server"][1] <= 2 /\ Before("server")
  /\ pc["server"] \in {"fork", "close"} =>
       fds["server"] = PairTab /\ HasPair("server") /\ Before("server")
  /\ pc["server"] = "cleanup" =>
       sp["server"][1] <= 2 \/ (fds["server"] = PairTab /\ HasPair("server"))
  /\ pc["server"] = "failed" =>
       sp["server"][1] <= 2 \/ \A f \in Fds : fds["server"][f] \in {Closed, Std}
  /\ pc["server"] = "connect" =>
       \E k \in 0 .. nodes : fds["server"] = ServerTab(k) /\ socfd["server"] = ServerSoc(k)
  /\ pc["server"] = "run" =>
       /\ fds["server"] = ServerTab(nodes) /\ socfd["server"] = ServerSoc(nodes)
       /\ \A i \in 0 .. nodes : handlers["server"][4 + i] = i

DriverAt ==
  /\ pc["driver"] \notin {"open", "pair", "fork"}
  /\ pc["driver"] = "gone" =>
       /\ fds["driver"] = NoneOpen
       /\ pc["server"] \in {"open", "pair", "fork"} => Before("driver")
  /\ pc["driver"] = "forked" =>
       fds["driver"] = PairTab /\ HasPair("driver") /\ Before("driver")
  /\ pc["driver"] \in {"doit", "close", "cleanup", "failed"} =>
       fds["driver"] = ChildTab /\ HasPair("driver") /\ Before("driver")
  /\ pc["driver"] = "connect" =>
       \E k \in 0 .. nodes : fds["driver"] = DriverTab(k) /\ socfd["driver"] = DriverSoc(k)
  /\ pc["driver"] = "run" => fds["driver"] = DriverTab(nodes)

(* A process has handlers while it runs the reactor; the forked process does  *)
(* not exist before the fork.                                                *)
Roles ==
  /\ \A p \in Procs : pc[p] # "run" => \A f \in Fds : handlers[p][f] = NoHandler
  /\ pc["server"] \in {"open", "pair", "fork"} => pc["driver"] = "gone"

DevInv == DevTypeOK /\ ServerAt /\ DriverAt /\ Roles

----------------------------------------------------------------------------
(* The handler.                                                              *)

(* The requests below h are answered and those below i issued; the ones      *)
(* between wait in the socket, but for the one being worked on.              *)
Progress(h, i) ==
  /\ \A n \in Requests : (Issued(n) <=> n < i) /\ (answers[n] # <<>> <=> n < h)
  /\ req # NoRequest => req = h /\ h < i
  /\ LET q == IF req = NoRequest THEN h ELSE h + 1 IN
       Len(nbdSock) = i - q /\ \A k \in 1 .. i - q : nbdSock[k] = q + k - 1

CopiedTo(b) ==
  /\ req # NoRequest /\ shape[req].type = "WRITE"
  /\ b - shape[req].first \in 0 .. copied - 1

(* The array holds what the answered WRITEs put there and what was copied of  *)
(* the one being worked on; the buffer, the data that came with a WRITE or    *)
(* the copied blocks of a READ.                                              *)
Contents(h) ==
  /\ \A b \in Blocks :
       storage[b] = IF CopiedTo(b) THEN Payload(req, b - shape[req].first) ELSE LastWrite(h, b)
  /\ req # NoRequest /\ shape[req].type = "WRITE" => \A j \in Blocks : dataBuf[j] = Payload(req, j)
  /\ req # NoRequest /\ shape[req].type = "READ" =>
       \A j \in 0 .. copied - 1 : dataBuf[j] = LastWrite(h, shape[req].first + j)

StoreInv ==
  /\ StoreTypeOK
  /\ ReadsAreInOrder
  /\ \E h \in 0 .. MaxReqs : \E i \in h .. MaxReqs : Progress(h, i) /\ Contents(h)

----------------------------------------------------------------------------
(* The last WRITE to a block.                                                *)

(* A set of natural numbers has a least one.                                 *)
LEMMA LeastNatural ==
  ASSUME NEW T, T \subseteq Nat, T # {}
  PROVE  \E m \in T : \A x \in T : m <= x
<1> DEFINE less == {ss \in Nat \X Nat : ss[1] < ss[2]}
<1>1. OpToRel(<, Nat) = less
  BY DEF OpToRel
<1> HIDE DEF less
<1>2. IsWellFoundedOn(less, Nat)
  BY <1>1, NatLessThanWellFounded
<1>3. PICK m \in T : \A y \in T : ~ (<<y, m>> \in less)
  BY <1>2, WFMin
<1>4. \A y \in T : m <= y
  <2> SUFFICES ASSUME NEW y \in T PROVE m <= y
    OBVIOUS
  <2>1. ~ (<<y, m>> \in less)
    BY <1>3
  <2> QED
    BY <2>1 DEF less
<1> QED
  BY <1>4

LEMMA BlockRange ==
  ASSUME NEW s \in Shapes, NEW j \in 0 .. s.len - 1
  PROVE  /\ j \in Blocks /\ j \in Nat /\ s.first \in Nat /\ s.len \in Nat
         /\ s.first + j \in Blocks /\ s.first + j \in Nat
<1>1. s.first \in Nat /\ s.len \in Nat
  BY LocalAssumption
<1>2. s.first + j \in s.first .. s.first + s.len - 1
  BY <1>1
<1>3. s.first + j \in Blocks
  BY <1>2, LocalAssumption
<1>4. j \in 0 .. s.first + j
  BY <1>1
<1> QED
  BY <1>1, <1>3, <1>4, LocalAssumption

LEMMA LatestIs ==
  ASSUME NEW n \in Nat, NEW S, S \subseteq 0 .. n, n \in S
  PROVE  Latest(S) = n
<1> DEFINE m == CHOOSE m \in S : \A k \in S : k <= m
<1>1. \A k \in S : k <= n /\ k \in Nat
  OBVIOUS
<1>2. m \in S /\ \A k \in S : k <= m
  BY <1>1
<1>3. n <= m /\ m <= n /\ m \in Nat
  BY <1>1, <1>2
<1> QED
  BY <1>3 DEF Latest

LEMMA LatestExists ==
  ASSUME NEW n \in Nat, NEW S, S \subseteq 0 .. n - 1, S # {}
  PROVE  Latest(S) \in S
<1> DEFINE T == {n - k : k \in S}
<1>1. T \subseteq Nat /\ T # {}
  OBVIOUS
<1>2. PICK t \in T : \A x \in T : t <= x
  BY <1>1, LeastNatural
<1>3. PICK m \in S : t = n - m
  BY <1>2
<1>4. \A k \in S : k <= m
  <2> SUFFICES ASSUME NEW k \in S PROVE k <= m
    OBVIOUS
  <2>1. t <= n - k
    BY <1>2
  <2> QED
    BY <1>3, <2>1
<1> QED
  BY <1>3, <1>4 DEF Latest

LEMMA LastWriteNext ==
  ASSUME NEW h \in Nat, NEW b \in Nat
  PROVE  LastWrite(h + 1, b) =
           IF shape[h].type = "WRITE" /\ b - shape[h].first \in 0 .. shape[h].len - 1
           THEN Payload(h, b - shape[h].first) ELSE LastWrite(h, b)
<1> DEFINE hit == shape[h].type = "WRITE" /\ b - shape[h].first \in 0 .. shape[h].len - 1
<1>1. CASE hit
  <2>1. Writes(h + 1, b) \subseteq 0 .. h /\ h \in Writes(h + 1, b)
    BY <1>1 DEF Writes
  <2>2. Latest(Writes(h + 1, b)) = h /\ Writes(h + 1, b) # {}
    BY <2>1, LatestIs
  <2> QED
    BY <1>1, <2>2 DEF LastWrite
<1>2. CASE ~hit
  <2>1. \A m : m \in Writes(h + 1, b) <=> m \in Writes(h, b)
    <3>1. \A m : m \in 0 .. h <=> m = h \/ m \in 0 .. h - 1
      OBVIOUS
    <3> QED
      BY <1>2, <3>1 DEF Writes
  <2>2. Writes(h + 1, b) = Writes(h, b)
    BY <2>1
  <2> QED
    BY <1>2, <2>2 DEF LastWrite
<1> QED
  BY <1>1, <1>2

LEMMA LastWriteSame ==
  ASSUME NEW n \in Nat, NEW b, \A m \in 0 .. n - 1 : shape'[m] = shape[m]
  PROVE  LastWrite(n, b)' = LastWrite(n, b)
<1>1. Writes(n, b)' = Writes(n, b)
  BY DEF Writes
<1>2. CASE Writes(n, b) = {}
  BY <1>1, <1>2 DEF LastWrite
<1>3. CASE Writes(n, b) # {}
  <2>1. PICK m : m = Latest(Writes(n, b))
    OBVIOUS
  <2>2. Writes(n, b) \subseteq 0 .. n - 1
    BY DEF Writes
  <2>3. m \in Writes(n, b)
    BY <1>3, <2>1, <2>2, LatestExists
  <2>4. LastWrite(n, b) = Payload(m, b - shape[m].first)
    BY <1>3, <2>1 DEF LastWrite
  <2>5. LastWrite(n, b)' = Payload(m, b - shape'[m].first)
    BY <1>1, <1>3, <2>1 DEF LastWrite
  <2> QED
    BY <2>2, <2>3, <2>4, <2>5
<1> QED
  BY <1>2, <1>3
----------------------------------------------------------------------------
(* The steps of the handler.                                                 *)

LEMMA ShapeFacts ==
  ASSUME StoreTypeOK, NEW n \in Requests
  PROVE  /\ n \in Nat /\ n < MaxReqs /\ n # NoRequest
         /\ shape[n].len \in Nat /\ shape[n].first \in Nat
         /\ Issued(n) => shape[n] \in Shapes
         /\ ~Issued(n) => shape[n] = NoShape
         /\ shape[n].type \in {"READ", "WRITE", "DISC", "NONE"}
         /\ shape[n].type \in {"READ", "WRITE"} => Issued(n)
<1>1. n \in Nat /\ n < MaxReqs /\ n # NoRequest
  BY LocalAssumption DEF Requests, NoRequest
<1>2. shape[n] \in Shapes \cup {NoShape}
  BY DEF StoreTypeOK
<1>3. CASE shape[n] = NoShape
  BY <1>1, <1>3 DEF NoShape, Issued
<1>4. CASE shape[n] # NoShape
  <2>1. shape[n] \in [type : {"READ", "WRITE", "DISC"}, first : Nat, len : Nat]
    BY <1>2, <1>4, LocalAssumption
  <2> QED
    BY <1>1, <1>2, <1>4, <2>1 DEF Issued
<1> QED
  BY <1>3, <1>4

LEMMA KernelIssuesType ==
  ASSUME StoreTypeOK, NEW n \in Requests, KernelIssues(n) PROVE StoreTypeOK'
<1>1. PICK s \in Shapes : shape' = [shape EXCEPT ![n] = s]
  BY DEF KernelIssues
<1>2. nbdSock' \in Seq(Requests)
  BY DEF KernelIssues, StoreTypeOK
<1>3. shape' \in [Requests -> Shapes \cup {NoShape}]
  BY <1>1 DEF StoreTypeOK
<1>4. req' # NoRequest => copied' \in 0 .. shape'[req'].len
  <2>1. CASE req = n
    <3>1. shape[n].len = 0 /\ copied \in 0 .. shape[n].len /\ copied = 0
      BY <2>1, ShapeFacts DEF KernelIssues, StoreTypeOK, NoShape, Issued
    <3>2. s.len \in Nat
      BY LocalAssumption
    <3> QED
      BY <1>1, <2>1, <3>1, <3>2 DEF KernelIssues, StoreTypeOK
  <2>2. CASE req # n
    BY <1>1, <2>2 DEF KernelIssues, StoreTypeOK
  <2> QED
    BY <2>1, <2>2
<1> QED
  BY <1>2, <1>3, <1>4 DEF KernelIssues, StoreTypeOK

LEMMA NbdRequestReadType ==
  ASSUME StoreTypeOK, NbdRequestRead PROVE StoreTypeOK'
<1>1. req' \in Requests /\ nbdSock' \in Seq(Requests)
  BY DEF NbdRequestRead, StoreTypeOK
<1>2. dataBuf' \in [Blocks -> Values]
  BY <1>1 DEF NbdRequestRead, Values, Payload
<1>3. copied' = 0 /\ shape' = shape /\ shape[req'].len \in Nat
  BY <1>1, ShapeFacts DEF NbdRequestRead
<1> QED
  BY <1>1, <1>2, <1>3 DEF NbdRequestRead, StoreTypeOK

LEMMA CopyType ==
  ASSUME StoreTypeOK, Copy PROVE StoreTypeOK'
<1> DEFINE s == shape[req]
<1>1. req \in Requests /\ copied \in 0 .. s.len /\ s.len \in Nat /\ copied < s.len
  BY ShapeFacts DEF Copy, StoreTypeOK
<1>2. Issued(req)
  BY <1>1, ShapeFacts DEF NoShape
<1>3. s \in Shapes
  BY <1>1, <1>2, ShapeFacts
<1>4. copied \in 0 .. s.len - 1
  BY <1>1
<1>5. copied \in Blocks /\ s.first + copied \in Blocks
  BY <1>3, <1>4, BlockRange
<1> HIDE DEF s
<1>6. Memcpy(s, copied)
  BY DEF Copy, s
<1>7. storage' \in [Blocks -> Values] /\ dataBuf' \in [Blocks -> Values]
  BY <1>5, <1>6 DEF Memcpy, StoreTypeOK
<1>8. copied' \in 0 .. s.len
  BY <1>1 DEF Copy
<1> QED
  BY <1>7, <1>8 DEF Copy, StoreTypeOK, s

LEMMA NbdRequestDoneType ==
  ASSUME StoreTypeOK, answers[req] = <<>>, NbdRequestDone PROVE StoreTypeOK'
<1>1. req \in Requests /\ answers' = [answers EXCEPT ![req] = <<dataBuf>>]
  BY DEF NbdRequestDone, StoreTypeOK
<1>2. answers' \in [Requests -> Seq([Blocks -> Values])]
  BY <1>1 DEF StoreTypeOK
<1>3. \A n \in Requests : Len(answers'[n]) <= 1
  BY <1>1 DEF StoreTypeOK
<1> QED
  BY <1>2, <1>3 DEF NbdRequestDone, StoreTypeOK
At(h, i) == Progress(h, i) /\ Contents(h)

(* A step that leaves the shapes below h alone leaves what was written below h. *)
LEMMA WrittenSame ==
  ASSUME NEW h \in Nat, \A m \in 0 .. h - 1 : shape'[m] = shape[m]
  PROVE  \A b : LastWrite(h, b)' = LastWrite(h, b)
BY LastWriteSame

LEMMA ReadsStay ==
  ASSUME StoreTypeOK, ReadsAreInOrder, answers' = answers,
         \A n \in Requests : answers[n] # <<>> => \A m \in 0 .. n : shape'[m] = shape[m]
  PROVE  ReadsAreInOrder'
<1> SUFFICES ASSUME NEW n \in Requests, shape'[n].type = "READ", answers'[n] # <<>>,
                    NEW j \in 0 .. shape'[n].len - 1
             PROVE  (Head(answers[n])[j] = LastWrite(n, shape[n].first + j))'
  BY DEF ReadsAreInOrder
<1>1. n \in Nat /\ \A m \in 0 .. n : shape'[m] = shape[m]
  BY ShapeFacts
<1>2. shape'[n] = shape[n] /\ \A m \in 0 .. n - 1 : shape'[m] = shape[m]
  BY <1>1
<1>3. LastWrite(n, shape[n].first + j)' = LastWrite(n, shape[n].first + j)
  <2>1. PICK b : b = shape[n].first + j
    OBVIOUS
  <2>2. LastWrite(n, b)' = LastWrite(n, b)
    BY <1>1, <1>2, LastWriteSame
  <2>3. b = (shape[n].first + j)'
    BY <1>2, <2>1
  <2> QED
    BY <2>1, <2>2, <2>3
<1> QED
  BY <1>2, <1>3 DEF ReadsAreInOrder
LEMMA KernelIssuesAt ==
  ASSUME StoreTypeOK, ReadsAreInOrder, NEW h \in 0 .. MaxReqs, NEW i \in h .. MaxReqs, At(h, i),
         NEW n \in Requests, KernelIssues(n)
  PROVE  n = i /\ i + 1 \in h .. MaxReqs /\ At(h, i + 1)' /\ ReadsAreInOrder'
<1>1. n \in Nat /\ n < MaxReqs /\ h \in Nat /\ i \in Nat /\ h <= i /\ i <= MaxReqs /\ MaxReqs \in Nat
  BY ShapeFacts, LocalAssumption
<1>2. n = i
  <2>1. ~(n < i) /\ \A m \in 0 .. n - 1 : Issued(m)
    BY DEF KernelIssues, At, Progress
  <2>2. CASE i < n
    <3>1. i \in 0 .. n - 1 /\ i \in Requests
      BY <1>1, <2>2 DEF Requests
    <3>2. Issued(i) /\ i < i
      BY <2>1, <3>1 DEF At, Progress
    <3> QED
      BY <1>1, <3>2
  <2> QED
    BY <1>1, <2>1, <2>2
<1>3. PICK s \in Shapes : shape' = [shape EXCEPT ![n] = s]
  BY DEF KernelIssues
<1>4. /\ nbdSock' = Append(nbdSock, n) /\ nbdSock \in Seq(Requests)
      /\ UNCHANGED <<req, copied, dataBuf, storage, answers>>
  BY DEF KernelIssues, StoreTypeOK
<1>5. /\ \A m \in Requests : m # n => shape'[m] = shape[m]
      /\ shape'[n] = s /\ s # NoShape
  <2>1. s.type \in {"READ", "WRITE", "DISC"} /\ NoShape.type = "NONE"
    BY LocalAssumption DEF NoShape
  <2> QED
    BY <1>3, <2>1 DEF StoreTypeOK
<1>6. Progress(h, i + 1)'
  <2>1. \A m \in Requests : (Issued(m)' <=> m < i + 1) /\ (answers'[m] # <<>> <=> m < h)
    <3> SUFFICES ASSUME NEW m \in Requests
                 PROVE  (Issued(m)' <=> m < i + 1) /\ (answers'[m] # <<>> <=> m < h)
      OBVIOUS
    <3>1. (Issued(m) <=> m < i) /\ (answers[m] # <<>> <=> m < h) /\ m \in Nat
      BY ShapeFacts DEF At, Progress
    <3> QED
      BY <1>1, <1>2, <1>4, <1>5, <3>1 DEF Issued
  <2>2. req' # NoRequest => req' = h /\ h < i + 1
    BY <1>1, <1>4 DEF At, Progress
  <2>3. ASSUME NEW q \in {h, h + 1}, q <= i,
               Len(nbdSock) = i - q, \A k \in 1 .. i - q : nbdSock[k] = q + k - 1
        PROVE  /\ Len(nbdSock') = i + 1 - q
               /\ \A k \in 1 .. i + 1 - q : nbdSock'[k] = q + k - 1
    BY <1>1, <1>2, <1>4, <2>3
  <2>4. CASE req = NoRequest
    BY <1>1, <1>4, <2>1, <2>2, <2>3, <2>4 DEF At, Progress
  <2>5. CASE req # NoRequest
    <3>1. h + 1 <= i
      BY <1>1, <2>5 DEF At, Progress
    <3> QED
      BY <1>1, <1>4, <2>1, <2>2, <2>3, <2>5, <3>1 DEF At, Progress
  <2> QED
    BY <2>4, <2>5
<1>7. \A m \in 0 .. h - 1 : shape'[m] = shape[m]
  BY <1>1, <1>2, <1>5 DEF Requests
<1>8. \A b : LastWrite(h, b)' = LastWrite(h, b)
  BY <1>1, <1>7, WrittenSame
<1>9. req # NoRequest => shape'[req] = shape[req]
  BY <1>1, <1>2, <1>5 DEF At, Progress, StoreTypeOK
<1>10. Contents(h)'
  <2>1. \A b : CopiedTo(b)' <=> CopiedTo(b)
    BY <1>4, <1>9 DEF CopiedTo
  <2>2. \A b \in Blocks :
          storage'[b] = IF CopiedTo(b)' THEN Payload(req, b - shape'[req].first) ELSE LastWrite(h, b)'
    BY <1>4, <1>8, <1>9, <2>1 DEF At, Contents, CopiedTo
  <2>3. req' # NoRequest /\ shape'[req'].type = "WRITE" => \A j \in Blocks : dataBuf'[j] = Payload(req', j)
    BY <1>4, <1>9 DEF At, Contents
  <2>4. ASSUME req # NoRequest, shape[req].type = "READ", NEW j \in 0 .. copied - 1
        PROVE  (dataBuf[j] = LastWrite(h, shape[req].first + j))'
    <3>1. PICK b : b = shape[req].first + j
      OBVIOUS
    <3>2. LastWrite(h, b)' = LastWrite(h, b) /\ b = (shape[req].first + j)'
      BY <1>4, <1>8, <1>9, <2>4, <3>1
    <3>3. dataBuf[j] = LastWrite(h, b)
      BY <2>4, <3>1 DEF At, Contents
    <3> QED
      BY <1>4, <3>2, <3>3
  <2> QED
    BY <1>4, <1>9, <2>2, <2>3, <2>4 DEF Contents
<1>11. ReadsAreInOrder'
  <2>1. ASSUME NEW m \in Requests, answers[m] # <<>>, NEW k \in 0 .. m
        PROVE  shape'[k] = shape[k]
    <3>1. m < i /\ m \in Nat
      BY <1>1, <2>1, ShapeFacts DEF At, Progress
    <3>2. k \in Requests /\ k # n
      BY <1>1, <1>2, <3>1 DEF Requests
    <3> QED
      BY <1>5, <3>2
  <2> QED
    BY <1>4, <2>1, ReadsStay
<1> QED
  BY <1>1, <1>2, <1>6, <1>10, <1>11 DEF At
LEMMA NbdRequestReadAt ==
  ASSUME StoreTypeOK, ReadsAreInOrder, NEW h \in 0 .. MaxReqs, NEW i \in h .. MaxReqs, At(h, i),
         NbdRequestRead
  PROVE  req' = h /\ h < i /\ At(h, i)' /\ ReadsAreInOrder'
<1>1. h \in Nat /\ i \in Nat /\ MaxReqs \in Nat /\ i <= MaxReqs /\ nbdSock \in Seq(Requests)
  BY LocalAssumption DEF StoreTypeOK
<1>2. req = NoRequest /\ Len(nbdSock) = i - h /\ \A k \in 1 .. i - h : nbdSock[k] = h + k - 1
  BY DEF NbdRequestRead, At, Progress
<1>3. Len(nbdSock) > 0 /\ Head(nbdSock) = nbdSock[1]
  BY <1>1 DEF NbdRequestRead
<1>4. h < i /\ req' = h /\ h \in Requests /\ h # NoRequest
  BY <1>1, <1>2, <1>3 DEF NbdRequestRead, Requests, NoRequest
<1>5. /\ nbdSock' = Tail(nbdSock) /\ copied' = 0 /\ UNCHANGED <<shape, storage, answers>>
      /\ shape[h].type = "WRITE" => \A j \in Blocks : dataBuf'[j] = Payload(h, j)
  BY <1>4 DEF NbdRequestRead
<1>6. Len(nbdSock') = i - (h + 1) /\ \A k \in 1 .. i - (h + 1) : nbdSock'[k] = (h + 1) + k - 1
  BY <1>1, <1>2, <1>3, <1>5
<1>7. \A n \in Requests : (Issued(n)' <=> n < i) /\ (answers'[n] # <<>> <=> n < h)
  BY <1>5 DEF At, Progress, Issued
<1>8. Progress(h, i)'
  BY <1>4, <1>6, <1>7 DEF Progress
<1>9. \A b : LastWrite(h, b)' = LastWrite(h, b)
  BY <1>1, <1>5, WrittenSame
<1>10. \A b : ~CopiedTo(b) /\ ~CopiedTo(b)'
  BY <1>2, <1>5, ShapeFacts DEF CopiedTo
<1>11. Contents(h)'
  <2>1. \A j \in 0 .. copied' - 1 : FALSE
    BY <1>5
  <2>2. \A b \in Blocks : (storage[b] = LastWrite(h, b))'
    BY <1>5, <1>9, <1>10 DEF At, Contents
  <2>3. req' # NoRequest /\ shape'[req'].type = "WRITE" => \A j \in Blocks : dataBuf'[j] = Payload(req', j)
    BY <1>4, <1>5
  <2> QED
    BY <1>10, <2>1, <2>2, <2>3 DEF Contents
<1>12. ReadsAreInOrder'
  BY <1>5, ReadsStay
<1> QED
  BY <1>4, <1>8, <1>11, <1>12 DEF At

LEMMA CopyAt ==
  ASSUME StoreTypeOK, ReadsAreInOrder, NEW h \in 0 .. MaxReqs, NEW i \in h .. MaxReqs, At(h, i),
         Copy
  PROVE  At(h, i)' /\ ReadsAreInOrder'
<1> DEFINE s == shape[h]
<1>1. /\ req = h /\ req # NoRequest /\ h \in Requests /\ h \in Nat /\ i \in Nat
      /\ copied \in 0 .. s.len /\ s.len \in Nat /\ copied < s.len
      /\ UNCHANGED <<nbdSock, shape, req, answers>> /\ copied' = copied + 1
  BY ShapeFacts DEF Copy, StoreTypeOK, At, Progress
<1>2. s \in Shapes /\ s.type \in {"READ", "WRITE", "DISC"}
  BY <1>1, ShapeFacts, LocalAssumption DEF NoShape
<1>3. s.type # "DISC"
  BY <1>1, <1>2, LocalAssumption
<1>4. PICK c \in 0 .. s.len - 1 : c = copied
  BY <1>1
<1>5. /\ c \in Blocks /\ c \in Nat /\ s.first \in Nat
      /\ s.first + c \in Blocks /\ copied' - 1 = c /\ Memcpy(s, c)
  BY <1>1, <1>2, <1>4, BlockRange DEF Copy
<1>6. Progress(h, i)'
  BY <1>1 DEF At, Progress, Issued
<1>7. \A b : LastWrite(h, b)' = LastWrite(h, b)
  BY <1>1, WrittenSame
<1>8. ReadsAreInOrder'
  BY <1>1, ReadsStay
<1>9. \A j : j \in 0 .. copied' - 1 <=> j = c \/ j \in 0 .. copied - 1
  BY <1>4, <1>5
<1>10. CASE s.type = "WRITE"
  <2>1. /\ storage' = [storage EXCEPT ![s.first + c] = dataBuf[c]] /\ dataBuf' = dataBuf
        /\ dataBuf[c] = Payload(h, c)
    BY <1>1, <1>5, <1>10 DEF Memcpy, At, Contents
  <2>2. ASSUME NEW b \in Blocks
        PROVE  (storage[b] = IF CopiedTo(b) THEN Payload(req, b - shape[req].first) ELSE LastWrite(h, b))'
    <3>1. b \in Nat /\ (b = s.first + c <=> b - s.first = c)
      BY <1>5, LocalAssumption
    <3>2. CopiedTo(b)' <=> b - s.first = c \/ CopiedTo(b)
      BY <1>1, <1>9, <1>10 DEF CopiedTo
    <3>3. CASE b = s.first + c
      <4>1. storage'[b] = Payload(h, c) /\ CopiedTo(b)'
        BY <1>5, <2>1, <3>1, <3>2, <3>3 DEF StoreTypeOK
      <4> QED
        BY <1>1, <3>1, <3>3, <4>1
    <3>4. CASE b # s.first + c
      <4>1. storage'[b] = storage[b] /\ (CopiedTo(b)' <=> CopiedTo(b))
        BY <2>1, <3>1, <3>2, <3>4 DEF StoreTypeOK
      <4>2. storage[b] = IF CopiedTo(b) THEN Payload(h, b - s.first) ELSE LastWrite(h, b)
        BY <1>1 DEF At, Contents
      <4> QED
        BY <1>1, <1>7, <4>1, <4>2
    <3> QED
      BY <3>3, <3>4
  <2>3. Contents(h)'
    BY <1>1, <1>10, <2>1, <2>2 DEF At, Contents
  <2> QED
    BY <1>6, <1>8, <2>3 DEF At
<1>11. CASE s.type = "READ"
  <2>1. /\ dataBuf' = [dataBuf EXCEPT ![c] = storage[s.first + c]] /\ storage' = storage
        /\ \A b : ~CopiedTo(b) /\ ~CopiedTo(b)'
    BY <1>1, <1>5, <1>11 DEF Memcpy, CopiedTo
  <2>2. \A b \in Blocks : (storage[b] = LastWrite(h, b))'
    BY <1>7, <2>1 DEF At, Contents
  <2>3. ASSUME NEW j \in 0 .. copied' - 1
        PROVE  (dataBuf[j] = LastWrite(h, shape[req].first + j))'
    <3>1. PICK b : b = s.first + j
      OBVIOUS
    <3>2. LastWrite(h, b)' = LastWrite(h, b) /\ b = (shape[req].first + j)'
      BY <1>1, <1>7, <3>1
    <3>3. CASE j = c
      <4>1. dataBuf'[j] = storage[b] /\ b \in Blocks
        BY <1>5, <2>1, <3>1, <3>3 DEF StoreTypeOK
      <4>2. storage[b] = LastWrite(h, b)
        BY <2>1, <4>1 DEF At, Contents
      <4> QED
        BY <3>2, <4>1, <4>2
    <3>4. CASE j # c
      <4>1. j \in 0 .. copied - 1 /\ dataBuf'[j] = dataBuf[j]
        BY <1>9, <2>1, <3>4 DEF StoreTypeOK
      <4>2. dataBuf[j] = LastWrite(h, b)
        BY <1>1, <1>11, <3>1, <4>1 DEF At, Contents
      <4> QED
        BY <3>2, <4>1, <4>2
    <3> QED
      BY <3>3, <3>4
  <2>4. Contents(h)'
    BY <1>1, <1>11, <2>1, <2>2, <2>3 DEF Contents
  <2> QED
    BY <1>6, <1>8, <2>4 DEF At
<1> QED
  BY <1>2, <1>3, <1>10, <1>11
LEMMA NbdRequestDoneAt ==
  ASSUME StoreTypeOK, ReadsAreInOrder, NEW h \in 0 .. MaxReqs, NEW i \in h .. MaxReqs, At(h, i),
         NbdRequestDone
  PROVE  /\ req = h /\ h \in Requests /\ answers[h] = <<>> /\ h + 1 \in 0 .. i
         /\ At(h + 1, i)' /\ ReadsAreInOrder'
<1> DEFINE s == shape[h]
<1>1. /\ req = h /\ req # NoRequest /\ h \in Requests /\ h \in Nat /\ i \in Nat /\ h < i
      /\ copied = s.len /\ s.len \in Nat /\ s.first \in Nat /\ req' = NoRequest
      /\ UNCHANGED <<nbdSock, shape, copied, dataBuf, storage>>
  BY ShapeFacts DEF NbdRequestDone, StoreTypeOK, At, Progress
<1>2. answers[h] = <<>>
  BY <1>1 DEF At, Progress
<1>3. answers' = [answers EXCEPT ![h] = <<dataBuf>>]
  BY <1>1, <1>2 DEF NbdRequestDone, StoreTypeOK
<1>4. Progress(h + 1, i)'
  <2>1. \A n \in Requests : (Issued(n)' <=> n < i) /\ (answers'[n] # <<>> <=> n < h + 1)
    <3> SUFFICES ASSUME NEW n \in Requests
                 PROVE  (Issued(n)' <=> n < i) /\ (answers'[n] # <<>> <=> n < h + 1)
      OBVIOUS
    <3>1. (Issued(n) <=> n < i) /\ (answers[n] # <<>> <=> n < h) /\ n \in Nat
      BY ShapeFacts DEF At, Progress
    <3>2. CASE n = h
      BY <1>1, <1>3, <3>1, <3>2 DEF Issued, StoreTypeOK
    <3>3. CASE n # h
      BY <1>1, <1>3, <3>1, <3>3 DEF Issued, StoreTypeOK
    <3> QED
      BY <3>2, <3>3
  <2>2. Len(nbdSock) = i - (h + 1) /\ \A k \in 1 .. i - (h + 1) : nbdSock[k] = (h + 1) + k - 1
    BY <1>1 DEF At, Progress
  <2> QED
    BY <1>1, <2>1, <2>2 DEF Progress
<1>5. \A b : ~CopiedTo(b)'
  BY <1>1 DEF CopiedTo
<1>6. \A b : LastWrite(h, b)' = LastWrite(h, b) /\ LastWrite(h + 1, b)' = LastWrite(h + 1, b)
  BY <1>1, WrittenSame
<1>7. Contents(h + 1)'
  <2>1. ASSUME NEW b \in Blocks PROVE storage'[b] = LastWrite(h + 1, b)'
    <3>1. b \in Nat
      BY LocalAssumption
    <3>2. storage[b] = IF CopiedTo(b) THEN Payload(h, b - s.first) ELSE LastWrite(h, b)
      BY <1>1 DEF At, Contents
    <3>3. CopiedTo(b) <=> s.type = "WRITE" /\ b - s.first \in 0 .. s.len - 1
      BY <1>1 DEF CopiedTo
    <3>4. storage[b] = LastWrite(h + 1, b)
      BY <1>1, <3>1, <3>2, <3>3, LastWriteNext
    <3> QED
      BY <1>1, <1>6, <3>4
  <2> QED
    BY <1>1, <1>5, <2>1 DEF Contents
<1>8. ReadsAreInOrder'
  <2> SUFFICES ASSUME NEW n \in Requests, shape[n].type = "READ", answers'[n] # <<>>,
                      NEW j \in 0 .. shape[n].len - 1
               PROVE  (Head(answers[n])[j] = LastWrite(n, shape[n].first + j))'
    BY <1>1 DEF ReadsAreInOrder
  <2>1. PICK b : b = shape[n].first + j
    OBVIOUS
  <2>2. n \in Nat /\ b = (shape[n].first + j)'
    BY <1>1, <2>1, ShapeFacts
  <2>3. LastWrite(n, b)' = LastWrite(n, b)
    BY <1>1, <2>2, WrittenSame
  <2>4. CASE n = h
    <3>1. Head(answers'[n]) = dataBuf
      BY <1>3, <2>4 DEF StoreTypeOK
    <3>2. dataBuf[j] = LastWrite(h, b)
      BY <1>1, <2>1, <2>4 DEF At, Contents
    <3> QED
      BY <2>2, <2>3, <2>4, <3>1, <3>2
  <2>5. CASE n # h
    <3>1. answers'[n] = answers[n]
      BY <1>3, <2>5 DEF StoreTypeOK
    <3>2. Head(answers[n])[j] = LastWrite(n, b)
      BY <2>1, <3>1 DEF ReadsAreInOrder
    <3> QED
      BY <2>2, <2>3, <3>1, <3>2
  <2> QED
    BY <2>4, <2>5
<1> QED
  BY <1>1, <1>2, <1>4, <1>7, <1>8 DEF At

(* What LocalServer's steps do to the variables of LocalStore.                *)
StoreStep == (\E n \in Requests : KernelIssues(n)) \/ Handle

LEMMA ServerStep == [Next]_vars => [StoreStep]_storeVars
BY DEF Next, vars, storeVars, DriverIssues, Serve, WriteFails, ReadEnds, Over, StoreStep, Handle

LEMMA StoreInvUnchanged == StoreInv /\ UNCHANGED storeVars => StoreInv'
<1> SUFFICES ASSUME StoreInv, UNCHANGED storeVars PROVE StoreInv'
  OBVIOUS
<1>1. UNCHANGED <<nbdSock, shape, req, copied, dataBuf, storage, answers>>
  BY DEF storeVars
<1>2. StoreTypeOK' /\ ReadsAreInOrder'
  BY <1>1, ReadsStay DEF StoreInv, StoreTypeOK
<1>3. PICK h \in 0 .. MaxReqs : \E i \in h .. MaxReqs : Progress(h, i) /\ Contents(h)
  BY DEF StoreInv
<1>4. PICK i \in h .. MaxReqs : Progress(h, i) /\ Contents(h)
  BY <1>3
<1>5. Progress(h, i)'
  BY <1>1, <1>4 DEF Progress, Issued
<1>6. \A b : LastWrite(h, b)' = LastWrite(h, b)
  BY <1>1, WrittenSame
<1>7. Contents(h)'
  <2>1. \A b : CopiedTo(b)' <=> CopiedTo(b)
    BY <1>1 DEF CopiedTo
  <2>2. ASSUME NEW j \in 0 .. copied - 1, req # NoRequest, shape[req].type = "READ"
        PROVE  (dataBuf[j] = LastWrite(h, shape[req].first + j))'
    <3>1. PICK b : b = shape[req].first + j
      OBVIOUS
    <3>2. LastWrite(h, b)' = LastWrite(h, b) /\ b = (shape[req].first + j)'
      BY <1>1, <1>6, <3>1
    <3>3. dataBuf[j] = LastWrite(h, b)
      BY <1>4, <2>2, <3>1 DEF Contents
    <3> QED
      BY <1>1, <3>2, <3>3
  <2> QED
    BY <1>1, <1>4, <1>6, <2>1, <2>2 DEF Contents
<1> QED
  BY <1>2, <1>3, <1>4, <1>5, <1>7 DEF StoreInv

LEMMA InitStoreInv == StoreInit => StoreInv
<1> SUFFICES ASSUME StoreInit PROVE StoreInv
  OBVIOUS
<1>1. StoreTypeOK
  BY LocalAssumption DEF StoreInit, StoreTypeOK, Values
<1>2. ReadsAreInOrder
  BY DEF StoreInit, ReadsAreInOrder
<1>3. MaxReqs \in Nat /\ \A n \in Requests : n \in Nat /\ ~Issued(n) /\ answers[n] = <<>>
  BY LocalAssumption DEF StoreInit, Requests, Issued
<1>4. Progress(0, 0)
  BY <1>3 DEF StoreInit, Progress
<1>5. \A b : LastWrite(0, b) = Blank
  BY DEF LastWrite, Writes
<1>6. Contents(0)
  BY <1>5 DEF StoreInit, Contents, CopiedTo
<1> QED
  BY <1>1, <1>2, <1>3, <1>4, <1>6 DEF StoreInv

LEMMA StepStoreInv == StoreInv /\ [StoreStep]_storeVars => StoreInv'
<1> SUFFICES ASSUME StoreInv, StoreStep PROVE StoreInv'
  BY StoreInvUnchanged
<1>1. StoreTypeOK /\ ReadsAreInOrder /\ MaxReqs \in Nat
  BY LocalAssumption DEF StoreInv
<1>2. PICK h \in 0 .. MaxReqs : \E i \in h .. MaxReqs : At(h, i)
  BY DEF StoreInv, At
<1>3. PICK i \in h .. MaxReqs : At(h, i)
  BY <1>2
<1>4. ASSUME NEW g \in 0 .. MaxReqs, NEW k \in g .. MaxReqs, At(g, k)', StoreTypeOK', ReadsAreInOrder'
      PROVE  StoreInv'
  BY <1>4 DEF At, StoreInv
<1>5. CASE \E n \in Requests : KernelIssues(n)
  <2>1. PICK n \in Requests : KernelIssues(n)
    BY <1>5
  <2> QED
    BY <1>1, <1>3, <1>4, <2>1, KernelIssuesType, KernelIssuesAt
<1>6. CASE NbdRequestRead
  BY <1>1, <1>3, <1>4, <1>6, NbdRequestReadType, NbdRequestReadAt
<1>7. CASE Copy
  BY <1>1, <1>3, <1>4, <1>7, CopyType, CopyAt
<1>8. CASE NbdRequestDone
  <2>1. h + 1 \in 0 .. MaxReqs /\ i \in h + 1 .. MaxReqs
    BY <1>1, <1>3, <1>8, NbdRequestDoneAt
  <2> QED
    BY <1>1, <1>3, <1>4, <1>8, <2>1, NbdRequestDoneType, NbdRequestDoneAt
<1> QED
  BY <1>5, <1>6, <1>7, <1>8 DEF StoreStep, Handle

THEOREM StoreInvariance == Spec => []StoreInv
<1>1. Init => StoreInv
  BY InitStoreInv DEF Init
<1>2. StoreInv /\ [Next]_vars => StoreInv'
  BY ServerStep, StepStoreInv
<1> QED
  BY <1>1, <1>2, PTL DEF Spec
(* The device is sequential: a READ returns what the last WRITE issued before *)
(* it put into each of its blocks, in every run of the local server.         *)
THEOREM ReadsInOrder == Spec => []ReadsAreInOrder
<1>1. StoreInv => ReadsAreInOrder
  BY DEF StoreInv
<1> QED
  BY <1>1, StoreInvariance, PTL

----------------------------------------------------------------------------
(* The block device.                                                         *)

Got(n, j) ==
  IF shape[n].type # "READ" \/ j \notin Taken(n) THEN Blank
  ELSE IF answers[n] # <<>> THEN Head(answers[n])[j] ELSE dataBuf[j]

Status(n) ==
  IF ~Issued(n) THEN "unused" ELSE IF answers[n] = <<>> THEN "pending" ELSE "answered"

LEMMA BdFunctions ==
  /\ BdStatus = [n \in Requests |-> Status(n)]
  /\ BdTaken = [n \in Requests |-> Taken(n)]
  /\ BdGot = [n \in Requests |-> [j \in Blocks |-> Got(n, j)]]
BY DEF BdStatus, BdTaken, BdGot, Status, Got

LEMMA BdFunctionsNext ==
  /\ BdStatus' = [n \in Requests |-> Status(n)']
  /\ BdTaken' = [n \in Requests |-> Taken(n)']
  /\ BdGot' = [n \in Requests |-> [j \in Blocks |-> Got(n, j)']]
BY DEF BdStatus, BdTaken, BdGot, Status, Got

LEMMA BdOpIs ==
  ASSUME NEW n \in Requests
  PROVE  /\ BdOp[n] = [type |-> shape[n].type, first |-> shape[n].first, frags |-> shape[n].len]
         /\ BD!Fragments(n) = 0 .. shape[n].len - 1
BY DEF BdOp, BD!Fragments

LEMMA InitBd == StoreInit => BD!Init
<1> SUFFICES ASSUME StoreInit PROVE BD!Init
  OBVIOUS
<1>1. ASSUME NEW n \in Requests
      PROVE  /\ Status(n) = "unused" /\ Taken(n) = {} /\ \A j \in Blocks : Got(n, j) = Blank
             /\ shape[n] = NoShape
  <2>1. n # NoRequest
    BY LocalAssumption DEF Requests, NoRequest
  <2> QED
    BY <2>1 DEF StoreInit, Status, Taken, Got, Issued
<1>2. BdOp = [n \in Requests |-> BD!NoOp]
  BY <1>1 DEF BdOp, BD!NoOp, NoShape
<1> QED
  BY <1>1, <1>2, BdFunctions DEF BD!Init, StoreInit

(* A step that changes neither the requests nor what is taken of them.       *)
LEMMA BdStutter ==
  ASSUME shape' = shape, storage' = storage,
         \A n \in Requests : /\ (answers'[n] = <<>> <=> answers[n] = <<>>)
                             /\ Taken(n)' = Taken(n) /\ \A j \in Blocks : Got(n, j)' = Got(n, j)
  PROVE  UNCHANGED BD!bdVars
<1>1. \A n \in Requests : Status(n)' = Status(n)
  BY DEF Status, Issued
<1>2. BdOp' = BdOp
  BY DEF BdOp
<1>3. BdStatus' = BdStatus /\ BdTaken' = BdTaken
  BY <1>1, BdFunctions, BdFunctionsNext
<1>4. BdGot' = BdGot
  BY BdFunctions, BdFunctionsNext
<1> QED
  BY <1>2, <1>3, <1>4 DEF BD!bdVars

LEMMA KernelIssuesBd ==
  ASSUME StoreTypeOK, NEW h \in 0 .. MaxReqs, NEW i \in h .. MaxReqs, At(h, i), ReadsAreInOrder,
         NEW n \in Requests, KernelIssues(n)
  PROVE  BD!Next
<1>1. n = i /\ n # req /\ answers[n] = <<>> /\ ~Issued(n) /\ shape[n] = NoShape
  <2>1. n = i /\ ~Issued(n)
    BY KernelIssuesAt DEF KernelIssues
  <2>2. answers[n] = <<>> /\ n # NoRequest /\ (req # NoRequest => req < i)
    BY <2>1, ShapeFacts DEF At, Progress
  <2> QED
    BY <2>1, <2>2, ShapeFacts DEF Issued
<1>2. PICK s \in Shapes : shape' = [shape EXCEPT ![n] = s]
  BY DEF KernelIssues
<1>3. UNCHANGED <<req, copied, dataBuf, storage, answers>>
  BY DEF KernelIssues
<1>4. s # NoShape
  <2>1. s.type \in {"READ", "WRITE", "DISC"} /\ NoShape.type = "NONE"
    BY LocalAssumption DEF NoShape
  <2> QED
    BY <2>1
<1>5. /\ shape'[n] = s /\ \A m \in Requests : m # n => shape'[m] = shape[m]
  BY <1>2 DEF StoreTypeOK
<1>6. \A m \in Requests : Taken(m)' = Taken(m)
  BY <1>1, <1>3, <1>5 DEF Taken
<1>7. Taken(n) = {}
  BY <1>1 DEF Taken
<1>8. \A m \in Requests : \A j \in Blocks : Got(m, j)' = Got(m, j)
  BY <1>3, <1>5, <1>6, <1>7 DEF Got
<1>9. Status(n) = "unused" /\ Status(n)' = "pending"
  BY <1>1, <1>3, <1>4, <1>5 DEF Status, Issued
<1>10. \A m \in Requests : m # n => Status(m)' = Status(m)
  BY <1>3, <1>5 DEF Status, Issued
<1>11. BdStatus[n] = "unused" /\ BdStatus' = [BdStatus EXCEPT ![n] = "pending"]
  BY <1>9, <1>10, BdFunctions, BdFunctionsNext
<1>12. BdTaken' = BdTaken /\ BdGot' = BdGot
  BY <1>6, <1>8, BdFunctions, BdFunctionsNext
<1>13. \E o \in BdOps : BdOp' = [BdOp EXCEPT ![n] = o]
  <2>1. PICK o : o = [type |-> s.type, first |-> s.first, frags |-> s.len]
    OBVIOUS
  <2>2. o \in BdOps
    BY <2>1 DEF BdOps
  <2>3. BdOp' = [BdOp EXCEPT ![n] = o]
    BY <1>5, <2>1 DEF BdOp
  <2> QED
    BY <2>2, <2>3
<1> QED
  BY <1>3, <1>11, <1>12, <1>13 DEF BD!Issue, BD!Next

LEMMA NbdRequestReadBd ==
  ASSUME StoreTypeOK, NEW h \in 0 .. MaxReqs, NEW i \in h .. MaxReqs, At(h, i), ReadsAreInOrder,
         NbdRequestRead
  PROVE  UNCHANGED BD!bdVars
<1>1. /\ req = NoRequest /\ req' = h /\ copied' = 0
      /\ UNCHANGED <<shape, storage, answers>>
  BY NbdRequestReadAt DEF NbdRequestRead
<1>2. ASSUME NEW n \in Requests
      PROVE  /\ Taken(n)' = Taken(n) /\ \A j \in Blocks : Got(n, j)' = Got(n, j)
  <2>1. n # NoRequest
    BY ShapeFacts
  <2>2. Taken(n)' = Taken(n) /\ (answers[n] = <<>> => Taken(n) = {})
    BY <1>1, <2>1 DEF Taken
  <2> QED
    BY <1>1, <2>2 DEF Got
<1> QED
  BY <1>1, <1>2, BdStutter

LEMMA CopyBd ==
  ASSUME StoreTypeOK, NEW h \in 0 .. MaxReqs, NEW i \in h .. MaxReqs, At(h, i), Copy
  PROVE  BD!Next
<1> DEFINE s == shape[h]
<1>1. /\ req = h /\ h \in Requests /\ h \in Nat /\ i \in Nat /\ h < i
      /\ copied \in 0 .. s.len /\ s.len \in Nat /\ copied < s.len
      /\ UNCHANGED <<shape, req, answers>> /\ copied' = copied + 1
  BY ShapeFacts DEF Copy, StoreTypeOK, At, Progress
<1>2. Issued(h) /\ answers[h] = <<>> /\ s \in Shapes /\ s.type \in {"READ", "WRITE", "DISC"}
  BY <1>1, ShapeFacts, LocalAssumption DEF At, Progress
<1>3. s.type # "DISC"
  BY <1>1, <1>2, LocalAssumption
<1>4. PICK c \in 0 .. s.len - 1 : c = copied
  BY <1>1
<1>5. /\ c \in Blocks /\ c \in Nat /\ s.first + c \in Blocks /\ Memcpy(s, c)
  BY <1>1, <1>2, <1>4, BlockRange DEF Copy
<1>6. Taken(h) = 0 .. c - 1 /\ Taken(h)' = Taken(h) \cup {c} /\ c \notin Taken(h)
  <2>1. Taken(h) = 0 .. c - 1 /\ Taken(h)' = 0 .. c
    BY <1>1, <1>2, <1>4, <1>5 DEF Taken
  <2>2. \A j : j \in 0 .. c <=> j \in 0 .. c - 1 \/ j = c
    BY <1>5
  <2> QED
    BY <1>5, <2>1, <2>2
<1>7. \A n \in Requests : n # h => Taken(n)' = Taken(n)
  BY <1>1 DEF Taken
<1>8. BdTaken' = [BdTaken EXCEPT ![h] = @ \cup {c}] /\ BdTaken[h] = Taken(h)
  BY <1>1, <1>6, <1>7, BdFunctions, BdFunctionsNext
<1>9. BdOp' = BdOp /\ BdStatus' = BdStatus /\ BdStatus[h] = "pending"
  BY <1>1, <1>2 DEF BdOp, BdStatus, Issued
<1>10. /\ BdOp[h].type = s.type /\ BdOp[h].first = s.first
       /\ c \in BD!Fragments(h) \ BdTaken[h]
  <2>1. BdOp[h] = [type |-> s.type, first |-> s.first, frags |-> s.len]
    BY <1>1, BdOpIs
  <2>2. BD!Fragments(h) = 0 .. s.len - 1
    BY <1>1, BdOpIs
  <2> QED
    BY <1>4, <1>6, <1>8, <2>1, <2>2
<1>11. CASE s.type = "WRITE"
  <2>1. storage' = [storage EXCEPT ![s.first + c] = dataBuf[c]] /\ dataBuf' = dataBuf
    BY <1>5, <1>11 DEF Memcpy
  <2>11. dataBuf[c] = Payload(h, c)
    BY <1>1, <1>5, <1>11 DEF Copy, At, Contents
  <2>2. \A n \in Requests : \A j \in Blocks : Got(n, j)' = Got(n, j)
    BY <1>1, <1>7, <1>11, <2>1 DEF Got
  <2>3. BdGot' = BdGot
    BY <2>2, BdFunctions, BdFunctionsNext
  <2>4. BD!Payload(h, c) = Payload(h, c)
    BY DEF BD!Payload, Payload
  <2>5. BD!WriteEffect(h, c)
    BY <1>8, <1>9, <1>10, <1>11, <2>1, <2>11, <2>3, <2>4 DEF BD!WriteEffect
  <2> QED
    BY <1>1, <1>10, <2>5 DEF BD!Next
<1>12. CASE s.type = "READ"
  <2>1. /\ dataBuf' = [dataBuf EXCEPT ![c] = storage[s.first + c]] /\ storage' = storage
    BY <1>5, <1>12 DEF Memcpy
  <2>2. \A n \in Requests : n # h => \A j \in Blocks : Got(n, j)' = Got(n, j)
    <3> SUFFICES ASSUME NEW n \in Requests, n # h, NEW j \in Blocks PROVE Got(n, j)' = Got(n, j)
      OBVIOUS
    <3>1. answers[n] = <<>> => Taken(n) = {}
      BY <1>1 DEF Taken
    <3> QED
      BY <1>1, <1>7, <3>1 DEF Got
  <2>3. Got(h, c)' = storage[s.first + c]
    BY <1>1, <1>2, <1>5, <1>6, <1>12, <2>1 DEF Got, StoreTypeOK
  <2>4. \A j \in Blocks : j # c => Got(h, j)' = Got(h, j)
    BY <1>1, <1>2, <1>6, <1>12, <2>1 DEF Got, StoreTypeOK
  <2>5. BdGot' = [BdGot EXCEPT ![h][c] = storage[s.first + c]]
    <3>1. BdGot = [n \in Requests |-> [j \in Blocks |-> Got(n, j)]]
      BY BdFunctions
    <3>2. BdGot' = [n \in Requests |-> [j \in Blocks |-> Got(n, j)']]
      BY BdFunctionsNext
    <3>3. BdGot[h] = [j \in Blocks |-> Got(h, j)]
      BY <1>1, <3>1
    <3>4. [BdGot[h] EXCEPT ![c] = storage[s.first + c]] = [j \in Blocks |-> Got(h, j)']
      BY <1>5, <2>3, <2>4, <3>3
    <3>5. \A n \in Requests : n # h => BdGot[n] = [j \in Blocks |-> Got(n, j)']
      BY <2>2, <3>1
    <3> QED
      BY <1>1, <3>1, <3>2, <3>4, <3>5, ZenonT(40)
  <2>6. BD!ReadEffect(h, c)
    BY <1>8, <1>9, <1>10, <1>12, <2>1, <2>5 DEF BD!ReadEffect
  <2> QED
    BY <1>1, <1>10, <2>6 DEF BD!Next
<1> QED
  BY <1>2, <1>3, <1>11, <1>12

LEMMA NbdRequestDoneBd ==
  ASSUME StoreTypeOK, NEW h \in 0 .. MaxReqs, NEW i \in h .. MaxReqs, At(h, i), ReadsAreInOrder,
         NbdRequestDone
  PROVE  BD!Next
<1>1. /\ req = h /\ h \in Requests /\ answers[h] = <<>> /\ h # NoRequest
      /\ copied = shape[h].len /\ req' = NoRequest
      /\ UNCHANGED <<shape, copied, dataBuf, storage>>
  BY NbdRequestDoneAt, ShapeFacts DEF NbdRequestDone
<1>2. answers' = [answers EXCEPT ![h] = <<dataBuf>>]
  BY <1>1 DEF NbdRequestDone, StoreTypeOK
<1>3. Issued(h)
  <2>1. h < i
    BY <1>1 DEF At, Progress
  <2> QED
    BY <1>1, <2>1 DEF At, Progress
<1>4. /\ answers'[h] = <<dataBuf>> /\ answers'[h] # <<>> /\ Head(answers'[h]) = dataBuf
      /\ \A n \in Requests : n # h => answers'[n] = answers[n]
  BY <1>1, <1>2 DEF StoreTypeOK
<1>5. /\ \A n \in Requests : Taken(n)' = Taken(n)
      /\ Taken(h) = 0 .. shape[h].len - 1
  BY <1>1, <1>4, ShapeFacts DEF Taken
<1>6. ASSUME NEW n \in Requests, NEW j \in Blocks PROVE Got(n, j)' = Got(n, j)
  <2>1. CASE n = h
    BY <1>1, <1>4, <1>5, <2>1 DEF Got
  <2>2. CASE n # h
    BY <1>1, <1>4, <1>5, <2>2 DEF Got
  <2> QED
    BY <2>1, <2>2
<1>7. BdTaken' = BdTaken /\ BdGot' = BdGot /\ BdOp' = BdOp
  BY <1>1, <1>5, <1>6, BdFunctions, BdFunctionsNext DEF BdOp
<1>8. Status(h) = "pending" /\ Status(h)' = "answered"
  BY <1>1, <1>3, <1>4 DEF Status, Issued
<1>9. \A n \in Requests : n # h => Status(n)' = Status(n)
  BY <1>1, <1>4 DEF Status, Issued
<1>10. BdStatus[h] = "pending" /\ BdStatus' = [BdStatus EXCEPT ![h] = "answered"]
  BY <1>1, <1>8, <1>9, BdFunctions, BdFunctionsNext
<1>11. BdTaken[h] = BD!Fragments(h)
  BY <1>1, <1>5, BdFunctions, BdOpIs
<1> QED
  BY <1>1, <1>7, <1>10, <1>11 DEF BD!Answer, BD!Next

LEMMA NextBd == StoreInv /\ [Next]_vars => [BD!Next]_BD!bdVars
<1> SUFFICES ASSUME StoreInv, [StoreStep]_storeVars PROVE [BD!Next]_BD!bdVars
  BY ServerStep
<1>1. StoreTypeOK /\ ReadsAreInOrder
  BY DEF StoreInv
<1>2. PICK h \in 0 .. MaxReqs : \E i \in h .. MaxReqs : At(h, i)
  BY DEF StoreInv, At
<1>3. PICK i \in h .. MaxReqs : At(h, i)
  BY <1>2
<1>4. CASE UNCHANGED storeVars
  <2>1. UNCHANGED <<shape, req, copied, dataBuf, storage, answers>>
    BY <1>4 DEF storeVars
  <2>2. \A n \in Requests : Taken(n)' = Taken(n)
    BY <2>1 DEF Taken
  <2>3. \A n \in Requests : \A j \in Blocks : Got(n, j)' = Got(n, j)
    BY <2>1, <2>2 DEF Got
  <2> QED
    BY <2>1, <2>2, <2>3, BdStutter
<1>5. CASE \E n \in Requests : KernelIssues(n)
  BY <1>1, <1>3, <1>5, KernelIssuesBd
<1>6. CASE NbdRequestRead
  BY <1>1, <1>3, <1>6, NbdRequestReadBd
<1>7. CASE Copy
  BY <1>1, <1>3, <1>7, CopyBd
<1>8. CASE NbdRequestDone
  BY <1>1, <1>3, <1>8, NbdRequestDoneBd
<1> QED
  BY <1>4, <1>5, <1>6, <1>7, <1>8 DEF StoreStep, Handle

(* The local server implements the block device: every block of a READ or     *)
(* WRITE takes effect once, when memcpy copies it, between the request and    *)
(* its answer, also when the kernel has issued more requests in the meantime  *)
(* and when either process ends in the middle of one.                        *)
THEOREM ImplementsBlockDevice == Spec => RefinesBlockDevice
<1>1. Init => BD!Init
  BY InitBd DEF Init
<1> QED
  BY <1>1, NextBd, StoreInvariance, PTL DEF Spec, RefinesBlockDevice, BD!Spec
----------------------------------------------------------------------------
(* Descriptor tables.                                                        *)

Files == {Closed, Std, Nbd, Sp(0), Sp(1)} \cup {Node(i) : i \in 1 .. nodes}

LEMMA FilesApart ==
  /\ Closed # Std /\ Closed # Nbd /\ Closed # Sp(0) /\ Closed # Sp(1)
  /\ Sp(0) # Std /\ Sp(0) # Nbd /\ Sp(0) # Sp(1)
  /\ \A i : Node(i) # Closed /\ Node(i) # Sp(0)
<1>1. Closed # Std /\ Closed # Nbd /\ Closed # Sp(0) /\ Closed # Sp(1)
  BY DEF Closed, Std, Nbd, Sp
<1>2. Sp(0) # Std /\ Sp(0) # Nbd
  BY DEF Std, Nbd, Sp
<1>3. Sp(0) # Sp(1)
  BY DEF Sp
<1>4. \A i : Node(i) # Closed
  BY DEF Node, Closed
<1>5. \A i : Node(i) # Sp(0)
  BY DEF Node, Sp
<1> QED
  BY <1>1, <1>2, <1>3, <1>4, <1>5

LEMMA NodesFit ==
  ASSUME nodes \in NodeCounts
  PROVE  nodes \in Nat /\ MaxFd \in Nat /\ nodes + 5 <= MaxFd
BY NbdDevAssumption

LEMMA LowestIs ==
  ASSUME NEW tab, NEW k \in Fds, tab[k] = Closed, \A j \in Fds : j < k => tab[j] # Closed
  PROVE  Lowest(tab) = k
<1> DEFINE S == {f \in Fds : tab[f] = Closed}
           m == CHOOSE x \in S : \A y \in S : x <= y
<1>1. Fds \subseteq Int
  BY NbdDevAssumption DEF Fds
<1>2. k \in S /\ \A y \in S : k <= y
  BY <1>1
<1>3. m \in S /\ \A y \in S : m <= y
  BY <1>2
<1>4. m \in Int /\ m <= k /\ k <= m /\ k \in Int
  BY <1>1, <1>2, <1>3
<1>5. m = Lowest(tab)
  BY DEF Lowest, Min
<1> HIDE DEF m
<1> QED
  BY <1>4, <1>5

LEMMA Changed ==
  ASSUME NEW S, NEW old, NEW new, NEW k \in S, NEW x,
         old = [f \in S |-> old[f]], new = [f \in S |-> new[f]],
         new[k] = x, \A f \in S : f # k => new[f] = old[f]
  PROVE  [old EXCEPT ![k] = x] = new
<1> DEFINE e == [old EXCEPT ![k] = x]
<1>1. e = [f \in S |-> IF f = k THEN x ELSE old[f]]
  OBVIOUS
<1>2. \A f \in S : (IF f = k THEN x ELSE old[f]) = new[f]
  OBVIOUS
<1>3. [f \in S |-> IF f = k THEN x ELSE old[f]] = [f \in S |-> new[f]]
  BY <1>2
<1> QED
  BY <1>1, <1>3

(* NbdDevOpen, up to the fork and after it.                                  *)
LEMMA TablesOfPair ==
  ASSUME nodes \in NodeCounts
  PROVE  /\ 3 \in Fds /\ 4 \in Fds /\ 5 \in Fds
         /\ Lowest(StdFds) = 3 /\ Opened(StdFds, Nbd) = NbdTab
         /\ Lowest(NbdTab) = 4 /\ Lowest(Opened(NbdTab, Sp(0))) = 5
         /\ Opened(Opened(NbdTab, Sp(0)), Sp(1)) = PairTab
         /\ Close(PairTab, 4) = ChildTab
         /\ Close(PairTab, 5) = ServerTab(0)
         /\ Close(ChildTab, 5) = DriverTab(0)
<1>1. 3 \in Fds /\ 4 \in Fds /\ 5 \in Fds /\ Fds \subseteq Nat
  BY NodesFit DEF Fds
<1>2. Lowest(StdFds) = 3
  BY <1>1, LowestIs, FilesApart DEF StdFds
<1>3. Opened(StdFds, Nbd) = NbdTab
  <2>1. NbdTab[3] = Nbd /\ \A f \in Fds : f # 3 => NbdTab[f] = StdFds[f]
    BY <1>1 DEF StdFds, NbdTab
  <2>2. StdFds = [f \in Fds |-> StdFds[f]] /\ NbdTab = [f \in Fds |-> NbdTab[f]]
    BY DEF StdFds, NbdTab
  <2> QED
    BY <1>1, <1>2, <2>1, <2>2, Changed DEF Opened
<1>4. Lowest(NbdTab) = 4
  BY <1>1, LowestIs, FilesApart DEF NbdTab
<1>5. PICK T : T = Opened(NbdTab, Sp(0))
  OBVIOUS
<1>6. T = [f \in Fds |-> IF f = 4 THEN Sp(0) ELSE NbdTab[f]]
  BY <1>4, <1>5 DEF Opened, NbdTab
<1>7. Lowest(T) = 5
  <2>1. T[5] = Closed /\ \A j \in Fds : j < 5 => T[j] # Closed
    BY <1>1, <1>6, FilesApart DEF NbdTab
  <2> QED
    BY <1>1, <2>1, LowestIs
<1>8. Opened(T, Sp(1)) = PairTab
  <2>1. PairTab[5] = Sp(1) /\ \A f \in Fds : f # 5 => PairTab[f] = T[f]
    BY <1>1, <1>6 DEF NbdTab, PairTab
  <2>2. T = [f \in Fds |-> T[f]] /\ PairTab = [f \in Fds |-> PairTab[f]]
    BY <1>6 DEF PairTab
  <2> QED
    BY <1>1, <1>7, <2>1, <2>2, Changed DEF Opened
<1>9. Close(PairTab, 4) = ChildTab
  BY DEF Close, ChildTab
<1>10. Close(PairTab, 5) = ServerTab(0)
  BY <1>1 DEF Close, PairTab, ServerTab
<1>11. Close(ChildTab, 5) = DriverTab(0)
  BY <1>1 DEF Close, ChildTab, PairTab, DriverTab
<1> QED
  BY <1>1, <1>2, <1>3, <1>4, <1>5, <1>7, <1>8, <1>9, <1>10, <1>11

(* main's connections.                                                       *)
LEMMA TablesOfNodes ==
  ASSUME nodes \in NodeCounts, NEW k \in 0 .. nodes, k # nodes
  PROVE  /\ k + 1 \in 0 .. nodes
         /\ Lowest(ServerTab(k)) = 5 + k /\ Opened(ServerTab(k), Node(k + 1)) = ServerTab(k + 1)
         /\ [ServerSoc(k) EXCEPT ![k + 1] = 5 + k] = ServerSoc(k + 1)
         /\ Lowest(DriverTab(k)) = 4 + k /\ Opened(DriverTab(k), Node(k + 1)) = DriverTab(k + 1)
         /\ [DriverSoc(k) EXCEPT ![k + 1] = 4 + k] = DriverSoc(k + 1)
<1>1. /\ 4 + k \in Fds /\ 5 + k \in Fds /\ Fds \subseteq Nat /\ k \in Nat /\ nodes \in Nat /\ k < nodes
      /\ k + 1 \in 0 .. nodes
  BY NodesFit DEF Fds
<1>2. Lowest(ServerTab(k)) = 5 + k
  <2>1. ServerTab(k)[5 + k] = Closed /\ \A j \in Fds : j < 5 + k => ServerTab(k)[j] # Closed
    BY <1>1, FilesApart DEF ServerTab
  <2> QED
    BY <1>1, <2>1, LowestIs
<1>3. Opened(ServerTab(k), Node(k + 1)) = ServerTab(k + 1)
  <2>1. /\ ServerTab(k + 1)[5 + k] = Node(k + 1)
        /\ \A f \in Fds : f # 5 + k => ServerTab(k + 1)[f] = ServerTab(k)[f]
    BY <1>1 DEF ServerTab
  <2>2. /\ ServerTab(k) = [f \in Fds |-> ServerTab(k)[f]]
        /\ ServerTab(k + 1) = [f \in Fds |-> ServerTab(k + 1)[f]]
    BY DEF ServerTab
  <2> QED
    BY <1>1, <1>2, <2>1, <2>2, Changed DEF Opened
<1>4. [ServerSoc(k) EXCEPT ![k + 1] = 5 + k] = ServerSoc(k + 1)
  <2>1. /\ ServerSoc(k + 1)[k + 1] = 5 + k
        /\ \A i \in 0 .. nodes : i # k + 1 => ServerSoc(k + 1)[i] = ServerSoc(k)[i]
    BY <1>1 DEF ServerSoc
  <2>2. /\ ServerSoc(k) = [i \in 0 .. nodes |-> ServerSoc(k)[i]]
        /\ ServerSoc(k + 1) = [i \in 0 .. nodes |-> ServerSoc(k + 1)[i]]
    BY DEF ServerSoc
  <2> QED
    BY <1>1, <2>1, <2>2, Changed
<1>5. Lowest(DriverTab(k)) = 4 + k
  <2>1. DriverTab(k)[4 + k] = Closed /\ \A j \in Fds : j < 4 + k => DriverTab(k)[j] # Closed
    BY <1>1, FilesApart DEF DriverTab
  <2> QED
    BY <1>1, <2>1, LowestIs
<1>6. Opened(DriverTab(k), Node(k + 1)) = DriverTab(k + 1)
  <2>1. /\ DriverTab(k + 1)[4 + k] = Node(k + 1)
        /\ \A f \in Fds : f # 4 + k => DriverTab(k + 1)[f] = DriverTab(k)[f]
    BY <1>1 DEF DriverTab
  <2>2. /\ DriverTab(k) = [f \in Fds |-> DriverTab(k)[f]]
        /\ DriverTab(k + 1) = [f \in Fds |-> DriverTab(k + 1)[f]]
    BY DEF DriverTab
  <2> QED
    BY <1>1, <1>5, <2>1, <2>2, Changed DEF Opened
<1>7. [DriverSoc(k) EXCEPT ![k + 1] = 4 + k] = DriverSoc(k + 1)
  <2>1. /\ DriverSoc(k + 1)[k + 1] = 4 + k
        /\ \A i \in 0 .. nodes : i # k + 1 => DriverSoc(k + 1)[i] = DriverSoc(k)[i]
    BY <1>1 DEF DriverSoc
  <2>2. /\ DriverSoc(k) = [i \in 0 .. nodes |-> DriverSoc(k)[i]]
        /\ DriverSoc(k + 1) = [i \in 0 .. nodes |-> DriverSoc(k + 1)[i]]
    BY DEF DriverSoc
  <2> QED
    BY <1>1, <2>1, <2>2, Changed
<1> QED
  BY <1>1, <1>2, <1>3, <1>4, <1>5, <1>6, <1>7

LEMMA NextNodeIs ==
  ASSUME nodes \in NodeCounts, NEW k \in 0 .. nodes, NEW p,
         socfd[p] = ServerSoc(k) \/ socfd[p] = DriverSoc(k)
  PROVE  NextNode(p) = k + 1
<1>1. nodes \in Nat /\ k \in Nat /\ k <= nodes
  BY NodesFit
<1>2. \A j : j \in {i \in 1 .. nodes : socfd[p][i] # 0} <=> j \in 1 .. k
  BY <1>1 DEF ServerSoc, DriverSoc
<1>3. {i \in 1 .. nodes : socfd[p][i] # 0} = 1 .. k
  BY <1>2
<1>4. Cardinality(1 .. k) = k
  BY <1>1, FS_Interval
<1> QED
  BY <1>3, <1>4 DEF NextNode

LEMMA TablesTyped ==
  ASSUME nodes \in NodeCounts
  PROVE  /\ StdFds \in [Fds -> Files] /\ NoneOpen \in [Fds -> Files]
         /\ NbdTab \in [Fds -> Files] /\ PairTab \in [Fds -> Files] /\ ChildTab \in [Fds -> Files]
         /\ \A k \in 0 .. nodes : /\ ServerTab(k) \in [Fds -> Files]
                                  /\ DriverTab(k) \in [Fds -> Files]
         /\ Unconnected \in [0 .. nodes -> Fds]
         /\ \A k \in 0 .. nodes : /\ ServerSoc(k) \in [0 .. nodes -> Fds]
                                  /\ DriverSoc(k) \in [0 .. nodes -> Fds]
<1>1. Fds \subseteq Nat /\ nodes \in Nat
  BY NodesFit DEF Fds
<1>2. StdFds \in [Fds -> Files] /\ NoneOpen \in [Fds -> Files] /\ NbdTab \in [Fds -> Files]
  BY DEF StdFds, NoneOpen, NbdTab, Files
<1>3. PairTab \in [Fds -> Files]
  BY DEF PairTab, Files
<1>4. ChildTab \in [Fds -> Files]
  BY <1>3 DEF ChildTab, Files
<1>5. ASSUME NEW k \in 0 .. nodes
      PROVE  /\ ServerTab(k) \in [Fds -> Files] /\ DriverTab(k) \in [Fds -> Files]
             /\ ServerSoc(k) \in [0 .. nodes -> Fds] /\ DriverSoc(k) \in [0 .. nodes -> Fds]
  <2>1. \A i \in 1 .. nodes : Node(i) \in Files
    BY DEF Files
  <2>2. Closed \in Files /\ Std \in Files /\ Nbd \in Files /\ Sp(0) \in Files
    BY DEF Files
  <2>3. ServerTab(k) \in [Fds -> Files]
    BY <1>1, <2>1, <2>2 DEF ServerTab
  <2>4. DriverTab(k) \in [Fds -> Files]
    BY <1>1, <2>1, <2>2 DEF DriverTab
  <2>5. ServerSoc(k) \in [0 .. nodes -> Fds] /\ DriverSoc(k) \in [0 .. nodes -> Fds]
    BY NodesFit DEF ServerSoc, DriverSoc, Fds
  <2> QED
    BY <2>3, <2>4, <2>5
<1>6. Unconnected \in [0 .. nodes -> Fds]
  BY NodesFit DEF Unconnected, Fds
<1> QED
  BY <1>2, <1>3, <1>4, <1>5, <1>6
----------------------------------------------------------------------------
(* The steps of one process.                                                 *)

Labels == {"open", "pair", "fork", "forked", "doit", "close", "cleanup",
           "failed", "connect", "run", "gone"}

TypedAt(p) ==
  /\ pc[p] \in Labels
  /\ fds[p] \in [Fds -> Files]
  /\ sp[p] \in (Fds \cup {-1}) \X (Fds \cup {-1})
  /\ nbd[p] \in Fds \cup {-1}
  /\ socfd[p] \in [0 .. nodes -> Fds]
  /\ handlers[p] \in [Fds -> 0 .. nodes \cup {NoHandler}]

LEMMA TypeOfProcess ==
  ASSUME DevTypeOK, NEW p \in Procs PROVE TypedAt(p) /\ nodes \in NodeCounts
BY DEF DevTypeOK, TypedAt, Files, Labels

(* What one process does leaves the variables of the other alone.            *)
OnlyAt(p) ==
  /\ nodes' = nodes
  /\ pc' = [pc EXCEPT ![p] = pc'[p]]
  /\ fds' = [fds EXCEPT ![p] = fds'[p]]
  /\ sp' = [sp EXCEPT ![p] = sp'[p]]
  /\ nbd' = [nbd EXCEPT ![p] = nbd'[p]]
  /\ socfd' = [socfd EXCEPT ![p] = socfd'[p]]
  /\ handlers' = [handlers EXCEPT ![p] = handlers'[p]]

SameAt(p) ==
  /\ pc'[p] = pc[p] /\ fds'[p] = fds[p] /\ sp'[p] = sp[p]
  /\ nbd'[p] = nbd[p] /\ socfd'[p] = socfd[p] /\ handlers'[p] = handlers[p]

LEMMA StepOfOne ==
  ASSUME DevTypeOK, NEW p \in Procs, OnlyAt(p), TypedAt(p)'
  PROVE  /\ DevTypeOK' /\ nodes' = nodes
         /\ \A q \in Procs : q # p => SameAt(q)
<1>1. /\ pc' \in [Procs -> Labels] /\ fds' \in [Procs -> [Fds -> Files]]
      /\ sp' \in [Procs -> (Fds \cup {-1}) \X (Fds \cup {-1})]
  BY DEF DevTypeOK, OnlyAt, TypedAt, Files, Labels
<1>2. /\ nbd' \in [Procs -> Fds \cup {-1}]
      /\ socfd' \in [Procs -> [0 .. nodes -> Fds]]
      /\ handlers' \in [Procs -> [Fds -> 0 .. nodes \cup {NoHandler}]]
  BY DEF DevTypeOK, OnlyAt, TypedAt
<1>3. \A q \in Procs : q # p => SameAt(q)
  BY DEF DevTypeOK, OnlyAt, SameAt
<1>4. nodes' = nodes /\ nodes \in NodeCounts
  BY DEF DevTypeOK, OnlyAt
<1> QED
  BY <1>1, <1>2, <1>3, <1>4 DEF DevTypeOK, Files, Labels

LEMMA SocSame ==
  ASSUME nodes' = nodes
  PROVE  /\ Unconnected' = Unconnected /\ Files' = Files
         /\ \A k : ServerSoc(k)' = ServerSoc(k) /\ DriverSoc(k)' = DriverSoc(k)
BY DEF Unconnected, Files, ServerSoc, DriverSoc

LEMMA ServerSame ==
  ASSUME ServerAt, nodes' = nodes, SameAt("server") PROVE ServerAt'
BY SocSame DEF ServerAt, SameAt, HasPair, Before

LEMMA DriverSame ==
  ASSUME DriverAt, nodes' = nodes, SameAt("driver"),
         pc'["server"] \in {"open", "pair", "fork"} => pc["server"] \in {"open", "pair", "fork"}
  PROVE  DriverAt'
BY SocSame DEF DriverAt, SameAt, HasPair, Before

(* A step of the server, and one of the forked process.                      *)
LEMMA ServerSteps ==
  ASSUME DevInv, OnlyAt("server"), TypedAt("server")', ServerAt',
         pc'["server"] \in {"open", "pair", "fork"} => pc["server"] \in {"open", "pair", "fork"},
         pc'["server"] # "run" => \A f \in Fds : handlers'["server"][f] = NoHandler
  PROVE  DevInv'
<1>1. DevTypeOK' /\ nodes' = nodes /\ SameAt("driver")
  BY StepOfOne DEF DevInv, Procs
<1>2. DriverAt'
  BY <1>1, DriverSame DEF DevInv
<1>3. Roles'
  BY <1>1 DEF DevInv, Roles, Procs, SameAt
<1> QED
  BY <1>1, <1>2, <1>3 DEF DevInv

LEMMA DriverSteps ==
  ASSUME DevInv, OnlyAt("driver"), TypedAt("driver")', DriverAt', pc["driver"] # "gone",
         pc'["driver"] # "run" => \A f \in Fds : handlers'["driver"][f] = NoHandler
  PROVE  DevInv'
<1>1. DevTypeOK' /\ nodes' = nodes /\ SameAt("server")
  BY StepOfOne DEF DevInv, Procs
<1>2. ServerAt'
  BY <1>1, ServerSame DEF DevInv
<1>3. Roles'
  BY <1>1 DEF DevInv, Roles, Procs, SameAt
<1> QED
  BY <1>1, <1>2, <1>3 DEF DevInv

LEMMA OpenDeviceInv ==
  ASSUME DevInv, OpenDevice PROVE DevInv'
<1>1. OnlyAt("server")
  BY DEF OpenDevice, OnlyAt, Goto, DevInv, DevTypeOK, Procs
<1>2. /\ fds["server"] = StdFds /\ sp["server"][1] <= 2 /\ Before("server") /\ nodes \in NodeCounts
      /\ \A f \in Fds : handlers["server"][f] = NoHandler
      /\ TypedAt("server") /\ pc["server"] = "open"
  BY TypeOfProcess DEF OpenDevice, DevInv, ServerAt, Roles, Procs
<1>3. UNCHANGED <<nodes, sp, socfd, handlers>>
  BY DEF OpenDevice
<1>4. CASE pc'["server"] = "pair"
  <2>1. nbd'["server"] = 3 /\ fds'["server"] = NbdTab /\ 3 \in Fds
    BY <1>2, <1>4, TablesOfPair DEF OpenDevice, Goto, DevInv, DevTypeOK, Procs
  <2>2. TypedAt("server")'
    BY <1>2, <1>3, <1>4, <2>1, SocSame, TablesTyped DEF TypedAt, Labels
  <2>3. ServerAt'
    BY <1>2, <1>3, <1>4, <2>1, SocSame DEF ServerAt, Before
  <2> QED
    BY <1>1, <1>2, <1>3, <1>4, <2>2, <2>3, ServerSteps
<1>5. CASE pc'["server"] = "cleanup" /\ UNCHANGED <<nbd, fds>>
  <2>1. TypedAt("server")'
    BY <1>2, <1>3, <1>5, SocSame DEF TypedAt, Labels
  <2>2. ServerAt'
    BY <1>2, <1>3, <1>5 DEF ServerAt
  <2> QED
    BY <1>1, <1>2, <1>3, <1>5, <2>1, <2>2, ServerSteps
<1> QED
  BY <1>4, <1>5 DEF OpenDevice, Goto, DevInv, DevTypeOK, Procs

LEMMA SocketPairInv ==
  ASSUME DevInv, SocketPair PROVE DevInv'
<1>1. OnlyAt("server")
  BY DEF SocketPair, OnlyAt, Goto, DevInv, DevTypeOK, Procs
<1>2. /\ fds["server"] = NbdTab /\ nbd["server"] = 3 /\ sp["server"][1] <= 2 /\ Before("server")
      /\ nodes \in NodeCounts /\ \A f \in Fds : handlers["server"][f] = NoHandler
      /\ TypedAt("server") /\ pc["server"] = "pair"
  BY TypeOfProcess DEF SocketPair, DevInv, ServerAt, Roles, Procs
<1>3. UNCHANGED <<nodes, nbd, socfd, handlers>>
  BY DEF SocketPair
<1>4. CASE pc'["server"] = "fork"
  <2>1. sp'["server"] = <<4, 5>> /\ fds'["server"] = PairTab /\ 4 \in Fds /\ 5 \in Fds
    BY <1>2, <1>4, TablesOfPair DEF SocketPair, Goto, DevInv, DevTypeOK, Procs
  <2>2. TypedAt("server")'
    BY <1>2, <1>3, <1>4, <2>1, SocSame, TablesTyped DEF TypedAt, Labels
  <2>3. ServerAt'
    BY <1>2, <1>3, <1>4, <2>1, SocSame DEF ServerAt, Before, HasPair
  <2> QED
    BY <1>1, <1>2, <1>3, <1>4, <2>2, <2>3, ServerSteps
<1>5. CASE pc'["server"] = "cleanup" /\ UNCHANGED <<sp, fds>>
  <2>1. TypedAt("server")'
    BY <1>2, <1>3, <1>5, SocSame DEF TypedAt, Labels
  <2>2. ServerAt'
    BY <1>2, <1>3, <1>5 DEF ServerAt
  <2> QED
    BY <1>1, <1>2, <1>3, <1>5, <2>1, <2>2, ServerSteps
<1> QED
  BY <1>4, <1>5 DEF SocketPair, Goto, DevInv, DevTypeOK, Procs
LEMMA ForkInv ==
  ASSUME DevInv, Fork PROVE DevInv'
<1>1. /\ fds["server"] = PairTab /\ HasPair("server") /\ Before("server") /\ pc["server"] = "fork"
      /\ pc["driver"] = "gone" /\ Before("driver") /\ DevTypeOK
      /\ \A p \in Procs : \A f \in Fds : handlers[p][f] = NoHandler
  BY DEF Fork, DevInv, ServerAt, DriverAt, Roles, Procs
<1>2. UNCHANGED <<nodes, socfd, handlers>>
  BY DEF Fork
<1>3. CASE pc' = [pc EXCEPT !["server"] = "close", !["driver"] = "forked"]
  <2>1. /\ pc'["server"] = "close" /\ pc'["driver"] = "forked"
        /\ pc' \in [Procs -> Labels]
    BY <1>1, <1>3 DEF DevTypeOK, Procs, Labels
  <2>2. pc'["server"] # "cleanup"
    BY <2>1
  <2>3. /\ fds' = [fds EXCEPT !["driver"] = fds["server"]]
        /\ sp' = [sp EXCEPT !["driver"] = sp["server"]]
        /\ nbd' = [nbd EXCEPT !["driver"] = nbd["server"]]
    BY <1>1, <2>2 DEF Fork, Goto, DevTypeOK, Procs
  <2>4. /\ fds' \in [Procs -> [Fds -> Files]] /\ nbd' \in [Procs -> Fds \cup {-1}]
        /\ sp' \in [Procs -> (Fds \cup {-1}) \X (Fds \cup {-1})]
    BY <1>1, <2>3 DEF DevTypeOK, Procs, Files
  <2>5. DevTypeOK'
    BY <1>1, <1>2, <2>1, <2>4 DEF DevTypeOK, Labels, Files
  <2>6. /\ fds'["server"] = PairTab /\ HasPair("server")' /\ Before("server")'
        /\ fds'["driver"] = PairTab /\ HasPair("driver")' /\ Before("driver")'
    BY <1>1, <1>2, <2>3, SocSame DEF DevTypeOK, Procs, HasPair, Before
  <2>7. ServerAt' /\ DriverAt'
    BY <2>1, <2>6 DEF ServerAt, DriverAt
  <2>8. Roles'
    BY <1>1, <1>2, <2>1 DEF Roles, Procs
  <2> QED
    BY <2>5, <2>7, <2>8 DEF DevInv
<1>4. CASE Goto("server", "cleanup") /\ UNCHANGED <<fds, sp, nbd>>
  <2>1. OnlyAt("server") /\ pc'["server"] = "cleanup"
    BY <1>1, <1>2, <1>4 DEF OnlyAt, Goto, DevTypeOK, Procs
  <2>2. TypedAt("server")'
    <3>1. TypedAt("server")
      BY <1>1, TypeOfProcess DEF Procs
    <3> QED
      BY <1>2, <1>4, <2>1, <3>1, SocSame DEF TypedAt, Labels
  <2>3. ServerAt'
    BY <1>1, <1>2, <1>4, <2>1 DEF ServerAt, HasPair
  <2>4. \A f \in Fds : handlers'["server"][f] = NoHandler
    BY <1>1, <1>2 DEF Procs
  <2> QED
    BY <2>1, <2>2, <2>3, <2>4, ServerSteps
<1> QED
  BY <1>3, <1>4 DEF Fork

LEMMA DoItInv ==
  ASSUME DevInv, DoIt PROVE DevInv'
<1>1. OnlyAt("driver") /\ pc'["driver"] = "doit"
  BY DEF DoIt, OnlyAt, Goto, DevInv, DevTypeOK, Procs
<1>2. /\ fds["driver"] = PairTab /\ HasPair("driver") /\ Before("driver") /\ nodes \in NodeCounts
      /\ \A f \in Fds : handlers["driver"][f] = NoHandler
      /\ TypedAt("driver") /\ pc["driver"] = "forked"
  BY TypeOfProcess DEF DoIt, DevInv, DriverAt, Roles, Procs
<1>3. UNCHANGED <<nodes, sp, nbd, socfd, handlers>>
  BY DEF DoIt
<1>4. fds'["driver"] = ChildTab
  <2>1. fds'["driver"] = Close(fds["driver"], sp["driver"][1])
    BY DEF DoIt, CloseInChild, DevInv, DevTypeOK, Procs
  <2> QED
    BY <1>2, <2>1, TablesOfPair DEF HasPair
<1>5. TypedAt("driver")'
  BY <1>1, <1>2, <1>3, <1>4, SocSame, TablesTyped DEF TypedAt, Labels
<1>6. DriverAt'
  BY <1>1, <1>2, <1>3, <1>4, SocSame DEF DriverAt, HasPair, Before
<1> QED
  BY <1>1, <1>2, <1>3, <1>5, <1>6, DriverSteps

LEMMA DoItReturnsInv ==
  ASSUME DevInv, DoItReturns PROVE DevInv'
<1>1. OnlyAt("driver") /\ pc'["driver"] \in {"close", "cleanup"}
  BY DEF DoItReturns, OnlyAt, Goto, DevInv, DevTypeOK, Procs
<1>2. /\ fds["driver"] = ChildTab /\ HasPair("driver") /\ Before("driver")
      /\ \A f \in Fds : handlers["driver"][f] = NoHandler
      /\ TypedAt("driver") /\ pc["driver"] = "doit"
  BY TypeOfProcess DEF DoItReturns, DevInv, DriverAt, Roles, Procs
<1>3. UNCHANGED <<nodes, fds, sp, nbd, socfd, handlers>>
  BY DEF DoItReturns
<1>4. TypedAt("driver")'
  BY <1>1, <1>2, <1>3, SocSame DEF TypedAt, Labels
<1>5. DriverAt'
  BY <1>1, <1>2, <1>3, SocSame DEF DriverAt, HasPair, Before
<1> QED
  BY <1>1, <1>2, <1>3, <1>4, <1>5, DriverSteps

LEMMA SocOfPair ==
  ASSUME nodes \in NodeCounts
  PROVE  /\ 0 \in 0 .. nodes
         /\ [Unconnected EXCEPT ![0] = 4] = ServerSoc(0)
         /\ [Unconnected EXCEPT ![0] = 4] = DriverSoc(0)
<1>1. nodes \in Nat /\ 0 \in 0 .. nodes
  BY NodesFit
<1>2. /\ Unconnected = [i \in 0 .. nodes |-> Unconnected[i]]
      /\ ServerSoc(0) = [i \in 0 .. nodes |-> ServerSoc(0)[i]]
      /\ DriverSoc(0) = [i \in 0 .. nodes |-> DriverSoc(0)[i]]
  BY DEF Unconnected, ServerSoc, DriverSoc
<1>3. ServerSoc(0)[0] = 4 /\ \A i \in 0 .. nodes : i # 0 => ServerSoc(0)[i] = Unconnected[i]
  BY <1>1 DEF Unconnected, ServerSoc
<1>4. DriverSoc(0)[0] = 4 /\ \A i \in 0 .. nodes : i # 0 => DriverSoc(0)[i] = Unconnected[i]
  BY <1>1 DEF Unconnected, DriverSoc
<1> QED
  BY <1>1, <1>2, <1>3, <1>4, Changed

LEMMA NbdDevOpenReturnsInv ==
  ASSUME DevInv, NEW p \in Procs, NbdDevOpenReturns(p) PROVE DevInv'
<1>1. OnlyAt(p) /\ pc[p] = "close" /\ pc'[p] = "connect" /\ UNCHANGED <<nodes, sp, nbd, handlers>>
  BY DEF NbdDevOpenReturns, OnlyAt, Goto, DevInv, DevTypeOK
<1>2. /\ fds'[p] = Close(fds[p], sp[p][2])
      /\ socfd'[p] = [socfd[p] EXCEPT ![0] = sp[p][1]]
  BY DEF NbdDevOpenReturns, CloseOther, DevInv, DevTypeOK
<1>3. /\ nodes \in NodeCounts /\ TypedAt(p) /\ \A f \in Fds : handlers'[p][f] = NoHandler
      /\ 0 \in 0 .. nodes
  BY <1>1, TypeOfProcess, SocOfPair DEF DevInv, Roles
<1>4. CASE p = "server"
  <2>1. fds[p] = PairTab /\ HasPair(p) /\ Before(p)
    BY <1>1, <1>4 DEF DevInv, ServerAt
  <2>2. fds'[p] = ServerTab(0) /\ socfd'[p] = ServerSoc(0)
    BY <1>2, <1>3, <2>1, TablesOfPair, SocOfPair DEF HasPair, Before
  <2>3. TypedAt(p)'
    BY <1>1, <1>3, <2>2, SocSame, TablesTyped DEF TypedAt, Labels
  <2>4. ServerAt'
    BY <1>1, <1>3, <1>4, <2>2, SocSame DEF ServerAt
  <2> QED
    BY <1>1, <1>3, <1>4, <2>3, <2>4, ServerSteps
<1>5. CASE p = "driver"
  <2>1. fds[p] = ChildTab /\ HasPair(p) /\ Before(p)
    BY <1>1, <1>5 DEF DevInv, DriverAt
  <2>2. fds'[p] = DriverTab(0) /\ socfd'[p] = DriverSoc(0)
    BY <1>2, <1>3, <2>1, TablesOfPair, SocOfPair DEF HasPair, Before
  <2>3. TypedAt(p)'
    BY <1>1, <1>3, <2>2, SocSame, TablesTyped DEF TypedAt, Labels
  <2>4. DriverAt'
    BY <1>1, <1>3, <1>5, <2>2, SocSame DEF DriverAt
  <2> QED
    BY <1>1, <1>3, <1>5, <2>3, <2>4, DriverSteps
<1> QED
  BY <1>4, <1>5 DEF Procs

(* CleanUp, in a server with the socket pair and in the forked process.       *)
LEMMA CleanUpCloses ==
  ASSUME NEW p, HasPair(p), nodes \in NodeCounts
  PROVE  /\ \A f \in Fds : CleanUp(p, PairTab)[f] \in {Closed, Std}
         /\ CleanUp(p, ChildTab) = ChildTab
<1> DEFINE arr == FailArr(p)
           Fails(tab, k) == \/ arr[k] \notin Fds \/ tab[arr[k]] = Closed
                            \/ \E j \in 1 .. k - 1 : arr[j] = arr[k]
           done(tab) == {arr[k] : k \in {k \in 1 .. 3 : \A j \in 1 .. k : ~Fails(tab, j)}}
<1>1. arr = <<4, 5, 3>> /\ 3 \in Fds /\ 4 \in Fds /\ 5 \in Fds /\ Fds \subseteq Nat
  BY TablesOfPair, NodesFit DEF FailArr, HasPair, Fds
<1>2. arr[1] = 4 /\ arr[2] = 5 /\ arr[3] = 3
  BY <1>1
<1>3. \A tab : CleanUp(p, tab) = [f \in Fds |-> IF f \in done(tab) THEN Closed ELSE tab[f]]
  BY DEF CleanUp
<1>4. PairTab[4] = Sp(0) /\ PairTab[5] = Sp(1) /\ PairTab[3] = Nbd
  BY <1>1 DEF PairTab
<1> HIDE DEF arr
<1>5. \A k \in 1 .. 3 : ~Fails(PairTab, k)
  <2>1. ~Fails(PairTab, 1)
    BY <1>1, <1>2, <1>4, FilesApart
  <2>2. ~Fails(PairTab, 2)
    BY <1>1, <1>2, <1>4, FilesApart
  <2>3. ~Fails(PairTab, 3)
    BY <1>1, <1>2, <1>4, FilesApart
  <2> QED
    BY <2>1, <2>2, <2>3
<1>6. 3 \in done(PairTab) /\ 4 \in done(PairTab) /\ 5 \in done(PairTab)
  <2>1. \A k \in 1 .. 3 : arr[k] \in done(PairTab)
    BY <1>5
  <2> HIDE DEF done
  <2> QED
    BY <1>2, <2>1
<1>7. Fails(ChildTab, 1)
  BY <1>1, <1>2 DEF ChildTab
<1>8. done(ChildTab) = {}
  <2>1. \A k \in 1 .. 3 : 1 \in 1 .. k
    OBVIOUS
  <2> HIDE DEF Fails
  <2> QED
    BY <1>7, <2>1
<1> HIDE DEF done
<1>9. \A f \in Fds : CleanUp(p, PairTab)[f] \in {Closed, Std}
  BY <1>1, <1>3, <1>6 DEF PairTab
<1>10. CleanUp(p, ChildTab) = ChildTab
  BY <1>3, <1>8 DEF ChildTab
<1> QED
  BY <1>9, <1>10

LEMMA CleanUpTyped ==
  ASSUME NEW p, NEW tab \in [Fds -> Files] PROVE CleanUp(p, tab) \in [Fds -> Files]
BY DEF CleanUp, Files

LEMMA NbdDevOpenFailsInv ==
  ASSUME DevInv, NEW p \in Procs, NbdDevOpenFails(p) PROVE DevInv'
<1>1. OnlyAt(p) /\ pc[p] = "cleanup" /\ pc'[p] = "failed" /\ UNCHANGED <<nodes, sp, nbd, socfd, handlers>>
  BY DEF NbdDevOpenFails, OnlyAt, Goto, DevInv, DevTypeOK
<1>2. fds'[p] = CleanUp(p, fds[p])
  BY DEF NbdDevOpenFails, DevInv, DevTypeOK
<1>3. /\ nodes \in NodeCounts /\ TypedAt(p) /\ \A f \in Fds : handlers'[p][f] = NoHandler
  BY <1>1, TypeOfProcess DEF DevInv, Roles
<1>4. TypedAt(p)'
  <2>1. fds'[p] \in [Fds -> Files]
    BY <1>2, <1>3, CleanUpTyped DEF TypedAt
  <2> QED
    BY <1>1, <1>3, <2>1, SocSame DEF TypedAt, Labels
<1>5. CASE p = "server"
  <2>1. sp[p][1] <= 2 \/ \A f \in Fds : fds'[p][f] \in {Closed, Std}
    BY <1>1, <1>2, <1>3, <1>5, CleanUpCloses DEF DevInv, ServerAt
  <2>2. ServerAt'
    BY <1>1, <1>5, <2>1 DEF ServerAt
  <2> QED
    BY <1>1, <1>3, <1>4, <1>5, <2>2, ServerSteps
<1>6. CASE p = "driver"
  <2>1. fds[p] = ChildTab /\ HasPair(p) /\ Before(p)
    BY <1>1, <1>6 DEF DevInv, DriverAt
  <2>2. fds'[p] = ChildTab
    BY <1>2, <1>3, <2>1, CleanUpCloses
  <2>3. DriverAt'
    BY <1>1, <1>6, <2>1, <2>2, SocSame DEF DriverAt, HasPair, Before
  <2> QED
    BY <1>1, <1>3, <1>4, <1>6, <2>3, DriverSteps
<1> QED
  BY <1>5, <1>6 DEF Procs

(* A process that ends, wherever that is.                                    *)
LEMMA ExitInv ==
  ASSUME DevInv, NEW p \in Procs, pc[p] # "gone", Exit(p), UNCHANGED <<nodes, sp, nbd, socfd>>
  PROVE  DevInv'
<1>1. /\ OnlyAt(p) /\ pc'[p] = "gone" /\ fds'[p] = NoneOpen
      /\ handlers'[p] = [f \in Fds |-> NoHandler]
  BY DEF Exit, OnlyAt, Goto, DevInv, DevTypeOK
<1>2. nodes \in NodeCounts /\ TypedAt(p)
  BY TypeOfProcess DEF DevInv
<1>3. TypedAt(p)'
  BY <1>1, <1>2, SocSame, TablesTyped DEF TypedAt, Labels
<1>4. CASE p = "server"
  BY <1>1, <1>3, <1>4, ServerSteps DEF ServerAt
<1>5. CASE p = "driver"
  <2>1. pc'["server"] \notin {"open", "pair", "fork"}
    BY <1>1, <1>5 DEF DevInv, DevTypeOK, OnlyAt, Roles, Procs
  <2>2. DriverAt'
    BY <1>1, <1>5, <2>1 DEF DriverAt
  <2> QED
    BY <1>1, <1>3, <1>5, <2>2, DriverSteps
<1> QED
  BY <1>4, <1>5 DEF Procs
LEMMA InitSocketInv ==
  ASSUME DevInv, NEW p \in Procs, InitSocket(p) PROVE DevInv'
<1>1. pc[p] = "connect" /\ NextNode(p) <= nodes /\ UNCHANGED <<nodes, sp, nbd>>
  BY DEF InitSocket
<1>2. /\ nodes \in NodeCounts /\ TypedAt(p) /\ \A f \in Fds : handlers[p][f] = NoHandler
  BY <1>1, TypeOfProcess DEF DevInv, Roles
<1>3. CASE Exit(p) /\ UNCHANGED socfd
  BY <1>1, <1>3, ExitInv
<1>4. CASE /\ socfd' = [socfd EXCEPT ![p][NextNode(p)] = Lowest(fds[p])]
           /\ fds' = [fds EXCEPT ![p] = Opened(@, Node(NextNode(p)))]
           /\ UNCHANGED <<pc, handlers>>
  <2>1. OnlyAt(p)
    BY <1>1, <1>4 DEF OnlyAt, DevInv, DevTypeOK
  <2>2. /\ socfd'[p] = [socfd[p] EXCEPT ![NextNode(p)] = Lowest(fds[p])]
        /\ fds'[p] = Opened(fds[p], Node(NextNode(p)))
    BY <1>4 DEF DevInv, DevTypeOK
  <2>3. CASE p = "server"
    <3>1. PICK k \in 0 .. nodes : fds[p] = ServerTab(k) /\ socfd[p] = ServerSoc(k)
      BY <1>1, <2>3 DEF DevInv, ServerAt
    <3>2. NextNode(p) = k + 1 /\ k # nodes
      <4>1. NextNode(p) = k + 1
        BY <1>2, <3>1, NextNodeIs
      <4> QED
        BY <1>1, <1>2, <4>1, NodesFit
    <3>3. k + 1 \in 0 .. nodes /\ fds'[p] = ServerTab(k + 1) /\ socfd'[p] = ServerSoc(k + 1)
      BY <1>2, <2>2, <3>1, <3>2, TablesOfNodes
    <3>4. TypedAt(p)'
      BY <1>1, <1>2, <1>4, <3>3, SocSame, TablesTyped DEF TypedAt
    <3>5. ServerAt'
      BY <1>1, <1>4, <2>3, <3>3, SocSame DEF ServerAt
    <3> QED
      BY <1>1, <1>2, <1>4, <2>1, <2>3, <3>4, <3>5, ServerSteps
  <2>4. CASE p = "driver"
    <3>1. PICK k \in 0 .. nodes : fds[p] = DriverTab(k) /\ socfd[p] = DriverSoc(k)
      BY <1>1, <2>4 DEF DevInv, DriverAt
    <3>2. NextNode(p) = k + 1 /\ k # nodes
      <4>1. NextNode(p) = k + 1
        BY <1>2, <3>1, NextNodeIs
      <4> QED
        BY <1>1, <1>2, <4>1, NodesFit
    <3>3. k + 1 \in 0 .. nodes /\ fds'[p] = DriverTab(k + 1) /\ socfd'[p] = DriverSoc(k + 1)
      BY <1>2, <2>2, <3>1, <3>2, TablesOfNodes
    <3>4. TypedAt(p)'
      BY <1>1, <1>2, <1>4, <3>3, SocSame, TablesTyped DEF TypedAt
    <3>5. DriverAt'
      BY <1>1, <1>4, <2>4, <3>3, SocSame DEF DriverAt
    <3> QED
      BY <1>1, <1>2, <1>4, <2>1, <2>4, <3>4, <3>5, DriverSteps
  <2> QED
    BY <2>3, <2>4 DEF Procs
<1> QED
  BY <1>3, <1>4 DEF InitSocket

LEMMA MaxIs ==
  ASSUME NEW S, S \subseteq Int, NEW m \in S, \A y \in S : m >= y
  PROVE  Max(S) = m
<1> DEFINE x == CHOOSE x \in S : \A y \in S : x >= y
<1>1. x \in S /\ \A y \in S : x >= y
  OBVIOUS
<1>2. x \in Int /\ m \in Int /\ x >= m /\ m >= x /\ x = Max(S)
  BY <1>1 DEF Max
<1> HIDE DEF x
<1> QED
  BY <1>2

(* The handlers of a process whose connections are made.                     *)
HandlerAt(p, f) ==
  LET is == {i \in 0 .. nodes : socfd[p][i] = f} IN IF is = {} THEN NoHandler ELSE Max(is)

LEMMA ServerHandlers ==
  ASSUME nodes \in NodeCounts, socfd["server"] = ServerSoc(nodes), NEW f \in Fds
  PROVE  /\ HandlerAt("server", f) \in 0 .. nodes \cup {NoHandler}
         /\ \A i \in 0 .. nodes : f = 4 + i => HandlerAt("server", f) = i
<1> DEFINE is == {i \in 0 .. nodes : socfd["server"][i] = f}
<1>1. nodes \in Nat /\ f \in Nat /\ is \subseteq Int
  BY NodesFit DEF Fds
<1>2. \A i : i \in is <=> i \in 0 .. nodes /\ f = 4 + i
  BY <1>1 DEF ServerSoc
<1>3. ASSUME NEW i \in 0 .. nodes, f = 4 + i PROVE HandlerAt("server", f) = i
  <2>1. i \in is /\ \A j \in is : i >= j
    BY <1>1, <1>2, <1>3
  <2> QED
    BY <1>1, <2>1, MaxIs DEF HandlerAt
<1>4. CASE is = {}
  BY <1>3, <1>4 DEF HandlerAt
<1>5. CASE is # {}
  BY <1>2, <1>3, <1>5
<1> QED
  BY <1>3, <1>4, <1>5

LEMMA DriverHandlers ==
  ASSUME nodes \in NodeCounts, socfd["driver"] = DriverSoc(nodes), NEW f \in Fds
  PROVE  HandlerAt("driver", f) \in 0 .. nodes \cup {NoHandler}
<1> DEFINE is == {i \in 0 .. nodes : socfd["driver"][i] = f}
<1>1. nodes \in Nat /\ f \in Nat /\ is \subseteq Int
  BY NodesFit DEF Fds
<1>2. \A i : i \in is <=> i \in 0 .. nodes /\ ((i = 0 /\ f = 4) \/ (i > 0 /\ f = 3 + i))
  BY <1>1 DEF DriverSoc
<1>3. CASE is = {}
  BY <1>3 DEF HandlerAt
<1>4. CASE is # {}
  <2>1. PICK m \in is : \A j \in is : m >= j
    <3>1. PICK i : i \in is
      BY <1>4
    <3>2. CASE \E j \in is : j > 0
      <4>1. PICK j \in is : j > 0
        BY <3>2
      <4>2. \A k \in is : j >= k
        BY <1>1, <1>2, <4>1
      <4> QED
        BY <4>2
    <3>3. CASE ~\E j \in is : j > 0
      <4>1. \A k \in is : i >= k
        BY <1>1, <1>2, <3>1, <3>3
      <4> QED
        BY <3>1, <4>1
    <3> QED
      BY <3>2, <3>3
  <2>2. HandlerAt("driver", f) = m
    BY <1>1, <1>4, <2>1, MaxIs DEF HandlerAt
  <2> QED
    BY <1>2, <2>1, <2>2
<1> QED
  BY <1>3, <1>4

LEMMA RegisterReadHandlersInv ==
  ASSUME DevInv, NEW p \in Procs, RegisterReadHandlers(p) PROVE DevInv'
<1>1. /\ OnlyAt(p) /\ pc[p] = "connect" /\ pc'[p] = "run" /\ UNCHANGED <<nodes, fds, sp, nbd, socfd>>
      /\ NextNode(p) > nodes
  BY DEF RegisterReadHandlers, OnlyAt, Goto, DevInv, DevTypeOK
<1>2. handlers'[p] = [f \in Fds |-> HandlerAt(p, f)]
  BY DEF RegisterReadHandlers, HandlerAt, DevInv, DevTypeOK
<1>3. nodes \in NodeCounts /\ TypedAt(p)
  BY TypeOfProcess DEF DevInv
<1>4. CASE p = "server"
  <2>1. PICK k \in 0 .. nodes : fds[p] = ServerTab(k) /\ socfd[p] = ServerSoc(k)
    BY <1>1, <1>4 DEF DevInv, ServerAt
  <2>2. NextNode(p) = k + 1 /\ nodes \in Nat
    BY <1>3, <2>1, NextNodeIs, NodesFit
  <2>3. k = nodes
    BY <1>1, <2>2
  <2>4. socfd["server"] = ServerSoc(nodes)
    BY <1>4, <2>1, <2>3
  <2>5. \A f \in Fds : HandlerAt(p, f) \in 0 .. nodes \cup {NoHandler}
    BY <1>3, <1>4, <2>4, ServerHandlers
  <2>6. \A i \in 0 .. nodes : handlers'[p][4 + i] = i
    <3> SUFFICES ASSUME NEW i \in 0 .. nodes PROVE handlers'[p][4 + i] = i
      OBVIOUS
    <3>1. 4 + i \in Fds
      BY <1>3, NodesFit DEF Fds
    <3>2. HandlerAt("server", 4 + i) = i
      BY <1>3, <2>4, <3>1, ServerHandlers
    <3> QED
      BY <1>2, <1>4, <3>1, <3>2
  <2>7. TypedAt(p)'
    BY <1>1, <1>2, <1>3, <2>5, SocSame DEF TypedAt, Labels
  <2>8. ServerAt'
    BY <1>1, <1>4, <2>1, <2>3, <2>6, SocSame DEF ServerAt
  <2> QED
    BY <1>1, <1>4, <2>7, <2>8, ServerSteps
<1>5. CASE p = "driver"
  <2>1. PICK k \in 0 .. nodes : fds[p] = DriverTab(k) /\ socfd[p] = DriverSoc(k)
    BY <1>1, <1>5 DEF DevInv, DriverAt
  <2>2. NextNode(p) = k + 1 /\ nodes \in Nat
    BY <1>3, <2>1, NextNodeIs, NodesFit
  <2>3. k = nodes
    BY <1>1, <2>2
  <2>4. \A f \in Fds : HandlerAt(p, f) \in 0 .. nodes \cup {NoHandler}
    BY <1>3, <1>5, <2>1, <2>3, DriverHandlers
  <2>5. TypedAt(p)'
    BY <1>1, <1>2, <1>3, <2>4, SocSame DEF TypedAt, Labels
  <2>6. DriverAt'
    BY <1>1, <1>5, <2>1, <2>3 DEF DriverAt
  <2> QED
    BY <1>1, <1>5, <2>5, <2>6, DriverSteps
<1> QED
  BY <1>4, <1>5 DEF Procs

----------------------------------------------------------------------------
(* The theorems about the processes.                                         *)

LEMMA InitDevInv == DevInit => DevInv
<1> SUFFICES ASSUME DevInit PROVE DevInv
  OBVIOUS
<1>1. /\ nodes \in NodeCounts /\ 0 \in Fds
      /\ pc["server"] = "open" /\ pc["driver"] = "gone" /\ pc \in [Procs -> Labels]
      /\ fds["server"] = StdFds /\ fds["driver"] = NoneOpen
  BY NodesFit DEF DevInit, Procs, Labels, Fds
<1>2. PICK junk \in {-1, 0} : sp = [p \in Procs |-> <<junk, junk>>]
  BY DEF DevInit
<1>3. sp["server"][1] <= 2 /\ sp \in [Procs -> (Fds \cup {-1}) \X (Fds \cup {-1})]
  BY <1>1, <1>2 DEF Procs
<1>4. fds \in [Procs -> [Fds -> Files]]
  BY <1>1, TablesTyped DEF DevInit
<1>5. /\ nbd \in [Procs -> Fds \cup {-1}] /\ socfd \in [Procs -> [0 .. nodes -> Fds]]
      /\ handlers \in [Procs -> [Fds -> 0 .. nodes \cup {NoHandler}]]
  BY <1>1, TablesTyped DEF DevInit
<1>6. DevTypeOK
  BY <1>1, <1>3, <1>4, <1>5 DEF DevTypeOK, Files, Labels
<1>7. /\ Before("server") /\ Before("driver")
      /\ \A p \in Procs : \A f \in Fds : handlers[p][f] = NoHandler
  BY DEF DevInit, Before, Procs
<1>8. ServerAt /\ DriverAt
  BY <1>1, <1>3, <1>7 DEF ServerAt, DriverAt
<1>9. Roles
  BY <1>1, <1>7 DEF Roles
<1> QED
  BY <1>6, <1>8, <1>9 DEF DevInv

LEMMA DevInvUnchanged == DevInv /\ UNCHANGED devVars => DevInv'
<1> SUFFICES ASSUME DevInv, UNCHANGED devVars PROVE DevInv'
  OBVIOUS
<1>1. UNCHANGED <<nodes, pc, fds, sp, nbd, socfd, handlers>>
  BY DEF devVars
<1>2. DevTypeOK'
  BY <1>1 DEF DevInv, DevTypeOK
<1>3. SameAt("server") /\ SameAt("driver")
  BY <1>1 DEF SameAt
<1>4. ServerAt' /\ DriverAt'
  BY <1>1, <1>3, ServerSame, DriverSame DEF DevInv
<1>5. Roles'
  BY <1>1 DEF DevInv, Roles
<1> QED
  BY <1>2, <1>4, <1>5 DEF DevInv

LEMMA NextDevInv == DevInv /\ [Next]_vars => DevInv'
<1> SUFFICES ASSUME DevInv, [Next]_vars PROVE DevInv'
  OBVIOUS
<1>1. CASE UNCHANGED devVars
  BY <1>1, DevInvUnchanged
<1>2. CASE NbdDevNext
  <2>1. CASE StartUp
    BY <2>1, OpenDeviceInv, SocketPairInv, ForkInv, DoItInv DEF StartUp
  <2>2. CASE DoItReturns
    BY <2>2, DoItReturnsInv
  <2>3. ASSUME NEW p \in Procs, MainReturns(p) \/ Dies(p) PROVE DevInv'
    <3>1. pc[p] # "gone" /\ Exit(p) /\ UNCHANGED <<nodes, sp, nbd, socfd>>
      BY <2>3 DEF MainReturns, Dies
    <3> QED
      BY <3>1, ExitInv
  <2>4. ASSUME NEW p \in Procs, Steps(p) PROVE DevInv'
    BY <2>3, <2>4, NbdDevOpenReturnsInv, NbdDevOpenFailsInv, InitSocketInv,
       RegisterReadHandlersInv DEF Steps
  <2> QED
    BY <1>2, <2>1, <2>2, <2>3, <2>4 DEF NbdDevNext
<1>3. CASE WriteFails
  <2>1. /\ pc["server"] # "gone" /\ Exit("server") /\ UNCHANGED <<nodes, sp, nbd, socfd>>
    BY <1>3 DEF WriteFails
  <2> QED
    BY <2>1, ExitInv DEF Procs
<1>4. ASSUME NEW p \in Procs, ReadEnds(p) PROVE DevInv'
  <2>1. pc[p] # "gone" /\ Exit(p) /\ UNCHANGED <<nodes, sp, nbd, socfd>>
    BY <1>4 DEF ReadEnds
  <2> QED
    BY <2>1, ExitInv
<1>5. CASE DriverIssues \/ Serve \/ Over \/ UNCHANGED vars
  BY <1>1, <1>5 DEF DriverIssues, Serve, Over, vars, devVars
<1> QED
  BY <1>2, <1>3, <1>4, <1>5 DEF Next

THEOREM DevInvariance == Spec => []DevInv
<1>1. Init => DevInv
  BY InitDevInv DEF Init
<1> QED
  BY <1>1, NextDevInv, PTL DEF Spec

(* What the variables range over; no request is answered twice.              *)
THEOREM TypeCorrect == Spec => []TypeOK
<1>1. DevInv /\ StoreInv => TypeOK
  BY DEF DevInv, StoreInv, TypeOK
<1> QED
  BY <1>1, DevInvariance, StoreInvariance, PTL

(* The forked process, whichever way NBD_DO_IT ends and however many nodes it *)
(* then connects to, has no handler on the server's end of the socket.       *)
THEOREM OneServer == Spec => []OneServerReadsTheDevice
<1>1. DevInv => OneServerReadsTheDevice
  <2> SUFFICES ASSUME DevInv, NEW f \in Fds, handlers["driver"][f] # NoHandler
               PROVE  fds["driver"][f] # Sp(0)
    BY DEF OneServerReadsTheDevice
  <2>1. fds["driver"] = DriverTab(nodes)
    BY DEF DevInv, Roles, DriverAt, Procs
  <2> QED
    BY <2>1, FilesApart DEF DriverTab
<1> QED
  BY <1>1, DevInvariance, PTL

(* Each handler of the server is registered for the descriptor of its own     *)
(* socket, for every number of nodes.                                        *)
THEOREM HandlersFit == Spec => []HandlersOnTheirSockets
<1>1. DevInv => HandlersOnTheirSockets
  <2> SUFFICES ASSUME DevInv, pc["server"] = "run", NEW i \in 0 .. nodes
               PROVE  /\ handlers["server"][socfd["server"][i]] = i
                      /\ fds["server"][socfd["server"][i]] = IF i = 0 THEN Sp(0) ELSE Node(i)
    BY DEF HandlersOnTheirSockets
  <2>1. /\ fds["server"] = ServerTab(nodes) /\ socfd["server"] = ServerSoc(nodes)
        /\ handlers["server"][4 + i] = i
    BY DEF DevInv, ServerAt
  <2>2. nodes \in Nat /\ i \in Nat /\ 4 + i \in Fds /\ i <= nodes
    BY NodesFit DEF DevInv, DevTypeOK, Fds
  <2>3. socfd["server"][i] = 4 + i
    BY <2>1, <2>2 DEF ServerSoc
  <2>4. ServerTab(nodes)[4 + i] = IF i = 0 THEN Sp(0) ELSE Node(i)
    BY <2>2 DEF ServerTab
  <2> QED
    BY <2>1, <2>3, <2>4
<1> QED
  BY <1>1, DevInvariance, PTL

(* A server that made the socket pair and fails gives every descriptor back.  *)
THEOREM FailuresRelease == Spec => []FailureReleasesAll
<1>1. DevInv => FailureReleasesAll
  <2> SUFFICES ASSUME DevInv, pc["server"] = "failed", sp["server"][1] > 2
               PROVE  \A f \in Fds : fds["server"][f] \in {Closed, Std}
    BY DEF FailureReleasesAll
  <2>1. sp["server"][1] \in Int
    BY DEF DevInv, DevTypeOK, Procs, Fds
  <2> QED
    BY <2>1 DEF DevInv, ServerAt
<1> QED
  BY <1>1, DevInvariance, PTL
=============================================================================
