-------------------------- MODULE ThreadPoolProofs --------------------------
(***************************************************************************)
(* Theorems about ThreadPool, for any number of workers, clients and tasks.   *)
(* IInv holds initially and every action preserves it; NobodySleepsOverWork   *)
(* follows from its part Counted, which compares the length of the queue      *)
(* with the workers about to look at it and the notifications on their way.   *)
(* The second half proves that ThreadPool implements Executor: EInv adds to   *)
(* IInv what the mapping needs; each action preserves it and maps to one step *)
(* of Executor or to none.                                                   *)
(***************************************************************************)
EXTENDS ThreadPool, FiniteSetTheorems, SequenceTheorems, TLAPS

----------------------------------------------------------------------------
(* The inductive invariant.                                                  *)

Busy(w) == wpc[w] \in {"run", "post"}

(* A task that was queued is in one place, the queue or one worker's hands.   *)
Placed ==
  /\ \A w \in Workers : Busy(w) => held[w] \in 0 .. made - 1
  /\ \A v, w \in Workers : Busy(v) /\ Busy(w) /\ held[v] = held[w] => v = w
  /\ \A w \in Workers : Busy(w) => \A k \in DOMAIN queue : queue[k] # held[w]

(* Its semaphore is posted after that, and once its status is set.            *)
Posted ==
  /\ \A t \in Tasks : t >= made => sem[t] = 0
  /\ \A k \in DOMAIN queue : sem[queue[k]] = 0
  /\ \A w \in Workers : Busy(w) => sem[held[w]] = 0
  /\ \A t \in Tasks : sem[t] > 0 => status[t] # Unset
  /\ \A w \in Workers : wpc[w] = "post" => status[held[w]] # Unset

(* The pills come on top of the tasks of the clients.                        *)
Bounded == made - pills <= MaxTasks

Notifying == {"notify", "notifyDown", "pillNotify"}
Looking   == {w \in Workers : wpc[w] = "dequeue"}
Notifiers == {c \in Clients : cpc[c] \in Notifying}

(* While anybody sleeps, there is a worker about to look at the queue, or a    *)
(* notification on its way, for each task in it.                             *)
Counted ==
  (\E w \in Workers : wpc[w] = "waiting") =>
    Len(queue) <= Cardinality(Looking) + Cardinality(Notifiers)

IInv == TypeOK /\ Placed /\ Posted /\ Bounded /\ Counted

----------------------------------------------------------------------------
(* Sets and sequences.                                                       *)

LEMMA Counts ==
  /\ Pills \in Nat /\ Tasks = 0 .. MaxTasks + Pills - 1 /\ MaxTasks \in Nat
  /\ IsFiniteSet(Looking) /\ Cardinality(Looking) \in Nat
  /\ IsFiniteSet(Notifiers) /\ Cardinality(Notifiers) \in Nat
<1>1. Pills \in Nat /\ MaxTasks \in Nat
  BY PoolAssumption, FS_CardinalityType DEF Pills
<1>2. IsFiniteSet(Looking) /\ IsFiniteSet(Notifiers)
  <2>1. Looking \in SUBSET Workers /\ Notifiers \in SUBSET Clients
    BY DEF Looking, Notifiers
  <2> QED
    BY <2>1, PoolAssumption, FS_Subset
<1> QED
  BY <1>1, <1>2, FS_CardinalityType DEF Tasks

(* What InsertAt of the community modules returns.                           *)
LEMMA Inserted ==
  ASSUME NEW S, NEW s \in Seq(S), NEW k \in 1 .. Len(s) + 1, NEW e \in S
  PROVE  /\ InsertAt(s, k, e) \in Seq(S)
         /\ Len(InsertAt(s, k, e)) = Len(s) + 1
         /\ \A i \in 1 .. Len(s) + 1 :
              InsertAt(s, k, e)[i] = IF i < k THEN s[i] ELSE IF i = k THEN e ELSE s[i - 1]
<1> DEFINE a == SubSeq(s, 1, k - 1)
           b == SubSeq(s, k, Len(s))
<1>1. Len(s) \in Nat /\ k \in Int /\ \A i \in 1 .. Len(s) : s[i] \in S
  OBVIOUS
<1>2. a \in Seq(S) /\ Len(a) = k - 1 /\ \A i \in 1 .. k - 1 : a[i] = s[i]
  BY <1>1, SubSeqProperties
<1>3. /\ b \in Seq(S) /\ Len(b) = Len(s) - k + 1
      /\ \A i \in 1 .. Len(s) - k + 1 : b[i] = s[k + i - 1]
  BY <1>1, SubSeqProperties
<1> HIDE DEF a, b
<1> DEFINE c == a \o <<e>>
<1>4. c \in Seq(S) /\ Len(c) = k /\ \A i \in 1 .. k : c[i] = IF i < k THEN s[i] ELSE e
  <2>1. <<e>> \in Seq(S) /\ Len(<<e>>) = 1 /\ <<e>>[1] = e
    OBVIOUS
  <2>2. c \in Seq(S) /\ Len(c) = k
    BY <1>2, <2>1, ConcatProperties
  <2>3. \A i \in 1 .. k : c[i] = IF i <= Len(a) THEN a[i] ELSE <<e>>[i - Len(a)]
    BY <1>2, <2>1, ConcatProperties
  <2> QED
    BY <1>2, <2>1, <2>2, <2>3
<1>5. InsertAt(s, k, e) = c \o b
  BY DEF InsertAt, a, b
<1> HIDE DEF c
<1>9. Len(s) + 1 = Len(c) + Len(b) /\ Len(c) = k /\ Len(b) = Len(s) - k + 1
  BY <1>1, <1>3, <1>4
<1>6. c \o b \in Seq(S) /\ Len(c \o b) = Len(s) + 1
  BY <1>3, <1>4, <1>9, ConcatProperties
<1>7. \A i \in 1 .. Len(s) + 1 : (c \o b)[i] = IF i <= k THEN c[i] ELSE b[i - k]
  <2>1. \A i \in 1 .. Len(c) + Len(b) : (c \o b)[i] = IF i <= Len(c) THEN c[i] ELSE b[i - Len(c)]
    BY <1>3, <1>4, ConcatProperties
  <2> QED
    BY <2>1, <1>9
<1>8. \A i \in 1 .. Len(s) + 1 :
        (c \o b)[i] = IF i < k THEN s[i] ELSE IF i = k THEN e ELSE s[i - 1]
  <2> SUFFICES ASSUME NEW i \in 1 .. Len(s) + 1
               PROVE  (c \o b)[i] = IF i < k THEN s[i] ELSE IF i = k THEN e ELSE s[i - 1]
    OBVIOUS
  <2>1. CASE i <= k
    BY <1>1, <1>4, <1>7, <2>1
  <2>2. CASE i > k
    <3>1. i - k \in 1 .. Len(s) - k + 1 /\ k + (i - k) - 1 = i - 1 /\ ~(i <= k) /\ ~(i < k) /\ i # k
      BY <1>1, <2>2
    <3>2. (c \o b)[i] = b[i - k]
      BY <1>7, <3>1
    <3>3. b[i - k] = s[k + (i - k) - 1]
      BY <1>3, <3>1
    <3> QED
      BY <3>1, <3>2, <3>3
  <2>3. i <= k \/ i > k
    BY <1>1
  <2> QED
    BY <2>1, <2>2, <2>3
<1> QED
  BY <1>5, <1>6, <1>8

(* The queue after Enqueue.                                                  *)
LEMMA QueueInserted ==
  ASSUME TypeOK, NEW k \in 1 .. Len(queue) + 1
  PROVE  LET q == InsertAt(queue, k, made) IN
         /\ q \in Seq(0 .. made) /\ IsInjective(q) /\ Len(q) = Len(queue) + 1
         /\ \A i \in 1 .. Len(queue) + 1 :
              q[i] = IF i < k THEN queue[i] ELSE IF i = k THEN made ELSE queue[i - 1]
         /\ \A i \in DOMAIN q : q[i] = made \/ \E j \in DOMAIN queue : q[i] = queue[j]
<1> DEFINE q == InsertAt(queue, k, made)
<1>1. /\ made \in Nat /\ queue \in Seq(0 .. made - 1) /\ Len(queue) \in Nat
      /\ DOMAIN queue = 1 .. Len(queue)
      /\ \A i, j \in DOMAIN queue : queue[i] = queue[j] => i = j
      /\ \A i \in DOMAIN queue : queue[i] \in 0 .. made - 1
  BY DEF TypeOK, IsInjective
<1>2. queue \in Seq(0 .. made)
  BY <1>1
<1>3. /\ q \in Seq(0 .. made) /\ Len(q) = Len(queue) + 1
      /\ \A i \in 1 .. Len(queue) + 1 :
           q[i] = IF i < k THEN queue[i] ELSE IF i = k THEN made ELSE queue[i - 1]
  <2>1. made \in 0 .. made
    BY <1>1
  <2> QED
    <3> DEFINE S == 0 .. made
    <3>1. queue \in Seq(S) /\ made \in S
      BY <1>2, <2>1
    <3> HIDE DEF S
    <3>2. q \in Seq(S) /\ Len(q) = Len(queue) + 1
      BY <3>1, Inserted
    <3>3. \A i \in 1 .. Len(queue) + 1 :
            q[i] = IF i < k THEN queue[i] ELSE IF i = k THEN made ELSE queue[i - 1]
      BY <3>1, Inserted
    <3> QED
      BY <3>2, <3>3 DEF S
<1> HIDE DEF q
<1>4. DOMAIN q = 1 .. Len(queue) + 1
  BY <1>3
<1>5. \A i \in DOMAIN q :
        \/ i < k /\ i \in DOMAIN queue /\ q[i] = queue[i]
        \/ i = k /\ q[i] = made
        \/ i > k /\ i - 1 \in DOMAIN queue /\ q[i] = queue[i - 1]
  <2> SUFFICES ASSUME NEW i \in 1 .. Len(queue) + 1
               PROVE  \/ i < k /\ i \in DOMAIN queue /\ q[i] = queue[i]
                      \/ i = k /\ q[i] = made
                      \/ i > k /\ i - 1 \in DOMAIN queue /\ q[i] = queue[i - 1]
    BY <1>4
  <2>1. CASE i < k
    BY <1>1, <1>3, <2>1
  <2>2. CASE i = k
    BY <1>1, <1>3, <2>2
  <2>3. CASE i > k
    BY <1>1, <1>3, <2>3
  <2> QED
    BY <1>1, <2>1, <2>2, <2>3
<1>6. \A i, j \in DOMAIN q : q[i] = q[j] => i = j
  BY <1>1, <1>4, <1>5, SMTT(30)
<1> QED
  BY <1>3, <1>5, <1>6 DEF q, IsInjective

(* One worker more looks at the queue, or one fewer.                         *)
LEMMA LookingChanges ==
  ASSUME TypeOK, NEW w \in Workers, NEW l, wpc' = [wpc EXCEPT ![w] = l]
  PROVE  Cardinality(Looking') =
           IF wpc[w] # "dequeue" /\ l = "dequeue" THEN Cardinality(Looking) + 1
           ELSE IF wpc[w] = "dequeue" /\ l # "dequeue" THEN Cardinality(Looking) - 1
           ELSE Cardinality(Looking)
<1>1. \A v \in Workers : wpc'[v] = IF v = w THEN l ELSE wpc[v]
  BY DEF TypeOK
<1>2. CASE wpc[w] # "dequeue" /\ l = "dequeue"
  <2>1. Looking' = Looking \cup {w} /\ w \notin Looking
    BY <1>1, <1>2 DEF Looking
  <2> QED
    BY <1>2, <2>1, Counts, FS_AddElement
<1>3. CASE wpc[w] = "dequeue" /\ l # "dequeue"
  <2>1. Looking' = Looking \ {w} /\ w \in Looking
    BY <1>1, <1>3 DEF Looking
  <2> QED
    BY <1>3, <2>1, Counts, FS_RemoveElement
<1>4. CASE (wpc[w] = "dequeue") = (l = "dequeue")
  <2>1. Looking' = Looking
    BY <1>1, <1>4 DEF Looking
  <2> QED
    BY <1>4, <2>1
<1> QED
  BY <1>2, <1>3, <1>4

(* One notification more is on its way, or one fewer.                        *)
LEMMA NotifiersChange ==
  ASSUME TypeOK, NEW c \in Clients, NEW l, cpc' = [cpc EXCEPT ![c] = l]
  PROVE  Cardinality(Notifiers') =
           IF cpc[c] \notin Notifying /\ l \in Notifying THEN Cardinality(Notifiers) + 1
           ELSE IF cpc[c] \in Notifying /\ l \notin Notifying THEN Cardinality(Notifiers) - 1
           ELSE Cardinality(Notifiers)
<1>1. \A d \in Clients : cpc'[d] = IF d = c THEN l ELSE cpc[d]
  BY DEF TypeOK
<1>2. CASE cpc[c] \notin Notifying /\ l \in Notifying
  <2>1. Notifiers' = Notifiers \cup {c} /\ c \notin Notifiers
    BY <1>1, <1>2 DEF Notifiers
  <2> QED
    BY <1>2, <2>1, Counts, FS_AddElement
<1>3. CASE cpc[c] \in Notifying /\ l \notin Notifying
  <2>1. Notifiers' = Notifiers \ {c} /\ c \in Notifiers
    BY <1>1, <1>3 DEF Notifiers
  <2> QED
    BY <1>3, <2>1, Counts, FS_RemoveElement
<1>4. CASE (cpc[c] \in Notifying) = (l \in Notifying)
  <2>1. Notifiers' = Notifiers
    BY <1>1, <1>4 DEF Notifiers
  <2> QED
    BY <1>4, <2>1
<1> QED
  BY <1>2, <1>3, <1>4

----------------------------------------------------------------------------
(* Steps that several actions have in common.                                *)

(* Nothing of the invariant reads what a client was told or may wait for.     *)
LEMMA ClientStep ==
  ASSUME IInv, NEW c \in Clients, NEW l, cpc' = [cpc EXCEPT ![c] = l],
         l \in {"idle", "notify", "notifyDown", "wait", "pill", "pillNotify", "down", "gone"},
         cpc[c] \notin Notifying, l \notin Notifying,
         futures' \in [Clients -> SUBSET Tasks], target' \in [Clients -> Tasks \cup {NoTask}],
         dying' \in BOOLEAN, running' \in BOOLEAN, owed' \subseteq Tasks,
         UNCHANGED <<queue, workerVars, taskVars, told, pills>>
  PROVE  IInv'
<1>1. UNCHANGED <<queue, wpc, held, made, result, status, sem, told, pills>>
  BY DEF workerVars, taskVars
<1>2. TypeOK'
  <2>1. cpc' \in [Clients -> {"idle", "notify", "notifyDown", "wait", "pill",
                              "pillNotify", "down", "gone"}]
    BY DEF IInv, TypeOK
  <2> QED
    BY <1>1, <2>1 DEF IInv, TypeOK
<1>3. Placed' /\ Posted' /\ Bounded'
  BY <1>1 DEF IInv, Placed, Posted, Bounded, Busy
<1>4. Counted'
  <2>1. Cardinality(Notifiers') = Cardinality(Notifiers)
    BY NotifiersChange DEF IInv
  <2>2. Looking' = Looking
    BY <1>1 DEF Looking
  <2> QED
    BY <1>1, <2>1, <2>2 DEF IInv, Counted
<1> QED
  BY <1>2, <1>3, <1>4 DEF IInv

(* A task more in the queue, a notification more on its way.                 *)
LEMMA EnqueueStep ==
  ASSUME IInv, NEW c \in Clients, NEW l \in Notifying, NEW r \in {"ok", "bad"}, Enqueue(r),
         cpc' = [cpc EXCEPT ![c] = l], cpc[c] \notin Notifying,
         made < MaxTasks + Pills, pills' \in 0 .. Pills, (made + 1) - pills' <= MaxTasks,
         futures' \in [Clients -> SUBSET Tasks],
         UNCHANGED <<workerVars, target, told, dying, running, owed>>
  PROVE  IInv'
<1>1. /\ made' = made + 1
      /\ result' = [result EXCEPT ![made] = r]
      /\ UNCHANGED <<status, sem, wpc, held>>
  BY DEF Enqueue, workerVars
<1>2. PICK k \in 1 .. Len(queue) + 1 : queue' = InsertAt(queue, k, made)
  BY DEF Enqueue
<1>3. /\ queue' \in Seq(0 .. made) /\ IsInjective(queue') /\ Len(queue') = Len(queue) + 1
      /\ \A i \in DOMAIN queue' : queue'[i] = made \/ \E j \in DOMAIN queue : queue'[i] = queue[j]
  BY <1>2, QueueInserted DEF IInv
<1>4. /\ made \in Nat /\ made \in Tasks /\ Len(queue) \in Nat
      /\ Pills \in Nat /\ MaxTasks \in Nat
      /\ \A t \in Tasks : t \in Nat
      /\ \A j \in DOMAIN queue : queue[j] \in 0 .. made - 1
  BY Counts DEF IInv, TypeOK
<1>5. TypeOK'
  <2>1. made' \in 0 .. MaxTasks + Pills /\ made' - 1 = made
    BY <1>1, <1>4
  <2>2. queue' \in Seq(0 .. made' - 1)
    BY <1>3, <2>1
  <2>3. result' \in [Tasks -> {None, "ok", "bad"}]
    BY <1>1, <1>4 DEF IInv, TypeOK
  <2>4. \A t \in Tasks : result'[t] # None <=> t < made'
    <3> SUFFICES ASSUME NEW t \in Tasks PROVE result'[t] # None <=> t < made'
      OBVIOUS
    <3>1. result'[t] = IF t = made THEN r ELSE result[t]
      BY <1>1, <1>4 DEF IInv, TypeOK
    <3>2. result[t] # None <=> t < made
      BY DEF IInv, TypeOK
    <3>3. r # None
      BY DEF None
    <3> QED
      BY <1>1, <1>4, <3>1, <3>2, <3>3
  <2>5. cpc' \in [Clients -> {"idle", "notify", "notifyDown", "wait", "pill",
                              "pillNotify", "down", "gone"}]
    BY DEF IInv, TypeOK, Notifying
  <2> QED
    BY <1>1, <1>3, <2>1, <2>2, <2>3, <2>4, <2>5 DEF IInv, TypeOK
<1>6. Placed'
  <2>1. \A w \in Workers : Busy(w)' = Busy(w)
    BY <1>1 DEF Busy
  <2>2. \A w \in Workers : Busy(w) => held[w] \in 0 .. made - 1 /\ held[w] # made
    BY <1>4 DEF IInv, Placed
  <2> QED
    BY <1>1, <1>3, <1>4, <2>1, <2>2 DEF IInv, Placed
<1>7. Posted'
  <2>1. sem[made] = 0
    BY <1>4 DEF IInv, Posted
  <2>2. \A i \in DOMAIN queue' : sem[queue'[i]] = 0
    BY <1>3, <2>1 DEF IInv, Posted
  <2>3. \A t \in Tasks : t >= made + 1 => sem[t] = 0
    BY <1>4 DEF IInv, Posted
  <2> QED
    BY <1>1, <2>2, <2>3 DEF IInv, Posted, Busy
<1>8. Counted'
  <2>1. Cardinality(Notifiers') = Cardinality(Notifiers) + 1
    BY NotifiersChange DEF IInv
  <2>2. Looking' = Looking
    BY <1>1 DEF Looking
  <2>3. Cardinality(Notifiers) \in Nat /\ Cardinality(Looking) \in Nat
    BY Counts
  <2> QED
    BY <1>1, <1>3, <1>4, <2>1, <2>2, <2>3 DEF IInv, Counted
<1>9. Bounded'
  <2>1. made' - pills' <= MaxTasks
    BY <1>1
  <2> QED
    BY <2>1 DEF Bounded
<1> QED
  BY <1>5, <1>6, <1>7, <1>8, <1>9 DEF IInv

(* A sleeper is about to look at the queue again.                             *)
LEMMA WakeStep ==
  ASSUME IInv, NEW w \in Workers, wpc[w] = "waiting", wpc' = [wpc EXCEPT ![w] = "dequeue"],
         UNCHANGED <<queue, held, taskVars, pills>>
  PROVE  Placed' /\ Posted' /\ Bounded' /\ Cardinality(Looking') = Cardinality(Looking) + 1
<1>1. \A v \in Workers : Busy(v)' = Busy(v) /\ (wpc'[v] = "post" <=> wpc[v] = "post")
  BY DEF IInv, TypeOK, Busy
<1>2. UNCHANGED <<made, result, status, sem>>
  BY DEF taskVars
<1>3. Placed' /\ Posted' /\ Bounded'
  BY <1>1, <1>2 DEF IInv, Placed, Posted, Bounded
<1>4. Cardinality(Looking') = Cardinality(Looking) + 1
  BY LookingChanges DEF IInv
<1> QED
  BY <1>3, <1>4

(* A notification arrives: a sleeper, if there is one, is about to look.       *)
LEMMA NotifyStep ==
  ASSUME IInv, NEW c \in Clients, NEW l \in {"idle", "down", "pill"}, cpc[c] \in Notifying,
         cpc' = [cpc EXCEPT ![c] = l], NotifyOne,
         UNCHANGED <<queue, held, taskVars, futures, target, told, downVars>>
  PROVE  IInv'
<1>1. UNCHANGED <<queue, held, made, result, status, sem, futures, target, told,
                  pills, dying, running, owed>>
  BY DEF taskVars, downVars
<1>2. l \notin Notifying
  BY DEF Notifying
<1>3. Cardinality(Notifiers') = Cardinality(Notifiers) - 1
  BY <1>2, NotifiersChange DEF IInv
<1>4. cpc' \in [Clients -> {"idle", "notify", "notifyDown", "wait", "pill",
                            "pillNotify", "down", "gone"}]
  BY DEF IInv, TypeOK
<1>5. Cardinality(Looking) \in Nat /\ Cardinality(Notifiers) \in Nat /\ Len(queue) \in Nat
  BY Counts DEF IInv, TypeOK
<1>6. CASE \A w \in Workers : wpc[w] # "waiting"
  <2>1. UNCHANGED wpc
    BY <1>6 DEF NotifyOne
  <2>2. TypeOK'
    BY <1>1, <1>4, <2>1 DEF IInv, TypeOK
  <2>3. Placed' /\ Posted' /\ Bounded'
    BY <1>1, <2>1 DEF IInv, Placed, Posted, Bounded, Busy
  <2>4. Counted'
    BY <1>6, <2>1 DEF Counted
  <2> QED
    BY <2>2, <2>3, <2>4 DEF IInv
<1>7. CASE \E w \in Workers : wpc[w] = "waiting"
  <2>1. PICK w \in Workers : wpc[w] = "waiting" /\ wpc' = [wpc EXCEPT ![w] = "dequeue"]
    BY <1>7 DEF NotifyOne
  <2>2. TypeOK'
    BY <1>1, <1>4, <2>1 DEF IInv, TypeOK
  <2>3. Placed' /\ Posted' /\ Bounded' /\ Cardinality(Looking') = Cardinality(Looking) + 1
    BY <1>1, <2>1, WakeStep DEF taskVars
  <2>4. Counted'
    BY <1>1, <1>3, <1>5, <1>7, <2>3 DEF IInv, Counted
  <2> QED
    BY <2>2, <2>3, <2>4 DEF IInv
<1> QED
  BY <1>6, <1>7

----------------------------------------------------------------------------
(* Each action preserves the invariant.                                      *)

LEMMA InitHolds == Init => IInv
<1> SUFFICES ASSUME Init PROVE IInv
  OBVIOUS
<1>1. queue = <<>> /\ made = 0 /\ DOMAIN queue = {} /\ Len(queue) = 0
  BY DEF Init
<1>2. queue \in Seq(0 .. made - 1) /\ IsInjective(queue)
  BY <1>1 DEF IsInjective
<1>3. TypeOK
  <2>1. Pills \in Nat /\ MaxTasks \in Nat /\ \A t \in Tasks : t \in Nat
    BY Counts
  <2>2. result \in [Tasks -> {None, "ok", "bad"}] /\ \A t \in Tasks : result[t] # None <=> t < made
    BY <2>1 DEF Init
  <2>3. /\ made \in 0 .. MaxTasks + Pills /\ pills \in 0 .. Pills
        /\ sem \in [Tasks -> 0 .. 1] /\ status \in [Tasks -> {Unset, "ok", "bad"}]
        /\ told \in [Tasks -> {None, "ok", "bad"}]
    BY <2>1 DEF Init
  <2>4. /\ wpc \in [Workers -> {"dequeue", "waiting", "run", "post", "exited"}]
        /\ held \in [Workers -> Tasks \cup {NoTask}]
        /\ {dying, running} \subseteq BOOLEAN /\ owed \subseteq Tasks
    BY DEF Init
  <2>5. /\ cpc \in [Clients -> {"idle", "notify", "notifyDown", "wait", "pill",
                                "pillNotify", "down", "gone"}]
        /\ futures \in [Clients -> SUBSET Tasks]
        /\ target \in [Clients -> Tasks \cup {NoTask}]
    BY DEF Init
  <2> QED
    BY <1>2, <2>2, <2>3, <2>4, <2>5 DEF TypeOK
<1>4. Placed /\ Posted
  BY <1>1 DEF Init, Placed, Posted, Busy
<1>5. Bounded
  BY Counts DEF Init, Bounded
<1>6. Counted
  BY DEF Init, Counted
<1> QED
  BY <1>3, <1>4, <1>5, <1>6 DEF IInv

LEMMA AsyncKeeps ==
  ASSUME IInv, NEW c \in Clients, Async(c)
  PROVE  IInv'
<1>1. PICK r \in Returns : Enqueue(r)
  BY DEF Async
<1>2. made - pills < MaxTasks /\ cpc[c] \in {"idle", "down"}
  BY DEF Async
<1>3. PICK l \in Notifying : cpc' = [cpc EXCEPT ![c] = l]
  BY DEF Async, Notifying
<1>4. /\ made \in Nat /\ pills \in 0 .. Pills /\ MaxTasks \in Nat /\ Pills \in Nat
      /\ made < MaxTasks + Pills /\ made \in Tasks
  BY <1>2, Counts DEF IInv, TypeOK
<1>5. futures' = [futures EXCEPT ![c] = futures[c] \cup {made}]
  BY DEF Async
<1>6. futures' \in [Clients -> SUBSET Tasks]
  BY <1>4, <1>5 DEF IInv, TypeOK
<1>7. UNCHANGED <<workerVars, target, told, dying, running, owed>> /\ pills' = pills
  BY DEF Async, downVars
<1>8. r \in {"ok", "bad"} /\ cpc[c] \notin Notifying /\ (made + 1) - pills' <= MaxTasks
  BY <1>2, <1>4, <1>7, PoolAssumption DEF Notifying
<1> QED
  BY <1>1, <1>3, <1>4, <1>6, <1>7, <1>8, EnqueueStep

LEMMA AsyncNotifyKeeps ==
  ASSUME IInv, NEW c \in Clients, AsyncNotify(c)
  PROVE  IInv'
<1>1. PICK l \in {"idle", "down", "pill"} : cpc' = [cpc EXCEPT ![c] = l]
  BY DEF AsyncNotify
<1> QED
  BY <1>1, NotifyStep DEF AsyncNotify, Notifying

LEMMA CallWaitKeeps ==
  ASSUME IInv, NEW c \in Clients, CallWait(c)
  PROVE  IInv'
<1>1. PICK t \in futures[c] : /\ target' = [target EXCEPT ![c] = t]
                             /\ futures' = [futures EXCEPT ![c] = futures[c] \ {t}]
  BY DEF CallWait
<1>2. target' \in [Clients -> Tasks \cup {NoTask}] /\ futures' \in [Clients -> SUBSET Tasks]
  BY <1>1 DEF IInv, TypeOK
<1>3. /\ cpc[c] = "idle" /\ cpc' = [cpc EXCEPT ![c] = "wait"]
      /\ UNCHANGED <<queue, workerVars, taskVars, told, pills, dying, running, owed>>
  BY DEF CallWait, downVars
<1> QED
  BY <1>2, <1>3, ClientStep DEF IInv, TypeOK, Notifying

(* The semaphore was posted, so the status is set.                           *)
LEMMA WaitReturnsKeeps ==
  ASSUME IInv, NEW c \in Clients, WaitReturns(c)
  PROVE  IInv'
<1> DEFINE t == target[c]
<1>1. /\ cpc[c] = "wait" /\ sem[t] > 0
      /\ sem' = [sem EXCEPT ![t] = sem[t] - 1]
      /\ told' = [told EXCEPT ![t] = status[t]]
      /\ target' = [target EXCEPT ![c] = NoTask]
      /\ cpc' = [cpc EXCEPT ![c] = "idle"]
      /\ UNCHANGED <<queue, wpc, held, made, result, status, futures, pills, dying, running, owed>>
  BY DEF WaitReturns, workerVars, downVars
<1>2. sem \in [Tasks -> 0 .. 1] /\ t \in Tasks \cup {NoTask}
  BY DEF IInv, TypeOK
<1> HIDE DEF t
<1>3. sem' \in [Tasks -> 0 .. 1] /\ \A u \in Tasks : sem'[u] > 0 => sem[u] > 0
  <2>1. CASE t \in Tasks
    <3>1. sem[t] = 1
      BY <1>1, <1>2, <2>1
    <3>2. sem' = [sem EXCEPT ![t] = 0]
      BY <1>1, <3>1
    <3> QED
      BY <1>2, <2>1, <3>1, <3>2
  <2>2. CASE t \notin Tasks
    <3>1. \A u \in Tasks : sem'[u] = sem[u] /\ sem'[u] \in 0 .. 1
      BY <1>1, <1>2, <2>2
    <3>2. sem' = [u \in Tasks |-> sem'[u]]
      BY <1>1, <1>2
    <3>3. sem' \in [Tasks -> 0 .. 1]
      BY <3>1, <3>2
    <3> QED
      BY <3>1, <3>3
  <2> QED
    BY <2>1, <2>2
<1>4. told' \in [Tasks -> {None, "ok", "bad"}]
  <2>1. CASE t \in Tasks
    <3>1. status[t] \in {"ok", "bad"}
      BY <1>1, <2>1 DEF IInv, TypeOK, Posted
    <3> QED
      BY <1>1, <3>1 DEF IInv, TypeOK
  <2>2. CASE t \notin Tasks
    BY <1>1, <2>2 DEF IInv, TypeOK
  <2> QED
    BY <2>1, <2>2
<1>5. TypeOK'
  <2>1. cpc' \in [Clients -> {"idle", "notify", "notifyDown", "wait", "pill",
                              "pillNotify", "down", "gone"}]
    BY <1>1 DEF IInv, TypeOK
  <2>2. target' \in [Clients -> Tasks \cup {NoTask}]
    BY <1>1 DEF IInv, TypeOK
  <2> QED
    BY <1>1, <1>3, <1>4, <2>1, <2>2 DEF IInv, TypeOK
<1>6. \A u \in Tasks : sem[u] = 0 => sem'[u] = 0
  BY <1>2, <1>3
<1>7. Placed' /\ Bounded'
  BY <1>1 DEF IInv, Placed, Bounded, Busy
<1>8. Posted'
  <2>1. \A k \in DOMAIN queue : queue[k] \in Tasks
    BY Counts DEF IInv, TypeOK
  <2>2. \A w \in Workers : Busy(w) => held[w] \in Tasks
    BY Counts DEF IInv, TypeOK, Placed
  <2>3. \A u \in Tasks : u >= made' => sem'[u] = 0
    BY <1>1, <1>6 DEF IInv, Posted
  <2>4. \A k \in DOMAIN queue' : sem'[queue'[k]] = 0
    BY <1>1, <1>6, <2>1 DEF IInv, Posted
  <2>5. \A w \in Workers : Busy(w)' => sem'[held'[w]] = 0
    BY <1>1, <1>6, <2>2 DEF IInv, Posted, Busy
  <2>6. \A u \in Tasks : sem'[u] > 0 => status'[u] # Unset
    BY <1>1, <1>3 DEF IInv, Posted
  <2>7. \A w \in Workers : wpc'[w] = "post" => status'[held'[w]] # Unset
    BY <1>1 DEF IInv, Posted
  <2> QED
    BY <2>3, <2>4, <2>5, <2>6, <2>7 DEF Posted
<1>9. Counted'
  <2>1. Cardinality(Notifiers') = Cardinality(Notifiers)
    <3>1. cpc[c] \notin Notifying /\ "idle" \notin Notifying
      BY <1>1 DEF Notifying
    <3> QED
      BY <1>1, <3>1, NotifiersChange DEF IInv
  <2>2. Looking' = Looking
    BY <1>1 DEF Looking
  <2> QED
    BY <1>1, <2>1, <2>2 DEF IInv, Counted
<1> QED
  BY <1>5, <1>7, <1>8, <1>9 DEF IInv

LEMMA QueuedAreTasks ==
  ASSUME IInv
  PROVE  Queued \subseteq Tasks
<1>1. \A k \in 1 .. Len(queue) : queue[k] \in Tasks
  BY Counts DEF IInv, TypeOK
<1> QED
  BY <1>1 DEF Queued

LEMMA CallShutDownKeeps ==
  ASSUME IInv, CallShutDown
  PROVE  IInv'
<1>1. /\ cpc[Boss] = "idle" /\ cpc' = [cpc EXCEPT ![Boss] = "pill"] /\ owed' = Queued
      /\ UNCHANGED <<queue, workerVars, taskVars, futures, target, told, pills, dying, running>>
  BY DEF CallShutDown
<1> QED
  BY <1>1, PoolAssumption, QueuedAreTasks, ClientStep DEF IInv, TypeOK, Notifying

LEMMA DestroyKeeps ==
  ASSUME IInv, Destroy
  PROVE  IInv'
<1>1. /\ cpc[Boss] \in {"idle", "down"}
      /\ UNCHANGED <<queue, workerVars, taskVars, futures, target, told, pills, running>>
      /\ dying' = TRUE
  BY DEF Destroy
<1>2. owed' \subseteq Tasks
  BY QueuedAreTasks DEF Destroy, IInv, TypeOK
<1>3. PICK l \in {"pill", "gone"} : cpc' = [cpc EXCEPT ![Boss] = l]
  BY DEF Destroy
<1> QED
  BY <1>1, <1>2, <1>3, PoolAssumption, ClientStep DEF IInv, TypeOK, Notifying

LEMMA PushPillKeeps ==
  ASSUME IInv, PushPill
  PROVE  IInv'
<1>1. /\ cpc[Boss] = "pill" /\ pills < Pills /\ Enqueue("bad") /\ pills' = pills + 1
      /\ cpc' = [cpc EXCEPT ![Boss] = "pillNotify"]
      /\ UNCHANGED <<workerVars, futures, target, told, dying, running, owed>>
  BY DEF PushPill
<1>2. /\ made \in Nat /\ pills' \in 0 .. Pills
      /\ made < MaxTasks + Pills /\ (made + 1) - pills' <= MaxTasks
  BY <1>1, Counts DEF IInv, TypeOK, Bounded
<1>3. Boss \in Clients /\ cpc[Boss] \notin Notifying /\ "pillNotify" \in Notifying
  BY <1>1, PoolAssumption DEF Notifying
<1>4. futures' \in [Clients -> SUBSET Tasks]
  BY <1>1 DEF IInv, TypeOK
<1> QED
  BY <1>1, <1>2, <1>3, <1>4, EnqueueStep

LEMMA PillNotifyKeeps ==
  ASSUME IInv, PillNotify
  PROVE  IInv'
BY PoolAssumption, NotifyStep DEF PillNotify, Notifying

LEMMA JoinKeeps ==
  ASSUME IInv, Join
  PROVE  IInv'
<1>1. /\ cpc[Boss] = "pill" /\ running' = FALSE
      /\ UNCHANGED <<queue, workerVars, taskVars, futures, target, told, pills, dying, owed>>
  BY DEF Join
<1>2. PICK l \in {"gone", "down"} : cpc' = [cpc EXCEPT ![Boss] = l]
  BY DEF Join
<1> QED
  BY <1>1, <1>2, PoolAssumption, ClientStep DEF IInv, TypeOK, Notifying

LEMMA DequeueKeeps ==
  ASSUME IInv, NEW w \in Workers, Dequeue(w)
  PROVE  IInv'
<1>1. /\ wpc[w] = "dequeue"
      /\ UNCHANGED <<made, result, status, sem, cpc, futures, target, told,
                     pills, dying, running, owed>>
  BY DEF Dequeue, taskVars, clientVars, downVars
<1>2. /\ queue \in Seq(0 .. made - 1) /\ Len(queue) \in Nat /\ made \in Nat
      /\ DOMAIN queue = 1 .. Len(queue)
      /\ \A i, j \in DOMAIN queue : queue[i] = queue[j] => i = j
  BY DEF IInv, TypeOK, IsInjective
<1>3. Notifiers' = Notifiers /\ Cardinality(Notifiers) \in Nat /\ Cardinality(Looking) \in Nat
  BY <1>1, Counts DEF Notifiers
<1>4. CASE queue # <<>>
  <2>1. /\ held' = [held EXCEPT ![w] = Head(queue)] /\ queue' = Tail(queue)
        /\ wpc' = [wpc EXCEPT ![w] = "run"]
    BY <1>4 DEF Dequeue
  <2>2. /\ Head(queue) = queue[1] /\ 1 \in DOMAIN queue /\ Head(queue) \in 0 .. made - 1
        /\ Tail(queue) \in Seq(0 .. made - 1) /\ Len(Tail(queue)) = Len(queue) - 1
        /\ \A k \in DOMAIN Tail(queue) :
             k + 1 \in DOMAIN queue /\ k + 1 # 1 /\ Tail(queue)[k] = queue[k + 1]
    BY <1>2, <1>4
  <2>3. /\ \A v \in Workers : wpc'[v] = IF v = w THEN "run" ELSE wpc[v]
        /\ \A v \in Workers : held'[v] = IF v = w THEN queue[1] ELSE held[v]
    BY <2>1, <2>2 DEF IInv, TypeOK
  <2>4. \A i, j \in DOMAIN queue' : queue'[i] = queue'[j] => i = j
    <3> SUFFICES ASSUME NEW i \in DOMAIN queue', NEW j \in DOMAIN queue', queue'[i] = queue'[j]
                 PROVE  i = j
      OBVIOUS
    <3>1. i + 1 = j + 1
      BY <1>2, <2>1, <2>2
    <3>2. i \in Int /\ j \in Int
      BY <2>1, <2>2
    <3> QED
      BY <3>1, <3>2
  <2>5. TypeOK'
    <3>1. Head(queue) \in Tasks
      BY <2>2, Counts DEF IInv, TypeOK
    <3>2. held' \in [Workers -> Tasks \cup {NoTask}]
      BY <2>1, <3>1 DEF IInv, TypeOK
    <3>3. wpc' \in [Workers -> {"dequeue", "waiting", "run", "post", "exited"}]
      BY <2>1 DEF IInv, TypeOK
    <3>4. queue' \in Seq(0 .. made' - 1) /\ IsInjective(queue')
      BY <1>1, <2>1, <2>2, <2>4 DEF IsInjective
    <3> QED
      BY <1>1, <3>2, <3>3, <3>4 DEF IInv, TypeOK
  <2>6. \A v \in Workers : v # w => Busy(v)' = Busy(v)
    BY <2>3 DEF Busy
  <2>7. Placed'
    <3>1. \A v \in Workers : v # w /\ Busy(v) => held[v] # queue[1]
      BY <2>2 DEF IInv, Placed
    <3>2. \A v \in Workers : Busy(v)' => held'[v] \in 0 .. made' - 1
      BY <1>1, <2>2, <2>3, <2>6 DEF IInv, Placed
    <3>3. \A v, u \in Workers : Busy(v)' /\ Busy(u)' /\ held'[v] = held'[u] => v = u
      BY <2>3, <2>6, <3>1 DEF IInv, Placed
    <3>4. \A v \in Workers : Busy(v)' => \A k \in DOMAIN queue' : queue'[k] # held'[v]
      BY <1>2, <2>1, <2>2, <2>3, <2>6 DEF IInv, Placed
    <3> QED
      BY <3>2, <3>3, <3>4 DEF Placed
  <2>8. Posted'
    <3>1. sem[queue[1]] = 0 /\ \A k \in DOMAIN queue' : sem[queue'[k]] = 0
      BY <2>1, <2>2 DEF IInv, Posted
    <3>2. \A v \in Workers : Busy(v)' => sem'[held'[v]] = 0
      BY <1>1, <2>3, <2>6, <3>1 DEF IInv, Posted
    <3>3. \A v \in Workers : wpc'[v] = "post" => status'[held'[v]] # Unset
      BY <1>1, <2>3 DEF IInv, Posted
    <3> QED
      BY <1>1, <3>1, <3>2, <3>3 DEF IInv, Posted
  <2>9. Counted'
    <3>1. Cardinality(Looking') = Cardinality(Looking) - 1
      BY <1>1, <2>1, LookingChanges DEF IInv
    <3>2. (\E v \in Workers : wpc'[v] = "waiting") => \E v \in Workers : wpc[v] = "waiting"
      BY <2>3
    <3>3. Len(queue') = Len(queue) - 1
      BY <2>1, <2>2
    <3> QED
      BY <1>2, <1>3, <3>1, <3>2, <3>3 DEF IInv, Counted
  <2> QED
    BY <1>1, <2>5, <2>7, <2>8, <2>9 DEF IInv, Bounded
<1>5. CASE queue = <<>>
  <2>1. wpc' = [wpc EXCEPT ![w] = "waiting"] /\ UNCHANGED <<queue, held>>
    BY <1>5 DEF Dequeue
  <2>2. \A v \in Workers : Busy(v)' = Busy(v) /\ (wpc'[v] = "post" <=> wpc[v] = "post")
    BY <1>1, <2>1 DEF IInv, TypeOK, Busy
  <2>3. TypeOK'
    BY <1>1, <2>1 DEF IInv, TypeOK
  <2>4. Placed' /\ Posted' /\ Bounded'
    BY <1>1, <2>1, <2>2 DEF IInv, Placed, Posted, Bounded
  <2>5. Counted'
    <3>1. Len(queue') = 0
      BY <1>5, <2>1
    <3>2. IsFiniteSet(Looking')
      <4>1. Looking' \in SUBSET Workers
        BY DEF Looking
      <4> QED
        BY <4>1, PoolAssumption, FS_Subset
    <3>3. Cardinality(Looking') \in Nat
      BY <3>2, FS_CardinalityType
    <3> QED
      BY <1>3, <3>1, <3>3 DEF Counted
  <2> QED
    BY <2>3, <2>4, <2>5 DEF IInv
<1> QED
  BY <1>4, <1>5

LEMMA SpuriousWakeupKeeps ==
  ASSUME IInv, NEW w \in Workers, SpuriousWakeup(w)
  PROVE  IInv'
<1>1. /\ wpc[w] = "waiting" /\ wpc' = [wpc EXCEPT ![w] = "dequeue"]
      /\ UNCHANGED <<queue, held, taskVars, cpc, futures, target, told,
                     pills, dying, running, owed>>
  BY DEF SpuriousWakeup, clientVars, downVars
<1>2. TypeOK'
  BY <1>1 DEF IInv, TypeOK, taskVars
<1>3. Placed' /\ Posted' /\ Bounded' /\ Cardinality(Looking') = Cardinality(Looking) + 1
  BY <1>1, WakeStep
<1>4. Counted'
  <2>1. Notifiers' = Notifiers
    BY <1>1 DEF Notifiers
  <2>2. Cardinality(Looking) \in Nat /\ Cardinality(Notifiers) \in Nat /\ Len(queue) \in Nat
    BY Counts DEF IInv, TypeOK
  <2> QED
    BY <1>1, <1>3, <2>1, <2>2 DEF IInv, Counted
<1> QED
  BY <1>2, <1>3, <1>4 DEF IInv

LEMMA RunKeeps ==
  ASSUME IInv, NEW w \in Workers, Run(w)
  PROVE  IInv'
<1>1. /\ wpc[w] = "run" /\ wpc' = [wpc EXCEPT ![w] = "post"]
      /\ status' = [status EXCEPT ![held[w]] = result[held[w]]]
      /\ UNCHANGED <<queue, held, made, result, sem, cpc, futures, target, told,
                     pills, dying, running, owed>>
  BY DEF Run, clientVars, downVars
<1>2. held[w] \in Tasks /\ result[held[w]] \in {"ok", "bad"}
  <2>1. held[w] \in 0 .. made - 1
    BY <1>1 DEF IInv, Placed, Busy
  <2>2. held[w] \in Tasks /\ held[w] < made
    BY <2>1, Counts DEF IInv, TypeOK
  <2> QED
    BY <2>2 DEF IInv, TypeOK
<1>3. \A v \in Workers : Busy(v)' = Busy(v) /\ (v # w => wpc'[v] = wpc[v])
  BY <1>1 DEF IInv, TypeOK, Busy
<1>4. TypeOK'
  <2>1. status' \in [Tasks -> {Unset, "ok", "bad"}]
    BY <1>1, <1>2 DEF IInv, TypeOK
  <2>2. wpc' \in [Workers -> {"dequeue", "waiting", "run", "post", "exited"}]
    BY <1>1 DEF IInv, TypeOK
  <2> QED
    BY <1>1, <2>1, <2>2 DEF IInv, TypeOK
<1>5. Placed' /\ Bounded'
  BY <1>1, <1>3 DEF IInv, Placed, Bounded
<1>6. Posted'
  <2>1. status'[held[w]] # Unset /\ \A t \in Tasks : status[t] # Unset => status'[t] # Unset
    BY <1>1, <1>2 DEF IInv, TypeOK, Unset
  <2>2. \A v \in Workers : wpc'[v] = "post" => status'[held'[v]] # Unset
    <3> SUFFICES ASSUME NEW v \in Workers, wpc'[v] = "post" PROVE status'[held[v]] # Unset
      BY <1>1
    <3>1. CASE v = w
      BY <2>1, <3>1
    <3>2. CASE v # w
      <4>1. wpc[v] = "post" /\ status[held[v]] # Unset
        BY <1>3, <3>2 DEF IInv, Posted
      <4>2. held[v] \in Tasks
        BY <4>1, Counts DEF IInv, TypeOK, Placed, Busy
      <4> QED
        BY <2>1, <4>1, <4>2
    <3> QED
      BY <3>1, <3>2
  <2> QED
    BY <1>1, <1>3, <2>1, <2>2 DEF IInv, Posted
<1>7. Counted'
  <2>1. Looking' = Looking
    BY <1>1 DEF IInv, TypeOK, Looking
  <2>2. Notifiers' = Notifiers
    BY <1>1 DEF Notifiers
  <2>3. (\E v \in Workers : wpc'[v] = "waiting") => \E v \in Workers : wpc[v] = "waiting"
    BY <1>1 DEF IInv, TypeOK
  <2> QED
    BY <1>1, <2>1, <2>2, <2>3 DEF IInv, Counted
<1> QED
  BY <1>4, <1>5, <1>6, <1>7 DEF IInv

LEMMA PostKeeps ==
  ASSUME IInv, NEW w \in Workers, Post(w)
  PROVE  IInv'
<1>1. PICK l \in {"exited", "dequeue"} : wpc' = [wpc EXCEPT ![w] = l]
  BY DEF Post
<1>2. /\ wpc[w] = "post" /\ sem' = [sem EXCEPT ![held[w]] = sem[held[w]] + 1]
      /\ UNCHANGED <<queue, held, made, result, status, cpc, futures, target, told,
                     pills, dying, running, owed>>
  BY DEF Post, clientVars, downVars
<1>3. /\ held[w] \in Tasks /\ held[w] < made /\ made \in Nat
      /\ sem[held[w]] = 0 /\ status[held[w]] # Unset
  BY <1>2, Counts DEF IInv, TypeOK, Placed, Posted, Busy
<1>4. /\ \A v \in Workers : wpc'[v] = IF v = w THEN l ELSE wpc[v]
      /\ \A t \in Tasks : sem'[t] = IF t = held[w] THEN 1 ELSE sem[t]
  BY <1>1, <1>2, <1>3 DEF IInv, TypeOK
<1>5. TypeOK'
  <2>1. sem' \in [Tasks -> 0 .. 1]
    BY <1>2, <1>3 DEF IInv, TypeOK
  <2>2. wpc' \in [Workers -> {"dequeue", "waiting", "run", "post", "exited"}]
    BY <1>1 DEF IInv, TypeOK
  <2> QED
    BY <1>2, <2>1, <2>2 DEF IInv, TypeOK
<1>6. \A v \in Workers : Busy(v)' <=> Busy(v) /\ v # w
  BY <1>2, <1>4 DEF Busy
<1>7. Placed' /\ Bounded'
  BY <1>2, <1>6 DEF IInv, Placed, Bounded
<1>8. Posted'
  <2>1. \A t \in Tasks : t >= made => sem'[t] = 0
    <3>1. \A t \in Tasks : t >= made => t # held[w]
      BY <1>3, Counts
    <3> QED
      BY <1>4, <3>1 DEF IInv, Posted
  <2>2. \A k \in DOMAIN queue : sem'[queue[k]] = 0
    <3>1. \A k \in DOMAIN queue : queue[k] \in Tasks /\ queue[k] # held[w]
      BY <1>2, Counts DEF IInv, TypeOK, Placed, Busy
    <3> QED
      BY <1>4, <3>1 DEF IInv, Posted
  <2>3. \A v \in Workers : Busy(v)' => sem'[held[v]] = 0
    <3>1. \A v \in Workers : Busy(v) => held[v] \in Tasks
      BY Counts DEF IInv, TypeOK, Placed
    <3>2. \A v \in Workers : Busy(v) /\ v # w => held[v] # held[w]
      BY <1>2 DEF IInv, Placed, Busy
    <3> QED
      BY <1>4, <1>6, <3>1, <3>2 DEF IInv, Posted
  <2>4. \A t \in Tasks : sem'[t] > 0 => status[t] # Unset
    BY <1>3, <1>4 DEF IInv, Posted
  <2>5. \A v \in Workers : wpc'[v] = "post" => status[held[v]] # Unset
    BY <1>4 DEF IInv, Posted
  <2> QED
    BY <1>2, <2>1, <2>2, <2>3, <2>4, <2>5 DEF Posted
<1>9. Counted'
  <2>1. Cardinality(Looking') \in {Cardinality(Looking), Cardinality(Looking) + 1}
    BY <1>1, <1>2, LookingChanges DEF IInv
  <2>2. Notifiers' = Notifiers
    BY <1>2 DEF Notifiers
  <2>3. (\E v \in Workers : wpc'[v] = "waiting") => \E v \in Workers : wpc[v] = "waiting"
    BY <1>4
  <2>4. Cardinality(Looking) \in Nat /\ Cardinality(Notifiers) \in Nat /\ Len(queue) \in Nat
    BY Counts DEF IInv, TypeOK
  <2> QED
    BY <1>2, <2>1, <2>2, <2>3, <2>4 DEF IInv, Counted
<1> QED
  BY <1>5, <1>7, <1>8, <1>9 DEF IInv

LEMMA StutteringKeeps ==
  ASSUME IInv, UNCHANGED vars
  PROVE  IInv'
<1>1. UNCHANGED <<queue, wpc, held, made, result, status, sem, cpc, futures, target, told,
                  pills, dying, running, owed>>
  BY DEF vars, workerVars, taskVars, clientVars, downVars
<1>2. Looking' = Looking /\ Notifiers' = Notifiers
  BY <1>1 DEF Looking, Notifiers
<1> QED
  BY <1>1, <1>2 DEF IInv, TypeOK, Placed, Posted, Bounded, Counted, Busy

----------------------------------------------------------------------------
(* The theorems.                                                             *)

(* Queue, workers, semaphores and notifications stay in step.                *)
THEOREM Invariance == Spec => []IInv
<1>1. Init => IInv
  BY InitHolds
<1>2. IInv /\ [Next]_vars => IInv'
  <2> SUFFICES ASSUME IInv, [Next]_vars PROVE IInv'
    OBVIOUS
  <2>1. CASE \E c \in Clients : Async(c) \/ AsyncNotify(c) \/ CallWait(c) \/ WaitReturns(c)
    BY <2>1, AsyncKeeps, AsyncNotifyKeeps, CallWaitKeeps, WaitReturnsKeeps
  <2>2. CASE CallShutDown \/ Destroy \/ ShutDownStep
    BY <2>2, CallShutDownKeeps, DestroyKeeps, PushPillKeeps, PillNotifyKeeps, JoinKeeps
       DEF ShutDownStep
  <2>3. CASE \E w \in Workers : WorkerStep(w) \/ SpuriousWakeup(w)
    BY <2>3, DequeueKeeps, RunKeeps, PostKeeps, SpuriousWakeupKeeps DEF WorkerStep
  <2>4. CASE UNCHANGED vars
    BY <2>4, StutteringKeeps
  <2> QED
    BY <2>1, <2>2, <2>3, <2>4 DEF Next
<1> QED
  BY <1>1, <1>2, PTL DEF Spec

(* The variables keep to their types: no task is queued twice, and a semaphore  *)
(* is posted at most once.                                                   *)
THEOREM TypeCorrect == Spec => []TypeOK
<1>1. IInv => TypeOK
  BY DEF IInv
<1> QED
  BY <1>1, Invariance, PTL

(* No wakeup is lost, with any number of workers and of clients that queue      *)
(* tasks, wait and shut down, though notify_one comes after the unlock.      *)
THEOREM NoLostWakeup == Spec => []NobodySleepsOverWork
<1>1. IInv => NobodySleepsOverWork
  <2> SUFFICES ASSUME IInv, queue # <<>>, NEW w \in Workers, wpc[w] # "exited",
                      \A v \in Workers : wpc[v] # "exited" => wpc[v] = "waiting"
               PROVE  \E c \in Clients : cpc[c] \in Notifying
    BY DEF NobodySleepsOverWork, Notifying
  <2>1. Looking = {}
    BY DEF Looking
  <2>2. Len(queue) \in Nat \ {0}
    BY DEF IInv, TypeOK
  <2>3. Len(queue) <= Cardinality(Looking) + Cardinality(Notifiers)
    BY DEF IInv, Counted
  <2>4. Cardinality(Notifiers) # 0
    BY <2>1, <2>2, <2>3, Counts, FS_EmptySet
  <2> QED
    BY <2>4, FS_EmptySet DEF Notifiers
<1> QED
  BY <1>1, Invariance, PTL

----------------------------------------------------------------------------
(* The additional invariant.                                                 *)

(* A task's status is set when it is run and not before ...                   *)
NotYetRun ==
  /\ \A t \in Tasks : t >= made => status[t] = Unset
  /\ \A k \in DOMAIN queue : status[queue[k]] = Unset
  /\ \A w \in Workers : wpc[w] = "run" => status[held[w]] = Unset

(* ... to what its function returns.                                         *)
RanAsMeant == \A t \in Tasks : status[t] # Unset => status[t] = result[t]

(* The worker that ran a BADAPPLE takes no other task.                       *)
Stopping == {w \in Workers : wpc[w] \in {"post", "exited"}}
BadStops ==
  \A t \in Tasks : status[t] = "bad" => \E w \in Stopping : held[w] = t

(* What Wait told had run, and its semaphore will not be posted again.        *)
ToldOnce ==
  \A t \in Tasks : told[t] # None =>
    /\ status[t] # Unset /\ sem[t] = 0
    /\ \A w \in Workers : wpc[w] = "post" => held[w] # t

EInv == NotYetRun /\ RanAsMeant /\ BadStops /\ ToldOnce

----------------------------------------------------------------------------
(* The mapping.                                                              *)

phases == [t \in Tasks |-> Phase(t)]
wants  == [t \in Tasks |-> OrUnknown(result[t])]
tolds  == [t \in Tasks |-> OrUnknown(told[t])]

Submits(t) ==
  /\ phases[t] = "none"
  /\ phases' = [phases EXCEPT ![t] = "queued"]
  /\ \E r \in {"ok", "bad"} : wants' = [wants EXCEPT ![t] = r]
  /\ tolds' = tolds /\ Spent' = Spent

(* Executor's actions in terms of the mapping.                               *)
LEMMA ActionsMapped ==
  /\ Init /\ phases = [t \in Tasks |-> "none"] /\ wants = [t \in Tasks |-> "unknown"]
       /\ tolds = [t \in Tasks |-> "unknown"] /\ Spent = 0 => EX!Init
  /\ \A t \in Tasks : Submits(t) => EX!Next
  /\ \A t \in Tasks :
       /\ phases[t] = "queued" /\ Cardinality({u \in Tasks : phases[u] = "running"}) < Pills - Spent
       /\ phases' = [phases EXCEPT ![t] = "running"]
       /\ wants' = wants /\ tolds' = tolds /\ Spent' = Spent
       => EX!Next
  /\ \A t \in Tasks :
       /\ phases[t] = "running"
       /\ phases' = [phases EXCEPT ![t] = "finished"]
       /\ Spent' = IF wants[t] = "bad" THEN Spent + 1 ELSE Spent
       /\ wants' = wants /\ tolds' = tolds
       => EX!Next
  /\ \A t \in Tasks :
       /\ phases[t] = "finished" /\ tolds[t] = "unknown"
       /\ tolds' = [tolds EXCEPT ![t] = wants[t]]
       /\ phases' = phases /\ wants' = wants /\ Spent' = Spent
       => EX!Next
  /\ phases' = phases /\ wants' = wants /\ tolds' = tolds /\ Spent' = Spent
       => UNCHANGED EX!exVars
<1>1. Init /\ phases = [t \in Tasks |-> "none"] /\ wants = [t \in Tasks |-> "unknown"]
       /\ tolds = [t \in Tasks |-> "unknown"] /\ Spent = 0 => EX!Init
  BY DEF EX!Init, EX!Unknown, phases, wants, tolds
<1>2. \A t \in Tasks : Submits(t) => EX!Submit(t)
  BY DEF EX!Submit, Submits, phases, wants, tolds
<1>3. \A t \in Tasks :
       /\ phases[t] = "queued" /\ Cardinality({u \in Tasks : phases[u] = "running"}) < Pills - Spent
       /\ phases' = [phases EXCEPT ![t] = "running"]
       /\ wants' = wants /\ tolds' = tolds /\ Spent' = Spent
       => EX!Start(t)
  <2>1. \A S : EX!Cardinality(S) = Cardinality(S)
    BY DEF EX!Cardinality, Cardinality
  <2> QED
    BY <2>1 DEF EX!Start, EX!Running, phases, wants, tolds
<1>4. \A t \in Tasks :
       /\ phases[t] = "running"
       /\ phases' = [phases EXCEPT ![t] = "finished"]
       /\ Spent' = IF wants[t] = "bad" THEN Spent + 1 ELSE Spent
       /\ wants' = wants /\ tolds' = tolds
       => EX!Finish(t)
  BY DEF EX!Finish, phases, wants, tolds
<1>5. \A t \in Tasks :
       /\ phases[t] = "finished" /\ tolds[t] = "unknown"
       /\ tolds' = [tolds EXCEPT ![t] = wants[t]]
       /\ phases' = phases /\ wants' = wants /\ Spent' = Spent
       => EX!Tell(t)
  BY DEF EX!Tell, EX!Unknown, phases, wants, tolds
<1>6. phases' = phases /\ wants' = wants /\ tolds' = tolds /\ Spent' = Spent
       => UNCHANGED EX!exVars
  BY DEF EX!exVars, phases, wants, tolds
<1> QED
  BY <1>1, <1>2, <1>3, <1>4, <1>5, <1>6 DEF EX!Next

(* The mapping when one task's phase changes.                                *)
LEMMA PhaseChanges ==
  ASSUME NEW t \in Tasks, NEW p, Phase(t)' = p, \A u \in Tasks \ {t} : Phase(u)' = Phase(u)
  PROVE  phases' = [phases EXCEPT ![t] = p]
<1>1. phases' = [u \in Tasks |-> Phase(u)']
  BY DEF phases
<1> QED
  BY <1>1 DEF phases

(* Which tasks are in which phase.                                           *)
LEMMA PhasesAre ==
  ASSUME IInv, NEW t \in Tasks
  PROVE  /\ t >= made => Phase(t) = "none"
         /\ \A k \in DOMAIN queue : queue[k] = t => Phase(t) = "queued"
         /\ \A w \in Workers : wpc[w] = "run" /\ held[w] = t => Phase(t) = "running"
         /\ t < made /\ (\A k \in DOMAIN queue : queue[k] # t)
              /\ (\A w \in Workers : wpc[w] = "run" => held[w] # t) => Phase(t) = "finished"
<1>1. made \in Nat /\ t \in Nat /\ DOMAIN queue = 1 .. Len(queue)
      /\ \A k \in DOMAIN queue : queue[k] \in 0 .. made - 1
  BY Counts DEF IInv, TypeOK
<1>2. t \in Queued <=> \E k \in DOMAIN queue : queue[k] = t
  BY <1>1 DEF Queued
<1>3. \A w \in Workers : wpc[w] = "run" /\ held[w] = t => t < made /\ t \notin Queued
  BY <1>1, <1>2 DEF IInv, Placed, Busy
<1> QED
  BY <1>1, <1>2, <1>3 DEF Phase

----------------------------------------------------------------------------
(* Steps that no user of the pool sees.                                      *)

LEMMA HiddenStep ==
  ASSUME IInv, EInv, UNCHANGED <<queue, held, made, result, status, sem, told>>,
         wpc' \in [Workers -> {"dequeue", "waiting", "run", "post", "exited"}],
         \A w \in Workers : \/ wpc'[w] = wpc[w]
                            \/ {wpc[w], wpc'[w]} \subseteq {"dequeue", "waiting"}
  PROVE  EInv' /\ UNCHANGED EX!exVars
<1>1. \A w \in Workers : /\ wpc'[w] = "run" <=> wpc[w] = "run"
                         /\ wpc'[w] = "post" <=> wpc[w] = "post"
                         /\ wpc'[w] = "exited" <=> wpc[w] = "exited"
  OBVIOUS
<1>2. Stopping' = Stopping
  BY <1>1 DEF Stopping
<1>3. EInv'
  BY <1>1, <1>2 DEF EInv, NotYetRun, RanAsMeant, BadStops, ToldOnce
<1>4. \A t \in Tasks : Phase(t)' = Phase(t)
  BY <1>1 DEF Phase, Queued
<1>5. phases' = phases
  BY <1>4 DEF phases
<1>6. wants' = wants /\ tolds' = tolds /\ Spent' = Spent
  BY DEF wants, tolds, Spent
<1> QED
  BY <1>3, <1>5, <1>6, ActionsMapped

LEMMA NotifyOneIsHidden ==
  ASSUME IInv, EInv, NotifyOne, UNCHANGED <<queue, held, made, result, status, sem, told>>
  PROVE  EInv' /\ UNCHANGED EX!exVars
<1>1. wpc \in [Workers -> {"dequeue", "waiting", "run", "post", "exited"}]
  BY DEF IInv, TypeOK
<1>2. \/ wpc' = wpc
      \/ \E w \in Workers : wpc[w] = "waiting" /\ wpc' = [wpc EXCEPT ![w] = "dequeue"]
  BY DEF NotifyOne
<1>3. \A w \in Workers : \/ wpc'[w] = wpc[w]
                         \/ {wpc[w], wpc'[w]} \subseteq {"dequeue", "waiting"}
  BY <1>1, <1>2
<1>4. wpc' \in [Workers -> {"dequeue", "waiting", "run", "post", "exited"}]
  BY <1>1, <1>2
<1> QED
  BY <1>3, <1>4, HiddenStep

LEMMA ClientsAreHidden ==
  ASSUME IInv, EInv,
         \/ \E c \in Clients : AsyncNotify(c) \/ CallWait(c)
         \/ CallShutDown \/ Destroy \/ PillNotify \/ Join
         \/ \E w \in Workers : SpuriousWakeup(w)
         \/ UNCHANGED vars
  PROVE  EInv' /\ UNCHANGED EX!exVars
<1>1. CASE (\E c \in Clients : AsyncNotify(c)) \/ PillNotify
  <2>1. NotifyOne /\ UNCHANGED <<queue, held, made, result, status, sem, told>>
    BY <1>1 DEF AsyncNotify, PillNotify, taskVars
  <2> QED
    BY <2>1, NotifyOneIsHidden
<1>2. CASE \/ \E c \in Clients : CallWait(c)
           \/ CallShutDown \/ Destroy \/ Join \/ UNCHANGED vars
  <2>1. UNCHANGED <<queue, wpc, held, made, result, status, sem, told>>
    BY <1>2 DEF CallWait, CallShutDown, Destroy, Join, vars, workerVars, taskVars, clientVars
  <2>2. wpc \in [Workers -> {"dequeue", "waiting", "run", "post", "exited"}]
    BY DEF IInv, TypeOK
  <2> QED
    BY <2>1, <2>2, HiddenStep
<1>3. CASE \E w \in Workers : SpuriousWakeup(w)
  <2>1. PICK w \in Workers : wpc[w] = "waiting" /\ wpc' = [wpc EXCEPT ![w] = "dequeue"]
                             /\ UNCHANGED <<queue, held, made, result, status, sem, told>>
    BY <1>3 DEF SpuriousWakeup, taskVars, clientVars
  <2>2. wpc \in [Workers -> {"dequeue", "waiting", "run", "post", "exited"}]
    BY DEF IInv, TypeOK
  <2>3. /\ wpc' \in [Workers -> {"dequeue", "waiting", "run", "post", "exited"}]
        /\ \A v \in Workers : wpc'[v] = wpc[v]
                              \/ {wpc[v], wpc'[v]} \subseteq {"dequeue", "waiting"}
    BY <2>1, <2>2
  <2> QED
    BY <2>1, <2>3, HiddenStep
<1> QED
  BY <1>1, <1>2, <1>3

----------------------------------------------------------------------------
(* Steps that are steps of Executor.                                         *)

LEMMA EnqueueMaps ==
  ASSUME IInv, EInv, NEW r \in {"ok", "bad"}, made \in Tasks, Enqueue(r),
         UNCHANGED <<wpc, held, told>>
  PROVE  EInv' /\ EX!Next
<1>1. /\ made' = made + 1 /\ result' = [result EXCEPT ![made] = r]
      /\ UNCHANGED <<wpc, held, told, status, sem>>
  BY DEF Enqueue
<1>2. PICK k \in 1 .. Len(queue) + 1 : queue' = InsertAt(queue, k, made)
  BY DEF Enqueue
<1>3. /\ made \in Nat /\ queue \in Seq(0 .. made) /\ Len(queue) \in Nat
      /\ DOMAIN queue = 1 .. Len(queue) /\ \A t \in Tasks : t \in Nat
      /\ result \in [Tasks -> {None, "ok", "bad"}] /\ result[made] = None
  BY Counts DEF IInv, TypeOK
<1>4. /\ queue' \in Seq(0 .. made) /\ Len(queue') = Len(queue) + 1
      /\ \A i \in 1 .. Len(queue) + 1 :
           queue'[i] = IF i < k THEN queue[i] ELSE IF i = k THEN made ELSE queue[i - 1]
  BY <1>2, QueueInserted DEF IInv
<1>5. Queued' = Queued \cup {made}
  <2>1. Queued' = {queue'[i] : i \in 1 .. Len(queue) + 1}
    BY <1>4 DEF Queued
  <2>2. \A i \in 1 .. Len(queue) + 1 : queue'[i] \in Queued \cup {made}
    <3> SUFFICES ASSUME NEW i \in 1 .. Len(queue) + 1 PROVE queue'[i] \in Queued \cup {made}
      OBVIOUS
    <3>1. CASE i < k
      BY <1>3, <1>4, <3>1 DEF Queued
    <3>2. CASE i = k
      BY <1>3, <1>4, <3>2
    <3>3. CASE i > k
      <4>1. queue'[i] = queue[i - 1] /\ i - 1 \in 1 .. Len(queue)
        BY <1>3, <1>4, <3>3
      <4> QED
        BY <4>1 DEF Queued
    <3> QED
      BY <1>3, <3>1, <3>2, <3>3
  <2>3. \A j \in 1 .. Len(queue) : queue[j] \in Queued'
    <3> SUFFICES ASSUME NEW j \in 1 .. Len(queue) PROVE queue[j] \in Queued'
      OBVIOUS
    <3>1. CASE j < k
      <4>1. queue'[j] = queue[j] /\ j \in 1 .. Len(queue) + 1
        BY <1>3, <1>4, <3>1
      <4> QED
        BY <2>1, <4>1
    <3>2. CASE j >= k
      <4>1. queue'[j + 1] = queue[j] /\ j + 1 \in 1 .. Len(queue) + 1
        BY <1>3, <1>4, <3>2
      <4> QED
        BY <2>1, <4>1
    <3> QED
      BY <1>3, <3>1, <3>2
  <2>4. made \in Queued'
    <3>1. queue'[k] = made
      BY <1>3, <1>4
    <3> QED
      BY <2>1, <3>1
  <2>5. Queued' \subseteq Queued \cup {made}
    BY <2>1, <2>2
  <2>6. Queued \subseteq Queued'
    BY <2>3 DEF Queued
  <2> QED
    BY <2>4, <2>5, <2>6
<1>6. status[made] = Unset /\ \A t \in Queued : status[t] = Unset
  BY <1>3 DEF EInv, NotYetRun, Queued
<1>7. EInv'
  <2>1. \A i \in DOMAIN queue' : queue'[i] \in Queued'
    BY <1>3, <1>4 DEF Queued
  <2>2. NotYetRun'
    <3>1. \A t \in Tasks : t >= made + 1 => t >= made
      BY <1>3
    <3>2. \A i \in DOMAIN queue' : status'[queue'[i]] = Unset
      BY <1>1, <1>5, <1>6, <2>1
    <3> QED
      BY <1>1, <3>1, <3>2 DEF EInv, NotYetRun
  <2>3. RanAsMeant'
    BY <1>1, <1>3, <1>6 DEF EInv, RanAsMeant
  <2>4. BadStops' /\ ToldOnce'
    BY <1>1 DEF EInv, BadStops, ToldOnce, Stopping
  <2> QED
    BY <2>2, <2>3, <2>4 DEF EInv
<1>8. PICK n \in Tasks : n = made
  OBVIOUS
<1>9. Submits(n)
  <2>1. Phase(n) = "none" /\ Phase(n)' = "queued"
    <3>1. n >= made /\ ~(n >= made + 1) /\ n \in Queued'
      BY <1>3, <1>5, <1>8
    <3> QED
      BY <1>1, <3>1 DEF Phase
  <2>2. \A u \in Tasks \ {n} : Phase(u)' = Phase(u)
    <3>1. \A u \in Tasks \ {n} : (u >= made + 1 <=> u >= made) /\ (u \in Queued' <=> u \in Queued)
      BY <1>3, <1>5, <1>8
    <3> QED
      BY <1>1, <3>1 DEF Phase
  <2>3. phases[n] = "none" /\ phases' = [phases EXCEPT ![n] = "queued"]
    BY <1>8, <2>1, <2>2, PhaseChanges DEF phases
  <2>4. wants' = [wants EXCEPT ![n] = r]
    <3>1. \A t \in Tasks : OrUnknown(result'[t]) = IF t = n THEN r ELSE OrUnknown(result[t])
      BY <1>1, <1>3, <1>8 DEF OrUnknown, None
    <3> QED
      BY <3>1 DEF wants
  <2>5. tolds' = tolds /\ Spent' = Spent
    BY <1>1 DEF tolds, Spent
  <2> QED
    BY <2>3, <2>4, <2>5 DEF Submits
<1> QED
  BY <1>7, <1>9, ActionsMapped

LEMMA AsyncMaps ==
  ASSUME IInv, EInv, NEW c \in Clients, Async(c)
  PROVE  EInv' /\ EX!Next
<1>1. PICK r \in Returns : Enqueue(r)
  BY DEF Async
<1>2. made - pills < MaxTasks /\ UNCHANGED <<wpc, held, told>>
  BY DEF Async, workerVars
<1>3. made \in Tasks
  BY <1>2, Counts DEF IInv, TypeOK
<1>4. r \in {"ok", "bad"}
  BY PoolAssumption
<1> QED
  BY <1>1, <1>2, <1>3, <1>4, EnqueueMaps

LEMMA PushPillMaps ==
  ASSUME IInv, EInv, PushPill
  PROVE  EInv' /\ EX!Next
<1>1. pills < Pills /\ Enqueue("bad") /\ UNCHANGED <<wpc, held, told>>
  BY DEF PushPill, workerVars
<1>2. made \in Tasks
  BY <1>1, Counts DEF IInv, TypeOK, Bounded
<1> QED
  BY <1>1, <1>2, EnqueueMaps

LEMMA WaitReturnsMaps ==
  ASSUME IInv, EInv, NEW c \in Clients, WaitReturns(c)
  PROVE  EInv' /\ (EX!Next \/ UNCHANGED EX!exVars)
<1> DEFINE t == target[c]
<1>1. /\ sem[t] > 0
      /\ sem' = [sem EXCEPT ![t] = sem[t] - 1]
      /\ told' = [told EXCEPT ![t] = status[t]]
      /\ UNCHANGED <<queue, wpc, held, made, result, status>>
  BY DEF WaitReturns, workerVars
<1>2. /\ sem \in [Tasks -> 0 .. 1] /\ told \in [Tasks -> {None, "ok", "bad"}]
      /\ wpc \in [Workers -> {"dequeue", "waiting", "run", "post", "exited"}]
  BY DEF IInv, TypeOK
<1> HIDE DEF t
<1>3. CASE t \notin Tasks
  <2>1. sem' = sem /\ told' = told
    <3>1. sem = [u \in Tasks |-> sem[u]] /\ told = [u \in Tasks |-> told[u]]
      BY <1>2
    <3>2. sem' = [u \in Tasks |-> sem[u]] /\ told' = [u \in Tasks |-> told[u]]
      BY <1>1, <1>2, <1>3
    <3> QED
      BY <3>1, <3>2
  <2> QED
    BY <1>1, <1>2, <2>1, HiddenStep
<1>4. CASE t \in Tasks
  <2>1. sem[t] = 1 /\ status[t] # Unset /\ t < made
    BY <1>1, <1>2, <1>4, Counts DEF IInv, TypeOK, Posted
  <2>2. /\ \A k \in DOMAIN queue : queue[k] # t
        /\ \A w \in Workers : Busy(w) => held[w] # t
    BY <2>1 DEF IInv, Posted
  <2>3. Phase(t) = "finished"
    BY <1>4, <2>1, <2>2, PhasesAre DEF Busy
  <2>4. told[t] = None /\ status[t] = result[t] /\ result[t] # None
    BY <1>4, <2>1 DEF EInv, ToldOnce, RanAsMeant, IInv, TypeOK
  <2>5. /\ \A u \in Tasks : told'[u] = IF u = t THEN status[t] ELSE told[u]
        /\ \A u \in Tasks : sem'[u] = IF u = t THEN 0 ELSE sem[u]
    BY <1>1, <1>2, <2>1
  <2>6. EInv'
    <3>1. ToldOnce'
      BY <1>1, <2>1, <2>2, <2>5 DEF EInv, ToldOnce, Busy
    <3> QED
      BY <1>1, <3>1 DEF EInv, NotYetRun, RanAsMeant, BadStops, Stopping
  <2>7. tolds[t] = "unknown" /\ tolds' = [tolds EXCEPT ![t] = wants[t]]
    <3>1. \A u \in Tasks : OrUnknown(told'[u]) = IF u = t THEN OrUnknown(result[t])
                                                 ELSE OrUnknown(told[u])
      BY <2>4, <2>5
    <3> QED
      BY <1>4, <2>4, <3>1 DEF tolds, wants, OrUnknown
  <2>8. phases' = phases /\ wants' = wants /\ Spent' = Spent
    <3>1. \A u \in Tasks : Phase(u)' = Phase(u)
      BY <1>1 DEF Phase, Queued
    <3> QED
      BY <1>1, <3>1 DEF phases, wants, Spent
  <2>9. phases[t] = "finished"
    BY <1>4, <2>3 DEF phases
  <2> QED
    BY <1>4, <2>6, <2>7, <2>8, <2>9, ActionsMapped
<1> QED
  BY <1>3, <1>4

(* A worker that takes a task is not among those that run one or are stopped   *)
(* by one, so there are fewer of these than workers.                         *)
LEMMA RoomForOne ==
  ASSUME IInv, EInv, NEW w \in Workers, wpc[w] = "dequeue"
  PROVE  Cardinality({t \in Tasks : phases[t] = "running"}) < Pills - Spent
<1> DEFINE R == {t \in Tasks : phases[t] = "running"}
           B == {t \in Tasks : status[t] = "bad"}
           V == Workers \ {w}
<1>1. \A t \in R : \E v \in V : wpc[v] = "run" /\ held[v] = t
  <2>1. \A t \in Tasks : Phase(t) = "running" => \E v \in Workers : wpc[v] = "run" /\ held[v] = t
    BY DEF Phase
  <2> QED
    BY <2>1 DEF phases
<1>2. \A t \in B : \E v \in V : held[v] = t
  BY DEF EInv, BadStops, Stopping
<1>3. R \cap B = {}
  BY <1>1 DEF EInv, NotYetRun, Unset
<1>4. IsFiniteSet(V) /\ Cardinality(V) = Pills - 1 /\ Pills \in Nat
  BY PoolAssumption, Counts, FS_RemoveElement DEF Pills
<1>5. IsFiniteSet(R \cup B) /\ Cardinality(R \cup B) <= Cardinality(V)
  <2> DEFINE f == [t \in R \cup B |-> CHOOSE v \in V : held[v] = t]
  <2>1. \A t \in R \cup B : f[t] \in V /\ held[f[t]] = t
    BY <1>1, <1>2
  <2>2. f \in [R \cup B -> V]
    BY <2>1
  <2> HIDE DEF f, R, B, V
  <2>3. f \in Injection(R \cup B, V)
    <3>1. \A a, b \in R \cup B : f[a] = f[b] => a = b
      BY <2>1
    <3>2. DOMAIN f = R \cup B
      BY <2>2
    <3> QED
      BY <2>2, <3>1, <3>2 DEF Injection, IsInjective
  <2> QED
    BY <1>4, <2>3, FS_Injection
<1>6. Cardinality(R \cup B) = Cardinality(R) + Cardinality(B)
      /\ Cardinality(R) \in Nat /\ Cardinality(B) \in Nat
  <2> HIDE DEF R, B
  <2>1. IsFiniteSet(R) /\ IsFiniteSet(B)
    BY <1>5, FS_Subset
  <2>2. Cardinality(R) \in Nat /\ Cardinality(B) \in Nat
    BY <2>1, FS_CardinalityType
  <2>3. Cardinality(R \cup B) = Cardinality(R) + Cardinality(B) - Cardinality(R \cap B)
    BY <2>1, FS_Union
  <2>4. Cardinality(R \cap B) = 0
    <3>1. R \cap B = {}
      BY <1>3
    <3> QED
      BY <3>1, FS_EmptySet
  <2> QED
    BY <2>2, <2>3, <2>4
<1>7. Cardinality(B) = Spent
  BY DEF Spent
<1> HIDE DEF R, B, V
<1>8. Cardinality(R) < Pills - Spent
  BY <1>4, <1>5, <1>6, <1>7
<1> QED
  BY <1>8 DEF R

LEMMA DequeueMaps ==
  ASSUME IInv, EInv, NEW w \in Workers, Dequeue(w)
  PROVE  EInv' /\ (EX!Next \/ UNCHANGED EX!exVars)
<1>1. /\ wpc[w] = "dequeue" /\ UNCHANGED <<made, result, status, sem, told>>
      /\ wpc \in [Workers -> {"dequeue", "waiting", "run", "post", "exited"}]
      /\ held \in [Workers -> Tasks \cup {NoTask}]
  BY DEF Dequeue, taskVars, clientVars, IInv, TypeOK
<1>2. CASE queue = <<>>
  <2>1. wpc' = [wpc EXCEPT ![w] = "waiting"] /\ UNCHANGED <<queue, held>>
    BY <1>2 DEF Dequeue
  <2>2. /\ wpc' \in [Workers -> {"dequeue", "waiting", "run", "post", "exited"}]
        /\ \A v \in Workers : wpc'[v] = wpc[v]
                              \/ {wpc[v], wpc'[v]} \subseteq {"dequeue", "waiting"}
    BY <1>1, <2>1
  <2> QED
    BY <1>1, <2>1, <2>2, HiddenStep
<1>3. CASE queue # <<>>
  <2>1. /\ queue \in Seq(0 .. made - 1) /\ Len(queue) \in Nat /\ made \in Nat
        /\ DOMAIN queue = 1 .. Len(queue) /\ 1 \in DOMAIN queue
        /\ \A i, j \in DOMAIN queue : queue[i] = queue[j] => i = j
        /\ \A i \in DOMAIN queue : queue[i] \in 0 .. made - 1
    BY <1>3 DEF IInv, TypeOK, IsInjective
  <2>2. PICK t \in Tasks : t = queue[1]
    BY <2>1, Counts DEF IInv, TypeOK
  <2>3. /\ held' = [held EXCEPT ![w] = t] /\ queue' = Tail(queue)
        /\ wpc' = [wpc EXCEPT ![w] = "run"]
    BY <1>3, <2>2 DEF Dequeue
  <2>4. /\ DOMAIN queue' = 1 .. Len(queue) - 1 /\ Len(queue') = Len(queue) - 1
        /\ \A k \in DOMAIN queue' : k + 1 \in DOMAIN queue /\ queue'[k] = queue[k + 1]
    BY <1>3, <2>1, <2>3
  <2>5. /\ \A v \in Workers : wpc'[v] = IF v = w THEN "run" ELSE wpc[v]
        /\ \A v \in Workers : held'[v] = IF v = w THEN t ELSE held[v]
    BY <1>1, <2>3
  <2>6. Queued' = Queued \ {t} /\ t \in Queued
    <3>1. Queued' = {queue'[k] : k \in DOMAIN queue'} /\ Queued = {queue[k] : k \in DOMAIN queue}
      BY <2>1, <2>4 DEF Queued
    <3>2. \A k \in DOMAIN queue' : queue'[k] # t
      BY <2>1, <2>2, <2>4
    <3>3. \A k \in DOMAIN queue : k = 1 \/ (k - 1 \in DOMAIN queue' /\ queue'[k - 1] = queue[k])
      BY <2>1, <2>4
    <3>4. Queued \subseteq Queued' \cup {t}
      BY <2>2, <3>1, <3>3
    <3>5. Queued' \subseteq Queued
      BY <2>4, <3>1
    <3>6. t \notin Queued' /\ t \in Queued
      BY <2>1, <2>2, <3>1, <3>2
    <3> QED
      BY <3>4, <3>5, <3>6
  <2>7. status[t] = Unset
    BY <2>1, <2>2 DEF EInv, NotYetRun
  <2>8. EInv'
    <3>1. NotYetRun'
      BY <1>1, <2>4, <2>5, <2>7 DEF EInv, NotYetRun
    <3>2. BadStops'
      <4>1. \A v \in Stopping : v # w /\ v \in Stopping' /\ held'[v] = held[v]
        BY <1>1, <2>5 DEF Stopping
      <4> QED
        BY <1>1, <4>1 DEF EInv, BadStops
    <3>3. RanAsMeant' /\ ToldOnce'
      BY <1>1, <2>5 DEF EInv, RanAsMeant, ToldOnce
    <3> QED
      BY <3>1, <3>2, <3>3 DEF EInv
  <2>9. phases[t] = "queued" /\ phases' = [phases EXCEPT ![t] = "running"]
    <3>1. Phase(t) = "queued"
      BY <2>1, <2>2, PhasesAre
    <3>2. Phase(t)' = "running"
      <4>1. ~(t >= made)
        BY <2>1, <2>2
      <4> QED
        BY <1>1, <2>5, <2>6, <4>1 DEF Phase
    <3>3. \A u \in Tasks \ {t} : Phase(u)' = Phase(u)
      <4>1. \A u \in Tasks \ {t} : /\ u \in Queued' <=> u \in Queued
                                   /\ (\E v \in Workers : wpc'[v] = "run" /\ held'[v] = u)
                                        <=> \E v \in Workers : wpc[v] = "run" /\ held[v] = u
        BY <1>1, <2>5, <2>6
      <4> QED
        BY <1>1, <4>1 DEF Phase
    <3> QED
      BY <3>1, <3>2, <3>3, PhaseChanges DEF phases
  <2>10. wants' = wants /\ tolds' = tolds /\ Spent' = Spent
    BY <1>1 DEF wants, tolds, Spent
  <2>11. Cardinality({u \in Tasks : phases[u] = "running"}) < Pills - Spent
    BY <1>1, RoomForOne
  <2> QED
    BY <2>8, <2>9, <2>10, <2>11, ActionsMapped
<1> QED
  BY <1>2, <1>3

LEMMA RunMaps ==
  ASSUME IInv, EInv, NEW w \in Workers, Run(w)
  PROVE  EInv' /\ EX!Next
<1>1. /\ wpc[w] = "run" /\ wpc' = [wpc EXCEPT ![w] = "post"]
      /\ status' = [status EXCEPT ![held[w]] = result[held[w]]]
      /\ UNCHANGED <<queue, held, made, result, sem, told>>
  BY DEF Run, clientVars
<1>2. held[w] \in Tasks /\ held[w] < made /\ made \in Nat
  BY <1>1, Counts DEF IInv, TypeOK, Placed, Busy
<1>3. PICK t \in Tasks : t = held[w]
  BY <1>2
<1>4. /\ result[t] \in {"ok", "bad"} /\ status[t] = Unset /\ told[t] = None
      /\ status \in [Tasks -> {Unset, "ok", "bad"}]
  BY <1>1, <1>2, <1>3 DEF EInv, NotYetRun, ToldOnce, IInv, TypeOK
<1>5. /\ \A v \in Workers : wpc'[v] = IF v = w THEN "post" ELSE wpc[v]
      /\ \A u \in Tasks : status'[u] = IF u = t THEN result[t] ELSE status[u]
  BY <1>1, <1>3, <1>4 DEF IInv, TypeOK
<1>6. /\ \A k \in DOMAIN queue : queue[k] \in Tasks /\ queue[k] # t
      /\ \A v \in Workers : v # w /\ Busy(v) => held[v] # t
      /\ \A v \in Workers : Busy(v) => held[v] \in Tasks
  BY <1>1, <1>3, Counts DEF IInv, TypeOK, Placed, Busy
<1>7. EInv'
  <2>1. NotYetRun'
    <3>1. \A u \in Tasks : u >= made => status'[u] = Unset
      BY <1>2, <1>3, <1>5, Counts DEF EInv, NotYetRun
    <3>2. \A k \in DOMAIN queue : status'[queue[k]] = Unset
      BY <1>5, <1>6 DEF EInv, NotYetRun
    <3>3. \A v \in Workers : wpc'[v] = "run" => status'[held[v]] = Unset
      <4>1. \A v \in Workers : wpc'[v] = "run" => wpc[v] = "run" /\ held[v] # t /\ held[v] \in Tasks
        BY <1>5, <1>6 DEF Busy
      <4> QED
        BY <1>5, <4>1 DEF EInv, NotYetRun
    <3> QED
      BY <1>1, <3>1, <3>2, <3>3 DEF NotYetRun
  <2>2. RanAsMeant'
    BY <1>1, <1>5 DEF EInv, RanAsMeant
  <2>3. BadStops'
    <3>1. Stopping \subseteq Stopping' /\ w \in Stopping'
      BY <1>5 DEF Stopping
    <3> QED
      BY <1>1, <1>3, <1>5, <3>1 DEF EInv, BadStops
  <2>4. ToldOnce'
    BY <1>1, <1>3, <1>4, <1>5 DEF EInv, ToldOnce, Unset
  <2> QED
    BY <2>1, <2>2, <2>3, <2>4 DEF EInv
<1>8. phases[t] = "running" /\ phases' = [phases EXCEPT ![t] = "finished"]
  <2>1. Phase(t) = "running"
    BY <1>1, <1>3, PhasesAre
  <2>2. Queued' = Queued /\ t \notin Queued
    BY <1>1, <1>6 DEF Queued, IInv, TypeOK
  <2>3. Phase(t)' = "finished"
    <3>1. ~(t >= made)
      BY <1>2, <1>3, Counts
    <3>2. \A v \in Workers : ~(wpc'[v] = "run" /\ held'[v] = t)
      BY <1>1, <1>5, <1>6 DEF Busy
    <3> QED
      BY <1>1, <2>2, <3>1, <3>2 DEF Phase
  <2>4. \A u \in Tasks \ {t} : Phase(u)' = Phase(u)
    <3>1. \A u \in Tasks \ {t} : (\E v \in Workers : wpc'[v] = "run" /\ held'[v] = u)
                                   <=> \E v \in Workers : wpc[v] = "run" /\ held[v] = u
      BY <1>1, <1>3, <1>5
    <3> QED
      BY <1>1, <2>2, <3>1 DEF Phase
  <2> QED
    BY <2>1, <2>3, <2>4, PhaseChanges DEF phases
<1>9. Spent' = IF wants[t] = "bad" THEN Spent + 1 ELSE Spent
  <2> DEFINE B == {u \in Tasks : status[u] = "bad"}
  <2>1. wants[t] = result[t]
    BY <1>4 DEF wants, OrUnknown, None
  <2>2. B' = IF result[t] = "bad" THEN B \cup {t} ELSE B
    <3>1. \A u \in Tasks : status'[u] = "bad" <=> status[u] = "bad" \/ (u = t /\ result[t] = "bad")
      BY <1>4, <1>5 DEF Unset
    <3> QED
      BY <3>1
  <2>3. t \notin B /\ IsFiniteSet(B)
    <3>1. IsFiniteSet(Tasks) /\ B \in SUBSET Tasks
      BY Counts, FS_Interval
    <3>2. IsFiniteSet(B)
      BY <3>1, FS_Subset
    <3> QED
      BY <1>4, <3>2 DEF Unset
  <2> HIDE DEF B
  <2>4. Cardinality(B') = IF result[t] = "bad" THEN Cardinality(B) + 1 ELSE Cardinality(B)
    BY <2>2, <2>3, FS_AddElement
  <2>5. Spent = Cardinality(B) /\ Spent' = Cardinality(B')
    BY DEF Spent, B
  <2> QED
    BY <2>1, <2>4, <2>5
<1>10. wants' = wants /\ tolds' = tolds
  BY <1>1 DEF wants, tolds
<1> QED
  BY <1>7, <1>8, <1>9, <1>10, ActionsMapped

LEMMA PostMaps ==
  ASSUME IInv, EInv, NEW w \in Workers, Post(w)
  PROVE  EInv' /\ UNCHANGED EX!exVars
<1>1. /\ wpc[w] = "post" /\ UNCHANGED <<queue, held, made, result, status, told>>
      /\ sem' = [sem EXCEPT ![held[w]] = sem[held[w]] + 1]
  BY DEF Post, clientVars
<1>2. wpc' = [wpc EXCEPT ![w] = IF status[held[w]] = "bad" THEN "exited" ELSE "dequeue"]
  BY DEF Post
<1>3. \A v \in Workers : wpc'[v] = IF v # w THEN wpc[v]
                                   ELSE IF status[held[w]] = "bad" THEN "exited" ELSE "dequeue"
  BY <1>2 DEF IInv, TypeOK
<1>4. \A t \in Tasks : sem'[t] = sem[t] \/ t = held[w]
  BY <1>1 DEF IInv, TypeOK
<1>5. \A v \in Workers : wpc'[v] = "run" <=> wpc[v] = "run"
  BY <1>1, <1>3
<1>6. EInv'
  <2>1. NotYetRun' /\ RanAsMeant'
    BY <1>1, <1>5 DEF EInv, NotYetRun, RanAsMeant
  <2>2. BadStops'
    <3>1. \A v \in Stopping : status[held[v]] = "bad" => v \in Stopping'
      BY <1>3 DEF Stopping
    <3> QED
      BY <1>1, <3>1 DEF EInv, BadStops
  <2>3. ToldOnce'
    <3>1. \A t \in Tasks : told[t] # None => t # held[w]
      BY <1>1 DEF EInv, ToldOnce
    <3>2. \A v \in Workers : wpc'[v] = "post" => wpc[v] = "post"
      BY <1>3
    <3> QED
      BY <1>1, <1>4, <3>1, <3>2 DEF EInv, ToldOnce
  <2> QED
    BY <2>1, <2>2, <2>3 DEF EInv
<1>7. phases' = phases
  <2>1. \A t \in Tasks : Phase(t)' = Phase(t)
    BY <1>1, <1>5 DEF Phase, Queued
  <2> QED
    BY <2>1 DEF phases
<1>8. wants' = wants /\ tolds' = tolds /\ Spent' = Spent
  BY <1>1 DEF wants, tolds, Spent
<1> QED
  BY <1>6, <1>7, <1>8, ActionsMapped

----------------------------------------------------------------------------
(* The theorem.                                                              *)

LEMMA InitMaps ==
  ASSUME Init
  PROVE  EInv /\ EX!Init
<1>1. EInv
  <2>1. /\ DOMAIN queue = {} /\ \A w \in Workers : wpc[w] = "dequeue"
        /\ \A t \in Tasks : status[t] = Unset /\ told[t] = None
    BY DEF Init
  <2> QED
    BY <2>1 DEF EInv, NotYetRun, RanAsMeant, BadStops, ToldOnce, Unset
<1>2. phases = [t \in Tasks |-> "none"]
  <2>1. \A t \in Tasks : t >= made
    BY Counts DEF Init
  <2> QED
    BY <2>1 DEF phases, Phase
<1>3. wants = [t \in Tasks |-> "unknown"] /\ tolds = [t \in Tasks |-> "unknown"]
  BY DEF Init, wants, tolds, OrUnknown
<1>4. Spent = 0
  <2>1. {t \in Tasks : status[t] = "bad"} = {}
    BY DEF Init, Unset
  <2> QED
    BY <2>1, FS_EmptySet DEF Spent
<1> QED
  BY <1>1, <1>2, <1>3, <1>4, ActionsMapped

(* The pool is an Executor, with any number of workers and of clients, any      *)
(* order in which addresses put tasks, functions that return -1 and shutdowns  *)
(* at any time: a task is started at most once, each -1 costs one worker, and  *)
(* Future::Wait tells what the function returned, after it did.               *)
THEOREM ImplementsExecutor == Spec => RefinesExecutor
<1>1. Init => EInv /\ EX!Init
  BY InitMaps
<1>2. IInv /\ EInv /\ [Next]_vars => EInv' /\ [EX!Next]_(EX!exVars)
  <2> SUFFICES ASSUME IInv, EInv, [Next]_vars
               PROVE  EInv' /\ (EX!Next \/ UNCHANGED EX!exVars)
    OBVIOUS
  <2>1. CASE \E c \in Clients : Async(c) \/ WaitReturns(c)
    BY <2>1, AsyncMaps, WaitReturnsMaps
  <2>2. CASE PushPill
    BY <2>2, PushPillMaps
  <2>3. CASE \E w \in Workers : WorkerStep(w)
    BY <2>3, DequeueMaps, RunMaps, PostMaps DEF WorkerStep
  <2>4. CASE \/ \E c \in Clients : AsyncNotify(c) \/ CallWait(c)
             \/ CallShutDown \/ Destroy \/ PillNotify \/ Join
             \/ \E w \in Workers : SpuriousWakeup(w)
             \/ UNCHANGED vars
    BY <2>4, ClientsAreHidden
  <2> QED
    BY <2>1, <2>2, <2>3, <2>4 DEF Next, ShutDownStep
<1> QED
  BY <1>1, <1>2, Invariance, PTL DEF Spec, RefinesExecutor, EX!Spec
=============================================================================
