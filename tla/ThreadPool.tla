----------------------------- MODULE ThreadPool -----------------------------
(***************************************************************************)
(* The framework's ThreadPool with the queue (BtsQueue) and the semaphores  *)
(* (Semaphore) it is built from.                                            *)
(*                                                                         *)
(* Grain.  A section under a mutex is one step; what a thread does after    *)
(* unlocking, such as BtsQueue::Enqueue's notify_one, is another.  A task   *)
(* is named by the order in which Async created it.                         *)
(*                                                                         *)
(* BtsQueue<shared_ptr<Task>> orders its elements with std::less, that is   *)
(* by the address of the Task on the heap, and pops the greatest.  The      *)
(* allocator may return any free address, so here the queue is a sequence,  *)
(* highest address first, into which Async inserts anywhere.                *)
(***************************************************************************)
EXTENDS Integers, Sequences, FiniteSets, SequencesExt

CONSTANTS
  Workers,   (* m_threads                                                   *)
  Clients,   (* the threads that use the pool                               *)
  Boss,      (* the client that owns the pool, and so shuts it down         *)
  MaxTasks,  (* bound: Async calls of the clients                           *)
  Returns    (* what the clients' functions return: "ok", or "bad" for -1   *)

Pills == Cardinality(Workers)
Tasks == 0 .. MaxTasks + Pills - 1

ASSUME PoolAssumption ==
  /\ IsFiniteSet(Workers) /\ Workers # {}
  /\ Boss \in Clients /\ IsFiniteSet(Clients)
  /\ MaxTasks \in Nat
  /\ Returns \subseteq {"ok", "bad"}

VARIABLES
  made,      (* tasks created so far                                        *)
  result,    (* [Tasks -> what its function returns; "none" if not created] *)
  queue,     (* m_priqueue of m_tasks                                       *)
  wpc,       (* [Workers -> {"dequeue", "waiting", "run", "post", "exited"}] *)
  held,      (* [Workers -> sp_task of TaskDespacher, NoTask if none]       *)
  status,    (* [Tasks -> m_status, which no constructor initialises]       *)
  sem,       (* [Tasks -> m_count of the task's m_sem]                      *)
  cpc,       (* [Clients -> where the client stands]                        *)
  futures,   (* [Clients -> tasks it may Wait for, once each]               *)
  target,    (* [Clients -> the task it Waits for]                          *)
  told,      (* [Tasks -> what Future::Wait returned]                       *)
  pills,     (* BadApple tasks ShutDown has queued                          *)
  dying,     (* the destructor has been called                              *)
  running,   (* m_running                                                   *)
  owed       (* history: what was queued when ShutDown was called           *)

workerVars == <<wpc, held>>
taskVars   == <<made, result, status, sem>>
clientVars == <<cpc, futures, target, told>>
downVars   == <<pills, dying, running, owed>>
vars == <<queue, workerVars, taskVars, clientVars, downVars>>

NoTask == -1
None   == "none"
Unset  == "unset"

Init ==
  /\ made = 0
  /\ result = [t \in Tasks |-> None]
  /\ queue = <<>>
  /\ wpc = [w \in Workers |-> "dequeue"]
  /\ held = [w \in Workers |-> NoTask]
  /\ status = [t \in Tasks |-> Unset]
  /\ sem = [t \in Tasks |-> 0]
  /\ cpc = [c \in Clients |-> "idle"]
  /\ futures = [c \in Clients |-> {}]
  /\ target = [c \in Clients |-> NoTask]
  /\ told = [t \in Tasks |-> None]
  /\ pills = 0
  /\ dying = FALSE
  /\ running = TRUE
  /\ owed = {}

----------------------------------------------------------------------------
(* BtsQueue and Async.                                                       *)

(* A new task whose function returns r is queued wherever its address puts   *)
(* it.                                                                       *)
Enqueue(r) ==
  /\ made' = made + 1
  /\ result' = [result EXCEPT ![made] = r]
  /\ \E k \in 1 .. Len(queue) + 1 : queue' = InsertAt(queue, k, made)
  /\ UNCHANGED <<status, sem>>

(* Mutant of NotifyOne: nobody is woken up.                                   *)
NotifyOne_Lost == UNCHANGED wpc

(* notify_one on m_cond: some waiting worker, if there is one, wakes up and   *)
(* will look at the queue again.                                             *)
NotifyOne ==
  LET sleeping == {w \in Workers : wpc[w] = "waiting"} IN
    IF sleeping = {} THEN UNCHANGED wpc
    ELSE \E w \in sleeping : wpc' = [wpc EXCEPT ![w] = "dequeue"]

(* Async of a client's function, up to the unlock in Enqueue.  Its owner no   *)
(* longer lets anybody use a pool it destroys.                               *)
Async(c) ==
  /\ cpc[c] = "idle" \/ (c = Boss /\ cpc[c] = "down")
  /\ cpc[Boss] # "gone" /\ ~dying
  /\ made - pills < MaxTasks
  /\ \E r \in Returns : Enqueue(r)
  /\ futures' = [futures EXCEPT ![c] = @ \cup {made}]
  /\ cpc' = [cpc EXCEPT ![c] = IF @ = "idle" THEN "notify" ELSE "notifyDown"]
  /\ UNCHANGED <<workerVars, target, told, downVars>>

AsyncNotify(c) ==
  /\ cpc[c] \in {"notify", "notifyDown"}
  /\ NotifyOne
  /\ cpc' = [cpc EXCEPT ![c] = IF @ = "notify" THEN "idle" ELSE "down"]
  /\ UNCHANGED <<queue, held, taskVars, futures, target, told, downVars>>

(* Future::Wait: block on the task's semaphore, then read its status.        *)
CallWait(c) ==
  /\ cpc[c] = "idle"
  /\ \E t \in futures[c] :
       /\ target' = [target EXCEPT ![c] = t]
       /\ futures' = [futures EXCEPT ![c] = @ \ {t}]
  /\ cpc' = [cpc EXCEPT ![c] = "wait"]
  /\ UNCHANGED <<queue, workerVars, taskVars, told, downVars>>

(* Mutant of WaitReturns: the status is read without waiting.                *)
WaitReturns_AtOnce(c) ==
  LET t == target[c] IN
  /\ cpc[c] = "wait"
  /\ told' = [told EXCEPT ![t] = status[t]]
  /\ target' = [target EXCEPT ![c] = NoTask]
  /\ cpc' = [cpc EXCEPT ![c] = "idle"]
  /\ UNCHANGED <<queue, workerVars, taskVars, futures, downVars>>

WaitReturns(c) ==
  LET t == target[c] IN
  /\ cpc[c] = "wait"
  /\ sem[t] > 0
  /\ sem' = [sem EXCEPT ![t] = @ - 1]
  /\ told' = [told EXCEPT ![t] = status[t]]
  /\ target' = [target EXCEPT ![c] = NoTask]
  /\ cpc' = [cpc EXCEPT ![c] = "idle"]
  /\ UNCHANGED <<queue, workerVars, made, result, status, futures, downVars>>

----------------------------------------------------------------------------
(* ShutDown and the destructor.                                              *)

Queued == {queue[k] : k \in 1 .. Len(queue)}

CallShutDown ==
  /\ cpc[Boss] = "idle"
  /\ running
  /\ cpc' = [cpc EXCEPT ![Boss] = "pill"]
  /\ owed' = Queued
  /\ UNCHANGED <<queue, workerVars, taskVars, futures, target, told, pills, dying, running>>

(* ~ThreadPool: shuts down unless that was done.                             *)
Destroy ==
  /\ cpc[Boss] \in {"idle", "down"}
  /\ ~dying
  /\ \A c \in Clients \ {Boss} : cpc[c] # "notify"
  /\ dying' = TRUE
  /\ cpc' = [cpc EXCEPT ![Boss] = IF running THEN "pill" ELSE "gone"]
  /\ owed' = IF running THEN Queued ELSE owed
  /\ UNCHANGED <<queue, workerVars, taskVars, futures, target, told, pills, running>>

(* One round of ShutDown's first loop, again cut at the unlock.              *)
PushPill ==
  /\ cpc[Boss] = "pill"
  /\ pills < Pills
  /\ Enqueue("bad")
  /\ pills' = pills + 1
  /\ cpc' = [cpc EXCEPT ![Boss] = "pillNotify"]
  /\ UNCHANGED <<workerVars, futures, target, told, dying, running, owed>>

PillNotify ==
  /\ cpc[Boss] = "pillNotify"
  /\ NotifyOne
  /\ cpc' = [cpc EXCEPT ![Boss] = "pill"]
  /\ UNCHANGED <<queue, held, taskVars, futures, target, told, downVars>>

(* The second loop has joined every thread.                                  *)
Join ==
  /\ cpc[Boss] = "pill"
  /\ pills = Pills
  /\ \A w \in Workers : wpc[w] = "exited"
  /\ running' = FALSE
  /\ cpc' = [cpc EXCEPT ![Boss] = IF dying THEN "gone" ELSE "down"]
  /\ UNCHANGED <<queue, workerVars, taskVars, futures, target, told, pills, dying, owed>>

----------------------------------------------------------------------------
(* TaskDespacher.                                                            *)

(* Mutant of Dequeue: top without pop.                                       *)
Dequeue_NoPop(w) ==
  /\ wpc[w] = "dequeue"
  /\ \/ /\ queue # <<>>
        /\ held' = [held EXCEPT ![w] = Head(queue)]
        /\ wpc' = [wpc EXCEPT ![w] = "run"]
     \/ /\ queue = <<>>
        /\ wpc' = [wpc EXCEPT ![w] = "waiting"]
        /\ UNCHANGED held
  /\ UNCHANGED <<queue, taskVars, clientVars, downVars>>

(* Dequeue with the lock held: take the top, or wait on m_cond.              *)
Dequeue(w) ==
  /\ wpc[w] = "dequeue"
  /\ \/ /\ queue # <<>>
        /\ held' = [held EXCEPT ![w] = Head(queue)]
        /\ queue' = Tail(queue)
        /\ wpc' = [wpc EXCEPT ![w] = "run"]
     \/ /\ queue = <<>>
        /\ wpc' = [wpc EXCEPT ![w] = "waiting"]
        /\ UNCHANGED <<queue, held>>
  /\ UNCHANGED <<taskVars, clientVars, downVars>>

(* A condition variable may also wake up by itself.                          *)
SpuriousWakeup(w) ==
  /\ wpc[w] = "waiting"
  /\ wpc' = [wpc EXCEPT ![w] = "dequeue"]
  /\ UNCHANGED <<queue, held, taskVars, clientVars, downVars>>

(* Task::Run, first the function ...                                         *)
Run(w) ==
  /\ wpc[w] = "run"
  /\ status' = [status EXCEPT ![held[w]] = result[held[w]]]
  /\ wpc' = [wpc EXCEPT ![w] = "post"]
  /\ UNCHANGED <<queue, held, made, result, sem, clientVars, downVars>>

(* Mutant of Post: the loop is left before the semaphore is posted.          *)
Post_NotAfterBad(w) ==
  /\ wpc[w] = "post"
  /\ sem' = [sem EXCEPT ![held[w]] = IF status[held[w]] = "bad" THEN @ ELSE @ + 1]
  /\ wpc' = [wpc EXCEPT ![w] = IF status[held[w]] = "bad" THEN "exited" ELSE "dequeue"]
  /\ UNCHANGED <<queue, held, made, result, status, clientVars, downVars>>

(* ... then the semaphore; a BADAPPLE ends the thread.                       *)
Post(w) ==
  /\ wpc[w] = "post"
  /\ sem' = [sem EXCEPT ![held[w]] = @ + 1]
  /\ wpc' = [wpc EXCEPT ![w] = IF status[held[w]] = "bad" THEN "exited" ELSE "dequeue"]
  /\ UNCHANGED <<queue, held, made, result, status, clientVars, downVars>>

----------------------------------------------------------------------------
WorkerStep(w) == Dequeue(w) \/ Run(w) \/ Post(w)
ShutDownStep == PushPill \/ PillNotify \/ Join

Next ==
  \/ \E c \in Clients : Async(c) \/ AsyncNotify(c) \/ CallWait(c) \/ WaitReturns(c)
  \/ CallShutDown \/ Destroy \/ ShutDownStep
  \/ \E w \in Workers : WorkerStep(w) \/ SpuriousWakeup(w)

Spec == Init /\ [][Next]_vars

(* Threads that can run do run, functions return, and a waiter whose         *)
(* semaphore is posted gets it.  Nobody has to call anything.                *)
Fairness ==
  /\ \A w \in Workers : WF_vars(WorkerStep(w))
  /\ \A c \in Clients : WF_vars(AsyncNotify(c)) /\ WF_vars(WaitReturns(c))
  /\ WF_vars(ShutDownStep)

FairSpec == Spec /\ Fairness
----------------------------------------------------------------------------
(* Properties.                                                               *)

(* What the variables range over; a task is created before it is queued, and *)
(* is in one place of the queue at most.                                     *)
TypeOK ==
  /\ made \in 0 .. MaxTasks + Pills
  /\ result \in [Tasks -> {None, "ok", "bad"}]
  /\ \A t \in Tasks : result[t] # None <=> t < made
  /\ queue \in Seq(0 .. made - 1) /\ IsInjective(queue)
  /\ wpc \in [Workers -> {"dequeue", "waiting", "run", "post", "exited"}]
  /\ held \in [Workers -> Tasks \cup {NoTask}]
  /\ status \in [Tasks -> {Unset, "ok", "bad"}]
  /\ sem \in [Tasks -> 0 .. 1]
  /\ cpc \in [Clients -> {"idle", "notify", "notifyDown", "wait", "pill",
                          "pillNotify", "down", "gone"}]
  /\ futures \in [Clients -> SUBSET Tasks]
  /\ target \in [Clients -> Tasks \cup {NoTask}]
  /\ told \in [Tasks -> {None, "ok", "bad"}]
  /\ pills \in 0 .. Pills
  /\ {dying, running} \subseteq BOOLEAN
  /\ owed \subseteq Tasks

(* notify_one comes after the unlock, and workers may be between their own    *)
(* unlock and the next look at the queue; still there is never work queued   *)
(* with every remaining worker asleep and no notification on its way.        *)
NobodySleepsOverWork ==
  LET left == {w \in Workers : wpc[w] # "exited"} IN
    queue # <<>> /\ left # {} =>
      \/ \E w \in left : wpc[w] # "waiting"
      \/ \E c \in Clients : cpc[c] \in {"notify", "notifyDown", "pillNotify"}

(* The pool is an Executor: tasks run once, Wait tells the result of a       *)
(* function that has returned, every BADAPPLE costs one worker.              *)
Spent == Cardinality({t \in Tasks : status[t] = "bad"})

Phase(t) ==
  IF t >= made THEN "none"
  ELSE IF t \in Queued THEN "queued"
  ELSE IF \E w \in Workers : wpc[w] = "run" /\ held[w] = t THEN "running"
  ELSE "finished"

OrUnknown(v) == IF v = None THEN "unknown" ELSE v

EX == INSTANCE Executor WITH
  Results <- {"ok", "bad"},
  Bad     <- "bad",
  Slots   <- Pills,
  phase   <- [t \in Tasks |-> Phase(t)],
  want    <- [t \in Tasks |-> OrUnknown(result[t])],
  told    <- [t \in Tasks |-> OrUnknown(told[t])],
  spent   <- Spent

RefinesExecutor == EX!Spec

(* Whoever waits for a task gets an answer, unless the pool is shut down or   *)
(* so many functions have returned -1 that no worker is left.                *)
WaitsReturn ==
  \A c \in Clients :
    cpc[c] = "wait" ~> \/ cpc[c] # "wait"
                       \/ cpc[Boss] \in {"pill", "pillNotify", "down", "gone"}
                       \/ Spent >= Pills

(* ShutDown returns: its pills reach every worker that functions returning   *)
(* -1 have not ended already, whatever is queued beside them.                *)
ShutDownReturns ==
  cpc[Boss] = "pill" ~> cpc[Boss] \in {"down", "notifyDown", "gone"}

(* ThreadPool.hpp:25: ShutDown "finishes what currently in queue".           *)
FinishesQueue ==
  cpc[Boss] \in {"down", "gone"} => \A t \in owed : status[t] # Unset
=============================================================================
