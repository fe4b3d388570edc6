--------------------------- MODULE SingletonProofs ---------------------------
(***************************************************************************)
(* Theorems about Singleton, for any number of threads.  IInv says which      *)
(* statics are set while the one thread that constructs stands where; it      *)
(* holds initially and every action preserves it (one lemma per action), and  *)
(* the properties follow from it.                                            *)
(***************************************************************************)
EXTENDS Singleton, TLAPS

----------------------------------------------------------------------------
(* The inductive invariant.                                                  *)

Winners == {"new", "threw", "store", "atexit"}
Leaving == {"exit", "deleted", "ended"}

(* One thread at most has found ctor_started unset.                          *)
OneWinner ==
  /\ \A t, u \in Threads : pc[t] \in Winners /\ pc[u] \in Winners => t = u
  /\ \A t \in Threads : pc[t] \in Winners => started
  /\ built = 1 => started

(* The statics while it constructs.                                          *)
WinnerState ==
  \A t \in Threads :
    /\ pc[t] \in {"new", "threw"} => built = 0
    /\ pc[t] = "store" => built = 1 /\ instance = Null
    /\ pc[t] = "atexit" => instance = 1 /\ handlers = 0

(* The statics among themselves, and while CleanUp runs.                     *)
Statics ==
  /\ instance # Null => built = 1
  /\ handlers = 1 => instance = 1
  /\ deleted # {} \/ instance = Beef => pc[Boss] \in Leaving
  /\ pc[Boss] = "deleted" => instance = 1 /\ handlers = 1
  /\ changing <=> pc[Boss] = "adding"
  /\ \A t \in Threads : pc[t] \in Leaving \cup {"adding"} => t = Boss

(* Whoever is out of the constructor finds an instance, and what it got from   *)
(* operator-> is one.                                                        *)
UsersFindIt ==
  \A t \in Threads :
    /\ pc[t] \in {"made", "call", "adding"} => instance # Null
    /\ pc[t] \in {"call", "adding"} => ptr[t] # Null
    /\ ptr[t] = Beef => pc[Boss] \in Leaving

(* How atlas_iots sets itself up: exit before the Singleton exists or never,   *)
(* and workers after both creators.                                          *)
ServerOrder ==
  program = "server" =>
    /\ pc[Boss] \in Leaving => instance = Null /\ pc[Boss] # "deleted"
    /\ instance = Null => creators = {}
    /\ pc[Boss] \notin Leaving \cup {"idle"} => creators # Keys
    /\ \A w \in Workers : pc[w] # "idle" => creators = Keys

IInv ==
  /\ TypeOK
  /\ OneWinner
  /\ WinnerState
  /\ Statics
  /\ UsersFindIt
  /\ ServerOrder
  /\ FaultsHaveACause

----------------------------------------------------------------------------
(* Each action preserves the invariant.                                      *)

LEMMA InitHolds == Init => IInv
<1> SUFFICES ASSUME Init PROVE IInv
  OBVIOUS
<1>1. TypeOK
  BY DEF Init, TypeOK, Null
<1>2. OneWinner /\ WinnerState
  BY DEF Init, OneWinner, WinnerState, Winners
<1>3. Statics /\ UsersFindIt
  BY SingletonAssumption DEF Init, Statics, UsersFindIt, Leaving, Threads, Null, Beef
<1>4. ServerOrder /\ FaultsHaveACause
  BY SingletonAssumption DEF Init, ServerOrder, FaultsHaveACause, Leaving, Threads
<1> QED
  BY <1>1, <1>2, <1>3, <1>4 DEF IInv

(* A thread that uses the instance has a live one, unless exit has begun, as   *)
(* it never does in the server once there is an instance.                    *)
LEMMA UsersHaveALiveOne ==
  ASSUME IInv, Running, NEW t \in Threads, pc[t] \in {"call", "adding"}, ~Usable(ptr[t])
  PROVE  program # "server" /\ pc[Boss] \in {"exit", "deleted"}
<1>1. ptr[t] \in {Null, 1, Beef} /\ ptr[t] # Null
  BY DEF IInv, TypeOK, UsersFindIt
<1>2. pc[Boss] \in Leaving
  <2>1. ptr[t] = Beef \/ deleted # {}
    BY <1>1 DEF Usable
  <2> QED
    BY <2>1 DEF IInv, Statics, UsersFindIt
<1>3. instance # Null
  BY DEF IInv, UsersFindIt
<1> QED
  BY <1>2, <1>3 DEF IInv, ServerOrder, Leaving, Running

LEMMA FaultStep ==
  ASSUME IInv, NEW f \in {"no_instance", "race", "no_creator"}, Fault(f), program # "server",
         f = "no_instance" => pc[Boss] \in {"exit", "deleted"}
  PROVE  IInv'
<1>1. fault' = f /\ UNCHANGED <<program, staticVars, pc, ptr, factoryVars>>
  BY DEF Fault
<1> QED
  BY <1>1 DEF IInv, TypeOK, OneWinner, WinnerState, Statics, UsersFindIt, ServerOrder,
     FaultsHaveACause, Winners, Leaving, staticVars, factoryVars

LEMMA ConstructKeeps ==
  ASSUME IInv, NEW t \in Threads, Construct(t)
  PROVE  IInv'
<1>1. /\ Running /\ pc[t] = "idle" /\ MayStart(t)
      /\ pc' = [pc EXCEPT ![t] = IF instance = Null THEN "test" ELSE "made"]
      /\ UNCHANGED <<program, instance, started, built, handlers, deleted, ptr,
                     creators, changing, fault>>
  BY DEF Construct, At, Goto, staticVars, factoryVars
<1>2. TypeOK'
  BY <1>1 DEF IInv, TypeOK, WinnerState, Statics, Threads
<1>3. OneWinner' /\ WinnerState'
  BY <1>1 DEF IInv, TypeOK, OneWinner, WinnerState, Statics, Winners, Threads, Null
<1>4. Statics' /\ UsersFindIt'
  BY <1>1, SingletonAssumption DEF IInv, TypeOK, WinnerState, Statics, UsersFindIt,
     Leaving, Threads, Null, Beef
<1>5. ServerOrder' /\ FaultsHaveACause'
  BY <1>1, SingletonAssumption DEF IInv, TypeOK, WinnerState, Statics, UsersFindIt, ServerOrder,
     FaultsHaveACause, Running, Leaving, Threads, Null, Beef, MayStart
<1> QED
  BY <1>2, <1>3, <1>4, <1>5 DEF IInv

LEMMA TestAndSetKeeps ==
  ASSUME IInv, NEW t \in Threads, TestAndSet(t)
  PROVE  IInv'
<1>1. /\ Running /\ pc[t] = "test" /\ started' = TRUE
      /\ pc' = [pc EXCEPT ![t] = IF started THEN "spin" ELSE "new"]
      /\ UNCHANGED <<program, instance, built, handlers, deleted, ptr,
                     creators, changing, fault>>
  BY DEF TestAndSet, At, Goto, staticVars, factoryVars
<1>2. TypeOK'
  BY <1>1 DEF IInv, TypeOK, WinnerState, Statics, Threads
<1>3. OneWinner' /\ WinnerState'
  BY <1>1 DEF IInv, TypeOK, OneWinner, WinnerState, Statics, Winners, Threads, Null
<1>4. Statics' /\ UsersFindIt'
  BY <1>1, SingletonAssumption DEF IInv, TypeOK, WinnerState, Statics, UsersFindIt,
     Leaving, Threads, Null, Beef
<1>5. ServerOrder' /\ FaultsHaveACause'
  BY <1>1, SingletonAssumption DEF IInv, TypeOK, WinnerState, Statics, UsersFindIt, ServerOrder,
     FaultsHaveACause, Running, Leaving, Threads, Null, Beef
<1> QED
  BY <1>2, <1>3, <1>4, <1>5 DEF IInv

LEMMA NewTKeeps ==
  ASSUME IInv, NEW t \in Threads, NewT(t)
  PROVE  IInv'
<1>1. /\ Running /\ pc[t] = "new" /\ built' = built + 1
      /\ pc' = [pc EXCEPT ![t] = "store"]
      /\ UNCHANGED <<program, instance, started, handlers, deleted, ptr,
                     creators, changing, fault>>
  BY DEF NewT, At, Goto, staticVars, factoryVars
<1>2. TypeOK'
  BY <1>1 DEF IInv, TypeOK, WinnerState, Statics, Threads
<1>3. OneWinner' /\ WinnerState'
  BY <1>1 DEF IInv, TypeOK, OneWinner, WinnerState, Statics, Winners, Threads, Null
<1>4. Statics' /\ UsersFindIt'
  BY <1>1, SingletonAssumption DEF IInv, TypeOK, WinnerState, Statics, UsersFindIt,
     Leaving, Threads, Null, Beef
<1>5. ServerOrder' /\ FaultsHaveACause'
  BY <1>1, SingletonAssumption DEF IInv, TypeOK, WinnerState, Statics, UsersFindIt, ServerOrder,
     FaultsHaveACause, Running, Leaving, Threads, Null, Beef
<1> QED
  BY <1>2, <1>3, <1>4, <1>5 DEF IInv

LEMMA NewThrowsKeeps ==
  ASSUME IInv, NEW t \in Threads, NewThrows(t)
  PROVE  IInv'
<1>1. /\ Running /\ pc[t] = "new"
      /\ pc' = [pc EXCEPT ![t] = "threw"]
      /\ UNCHANGED <<program, instance, started, built, handlers, deleted, ptr,
                     creators, changing, fault>>
  BY DEF NewThrows, At, Goto, staticVars, factoryVars
<1>2. TypeOK'
  BY <1>1 DEF IInv, TypeOK, WinnerState, Statics, Threads
<1>3. OneWinner' /\ WinnerState'
  BY <1>1 DEF IInv, TypeOK, OneWinner, WinnerState, Statics, Winners, Threads, Null
<1>4. Statics' /\ UsersFindIt'
  BY <1>1, SingletonAssumption DEF IInv, TypeOK, WinnerState, Statics, UsersFindIt,
     Leaving, Threads, Null, Beef
<1>5. ServerOrder' /\ FaultsHaveACause'
  BY <1>1, SingletonAssumption DEF IInv, TypeOK, WinnerState, Statics, UsersFindIt, ServerOrder,
     FaultsHaveACause, Running, Leaving, Threads, Null, Beef
<1> QED
  BY <1>2, <1>3, <1>4, <1>5 DEF IInv

LEMMA StoreKeeps ==
  ASSUME IInv, NEW t \in Threads, Store(t)
  PROVE  IInv'
<1>1. /\ Running /\ pc[t] = "store" /\ instance' = built
      /\ pc' = [pc EXCEPT ![t] = "atexit"]
      /\ UNCHANGED <<program, started, built, handlers, deleted, ptr,
                     creators, changing, fault>>
  BY DEF Store, At, Goto, staticVars, factoryVars
<1>2. TypeOK'
  BY <1>1 DEF IInv, TypeOK, WinnerState, Statics, Threads
<1>3. OneWinner' /\ WinnerState'
  BY <1>1 DEF IInv, TypeOK, OneWinner, WinnerState, Statics, Winners, Threads, Null
<1>4. Statics' /\ UsersFindIt'
  BY <1>1, SingletonAssumption DEF IInv, TypeOK, WinnerState, Statics, UsersFindIt,
     Leaving, Threads, Null, Beef
<1>5. ServerOrder' /\ FaultsHaveACause'
  BY <1>1, SingletonAssumption DEF IInv, TypeOK, WinnerState, Statics, UsersFindIt, ServerOrder,
     FaultsHaveACause, Running, Leaving, Threads, Null, Beef
<1> QED
  BY <1>2, <1>3, <1>4, <1>5 DEF IInv

LEMMA AtExitKeeps ==
  ASSUME IInv, NEW t \in Threads, AtExit(t)
  PROVE  IInv'
<1>1. /\ Running /\ pc[t] = "atexit" /\ handlers' = handlers + 1
      /\ pc' = [pc EXCEPT ![t] = "made"]
      /\ UNCHANGED <<program, instance, started, built, deleted, ptr,
                     creators, changing, fault>>
  BY DEF AtExit, At, Goto, staticVars, factoryVars
<1>2. TypeOK'
  BY <1>1 DEF IInv, TypeOK, WinnerState, Statics, Threads
<1>3. OneWinner' /\ WinnerState'
  BY <1>1 DEF IInv, TypeOK, OneWinner, WinnerState, Statics, Winners, Threads, Null
<1>4. Statics' /\ UsersFindIt'
  BY <1>1, SingletonAssumption DEF IInv, TypeOK, WinnerState, Statics, UsersFindIt,
     Leaving, Threads, Null, Beef
<1>5. ServerOrder' /\ FaultsHaveACause'
  BY <1>1, SingletonAssumption DEF IInv, TypeOK, WinnerState, Statics, UsersFindIt, ServerOrder,
     FaultsHaveACause, Running, Leaving, Threads, Null, Beef
<1> QED
  BY <1>2, <1>3, <1>4, <1>5 DEF IInv

LEMMA SpinKeeps ==
  ASSUME IInv, NEW t \in Threads, Spin(t)
  PROVE  IInv'
<1>1. /\ Running /\ pc[t] = "spin" /\ instance # Null
      /\ pc' = [pc EXCEPT ![t] = "made"]
      /\ UNCHANGED <<program, instance, started, built, handlers, deleted, ptr,
                     creators, changing, fault>>
  BY DEF Spin, At, Goto, staticVars, factoryVars
<1>2. TypeOK'
  BY <1>1 DEF IInv, TypeOK, WinnerState, Statics, Threads
<1>3. OneWinner' /\ WinnerState'
  BY <1>1 DEF IInv, TypeOK, OneWinner, WinnerState, Statics, Winners, Threads, Null
<1>4. Statics' /\ UsersFindIt'
  BY <1>1, SingletonAssumption DEF IInv, TypeOK, WinnerState, Statics, UsersFindIt,
     Leaving, Threads, Null, Beef
<1>5. ServerOrder' /\ FaultsHaveACause'
  BY <1>1, SingletonAssumption DEF IInv, TypeOK, WinnerState, Statics, UsersFindIt, ServerOrder,
     FaultsHaveACause, Running, Leaving, Threads, Null, Beef
<1> QED
  BY <1>2, <1>3, <1>4, <1>5 DEF IInv

LEMMA ArrowKeeps ==
  ASSUME IInv, NEW t \in Threads, Arrow(t)
  PROVE  IInv'
<1>1. /\ Running /\ pc[t] = "made" /\ ptr' = [ptr EXCEPT ![t] = instance]
      /\ pc' = [pc EXCEPT ![t] = "call"]
      /\ UNCHANGED <<program, instance, started, built, handlers, deleted, creators, changing, fault>>
  BY DEF Arrow, At, Goto, staticVars, factoryVars
<1>2. TypeOK'
  BY <1>1 DEF IInv, TypeOK, WinnerState, Statics, Threads
<1>3. OneWinner' /\ WinnerState'
  BY <1>1 DEF IInv, TypeOK, OneWinner, WinnerState, Statics, Winners, Threads, Null
<1>4. Statics' /\ UsersFindIt'
  BY <1>1, SingletonAssumption DEF IInv, TypeOK, WinnerState, Statics, UsersFindIt,
     Leaving, Threads, Null, Beef
<1>5. ServerOrder' /\ FaultsHaveACause'
  BY <1>1, SingletonAssumption DEF IInv, TypeOK, WinnerState, Statics, UsersFindIt, ServerOrder,
     FaultsHaveACause, Running, Leaving, Threads, Null, Beef
<1> QED
  BY <1>2, <1>3, <1>4, <1>5 DEF IInv

LEMMA AddKeeps ==
  ASSUME IInv, Add
  PROVE  IInv'
<1>1. CASE ~Usable(ptr[Boss])
  <2>1. Fault("no_instance") /\ Running /\ pc[Boss] = "call"
    BY <1>1 DEF Add, At
  <2> QED
    BY <1>1, <2>1, UsersHaveALiveOne DEF Threads
<1>2. CASE Usable(ptr[Boss])
  <2>1. /\ Running /\ pc[Boss] = "call" /\ changing' = TRUE
        /\ pc' = [pc EXCEPT ![Boss] = "adding"]
        /\ UNCHANGED <<program, instance, started, built, handlers, deleted, ptr, creators, fault>>
    BY <1>2 DEF Add, At, Goto, Fault, Running, staticVars, factoryVars
  <2>2. TypeOK'
    BY <2>1 DEF IInv, TypeOK, WinnerState, Statics, Threads
  <2>3. OneWinner' /\ WinnerState'
    BY <2>1 DEF IInv, TypeOK, OneWinner, WinnerState, Statics, Winners, Threads, Null
  <2>4. Statics' /\ UsersFindIt'
    BY <2>1, SingletonAssumption DEF IInv, TypeOK, WinnerState, Statics, UsersFindIt,
       Leaving, Threads, Null, Beef
  <2>5. ServerOrder' /\ FaultsHaveACause'
    BY <2>1, SingletonAssumption DEF IInv, TypeOK, WinnerState, Statics, UsersFindIt, ServerOrder,
       FaultsHaveACause, Running, Leaving, Threads, Null, Beef
  <2> QED
    BY <2>2, <2>3, <2>4, <2>5 DEF IInv
<1> QED
  BY <1>1, <1>2

LEMMA AddReturnsKeeps ==
  ASSUME IInv, AddReturns
  PROVE  IInv'
<1>1. CASE ~Usable(ptr[Boss])
  <2>1. Fault("no_instance") /\ Running /\ pc[Boss] = "adding"
    BY <1>1 DEF AddReturns, At
  <2> QED
    BY <1>1, <2>1, UsersHaveALiveOne DEF Threads
<1>2. CASE Usable(ptr[Boss])
  <2>1. /\ Running /\ pc[Boss] = "adding" /\ changing' = FALSE
        /\ \E key \in Keys : creators' = creators \cup {key}
        /\ pc' = [pc EXCEPT ![Boss] = "idle"] /\ ptr' = [ptr EXCEPT ![Boss] = Null]
        /\ UNCHANGED <<program, instance, started, built, handlers, deleted, fault>>
    BY <1>2 DEF AddReturns, At, Goto, Returns, Fault, Running, staticVars, factoryVars
  <2>2. TypeOK'
    BY <2>1 DEF IInv, TypeOK, WinnerState, Statics, Threads
  <2>3. OneWinner' /\ WinnerState'
    BY <2>1 DEF IInv, TypeOK, OneWinner, WinnerState, Statics, Winners, Threads, Null
  <2>4. Statics' /\ UsersFindIt'
    BY <2>1, SingletonAssumption DEF IInv, TypeOK, WinnerState, Statics, UsersFindIt,
       Leaving, Threads, Null, Beef
  <2>5. ServerOrder' /\ FaultsHaveACause'
    BY <2>1, SingletonAssumption DEF IInv, TypeOK, WinnerState, Statics, UsersFindIt, ServerOrder,
       FaultsHaveACause, Running, Leaving, Threads, Null, Beef
  <2> QED
    BY <2>2, <2>3, <2>4, <2>5 DEF IInv
<1> QED
  BY <1>1, <1>2

LEMMA CreateKeeps ==
  ASSUME IInv, NEW w \in Workers, Create(w)
  PROVE  IInv'
<1> w \in Threads /\ w # Boss
  BY SingletonAssumption DEF Threads
<1>1. Running /\ pc[w] = "call"
  BY DEF Create, At
<1>2. PICK key \in Keys \cup {Unknown} :
        /\ program = "server" => key # Unknown
        /\ \/ ~Usable(ptr[w]) /\ Fault("no_instance")
           \/ Usable(ptr[w]) /\ changing /\ Fault("race")
           \/ Usable(ptr[w]) /\ ~changing /\ key \notin creators /\ Fault("no_creator")
           \/ /\ Usable(ptr[w]) /\ ~changing /\ key \in creators
              /\ Returns(w)
              /\ UNCHANGED <<program, staticVars, factoryVars, fault>>
  BY DEF Create
(* In the server a worker calls Create when both creators are there.         *)
<1>3. program = "server" => creators = Keys /\ ~changing
  BY <1>1 DEF IInv, ServerOrder, Statics, Leaving
<1>4. CASE ~Usable(ptr[w])
  BY <1>1, <1>2, <1>4, UsersHaveALiveOne, FaultStep
<1>5. CASE Usable(ptr[w]) /\ changing
  BY <1>2, <1>3, <1>5, FaultStep
<1>6. CASE Usable(ptr[w]) /\ ~changing /\ key \notin creators
  BY <1>2, <1>3, <1>6, FaultStep
<1>7. CASE Usable(ptr[w]) /\ ~changing /\ key \in creators
  <2>1. /\ Running /\ pc[w] = "call"
        /\ pc' = [pc EXCEPT ![w] = "idle"] /\ ptr' = [ptr EXCEPT ![w] = Null]
        /\ UNCHANGED <<program, instance, started, built, handlers, deleted, creators, changing, fault>>
    BY <1>1, <1>2, <1>7 DEF Goto, Returns, staticVars, factoryVars
  <2>2. TypeOK'
    BY <2>1 DEF IInv, TypeOK, WinnerState, Statics, Threads
  <2>3. OneWinner' /\ WinnerState'
    BY <2>1 DEF IInv, TypeOK, OneWinner, WinnerState, Statics, Winners, Threads, Null
  <2>4. Statics' /\ UsersFindIt'
    BY <2>1, SingletonAssumption DEF IInv, TypeOK, WinnerState, Statics, UsersFindIt,
       Leaving, Threads, Null, Beef
  <2>5. ServerOrder' /\ FaultsHaveACause'
    BY <2>1, SingletonAssumption DEF IInv, TypeOK, WinnerState, Statics, UsersFindIt, ServerOrder,
       FaultsHaveACause, Running, Leaving, Threads, Null, Beef
  <2> QED
    BY <2>2, <2>3, <2>4, <2>5 DEF IInv
<1> QED
  BY <1>4, <1>5, <1>6, <1>7

LEMMA ExitKeeps ==
  ASSUME IInv, Exit
  PROVE  IInv'
<1>1. /\ Running /\ pc[Boss] = "idle" /\ (program = "server" => instance = Null)
      /\ pc' = [pc EXCEPT ![Boss] = "exit"]
      /\ UNCHANGED <<program, instance, started, built, handlers, deleted, ptr,
                     creators, changing, fault>>
  BY DEF Exit, At, Goto, staticVars, factoryVars
<1>2. TypeOK'
  BY <1>1 DEF IInv, TypeOK, WinnerState, Statics, Threads
<1>3. OneWinner' /\ WinnerState'
  BY <1>1 DEF IInv, TypeOK, OneWinner, WinnerState, Statics, Winners, Threads, Null
<1>4. Statics' /\ UsersFindIt'
  BY <1>1, SingletonAssumption DEF IInv, TypeOK, WinnerState, Statics, UsersFindIt,
     Leaving, Threads, Null, Beef
<1>5. ServerOrder' /\ FaultsHaveACause'
  BY <1>1, SingletonAssumption DEF IInv, TypeOK, WinnerState, Statics, UsersFindIt, ServerOrder,
     FaultsHaveACause, Running, Leaving, Threads, Null, Beef
<1> QED
  BY <1>2, <1>3, <1>4, <1>5 DEF IInv

LEMMA CleanUpKeeps ==
  ASSUME IInv, CleanUp
  PROVE  IInv'
<1>1. CASE ~Usable(instance)
  <2>1. Fault("no_instance") /\ Running /\ pc[Boss] = "exit" /\ handlers > 0
    BY <1>1 DEF CleanUp, At
  <2>2. instance # Null
    BY <2>1 DEF IInv, TypeOK, Statics, Null
  <2>3. program # "server"
    BY <2>1, <2>2 DEF IInv, ServerOrder, Leaving
  <2> QED
    BY <2>1, <2>3, FaultStep
<1>2. CASE Usable(instance)
  <2>1. /\ Running /\ pc[Boss] = "exit" /\ handlers > 0 /\ Usable(instance)
        /\ deleted' = deleted \cup {instance} /\ pc' = [pc EXCEPT ![Boss] = "deleted"]
        /\ UNCHANGED <<program, instance, started, built, handlers, ptr, creators, changing, fault>>
    BY <1>2 DEF CleanUp, At, Goto, Fault, Running, staticVars, factoryVars
  <2>2. TypeOK'
    BY <2>1 DEF IInv, TypeOK, WinnerState, Statics, Threads, Usable
  <2>3. OneWinner' /\ WinnerState'
    BY <2>1 DEF IInv, TypeOK, OneWinner, WinnerState, Statics, Winners, Threads, Null
  <2>4. Statics' /\ UsersFindIt'
    BY <2>1, SingletonAssumption DEF IInv, TypeOK, WinnerState, Statics, UsersFindIt,
       Leaving, Threads, Null, Beef, Usable
  <2>5. ServerOrder' /\ FaultsHaveACause'
    BY <2>1, SingletonAssumption DEF IInv, TypeOK, WinnerState, Statics, UsersFindIt, ServerOrder,
       FaultsHaveACause, Running, Leaving, Threads, Null, Beef, Usable
  <2> QED
    BY <2>2, <2>3, <2>4, <2>5 DEF IInv
<1> QED
  BY <1>1, <1>2

LEMMA CleanUpReturnsKeeps ==
  ASSUME IInv, CleanUpReturns
  PROVE  IInv'
<1>1. /\ Running /\ pc[Boss] = "deleted"
      /\ instance' = Beef /\ handlers' = handlers - 1
      /\ pc' = [pc EXCEPT ![Boss] = "exit"]
      /\ UNCHANGED <<program, started, built, deleted, ptr,
                     creators, changing, fault>>
  BY DEF CleanUpReturns, At, Goto, staticVars, factoryVars
<1>2. TypeOK'
  BY <1>1 DEF IInv, TypeOK, WinnerState, Statics, Threads
<1>3. OneWinner' /\ WinnerState'
  BY <1>1 DEF IInv, TypeOK, OneWinner, WinnerState, Statics, Winners, Threads, Null
<1>4. Statics' /\ UsersFindIt'
  BY <1>1, SingletonAssumption DEF IInv, TypeOK, WinnerState, Statics, UsersFindIt,
     Leaving, Threads, Null, Beef
<1>5. ServerOrder' /\ FaultsHaveACause'
  BY <1>1, SingletonAssumption DEF IInv, TypeOK, WinnerState, Statics, UsersFindIt, ServerOrder,
     FaultsHaveACause, Running, Leaving, Threads, Null, Beef
<1> QED
  BY <1>2, <1>3, <1>4, <1>5 DEF IInv

LEMMA ExitEndsKeeps ==
  ASSUME IInv, ExitEnds
  PROVE  IInv'
<1>1. /\ Running /\ pc[Boss] = "exit" /\ handlers = 0
      /\ pc' = [pc EXCEPT ![Boss] = "ended"]
      /\ UNCHANGED <<program, instance, started, built, handlers, deleted, ptr,
                     creators, changing, fault>>
  BY DEF ExitEnds, At, Goto, staticVars, factoryVars
<1>2. TypeOK'
  BY <1>1 DEF IInv, TypeOK, WinnerState, Statics, Threads
<1>3. OneWinner' /\ WinnerState'
  BY <1>1 DEF IInv, TypeOK, OneWinner, WinnerState, Statics, Winners, Threads, Null
<1>4. Statics' /\ UsersFindIt'
  BY <1>1, SingletonAssumption DEF IInv, TypeOK, WinnerState, Statics, UsersFindIt,
     Leaving, Threads, Null, Beef
<1>5. ServerOrder' /\ FaultsHaveACause'
  BY <1>1, SingletonAssumption DEF IInv, TypeOK, WinnerState, Statics, UsersFindIt, ServerOrder,
     FaultsHaveACause, Running, Leaving, Threads, Null, Beef
<1> QED
  BY <1>2, <1>3, <1>4, <1>5 DEF IInv

LEMMA StutteringKeeps ==
  ASSUME IInv, UNCHANGED vars
  PROVE  IInv'
BY DEF vars, staticVars, factoryVars, IInv, TypeOK, OneWinner, WinnerState, Statics,
   UsersFindIt, ServerOrder, FaultsHaveACause, Winners, Leaving

----------------------------------------------------------------------------
(* The theorems.                                                             *)

(* The statics of the Singleton, the threads in its constructor and exit stay   *)
(* in step.                                                                  *)
THEOREM Invariance == Spec => []IInv
<1>1. Init => IInv
  BY InitHolds
<1>2. IInv /\ [Next]_vars => IInv'
  <2> SUFFICES ASSUME IInv, [Next]_vars PROVE IInv'
    OBVIOUS
  <2>1. CASE \E t \in Threads : Construct(t) \/ Constructs(t) \/ Arrow(t)
    BY <2>1, ConstructKeeps, TestAndSetKeeps, NewTKeeps, NewThrowsKeeps, StoreKeeps, AtExitKeeps,
       SpinKeeps, ArrowKeeps DEF Constructs
  <2>2. CASE Add \/ AddReturns
    BY <2>2, AddKeeps, AddReturnsKeeps
  <2>3. CASE \E w \in Workers : Create(w)
    BY <2>3, CreateKeeps
  <2>4. CASE Exit \/ CleanUp \/ CleanUpReturns \/ ExitEnds
    BY <2>4, ExitKeeps, CleanUpKeeps, CleanUpReturnsKeeps, ExitEndsKeeps
  <2>5. CASE UNCHANGED vars
    BY <2>5, StutteringKeeps
  <2> QED
    BY <2>1, <2>2, <2>3, <2>4, <2>5 DEF Next
<1> QED
  BY <1>1, <1>2, PTL DEF Spec

(* Only values of their types: in particular no second instance is built and   *)
(* CleanUp is registered once.                                               *)
THEOREM TypeCorrect == Spec => []TypeOK
<1>1. IInv => TypeOK
  BY DEF IInv
<1> QED
  BY <1>1, Invariance, PTL

(* However many threads race for the Singleton, one constructs it and none     *)
(* leaves the constructor before it is there.                                *)
THEOREM OneIsBuilt == Spec => []OneInstance
<1>1. IInv => OneInstance
  BY DEF IInv, TypeOK, OneWinner, Statics, UsersFindIt, OneInstance, Winners
<1> QED
  BY <1>1, Invariance, PTL

(* The server runs into no undefined behaviour of Singleton and Factory with    *)
(* any number of workers, and no program uses a dead instance before exit.    *)
THEOREM ServerIsSafe == Spec => []FaultsHaveACause
<1>1. IInv => FaultsHaveACause
  BY DEF IInv
<1> QED
  BY <1>1, Invariance, PTL
=============================================================================
