------------------------------ MODULE Singleton ------------------------------
(***************************************************************************)
(* Singleton<Factory<...>>: the construction of the one instance by          *)
(* whichever thread comes first, its use through operator->, and CleanUp at   *)
(* exit; with the Factory's table of creators as the instance's state.       *)
(*                                                                         *)
(* Two programs are modelled.  In the "server", atlas_iots, the main thread   *)
(* constructs the Singleton in RequestDispatcher's constructor, adds the two  *)
(* creators, and only then do workers exist; it calls exit before that or     *)
(* never.  In the "library" threads do all this whenever they like.          *)
(*                                                                         *)
(* Grain.  Each access to the statics is a step, and a Singleton object is    *)
(* made for each use.  What follows undefined behaviour is not modelled: the  *)
(* program stops with a fault.                                               *)
(***************************************************************************)
EXTENDS Integers, FiniteSets

CONSTANTS
  Boss,     (* the main thread                                              *)
  Workers,  (* the threads of the pool                                      *)
  Keys,     (* what RequestDispatcher adds creators for                     *)
  Unknown   (* a key nobody adds                                            *)

ASSUME SingletonAssumption ==
  /\ IsFiniteSet(Workers) /\ Boss \notin Workers
  /\ Keys # {} /\ Unknown \notin Keys

Threads == Workers \cup {Boss}

VARIABLES
  program,    (* "server" or "library"                                      *)
  instance,   (* m_instance: Null, an instance by its number, or Beef       *)
  started,    (* ctor_started                                               *)
  built,      (* instances constructed so far                               *)
  handlers,   (* how many times CleanUp is registered with atexit           *)
  deleted,    (* instances deleted                                          *)
  pc,         (* [Threads -> where the thread stands]                       *)
  ptr,        (* [Threads -> what operator-> returned]                      *)
  creators,   (* keys of m_creators                                         *)
  changing,   (* an insertion into m_creators is under way                  *)
  fault       (* the undefined behaviour the program ran into, or "none"    *)

staticVars  == <<instance, started, built, handlers, deleted>>
factoryVars == <<creators, changing>>
vars == <<program, staticVars, pc, ptr, factoryVars, fault>>

Null == 0
Beef == -1

Init ==
  /\ program \in {"server", "library"}
  /\ instance = Null /\ started = FALSE
  /\ built = 0 /\ handlers = 0 /\ deleted = {}
  /\ pc = [t \in Threads |-> "idle"] /\ ptr = [t \in Threads |-> Null]
  /\ creators = {} /\ changing = FALSE /\ fault = "none"

(* exit ends the threads once it has called the handlers.                    *)
Running == fault = "none" /\ pc[Boss] # "ended"

At(t, l)     == Running /\ pc[t] = l
Goto(t, l)   == pc' = [pc EXCEPT ![t] = l]
Fault(f)     == fault' = f /\ UNCHANGED <<program, staticVars, pc, ptr, factoryVars>>

----------------------------------------------------------------------------
(* The constructor.                                                          *)

(* Mutant of MayStart: the pool is there before the dispatcher.               *)
MayStart_Early(t) == TRUE

(* The server's workers exist once RequestDispatcher is constructed.         *)
MayStart(t) ==
  program = "server" => IF t = Boss THEN creators # Keys ELSE creators = Keys /\ ~changing

(* The first test is a plain read.                                           *)
Construct(t) ==
  /\ At(t, "idle") /\ MayStart(t)
  /\ Goto(t, IF instance = Null THEN "test" ELSE "made")
  /\ UNCHANGED <<program, staticVars, ptr, factoryVars, fault>>

(* Mutant of TestAndSet: the flag is set when the instance is stored.         *)
TestAndSet_Late(t) ==
  /\ At(t, "test")
  /\ started' = (instance # Null)
  /\ Goto(t, IF started THEN "spin" ELSE "new")
  /\ UNCHANGED <<program, instance, built, handlers, deleted, ptr, factoryVars, fault>>

TestAndSet(t) ==
  /\ At(t, "test")
  /\ started' = TRUE
  /\ Goto(t, IF started THEN "spin" ELSE "new")
  /\ UNCHANGED <<program, instance, built, handlers, deleted, ptr, factoryVars, fault>>

NewT(t) ==
  /\ At(t, "new")
  /\ built' = built + 1
  /\ Goto(t, "store")
  /\ UNCHANGED <<program, instance, started, handlers, deleted, ptr, factoryVars, fault>>

(* new, or T's constructor, throws; nothing resets ctor_started.              *)
NewThrows(t) ==
  /\ At(t, "new")
  /\ Goto(t, "threw")
  /\ UNCHANGED <<program, staticVars, ptr, factoryVars, fault>>

Store(t) ==
  /\ At(t, "store")
  /\ instance' = built
  /\ Goto(t, "atexit")
  /\ UNCHANGED <<program, started, built, handlers, deleted, ptr, factoryVars, fault>>

AtExit(t) ==
  /\ At(t, "atexit")
  /\ handlers' = handlers + 1
  /\ Goto(t, "made")
  /\ UNCHANGED <<program, instance, started, built, deleted, ptr, factoryVars, fault>>

(* Mutant of Spin: the loser waits for the pointer to be null.                *)
Spin_Null(t) ==
  /\ At(t, "spin") /\ instance = Null
  /\ Goto(t, "made")
  /\ UNCHANGED <<program, staticVars, ptr, factoryVars, fault>>

(* The loser of the race leaves its loop.                                    *)
Spin(t) ==
  /\ At(t, "spin") /\ instance # Null
  /\ Goto(t, "made")
  /\ UNCHANGED <<program, staticVars, ptr, factoryVars, fault>>

----------------------------------------------------------------------------
(* Use of the instance.                                                      *)

Arrow(t) ==
  /\ At(t, "made")
  /\ ptr' = [ptr EXCEPT ![t] = instance]
  /\ Goto(t, "call")
  /\ UNCHANGED <<program, staticVars, factoryVars, fault>>

Usable(p) == p \notin {Null, Beef} /\ p \notin deleted

Returns(t) == Goto(t, "idle") /\ ptr' = [ptr EXCEPT ![t] = Null]

(* Factory::Add: m_creators[key] may insert, and so rehash.                  *)
Add ==
  /\ At(Boss, "call")
  /\ \/ ~Usable(ptr[Boss]) /\ Fault("no_instance")
     \/ /\ Usable(ptr[Boss])
        /\ changing' = TRUE
        /\ Goto(Boss, "adding")
        /\ UNCHANGED <<program, staticVars, ptr, creators, fault>>

AddReturns ==
  /\ At(Boss, "adding")
  /\ \/ ~Usable(ptr[Boss]) /\ Fault("no_instance")
     \/ /\ Usable(ptr[Boss])
        /\ \E key \in Keys : creators' = creators \cup {key}
        /\ changing' = FALSE
        /\ Returns(Boss)
        /\ UNCHANGED <<program, staticVars, fault>>

(* Factory::Create calls what it finds for the key, a null pointer that        *)
(* operator[] inserts if there is nothing.  The server's workers ask for the   *)
(* type of a request with data, and the kernel sends no other than the two,   *)
(* because NbdDevOpen does not announce any.                                 *)
Create(t) ==
  /\ At(t, "call")
  /\ \E key \in Keys \cup {Unknown} :
       /\ program = "server" => key # Unknown
       /\ \/ ~Usable(ptr[t]) /\ Fault("no_instance")
          \/ Usable(ptr[t]) /\ changing /\ Fault("race")
          \/ Usable(ptr[t]) /\ ~changing /\ key \notin creators /\ Fault("no_creator")
          \/ /\ Usable(ptr[t]) /\ ~changing /\ key \in creators
             /\ Returns(t)
             /\ UNCHANGED <<program, staticVars, factoryVars, fault>>

----------------------------------------------------------------------------
(* exit: CleanUp deletes the instance, then overwrites the pointer, for each  *)
(* time it is registered.                                                    *)

Exit ==
  /\ At(Boss, "idle")
  /\ program = "server" => instance = Null
  /\ Goto(Boss, "exit")
  /\ UNCHANGED <<program, staticVars, ptr, factoryVars, fault>>

CleanUp ==
  /\ At(Boss, "exit") /\ handlers > 0
  /\ \/ ~Usable(instance) /\ Fault("no_instance")
     \/ /\ Usable(instance)
        /\ deleted' = deleted \cup {instance}
        /\ Goto(Boss, "deleted")
        /\ UNCHANGED <<program, instance, started, built, handlers, ptr, factoryVars, fault>>

CleanUpReturns ==
  /\ At(Boss, "deleted")
  /\ instance' = Beef
  /\ handlers' = handlers - 1
  /\ Goto(Boss, "exit")
  /\ UNCHANGED <<program, started, built, deleted, ptr, factoryVars, fault>>

ExitEnds ==
  /\ At(Boss, "exit") /\ handlers = 0
  /\ Goto(Boss, "ended")
  /\ UNCHANGED <<program, staticVars, ptr, factoryVars, fault>>

----------------------------------------------------------------------------
Constructs(t) ==
  TestAndSet(t) \/ NewT(t) \/ NewThrows(t) \/ Store(t) \/ AtExit(t) \/ Spin(t)

Next ==
  \/ \E t \in Threads : Construct(t) \/ Constructs(t) \/ Arrow(t)
  \/ Add \/ AddReturns
  \/ \E w \in Workers : Create(w)
  \/ Exit \/ CleanUp \/ CleanUpReturns \/ ExitEnds

(* A thread inside the constructor goes on.                                  *)
Spec == Init /\ [][Next]_vars /\ \A t \in Threads : WF_vars(Constructs(t))
----------------------------------------------------------------------------
(* Properties.                                                               *)

(* What the variables range over.  The constructor registers CleanUp for the  *)
(* instance it stored, and for no other.                                     *)
TypeOK ==
  /\ program \in {"server", "library"}
  /\ instance \in {Null, 1, Beef} /\ started \in BOOLEAN /\ built \in {0, 1}
  /\ handlers \in {0, 1} /\ deleted \subseteq {1}
  /\ pc \in [Threads -> {"idle", "test", "new", "threw", "store", "atexit", "spin", "made",
                         "call", "adding", "exit", "deleted", "ended"}]
  /\ ptr \in [Threads -> {Null, 1, Beef}]
  /\ creators \subseteq Keys /\ changing \in BOOLEAN
  /\ fault \in {"none", "no_instance", "race", "no_creator"}

(* One thread constructs, and whoever leaves the constructor finds an          *)
(* instance whose construction is over, the winner's as well as the losers'.  *)
OneInstance ==
  /\ \A t, u \in Threads :
       pc[t] \in {"new", "store", "threw"} /\ pc[u] \in {"new", "store", "threw"} => t = u
  /\ \A t \in Threads : pc[t] \in {"made", "call", "adding"} => instance # Null /\ built = 1
  /\ \A t \in Threads : pc[t] = "call" => ptr[t] # Null

(* The order in which atlas_iots sets itself up keeps it from every undefined  *)
(* behaviour of the two classes; elsewhere, a dead instance is met only after  *)
(* the main thread has begun to exit.                                        *)
FaultsHaveACause ==
  /\ program = "server" => fault = "none"
  /\ fault = "no_instance" => pc[Boss] \in {"exit", "deleted"}

(* Whoever enters the constructor leaves it, unless new has thrown in the       *)
(* thread it waits for, or the program ends.                                 *)
EveryoneGetsIt ==
  \A t \in Threads :
    pc[t] \in {"test", "spin"} ~> \/ pc[t] = "made" \/ ~Running
                                  \/ \E u \in Threads : pc[u] = "threw"
=============================================================================
