------------------------------ MODULE Observer -------------------------------
(***************************************************************************)
(* Dispatcher and Callback of observer.hpp, with the Function a Callback     *)
(* calls.  One thread uses them; the code of a callback that Notify runs may *)
(* itself do anything a user may, so every operation may come between two    *)
(* steps of a Notify's loop, and Notifies nest.                              *)
(*                                                                         *)
(* A Callback is named by its address, which is what std::set orders them    *)
(* by.  It is a member of the object its Function is bound to, as in         *)
(* observer_test.cpp, so the two live and die together.  What follows         *)
(* undefined behaviour is not modelled: the program stops with a fault.      *)
(***************************************************************************)
EXTENDS Integers, Sequences, FiniteSets, FiniteSetsExt

CONSTANTS
  Dispatchers,
  Callbacks,   (* addresses                                                 *)
  MaxDepth     (* bound: Notifies in progress                               *)

Null  == "null"
Unset == "unset"

ASSUME ObserverAssumption ==
  /\ {Null, Unset} \cap Dispatchers = {}
  /\ Callbacks \subseteq Nat \ {0} /\ IsFiniteSet(Callbacks) /\ Callbacks # {}
  /\ MaxDepth \in Nat

VARIABLES
  up,          (* the dispatchers that exist                                *)
  alive,       (* the callbacks that exist                                  *)
  fresh,       (* callbacks not yet constructed                             *)
  function,    (* [Callbacks -> what its m_function calls]                  *)
  subscribers, (* [Dispatchers -> m_subscribers]                            *)
  dispatcher,  (* [Callbacks -> m_dispatcher]                               *)
  stack,       (* the Notifies in progress, innermost first                 *)
  fault,       (* the undefined behaviour the program ran into, or "none"   *)
  misuse       (* history: rules of use, below, that were broken            *)

vars == <<up, alive, fresh, function, subscribers, dispatcher, stack, fault, misuse>>

(* A Function<void(EVENT)> holds nothing, a FreeFunction, or a MemberFunction *)
(* and so an object, here named by the object's Callback.  Copies share it.  *)
Empty   == -1
Free    == 0
Targets == Callbacks \cup {Free, Empty}

(* The Functions that the object which will hold Callback c can make for it.  *)
Function(c) == {Empty, Free, c}

(* The end of a set's elements, for its iterators.                           *)
End == 1 + Max(Callbacks)

Running     == fault = "none"
Misused(r)  == misuse' = misuse \cup r
Fault(f)    == fault' = f /\ UNCHANGED <<up, alive, fresh, function, subscribers, dispatcher, stack, misuse>>

Init ==
  /\ up = Dispatchers /\ alive = {} /\ fresh = Callbacks
  /\ function = [c \in Callbacks |-> Empty]
  /\ subscribers = [d \in Dispatchers |-> {}]
  /\ dispatcher = [c \in Callbacks |-> Unset]
  /\ stack = <<>> /\ fault = "none" /\ misuse = {}

----------------------------------------------------------------------------
(* Callbacks.                                                                *)

(* The constructor copies the Function and leaves m_dispatcher as it is.     *)
NewCallback(c) ==
  /\ Running /\ c \in fresh
  /\ alive' = alive \cup {c} /\ fresh' = fresh \ {c}
  /\ \E f \in Function(c) : function' = [function EXCEPT ![c] = f]
  /\ Misused(IF function'[c] = Empty THEN {"empty"} ELSE {})
  /\ UNCHANGED <<up, subscribers, dispatcher, stack, fault>>

(* The copy constructor the compiler writes: the copy calls the same object   *)
(* and has the same m_dispatcher, which does not know it.                    *)
CopyCallback(b, c) ==
  /\ Running /\ b \in alive /\ c \in fresh
  /\ alive' = alive \cup {c} /\ fresh' = fresh \ {c}
  /\ function' = [function EXCEPT ![c] = function[b]]
  /\ dispatcher' = [dispatcher EXCEPT ![c] = dispatcher[b]]
  /\ Misused({"copy"})
  /\ UNCHANGED <<up, subscribers, stack, fault>>

(* The iterators that stand on c in d's set are invalid once it is erased,    *)
(* and nobody who was removed is still due to be called.                     *)
Erased(d, c) ==
  [k \in DOMAIN stack |->
     IF stack[k].d # d THEN stack[k]
     ELSE [stack[k] EXCEPT !.due = @ \ {c}, !.valid = @ /\ stack[k].at # c]]

VisitedNow(d, c) == \E k \in DOMAIN stack : stack[k].d = d /\ stack[k].at = c

(* Mutant of DisConnect: the pointer stays.                                   *)
DisConnect_Not(c) == dispatcher' = dispatcher

DisConnect(c) == dispatcher' = [dispatcher EXCEPT ![c] = Null]

BindDispatcher(c, d) == dispatcher' = [dispatcher EXCEPT ![c] = d]

(* Dispatcher::Remove: erase, and DisConnect whoever c is bound to.          *)
Remove(d, c) ==
  /\ subscribers' = [subscribers EXCEPT ![d] = @ \ {c}]
  /\ stack' = Erased(d, c)
  /\ DisConnect(c)

BadRemoval(d, c) ==
  (IF VisitedNow(d, c) THEN {"visited"} ELSE {}) \cup
  (IF dispatcher[c] # d THEN {"notmine"} ELSE {})

(* ~Callback asks its dispatcher to remove it, whatever m_dispatcher is.     *)
DeleteCallback(c) ==
  /\ Running /\ c \in alive
  /\ \/ /\ dispatcher[c] \notin up
        /\ Fault(IF dispatcher[c] \in {Null, Unset} THEN "no_dispatcher" ELSE "dead_dispatcher")
     \/ /\ dispatcher[c] \in up
        /\ Remove(dispatcher[c], c)
        /\ alive' = alive \ {c}
        /\ Misused(BadRemoval(dispatcher[c], c))
        /\ UNCHANGED <<up, fresh, function, fault>>

----------------------------------------------------------------------------
(* Dispatchers.                                                              *)

Add(d, c) ==
  /\ Running /\ c \in alive /\ d \in up
  /\ subscribers' = [subscribers EXCEPT ![d] = @ \cup {c}]
  /\ BindDispatcher(c, d)
  /\ Misused(IF dispatcher[c] \in Dispatchers \ {d} THEN {"two"} ELSE {})
  /\ UNCHANGED <<up, alive, fresh, function, stack, fault>>

UserRemoves(d, c) ==
  /\ Running /\ c \in alive /\ d \in up
  /\ Remove(d, c)
  /\ Misused(BadRemoval(d, c))
  /\ UNCHANGED <<up, alive, fresh, function, fault>>

(* Mutant of DisConnected: there is no destructor.                            *)
DisConnected_Nobody(d) == dispatcher

DisConnected(d) ==
  [c \in Callbacks |-> IF c \in subscribers[d] THEN Null ELSE dispatcher[c]]

(* ~Dispatcher disconnects every subscriber.                                 *)
DeleteDispatcher(d) ==
  /\ Running /\ d \in up
  /\ \/ ~(subscribers[d] \subseteq alive) /\ Fault("dead_subscriber")
     \/ /\ subscribers[d] \subseteq alive
        /\ dispatcher' = DisConnected(d)
        /\ up' = up \ {d}
        /\ subscribers' = [subscribers EXCEPT ![d] = {}]
        /\ stack' = [k \in DOMAIN stack |->
                       IF stack[k].d = d THEN [stack[k] EXCEPT !.valid = FALSE] ELSE stack[k]]
        /\ Misused(IF \E k \in DOMAIN stack : stack[k].d = d THEN {"visited"} ELSE {})
        /\ UNCHANGED <<alive, fresh, function, fault>>

(* Mutant of Following: the loop starts behind, or goes on to, the element    *)
(* after the next.                                                           *)
Following_Skips(d, c) ==
  LET later == {x \in subscribers[d] : x > c + 1} IN IF later = {} THEN End ELSE Min(later)

(* Where an iterator of d's set that stood on c (0 for before the first) is   *)
(* after a step.                                                             *)
Following(d, c) ==
  LET later == {x \in subscribers[d] : x > c} IN IF later = {} THEN End ELSE Min(later)

(* What the call through m_function of the subscriber at c runs into.         *)
Run(c) ==
  IF c = End THEN "none"
  ELSE IF c \notin alive THEN "dead_subscriber"
  ELSE IF function[c] = Empty THEN "empty_function"
  ELSE IF function[c] # Free /\ function[c] \notin alive THEN "dead_object"
  ELSE "none"

(* The subscriber at c has been called, and is not due any more.              *)
Visit(frame, c) ==
  [frame EXCEPT !.at = c, !.due = @ \ {c}]

Notify(d) ==
  LET first == Following(d, 0) IN
  /\ Running /\ d \in up /\ Len(stack) < MaxDepth
  /\ \/ Run(first) # "none" /\ Fault(Run(first))
     \/ /\ Run(first) = "none"
        /\ stack' = <<Visit([d |-> d, at |-> 0, valid |-> TRUE,
                             due |-> subscribers[d]], first)>> \o stack
        /\ UNCHANGED <<up, alive, fresh, function, subscribers, dispatcher, fault, misuse>>

(* The callback returns and the loop goes on.                                *)
CallbackReturns ==
  LET top  == Head(stack)
      next == Following(top.d, top.at)
  IN
  /\ Running /\ stack # <<>> /\ top.at # End
  /\ \/ ~top.valid /\ Fault("dead_iterator")
     \/ top.valid /\ Run(next) # "none" /\ Fault(Run(next))
     \/ /\ top.valid /\ Run(next) = "none"
        /\ stack' = [stack EXCEPT ![1] = Visit(top, next)]
        /\ UNCHANGED <<up, alive, fresh, function, subscribers, dispatcher, fault, misuse>>

NotifyReturns ==
  /\ Running /\ stack # <<>> /\ Head(stack).at = End
  /\ stack' = Tail(stack)
  /\ UNCHANGED <<up, alive, fresh, function, subscribers, dispatcher, fault, misuse>>

Next ==
  \/ \E c \in Callbacks : NewCallback(c) \/ DeleteCallback(c)
  \/ \E b, c \in Callbacks : CopyCallback(b, c)
  \/ \E d \in Dispatchers, c \in Callbacks : Add(d, c) \/ UserRemoves(d, c)
  \/ \E d \in Dispatchers : DeleteDispatcher(d) \/ Notify(d)
  \/ CallbackReturns \/ NotifyReturns

Spec == Init /\ [][Next]_vars
----------------------------------------------------------------------------
(* Properties.                                                               *)

Frames == [d : Dispatchers, at : Callbacks \cup {End}, valid : BOOLEAN, due : SUBSET Callbacks]

(* What the variables range over.                                            *)
TypeOK ==
  /\ up \subseteq Dispatchers /\ alive \subseteq Callbacks
  /\ fresh \subseteq Callbacks \ alive
  /\ function \in [Callbacks -> Targets]
  /\ subscribers \in [Dispatchers -> SUBSET Callbacks]
  /\ dispatcher \in [Callbacks -> Dispatchers \cup {Null, Unset}]
  /\ stack \in Seq(Frames) /\ Len(stack) <= MaxDepth
  /\ fault \in {"none", "no_dispatcher", "dead_dispatcher", "dead_subscriber",
                "empty_function", "dead_object", "dead_iterator"}
  /\ misuse \subseteq {"empty", "copy", "visited", "notmine", "two"}

(* The two sides of a subscription agree: whoever is in a dispatcher's set    *)
(* exists and points back at it, and nobody else does.  It takes a copied     *)
(* Callback, one added to a second dispatcher, or one removed from a          *)
(* dispatcher it was not added to, to break it.                              *)
SubscriptionsAgree ==
  misuse \cap {"copy", "two", "notmine"} = {} =>
    \A c \in Callbacks, d \in Dispatchers :
      c \in subscribers[d] <=> c \in alive /\ dispatcher[c] = d

(* Each undefined behaviour takes a certain misuse, except that of ~Callback,  *)
(* which any Callback runs into that was not added to a dispatcher, was       *)
(* removed from it or outlives it.                                           *)
FaultsHaveACause ==
  /\ fault = "empty_function" => "empty" \in misuse
  /\ fault = "dead_object" => "copy" \in misuse
  /\ fault = "dead_iterator" => "visited" \in misuse
  /\ fault = "dead_dispatcher" => "copy" \in misuse
  /\ fault = "dead_subscriber" => misuse \cap {"copy", "two", "notmine"} # {}

(* Whatever the callbacks do meanwhile, a Notify has called everybody its      *)
(* iterator has passed who was subscribed all the time, and so at its end     *)
(* everybody who was.                                                        *)
NotifyReachesAll == \A k \in DOMAIN stack : \A c \in stack[k].due : c > stack[k].at
=============================================================================
