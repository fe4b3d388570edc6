--------------------------- MODULE ObserverProofs ---------------------------
(***************************************************************************)
(* Theorems about Observer, for any number of dispatchers, callbacks and     *)
(* nested Notifies.  The argument: IInv holds initially and every action      *)
(* preserves it (one lemma per action); the properties are parts of it.      *)
(***************************************************************************)
EXTENDS Observer, WellFoundedInduction, TLAPS

----------------------------------------------------------------------------
(* The inductive invariant.                                                  *)

FreshUnbound == \A c \in fresh : dispatcher[c] = Unset

(* A Callback that was not copied is bound to a dispatcher that exists and    *)
(* has it in its set.                                                        *)
BoundIsSubscribed ==
  "copy" \notin misuse =>
    \A c \in alive : dispatcher[c] \in Dispatchers =>
                       dispatcher[c] \in up /\ c \in subscribers[dispatcher[c]]

(* What a Callback's Function is.                                            *)
EmptyIsMisuse == \A c \in alive : function[c] = Empty => "empty" \in misuse
OwnObject     == "copy" \notin misuse => \A c \in alive : function[c] \in Function(c)

(* A Notify whose iterator is valid is due to call subscribers only.          *)
InvalidIsMisuse  == \A k \in DOMAIN stack : ~stack[k].valid => "visited" \in misuse
DueAreSubscribed ==
  \A k \in DOMAIN stack : stack[k].valid => stack[k].due \subseteq subscribers[stack[k].d]

IInv ==
  /\ TypeOK
  /\ FreshUnbound
  /\ SubscriptionsAgree
  /\ BoundIsSubscribed
  /\ EmptyIsMisuse
  /\ OwnObject
  /\ InvalidIsMisuse
  /\ DueAreSubscribed
  /\ NotifyReachesAll
  /\ FaultsHaveACause

----------------------------------------------------------------------------
(* Iterators and frames.                                                     *)

(* A set of natural numbers has a least one.                                 *)
LEMMA LeastNatural ==
  ASSUME NEW T, T \subseteq Nat, T # {}
  PROVE  \E m \in T : \A x \in T : m <= x
<1> DEFINE less == {ss \in Nat \X Nat : ss[1] < ss[2]}
<1>1. OpToRel(<, Nat) = less
  BY DEF OpToRel
<1> HIDE DEF less
<1>2. IsWellFoundedOn(less, Nat)
  BY <1>1, NatLessThanWellFounded
<1>3. PICK m \in T : \A y \in T : ~ (<<y, m>> \in less)
  BY <1>2, WFMin
<1>4. \A y \in T : m <= y
  <2> SUFFICES ASSUME NEW y \in T PROVE m <= y
    OBVIOUS
  <2>1. ~ (<<y, m>> \in less)
    BY <1>3
  <2> QED
    BY <2>1 DEF less
<1> QED
  BY <1>4

(* Where the loop of Notify goes next.                                       *)
LEMMA FollowingIsNext ==
  ASSUME TypeOK, NEW d \in Dispatchers, NEW c \in Nat
  PROVE  /\ Following(d, c) \in Callbacks \cup {End}
         /\ Following(d, c) = End \/ Following(d, c) \in subscribers[d]
         /\ \A x \in subscribers[d] : x > c /\ x # Following(d, c) => x > Following(d, c)
<1> DEFINE later == {x \in subscribers[d] : x > c}
<1>1. subscribers[d] \subseteq Callbacks /\ Callbacks \subseteq Nat
  BY ObserverAssumption DEF TypeOK
<1>2. CASE later = {}
  BY <1>1, <1>2 DEF Following
<1>3. CASE later # {}
  <2>1. Min(later) \in later /\ \A x \in later : Min(later) <= x
    <3>1. \E m \in later : \A x \in later : m <= x
      BY <1>1, <1>3, LeastNatural
    <3> QED
      BY <3>1 DEF Min
  <2>2. Following(d, c) = Min(later)
    BY <1>3 DEF Following
  <2>3. \A x \in later : x \in Nat
    BY <1>1
  <2> HIDE DEF later
  <2>4. Following(d, c) \in later /\ \A x \in later : x # Following(d, c) => x > Following(d, c)
    BY <2>1, <2>2, <2>3
  <2> QED
    BY <2>4, <1>1 DEF later
<1> QED
  BY <1>2, <1>3

(* The stack after an erasure: the same Notifies at the same places, due to   *)
(* call fewer.                                                               *)
LEMMA ErasedStack ==
  ASSUME TypeOK, NEW d \in Dispatchers, NEW c \in Callbacks
  PROVE  /\ Erased(d, c) \in Seq(Frames)
         /\ Len(Erased(d, c)) = Len(stack)
         /\ DOMAIN Erased(d, c) = DOMAIN stack
         /\ \A k \in DOMAIN stack :
              /\ Erased(d, c)[k].d = stack[k].d /\ Erased(d, c)[k].at = stack[k].at
              /\ Erased(d, c)[k].due \subseteq stack[k].due
              /\ stack[k].d = d => c \notin Erased(d, c)[k].due
              /\ Erased(d, c)[k].valid = (stack[k].valid /\ ~(stack[k].d = d /\ stack[k].at = c))
<1> DEFINE e == Erased(d, c)
<1>1. Len(stack) \in Nat /\ DOMAIN stack = 1 .. Len(stack)
  BY DEF TypeOK
<1>2. \A k \in DOMAIN stack : stack[k] \in Frames
  BY <1>1 DEF TypeOK
<1>3. DOMAIN e = DOMAIN stack
  BY DEF Erased
<1>4. ASSUME NEW k \in DOMAIN stack
      PROVE  /\ e[k] \in Frames
             /\ e[k].d = stack[k].d /\ e[k].at = stack[k].at
             /\ e[k].due \subseteq stack[k].due
             /\ stack[k].d = d => c \notin e[k].due
             /\ e[k].valid = (stack[k].valid /\ ~(stack[k].d = d /\ stack[k].at = c))
  <2>1. stack[k] \in Frames
    BY <1>2
  <2>2. CASE stack[k].d # d
    <3>1. e[k] = stack[k]
      BY <2>2 DEF Erased
    <3> QED
      BY <2>1, <2>2, <3>1 DEF Frames
  <2>3. CASE stack[k].d = d
    <3>1. e[k] = [stack[k] EXCEPT !.due = stack[k].due \ {c},
                                  !.valid = stack[k].valid /\ stack[k].at # c]
      BY <2>3 DEF Erased
    <3> QED
      BY <2>1, <2>3, <3>1 DEF Frames
  <2> QED
    BY <2>2, <2>3
<1>5. e \in Seq(Frames) /\ Len(e) = Len(stack)
  <2>1. e = [k \in 1 .. Len(stack) |-> e[k]]
    BY <1>1 DEF Erased
  <2> HIDE DEF e
  <2> QED
    BY <1>1, <1>3, <1>4, <2>1
<1> QED
  BY <1>3, <1>4, <1>5

----------------------------------------------------------------------------
(* Each action preserves the invariant.                                      *)

(* The program stops with a fault that has its cause.                        *)
CauseOf(f) ==
  /\ f \in {"no_dispatcher", "dead_dispatcher", "dead_subscriber",
            "empty_function", "dead_object", "dead_iterator"}
  /\ f = "empty_function" => "empty" \in misuse
  /\ f = "dead_object" => "copy" \in misuse
  /\ f = "dead_iterator" => "visited" \in misuse
  /\ f = "dead_dispatcher" => "copy" \in misuse
  /\ f = "dead_subscriber" => misuse \cap {"copy", "two", "notmine"} # {}

LEMMA FaultStep ==
  ASSUME IInv, NEW f, CauseOf(f), Fault(f)
  PROVE  IInv'
<1>1. /\ fault' = f
      /\ UNCHANGED <<up, alive, fresh, function, subscribers, dispatcher, stack, misuse>>
  BY DEF Fault
<1>2. TypeOK'
  BY <1>1 DEF IInv, TypeOK, CauseOf
<1>3. FaultsHaveACause'
  BY <1>1 DEF FaultsHaveACause, CauseOf
<1> QED
  BY <1>1, <1>2, <1>3 DEF IInv, FreshUnbound, SubscriptionsAgree, BoundIsSubscribed,
     EmptyIsMisuse, OwnObject, Function, InvalidIsMisuse, DueAreSubscribed, NotifyReachesAll

LEMMA InitHolds == Init => IInv
<1> SUFFICES ASSUME Init PROVE IInv
  OBVIOUS
<1>1. stack \in Seq(Frames) /\ Len(stack) = 0 /\ DOMAIN stack = {}
  BY DEF Init
<1>2. TypeOK
  BY <1>1, ObserverAssumption DEF Init, TypeOK, Targets
<1>3. SubscriptionsAgree
  BY ObserverAssumption DEF Init, SubscriptionsAgree
<1> QED
  BY <1>1, <1>2, <1>3 DEF Init, IInv, FreshUnbound, BoundIsSubscribed, EmptyIsMisuse,
     OwnObject, InvalidIsMisuse, DueAreSubscribed, NotifyReachesAll, FaultsHaveACause

LEMMA NewCallbackKeeps ==
  ASSUME IInv, NEW c \in Callbacks, NewCallback(c)
  PROVE  IInv'
<1> PICK f \in Function(c) : function' = [function EXCEPT ![c] = f]
  BY DEF NewCallback
<1>1. /\ c \in fresh /\ c \notin alive /\ dispatcher[c] = Unset
      /\ alive' = alive \cup {c} /\ fresh' = fresh \ {c}
      /\ UNCHANGED <<up, subscribers, dispatcher, stack, fault>>
      /\ misuse' = misuse \cup (IF function'[c] = Empty THEN {"empty"} ELSE {})
  BY DEF NewCallback, Misused, IInv, FreshUnbound, TypeOK
<1>2. f \in Targets
  BY DEF Function, Targets
<1>3. function'[c] = f /\ \A b \in Callbacks : b # c => function'[b] = function[b]
  BY DEF IInv, TypeOK
<1>4. TypeOK'
  BY <1>1, <1>2 DEF IInv, TypeOK
<1>5. SubscriptionsAgree'
  BY <1>1, ObserverAssumption DEF IInv, SubscriptionsAgree
<1>6. FreshUnbound' /\ BoundIsSubscribed'
  BY <1>1, ObserverAssumption DEF IInv, FreshUnbound, BoundIsSubscribed
<1>7. EmptyIsMisuse' /\ OwnObject'
  BY <1>1, <1>3 DEF IInv, TypeOK, EmptyIsMisuse, OwnObject, Function
<1>8. InvalidIsMisuse' /\ DueAreSubscribed' /\ NotifyReachesAll'
  BY <1>1 DEF IInv, InvalidIsMisuse, DueAreSubscribed, NotifyReachesAll
<1>9. FaultsHaveACause'
  BY <1>1 DEF IInv, FaultsHaveACause
<1> QED
  BY <1>4, <1>5, <1>6, <1>7, <1>8, <1>9 DEF IInv

LEMMA CopyCallbackKeeps ==
  ASSUME IInv, NEW b \in Callbacks, NEW c \in Callbacks, CopyCallback(b, c)
  PROVE  IInv'
<1>1. /\ b \in alive /\ c \in fresh /\ c \notin alive
      /\ alive' = alive \cup {c} /\ fresh' = fresh \ {c}
      /\ function' = [function EXCEPT ![c] = function[b]]
      /\ dispatcher' = [dispatcher EXCEPT ![c] = dispatcher[b]]
      /\ UNCHANGED <<up, subscribers, stack, fault>>
      /\ misuse' = misuse \cup {"copy"}
  BY DEF CopyCallback, Misused, IInv, TypeOK
<1>2. /\ function'[c] = function[b] /\ \A a \in Callbacks : a # c => function'[a] = function[a]
      /\ \A a \in Callbacks : a # c => dispatcher'[a] = dispatcher[a]
  BY <1>1 DEF IInv, TypeOK
<1>3. TypeOK'
  BY <1>1 DEF IInv, TypeOK
<1>4. SubscriptionsAgree' /\ BoundIsSubscribed' /\ OwnObject'
  BY <1>1 DEF SubscriptionsAgree, BoundIsSubscribed, OwnObject
<1>5. FreshUnbound' /\ EmptyIsMisuse'
  BY <1>1, <1>2 DEF IInv, TypeOK, FreshUnbound, EmptyIsMisuse
<1>6. InvalidIsMisuse' /\ DueAreSubscribed' /\ NotifyReachesAll'
  BY <1>1 DEF IInv, InvalidIsMisuse, DueAreSubscribed, NotifyReachesAll
<1>7. FaultsHaveACause'
  BY <1>1 DEF IInv, FaultsHaveACause
<1> QED
  BY <1>3, <1>4, <1>5, <1>6, <1>7 DEF IInv

(* A removal by the user, and one by ~Callback, which its own dispatcher does. *)
LEMMA RemovalKeeps ==
  ASSUME IInv, Running, NEW d \in up, NEW c \in alive,
         Remove(d, c), Misused(BadRemoval(d, c)),
         alive' = alive \/ alive' = alive \ {c},
         UNCHANGED <<up, fresh, function, fault>>
  PROVE  IInv'
<1> d \in Dispatchers /\ c \in Callbacks
  BY DEF IInv, TypeOK
<1>1. /\ subscribers' = [subscribers EXCEPT ![d] = subscribers[d] \ {c}]
      /\ stack' = Erased(d, c)
      /\ dispatcher' = [dispatcher EXCEPT ![c] = Null]
  BY DEF Remove, DisConnect
<1>2. misuse' = misuse \cup BadRemoval(d, c)
  BY DEF Misused
<1>3. /\ \A e \in Dispatchers : subscribers'[e] = IF e = d THEN subscribers[e] \ {c} ELSE subscribers[e]
      /\ \A a \in Callbacks : dispatcher'[a] = IF a = c THEN Null ELSE dispatcher[a]
  BY <1>1 DEF IInv, TypeOK
<1>4. /\ stack' \in Seq(Frames) /\ Len(stack') = Len(stack) /\ DOMAIN stack' = DOMAIN stack
      /\ \A k \in DOMAIN stack :
           /\ stack'[k].d = stack[k].d /\ stack'[k].at = stack[k].at
           /\ stack'[k].due \subseteq stack[k].due
           /\ stack[k].d = d => c \notin stack'[k].due
           /\ stack'[k].valid = (stack[k].valid /\ ~(stack[k].d = d /\ stack[k].at = c))
  BY <1>1, ErasedStack DEF IInv
<1>5. \A k \in DOMAIN stack : stack[k].d \in Dispatchers
  <2>1. \A k \in DOMAIN stack : stack[k] \in Frames
    BY DEF IInv, TypeOK
  <2> QED
    BY <2>1 DEF Frames
<1>6. TypeOK'
  <2>1. BadRemoval(d, c) \subseteq {"visited", "notmine"}
    BY DEF BadRemoval
  <2> QED
    BY <1>1, <1>2, <1>4, <2>1 DEF IInv, TypeOK
<1>7. FreshUnbound'
  BY <1>3 DEF IInv, TypeOK, FreshUnbound
<1>8. SubscriptionsAgree'
  <2> SUFFICES ASSUME misuse' \cap {"copy", "two", "notmine"} = {},
                      NEW a \in Callbacks, NEW e \in Dispatchers
               PROVE  a \in subscribers'[e] <=> a \in alive' /\ dispatcher'[a] = e
    BY DEF SubscriptionsAgree
  <2>1. misuse \cap {"copy", "two", "notmine"} = {} /\ dispatcher[c] = d
    BY <1>2 DEF BadRemoval
  <2>2. \A x \in Callbacks, y \in Dispatchers :
          x \in subscribers[y] <=> x \in alive /\ dispatcher[x] = y
    BY <2>1 DEF IInv, SubscriptionsAgree
  <2>3. a \in subscribers[e] <=> a \in alive /\ dispatcher[a] = e
    BY <2>2
  <2>4. CASE a = c
    BY <1>3, <2>1, <2>3, <2>4, ObserverAssumption
  <2>5. CASE a # c
    <3>1. a \in alive' <=> a \in alive
      BY <2>5
    <3> QED
      BY <1>3, <2>3, <2>5, <3>1
  <2> QED
    BY <2>4, <2>5
<1>9. BoundIsSubscribed'
  BY <1>2, <1>3, ObserverAssumption, ZenonT(40) DEF IInv, TypeOK, BoundIsSubscribed
<1>10. EmptyIsMisuse' /\ OwnObject'
  BY <1>2 DEF IInv, EmptyIsMisuse, OwnObject, Function
<1>11. InvalidIsMisuse'
  BY <1>2, <1>4 DEF IInv, InvalidIsMisuse, BadRemoval, VisitedNow
<1>12. DueAreSubscribed'
  <2> SUFFICES ASSUME NEW k \in DOMAIN stack, stack'[k].valid
               PROVE  stack'[k].due \subseteq subscribers'[stack'[k].d]
    BY <1>4 DEF DueAreSubscribed
  <2>1. stack[k].valid
    BY <1>4
  <2>2. stack[k].due \subseteq subscribers[stack[k].d]
    BY <2>1 DEF IInv, DueAreSubscribed
  <2>3. /\ stack'[k].d = stack[k].d /\ stack'[k].due \subseteq stack[k].due
        /\ stack[k].d = d => c \notin stack'[k].due
    BY <1>4
  <2>4. subscribers'[stack[k].d] =
          IF stack[k].d = d THEN subscribers[stack[k].d] \ {c} ELSE subscribers[stack[k].d]
    BY <1>3, <1>5
  <2> QED
    BY <2>2, <2>3, <2>4
<1>13. NotifyReachesAll'
  BY <1>4 DEF IInv, NotifyReachesAll
<1>14. FaultsHaveACause'
  BY DEF Running, FaultsHaveACause
<1> QED
  BY <1>6, <1>7, <1>8, <1>9, <1>10, <1>11, <1>12, <1>13, <1>14 DEF IInv

LEMMA UserRemovesKeeps ==
  ASSUME IInv, NEW d \in Dispatchers, NEW c \in Callbacks, UserRemoves(d, c)
  PROVE  IInv'
BY RemovalKeeps DEF UserRemoves

LEMMA DeleteCallbackKeeps ==
  ASSUME IInv, NEW c \in Callbacks, DeleteCallback(c)
  PROVE  IInv'
<1>1. CASE dispatcher[c] \in up
  BY <1>1, RemovalKeeps DEF DeleteCallback
<1>2. CASE dispatcher[c] \notin up
  <2> DEFINE f == IF dispatcher[c] \in {Null, Unset} THEN "no_dispatcher" ELSE "dead_dispatcher"
  <2>1. Fault(f) /\ c \in alive
    BY <1>2 DEF DeleteCallback
  <2>2. CauseOf(f)
    <3>1. dispatcher[c] \in Dispatchers \cup {Null, Unset}
      BY DEF IInv, TypeOK
    <3> QED
      BY <1>2, <2>1, <3>1 DEF CauseOf, IInv, BoundIsSubscribed
  <2> QED
    BY <2>1, <2>2, FaultStep
<1> QED
  BY <1>1, <1>2

LEMMA AddKeeps ==
  ASSUME IInv, NEW d \in Dispatchers, NEW c \in Callbacks, Add(d, c)
  PROVE  IInv'
<1>1. /\ Running /\ c \in alive /\ d \in up
      /\ subscribers' = [subscribers EXCEPT ![d] = subscribers[d] \cup {c}]
      /\ dispatcher' = [dispatcher EXCEPT ![c] = d]
      /\ misuse' = misuse \cup (IF dispatcher[c] \in Dispatchers \ {d} THEN {"two"} ELSE {})
      /\ UNCHANGED <<up, alive, fresh, function, stack, fault>>
  BY DEF Add, BindDispatcher, Misused
<1>2. /\ \A e \in Dispatchers :
           subscribers'[e] = IF e = d THEN subscribers[e] \cup {c} ELSE subscribers[e]
      /\ \A a \in Callbacks : dispatcher'[a] = IF a = c THEN d ELSE dispatcher[a]
  BY <1>1 DEF IInv, TypeOK
<1>3. TypeOK'
  BY <1>1 DEF IInv, TypeOK
<1>4. SubscriptionsAgree'
  BY <1>1, <1>2, ObserverAssumption DEF IInv, SubscriptionsAgree
<1>5. FreshUnbound' /\ BoundIsSubscribed'
  BY <1>1, <1>2 DEF IInv, TypeOK, FreshUnbound, BoundIsSubscribed
<1>6. EmptyIsMisuse' /\ OwnObject' /\ InvalidIsMisuse' /\ NotifyReachesAll'
  BY <1>1 DEF IInv, EmptyIsMisuse, OwnObject, Function, InvalidIsMisuse, NotifyReachesAll
<1>7. DueAreSubscribed'
  <2>1. \A k \in DOMAIN stack : stack[k] \in Frames
    BY DEF IInv, TypeOK
  <2>2. \A k \in DOMAIN stack : stack[k].d \in Dispatchers
    BY <2>1 DEF Frames
  <2> QED
    BY <1>1, <1>2, <2>2 DEF IInv, DueAreSubscribed
<1>8. FaultsHaveACause'
  BY <1>1 DEF Running, FaultsHaveACause
<1> QED
  BY <1>3, <1>4, <1>5, <1>6, <1>7, <1>8 DEF IInv

LEMMA DeleteDispatcherKeeps ==
  ASSUME IInv, NEW d \in Dispatchers, DeleteDispatcher(d)
  PROVE  IInv'
<1>1. CASE ~(subscribers[d] \subseteq alive)
  <2>1. Fault("dead_subscriber")
    BY <1>1 DEF DeleteDispatcher
  <2>2. subscribers[d] \subseteq Callbacks
    BY DEF IInv, TypeOK
  <2>3. CauseOf("dead_subscriber")
    BY <1>1, <2>2 DEF CauseOf, IInv, SubscriptionsAgree
  <2> QED
    BY <2>1, <2>3, FaultStep
<1>2. CASE subscribers[d] \subseteq alive
  <2>1. /\ Running /\ d \in up
        /\ dispatcher' = [c \in Callbacks |-> IF c \in subscribers[d] THEN Null ELSE dispatcher[c]]
        /\ up' = up \ {d}
        /\ subscribers' = [subscribers EXCEPT ![d] = {}]
        /\ misuse' = misuse \cup (IF \E k \in DOMAIN stack : stack[k].d = d THEN {"visited"} ELSE {})
        /\ UNCHANGED <<alive, fresh, function, fault>>
    BY <1>2 DEF DeleteDispatcher, DisConnected, Misused
  <2>2. stack' = [k \in DOMAIN stack |->
                    IF stack[k].d = d THEN [stack[k] EXCEPT !.valid = FALSE] ELSE stack[k]]
    BY <1>2 DEF DeleteDispatcher
  <2>3. /\ Len(stack) \in Nat /\ DOMAIN stack = 1 .. Len(stack) /\ DOMAIN stack' = DOMAIN stack
        /\ \A k \in DOMAIN stack : stack[k] \in Frames
    BY <2>2 DEF IInv, TypeOK
  <2>4. ASSUME NEW k \in DOMAIN stack
        PROVE  /\ stack'[k] \in Frames
               /\ stack'[k].d = stack[k].d /\ stack'[k].at = stack[k].at /\ stack'[k].due = stack[k].due
               /\ stack'[k].valid = (stack[k].valid /\ stack[k].d # d)
    <3>1. stack[k] \in Frames
      BY <2>3
    <3>2. CASE stack[k].d # d
      <4>1. stack'[k] = stack[k]
        BY <2>2, <3>2
      <4> QED
        BY <3>1, <3>2, <4>1 DEF Frames
    <3>3. CASE stack[k].d = d
      <4>1. stack'[k] = [stack[k] EXCEPT !.valid = FALSE]
        BY <2>2, <3>3
      <4> QED
        BY <3>1, <3>3, <4>1 DEF Frames
    <3> QED
      BY <3>2, <3>3
  <2>5. stack' \in Seq(Frames) /\ Len(stack') = Len(stack)
    <3>1. stack' = [k \in 1 .. Len(stack) |-> stack'[k]]
      BY <2>2, <2>3
    <3> QED
      BY <2>3, <2>4, <3>1
  <2>6. /\ \A e \in Dispatchers : subscribers'[e] = IF e = d THEN {} ELSE subscribers[e]
        /\ \A c \in Callbacks : dispatcher'[c] = IF c \in subscribers[d] THEN Null ELSE dispatcher[c]
    BY <2>1 DEF IInv, TypeOK
  <2>7. TypeOK'
    BY <2>1, <2>5 DEF IInv, TypeOK
  <2>8. FreshUnbound'
    BY <1>2, <2>1, <2>6 DEF IInv, TypeOK, FreshUnbound
  <2>9. SubscriptionsAgree'
    <3> SUFFICES ASSUME misuse' \cap {"copy", "two", "notmine"} = {},
                        NEW a \in Callbacks, NEW e \in Dispatchers
                 PROVE  a \in subscribers'[e] <=> a \in alive' /\ dispatcher'[a] = e
      BY DEF SubscriptionsAgree
    <3>1. misuse \cap {"copy", "two", "notmine"} = {}
      BY <2>1
    <3>2. /\ a \in subscribers[e] <=> a \in alive /\ dispatcher[a] = e
          /\ a \in subscribers[d] <=> a \in alive /\ dispatcher[a] = d
      BY <3>1 DEF IInv, SubscriptionsAgree
    <3> QED
      BY <2>1, <2>6, <3>2, ObserverAssumption
  <2>10. BoundIsSubscribed'
    BY <2>1, <2>6, ObserverAssumption DEF IInv, TypeOK, BoundIsSubscribed
  <2>11. EmptyIsMisuse' /\ OwnObject'
    BY <2>1 DEF IInv, EmptyIsMisuse, OwnObject, Function
  <2>12. InvalidIsMisuse'
    BY <2>1, <2>3, <2>4 DEF IInv, InvalidIsMisuse
  <2>13. DueAreSubscribed'
    <3> SUFFICES ASSUME NEW k \in DOMAIN stack, stack'[k].valid
                 PROVE  stack'[k].due \subseteq subscribers'[stack'[k].d]
      BY <2>3 DEF DueAreSubscribed
    <3>1. stack[k].valid /\ stack[k].d # d
      BY <2>4
    <3>2. stack[k].due \subseteq subscribers[stack[k].d]
      BY <3>1 DEF IInv, DueAreSubscribed
    <3>3. stack[k].d \in Dispatchers
      BY <2>3 DEF Frames
    <3> QED
      BY <2>4, <2>6, <3>1, <3>2, <3>3
  <2>14. NotifyReachesAll'
    BY <2>3, <2>4 DEF IInv, NotifyReachesAll
  <2>15. FaultsHaveACause'
    BY <2>1 DEF Running, FaultsHaveACause
  <2> QED
    BY <2>7, <2>8, <2>9, <2>10, <2>11, <2>12, <2>13, <2>14, <2>15 DEF IInv
<1> QED
  BY <1>1, <1>2

(* The call of a subscriber, if it fails, fails for a reason.                 *)
LEMMA CallsFailForAReason ==
  ASSUME IInv, NEW d \in Dispatchers, NEW c \in Nat, Run(Following(d, c)) # "none"
  PROVE  CauseOf(Run(Following(d, c)))
<1> DEFINE x == Following(d, c)
<1>1. x \in subscribers[d] /\ x \in Callbacks
  <2>1. x = End \/ x \in subscribers[d]
    BY FollowingIsNext DEF IInv
  <2>2. x # End
    BY DEF Run
  <2> QED
    BY <2>1, <2>2 DEF IInv, TypeOK
<1> HIDE DEF x
<1>2. CASE x \notin alive
  <2>1. Run(x) = "dead_subscriber"
    BY <1>2 DEF Run, x
  <2>2. misuse \cap {"copy", "two", "notmine"} # {}
    BY <1>1, <1>2 DEF IInv, SubscriptionsAgree
  <2> QED
    BY <2>1, <2>2 DEF CauseOf, x
<1>3. CASE x \in alive /\ function[x] = Empty
  <2>1. Run(x) = "empty_function"
    BY <1>3 DEF Run, x
  <2>2. "empty" \in misuse
    BY <1>3 DEF IInv, EmptyIsMisuse
  <2> QED
    BY <2>1, <2>2 DEF CauseOf, x
<1>4. CASE x \in alive /\ function[x] # Empty
  <2>1. Run(x) = "dead_object" /\ function[x] # Free /\ function[x] \notin alive
    BY <1>4 DEF Run, x
  <2>2. "copy" \in misuse
    BY <1>4, <2>1 DEF IInv, OwnObject, Function
  <2> QED
    BY <2>1, <2>2 DEF CauseOf, x
<1> QED
  BY <1>2, <1>3, <1>4

(* What the loop of Notify makes of a frame: everybody who is still due comes  *)
(* after the subscriber it calls.                                            *)
LEMMA VisitIsNext ==
  ASSUME IInv, NEW d \in Dispatchers, NEW at \in Nat, NEW due, NEW f,
         f = [d |-> d, at |-> at, valid |-> TRUE, due |-> due],
         due \subseteq subscribers[d], \A x \in due : x > at
  PROVE  LET g == Visit(f, Following(d, at)) IN
         /\ g \in Frames /\ g.d = d /\ g.valid = TRUE
         /\ g.due \subseteq subscribers[g.d]
         /\ \A x \in g.due : x > g.at
<1> DEFINE y == Following(d, at)
           g == Visit(f, y)
<1>1. /\ y \in Callbacks \cup {End}
      /\ \A x \in subscribers[d] : x > at /\ x # y => x > y
  BY FollowingIsNext DEF IInv
<1>2. due \subseteq Callbacks
  BY DEF IInv, TypeOK
<1> HIDE DEF y
<1>3. g = [d |-> d, at |-> y, valid |-> TRUE, due |-> due \ {y}]
  <2>1. g = [f EXCEPT !.at = y, !.due = f.due \ {y}]
    BY DEF Visit
  <2>2. f.due = due
    OBVIOUS
  <2> HIDE DEF g
  <2> QED
    BY <2>1, <2>2
<1> HIDE DEF g
<1>4. g.d = d /\ g.at = y /\ g.valid = TRUE /\ g.due = due \ {y}
  BY <1>3
<1>5. g \in Frames
  BY <1>1, <1>2, <1>3 DEF Frames
<1>6. \A x \in g.due : x > g.at
  BY <1>1, <1>4
<1>7. g.due \subseteq subscribers[g.d]
  BY <1>4
<1> QED
  BY <1>4, <1>5, <1>6, <1>7 DEF g, y

(* A step that changes the stack only.                                       *)
LEMMA StackStep ==
  ASSUME IInv, Running,
         stack' \in Seq(Frames), Len(stack') <= MaxDepth,
         \A k \in DOMAIN stack' :
           /\ ~stack'[k].valid => "visited" \in misuse
           /\ stack'[k].valid => stack'[k].due \subseteq subscribers[stack'[k].d]
           /\ \A c \in stack'[k].due : c > stack'[k].at,
         UNCHANGED <<up, alive, fresh, function, subscribers, dispatcher, fault, misuse>>
  PROVE  IInv'
<1>1. TypeOK'
  BY DEF IInv, TypeOK
<1>2. InvalidIsMisuse' /\ DueAreSubscribed' /\ NotifyReachesAll'
  BY DEF InvalidIsMisuse, DueAreSubscribed, NotifyReachesAll
<1> QED
  BY <1>1, <1>2 DEF IInv, FreshUnbound, SubscriptionsAgree, BoundIsSubscribed,
     EmptyIsMisuse, OwnObject, Function, FaultsHaveACause

LEMMA NotifyKeeps ==
  ASSUME IInv, NEW d \in Dispatchers, Notify(d)
  PROVE  IInv'
<1>1. CASE Run(Following(d, 0)) # "none"
  <2>1. Fault(Run(Following(d, 0)))
    BY <1>1 DEF Notify
  <2>2. CauseOf(Run(Following(d, 0)))
    BY <1>1, CallsFailForAReason
  <2> QED
    BY <2>1, <2>2, FaultStep
<1>2. CASE Run(Following(d, 0)) = "none"
  <2> PICK at \in Nat, due \in SUBSET subscribers[d] : at = 0 /\ due = subscribers[d]
    OBVIOUS
  <2> DEFINE f == [d |-> d, at |-> at, valid |-> TRUE, due |-> due]
             g == Visit(f, Following(d, at))
  <2>1. /\ Running /\ Len(stack) < MaxDepth /\ stack' = <<g>> \o stack
        /\ UNCHANGED <<up, alive, fresh, function, subscribers, dispatcher, fault, misuse>>
    BY <1>2 DEF Notify, Fault, Running
  <2>4. \A x \in due : x > at
    BY ObserverAssumption DEF IInv, TypeOK
  <2>5. g \in Frames /\ g.valid = TRUE /\ g.due \subseteq subscribers[g.d] /\ \A x \in g.due : x > g.at
    BY <2>4, VisitIsNext
  <2> HIDE DEF g
  <2>6. stack \in Seq(Frames) /\ MaxDepth \in Nat
    BY ObserverAssumption DEF IInv, TypeOK
  <2>7. stack' \in Seq(Frames) /\ Len(stack') = Len(stack) + 1 /\ Len(stack) \in Nat
    BY <2>1, <2>5, <2>6
  <2>8. ASSUME NEW k \in DOMAIN stack'
        PROVE  stack'[k] = g \/ \E j \in DOMAIN stack : stack'[k] = stack[j]
    BY <2>1, <2>6, <2>7
  <2>9. \A k \in DOMAIN stack' :
           /\ ~stack'[k].valid => "visited" \in misuse
           /\ stack'[k].valid => stack'[k].due \subseteq subscribers[stack'[k].d]
           /\ \A c \in stack'[k].due : c > stack'[k].at
    BY <2>5, <2>8 DEF IInv, InvalidIsMisuse, DueAreSubscribed, NotifyReachesAll
  <2> QED
    BY <2>1, <2>6, <2>7, <2>9, StackStep
<1> QED
  BY <1>1, <1>2

LEMMA CallbackReturnsKeeps ==
  ASSUME IInv, CallbackReturns
  PROVE  IInv'
<1> DEFINE top == Head(stack)
           next == Following(top.d, top.at)
<1>1. Running /\ stack # <<>> /\ top.at # End
  BY DEF CallbackReturns
<1>2. stack \in Seq(Frames) /\ Len(stack) \in Nat \ {0} /\ 1 \in DOMAIN stack /\ top = stack[1]
  BY <1>1 DEF IInv, TypeOK
<1>3. /\ top \in Frames /\ top.d \in Dispatchers /\ top.at \in Nat
      /\ top = [d |-> top.d, at |-> top.at, valid |-> top.valid, due |-> top.due]
      /\ top.valid \in BOOLEAN
  <2>1. top \in Frames
    BY <1>2
  <2> HIDE DEF top
  <2> QED
    BY <1>1, <2>1, ObserverAssumption DEF Frames
<1>4. CASE ~top.valid
  <2>1. Fault("dead_iterator")
    BY <1>4 DEF CallbackReturns
  <2>2. "visited" \in misuse
    BY <1>2, <1>4 DEF IInv, InvalidIsMisuse
  <2>3. CauseOf("dead_iterator")
    BY <2>2 DEF CauseOf
  <2> QED
    BY <2>1, <2>3, FaultStep
<1>5. CASE top.valid /\ Run(next) # "none"
  <2>1. Fault(Run(next))
    BY <1>5 DEF CallbackReturns
  <2>2. CauseOf(Run(next))
    BY <1>3, <1>5, CallsFailForAReason
  <2> QED
    BY <2>1, <2>2, FaultStep
<1>6. CASE top.valid /\ Run(next) = "none"
  <2> DEFINE g == Visit(top, next)
  <2>1. /\ stack' = [stack EXCEPT ![1] = g]
        /\ UNCHANGED <<up, alive, fresh, function, subscribers, dispatcher, fault, misuse>>
    BY <1>6 DEF CallbackReturns
  <2>2. top.due \subseteq subscribers[top.d] /\ \A x \in top.due : x > top.at
    BY <1>2, <1>6 DEF IInv, DueAreSubscribed, NotifyReachesAll
  <2>3. top.valid = TRUE
    BY <1>3, <1>6
  <2> HIDE DEF top
  <2>4. g \in Frames /\ g.valid = TRUE /\ g.due \subseteq subscribers[g.d] /\ \A x \in g.due : x > g.at
    <3>1. top = [d |-> top.d, at |-> top.at, valid |-> TRUE, due |-> top.due]
      BY <1>3, <2>3
    <3> QED
      BY <1>3, <2>2, <3>1, VisitIsNext
  <2> HIDE DEF g
  <2>5. /\ stack' \in Seq(Frames) /\ Len(stack') = Len(stack) /\ DOMAIN stack' = DOMAIN stack
        /\ stack'[1] = g /\ \A k \in DOMAIN stack : k # 1 => stack'[k] = stack[k]
    BY <1>2, <2>1, <2>4
  <2>6. \A k \in DOMAIN stack' :
           /\ ~stack'[k].valid => "visited" \in misuse
           /\ stack'[k].valid => stack'[k].due \subseteq subscribers[stack'[k].d]
           /\ \A c \in stack'[k].due : c > stack'[k].at
    BY <2>4, <2>5 DEF IInv, InvalidIsMisuse, DueAreSubscribed, NotifyReachesAll
  <2>7. Len(stack') <= MaxDepth
    BY <2>5 DEF IInv, TypeOK
  <2> QED
    BY <1>1, <2>1, <2>5, <2>6, <2>7, StackStep
<1> QED
  BY <1>3, <1>4, <1>5, <1>6

LEMMA NotifyReturnsKeeps ==
  ASSUME IInv, NotifyReturns
  PROVE  IInv'
<1>1. /\ Running /\ stack # <<>> /\ stack' = Tail(stack)
      /\ UNCHANGED <<up, alive, fresh, function, subscribers, dispatcher, fault, misuse>>
  BY DEF NotifyReturns
<1>2. stack \in Seq(Frames) /\ Len(stack) \in Nat \ {0} /\ Len(stack) <= MaxDepth /\ MaxDepth \in Nat
  BY <1>1, ObserverAssumption DEF IInv, TypeOK
<1>3. /\ stack' \in Seq(Frames) /\ Len(stack') = Len(stack) - 1
      /\ \A k \in DOMAIN stack' : k + 1 \in DOMAIN stack /\ stack'[k] = stack[k + 1]
  BY <1>1, <1>2
<1>4. \A k \in DOMAIN stack' :
         /\ ~stack'[k].valid => "visited" \in misuse
         /\ stack'[k].valid => stack'[k].due \subseteq subscribers[stack'[k].d]
         /\ \A c \in stack'[k].due : c > stack'[k].at
  BY <1>3 DEF IInv, InvalidIsMisuse, DueAreSubscribed, NotifyReachesAll
<1>5. Len(stack') <= MaxDepth
  BY <1>2, <1>3
<1> QED
  BY <1>1, <1>3, <1>4, <1>5, StackStep

LEMMA StutteringKeeps ==
  ASSUME IInv, UNCHANGED vars
  PROVE  IInv'
BY DEF vars, IInv, TypeOK, FreshUnbound, SubscriptionsAgree, BoundIsSubscribed, EmptyIsMisuse,
   OwnObject, Function, InvalidIsMisuse, DueAreSubscribed, NotifyReachesAll, FaultsHaveACause

----------------------------------------------------------------------------
(* The theorems.                                                             *)

(* Nothing a user, or the code of a callback that Notify runs, does leads     *)
(* outside the invariant.                                                    *)
THEOREM Invariance == Spec => []IInv
<1>1. Init => IInv
  BY InitHolds
<1>2. IInv /\ [Next]_vars => IInv'
  <2> SUFFICES ASSUME IInv, [Next]_vars PROVE IInv'
    OBVIOUS
  <2>1. CASE \E c \in Callbacks : NewCallback(c) \/ DeleteCallback(c)
    BY <2>1, NewCallbackKeeps, DeleteCallbackKeeps
  <2>2. CASE \E b, c \in Callbacks : CopyCallback(b, c)
    BY <2>2, CopyCallbackKeeps
  <2>3. CASE \E d \in Dispatchers, c \in Callbacks : Add(d, c) \/ UserRemoves(d, c)
    BY <2>3, AddKeeps, UserRemovesKeeps
  <2>4. CASE \E d \in Dispatchers : DeleteDispatcher(d) \/ Notify(d)
    BY <2>4, DeleteDispatcherKeeps, NotifyKeeps
  <2>5. CASE CallbackReturns
    BY <2>5, CallbackReturnsKeeps
  <2>6. CASE NotifyReturns
    BY <2>6, NotifyReturnsKeeps
  <2>7. CASE UNCHANGED vars
    BY <2>7, StutteringKeeps
  <2> QED
    BY <2>1, <2>2, <2>3, <2>4, <2>5, <2>6, <2>7 DEF Next
<1> QED
  BY <1>1, <1>2, PTL DEF Spec

(* Unless a Callback was copied, added to two dispatchers or removed from one  *)
(* that is not its own, a dispatcher's set and the m_dispatcher pointers of    *)
(* its subscribers agree, whatever Notifies are in progress.                 *)
THEOREM Agreement == Spec => []SubscriptionsAgree
<1>1. IInv => SubscriptionsAgree
  BY DEF IInv
<1> QED
  BY <1>1, Invariance, PTL

(* An undefined behaviour the program runs into comes from the misuse that     *)
(* FaultsHaveACause names for it, or is that of ~Callback.                    *)
THEOREM CausesOfFaults == Spec => []FaultsHaveACause
<1>1. IInv => FaultsHaveACause
  BY DEF IInv
<1> QED
  BY <1>1, Invariance, PTL

(* A Notify calls every subscriber that stays subscribed while it runs,        *)
(* however deep Notifies nest and whoever is added and removed meanwhile.     *)
THEOREM NotifyIsComplete == Spec => []NotifyReachesAll
<1>1. IInv => NotifyReachesAll
  BY DEF IInv
<1> QED
  BY <1>1, Invariance, PTL
=============================================================================
