---------------------------- MODULE ReactorProofs ----------------------------
(***************************************************************************)
(* Theorems about Reactor, for any set of descriptors, size of a message and  *)
(* buffer.  IInv holds initially and every action preserves it (one lemma    *)
(* per action); the properties are parts of it or follow from it.            *)
(***************************************************************************)
EXTENDS Reactor, FiniteSetTheorems, WellFoundedInduction, TLAPS

----------------------------------------------------------------------------
(* The inductive invariant.                                                  *)

(* Whatever select watches has a handler bound to it, below the maximum.      *)
Registered == \A f \in master : handlers[f] = Function("handler", f) /\ f <= fdMax

RoundIsWatched == at \in {"round", "handler"} => readSet \subseteq master

(* current and left are about the handler that runs.                         *)
HandlerOrNone ==
  /\ at = "handler" => current \in Fds
  /\ at # "handler" => current = NoFd

(* What a socket holds beyond what its handler and its peer have still to do   *)
(* for the message under way is whole messages.                              *)
Missing(f) == IF f = current THEN left ELSE 0
Framed(f)  == \E q \in Int : avail[f] - sent[f] - Missing(f) = Pieces * q
AllFramed  == \A f \in Fds : Framed(f)

IInv ==
  /\ TypeOK
  /\ Registered
  /\ RoundIsWatched
  /\ HandlerOrNone
  /\ AllFramed
  /\ RoundsAreExact

----------------------------------------------------------------------------
(* Lemmas.                                                                   *)

(* A set of natural numbers has a least one.                                 *)
LEMMA LeastNatural ==
  ASSUME NEW T, T \subseteq Nat, T # {}
  PROVE  \E m \in T : \A x \in T : m <= x
<1> DEFINE less == {ss \in Nat \X Nat : ss[1] < ss[2]}
<1>1. OpToRel(<, Nat) = less
  BY DEF OpToRel
<1> HIDE DEF less
<1>2. IsWellFoundedOn(less, Nat)
  BY <1>1, NatLessThanWellFounded
<1>3. PICK m \in T : \A y \in T : ~ (<<y, m>> \in less)
  BY <1>2, WFMin
<1>4. \A y \in T : m <= y
  <2> SUFFICES ASSUME NEW y \in T PROVE m <= y
    OBVIOUS
  <2>1. ~ (<<y, m>> \in less)
    BY <1>3
  <2> QED
    BY <2>1 DEF less
<1> QED
  BY <1>4

(* Quotient and remainder are determined by what they add up to.             *)
LEMMA DivModUnique ==
  ASSUME NEW m \in Nat \ {0}, NEW a \in Int, NEW q \in Int, NEW r \in 0 .. m - 1,
         a = m * q + r
  PROVE  a \div m = q /\ a % m = r
OBVIOUS

(* Remainders of small numbers.                                              *)
LEMMA SmallMod ==
  ASSUME NEW d \in Nat \ {0}, NEW a \in 0 .. d - 1
  PROVE  a % d = a /\ a \div d = 0
<1>1. a = d * 0 + a
  OBVIOUS
<1> QED
  BY <1>1, DivModUnique

LEMMA SetsAreFinite ==
  ASSUME TypeOK
  PROVE  /\ IsFiniteSet(master) /\ IsFiniteSet(readSet)
         /\ Cardinality(master) \in 0 .. Cardinality(Fds)
         /\ Cardinality(readSet) \in 0 .. Cardinality(Fds)
         /\ Cardinality(Fds) \in Nat
<1>1. Cardinality(Fds) \in Nat
  BY ReactorAssumption, FS_CardinalityType
<1>2. ASSUME NEW S \in SUBSET Fds
      PROVE  IsFiniteSet(S) /\ Cardinality(S) \in 0 .. Cardinality(Fds)
  <2>1. IsFiniteSet(S) /\ Cardinality(S) <= Cardinality(Fds)
    BY ReactorAssumption, FS_Subset
  <2>2. Cardinality(S) \in Nat
    BY <2>1, FS_CardinalityType
  <2> QED
    BY <1>1, <2>1, <2>2
<1> QED
  BY <1>1, <1>2 DEF TypeOK

(* While events are left in a round GetNextReadFd finds one.                 *)
LEMMA NextIsFound ==
  ASSUME IInv, at = "round", n > 0
  PROVE  /\ GetNextReadFd \in readSet /\ GetNextReadFd \in Fds
         /\ Cardinality(readSet \ {GetNextReadFd}) = n - 1
<1>1. IsFiniteSet(readSet) /\ n = Cardinality(readSet)
  BY SetsAreFinite DEF IInv, RoundsAreExact
<1>2. readSet # {}
  BY <1>1, FS_EmptySet
<1>3. {f \in readSet : f <= fdMax} = readSet
  BY DEF IInv, RoundIsWatched, Registered
<1>4. readSet \subseteq Nat
  BY ReactorAssumption DEF IInv, TypeOK
<1>5. GetNextReadFd \in readSet
  <2>1. GetNextReadFd = Min(readSet)
    BY <1>2, <1>3 DEF GetNextReadFd
  <2>2. \E m \in readSet : \A x \in readSet : m <= x
    BY <1>2, <1>4, LeastNatural
  <2> QED
    BY <2>1, <2>2 DEF Min
<1>6. Cardinality(readSet \ {GetNextReadFd}) = Cardinality(readSet) - 1
  BY <1>1, <1>5, FS_RemoveElement
<1> QED
  BY <1>1, <1>5, <1>6 DEF IInv, TypeOK

(* A watched descriptor's handler reads its own socket.                       *)
LEMMA HandlersOnTheirSockets ==
  ASSUME IInv, NEW f \in master
  PROVE  handlers[f].arg = f
<1>1. handlers[f] = [callable |-> "handler", arg |-> f]
  BY DEF IInv, Registered, Function
<1> QED
  BY <1>1

(* The arithmetic of the framing does not see a step that leaves it alone.    *)
LEMMA FramedUnchanged ==
  ASSUME IInv, UNCHANGED <<current, left, peerVars>>
  PROVE  AllFramed'
BY DEF IInv, AllFramed, Framed, Missing, peerVars

----------------------------------------------------------------------------
(* Each action preserves the invariant.                                      *)

LEMMA InitHolds == Init => IInv
<1> SUFFICES ASSUME Init PROVE IInv
  OBVIOUS
<1>1. Cardinality(Fds) \in Nat
  BY ReactorAssumption, FS_CardinalityType
<1>2. TypeOK
  BY <1>1, ReactorAssumption DEF Init, TypeOK
<1>3. AllFramed
  <2> SUFFICES ASSUME NEW f \in Fds PROVE Framed(f)
    BY DEF AllFramed
  <2>1. avail[f] - sent[f] - Missing(f) = Pieces * 0
    BY ReactorAssumption DEF Init, Missing
  <2> QED
    BY <2>1 DEF Framed
<1> QED
  BY <1>2, <1>3 DEF Init, IInv, Registered, RoundIsWatched, HandlerOrNone, RoundsAreExact

LEMMA RegisterReadHandlerKeeps ==
  ASSUME IInv, NEW fd \in Fds, RegisterReadHandler(fd)
  PROVE  IInv'
<1>1. /\ at = "setup"
      /\ handlers' = [handlers EXCEPT ![fd] = Function("handler", fd)]
      /\ master' = master \cup {fd}
      /\ fdMax' = IF fd > fdMax THEN fd ELSE fdMax
      /\ UNCHANGED <<readSet, n, at, current, left, peerVars>>
  BY DEF RegisterReadHandler, SetRead
<1>2. TypeOK'
  BY <1>1 DEF IInv, TypeOK, peerVars
<1>3. Registered'
  <2>1. \A f \in Fds : handlers'[f] = IF f = fd THEN Function("handler", fd) ELSE handlers[f]
    BY <1>1 DEF IInv, TypeOK
  <2>2. \A f \in master' : f \in Fds /\ f <= fdMax'
    BY <1>1, ReactorAssumption DEF IInv, TypeOK, Registered
  <2> QED
    BY <1>1, <2>1, <2>2 DEF IInv, Registered
<1>4. RoundIsWatched' /\ HandlerOrNone' /\ RoundsAreExact'
  BY <1>1 DEF IInv, RoundIsWatched, HandlerOrNone, RoundsAreExact
<1>5. AllFramed'
  BY <1>1, FramedUnchanged
<1> QED
  BY <1>2, <1>3, <1>4, <1>5 DEF IInv

LEMMA StartRunKeeps ==
  ASSUME IInv, StartRun
  PROVE  IInv'
<1>1. /\ at = "setup" /\ at' = "select"
      /\ UNCHANGED <<handlers, master, fdMax, readSet, n, current, left, peerVars>>
  BY DEF StartRun, monitorVars
<1>2. AllFramed'
  BY <1>1, FramedUnchanged
<1> QED
  BY <1>1, <1>2 DEF IInv, TypeOK, Registered, RoundIsWatched, HandlerOrNone, RoundsAreExact, peerVars

(* A piece more is in the buffer and a piece less of the message to come; when  *)
(* it was the last one, the buffer has a whole message more.                 *)
LEMMA PeerSendsKeeps ==
  ASSUME IInv, NEW fd \in Fds, PeerSends(fd)
  PROVE  IInv'
<1>1. /\ avail[fd] < Cap
      /\ avail' = [avail EXCEPT ![fd] = avail[fd] + 1]
      /\ sent' = [sent EXCEPT ![fd] = (sent[fd] + 1) % Pieces]
      /\ UNCHANGED <<handlers, master, fdMax, readSet, n, at, current, left>>
  BY DEF PeerSends, monitorVars
<1>2. /\ avail \in [Fds -> 0 .. Cap] /\ sent \in [Fds -> 0 .. Pieces - 1]
      /\ left \in 0 .. Pieces /\ Pieces \in Nat \ {0} /\ Cap \in Nat \ {0}
  BY ReactorAssumption DEF IInv, TypeOK
<1>3. \/ sent[fd] + 1 < Pieces /\ (sent[fd] + 1) % Pieces = sent[fd] + 1
      \/ sent[fd] + 1 = Pieces /\ (sent[fd] + 1) % Pieces = 0
  <2>1. CASE sent[fd] + 1 < Pieces
    <3>1. sent[fd] + 1 \in 0 .. Pieces - 1
      BY <1>2, <2>1
    <3> QED
      BY <1>2, <2>1, <3>1, SmallMod
  <2>2. CASE sent[fd] + 1 = Pieces
    <3>1. Pieces = Pieces * 1 + 0
      BY <1>2
    <3>2. Pieces % Pieces = 0
      BY <1>2, <3>1, DivModUnique
    <3> QED
      BY <2>2, <3>2
  <2> QED
    BY <1>2, <2>1, <2>2
<1>4. /\ \A f \in Fds : avail'[f] = IF f = fd THEN avail[f] + 1 ELSE avail[f]
      /\ \A f \in Fds : sent'[f] = IF f = fd THEN (sent[f] + 1) % Pieces ELSE sent[f]
  BY <1>1, <1>2
<1>5. TypeOK'
  <2>1. avail' \in [Fds -> 0 .. Cap]
    BY <1>1, <1>2
  <2>2. (sent[fd] + 1) % Pieces \in 0 .. Pieces - 1
    BY <1>2, <1>3
  <2>3. sent' \in [Fds -> 0 .. Pieces - 1]
    BY <1>1, <1>2, <2>2
  <2> QED
    BY <1>1, <2>1, <2>3 DEF IInv, TypeOK
<1>6. AllFramed'
  <2> SUFFICES ASSUME NEW f \in Fds PROVE Framed(f)'
    BY DEF AllFramed
  <2>1. Missing(f)' = Missing(f) /\ Missing(f) \in Int
    BY <1>1, <1>2 DEF Missing
  <2>2. PICK q \in Int : avail[f] - sent[f] - Missing(f) = Pieces * q
    BY DEF IInv, AllFramed, Framed
  <2>3. avail[f] \in Int /\ sent[f] \in Int
    BY <1>2
  <2>4. CASE f # fd
    BY <1>4, <2>1, <2>2, <2>4 DEF Framed
  <2>5. CASE f = fd /\ sent[fd] + 1 < Pieces
    <3>1. avail'[f] - sent'[f] - Missing(f) = avail[f] - sent[f] - Missing(f)
      BY <1>2, <1>3, <1>4, <2>1, <2>3, <2>5
    <3> QED
      BY <2>1, <2>2, <3>1 DEF Framed
  <2>6. CASE f = fd /\ sent[fd] + 1 = Pieces
    <3>1. avail'[f] - sent'[f] - Missing(f) = (avail[f] - sent[f] - Missing(f)) + Pieces
      BY <1>2, <1>3, <1>4, <2>1, <2>3, <2>6
    <3>2. Pieces * (q + 1) = Pieces * q + Pieces /\ q + 1 \in Int
      BY <1>2
    <3>3. avail'[f] - sent'[f] - Missing(f)' = Pieces * (q + 1)
      BY <2>1, <2>2, <3>1, <3>2
    <3> QED
      BY <3>2, <3>3 DEF Framed
  <2> QED
    BY <1>3, <2>4, <2>5, <2>6
<1> QED
  BY <1>1, <1>5, <1>6 DEF IInv, Registered, RoundIsWatched, HandlerOrNone, RoundsAreExact

(* select returns the number of the descriptors it leaves in the set.         *)
LEMMA WaitForEventKeeps ==
  ASSUME IInv, WaitForEvent
  PROVE  IInv'
<1>1. /\ at = "select" /\ at' = "round" /\ readSet' = Readable /\ n' = Cardinality(Readable)
      /\ UNCHANGED <<handlers, master, fdMax, current, left, peerVars>>
  BY DEF WaitForEvent
<1>2. Readable \subseteq master
  BY DEF Readable
<1>3. Cardinality(Readable) \in 0 .. Cardinality(Fds)
  <2>1. Readable \in SUBSET Fds
    BY <1>2 DEF IInv, TypeOK
  <2>2. IsFiniteSet(Readable) /\ Cardinality(Readable) <= Cardinality(Fds)
    BY <2>1, ReactorAssumption, FS_Subset
  <2> QED
    BY <2>2, ReactorAssumption, FS_CardinalityType
<1>4. TypeOK'
  <2>1. n' \in -1 .. Cardinality(Fds)
    BY <1>1, <1>3, SetsAreFinite DEF IInv
  <2> QED
    BY <1>1, <1>2, <2>1 DEF IInv, TypeOK, peerVars
<1>5. Registered' /\ RoundIsWatched' /\ HandlerOrNone'
  BY <1>1, <1>2 DEF IInv, Registered, RoundIsWatched, HandlerOrNone
<1>6. RoundsAreExact'
  <2>1. \A f \in Readable : handlers[f].arg = f
    BY <1>2, HandlersOnTheirSockets
  <2> QED
    BY <1>1, <2>1 DEF RoundsAreExact
<1>7. AllFramed'
  BY <1>1, FramedUnchanged
<1> QED
  BY <1>4, <1>5, <1>6, <1>7 DEF IInv

(* The set that an interrupted select leaves behind is not looked at.         *)
LEMMA SelectFailsKeeps ==
  ASSUME IInv, SelectFails
  PROVE  IInv'
<1>1. /\ at = "select" /\ at' = "round" /\ readSet' = master /\ n' = -1
      /\ UNCHANGED <<handlers, master, fdMax, current, left, peerVars>>
  BY DEF SelectFails
<1>2. TypeOK'
  <2>1. -1 \in -1 .. Cardinality(Fds)
    BY SetsAreFinite DEF IInv
  <2> QED
    BY <1>1, <2>1 DEF IInv, TypeOK, peerVars
<1>3. AllFramed'
  BY <1>1, FramedUnchanged
<1> QED
  BY <1>1, <1>2, <1>3 DEF IInv, Registered, RoundIsWatched, HandlerOrNone, RoundsAreExact

LEMMA CallHandlerKeeps ==
  ASSUME IInv, CallHandler
  PROVE  IInv'
<1> DEFINE fd == GetNextReadFd
<1>1. /\ at = "round" /\ n > 0 /\ readSet' = readSet \ {fd}
      /\ Call(IF fd = NoFd THEN Empty ELSE handlers[fd])
      /\ UNCHANGED <<handlers, master, fdMax, n, peerVars>>
  BY DEF CallHandler
<1>2. fd \in readSet /\ fd \in Fds /\ Cardinality(readSet \ {fd}) = n - 1
  BY <1>1, NextIsFound
<1> HIDE DEF fd
<1>3. handlers[fd] = Function("handler", fd) /\ fd # NoFd
  BY <1>1, <1>2, ReactorAssumption DEF IInv, RoundIsWatched, Registered, NoFd
<1>4. at' = "handler" /\ current' = fd /\ left' = Pieces
  BY <1>1, <1>3 DEF Call, Function, Empty
<1>5. TypeOK'
  BY <1>1, <1>2, <1>4, ReactorAssumption DEF IInv, TypeOK, peerVars
<1>6. Registered' /\ RoundIsWatched' /\ HandlerOrNone'
  BY <1>1, <1>2, <1>4 DEF IInv, Registered, RoundIsWatched, HandlerOrNone
<1>7. RoundsAreExact'
  BY <1>1, <1>2, <1>4 DEF IInv, TypeOK, RoundsAreExact
<1>8. AllFramed'
  <2> SUFFICES ASSUME NEW f \in Fds PROVE Framed(f)'
    BY DEF AllFramed
  <2>1. avail'[f] = avail[f] /\ sent'[f] = sent[f] /\ avail[f] \in Int /\ sent[f] \in Int
    BY <1>1 DEF IInv, TypeOK, peerVars
  <2>2. Missing(f) = 0
    BY <1>1, ReactorAssumption DEF IInv, HandlerOrNone, Missing, NoFd
  <2>3. PICK q \in Int : avail[f] - sent[f] = Pieces * q
    BY <2>1, <2>2 DEF IInv, AllFramed, Framed
  <2>4. CASE f # fd
    <3>1. Missing(f)' = 0
      BY <1>4, <2>4 DEF Missing
    <3> QED
      BY <2>1, <2>3, <3>1 DEF Framed
  <2>5. CASE f = fd
    <3>1. Missing(f)' = Pieces
      BY <1>4, <2>5 DEF Missing
    <3>2. Pieces * (q - 1) = Pieces * q - Pieces /\ q - 1 \in Int
      BY ReactorAssumption
    <3> QED
      BY <2>1, <2>3, <3>1, <3>2 DEF Framed
  <2> QED
    BY <2>4, <2>5
<1> QED
  BY <1>5, <1>6, <1>7, <1>8 DEF IInv

LEMMA HandlerReadsKeeps ==
  ASSUME IInv, HandlerReads
  PROVE  IInv'
<1>1. /\ at = "handler" /\ left > 0 /\ avail[current] > 0
      /\ avail' = [avail EXCEPT ![current] = avail[current] - 1] /\ left' = left - 1
      /\ UNCHANGED <<handlers, master, fdMax, readSet, n, at, current, sent>>
  BY DEF HandlerReads, monitorVars
<1>2. /\ current \in Fds /\ avail \in [Fds -> 0 .. Cap] /\ sent \in [Fds -> 0 .. Pieces - 1]
      /\ left \in 0 .. Pieces /\ Pieces \in Nat \ {0} /\ Cap \in Nat \ {0}
  BY <1>1, ReactorAssumption DEF IInv, TypeOK, HandlerOrNone
<1>3. TypeOK'
  <2>1. avail' \in [Fds -> 0 .. Cap] /\ left' \in 0 .. Pieces
    BY <1>1, <1>2
  <2> QED
    BY <1>1, <2>1 DEF IInv, TypeOK
<1>4. AllFramed'
  <2> SUFFICES ASSUME NEW f \in Fds PROVE Framed(f)'
    BY DEF AllFramed
  <2>1. avail'[f] - sent'[f] - Missing(f)' = avail[f] - sent[f] - Missing(f)
    BY <1>1, <1>2 DEF Missing
  <2> QED
    BY <2>1 DEF IInv, AllFramed, Framed
<1> QED
  BY <1>1, <1>3, <1>4 DEF IInv, Registered, RoundIsWatched, HandlerOrNone, RoundsAreExact

LEMMA HandlerReturnsKeeps ==
  ASSUME IInv, HandlerReturns
  PROVE  IInv'
<1>1. /\ at = "handler" /\ left = 0 /\ n' = n - 1 /\ at' = "round" /\ current' = NoFd
      /\ UNCHANGED <<handlers, master, fdMax, readSet, left, avail, sent>>
  BY DEF HandlerReturns, monitorVars, peerVars
<1>2. n = Cardinality(readSet) + 1 /\ Cardinality(readSet) \in Nat
  BY <1>1, SetsAreFinite DEF IInv, RoundsAreExact
<1>3. TypeOK'
  <2>1. n' \in -1 .. Cardinality(Fds)
    BY <1>1, <1>2, SetsAreFinite DEF IInv, TypeOK
  <2> QED
    BY <1>1, <2>1 DEF IInv, TypeOK
<1>4. RoundsAreExact'
  <2>1. n' = Cardinality(readSet')
    BY <1>1, <1>2 DEF IInv, TypeOK
  <2>2. \A f \in readSet : handlers[f].arg = f
    BY <1>1, HandlersOnTheirSockets DEF IInv, RoundIsWatched
  <2> QED
    BY <1>1, <2>1, <2>2 DEF RoundsAreExact
<1>5. AllFramed'
  <2> SUFFICES ASSUME NEW f \in Fds PROVE Framed(f)'
    BY DEF AllFramed
  <2>1. Missing(f)' = Missing(f)
    BY <1>1 DEF Missing
  <2> QED
    BY <1>1, <2>1 DEF IInv, AllFramed, Framed
<1> QED
  BY <1>1, <1>3, <1>4, <1>5 DEF IInv, Registered, RoundIsWatched, HandlerOrNone

LEMMA RoundEndsKeeps ==
  ASSUME IInv, RoundEnds
  PROVE  IInv'
<1>1. /\ at = "round" /\ at' = "select"
      /\ UNCHANGED <<handlers, master, fdMax, readSet, n, current, left, peerVars>>
  BY DEF RoundEnds, monitorVars
<1>2. AllFramed'
  BY <1>1, FramedUnchanged
<1> QED
  BY <1>1, <1>2 DEF IInv, TypeOK, Registered, RoundIsWatched, HandlerOrNone, RoundsAreExact, peerVars

LEMMA StutteringKeeps ==
  ASSUME IInv, UNCHANGED vars
  PROVE  IInv'
<1>1. AllFramed'
  BY FramedUnchanged DEF vars
<1> QED
  BY <1>1 DEF vars, monitorVars, peerVars, IInv, TypeOK, Registered, RoundIsWatched,
     HandlerOrNone, RoundsAreExact

----------------------------------------------------------------------------
(* The theorems.                                                             *)

(* Handlers, monitor, the round under way and the sockets stay in step.       *)
THEOREM Invariance == Spec => []IInv
<1>1. Init => IInv
  BY InitHolds
<1>2. IInv /\ [Next]_vars => IInv'
  <2> SUFFICES ASSUME IInv, [Next]_vars PROVE IInv'
    OBVIOUS
  <2>1. CASE \E fd \in Fds : RegisterReadHandler(fd) \/ PeerSends(fd)
    BY <2>1, RegisterReadHandlerKeeps, PeerSendsKeeps
  <2>2. CASE StartRun \/ WaitForEvent \/ SelectFails
    BY <2>2, StartRunKeeps, WaitForEventKeeps, SelectFailsKeeps
  <2>3. CASE Run
    BY <2>3, CallHandlerKeeps, HandlerReadsKeeps, HandlerReturnsKeeps, RoundEndsKeeps DEF Run
  <2>4. CASE UNCHANGED vars
    BY <2>4, StutteringKeeps
  <2> QED
    BY <2>1, <2>2, <2>3, <2>4 DEF Next
<1> QED
  BY <1>1, <1>2, PTL DEF Spec

(* The variables keep to their types: fdMax is a registered descriptor or 0,   *)
(* and no handler reads more than a message or from an empty socket.         *)
THEOREM TypeCorrect == Spec => []TypeOK
<1>1. IInv => TypeOK
  BY DEF IInv
<1> QED
  BY <1>1, Invariance, PTL

(* A round calls exactly the handlers of the descriptors select reported, each  *)
(* on its own socket, whatever is registered.                                *)
THEOREM RoundsCallWhatIsReady == Spec => []RoundsAreExact
<1>1. IInv => RoundsAreExact
  BY DEF IInv
<1> QED
  BY <1>1, Invariance, PTL

(* Handlers leave each socket at the beginning of a message, however many       *)
(* pieces it comes in and however they are spread over reads.                *)
THEOREM StreamsStayFramed == Spec => []MessagesStayFramed
<1>1. IInv => MessagesStayFramed
  <2> SUFFICES ASSUME IInv, NEW f \in Fds
               PROVE  (avail[f] - sent[f] - IF f = current THEN left ELSE 0) % Pieces = 0
    BY DEF MessagesStayFramed
  <2>1. PICK q \in Int : avail[f] - sent[f] - Missing(f) = Pieces * q
    BY DEF IInv, AllFramed, Framed
  <2>2. Pieces \in Nat \ {0} /\ Pieces * q \in Int /\ Pieces * q = Pieces * q + 0 /\ 0 \in 0 .. Pieces - 1
    BY ReactorAssumption
  <2>3. (Pieces * q) % Pieces = 0
    BY <2>2, DivModUnique
  <2> QED
    BY <2>1, <2>3 DEF Missing
<1> QED
  BY <1>1, Invariance, PTL
==============================================================================
