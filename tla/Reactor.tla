------------------------------- MODULE Reactor ------------------------------
(***************************************************************************)
(* Reactor<Select>: one thread that waits in select, then calls the handler *)
(* of every readable descriptor of the round, lowest descriptor first.      *)
(* Each handler of the servers reads one whole message with a loop around    *)
(* read or recv, so it blocks when only a part of the message is there.      *)
(***************************************************************************)
EXTENDS Integers, FiniteSets, FiniteSetsExt

CONSTANTS
  Fds,     (* the descriptors that may be registered                        *)
  Pieces,  (* a message arrives in this many pieces                         *)
  Cap      (* pieces a socket buffers                                       *)

ASSUME ReactorAssumption ==
  /\ Fds \subseteq Nat /\ IsFiniteSet(Fds)
  /\ Pieces \in Nat \ {0}
  /\ Cap \in Nat \ {0}

VARIABLES
  handlers,  (* [Fds -> the Function in m_handlers, Empty if there is none] *)
  master,    (* m_master of the monitor                                     *)
  fdMax,     (* m_fd_max                                                    *)
  readSet,   (* m_read_set                                                  *)
  n,         (* the events left in this round                               *)
  at,        (* "setup", "select", "round", "handler", or "crashed"         *)
  current,   (* the descriptor whose handler runs                           *)
  left,      (* pieces the handler still has to read                        *)
  avail,     (* [Fds -> pieces in the socket's buffer]                      *)
  sent       (* [Fds -> pieces of its current message the peer has sent]    *)

monitorVars == <<master, fdMax, readSet>>
peerVars    == <<avail, sent>>
vars == <<handlers, monitorVars, n, at, current, left, peerVars>>

NoFd == -1

(* A Function<int(void)>: a free function or a member of the dispatcher,      *)
(* here alike, and the argument it is bound to, the socket it reads.  One     *)
(* made by the default constructor calls nothing.                            *)
Empty == [callable |-> "null", arg |-> NoFd]

Function(callable, arg) == [callable |-> callable, arg |-> arg]

Init ==
  /\ handlers = [f \in Fds |-> Empty] /\ master = {} /\ fdMax = 0 /\ readSet = {}
  /\ n = 0 /\ at = "setup" /\ current = NoFd /\ left = 0
  /\ avail = [f \in Fds |-> 0]
  /\ sent = [f \in Fds |-> 0]

SetRead(fd) ==
  /\ master' = master \cup {fd}
  /\ fdMax' = IF fd > fdMax THEN fd ELSE fdMax

(* The programs register all their handlers before Run, in any order of      *)
(* descriptors.                                                              *)
RegisterReadHandler(fd) ==
  /\ at = "setup"
  /\ handlers' = [handlers EXCEPT ![fd] = Function("handler", fd)]
  /\ SetRead(fd)
  /\ UNCHANGED <<readSet, n, at, current, left, peerVars>>

StartRun ==
  /\ at = "setup"
  /\ at' = "select"
  /\ UNCHANGED <<handlers, monitorVars, n, current, left, peerVars>>

(* The peer of a socket sends; what it began it completes.                   *)
PeerSends(fd) ==
  /\ avail[fd] < Cap
  /\ avail' = [avail EXCEPT ![fd] = @ + 1]
  /\ sent' = [sent EXCEPT ![fd] = (@ + 1) % Pieces]
  /\ UNCHANGED <<handlers, monitorVars, n, at, current, left>>

PeerCompletes(fd) == sent[fd] # 0 /\ PeerSends(fd)

Readable == {f \in master : f <= fdMax /\ avail[f] > 0}

(* WaitForEvent: select leaves the readable descriptors in the set and       *)
(* returns how many they are.                                                *)
WaitForEvent ==
  /\ at = "select"
  /\ Readable # {}
  /\ readSet' = Readable
  /\ n' = Cardinality(Readable)
  /\ at' = "round"
  /\ UNCHANGED <<handlers, master, fdMax, current, left, peerVars>>

(* A signal interrupts select, which returns -1 and leaves the set alone.    *)
SelectFails ==
  /\ at = "select"
  /\ readSet' = master
  /\ n' = -1
  /\ at' = "round"
  /\ UNCHANGED <<handlers, master, fdMax, current, left, peerVars>>

(* Mutant of GetNextReadFd: the loop ends before the greatest descriptor.    *)
GetNextReadFd_ShortScan ==
  LET found == {f \in readSet : f < fdMax} IN
    IF found = {} THEN NoFd ELSE Min(found)

(* The lowest descriptor that is still set.                                  *)
GetNextReadFd ==
  LET found == {f \in readSet : f <= fdMax} IN
    IF found = {} THEN NoFd ELSE Min(found)

(* operator() of a Function: run the callable on the bound argument.         *)
Call(f) ==
  \/ f # Empty /\ at' = "handler" /\ current' = f.arg /\ left' = Pieces
  \/ f = Empty /\ at' = "crashed" /\ UNCHANGED <<current, left>>

(* One round of the inner loop: call m_handlers[fd], which for a descriptor   *)
(* without a handler inserts an empty Function.                              *)
CallHandler ==
  /\ at = "round"
  /\ n > 0
  /\ readSet' = readSet \ {GetNextReadFd}
  /\ Call(IF GetNextReadFd = NoFd THEN Empty ELSE handlers[GetNextReadFd])
  /\ UNCHANGED <<handlers, master, fdMax, n, peerVars>>

(* Mutants of HandlerReads: a read that does not wait for data; one read     *)
(* instead of the loop, taken for the whole message.                         *)
HandlerReads_NoWait ==
  /\ at = "handler"
  /\ left > 0
  /\ avail' = [avail EXCEPT ![current] = @ - 1]
  /\ left' = left - 1
  /\ UNCHANGED <<handlers, monitorVars, n, at, current, sent>>

HandlerReads_Once ==
  /\ at = "handler"
  /\ left > 0
  /\ avail[current] > 0
  /\ avail' = [avail EXCEPT ![current] = @ - 1]
  /\ left' = 0
  /\ UNCHANGED <<handlers, monitorVars, n, at, current, sent>>

(* The handler reads a piece, or blocks until there is one.                  *)
HandlerReads ==
  /\ at = "handler"
  /\ left > 0
  /\ avail[current] > 0
  /\ avail' = [avail EXCEPT ![current] = @ - 1]
  /\ left' = left - 1
  /\ UNCHANGED <<handlers, monitorVars, n, at, current, sent>>

(* Mutant of HandlerReturns: select again after every event.                 *)
HandlerReturns_SelectAgain ==
  /\ at = "handler"
  /\ left = 0
  /\ n' = 0
  /\ at' = "round"
  /\ current' = NoFd
  /\ UNCHANGED <<handlers, monitorVars, left, peerVars>>

HandlerReturns ==
  /\ at = "handler"
  /\ left = 0
  /\ n' = n - 1
  /\ at' = "round"
  /\ current' = NoFd
  /\ UNCHANGED <<handlers, monitorVars, left, peerVars>>

RoundEnds ==
  /\ at = "round"
  /\ n <= 0
  /\ at' = "select"
  /\ UNCHANGED <<handlers, monitorVars, n, current, left, peerVars>>

Run == CallHandler \/ HandlerReads \/ HandlerReturns \/ RoundEnds

Next ==
  \/ \E fd \in Fds : RegisterReadHandler(fd) \/ PeerSends(fd)
  \/ StartRun \/ WaitForEvent \/ SelectFails \/ Run

Spec == Init /\ [][Next]_vars

(* The thread runs when it can, not every select is interrupted, and a peer   *)
(* that has begun a message completes it.  Nobody has to begin one.           *)
Fairness ==
  /\ WF_vars(StartRun) /\ WF_vars(Run)
  /\ SF_vars(WaitForEvent)
  /\ \A fd \in Fds : WF_vars(PeerCompletes(fd))

FairSpec == Spec /\ Fairness
----------------------------------------------------------------------------
(* Properties.                                                               *)

(* What the variables range over.                                            *)
TypeOK ==
  /\ handlers \in [Fds -> {Empty} \cup {Function("handler", f) : f \in Fds}]
  /\ master \subseteq Fds /\ readSet \subseteq Fds
  /\ fdMax \in Fds \cup {0}
  /\ n \in -1 .. Cardinality(Fds)
  /\ at \in {"setup", "select", "round", "handler", "crashed"}
  /\ current \in Fds \cup {NoFd}
  /\ left \in 0 .. Pieces
  /\ avail \in [Fds -> 0 .. Cap]
  /\ sent \in [Fds -> 0 .. Pieces - 1]

(* The counter that select returned and the set it left behind agree all     *)
(* through a round, so GetNextReadFd never comes back with -1 and Run never   *)
(* calls an empty Function, nor one bound to another socket, an interrupted   *)
(* select included.                                                          *)
RoundsAreExact ==
  /\ at = "round" /\ n > 0 => n = Cardinality(readSet) /\ \A f \in readSet : handlers[f].arg = f
  /\ at = "handler" => n = Cardinality(readSet) + 1 /\ current \notin readSet
  /\ at # "crashed"

(* The streams stay framed: between handlers each socket holds whole          *)
(* messages and the beginning of at most one more, whatever was read in       *)
(* pieces.                                                                   *)
MessagesStayFramed ==
  \A f \in Fds :
    (avail[f] - sent[f] - IF f = current THEN left ELSE 0) % Pieces = 0

(* No descriptor starves: one with data is handled, however busy the lower    *)
(* ones are, for a round serves each readable descriptor once.                *)
EventsAreServed ==
  \A f \in Fds : f \in master /\ avail[f] > 0 ~> at = "handler" /\ current = f
=============================================================================
