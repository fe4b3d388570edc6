------------------------------- MODULE NbdDev -------------------------------
(***************************************************************************)
(* How a server comes up: NbdDevOpen, the process it forks for the kernel's  *)
(* driver, the connections to the IoT nodes and the reactor's handlers, with *)
(* both processes' descriptor tables.  All four programs share this: main    *)
(* connects to no node, atlas_main and atlas_ThreadPool to one, atlas_iots   *)
(* to eight.                                                                *)
(*                                                                         *)
(* The forked process is meant to stay in ioctl(NBD_DO_IT).  When that      *)
(* returns 0 it goes on as the parent does and becomes a second server, with *)
(* the number of a descriptor it has closed.                                *)
(***************************************************************************)
EXTENDS Integers, FiniteSets, FiniteSetsExt

CONSTANTS
  NodeCounts,  (* numbers of IoT nodes the programs connect to              *)
  MaxFd        (* bound: descriptors are 0 .. MaxFd                         *)

Fds   == 0 .. MaxFd
Procs == {"server", "driver"}

ASSUME NbdDevAssumption ==
  /\ NodeCounts \subseteq Nat
  /\ MaxFd \in Nat /\ \A k \in NodeCounts : MaxFd >= k + 5

VARIABLES
  nodes,     (* connections the program makes                               *)
  pc,        (* [Procs -> where it stands; "gone" before fork and after exit] *)
  fds,       (* [Procs -> [Fds -> the file a descriptor is open on]]        *)
  sp,        (* [Procs -> <<sp[0], sp[1]>> of NbdDevOpen]                   *)
  nbd,       (* [Procs -> its nbd]                                          *)
  socfd,     (* [Procs -> [0 .. nodes -> descriptor]]: main's array         *)
  handlers   (* [Procs -> [Fds -> the index in socfd of the socket whose     *)
             (* handler m_handlers has there, or NoHandler]]                *)

devVars == <<nodes, pc, fds, sp, nbd, socfd, handlers>>

(* Files.                                                                    *)
Closed    == <<"closed">>
Std       == <<"std">>
Nbd       == <<"nbd">>
Sp(k)     == <<"sp", k>>
Node(i)   == <<"node", i>>
NoHandler == -1

StdFds   == [f \in Fds |-> IF f <= 2 THEN Std ELSE Closed]
NoneOpen == [f \in Fds |-> Closed]

(* open, socket and the like return the lowest free descriptor.              *)
Lowest(tab)     == Min({f \in Fds : tab[f] = Closed})
Opened(tab, x)  == [tab EXCEPT ![Lowest(tab)] = x]
Close(tab, f)   == [g \in Fds |-> IF g = f THEN Closed ELSE tab[g]]
Holds(p, x)     == \E f \in Fds : fds[p][f] = x
Unconnected     == [i \in 0 .. nodes |-> 0]

(* sp starts with whatever the stack holds: here no descriptor, or the one   *)
(* of standard input.                                                        *)
DevInit ==
  /\ nodes \in NodeCounts
  /\ pc = [p \in Procs |-> IF p = "server" THEN "open" ELSE "gone"]
  /\ fds = [p \in Procs |-> IF p = "server" THEN StdFds ELSE NoneOpen]
  /\ \E junk \in {-1, 0} : sp = [p \in Procs |-> <<junk, junk>>]
  /\ nbd = [p \in Procs |-> -1]
  /\ socfd = [p \in Procs |-> Unconnected]
  /\ handlers = [p \in Procs |-> [f \in Fds |-> NoHandler]]

Goto(p, l) == pc' = [pc EXCEPT ![p] = l]

----------------------------------------------------------------------------
(* NbdDevOpen, up to the fork.                                               *)

OpenDevice ==
  /\ pc["server"] = "open"
  /\ \/ /\ nbd' = [nbd EXCEPT !["server"] = Lowest(fds["server"])]
        /\ fds' = [fds EXCEPT !["server"] = Opened(@, Nbd)]
        /\ Goto("server", "pair")
     \/ Goto("server", "cleanup") /\ UNCHANGED <<nbd, fds>>
  /\ UNCHANGED <<nodes, sp, socfd, handlers>>

SocketPair ==
  LET tab == fds["server"]
      s0  == Lowest(tab)
      s1  == Lowest(Opened(tab, Sp(0)))
  IN
  /\ pc["server"] = "pair"
  /\ \/ /\ sp' = [sp EXCEPT !["server"] = <<s0, s1>>]
        /\ fds' = [fds EXCEPT !["server"] = Opened(Opened(@, Sp(0)), Sp(1))]
        /\ Goto("server", "fork")
     \/ Goto("server", "cleanup") /\ UNCHANGED <<sp, fds>>
  /\ UNCHANGED <<nodes, nbd, socfd, handlers>>

(* The ioctls that set up the device, and fork.                              *)
Fork ==
  /\ pc["server"] = "fork"
  /\ \/ /\ pc' = [pc EXCEPT !["server"] = "close", !["driver"] = "forked"]
        /\ fds' = [fds EXCEPT !["driver"] = fds["server"]]
        /\ sp' = [sp EXCEPT !["driver"] = sp["server"]]
        /\ nbd' = [nbd EXCEPT !["driver"] = nbd["server"]]
     \/ Goto("server", "cleanup") /\ UNCHANGED <<fds, sp, nbd>>
  /\ UNCHANGED <<nodes, socfd, handlers>>

----------------------------------------------------------------------------
(* The forked process and the kernel's driver.                               *)

(* Mutant of CloseInChild: the child keeps its end of the server's socket.    *)
CloseInChild_Nothing(tab) == tab

CloseInChild(tab) == Close(tab, sp["driver"][1])

(* close(sp[0]), and into the ioctl.                                         *)
DoIt ==
  /\ pc["driver"] = "forked"
  /\ fds' = [fds EXCEPT !["driver"] = CloseInChild(@)]
  /\ Goto("driver", "doit")
  /\ UNCHANGED <<nodes, sp, nbd, socfd, handlers>>

(* The other end of a socket pair is at its end when no process holds this.  *)
EndOfFile(k) == \A p \in Procs : ~Holds(p, Sp(k))

(* NBD_DO_IT may return at any time, for a disconnect, a timeout or an error; *)
(* 0 lets the process go on.                                                 *)
DoItReturns ==
  /\ pc["driver"] = "doit"
  /\ Goto("driver", "close") \/ Goto("driver", "cleanup")
  /\ UNCHANGED <<nodes, fds, sp, nbd, socfd, handlers>>

----------------------------------------------------------------------------
(* The end of NbdDevOpen, in either process.                                 *)

(* Mutant of CloseOther: this process' own end is closed.                     *)
CloseOther_Own(p) == sp[p][1]

CloseOther(p) == sp[p][2]

(* close(sp[1]); return sp[0].                                               *)
NbdDevOpenReturns(p) ==
  /\ pc[p] = "close"
  /\ fds' = [fds EXCEPT ![p] = Close(@, CloseOther(p))]
  /\ socfd' = [socfd EXCEPT ![p][0] = sp[p][1]]
  /\ Goto(p, "connect")
  /\ UNCHANGED <<nodes, sp, nbd, handlers>>

(* Mutant of FailArr: the third one keeps its initial 0.                      *)
FailArr_NoNbd(p) == <<sp[p][1], sp[p][2], 0>>

FailArr(p) == <<sp[p][1], sp[p][2], nbd[p]>>

(* CleanUp closes from the front and gives up at the first close that fails. *)
CleanUp(p, tab) ==
  LET arr == FailArr(p)
      Fails(k) == \/ arr[k] \notin Fds \/ tab[arr[k]] = Closed
                  \/ \E j \in 1 .. k - 1 : arr[j] = arr[k]
      done == {arr[k] : k \in {k \in 1 .. 3 : \A j \in 1 .. k : ~Fails(j)}}
  IN [f \in Fds |-> IF f \in done THEN Closed ELSE tab[f]]

NbdDevOpenFails(p) ==
  /\ pc[p] = "cleanup"
  /\ fds' = [fds EXCEPT ![p] = CleanUp(p, @)]
  /\ Goto(p, "failed")
  /\ UNCHANGED <<nodes, sp, nbd, socfd, handlers>>

----------------------------------------------------------------------------
(* main.                                                                     *)

Exit(p) ==
  /\ fds' = [fds EXCEPT ![p] = NoneOpen]
  /\ handlers' = [handlers EXCEPT ![p] = [f \in Fds |-> NoHandler]]
  /\ Goto(p, "gone")

(* The connection main makes next.                                           *)
NextNode(p) == Cardinality({i \in 1 .. nodes : socfd[p][i] # 0}) + 1

(* InitSocket and connect.  A socket that could not be made is -1, which      *)
(* connect refuses.                                                          *)
InitSocket(p) ==
  LET i == NextNode(p) IN
  /\ pc[p] = "connect"
  /\ i <= nodes
  /\ \/ /\ socfd' = [socfd EXCEPT ![p][i] = Lowest(fds[p])]
        /\ fds' = [fds EXCEPT ![p] = Opened(@, Node(i))]
        /\ UNCHANGED <<pc, handlers>>
     \/ Exit(p) /\ UNCHANGED socfd
  /\ UNCHANGED <<nodes, sp, nbd>>

(* RegisterReadHandler for socfd[0], then for the nodes: the last one for a  *)
(* descriptor is kept.                                                       *)
RegisterReadHandlers(p) ==
  /\ pc[p] = "connect"
  /\ NextNode(p) > nodes
  /\ handlers' = [handlers EXCEPT ![p] = [f \in Fds |->
       LET is == {i \in 0 .. nodes : socfd[p][i] = f} IN
         IF is = {} THEN NoHandler ELSE Max(is)]]
  /\ Goto(p, "run")
  /\ UNCHANGED <<nodes, fds, sp, nbd, socfd>>

(* NbdDevOpen returned -1 and main returns 1.                                *)
MainReturns(p) ==
  /\ pc[p] = "failed"
  /\ Exit(p)
  /\ UNCHANGED <<nodes, sp, nbd, socfd>>

(* A node closes its connection, which ends the reactor's process likewise,   *)
(* or a process is killed.                                                   *)
Dies(p) ==
  /\ pc[p] \in {"run", "doit"}
  /\ Exit(p)
  /\ UNCHANGED <<nodes, sp, nbd, socfd>>

Steps(p) ==
  \/ NbdDevOpenReturns(p) \/ NbdDevOpenFails(p) \/ InitSocket(p)
  \/ RegisterReadHandlers(p) \/ MainReturns(p)

StartUp == OpenDevice \/ SocketPair \/ Fork \/ DoIt
NbdDevNext == StartUp \/ DoItReturns \/ \E p \in Procs : Steps(p) \/ Dies(p)
=============================================================================
