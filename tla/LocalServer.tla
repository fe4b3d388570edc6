----------------------------- MODULE LocalServer -----------------------------
(***************************************************************************)
(* The local server as it runs: NbdDev's two processes, and in the server    *)
(* LocalStore's handler.  The other programs are here too, up to where their *)
(* reactor runs; what they then do is in Atlas and AtlasSingle.              *)
(***************************************************************************)
EXTENDS NbdDev, LocalStore

vars == <<devVars, storeVars>>

Init == DevInit /\ StoreInit

(* The kernel's driver writes requests to sp[1] while NBD_DO_IT lasts.       *)
DriverIssues ==
  /\ nodes = 0 /\ pc["driver"] = "doit"
  /\ \E n \in Requests : KernelIssues(n)
  /\ UNCHANGED devVars

(* Run calls the handler on what the socket holds.  The reply goes out while  *)
(* some process holds the other end ...                                      *)
Serve ==
  /\ nodes = 0 /\ pc["server"] = "run"
  /\ \/ NbdRequestRead \/ Copy
     \/ ~EndOfFile(1) /\ NbdRequestDone
  /\ UNCHANGED devVars

(* ... else SIGPIPE or write_all's assertion ends the server.                *)
WriteFails ==
  /\ nodes = 0 /\ pc["server"] = "run"
  /\ req # NoRequest /\ copied = shape[req].len
  /\ EndOfFile(1)
  /\ Exit("server")
  /\ UNCHANGED <<nodes, sp, nbd, socfd, storeVars>>

(* Between requests the reactor finds its nbd socket at its end: read returns *)
(* 0, or -1 if the driver had not read all replies, and the assertion in      *)
(* read_all aborts.                                                          *)
ReadEnds(p) ==
  /\ pc[p] = "run" /\ req = NoRequest
  /\ \E f \in Fds : handlers[p][f] = 0 /\ fds[p][f] = Sp(0)
  /\ EndOfFile(1)
  /\ Exit(p)
  /\ UNCHANGED <<nodes, sp, nbd, socfd, storeVars>>

(* Both processes are gone.                                                  *)
Over == (\A p \in Procs : pc[p] = "gone") /\ UNCHANGED vars

Next ==
  \/ NbdDevNext /\ UNCHANGED storeVars
  \/ DriverIssues \/ Serve \/ WriteFails
  \/ \E p \in Procs : ReadEnds(p)
  \/ Over

(* Both processes run, and NBD_DO_IT returns at the latest when the server's  *)
(* end of its socket is closed.  Nothing is assumed of the kernel's requests  *)
(* and of who dies.                                                          *)
Spec ==
  /\ Init /\ [][Next]_vars
  /\ WF_vars(Serve \/ WriteFails) /\ WF_vars(ReadEnds("server"))
  /\ WF_vars(StartUp /\ UNCHANGED storeVars)
  /\ WF_vars(EndOfFile(0) /\ DoItReturns /\ UNCHANGED storeVars)
  /\ \A p \in Procs : WF_vars(Steps(p) /\ UNCHANGED storeVars)
----------------------------------------------------------------------------
(* Properties.                                                               *)

(* What the variables range over.                                            *)
DevTypeOK ==
  /\ nodes \in NodeCounts
  /\ pc \in [Procs -> {"open", "pair", "fork", "forked", "doit", "close", "cleanup",
                       "failed", "connect", "run", "gone"}]
  /\ fds \in [Procs -> [Fds -> {Closed, Std, Nbd, Sp(0), Sp(1)} \cup {Node(i) : i \in 1 .. nodes}]]
  /\ sp \in [Procs -> (Fds \cup {-1}) \X (Fds \cup {-1})]
  /\ nbd \in [Procs -> Fds \cup {-1}]
  /\ socfd \in [Procs -> [0 .. nodes -> Fds]]
  /\ handlers \in [Procs -> [Fds -> 0 .. nodes \cup {NoHandler}]]

TypeOK == DevTypeOK /\ StoreTypeOK

(* The kernel's requests reach one reader.  The forked process may come out   *)
(* of NBD_DO_IT, connect to the nodes and run a reactor as the server does,   *)
(* while the server still runs; it never has a handler on the server's end    *)
(* of the socket, which it would read requests from.                         *)
OneServerReadsTheDevice ==
  \A f \in Fds : handlers["driver"][f] # NoHandler => fds["driver"][f] # Sp(0)

(* In the server each handler is registered for the descriptor of its own     *)
(* socket, although sockets made later take over the number sp[1] had.        *)
HandlersOnTheirSockets ==
  pc["server"] = "run" =>
    \A i \in 0 .. nodes :
      /\ handlers["server"][socfd["server"][i]] = i
      /\ fds["server"][socfd["server"][i]] = IF i = 0 THEN Sp(0) ELSE Node(i)

(* A server whose set-up fails after it made the socket pair gives back every *)
(* descriptor before main returns.  (Before that, CleanUp is given numbers    *)
(* nobody set; in the forked process it gives up at the socket closed before.) *)
FailureReleasesAll ==
  pc["server"] = "failed" /\ sp["server"][1] > 2 =>
    \A f \in Fds : fds["server"][f] \in {Closed, Std}

(* Neither process outlives the other in its role.  When the server is gone,  *)
(* wherever it stopped, the driver leaves NBD_DO_IT; when the driver has left *)
(* it, a running server sees the end of its socket and stops.                *)
EndTogether ==
  /\ pc["driver"] \in {"forked", "doit"} /\ pc["server"] = "gone" ~> pc["driver"] \notin {"forked", "doit"}
  /\ pc["server"] = "run" /\ pc["driver"] \notin {"forked", "doit"} ~> pc["server"] = "gone"

(* Every request is answered, a DISC and one issued before the server was up  *)
(* too, unless the driver or the server is gone.                             *)
RequestsAreAnswered ==
  \A n \in Requests :
    Issued(n) ~> Len(answers[n]) = 1 \/ pc["driver"] # "doit" \/ pc["server"] = "gone"
=============================================================================
