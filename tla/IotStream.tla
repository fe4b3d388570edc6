------------------------------ MODULE IotStream ------------------------------
(***************************************************************************)
(* The connection of atlas_iots to one IoT node as the two byte streams it    *)
(* is.  Atlas takes it for two queues of whole messages; here messages are    *)
(* sent and arrive in pieces: the two halves of the request's uid, one for    *)
(* the rest of the header, one for the data.  Two things break the framing:   *)
(* a sendmsg that waits for room in the middle of its message while another   *)
(* worker's goes on (split), and a Peek that finds only half of a uid (torn). *)
(*                                                                         *)
(* A request has one fragment on this node and none elsewhere.               *)
(***************************************************************************)
EXTENDS Integers, Sequences, FiniteSets

CONSTANTS
  Workers,
  Uids,    (* the uids, <<low half, high half>>, of the requests             *)
  OutCap,  (* pieces that fit into the connection to the node ...           *)
  InCap    (* ... and from it                                               *)

NoUid == <<"none", "none">>

ASSUME StreamAssumption ==
  /\ OutCap \in Nat \ {0} /\ InCap \in Nat \ {0}
  /\ NoUid \notin Uids /\ \A u \in Uids : u = <<u[1], u[2]>>

VARIABLES
  type,      (* [Uids -> the request's type, or "NONE" before it is issued]  *)
  active,    (* uids in m_activeRequests                                    *)
  tasks,     (* uids whose command no worker has taken up                   *)
  out,       (* [Workers -> pieces its sendmsg has still to send]           *)
  midway,    (* the workers that have sent a part                           *)
  toIot,     (* the connection to the node ...                              *)
  toSrv,     (* ... and from it                                             *)
  command,   (* what the node has read of a command                         *)
  reply,     (* what the node has still to send of a reply                  *)
  host,      (* the request whose ReadReply runs, or NoUid                  *)
  got,       (* what it has received                                        *)
  answered,  (* uids of the requests answered                               *)
  split,     (* history: a sendmsg went on in the middle of another         *)
  torn,      (* history: a Peek found half a uid                            *)
  crashed    (* a null host was called                                      *)

workerVars == <<tasks, out, midway, toIot, split>>
nodeVars   == <<command, reply>>
hostVars   == <<active, host, got, answered, torn, crashed>>
vars == <<type, workerVars, toSrv, nodeVars, hostVars>>

Types == {"READ", "WRITE"}

Init ==
  /\ type = [u \in Uids |-> "NONE"] /\ active = {} /\ tasks = {}
  /\ out = [w \in Workers |-> <<>>] /\ midway = {} /\ toIot = <<>> /\ toSrv = <<>>
  /\ command = <<>> /\ reply = <<>>
  /\ host = NoUid /\ got = <<>> /\ answered = {}
  /\ split = FALSE /\ torn = FALSE /\ crashed = FALSE

(* A message: the header, and the data of a WRITE's command and a READ's      *)
(* reply.                                                                    *)
Message(u, t, data) == <<u[1], u[2], t>> \o IF data THEN <<"data">> ELSE <<>>

(* NbdRequestsHandle registers a new request and queues its task.            *)
NbdRequestsHandle(u) ==
  /\ ~crashed /\ host = NoUid /\ type[u] = "NONE"
  /\ \E t \in Types : type' = [type EXCEPT ![u] = t]
  /\ active' = active \cup {u} /\ tasks' = tasks \cup {u}
  /\ UNCHANGED <<out, midway, toIot, split, toSrv, nodeVars, host, got, answered, torn, crashed>>

SendMsgWrapper(w) ==
  /\ ~crashed /\ out[w] = <<>>
  /\ \E u \in tasks :
       /\ tasks' = tasks \ {u}
       /\ out' = [out EXCEPT ![w] = Message(u, type[u], type[u] = "WRITE")]
  /\ UNCHANGED <<type, midway, toIot, split, toSrv, nodeVars, hostVars>>

(* sendmsg under the socket's lock: what there is room for.  It waits for     *)
(* more without the lock.                                                    *)
SendRequest(w) ==
  LET room == OutCap - Len(toIot)
      k    == IF room < Len(out[w]) THEN room ELSE Len(out[w])
  IN
  /\ ~crashed /\ out[w] # <<>> /\ room > 0
  /\ toIot' = toIot \o SubSeq(out[w], 1, k)
  /\ out' = [out EXCEPT ![w] = SubSeq(@, k + 1, Len(@))]
  /\ midway' = IF k = Len(out[w]) THEN midway \ {w} ELSE midway \cup {w}
  /\ split' = (split \/ midway \ {w} # {})
  /\ UNCHANGED <<type, tasks, toSrv, nodeVars, hostVars>>

----------------------------------------------------------------------------
(* The node reads a command, then echoes its header, with the data of a READ. *)

Expected == IF Len(command) < 3 THEN 3 ELSE IF command[3] = "WRITE" THEN 4 ELSE 3

IotReads ==
  /\ ~crashed /\ toIot # <<>> /\ reply = <<>>
  /\ command = <<>> \/ Len(command) < Expected
  /\ command' = Append(command, Head(toIot))
  /\ toIot' = Tail(toIot)
  /\ UNCHANGED <<type, tasks, out, midway, split, toSrv, reply, hostVars>>

(* What a node does with a type that is none is left open; here, nothing.     *)
IotReplies ==
  /\ ~crashed /\ Len(command) = Expected /\ command[3] \in Types
  /\ reply' = Message(command, command[3], command[3] = "READ")
  /\ command' = <<>>
  /\ UNCHANGED <<type, workerVars, toSrv, hostVars>>

(* A reply arrives in any pieces.                                            *)
ReplyArrives ==
  /\ ~crashed /\ reply # <<>> /\ Len(toSrv) < InCap
  /\ toSrv' = Append(toSrv, Head(reply))
  /\ reply' = Tail(reply)
  /\ UNCHANGED <<type, workerVars, command, hostVars>>

----------------------------------------------------------------------------
(* The reactor.                                                              *)

(* recv_all with MSG_PEEK: what is missing after the first recv is asked for  *)
(* again, and peeking starts at the beginning of the stream again.           *)
Peek == IF Len(toSrv) = 1 THEN <<toSrv[1], toSrv[1]>> ELSE <<toSrv[1], toSrv[2]>>

(* IotHandle up to the call of ReadReply, on a null host if the uid is not    *)
(* registered.                                                               *)
IotHandle ==
  /\ ~crashed /\ host = NoUid /\ toSrv # <<>>
  /\ torn' = (torn \/ Len(toSrv) = 1)
  /\ \/ Peek \in active /\ host' = Peek /\ UNCHANGED crashed
     \/ Peek \notin active /\ crashed' = TRUE /\ UNCHANGED host
  /\ UNCHANGED <<type, workerVars, toSrv, nodeVars, active, got, answered>>

(* Mutant of ReplyLength: the data of a READ is left on the stream.           *)
ReplyLength_HeaderOnly == 3

ReplyLength == IF type[host] = "READ" THEN 4 ELSE 3

(* ReadReply's recv_all blocks until the next piece is there.                *)
RecvAll ==
  /\ ~crashed /\ host # NoUid /\ Len(got) < ReplyLength /\ toSrv # <<>>
  /\ got' = Append(got, Head(toSrv))
  /\ toSrv' = Tail(toSrv)
  /\ UNCHANGED <<type, workerVars, nodeVars, active, host, answered, torn, crashed>>

(* Mutants of Finished: the request is answered and stays registered; it is   *)
(* dropped without an answer.                                                *)
Finished_Kept ==
  /\ answered' = answered \cup {host}
  /\ UNCHANGED active

Finished_NoReply ==
  /\ active' = active \ {host}
  /\ UNCHANGED answered

(* NbdRequestDone and, in IotHandle, the erasure of the request.             *)
Finished ==
  /\ answered' = answered \cup {host}
  /\ active' = active \ {host}

(* The fragment the header names is erased from the set, which is empty if    *)
(* that was a header.                                                        *)
ReadReply ==
  /\ ~crashed /\ host # NoUid /\ Len(got) = ReplyLength
  /\ IF got[3] \in Types THEN Finished ELSE UNCHANGED <<answered, active>>
  /\ host' = NoUid /\ got' = <<>>
  /\ UNCHANGED <<type, workerVars, toSrv, nodeVars, torn, crashed>>

----------------------------------------------------------------------------
Iot     == IotReads \/ IotReplies \/ ReplyArrives
Reactor == IotHandle \/ RecvAll \/ ReadReply

Next ==
  \/ \E u \in Uids : NbdRequestsHandle(u)
  \/ \E w \in Workers : SendMsgWrapper(w) \/ SendRequest(w)
  \/ Iot \/ Reactor

(* Threads run, the node serves, and what it sends arrives.                  *)
Spec ==
  /\ Init /\ [][Next]_vars
  /\ \A w \in Workers : WF_vars(SendMsgWrapper(w) \/ SendRequest(w))
  /\ WF_vars(Iot) /\ WF_vars(ReplyArrives) /\ WF_vars(Reactor)
----------------------------------------------------------------------------
(* Properties.                                                               *)

Pieces == {u[1] : u \in Uids} \cup {u[2] : u \in Uids} \cup Types \cup {"data"}

(* What the variables range over; a request is registered until its answer.   *)
TypeOK ==
  /\ type \in [Uids -> Types \cup {"NONE"}]
  /\ active \subseteq Uids /\ answered \subseteq Uids \ active /\ tasks \subseteq Uids
  /\ out \in [Workers -> Seq(Pieces)] /\ midway \subseteq {w \in Workers : out[w] # <<>>}
  /\ toIot \in Seq(Pieces) /\ Len(toIot) <= OutCap
  /\ toSrv \in Seq(Pieces) /\ Len(toSrv) <= InCap
  /\ command \in Seq(Pieces) /\ reply \in Seq(Pieces)
  /\ host \in active \cup {NoUid} /\ got \in Seq(Pieces)
  /\ {split, torn, crashed} \subseteq BOOLEAN

(* The streams stay framed, for all the pieces they come in, until a sendmsg   *)
(* is split or a Peek torn: each reply is received by the request it is for,   *)
(* to its end, and none finds no request.  So Atlas may treat them as queues   *)
(* of messages under that proviso.                                           *)
RepliesMeetTheirRequest ==
  ~split /\ ~torn =>
    /\ ~crashed
    /\ host # NoUid =>
         got = SubSeq(Message(host, type[host], type[host] = "READ"), 1, Len(got))

(* Until then every request is answered, too, however small the connection:    *)
(* the workers wait for the node, the node for the reactor, the reactor only   *)
(* for the rest of a reply that has begun to arrive.                         *)
RequestsAreAnswered ==
  \A u \in Uids : u \in active ~> u \in answered \/ split \/ torn
=============================================================================
