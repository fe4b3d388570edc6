------------------------------ MODULE Executor ------------------------------
(***************************************************************************)
(* What ThreadPool promises its users: every task handed to it is started   *)
(* at most once, no more tasks run at a time than there are workers left, a *)
(* worker is spent by every task that returns BADAPPLE, and Future::Wait    *)
(* tells what the task returned, after it returned.  Tasks run in any       *)
(* order; nothing promises that a task is ever started.                     *)
(***************************************************************************)
EXTENDS Integers, FiniteSets

CONSTANTS
  Tasks,    (* identities of tasks                                          *)
  Results,  (* what a task's function may return                            *)
  Bad,      (* the result that stops a worker                               *)
  Slots     (* workers at the start                                         *)

VARIABLES
  phase,    (* [Tasks -> {"none", "queued", "running", "finished"}]         *)
  want,     (* [Tasks -> what its function will return]                     *)
  told,     (* [Tasks -> what Wait has returned for it]                     *)
  spent     (* workers stopped by a BADAPPLE                                *)

exVars == <<phase, want, told, spent>>

Unknown == "unknown"

Running == {t \in Tasks : phase[t] = "running"}

Init ==
  /\ phase = [t \in Tasks |-> "none"]
  /\ want = [t \in Tasks |-> Unknown]
  /\ told = [t \in Tasks |-> Unknown]
  /\ spent = 0

Submit(t) ==
  /\ phase[t] = "none"
  /\ phase' = [phase EXCEPT ![t] = "queued"]
  /\ \E r \in Results : want' = [want EXCEPT ![t] = r]
  /\ UNCHANGED <<told, spent>>

Start(t) ==
  /\ phase[t] = "queued"
  /\ Cardinality(Running) < Slots - spent
  /\ phase' = [phase EXCEPT ![t] = "running"]
  /\ UNCHANGED <<want, told, spent>>

Finish(t) ==
  /\ phase[t] = "running"
  /\ phase' = [phase EXCEPT ![t] = "finished"]
  /\ spent' = IF want[t] = Bad THEN spent + 1 ELSE spent
  /\ UNCHANGED <<want, told>>

Tell(t) ==
  /\ phase[t] = "finished"
  /\ told[t] = Unknown
  /\ told' = [told EXCEPT ![t] = want[t]]
  /\ UNCHANGED <<phase, want, spent>>

Next == \E t \in Tasks : Submit(t) \/ Start(t) \/ Finish(t) \/ Tell(t)

Spec == Init /\ [][Next]_exVars
=============================================================================
