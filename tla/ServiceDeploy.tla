---------------------------- MODULE ServiceDeploy ----------------------------
(***************************************************************************)
(* What an operator who makes one request at a time is promised: a service *)
(* is taken down only to be replaced, comes back either as it was or with  *)
(* the new tag, and a new tag is entered in the log before anything else   *)
(* is taken down.                                                          *)
(***************************************************************************)
EXTENDS Sequences

CONSTANTS Services, Tags, InitTag, Broken

VARIABLES
  deployed,  \* the tag each service runs, or ran when it was taken down
  phase,     \* each service is "up", "down", or "unlogged": up with a new tag
  log        \* the deployments entered in the audit trail

vars == <<deployed, phase, log>>

Init ==
  /\ deployed = [s \in Services |-> InitTag]
  /\ phase = [s \in Services |-> "up"]
  /\ log = <<>>

TakeDown(s) ==
  /\ \A any \in Services : phase[any] = "up"
  /\ phase' = [phase EXCEPT ![s] = "down"]
  /\ UNCHANGED <<deployed, log>>

Restore(s) ==
  /\ phase[s] = "down"
  /\ phase' = [phase EXCEPT ![s] = "up"]
  /\ UNCHANGED <<deployed, log>>

Deploy(s) ==
  /\ phase[s] = "down"
  /\ phase' = [phase EXCEPT ![s] = "unlogged"]
  /\ \E t \in Tags \ Broken : deployed' = [deployed EXCEPT ![s] = t]
  /\ UNCHANGED log

Log(s) ==
  /\ phase[s] = "unlogged"
  /\ phase' = [phase EXCEPT ![s] = "up"]
  /\ log' = Append(log, [svc |-> s, tag |-> deployed[s]])
  /\ UNCHANGED deployed

ComeBack(s) == Restore(s) \/ Deploy(s) \/ Log(s)

Next == \E s \in Services : TakeDown(s) \/ ComeBack(s)

Steps == Init /\ [][Next]_vars

\* Nobody is obliged to take a service down; what is down comes back, and what
\* was deployed is logged.
Spec == Steps /\ \A s \in Services : WF_vars(ComeBack(s))
=============================================================================
