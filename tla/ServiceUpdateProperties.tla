----------------------- MODULE ServiceUpdateProperties -----------------------
(***************************************************************************)
(* What the update, rollback and restart of a service promise.  The first  *)
(* group holds for requests that interleave in any way; the second is      *)
(* about an operator who waits for an answer before the next request       *)
(* (MaxInFlight = 1).                                                      *)
(***************************************************************************)
EXTENDS ServiceUpdate, FiniteSetsExt

ContainersOf(s) == {k \in Containers : Exists(ctr, k) /\ ctr[k].name[1] = s}

\* No service is ever left without a container: PullAndUpdate removes an old
\* container only after it has created another, whatever the interleaving, the
\* faults and the point at which the process ends.
NeverLost == \A s \in Services : ContainersOf(s) # {}

IsUp(s) == Running(ctr, LiveName(s)) # {}

\* With no request in flight, every service has a running container under its
\* own name: concurrent updates may spoil each other, but the undo path of one
\* always leaves the service to another that succeeds.
UpAtRest == Active = {} => \A s \in Services : IsUp(s)

\* A row of update_history that says "success" belongs to a request whose own
\* container was started, from the image the row names.
SuccessMeansStarted ==
  \A r \in Requests :
    req[r].updateID # 0 =>
      LET row == history[req[r].updateID]
      IN  /\ row.svc = req[r].svc /\ row.to = req[r].tag
          /\ row.status = "success" =>
               /\ ctr[r].state \notin {"unused", "created"}
               /\ ctr[r].tag = row.to /\ ctr[r].name[1] = row.svc

\* History is append-only, and a row is closed once, by the request that opened
\* it, whatever other requests write in between.
HistoryIsFinal ==
  [][/\ Len(history') >= Len(history)
     /\ \A i \in DOMAIN history :
          history'[i] # history[i] =>
            /\ history[i].status = "in_progress"
            /\ \E r \in Requests : /\ req[r].updateID = i
                                   /\ pc[r] # pc'[r]
                                   /\ pc'[r] = IF history'[i].status = "failed"
                                               THEN "error" ELSE "audit"]_history

\* The history row of an update says what its caller was told, even when the
\* caller has gone: the status is written without the request's context.
HistoryMatchesAnswer ==
  \A r \in Requests :
    req[r].updateID # 0 =>
      /\ At(r, "ok") => history[req[r].updateID].status = "success"
      /\ At(r, "error") => history[req[r].updateID].status = "failed"

-----------------------------------------------------------------------------
\* The operator who waits for an answer finds one container per service, under
\* its own name and running: no "_old_" container is left, failed update or not.
CleanAtRest ==
  Active = {} =>
    \A s \in Services : \E k \in Containers :
      ContainersOf(s) = {k} /\ Running(ctr, LiveName(s)) = {k}

RunningTag(s) == TagOf(Running(ctr, LiveName(s)))

\* At rest, the last successful row of update_history names the tag a service
\* runs, as long as nobody has rolled it back: rollbacks write no row.
RolledBack(s) == \E i \in DOMAIN audit : audit[i].action = "rollback" /\ audit[i].svc = s

Successes(s) ==
  {i \in DOMAIN history : history[i].svc = s /\ history[i].status = "success"}

LastSuccess(s) ==
  IF Successes(s) = {} THEN InitTag ELSE history[Max(Successes(s))].to

HistoryExplainsTag ==
  Active = {} =>
    \A s \in Services : RolledBack(s) \/ RunningTag(s) = LastSuccess(s)

\* At rest, the last row of audit_log about an update or a rollback names it.
Deploys(i) == audit[i].action \in {"update", "rollback"}

DeploymentsOf(s) == {i \in DOMAIN audit : audit[i].svc = s /\ Deploys(i)}

LastDeployment(s) ==
  IF DeploymentsOf(s) = {} THEN InitTag ELSE audit[Max(DeploymentsOf(s))].new

AuditExplainsTag ==
  Active = {} => \A s \in Services : RunningTag(s) = LastDeployment(s)

(***************************************************************************)
(* For that operator ServiceUpdate implements ServiceDeploy.  A service is *)
(* down when nothing runs under any of its names; what it ran then is the  *)
(* stopped container that nobody has removed.                              *)
(***************************************************************************)
In(s, state) == {k \in ContainersOf(s) : ctr[k].state = state}

Deployed(s) == IF In(s, "running") # {} THEN TagOf(In(s, "running"))
                                        ELSE TagOf(In(s, "stopped"))

Unlogged(s) ==
  \E r \in Active : /\ req[r].svc = s
                   /\ pc[r] \in {"removeOld", "markSuccess", "audit"}
                   /\ req[r].kind # "restart"

Phase(s) == IF In(s, "running") = {} THEN "down"
            ELSE IF Unlogged(s) THEN "unlogged" ELSE "up"

\* The trail of the deployments, without the restarts.
Deployments ==
  LET upTo[i \in 0 .. Len(audit)] ==
        IF i = 0 THEN <<>>
        ELSE IF Deploys(i)
             THEN Append(upTo[i - 1], [svc |-> audit[i].svc, tag |-> audit[i].new])
             ELSE upTo[i - 1]
  IN  upTo[Len(audit)]

Deploy == INSTANCE ServiceDeploy WITH
  deployed <- [s \in Services |-> Deployed(s)],
  phase <- [s \in Services |-> Phase(s)],
  log <- Deployments

\* One request at a time, every step of the three handlers is a step of
\* ServiceDeploy or changes nothing it shows, and what is down comes back.
ImplementsServiceDeploy == Deploy!Spec

-----------------------------------------------------------------------------
(***************************************************************************)
(* What comments in the code say, and the code does not do.                *)
(***************************************************************************)
\* client.go, on the failure path of ContainerCreate: "Rollback: rename old
\* container back".  A request that answers an error leaves the service running.
FailureRollsBack ==
  \A r \in Requests : At(r, "error") /\ Active = {} => IsUp(req[r].svc)

\* client.go: "RollbackService restores previous container image": a rollback
\* that follows an update goes back to the tag that update replaced.
RollbackRestoresPrevious ==
  \A i \in 1 .. Len(audit) - 1 :
    /\ audit[i].action = "update" /\ audit[i].old # audit[i].new
    /\ audit[i + 1].action = "rollback" /\ audit[i + 1].svc = audit[i].svc
    => audit[i + 1].new = audit[i].old
=============================================================================
