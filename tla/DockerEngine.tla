---------------------------- MODULE DockerEngine ----------------------------
(***************************************************************************)
(* The Docker engine as internal/docker/client.go uses it: a set of        *)
(* containers, each with a life-cycle state, a name that no two existing   *)
(* containers share, and the tag of the image it was created from.  The    *)
(* engine is outside the repository; every operator below is one engine    *)
(* call, written as the set of containers it leaves behind.  A call that   *)
(* the engine refuses leaves the set as it was, so the caller only has to  *)
(* know whether the call was possible.                                     *)
(*                                                                         *)
(* A "containers" argument c is a function from container identities to    *)
(* records [state, name, tag].  An identity is "unused" until its          *)
(* container is created and "removed" for ever after.                      *)
(***************************************************************************)

ContainerStates == {"unused", "created", "running", "stopped", "removed"}

Exists(c, k) == c[k].state \in {"created", "running", "stopped"}

\* ContainerInspect by name: the container that holds the name, if any.
Named(c, name) == {k \in DOMAIN c : Exists(c, k) /\ c[k].name = name}

Running(c, name) == {k \in Named(c, name) : c[k].state = "running"}

SetState(c, K, state) ==
  [k \in DOMAIN c |-> IF k \in K THEN [c[k] EXCEPT !.state = state] ELSE c[k]]

SetName(c, K, name) ==
  [k \in DOMAIN c |-> IF k \in K THEN [c[k] EXCEPT !.name = name] ELSE c[k]]

\* ContainerCreate: refused when the name is taken.
CreateContainer(c, k, name, tag) ==
  IF Named(c, name) = {}
  THEN [c EXCEPT ![k] = [state |-> "created", name |-> name, tag |-> tag]]
  ELSE c

\* ContainerStart of the existing containers of K; one made from an image
\* whose process cannot be started stays as it is.
Startable(c, K, broken) == {k \in K : Exists(c, k) /\ c[k].tag \notin broken}

StartContainer(c, K, broken) == SetState(c, Startable(c, K, broken), "running")

\* ContainerStop: a container that does not run is left alone.
StopContainer(c, name) == SetState(c, Running(c, name), "stopped")

\* ContainerRename: refused when the new name is taken.
RenameContainer(c, name, newName) ==
  IF Named(c, newName) = {} THEN SetName(c, Named(c, name), newName) ELSE c

\* ContainerRemove with Force: whatever the container's state.
RemoveContainer(c, K) == SetState(c, {k \in K : Exists(c, k)}, "removed")

\* ContainerRestart: stop, then start.
RestartContainer(c, name, broken) ==
  StartContainer(StopContainer(c, name), Named(c, name), broken)
=============================================================================
