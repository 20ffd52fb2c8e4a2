---------------------------- MODULE ServiceUpdate ----------------------------
(***************************************************************************)
(* The update, rollback and restart of a service:                          *)
(* internal/api/services_handler.go (Restart, Update, Rollback), the       *)
(* functions of internal/docker/client.go they call (InspectService,       *)
(* PullAndUpdate, RollbackService, RestartService) and the rows they write *)
(* in internal/store/sqlite.go (update_history, audit_log).                *)
(*                                                                         *)
(* net/http runs every request in a goroutine of its own and no lock is    *)
(* taken, so each call to the engine or to SQLite is one atomic step and   *)
(* requests interleave between the calls.  Every engine call is made with  *)
(* the request's context: once the client has gone, each later call fails. *)
(*                                                                         *)
(* A definition Name_Variant is a plausible mistake in Name; nothing here  *)
(* uses it.  The properties are shown to notice it.                        *)
(***************************************************************************)
EXTENDS DockerEngine, Naturals, Sequences, FiniteSets

CONSTANTS
  Services,    \* container names the operator manages
  Requests,    \* identities of the HTTP requests of a behaviour
  Tags,        \* image tags that can be asked for
  InitTag,     \* the tag every service runs at first
  Latest,      \* the tag "latest"
  NoTag,       \* the empty string where a tag is expected
  ImageOrder,  \* tags in the order in which ImageList returns the images
  Broken,      \* tags of images whose container the engine cannot start
  Kinds,       \* the kinds of request made
  Faults,      \* what may go wrong
  MaxInFlight, \* requests in flight at once (1: an operator who waits)
  MaxClock     \* bound on the clock, in seconds

FaultKinds == {"pull", "engine", "cancel", "exit", "sqlite"}

ASSUME ServicesAssumption ==
  /\ IsFiniteSet(Services) /\ IsFiniteSet(Requests)
  /\ Services \cap Requests = {}
ASSUME TagsAssumption ==
  /\ InitTag \in Tags /\ NoTag \notin Tags
  /\ ImageOrder \in Seq(Tags)
  /\ Broken \subseteq Tags \ {InitTag}
ASSUME RequestsAssumption ==
  /\ Kinds \subseteq {"update", "rollback", "restart"}
  /\ Faults \subseteq FaultKinds
ASSUME BoundsAssumption == MaxInFlight \in Nat /\ MaxClock \in Nat \ {0}

VARIABLES
  ctr,       \* the engine's containers, by identity
  images,    \* the tags each service's repository has on this host
  history,   \* the table update_history, row id = position
  audit,     \* the table audit_log (rows about services)
  now,       \* the clock, to the second
  pc,        \* where each request's handler is
  req,       \* the handler's local variables
  cancelled  \* has the request's context been cancelled?

engineVars == <<ctr, images>>
storeVars == <<history, audit>>
vars == <<ctr, images, history, audit, now, pc, req, cancelled>>

(***************************************************************************)
(* Containers and names.  Before any request, service s is served by the   *)
(* container s; a request r creates at most one container, r.  A service   *)
(* has its live name and the "_old_" names, one per second.                *)
(***************************************************************************)
Containers == Services \cup Requests
LiveName(s) == <<s, 0>>
OldName(s, second) == <<s, second>>
Names == Services \X Nat
NoName == <<>>

Terminal == {"ok", "error", "lost"}
Labels == {"idle", "inspectFrom", "record", "inspect", "pull", "copy", "stop",
           "rename", "create", "start", "removeNew", "undoRename", "undoStart",
           "removeOld", "markFailed", "markSuccess", "audit", "inspectTag",
           "listImages", "restart"} \cup Terminal

Active == {r \in Requests : pc[r] \notin Terminal \cup {"idle"}}

FirstLabel ==
  [update |-> "inspectFrom", rollback |-> "inspectTag", restart |-> "restart"]

NewRequest(k, s, t) == [kind |-> k, svc |-> s, tag |-> t, from |-> NoTag,
                        updateID |-> 0, oldName |-> NoName]
NoRequest == NewRequest("none", NoTag, NoTag)

AllNames == Names \cup {NoName}
AllTags == Tags \cup {NoTag}

HistoryRows == [svc : Services, from : AllTags, to : Tags,
                status : {"in_progress", "failed", "success"}]
AuditRows == [action : Kinds, svc : Services, old : AllTags, new : AllTags]
Locals == [kind : Kinds \cup {"none"}, svc : Services \cup {NoTag},
           tag : AllTags, from : AllTags,
           updateID : Nat, oldName : AllNames]

TypeOK ==
  /\ ctr \in [Containers -> [state : ContainerStates, name : AllNames,
                             tag : AllTags]]
  /\ images \in [Services -> SUBSET Tags]
  /\ history \in Seq(HistoryRows)
  /\ audit \in Seq(AuditRows)
  /\ now \in 1 .. MaxClock
  /\ pc \in [Requests -> Labels]
  /\ req \in [Requests -> Locals]
  /\ cancelled \in [Requests -> BOOLEAN]

Init ==
  /\ ctr = [k \in Containers |->
              IF k \in Services
              THEN [state |-> "running", name |-> LiveName(k), tag |-> InitTag]
              ELSE [state |-> "unused", name |-> NoName, tag |-> NoTag]]
  /\ images = [s \in Services |-> {InitTag}]
  /\ history = <<>>
  /\ audit = <<>>
  /\ now = 1
  /\ pc = [r \in Requests |-> "idle"]
  /\ req = [r \in Requests |-> NoRequest]
  /\ cancelled = [r \in Requests |-> FALSE]

-----------------------------------------------------------------------------
(***************************************************************************)
(* An engine call.  "ok": performed and answered; "refused": not           *)
(* performed, an error answered; "unanswered": performed, but the caller   *)
(* sees an error; "cut": the same, because the context was cancelled       *)
(* during the call.  After cancellation every call is refused at once.     *)
(***************************************************************************)
Outcomes(r) ==
  IF cancelled[r] THEN {"refused"}
  ELSE {"ok"}
       \cup (IF "engine" \in Faults THEN {"refused", "unanswered"} ELSE {})
       \cup (IF "cancel" \in Faults THEN {"cut"} ELSE {})

\* The call, with its outcome o, turns the containers into effect.
Perform(r, o, effect) ==
  /\ ctr' = IF o = "refused" THEN ctr ELSE effect
  /\ cancelled' = [cancelled EXCEPT ![r] = @ \/ o = "cut"]

\* A call after which the handler goes on at next, or at onError when it sees
\* an error.
EngineCall(r, possible, effect, next, onError) ==
  \E o \in Outcomes(r) :
    /\ Perform(r, o, effect)
    /\ pc' = [pc EXCEPT ![r] = IF o = "ok" /\ possible THEN next ELSE onError]

\* An engine call whose error the code drops.
EngineCallIgnored(r, effect, next) == EngineCall(r, TRUE, effect, next, next)

At(r, label) == pc[r] = label
Goto(r, label) == pc' = [pc EXCEPT ![r] = label]

Live(r) == Named(ctr, LiveName(req[r].svc))
TagOf(K) == (ctr[CHOOSE k \in K : TRUE]).tag

\* A SQLite statement, with s the table it leaves when it succeeds.
Stored(table, s) == {s} \cup (IF "sqlite" \in Faults THEN {table} ELSE {})

-----------------------------------------------------------------------------
\* A request reaches its handler with a valid path and body.
Begin(r) ==
  /\ At(r, "idle")
  /\ Cardinality(Active) < MaxInFlight
  /\ \E k \in Kinds, s \in Services :
       \E t \in IF k = "update" THEN Tags ELSE {NoTag} :
         /\ req' = [req EXCEPT ![r] = NewRequest(k, s, t)]
         /\ Goto(r, FirstLabel[k])
  /\ UNCHANGED <<engineVars, storeVars, now, cancelled>>

\* Update reads the current version; an error leaves fromTag empty.
InspectService(r) ==
  /\ At(r, "inspectFrom")
  /\ \E o \in Outcomes(r) :
       /\ Perform(r, o, ctr)
       /\ req' = [req EXCEPT ![r].from =
                    IF o = "ok" /\ Live(r) # {} THEN TagOf(Live(r)) ELSE NoTag]
  /\ Goto(r, "record")
  /\ UNCHANGED <<images, storeVars, now>>

\* The history row is opened; on an error updateID stays 0.
NewRow_Swapped(r) ==
  [svc |-> req[r].svc, from |-> req[r].tag, to |-> req[r].from,
   status |-> "in_progress"]
NewRow(r) ==
  [svc |-> req[r].svc, from |-> req[r].from, to |-> req[r].tag,
   status |-> "in_progress"]

RecordUpdate(r) ==
  /\ At(r, "record")
  /\ history' \in Stored(history, Append(history, NewRow(r)))
  /\ req' = [req EXCEPT ![r].updateID =
               IF history' = history THEN 0 ELSE Len(history')]
  /\ Goto(r, "inspect")
  /\ UNCHANGED <<engineVars, audit, now, cancelled>>

\* Where the handler goes when PullAndUpdate returns an error.
OnFailure(r) == IF req[r].kind = "update" THEN "markFailed" ELSE "error"

\* PullAndUpdate needs the current container's configuration.
Inspect(r) ==
  /\ At(r, "inspect")
  /\ EngineCall(r, Live(r) # {}, ctr, "pull", OnFailure(r))
  /\ UNCHANGED <<images, storeVars, now, req>>

\* The registry may refuse a pull, or break it off.
PullOutcomes(r) ==
  Outcomes(r) \cup (IF "pull" \in Faults THEN {"refused"} ELSE {})

ImagePull(r) ==
  /\ At(r, "pull")
  /\ \E o \in PullOutcomes(r) :
       /\ Perform(r, o, ctr)
       /\ Goto(r, IF o = "ok" THEN "copy" ELSE OnFailure(r))
  /\ UNCHANGED <<images, storeVars, now, req>>

\* io.Copy drains the progress stream and its result is dropped: a pull that
\* breaks off leaves the image missing and the handler goes on.
CopyPullStream(r) ==
  /\ At(r, "copy")
  /\ \E o \in PullOutcomes(r) :
       /\ Perform(r, o, ctr)
       /\ images' = IF o \in {"ok", "unanswered"}
                    THEN [images EXCEPT ![req[r].svc] = @ \cup {req[r].tag}]
                    ELSE images
  /\ Goto(r, "stop")
  /\ UNCHANGED <<storeVars, now, req>>

\* Stop and rename: neither result is looked at.
StopOld(r) ==
  /\ At(r, "stop")
  /\ EngineCallIgnored(r, StopContainer(ctr, LiveName(req[r].svc)), "rename")
  /\ UNCHANGED <<images, storeVars, now, req>>

RenameOld(r) ==
  /\ At(r, "rename")
  /\ LET oldName == OldName(req[r].svc, now)
     IN  /\ EngineCallIgnored(r,
              RenameContainer(ctr, LiveName(req[r].svc), oldName), "create")
         /\ req' = [req EXCEPT ![r].oldName = oldName]
  /\ UNCHANGED <<images, storeVars, now>>

\* The new container needs the live name and the pulled image.
CanCreate(r) == Live(r) = {} /\ req[r].tag \in images[req[r].svc]

Created(r) ==
  IF CanCreate(r) THEN CreateContainer(ctr, r, LiveName(req[r].svc), req[r].tag)
                  ELSE ctr

CreateNew_ErrorIgnored(r) ==
  /\ At(r, "create")
  /\ EngineCall(r, CanCreate(r), Created(r), "start", "removeOld")
  /\ UNCHANGED <<images, storeVars, now, req>>
CreateNew_NoRenameBack(r) ==
  /\ At(r, "create")
  /\ EngineCall(r, CanCreate(r), Created(r), "start", "undoStart")
  /\ UNCHANGED <<images, storeVars, now, req>>
CreateNew(r) ==
  /\ At(r, "create")
  /\ EngineCall(r, CanCreate(r), Created(r), "start", "undoRename")
  /\ UNCHANGED <<images, storeVars, now, req>>

\* The new container is started by its identity.
Started(r) == StartContainer(ctr, {r}, Broken)
CanStart(r) == Startable(ctr, {r}, Broken) # {}

StartNew_ErrorIgnored(r) ==
  /\ At(r, "start")
  /\ EngineCall(r, CanStart(r), Started(r), "removeOld", "removeOld")
  /\ UNCHANGED <<images, storeVars, now, req>>
StartNew(r) ==
  /\ At(r, "start")
  /\ EngineCall(r, CanStart(r), Started(r), "removeOld", "removeNew")
  /\ UNCHANGED <<images, storeVars, now, req>>

\* The way back: remove the new container, give the old one its name, start it.
RemoveNew(r) ==
  /\ At(r, "removeNew")
  /\ EngineCallIgnored(r, RemoveContainer(ctr, {r}), "undoRename")
  /\ UNCHANGED <<images, storeVars, now, req>>

UndoRename(r) ==
  /\ At(r, "undoRename")
  /\ EngineCallIgnored(r,
       RenameContainer(ctr, req[r].oldName, LiveName(req[r].svc)), "undoStart")
  /\ UNCHANGED <<images, storeVars, now, req>>

UndoStart(r) ==
  /\ At(r, "undoStart")
  /\ EngineCallIgnored(r, StartContainer(ctr, Live(r), Broken), OnFailure(r))
  /\ UNCHANGED <<images, storeVars, now, req>>

\* The old container is removed by the name it was given.
Obsolete_Live(r) == Live(r)
Obsolete_None(r) == {}
Obsolete(r) == Named(ctr, req[r].oldName)

RemoveOld(r) ==
  /\ At(r, "removeOld")
  /\ EngineCallIgnored(r, RemoveContainer(ctr, Obsolete(r)),
                       IF req[r].kind = "update" THEN "markSuccess" ELSE "audit")
  /\ UNCHANGED <<images, storeVars, now, req>>

\* UpdateUpdateStatus: no row changes when the id matches none.
WithStatus_LastRow(id, status) ==
  IF history # <<>> THEN [history EXCEPT ![Len(history)].status = status] ELSE history
WithStatus(id, status) ==
  IF id \in DOMAIN history THEN [history EXCEPT ![id].status = status] ELSE history

MarkFailed_WithContext(r) ==
  /\ At(r, "markFailed")
  /\ history' \in Stored(history, IF cancelled[r] THEN history
                                   ELSE WithStatus(req[r].updateID, "failed"))
  /\ Goto(r, "error")
  /\ UNCHANGED <<engineVars, audit, now, req, cancelled>>
MarkFailed_AsSuccess(r) ==
  /\ At(r, "markFailed")
  /\ history' \in Stored(history, WithStatus(req[r].updateID, "success"))
  /\ Goto(r, "error")
  /\ UNCHANGED <<engineVars, audit, now, req, cancelled>>
MarkFailed(r) ==
  /\ At(r, "markFailed")
  /\ history' \in Stored(history, WithStatus(req[r].updateID, "failed"))
  /\ Goto(r, "error")
  /\ UNCHANGED <<engineVars, audit, now, req, cancelled>>

MarkSuccess(r) ==
  /\ At(r, "markSuccess")
  /\ history' \in Stored(history, WithStatus(req[r].updateID, "success"))
  /\ Goto(r, "audit")
  /\ UNCHANGED <<engineVars, audit, now, req, cancelled>>

\* Each handler's last step before it answers OK.  Only Update passes the old
\* tag; Restart passes no tag at all.
AuditRow_Swapped(r) ==
  [action |-> req[r].kind, svc |-> req[r].svc, old |-> req[r].tag, new |-> req[r].from]
AuditRow(r) ==
  [action |-> req[r].kind, svc |-> req[r].svc,
   old |-> IF req[r].kind = "update" THEN req[r].from ELSE NoTag,
   new |-> req[r].tag]

LogAudit(r) ==
  /\ At(r, "audit")
  /\ audit' \in Stored(audit, Append(audit, AuditRow(r)))
  /\ Goto(r, "ok")
  /\ UNCHANGED <<engineVars, history, now, req, cancelled>>

-----------------------------------------------------------------------------
\* RollbackService: the current tag, then the last image listed that is
\* neither the current one nor "latest".
InspectTag(r) ==
  /\ At(r, "inspectTag")
  /\ EngineCall(r, Live(r) # {}, ctr, "listImages", "error")
  /\ req' = [req EXCEPT ![r].from = IF Live(r) # {} THEN TagOf(Live(r)) ELSE NoTag]
  /\ UNCHANGED <<images, storeVars, now>>

PreviousTag(local, current) ==
  LET listed == {i \in DOMAIN ImageOrder :
                   ImageOrder[i] \in local \ {current, Latest}}
  IN  IF listed = {} THEN NoTag
      ELSE ImageOrder[CHOOSE i \in listed : \A j \in listed : j <= i]

ListImages(r) ==
  /\ At(r, "listImages")
  /\ LET previous == PreviousTag(images[req[r].svc], req[r].from)
     IN  /\ EngineCall(r, previous # NoTag, ctr, "inspect", "error")
         /\ req' = [req EXCEPT ![r].tag = previous]
  /\ UNCHANGED <<images, storeVars, now>>

Restart(r) ==
  /\ At(r, "restart")
  /\ EngineCall(r, Startable(ctr, Live(r), Broken) # {},
                RestartContainer(ctr, LiveName(req[r].svc), Broken),
                "audit", "error")
  /\ UNCHANGED <<images, storeVars, now, req>>

-----------------------------------------------------------------------------
\* The client goes away (or gives up) while its request is being handled.
Cancel(r) ==
  /\ "cancel" \in Faults
  /\ r \in Active /\ ~ cancelled[r]
  /\ cancelled' = [cancelled EXCEPT ![r] = TRUE]
  /\ UNCHANGED <<engineVars, storeVars, now, pc, req>>

\* SIGTERM (server.Close does not wait for handlers, main returns) or a crash;
\* the process is started again by its supervisor.
Exit ==
  /\ "exit" \in Faults
  /\ Active # {}
  /\ pc' = [r \in Requests |-> IF r \in Active THEN "lost" ELSE pc[r]]
  /\ UNCHANGED <<engineVars, storeVars, now, req, cancelled>>

Tick ==
  /\ now < MaxClock
  /\ now' = now + 1
  /\ UNCHANGED <<engineVars, storeVars, pc, req, cancelled>>

\* Every request of the behaviour has been answered or lost.
Finished ==
  /\ \A r \in Requests : pc[r] \in Terminal
  /\ UNCHANGED vars

Pull(r) == Inspect(r) \/ ImagePull(r) \/ CopyPullStream(r)
Switch(r) == StopOld(r) \/ RenameOld(r) \/ CreateNew(r) \/ StartNew(r) \/ RemoveOld(r)
Undo(r) == RemoveNew(r) \/ UndoRename(r) \/ UndoStart(r)
Store(r) == RecordUpdate(r) \/ MarkFailed(r) \/ MarkSuccess(r) \/ LogAudit(r)

Handler(r) ==
  \/ InspectService(r) \/ Pull(r) \/ Switch(r) \/ Undo(r) \/ Store(r)
  \/ InspectTag(r) \/ ListImages(r) \/ Restart(r)

Next ==
  \/ \E r \in Requests : Begin(r) \/ Handler(r) \/ Cancel(r)
  \/ Exit
  \/ Tick
  \/ Finished

Spec == Init /\ [][Next]_vars

\* A goroutine that can run is run; nobody is obliged to make a request, to go
\* away, or to stop the process.
FairSpec == Spec /\ \A r \in Requests : WF_vars(Handler(r))
=============================================================================
