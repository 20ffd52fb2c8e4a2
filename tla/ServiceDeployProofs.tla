------------------------- MODULE ServiceDeployProofs -------------------------
(***************************************************************************)
(* Proofs about services between requests. However many updates, rollbacks *)
(* and restarts overlap, they leave every service running when nothing     *)
(* fails; and the operator who waits for an answer finds nothing else than *)
(* the one container of each service, with the tag that the tables name.   *)
(* For that operator the handlers implement ServiceDeploy.                 *)
(***************************************************************************)
EXTENDS UpdateHistoryProofs

(***************************************************************************)
(* Requests that overlap.                                                  *)
(*                                                                         *)
(* A service that is not up has a request that will bring it up, or will   *)
(* leave that to another: whoever takes the live name away goes on to      *)
(* create, and is refused there only when the name has been taken again;   *)
(* whoever stops or does not get the name goes on to start what has it.    *)
(***************************************************************************)
NothingFails == Faults \subseteq {"sqlite"} /\ Broken = {}

LiveOf(s) == Named(ctr, LiveName(s))
AtOneOf(s, labels) == {r \in Requests : req[r].svc = s /\ pc[r] \in labels}

ComesUp(s) ==
  \/ IsUp(s)
  \/ AtOneOf(s, {"create"}) # {}
  \/ LiveOf(s) # {} /\ AtOneOf(s, {"rename", "undoRename", "undoStart"}) # {}
  \/ AtOneOf(s, {"start"}) \cap LiveOf(s) # {}

\* What a handler has made sure of on its way.
SureOf(r) ==
  /\ ~ cancelled[r]
  /\ pc[r] \in {"stop", "rename", "create"} => req[r].tag \in images[req[r].svc]
  /\ pc[r] = "removeNew" => ~ Exists(ctr, r)
  /\ pc[r] \in KnowsOldName => req[r].oldName # LiveName(req[r].svc)

UInv ==
  /\ TypeInv
  /\ \A r \in Requests : SureOf(r)
  /\ \A s \in Services : ComesUp(s)
USE DEF At, Goto

\* What each step of the handler that calls the engine does when the call is
\* carried out and answered.
Performs(r) ==
  LET s == req[r].svc IN
  /\ StopOld(r) => ctr' = StopContainer(ctr, LiveName(s)) /\ pc' = [pc EXCEPT ![r] = "rename"]
  /\ RenameOld(r) => /\ ctr' = RenameContainer(ctr, LiveName(s), OldName(s, now))
                     /\ pc' = [pc EXCEPT ![r] = "create"]
  /\ CreateNew(r) =>
       /\ ctr' = Created(r)
       /\ pc' = [pc EXCEPT ![r] = IF CanCreate(r) THEN "start" ELSE "undoRename"]
  /\ StartNew(r) =>
       /\ ctr' = Started(r)
       /\ pc' = [pc EXCEPT ![r] = IF CanStart(r) THEN "removeOld" ELSE "removeNew"]
  /\ RemoveNew(r) => /\ ctr' = RemoveContainer(ctr, {r})
                     /\ pc' = [pc EXCEPT ![r] = "undoRename"]
  /\ UndoRename(r) => /\ ctr' = RenameContainer(ctr, req[r].oldName, LiveName(s))
                      /\ pc' = [pc EXCEPT ![r] = "undoStart"]
  /\ UndoStart(r) => /\ ctr' = StartContainer(ctr, Live(r), Broken)
                     /\ pc' = [pc EXCEPT ![r] = OnFailure(r)]
  /\ RemoveOld(r) =>
       /\ ctr' = RemoveContainer(ctr, Obsolete(r))
       /\ pc' = [pc EXCEPT ![r] = IF req[r].kind = "update" THEN "markSuccess" ELSE "audit"]
  /\ Restart(r) =>
       /\ ctr' = RestartContainer(ctr, LiveName(s), Broken)
       /\ pc' = [pc EXCEPT ![r] = IF Startable(ctr, Live(r), Broken) # {}
                                  THEN "audit" ELSE "error"]

LEMMA AnsweredCalls ==
  ASSUME NEW r \in Requests, Outcomes(r) = {"ok"}
  PROVE  Performs(r)
BY DEF Performs, StopOld, RenameOld, CreateNew, StartNew, RemoveNew, UndoRename, UndoStart,
   RemoveOld, Restart, EngineCall, EngineCallIgnored, Perform

\* When nothing fails, every call is so.
LEMMA EveryCallAnswers ==
  ASSUME Faults \subseteq {"sqlite"}, NEW r \in Requests, ~ cancelled[r]
  PROVE  Outcomes(r) = {"ok"} /\ PullOutcomes(r) = {"ok"}
BY DEF Outcomes, PullOutcomes

LEMMA CallsDo ==
  ASSUME UInv, NothingFails, NEW r \in Requests
  PROVE  Performs(r)
BY EveryCallAnswers, AnsweredCalls DEF UInv, SureOf, NothingFails

\* The containers are an engine's, so their names are those of one service each.
LEMMA NamesApart ==
  ASSUME TypeInv
  PROVE  /\ ctr \in Engines(Containers, AllNames, AllTags) /\ UniqueNames(ctr)
         /\ \A s, t \in Services : s # t => LiveName(s) # LiveName(t)
         /\ \A s, t \in Services : LiveName(s) # OldName(t, now)
         /\ now \in Nat \ {0}
BY CtrType, BoundsAssumption DEF TypeInv, EngineOK, TypeOK, LiveName, OldName

\* The live container of s is still there, running if it was.
Keeps(s) == LiveOf(s)' = LiveOf(s) /\ (IsUp(s) => IsUp(s)')

\* What the engine calls do to what has a live name.
LEMMA StopAtLive ==
  ASSUME TypeInv, NEW s \in Services, ctr' = StopContainer(ctr, LiveName(s))
  PROVE  LiveOf(s)' = LiveOf(s) /\ \A t \in Services \ {s} : Keeps(t)
<1>1. ctr' = SetState(ctr, Running(ctr, LiveName(s)), "stopped")
  BY DEF StopContainer
<1>. QED
  BY <1>1, NamesApart
  DEF Engines, SetState, Running, Named, Exists, LiveOf, IsUp, Keeps

\* A start brings up what it starts and leaves up what is up.
LEMMA StartAtLive ==
  ASSUME TypeInv, NEW S, ctr' = StartContainer(ctr, S, {})
  PROVE  \A t \in Services : /\ Keeps(t)
                             /\ S \cap LiveOf(t) # {} => IsUp(t)'
<1>1. ctr' = SetState(ctr, {k \in S : Exists(ctr, k)}, "running")
  BY DEF StartContainer, Startable
<1>2. \A k \in Containers : /\ ctr'[k].name = ctr[k].name
                            /\ Exists(ctr', k) <=> Exists(ctr, k)
                            /\ ctr[k].state = "running" => ctr'[k].state = "running"
                            /\ k \in S /\ Exists(ctr, k) => ctr'[k].state = "running"
  BY <1>1, NamesApart DEF Engines, SetState, Exists
<1>3. DOMAIN ctr = Containers /\ DOMAIN ctr' = Containers
  BY <1>1, NamesApart DEF Engines, SetState
<1>. QED
  BY <1>2, <1>3 DEF Named, Running, LiveOf, IsUp, Keeps

\* A restart does so too.
LEMMA RestartAtLive ==
  ASSUME TypeInv, NEW s \in Services, ctr' = RestartContainer(ctr, LiveName(s), {})
  PROVE  \A t \in Services : Keeps(t)
<1>. DEFINE c == StopContainer(ctr, LiveName(s))
<1>1. /\ c = SetState(ctr, Running(ctr, LiveName(s)), "stopped")
      /\ ctr' = SetState(c, {k \in Named(ctr, LiveName(s)) : Exists(c, k)}, "running")
  BY DEF RestartContainer, StartContainer, Startable, StopContainer
<1>. HIDE DEF c
<1>2. DOMAIN ctr = Containers /\ DOMAIN c = Containers /\ DOMAIN ctr' = Containers
  BY <1>1, NamesApart DEF Engines, SetState
<1>3. \A k \in Containers :
        /\ c[k].name = ctr[k].name /\ (Exists(c, k) <=> Exists(ctr, k))
        /\ k \notin Named(ctr, LiveName(s)) => c[k].state = ctr[k].state
  BY <1>1, NamesApart DEF Engines, SetState, Running, Exists
<1>4. \A k \in Containers :
        /\ ctr'[k].name = c[k].name /\ (Exists(ctr', k) <=> Exists(c, k))
        /\ k \notin Named(ctr, LiveName(s)) => ctr'[k].state = c[k].state
        /\ k \in Named(ctr, LiveName(s)) => ctr'[k].state = "running"
  <2>1. \A k \in Containers : k \in Named(ctr, LiveName(s)) => Exists(c, k)
    BY <1>3 DEF Named
  <2>2. c \in Engines(Containers, AllNames, AllTags)
    BY NamesApart, StopKeeps DEF c
  <2>3. \A k \in Containers :
          ctr'[k] = IF k \in Named(ctr, LiveName(s)) THEN [c[k] EXCEPT !.state = "running"]
                                                    ELSE c[k]
    BY <1>1, <1>2, <2>1 DEF SetState
  <2>. QED
    BY <2>1, <2>2, <2>3 DEF Engines, Exists
<1>. QED
  BY <1>2, <1>3, <1>4 DEF Named, Running, LiveOf, IsUp, Keeps

\* A rename changes what has the two names, and only when the second is free.
LEMMA RenameAtLive ==
  ASSUME TypeInv, NEW old, NEW new, ctr' = RenameContainer(ctr, old, new)
  PROVE  /\ Named(ctr, new) # {} => ctr' = ctr
         /\ \A t \in Services : LiveName(t) \notin {old, new} => Keeps(t)
<1>1. CASE Named(ctr, new) # {}
  BY <1>1 DEF RenameContainer, Keeps, LiveOf, IsUp
<1>2. CASE Named(ctr, new) = {}
  <2>1. ctr' = SetName(ctr, Named(ctr, old), new)
    BY <1>2 DEF RenameContainer
  <2>2. DOMAIN ctr = Containers /\ DOMAIN ctr' = Containers
    BY <2>1, NamesApart DEF Engines, SetName
  <2>3. \A k \in Containers :
          /\ ctr'[k].state = ctr[k].state
          /\ IF k \in Named(ctr, old) THEN ctr'[k].name = new ELSE ctr'[k].name = ctr[k].name
    BY <2>1, NamesApart DEF Engines, SetName
  <2>. QED
    BY <1>2, <2>2, <2>3 DEF Named, Exists, Running, LiveOf, IsUp, Keeps
<1>. QED
  BY <1>1, <1>2

\* A removal under another name changes nothing that is live.
LEMMA RemoveAtLive ==
  ASSUME TypeInv, NEW name, ctr' = RemoveContainer(ctr, Named(ctr, name)),
         \A t \in Services : LiveName(t) # name
  PROVE  \A t \in Services : Keeps(t)
<1>1. ctr' = SetState(ctr, {k \in Named(ctr, name) : Exists(ctr, k)}, "removed")
  BY DEF RemoveContainer
<1>2. DOMAIN ctr = Containers /\ DOMAIN ctr' = Containers
  BY <1>1, NamesApart DEF Engines, SetState
<1>3. \A k \in Containers :
        /\ ctr'[k].name = ctr[k].name
        /\ ctr'[k].state = IF k \in Named(ctr, name) THEN "removed" ELSE ctr[k].state
  BY <1>1, NamesApart DEF Engines, SetState, Named
<1>. QED
  BY <1>2, <1>3 DEF Named, Exists, Running, LiveOf, IsUp, Keeps
-----------------------------------------------------------------------------
(***************************************************************************)
(* Steps.  Request r moves; s is its service.                              *)
(***************************************************************************)
Witnesses == {"create", "rename", "undoRename", "undoStart", "start"}

\* Only r moves.
OnlyMoves(r) ==
  \A q \in Requests \ {r} : pc'[q] = pc[q] /\ req'[q] = req[q]

\* A service that nobody touched comes up as before, if r is not who it waits for.
LEMMA BystanderComesUp ==
  ASSUME UInv, NEW r \in Requests, OnlyMoves(r), NEW t \in Services, Keeps(t),
         req[r].svc # t \/ pc[r] \notin Witnesses
  PROVE  ComesUp(t)'
<1>1. \A L \in SUBSET Witnesses : AtOneOf(t, L) \subseteq AtOneOf(t, L)'
  BY DEF OnlyMoves, AtOneOf
<1>2. /\ AtOneOf(t, {"create"}) \subseteq AtOneOf(t, {"create"})'
      /\ AtOneOf(t, {"start"}) \subseteq AtOneOf(t, {"start"})'
      /\ AtOneOf(t, {"rename", "undoRename", "undoStart"})
           \subseteq AtOneOf(t, {"rename", "undoRename", "undoStart"})'
  BY DEF OnlyMoves, AtOneOf, Witnesses
<1>. QED
  BY <1>2 DEF UInv, ComesUp, Keeps

\* When nothing has the live name, somebody other than r is about to create, unless r is.
LEMMA AnotherCreates ==
  ASSUME UInv, NEW r \in Requests, OnlyMoves(r), NEW s \in Services,
         LiveOf(s) = {}, pc[r] # "create"
  PROVE  ComesUp(s)'
<1>1. ~ IsUp(s)
  BY DEF IsUp, LiveOf, Running
<1>2. PICK q \in Requests \ {r} : req[q].svc = s /\ pc[q] = "create"
  BY <1>1 DEF UInv, ComesUp, AtOneOf
<1>. QED
  BY <1>2 DEF OnlyMoves, ComesUp, AtOneOf

\* Where r itself takes care of s.
LEMMA MoverCares ==
  ASSUME NEW r \in Requests, NEW s, req'[r].svc = s,
         \/ pc'[r] = "create"
         \/ pc'[r] \in {"rename", "undoRename", "undoStart"} /\ LiveOf(s)' # {}
         \/ pc'[r] = "start" /\ r \in LiveOf(s)'
  PROVE  ComesUp(s)'
BY DEF ComesUp, AtOneOf
\* Who moves, and what stays, at a step of a handler.
LEMMA HandlerMovesAlone ==
  ASSUME TypeInv, NEW r \in Requests, Handler(r)
  PROVE  OnlyMoves(r) /\ req'[r].svc = req[r].svc /\ req[r].svc \in Services
<1>1. PICK label : pc' = [pc EXCEPT ![r] = label]
  BY DEF Handler, InspectService, Pull, Inspect, ImagePull, CopyPullStream, Switch, StopOld,
     RenameOld, CreateNew, StartNew, RemoveOld, Undo, RemoveNew, UndoRename, UndoStart,
     Store, RecordUpdate, MarkFailed, MarkSuccess, LogAudit, InspectTag, ListImages,
     Restart, EngineCall, EngineCallIgnored
<1>2. \/ req' = req
      \/ \E v : req' = [req EXCEPT ![r].from = v]
      \/ \E v : req' = [req EXCEPT ![r].updateID = v]
      \/ \E v : req' = [req EXCEPT ![r].oldName = v]
      \/ \E v : req' = [req EXCEPT ![r].tag = v]
  BY DEF Handler, InspectService, Pull, Inspect, ImagePull, CopyPullStream, Switch, StopOld,
     RenameOld, CreateNew, StartNew, RemoveOld, Undo, RemoveNew, UndoRename, UndoStart,
     Store, RecordUpdate, MarkFailed, MarkSuccess, LogAudit, InspectTag, ListImages,
     Restart
<1>3. pc[r] # "idle"
  BY DEF Handler, InspectService, Pull, Inspect, ImagePull, CopyPullStream, Switch, StopOld,
     RenameOld, CreateNew, StartNew, RemoveOld, Undo, RemoveNew, UndoRename, UndoStart,
     Store, RecordUpdate, MarkFailed, MarkSuccess, LogAudit, InspectTag, ListImages,
     Restart
<1>. QED
  BY <1>1, <1>2, <1>3 DEF OnlyMoves, TypeInv, TypeOK, Locals, HandlerOK

\* A handler is not cut off, and no image is taken away.
LEMMA NothingIsLost ==
  ASSUME UInv, NothingFails, NEW r \in Requests, Handler(r)
  PROVE  cancelled' = cancelled /\ \A s \in Services : images[s] \subseteq images'[s]
<1>1. Outcomes(r) = {"ok"} /\ PullOutcomes(r) = {"ok"}
  BY EveryCallAnswers DEF UInv, SureOf, NothingFails
<1>2. cancelled' = cancelled
  BY <1>1 DEF Handler, InspectService, Pull, Inspect, ImagePull, CopyPullStream, Switch,
     StopOld, RenameOld, CreateNew, StartNew, RemoveOld, Undo, RemoveNew, UndoRename,
     UndoStart, Store, RecordUpdate, MarkFailed, MarkSuccess, LogAudit, InspectTag,
     ListImages, Restart, EngineCall, EngineCallIgnored, Perform, UInv, SureOf,
     TypeInv, TypeOK
<1>3. images' = images \/ images' = [images EXCEPT ![req[r].svc] = @ \cup {req[r].tag}]
  BY DEF Handler, InspectService, Pull, Inspect, ImagePull, CopyPullStream, Switch,
     StopOld, RenameOld, CreateNew, StartNew, RemoveOld, Undo, RemoveNew, UndoRename,
     UndoStart, Store, RecordUpdate, MarkFailed, MarkSuccess, LogAudit, InspectTag,
     ListImages, Restart, engineVars
<1>. QED
  BY <1>2, <1>3 DEF UInv, TypeInv, TypeOK

\* Only a request that creates its container brings one into existence.
LEMMA NoneAppears ==
  ASSUME UInv, NothingFails, NEW r \in Requests, Handler(r)
  PROVE  \A k \in Containers : Exists(ctr', k) => Exists(ctr, k) \/ (k = r /\ CreateNew(r))
<1>1. ctr \in Engines(Containers, AllNames, AllTags) /\ UniqueNames(ctr) /\ DOMAIN ctr = Containers
  BY NamesApart DEF UInv, Engines
<1>2. ASSUME NEW name, \/ ctr' = StopContainer(ctr, name)
                       \/ ctr' = RestartContainer(ctr, name, Broken)
      PROVE  \A k \in Containers : Exists(ctr', k) => Exists(ctr, k)
  BY <1>1, <1>2, StopKeeps, RestartKeeps DEF SameContainers
<1>3. ASSUME NEW S, ctr' = StartContainer(ctr, S, Broken) \/ ctr' = RemoveContainer(ctr, S)
      PROVE  \A k \in Containers : Exists(ctr', k) => Exists(ctr, k)
  BY <1>1, <1>3, StartKeeps, RemoveTakes DEF SameContainers
<1>4. ASSUME NEW old, NEW new \in AllNames, ctr' = RenameContainer(ctr, old, new)
      PROVE  \A k \in Containers : Exists(ctr', k) => Exists(ctr, k)
  BY <1>1, <1>4, RenameKeeps DEF Exists
<1>5. CASE CreateNew(r)
  <2>1. ctr' = ctr \/ \A k \in Containers \ {r} : ctr'[k] = ctr[k]
    BY <1>5, CreateNewDoes DEF UInv
  <2>. QED
    BY <1>5, <2>1 DEF Exists
<1>6. CASE StopOld(r) \/ StartNew(r) \/ UndoStart(r) \/ RemoveNew(r) \/ RemoveOld(r) \/ Restart(r)
  <2>1. StopOld(r) \/ Restart(r) =>
          \E name : \/ ctr' = StopContainer(ctr, name)
                    \/ ctr' = RestartContainer(ctr, name, Broken)
    BY CallsDo DEF Performs
  <2>2. StartNew(r) \/ UndoStart(r) \/ RemoveNew(r) \/ RemoveOld(r) =>
          \E S : ctr' = StartContainer(ctr, S, Broken) \/ ctr' = RemoveContainer(ctr, S)
    BY CallsDo DEF Performs, Started
  <2>. QED
    BY <1>2, <1>3, <1>6, <2>1, <2>2
<1>7. CASE RenameOld(r) \/ UndoRename(r)
  <2>1. \A s \in Services : LiveName(s) \in AllNames /\ OldName(s, now) \in AllNames
    BY NamesApart DEF UInv, AllNames, Names, LiveName, OldName
  <2>2. req[r].svc \in Services
    BY <1>7 DEF RenameOld, UndoRename, UInv, TypeInv, HandlerOK
  <2>3. \E old : \E new \in AllNames : ctr' = RenameContainer(ctr, old, new)
    BY <1>7, <2>1, <2>2, CallsDo DEF Performs
  <2>. QED
    BY <1>4, <2>3
<1>8. CASE \/ InspectService(r) \/ Pull(r) \/ Store(r) \/ InspectTag(r) \/ ListImages(r)
  BY <1>8 DEF InspectService, Pull, Inspect, ImagePull, CopyPullStream, Store,
     RecordUpdate, MarkFailed, MarkSuccess, LogAudit, InspectTag, ListImages,
     EngineCall, Perform, engineVars
<1>. QED
  BY <1>5, <1>6, <1>7, <1>8 DEF Handler, Switch, Undo

\* What a handler has made sure of stays so, and it makes sure of more.
LEMMA SureKept ==
  ASSUME UInv, NothingFails, NEW r \in Requests, Handler(r)
  PROVE  \A q \in Requests : SureOf(q)'
<1>1. OnlyMoves(r) /\ req'[r].svc = req[r].svc /\ req[r].svc \in Services
  BY HandlerMovesAlone DEF UInv
<1>2. cancelled' = cancelled /\ \A s \in Services : images[s] \subseteq images'[s]
  BY NothingIsLost
<1>3. \A k \in Containers : Exists(ctr', k) => Exists(ctr, k) \/ (k = r /\ CreateNew(r))
  BY NoneAppears
<1>4. ASSUME NEW q \in Requests \ {r}
      PROVE  SureOf(q)'
  <2>1. SureOf(q) /\ q \in Containers /\ pc'[q] = pc[q] /\ req'[q] = req[q]
    BY <1>1 DEF UInv, OnlyMoves, Containers
  <2>2. pc[q] # "idle" => req[q].svc \in Services
    BY DEF UInv, TypeInv, HandlerOK
  <2>. QED
    BY <1>2, <1>3, <2>1, <2>2 DEF SureOf, Exists, KnowsOldName
<1>5. SureOf(r)'
  <2>1. ~ cancelled'[r] /\ SureOf(r) /\ r \in Containers
    BY <1>2 DEF UInv, SureOf, Containers
  <2>2. pc'[r] \in {"stop", "rename", "create"} => req'[r].tag \in images'[req[r].svc]
    <3>1. pc'[r] = "stop" => CopyPullStream(r)
      BY DEF Handler, InspectService, Pull, Inspect, ImagePull, Switch, StopOld,
         RenameOld, CreateNew, StartNew, RemoveOld, Undo, RemoveNew, UndoRename,
         UndoStart, Store, RecordUpdate, MarkFailed, MarkSuccess, LogAudit, InspectTag,
         ListImages, Restart, EngineCall, EngineCallIgnored, OnFailure, UInv, TypeInv, TypeOK
    <3>2. CopyPullStream(r) => req'[r].tag \in images'[req[r].svc]
      BY <1>1, EveryCallAnswers
      DEF CopyPullStream, UInv, SureOf, NothingFails, TypeInv, TypeOK
    <3>3. pc'[r] \in {"rename", "create"} => StopOld(r) \/ RenameOld(r)
      BY DEF Handler, InspectService, Pull, Inspect, ImagePull, CopyPullStream, Switch,
         CreateNew, StartNew, RemoveOld, Undo, RemoveNew, UndoRename,
         UndoStart, Store, RecordUpdate, MarkFailed, MarkSuccess, LogAudit, InspectTag,
         ListImages, Restart, EngineCall, EngineCallIgnored, OnFailure, UInv, TypeInv, TypeOK
    <3>4. StopOld(r) \/ RenameOld(r) => req'[r].tag \in images'[req[r].svc]
      <4>1. StopOld(r) \/ RenameOld(r) => pc[r] \in {"stop", "rename"}
        BY DEF StopOld, RenameOld
      <4>2. StopOld(r) \/ RenameOld(r) => req'[r].tag = req[r].tag
        BY DEF StopOld, RenameOld, UInv, TypeInv, TypeOK, Locals
      <4>. QED
        BY <1>1, <1>2, <2>1, <4>1, <4>2 DEF SureOf
    <3>. QED
      BY <3>1, <3>2, <3>3, <3>4
  <2>3. pc'[r] = "removeNew" => ~ Exists(ctr', r)
    <3>1. pc'[r] = "removeNew" => StartNew(r) /\ ~ CanStart(r)
      BY CallsDo DEF Performs, Handler, InspectService, Pull, Inspect, ImagePull, CopyPullStream, Switch,
         StopOld, RenameOld, CreateNew, RemoveOld, Undo, RemoveNew, UndoRename,
         UndoStart, Store, RecordUpdate, MarkFailed, MarkSuccess, LogAudit, InspectTag,
         ListImages, Restart, EngineCall, EngineCallIgnored, OnFailure, UInv, TypeInv, TypeOK
    <3>2. ~ CanStart(r) => ~ Exists(ctr, r)
      BY DEF CanStart, Startable, NothingFails
    <3>3. StartNew(r) => ~ CreateNew(r)
      BY DEF StartNew, CreateNew
    <3>. QED
      BY <1>3, <2>1, <3>1, <3>2, <3>3
  <2>4. pc'[r] \in KnowsOldName => req'[r].oldName # LiveName(req[r].svc)
    <3>1. CASE RenameOld(r)
      <4>1. req'[r].oldName = OldName(req[r].svc, now)
        BY <3>1 DEF RenameOld, UInv, TypeInv, TypeOK, Locals
      <4>. QED
        BY <1>1, <4>1, NamesApart DEF UInv
    <3>2. CASE ~ RenameOld(r)
      <4>1. pc'[r] \in KnowsOldName => pc[r] \in KnowsOldName /\ req'[r] = req[r]
        BY <3>2 DEF Handler, InspectService, Pull, Inspect, ImagePull, CopyPullStream, Switch,
           StopOld, CreateNew, StartNew, RemoveOld, Undo, RemoveNew, UndoRename,
           UndoStart, Store, RecordUpdate, MarkFailed, MarkSuccess, LogAudit, InspectTag,
           ListImages, Restart, EngineCall, EngineCallIgnored, OnFailure, KnowsOldName,
           UInv, TypeInv, TypeOK
      <4>. QED
        BY <2>1, <4>1 DEF SureOf
    <3>. QED
      BY <3>1, <3>2
  <2>. QED
    BY <1>1, <2>1, <2>2, <2>3, <2>4 DEF SureOf
<1>. QED
  BY <1>4, <1>5

\* A created container has its service's live name, and no other changes.
LEMMA CreateAtLive ==
  ASSUME UInv, NothingFails, NEW r \in Requests, CreateNew(r)
  PROVE  /\ \A t \in Services \ {req[r].svc} : Keeps(t)
         /\ IF CanCreate(r) THEN r \in LiveOf(req[r].svc)' ELSE ctr' = ctr
<1>1. /\ ctr' = Created(r) /\ ~ Exists(ctr, r) /\ r \in Containers
      /\ req[r].svc \in Services /\ req' = req
  BY CallsDo, CreateNewDoes
  DEF Performs, CreateNew, UInv, TypeInv, HandlerOK, BeforeCreate, Containers
<1>2. CASE ~ CanCreate(r)
  BY <1>1, <1>2 DEF Created, Keeps, LiveOf, IsUp
<1>3. CASE CanCreate(r)
  <2>1. ctr' = [ctr EXCEPT ![r] = [state |-> "created", name |-> LiveName(req[r].svc),
                                   tag |-> req[r].tag]]
    BY <1>1, <1>3 DEF Created, CreateContainer, CanCreate, Live
  <2>2. DOMAIN ctr = Containers /\ DOMAIN ctr' = Containers
    BY <2>1, NamesApart DEF UInv, Engines
  <2>3. /\ ctr'[r] = [state |-> "created", name |-> LiveName(req[r].svc), tag |-> req[r].tag]
        /\ \A k \in Containers \ {r} : ctr'[k] = ctr[k]
    BY <1>1, <2>1, <2>2
  <2>4. \A t \in Services \ {req[r].svc} : LiveName(t) # LiveName(req[r].svc)
    BY <1>1, NamesApart DEF UInv
  <2>5. r \in Named(ctr', LiveName(req[r].svc))
    BY <1>1, <2>2, <2>3 DEF Named, Exists
  <2>6. \A t \in Services \ {req[r].svc} :
          /\ Named(ctr', LiveName(t)) = Named(ctr, LiveName(t))
          /\ Running(ctr', LiveName(t)) = Running(ctr, LiveName(t))
    BY <1>1, <2>2, <2>3, <2>4 DEF Named, Running, Exists
  <2>. QED
    BY <1>1, <1>3, <2>5, <2>6 DEF Keeps, LiveOf, IsUp
<1>. QED
  BY <1>2, <1>3

\* A step leaves the live containers of the other services alone, and its own
\* unless it stops, renames or creates.
Disturbs(r) == StopOld(r) \/ RenameOld(r) \/ CreateNew(r) \/ UndoRename(r)

LEMMA LiveKept ==
  ASSUME UInv, NothingFails, NEW r \in Requests, Handler(r), NEW t \in Services,
         t # req[r].svc \/ ~ Disturbs(r)
  PROVE  Keeps(t)
<1>1. TypeInv /\ Broken = {} /\ req[r].svc \in Services
  BY HandlerMovesAlone DEF UInv, NothingFails
<1>2. pc[r] \in KnowsOldName =>
        \A u \in Services : LiveName(u) # req[r].oldName
  <2>1. SUFFICES ASSUME pc[r] \in KnowsOldName, NEW u \in Services
                 PROVE  LiveName(u) # req[r].oldName
    OBVIOUS
  <2>2. pc[r] # "idle"
    BY <2>1 DEF KnowsOldName
  <2>3. req[r].oldName[1] = req[r].svc /\ LiveName(u)[1] = u
    BY <1>1, <2>1, <2>2, OldNameType, LiveNameType
  <2>4. req[r].oldName # LiveName(req[r].svc)
    BY <2>1 DEF UInv, SureOf
  <2>. QED
    BY <2>3, <2>4
<1>3. CASE StopOld(r)
  BY <1>1, <1>3, CallsDo, StopAtLive DEF Performs, Disturbs
<1>4. CASE RenameOld(r)
  <2>1. ctr' = RenameContainer(ctr, LiveName(req[r].svc), OldName(req[r].svc, now))
    BY <1>4, CallsDo DEF Performs
  <2>2. LiveName(t) \notin {LiveName(req[r].svc), OldName(req[r].svc, now)}
    BY <1>1, <1>4, NamesApart DEF Disturbs
  <2>. QED
    BY <1>1, <2>1, <2>2, RenameAtLive
<1>5. CASE UndoRename(r)
  <2>1. ctr' = RenameContainer(ctr, req[r].oldName, LiveName(req[r].svc))
    BY <1>5, CallsDo DEF Performs
  <2>2. pc[r] \in KnowsOldName
    BY <1>5 DEF UndoRename, KnowsOldName
  <2>3. LiveName(t) \notin {req[r].oldName, LiveName(req[r].svc)}
    BY <1>1, <1>2, <1>5, <2>2, NamesApart DEF Disturbs
  <2>. QED
    BY <1>1, <2>1, <2>3, RenameAtLive
<1>6. CASE CreateNew(r)
  BY <1>6, CreateAtLive DEF Disturbs
<1>7. CASE StartNew(r) \/ UndoStart(r)
  <2>1. \E S : ctr' = StartContainer(ctr, S, {})
    BY <1>1, <1>7, CallsDo DEF Performs, Started
  <2>. QED
    BY <1>1, <2>1, StartAtLive
<1>8. CASE RemoveOld(r)
  <2>1. pc[r] \in KnowsOldName
    BY <1>8 DEF RemoveOld, KnowsOldName
  <2>2. ctr' = RemoveContainer(ctr, Named(ctr, req[r].oldName))
    BY <1>8, CallsDo DEF Performs, Obsolete
  <2>. QED
    BY <1>1, <1>2, <2>1, <2>2, RemoveAtLive
<1>9. CASE Restart(r)
  BY <1>1, <1>9, CallsDo, RestartAtLive DEF Performs
<1>10. CASE \/ RemoveNew(r) \/ InspectService(r) \/ Pull(r) \/ Store(r)
            \/ InspectTag(r) \/ ListImages(r)
  <2>1. CASE RemoveNew(r)
    <3>1. ctr' = SetState(ctr, {}, "removed")
      <4>1. ~ Exists(ctr, r) /\ ctr' = RemoveContainer(ctr, {r})
        BY <2>1, CallsDo DEF Performs, RemoveNew, UInv, SureOf
      <4>2. {k \in {r} : Exists(ctr, k)} = {}
        BY <4>1
      <4>. QED
        BY <4>1, <4>2 DEF RemoveContainer
    <3>2. ctr' = ctr
      BY <1>1, <3>1, NamesApart DEF SetState, Engines
    <3>. QED
      BY <3>2 DEF Keeps, LiveOf, IsUp
  <2>2. CASE InspectService(r) \/ Pull(r) \/ Store(r) \/ InspectTag(r) \/ ListImages(r)
    <3>1. ctr' = ctr
      BY <2>2 DEF InspectService, Pull, Inspect, ImagePull, CopyPullStream, Store,
         RecordUpdate, MarkFailed, MarkSuccess, LogAudit, InspectTag, ListImages,
         EngineCall, Perform, engineVars
    <3>. QED
      BY <3>1 DEF Keeps, LiveOf, IsUp
  <2>. QED
    BY <1>10, <2>1, <2>2
<1>. QED
  BY <1>3, <1>4, <1>5, <1>6, <1>7, <1>8, <1>9, <1>10 DEF Handler, Switch, Undo

\* Each step of a handler leaves every service up, or somebody who brings it up.
LEMMA HandlerComesUp ==
  ASSUME UInv, NothingFails, NEW r \in Requests, Handler(r)
  PROVE  \A t \in Services : ComesUp(t)'
<1>0. PICK s \in Services : req[r].svc = s
  BY HandlerMovesAlone DEF UInv
<1>1. OnlyMoves(r) /\ req[r].svc = s /\ req'[r].svc = s /\ s \in Services
  BY <1>0, HandlerMovesAlone DEF UInv
<1>2. TypeInv /\ Broken = {} /\ pc \in [Requests -> Labels] /\ ComesUp(s)
  BY <1>1 DEF UInv, TypeInv, TypeOK, NothingFails
<1>3. \A t \in Services \ {s} : ComesUp(t)'
  BY <1>1, LiveKept, BystanderComesUp
<1>. SUFFICES ComesUp(s)'
  BY <1>3
<1>4. CASE StopOld(r)
  <2>1. LiveOf(s)' = LiveOf(s) /\ pc'[r] = "rename" /\ pc[r] = "stop"
    BY <1>1, <1>2, <1>4, CallsDo, StopAtLive DEF Performs, StopOld
  <2>2. CASE LiveOf(s) = {}
    BY <1>1, <2>1, <2>2, AnotherCreates
  <2>3. CASE LiveOf(s) # {}
    BY <1>1, <2>1, <2>3, MoverCares
  <2>. QED
    BY <2>2, <2>3
<1>5. CASE RenameOld(r)
  BY <1>1, <1>2, <1>5, CallsDo, MoverCares DEF Performs
<1>6. CASE CreateNew(r)
  <2>1. CASE CanCreate(r)
    BY <1>1, <1>2, <1>6, <2>1, CallsDo, CreateAtLive, MoverCares DEF Performs
  <2>2. CASE ~ CanCreate(r)
    <3>1. LiveOf(s) # {}
      BY <1>1, <1>6, <2>2 DEF CanCreate, Live, LiveOf, CreateNew, UInv, SureOf
    <3>2. LiveOf(s)' = LiveOf(s) /\ pc'[r] = "undoRename"
      BY <1>1, <1>2, <1>6, <2>2, CallsDo, CreateAtLive DEF Performs, LiveOf
    <3>. QED
      BY <1>1, <3>1, <3>2, MoverCares
  <2>. QED
    BY <2>1, <2>2
<1>7. CASE StartNew(r)
  <2>1. /\ ctr' = StartContainer(ctr, {r}, {}) /\ pc[r] = "start"
    BY <1>2, <1>7, CallsDo DEF Performs, Started, StartNew
  <2>2. Keeps(s) /\ ({r} \cap LiveOf(s) # {} => IsUp(s)')
    BY <1>1, <1>2, <2>1, StartAtLive
  <2>3. CASE r \in LiveOf(s)
    BY <2>2, <2>3 DEF ComesUp
  <2>4. CASE r \notin LiveOf(s)
    <3>1. /\ AtOneOf(s, {"create"}) \subseteq AtOneOf(s, {"create"})'
          /\ AtOneOf(s, {"rename", "undoRename", "undoStart"})
               \subseteq AtOneOf(s, {"rename", "undoRename", "undoStart"})'
          /\ AtOneOf(s, {"start"}) \ {r} \subseteq AtOneOf(s, {"start"})'
      BY <1>1, <2>1 DEF OnlyMoves, AtOneOf
    <3>. QED
      BY <1>2, <2>2, <2>4, <3>1 DEF ComesUp, Keeps
  <2>. QED
    BY <2>3, <2>4
<1>8. CASE UndoRename(r)
  <2>1. /\ ctr' = RenameContainer(ctr, req[r].oldName, LiveName(s))
        /\ pc'[r] = "undoStart" /\ pc[r] = "undoRename"
    BY <1>1, <1>2, <1>8, CallsDo DEF Performs, UndoRename
  <2>2. CASE LiveOf(s) = {}
    BY <1>1, <2>1, <2>2, AnotherCreates
  <2>3. CASE LiveOf(s) # {}
    <3>1. ctr' = ctr
      BY <1>2, <2>1, <2>3, RenameAtLive DEF LiveOf
    <3>. QED
      BY <1>1, <2>1, <2>3, <3>1, MoverCares DEF LiveOf
  <2>. QED
    BY <2>2, <2>3
<1>9. CASE UndoStart(r)
  <2>1. ctr' = StartContainer(ctr, LiveOf(s), {}) /\ pc[r] = "undoStart"
    BY <1>1, <1>2, <1>9, CallsDo DEF Performs, UndoStart, Live, LiveOf
  <2>2. CASE LiveOf(s) = {}
    BY <1>1, <2>1, <2>2, AnotherCreates
  <2>3. CASE LiveOf(s) # {}
    <3>1. IsUp(s)'
      BY <1>1, <1>2, <2>1, <2>3, StartAtLive
    <3>. QED
      BY <3>1 DEF ComesUp
  <2>. QED
    BY <2>2, <2>3
<1>10. CASE \/ InspectService(r) \/ Pull(r) \/ RemoveOld(r) \/ RemoveNew(r) \/ Store(r)
            \/ InspectTag(r) \/ ListImages(r) \/ Restart(r)
  <2>1. pc[r] \notin Witnesses \cup {"stop"}
    BY <1>10 DEF InspectService, Pull, Inspect, ImagePull, CopyPullStream, RemoveOld,
       RemoveNew, Store, RecordUpdate, MarkFailed, MarkSuccess, LogAudit, InspectTag,
       ListImages, Restart, Witnesses
  <2>2. ~ Disturbs(r)
    BY <2>1 DEF Disturbs, StopOld, RenameOld, CreateNew, UndoRename, Witnesses
  <2>. QED
    BY <1>1, <2>1, <2>2, LiveKept, BystanderComesUp
<1>. QED
  BY <1>4, <1>5, <1>6, <1>7, <1>8, <1>9, <1>10 DEF Handler, Switch, Undo

\* A new request finds its service as it is, and nothing cuts it off.
LEMMA BeginUp ==
  ASSUME UInv, NEW r \in Requests, Begin(r)
  PROVE  (\A q \in Requests : SureOf(q)') /\ (\A t \in Services : ComesUp(t)')
<1>1. PICK k \in Kinds, s \in Services, tag \in Tags \cup {NoTag} :
        /\ req' = [req EXCEPT ![r] = NewRequest(k, s, tag)]
        /\ pc' = [pc EXCEPT ![r] = FirstLabel[k]]
  BY DEF Begin
<1>2. FirstLabel[k] \in {"inspectFrom", "inspectTag", "restart"}
  BY FirstLabelType
<1>3. ctr' = ctr /\ images' = images /\ cancelled' = cancelled /\ pc[r] = "idle"
  BY DEF Begin, engineVars
<1>4. OnlyMoves(r) /\ pc'[r] = FirstLabel[k]
  BY <1>1 DEF OnlyMoves, UInv, TypeInv, TypeOK
<1>5. \A q \in Requests : SureOf(q)'
  BY <1>2, <1>3, <1>4 DEF UInv, SureOf, OnlyMoves, Exists, KnowsOldName
<1>6. \A t \in Services : Keeps(t)
  BY <1>3 DEF Keeps, LiveOf, IsUp
<1>. QED
  BY <1>3, <1>4, <1>5, <1>6, BystanderComesUp DEF Witnesses

\* The invariant holds from the start and is kept by every step.
LEMMA InitUp == Init => UInv
<1>. SUFFICES ASSUME Init PROVE UInv
  OBVIOUS
<1>1. \A r \in Requests : SureOf(r)
  BY DEF Init, SureOf, KnowsOldName
<1>2. \A s \in Services : s \in Running(ctr, LiveName(s))
  BY DEF Init, Running, Named, Exists, Containers
<1>. QED
  BY <1>1, <1>2, InitTypeInv DEF UInv, ComesUp, IsUp

LEMMA NextUp ==
  ASSUME NothingFails, UInv, [Next]_vars
  PROVE  UInv'
<1>1. TypeInv'
  BY NextType DEF UInv
<1>2. CASE \E r \in Requests : Handler(r)
  BY <1>1, <1>2, SureKept, HandlerComesUp DEF UInv
<1>3. CASE \E r \in Requests : Begin(r)
  BY <1>1, <1>3, BeginUp DEF UInv
<1>4. CASE (\E r \in Requests : Cancel(r)) \/ Exit
  BY <1>4 DEF Cancel, Exit, NothingFails
<1>5. CASE Tick \/ Finished \/ UNCHANGED vars
  <2>1. UNCHANGED <<ctr, images, pc, req, cancelled>>
    BY <1>5 DEF Tick, Finished, vars, engineVars
  <2>. QED
    BY <1>1, <2>1 DEF UInv, SureOf, ComesUp, IsUp, LiveOf, AtOneOf, Running, Named, Exists
<1>. QED
  BY <1>2, <1>3, <1>4, <1>5 DEF Next

\* When no request is left to bring it up, a service is up.
LEMMA UpWhenAtRest == UInv => UpAtRest
<1>. SUFFICES ASSUME UInv, Active = {}, NEW s \in Services PROVE IsUp(s)
  BY DEF UpAtRest
<1>1. \A L \in SUBSET Witnesses : AtOneOf(s, L) = {}
  BY DEF AtOneOf, Active, Terminal, Witnesses
<1>2. /\ AtOneOf(s, {"create"}) = {} /\ AtOneOf(s, {"start"}) = {}
      /\ AtOneOf(s, {"rename", "undoRename", "undoStart"}) = {}
  BY <1>1 DEF Witnesses
<1>. QED
  BY <1>2 DEF UInv, ComesUp

\* When no engine call fails, no client goes away and every image can be
\* started, any number of updates, rollbacks and restarts, interleaved in any
\* way, leave every service with a running container under its own name: each
\* undo of PullAndUpdate leaves the service to another request that succeeds.
THEOREM UpAtRestAlways ==
  ASSUME NothingFails
  PROVE  Spec => []UpAtRest
<1>1. UInv /\ [Next]_vars => UInv'
  BY NextUp
<1>2. Spec => []UInv
  BY <1>1, InitUp, PTL DEF Spec
<1>. QED
  BY <1>2, UpWhenAtRest, PTL
-----------------------------------------------------------------------------
(***************************************************************************)
(* The operator who waits for an answer.  Between two requests a service   *)
(* has one container, running under its live name, and at most one request *)
(* is somewhere on the way from one such container to the next.  The tag   *)
(* it runs is the one the two tables name, when SQLite takes every row.    *)
(***************************************************************************)
OneAtATime == MaxInFlight = 1 /\ Faults \subseteq {"pull", "sqlite"}

\* A tag that service s may be found with.
Fits(s, tag) ==
  /\ tag \notin Broken
  /\ "sqlite" \notin Faults => /\ tag = LastDeployment(s)
                               /\ RolledBack(s) \/ tag = LastSuccess(s)

\* The only container of s is k; so named and in that state.
One(s, k, name, state) ==
  /\ ContainersOf(s) = {k}
  /\ ctr[k].name = name /\ ctr[k].state = state

Alone(s, name, state) ==
  \E k \in Containers : One(s, k, name, state) /\ Fits(s, ctr[k].tag)

Intact(s) == Alone(s, LiveName(s), "running")

\* The container that request r creates.
New(r, state) ==
  /\ ctr[r].name = LiveName(req[r].svc) /\ ctr[r].state = state
  /\ ctr[r].tag = req[r].tag

\* The old container is k, and r has put its own beside it.
Two(r, k, state) ==
  /\ ContainersOf(req[r].svc) = {k, r} /\ k # r
  /\ ctr[k].name = req[r].oldName /\ ctr[k].state = "stopped"
  /\ New(r, state)

Beside(r, state) ==
  \E k \in Containers : Two(r, k, state) /\ Fits(req[r].svc, ctr[k].tag)

Replaced(r) ==
  /\ ContainersOf(req[r].svc) = {r} /\ New(r, "running") /\ req[r].tag \notin Broken

Untouched == {"inspectFrom", "record", "inspect", "pull", "copy", "stop",
              "inspectTag", "listImages", "restart", "markFailed"}

Shape(r) ==
  LET s == req[r].svc IN
  /\ pc[r] \in Untouched => Intact(s)
  /\ pc[r] \in {"rename", "undoStart"} => Alone(s, LiveName(s), "stopped")
  /\ pc[r] \in {"create", "undoRename"} => Alone(s, req[r].oldName, "stopped")
  /\ pc[r] \in {"start", "removeNew"} => Beside(r, "created")
  /\ pc[r] = "removeOld" => Beside(r, "running") /\ req[r].tag \notin Broken
  /\ pc[r] = "markSuccess" => Replaced(r)
  /\ pc[r] = "audit" => IF req[r].kind = "restart" THEN Intact(s) ELSE Replaced(r)

\* What kind of request is where, and which name the old container was given.
Role(r) ==
  /\ pc[r] \in {"inspectFrom", "record", "markFailed", "markSuccess"}
       => req[r].kind = "update"
  /\ pc[r] \in {"inspectTag", "listImages"} => req[r].kind = "rollback"
  /\ pc[r] = "restart" <=> req[r].kind = "restart" /\ pc[r] # "audit"
  /\ pc[r] \in KnowsOldName => req[r].oldName # LiveName(req[r].svc)

\* The row of the update in progress is the last one.
RowIsLast(r) ==
  "sqlite" \notin Faults /\ req[r].kind = "update" =>
    /\ pc[r] \in Opened => IdOf(r) = Len(history) /\ history # <<>>
    /\ pc[r] = "audit" => LastSuccess(req[r].svc) = req[r].tag

CInv ==
  /\ \A r \in Requests : ~ cancelled[r]
  /\ \A r, q \in Active : r = q
  /\ \A r \in Active : Role(r) /\ Shape(r) /\ RowIsLast(r)
  /\ \A s \in Services : (\A r \in Active : req[r].svc # s) => Intact(s)

(***************************************************************************)
(* One container changes at a time, and only the service's own.            *)
(***************************************************************************)
OthersStay(s) ==
  \A t \in Services \ {s} : /\ ContainersOf(t)' = ContainersOf(t)
                            /\ \A j \in ContainersOf(t) : ctr'[j] = ctr[j]

LEMMA OneChanges ==
  ASSUME TypeInv, NEW s \in Services, NEW k \in Containers, NEW X,
         ctr' = [ctr EXCEPT ![k] = X],
         k \in ContainersOf(s) \/ ~ Exists(ctr, k),
         X.state = "removed" \/ X.name[1] = s
  PROVE  /\ OthersStay(s)
         /\ ctr'[k] = X /\ \A j \in Containers \ {k} : ctr'[j] = ctr[j]
         /\ ContainersOf(s)' = IF X.state \in {"created", "running", "stopped"}
                               THEN ContainersOf(s) \cup {k} ELSE ContainersOf(s) \ {k}
<1>1. DOMAIN ctr = Containers
  BY NamesApart DEF Engines
<1>2. ctr'[k] = X /\ \A j \in Containers \ {k} : ctr'[j] = ctr[j]
  BY <1>1
<1>3. \A j \in Containers \ {k} : Exists(ctr', j) <=> Exists(ctr, j)
  BY <1>2 DEF Exists
<1>4. Exists(ctr', k) <=> X.state \in {"created", "running", "stopped"}
  BY <1>2 DEF Exists
<1>5. ContainersOf(s)' = IF X.state \in {"created", "running", "stopped"}
                         THEN ContainersOf(s) \cup {k} ELSE ContainersOf(s) \ {k}
  BY <1>2, <1>3, <1>4 DEF ContainersOf
<1>6. ASSUME NEW t \in Services \ {s}
      PROVE  k \notin ContainersOf(t) /\ ContainersOf(t)' = ContainersOf(t)
  <2>1. k \notin ContainersOf(t)
    BY DEF ContainersOf
  <2>2. ~ (Exists(ctr', k) /\ ctr'[k].name[1] = t)
    BY <1>2, <1>4
  <2>3. \A j \in Containers : Exists(ctr', j) /\ ctr'[j].name[1] = t
                             <=> Exists(ctr, j) /\ ctr[j].name[1] = t
    <3>1. ~ (Exists(ctr, k) /\ ctr[k].name[1] = t)
      BY <2>1 DEF ContainersOf
    <3>. QED
      BY <1>2, <1>3, <2>2, <3>1
  <2>. QED
    BY <2>1, <2>3 DEF ContainersOf
<1>7. \A t \in Services \ {s} : \A j \in ContainersOf(t) : j \in Containers \ {k}
  BY <1>6 DEF ContainersOf
<1>. QED
  BY <1>2, <1>5, <1>6, <1>7 DEF OthersStay

\* Nothing changes.
LEMMA NoneChanges ==
  ASSUME ctr' = ctr
  PROVE  \A s : ContainersOf(s)' = ContainersOf(s) /\ OthersStay(s)
BY DEF ContainersOf, OthersStay, Exists

\* The engine's operations on one container, and on none.
LEMMA SetOne ==
  ASSUME TypeInv, NEW k \in Containers, NEW v
  PROVE  /\ SetState(ctr, {k}, v) = [ctr EXCEPT ![k] = [ctr[k] EXCEPT !.state = v]]
         /\ SetName(ctr, {k}, v) = [ctr EXCEPT ![k] = [ctr[k] EXCEPT !.name = v]]
         /\ SetState(ctr, {}, v) = ctr
<1>1. DOMAIN ctr = Containers /\ ctr = [j \in Containers |-> ctr[j]]
  BY NamesApart DEF Engines
<1>. QED
  BY <1>1 DEF SetState, SetName

\* Which container has which name.
LEMMA NamedOne ==
  ASSUME TypeInv, NEW s \in Services, NEW k \in Containers, NEW name, NEW state,
         One(s, k, name, state)
  PROVE  /\ Exists(ctr, k) /\ name[1] = s
         /\ \A n : n[1] = s => Named(ctr, n) = IF n = name THEN {k} ELSE {}
<1>1. Exists(ctr, k) /\ ctr[k].name[1] = s /\ ctr[k].name = name
  BY DEF One, ContainersOf
<1>2. DOMAIN ctr = Containers
  BY NamesApart DEF Engines
<1>3. \A n : n[1] = s => Named(ctr, n) \subseteq {k}
  BY <1>2 DEF Named, One, ContainersOf
<1>. QED
  BY <1>1, <1>2, <1>3 DEF Named

LEMMA NamedTwo ==
  ASSUME TypeInv, NEW r \in Requests, NEW s \in Services, req[r].svc = s,
         NEW k \in Containers, NEW state, Two(r, k, state),
         req[r].oldName # LiveName(s)
  PROVE  /\ Exists(ctr, k) /\ Exists(ctr, r) /\ k # r /\ req[r].oldName[1] = s
         /\ Named(ctr, req[r].oldName) = {k} /\ Named(ctr, LiveName(s)) = {r}
<1>1. /\ Exists(ctr, k) /\ Exists(ctr, r) /\ k # r
      /\ ctr[k].name = req[r].oldName /\ ctr[k].name[1] = s
      /\ ctr[r].name = LiveName(s) /\ ctr[r].name[1] = s
  BY DEF Two, New, ContainersOf
<1>2. DOMAIN ctr = Containers /\ r \in Containers
  BY NamesApart DEF Engines, Containers
<1>3. \A n : n[1] = s => Named(ctr, n) \subseteq {k, r}
  BY <1>2 DEF Named, Two, ContainersOf
<1>. QED
  BY <1>1, <1>2, <1>3 DEF Named

(***************************************************************************)
(* Each call on the way.  Request r is at work on service s.               *)
(***************************************************************************)
AtWork(r, s) ==
  /\ TypeInv /\ OneAtATime /\ s \in Services /\ req[r].svc = s
  /\ ~ cancelled[r] /\ Role(r) /\ Shape(r)

\* The only container of s is k afterwards; so named and in that state, its tag as it was.
Turns(s, k, name, state) ==
  One(s, k, name, state)' /\ ctr'[k].tag = ctr[k].tag /\ OthersStay(s)

\* The engine does what it is asked, though the registry may not.
LEMMA WorkPerforms ==
  ASSUME NEW r \in Requests, NEW s, AtWork(r, s)
  PROVE  Performs(r)
<1>1. Outcomes(r) = {"ok"}
  BY DEF AtWork, OneAtATime, Outcomes
<1>. QED
  BY <1>1, AnsweredCalls

\* A container that is the only one of its service changes its state or its name.
LEMMA OneTurns ==
  ASSUME TypeInv, NEW s \in Services, NEW k \in Containers, NEW name, NEW state,
         One(s, k, name, state), NEW newName, newName[1] = s,
         NEW newState \in {"created", "running", "stopped"},
         \/ /\ newName = name
            /\ ctr' = SetState(ctr, {k}, newState)
         \/ /\ newState = state
            /\ ctr' = SetName(ctr, {k}, newName)
  PROVE  Turns(s, k, newName, newState)
<1>1. PICK X : /\ ctr' = [ctr EXCEPT ![k] = X]
               /\ X.name = newName /\ X.state = newState /\ X.tag = ctr[k].tag
  <2>1. ctr[k] \in [state : ContainerStates, name : AllNames, tag : AllTags]
    BY NamesApart DEF Engines
  <2>2. ctr[k].name = name /\ ctr[k].state = state
    BY DEF One
  <2>3. CASE newName = name /\ ctr' = SetState(ctr, {k}, newState)
    <3>. DEFINE X == [ctr[k] EXCEPT !.state = newState]
    <3>1. ctr' = [ctr EXCEPT ![k] = X]
      BY <2>3, SetOne
    <3>2. X.name = newName /\ X.state = newState /\ X.tag = ctr[k].tag
      BY <2>1, <2>2, <2>3
    <3>. HIDE DEF X
    <3>. QED
      BY <3>1, <3>2
  <2>4. CASE newState = state /\ ctr' = SetName(ctr, {k}, newName)
    <3>. DEFINE X == [ctr[k] EXCEPT !.name = newName]
    <3>1. ctr' = [ctr EXCEPT ![k] = X]
      BY <2>4, SetOne
    <3>2. X.name = newName /\ X.state = newState /\ X.tag = ctr[k].tag
      BY <2>1, <2>2, <2>4
    <3>. HIDE DEF X
    <3>. QED
      BY <3>1, <3>2
  <2>. QED
    BY <2>3, <2>4
<1>2. k \in ContainersOf(s) /\ ContainersOf(s) = {k}
  BY DEF One
<1>3. /\ OthersStay(s) /\ ctr'[k] = X
      /\ ContainersOf(s)' = ContainersOf(s) \cup {k}
  BY <1>1, <1>2, OneChanges
<1>. QED
  BY <1>1, <1>2, <1>3 DEF Turns, One

LEMMA StopOldTurns ==
  ASSUME NEW r \in Requests, NEW s, AtWork(r, s), StopOld(r)
  PROVE  \E k \in Containers : /\ One(s, k, LiveName(s), "running")
                               /\ Fits(s, ctr[k].tag)
                               /\ Turns(s, k, LiveName(s), "stopped")
<1>1. PICK k \in Containers : One(s, k, LiveName(s), "running") /\ Fits(s, ctr[k].tag)
  BY DEF AtWork, Shape, StopOld, Untouched, Intact, Alone
<1>2. Named(ctr, LiveName(s)) = {k} /\ LiveName(s)[1] = s
  BY <1>1, NamedOne, LiveNameType DEF AtWork
<1>3. Running(ctr, LiveName(s)) = {k}
  BY <1>1, <1>2 DEF Running, One
<1>4. ctr' = SetState(ctr, {k}, "stopped")
  BY <1>3, WorkPerforms DEF Performs, StopContainer, AtWork
<1>. QED
  BY <1>1, <1>2, <1>4, OneTurns DEF AtWork

LEMMA RenameOldTurns ==
  ASSUME NEW r \in Requests, NEW s, AtWork(r, s), RenameOld(r)
  PROVE  \E k \in Containers : /\ One(s, k, LiveName(s), "stopped")
                               /\ Fits(s, ctr[k].tag)
                               /\ Turns(s, k, OldName(s, now), "stopped")
<1>1. PICK k \in Containers : One(s, k, LiveName(s), "stopped") /\ Fits(s, ctr[k].tag)
  BY DEF AtWork, Shape, RenameOld, Alone
<1>2. LiveName(s)[1] = s /\ OldName(s, now)[1] = s /\ OldName(s, now) # LiveName(s)
  BY LiveNameType, NamesApart DEF AtWork, OldName
<1>3. Named(ctr, LiveName(s)) = {k} /\ Named(ctr, OldName(s, now)) = {}
  BY <1>1, <1>2, NamedOne DEF AtWork
<1>4. ctr' = SetName(ctr, {k}, OldName(s, now))
  BY <1>3, WorkPerforms DEF Performs, RenameContainer, AtWork
<1>. QED
  BY <1>1, <1>2, <1>4, OneTurns DEF AtWork

LEMMA UndoRenameTurns ==
  ASSUME NEW r \in Requests, NEW s, AtWork(r, s), UndoRename(r)
  PROVE  \E k \in Containers : /\ One(s, k, req[r].oldName, "stopped")
                               /\ Fits(s, ctr[k].tag)
                               /\ Turns(s, k, LiveName(s), "stopped")
<1>1. PICK k \in Containers : One(s, k, req[r].oldName, "stopped") /\ Fits(s, ctr[k].tag)
  BY DEF AtWork, Shape, UndoRename, Alone
<1>2. LiveName(s)[1] = s /\ req[r].oldName # LiveName(s)
  BY LiveNameType DEF AtWork, Role, UndoRename, KnowsOldName
<1>3. /\ Named(ctr, req[r].oldName) = {k} /\ Named(ctr, LiveName(s)) = {}
  BY <1>1, <1>2, NamedOne DEF AtWork
<1>4. ctr' = SetName(ctr, {k}, LiveName(s))
  BY <1>3, WorkPerforms DEF Performs, RenameContainer, AtWork
<1>. QED
  BY <1>1, <1>2, <1>4, OneTurns DEF AtWork

LEMMA UndoStartTurns ==
  ASSUME NEW r \in Requests, NEW s, AtWork(r, s), UndoStart(r)
  PROVE  \E k \in Containers : /\ One(s, k, LiveName(s), "stopped")
                               /\ Fits(s, ctr[k].tag)
                               /\ Turns(s, k, LiveName(s), "running")
<1>1. PICK k \in Containers : One(s, k, LiveName(s), "stopped") /\ Fits(s, ctr[k].tag)
  BY DEF AtWork, Shape, UndoStart, Alone
<1>2. LiveName(s)[1] = s
  BY LiveNameType DEF AtWork
<1>3. Named(ctr, LiveName(s)) = {k} /\ Exists(ctr, k)
  BY <1>1, <1>2, NamedOne DEF AtWork
<1>4. Startable(ctr, {k}, Broken) = {k}
  BY <1>1, <1>3 DEF Startable, Fits
<1>5. ctr' = SetState(ctr, {k}, "running")
  BY <1>3, <1>4, WorkPerforms DEF Performs, StartContainer, Live, AtWork
<1>. QED
  BY <1>1, <1>2, <1>5, OneTurns DEF AtWork

\* What r puts beside the old container is its own; so it changes, and goes.
LEMMA CreateNewTurns ==
  ASSUME NEW r \in Requests, NEW s, AtWork(r, s), CreateNew(r)
  PROVE  \E k \in Containers :
           /\ One(s, k, req[r].oldName, "stopped") /\ Fits(s, ctr[k].tag)
           /\ IF CanCreate(r)
              THEN Two(r, k, "created")' /\ ctr'[k] = ctr[k] /\ OthersStay(s)
              ELSE ctr' = ctr
<1>1. PICK k \in Containers : One(s, k, req[r].oldName, "stopped") /\ Fits(s, ctr[k].tag)
  BY DEF AtWork, Shape, CreateNew, Alone
<1>2. ~ CanCreate(r) => ctr' = ctr
  BY WorkPerforms DEF Performs, Created
<1>3. /\ ~ Exists(ctr, r) /\ r \in Containers /\ LiveName(s)[1] = s /\ req' = req
      /\ TypeInv /\ s \in Services /\ req[r].svc = s
  BY LiveNameType
  DEF AtWork, CreateNew, TypeInv, HandlerOK, BeforeCreate, Containers
<1>4. ASSUME CanCreate(r)
      PROVE  Two(r, k, "created")' /\ ctr'[k] = ctr[k] /\ OthersStay(s)
  <2>. DEFINE X == [state |-> "created", name |-> LiveName(s), tag |-> req[r].tag]
  <2>1. ctr' = [ctr EXCEPT ![r] = X]
    BY <1>3, <1>4, WorkPerforms DEF Performs, Created, CreateContainer, CanCreate, Live
  <2>2. X.name = LiveName(s) /\ X.state = "created" /\ X.tag = req[r].tag
    OBVIOUS
  <2>. HIDE DEF X
  <2>3. /\ OthersStay(s) /\ ctr'[r] = X /\ \A j \in Containers \ {r} : ctr'[j] = ctr[j]
        /\ ContainersOf(s)' = ContainersOf(s) \cup {r}
    <3>1. r \in ContainersOf(s) \/ ~ Exists(ctr, r)
      BY <1>3
    <3>2. X.name[1] = s /\ X.state \in {"created", "running", "stopped"}
      BY <1>3, <2>2
    <3>. QED
      BY <1>3, <2>1, <3>1, <3>2, OneChanges
  <2>4. k # r
    BY <1>1, <1>3 DEF One, ContainersOf
  <2>. QED
    BY <1>1, <1>3, <2>2, <2>3, <2>4 DEF One, Two, New
<1>. QED
  BY <1>1, <1>2, <1>4

\* The two containers of a service being replaced.
LEMMA BothKnown ==
  ASSUME NEW r \in Requests, NEW s, AtWork(r, s), NEW k \in Containers, NEW state,
         Two(r, k, state), pc[r] \in KnowsOldName
  PROVE  /\ TypeInv /\ s \in Services /\ req[r].svc = s /\ r \in Containers
         /\ Exists(ctr, k) /\ Exists(ctr, r) /\ k # r /\ ctr[r].state = state
         /\ req[r].oldName[1] = s /\ LiveName(s)[1] = s
         /\ Named(ctr, req[r].oldName) = {k} /\ Named(ctr, LiveName(s)) = {r}
         /\ r \in ContainersOf(s) /\ k \in ContainersOf(s)
         /\ ctr[r] \in [state : ContainerStates, name : AllNames, tag : AllTags]
         /\ ctr[k] \in [state : ContainerStates, name : AllNames, tag : AllTags]
<1>1. TypeInv /\ s \in Services /\ req[r].svc = s /\ r \in Containers
  BY DEF AtWork, Containers
<1>2. req[r].oldName # LiveName(s)
  BY DEF AtWork, Role
<1>. QED
  <2>1. /\ Exists(ctr, k) /\ Exists(ctr, r) /\ k # r /\ req[r].oldName[1] = s
        /\ Named(ctr, req[r].oldName) = {k} /\ Named(ctr, LiveName(s)) = {r}
    BY <1>1, <1>2, NamedTwo
  <2>2. /\ r \in ContainersOf(s) /\ k \in ContainersOf(s) /\ ctr[r].state = state
    BY <1>1 DEF Two, New
  <2>3. ctr \in Engines(Containers, AllNames, AllTags)
    BY <1>1, NamesApart
  <2>4. /\ ctr[r] \in [state : ContainerStates, name : AllNames, tag : AllTags]
        /\ ctr[k] \in [state : ContainerStates, name : AllNames, tag : AllTags]
    BY <1>1, <2>3 DEF Engines
  <2>. QED
    BY <1>1, <2>1, <2>2, <2>4, LiveNameType

LEMMA StartNewTurns ==
  ASSUME NEW r \in Requests, NEW s, AtWork(r, s), StartNew(r)
  PROVE  \E k \in Containers :
           /\ Two(r, k, "created") /\ Fits(s, ctr[k].tag)
           /\ IF CanStart(r)
              THEN /\ Two(r, k, "running")' /\ ctr'[k] = ctr[k] /\ OthersStay(s)
                   /\ req[r].tag \notin Broken
              ELSE ctr' = ctr
<1>1. PICK k \in Containers : Two(r, k, "created") /\ Fits(s, ctr[k].tag)
  BY DEF AtWork, Shape, StartNew, Beside
<1>2. pc[r] \in KnowsOldName /\ req' = req
  BY DEF StartNew, KnowsOldName
<1>3. /\ TypeInv /\ s \in Services /\ req[r].svc = s /\ r \in Containers
      /\ Exists(ctr, r) /\ k # r /\ r \in ContainersOf(s) /\ k \in ContainersOf(s)
      /\ ctr[r] \in [state : ContainerStates, name : AllNames, tag : AllTags]
  BY <1>1, <1>2, BothKnown
<1>4. Startable(ctr, {r}, Broken) = IF ctr[r].tag \in Broken THEN {} ELSE {r}
  BY <1>3 DEF Startable
<1>5. ctr' = SetState(ctr, Startable(ctr, {r}, Broken), "running")
  BY WorkPerforms DEF Performs, Started, StartContainer
<1>6. CASE ~ CanStart(r)
  BY <1>1, <1>3, <1>5, <1>6, SetOne DEF CanStart
<1>7. CASE CanStart(r)
  <2>. DEFINE X == [ctr[r] EXCEPT !.state = "running"]
  <2>1. ctr' = [ctr EXCEPT ![r] = X] /\ ctr[r].tag \notin Broken
    <3>1. ctr' = SetState(ctr, {r}, "running") /\ ctr[r].tag \notin Broken
      BY <1>4, <1>5, <1>7 DEF CanStart
    <3>. QED
      BY <1>3, <3>1, SetOne
  <2>2. X.state = "running" /\ X.name = ctr[r].name /\ X.tag = ctr[r].tag
    BY <1>3
  <2>3. X.name[1] = s
    BY <1>3, <2>2 DEF ContainersOf
  <2>. HIDE DEF X
  <2>4. /\ OthersStay(s) /\ ctr'[r] = X /\ \A j \in Containers \ {r} : ctr'[j] = ctr[j]
        /\ ContainersOf(s)' = ContainersOf(s) \cup {r}
    BY <1>3, <2>1, <2>2, <2>3, OneChanges
  <2>. QED
    BY <1>1, <1>2, <1>3, <1>7, <2>1, <2>2, <2>4 DEF Two, New
<1>. QED
  BY <1>6, <1>7

LEMMA RemoveNewTurns ==
  ASSUME NEW r \in Requests, NEW s, AtWork(r, s), RemoveNew(r)
  PROVE  \E k \in Containers : /\ Two(r, k, "created") /\ Fits(s, ctr[k].tag)
                               /\ Turns(s, k, req[r].oldName, "stopped")
<1>1. PICK k \in Containers : Two(r, k, "created") /\ Fits(s, ctr[k].tag)
  BY DEF AtWork, Shape, RemoveNew, Beside
<1>2. pc[r] \in KnowsOldName
  BY DEF RemoveNew, KnowsOldName
<1>3. /\ TypeInv /\ s \in Services /\ req[r].svc = s /\ r \in Containers
      /\ Exists(ctr, r) /\ k # r /\ r \in ContainersOf(s) /\ k \in ContainersOf(s)
      /\ ctr[r] \in [state : ContainerStates, name : AllNames, tag : AllTags]
  BY <1>1, <1>2, BothKnown
<1>4. {j \in {r} : Exists(ctr, j)} = {r}
  BY <1>3
<1>. DEFINE X == [ctr[r] EXCEPT !.state = "removed"]
<1>5. ctr' = [ctr EXCEPT ![r] = X] /\ X.state = "removed"
  <2>1. ctr' = SetState(ctr, {r}, "removed")
    BY <1>3, <1>4, WorkPerforms DEF Performs, RemoveContainer
  <2>. QED
    BY <1>3, <2>1, SetOne
<1>. HIDE DEF X
<1>6. /\ OthersStay(s) /\ \A j \in Containers \ {r} : ctr'[j] = ctr[j]
      /\ ContainersOf(s)' = ContainersOf(s) \ {r}
  BY <1>3, <1>5, OneChanges
<1>7. ContainersOf(s)' = {k} /\ ctr'[k] = ctr[k]
  BY <1>1, <1>3, <1>6 DEF Two
<1>. QED
  <2>1. /\ ctr[k].name = req[r].oldName /\ ctr[k].state = "stopped"
    BY <1>1 DEF Two
  <2>2. req' = req
    BY DEF RemoveNew
  <2>3. Turns(s, k, req[r].oldName, "stopped")
    BY <1>6, <1>7, <2>1, <2>2 DEF Turns, One
  <2>. QED
    BY <1>1, <2>3

LEMMA RemoveOldTurns ==
  ASSUME NEW r \in Requests, NEW s, AtWork(r, s), RemoveOld(r)
  PROVE  (\E k \in Containers : Two(r, k, "running")) /\ Replaced(r)' /\ OthersStay(s)
<1>1. PICK k \in Containers : Two(r, k, "running") /\ Fits(s, ctr[k].tag)
  BY DEF AtWork, Shape, RemoveOld, Beside
<1>2. pc[r] \in KnowsOldName /\ req' = req /\ req[r].tag \notin Broken
  BY DEF AtWork, Shape, RemoveOld, KnowsOldName
<1>3. /\ TypeInv /\ s \in Services /\ req[r].svc = s /\ r \in Containers
      /\ Exists(ctr, k) /\ k # r /\ r \in ContainersOf(s) /\ k \in ContainersOf(s)
      /\ Named(ctr, req[r].oldName) = {k}
      /\ ctr[k] \in [state : ContainerStates, name : AllNames, tag : AllTags]
  BY <1>1, <1>2, BothKnown
<1>4. {j \in {k} : Exists(ctr, j)} = {k}
  BY <1>3
<1>. DEFINE X == [ctr[k] EXCEPT !.state = "removed"]
<1>5. ctr' = [ctr EXCEPT ![k] = X] /\ X.state = "removed"
  <2>1. ctr' = SetState(ctr, {k}, "removed")
    BY <1>3, <1>4, WorkPerforms DEF Performs, RemoveContainer, Obsolete
  <2>. QED
    BY <1>3, <2>1, SetOne
<1>. HIDE DEF X
<1>6. /\ OthersStay(s) /\ \A j \in Containers \ {k} : ctr'[j] = ctr[j]
      /\ ContainersOf(s)' = ContainersOf(s) \ {k}
  BY <1>3, <1>5, OneChanges
<1>7. ContainersOf(s)' = {r} /\ ctr'[r] = ctr[r]
  BY <1>1, <1>3, <1>6 DEF Two
<1>. QED
  BY <1>1, <1>2, <1>3, <1>6, <1>7 DEF Two, New, Replaced

\* A restart stops the container and starts it.
LEMMA RestartTurns ==
  ASSUME NEW r \in Requests, NEW s, AtWork(r, s), Restart(r)
  PROVE  ctr' = ctr
<1>1. PICK k \in Containers : One(s, k, LiveName(s), "running") /\ Fits(s, ctr[k].tag)
  BY DEF AtWork, Shape, Restart, Untouched, Intact, Alone
<1>2. /\ Named(ctr, LiveName(s)) = {k} /\ Exists(ctr, k)
      /\ TypeInv /\ s \in Services /\ req[r].svc = s
  BY <1>1, NamedOne, LiveNameType DEF AtWork
<1>3. Running(ctr, LiveName(s)) = {k} /\ ctr[k].state = "running"
  BY <1>1, <1>2 DEF Running, One
<1>4. DOMAIN ctr = Containers /\ ctr \in Engines(Containers, AllNames, AllTags)
  BY <1>2, NamesApart DEF Engines
<1>. DEFINE c == [ctr EXCEPT ![k] = [ctr[k] EXCEPT !.state = "stopped"]]
<1>5. StopContainer(ctr, LiveName(s)) = c
  <2>1. StopContainer(ctr, LiveName(s)) = SetState(ctr, {k}, "stopped")
    BY <1>3 DEF StopContainer
  <2>. QED
    BY <1>2, <2>1, SetOne
<1>6. /\ DOMAIN c = Containers /\ c[k].state = "stopped" /\ c[k].tag = ctr[k].tag
      /\ \A j \in Containers \ {k} : c[j] = ctr[j]
      /\ [c[k] EXCEPT !.state = "running"] = ctr[k]
  BY <1>3, <1>4 DEF Engines
<1>7. ctr' = RestartContainer(ctr, LiveName(s), Broken)
  BY <1>2, WorkPerforms DEF Performs
<1>. HIDE DEF c
<1>8. Startable(c, {k}, Broken) = {k}
  BY <1>1, <1>6 DEF Startable, Exists, Fits
<1>9. ctr' = SetState(c, {k}, "running")
  BY <1>2, <1>5, <1>7, <1>8 DEF RestartContainer, StartContainer
<1>. QED
  BY <1>4, <1>6, <1>9 DEF SetState, Engines

(***************************************************************************)
(* What the two tables say of a service after each row.                    *)
(***************************************************************************)
\* The tables are sequences of rows.
LEMMA TablesType ==
  ASSUME TypeInv
  PROVE  /\ history \in Seq(HistoryRows) /\ DOMAIN history = 1 .. Len(history)
         /\ Len(history) \in Nat
         /\ \A i \in DOMAIN history : history[i] \in HistoryRows
         /\ audit \in Seq(AuditRows) /\ DOMAIN audit = 1 .. Len(audit)
         /\ Len(audit) \in Nat
         /\ \A i \in DOMAIN audit : audit[i] \in AuditRows
BY LenProperties, ElementOfSeq DEF TypeInv, TypeOK

\* A table answers as before when its telling rows are the same.
LEMMA SameSuccesses ==
  ASSUME TypeInv, NEW t, Successes(t)' = Successes(t),
         \A i \in Successes(t) : history'[i].to = history[i].to
  PROVE  LastSuccess(t)' = LastSuccess(t)
<1>1. CASE Successes(t) = {}
  BY <1>1 DEF LastSuccess
<1>2. CASE Successes(t) # {}
  <2>1. Successes(t) \in SUBSET (1 .. Len(history))
    BY TablesType DEF Successes
  <2>2. Max(Successes(t)) \in Successes(t)
    BY <1>2, <2>1, TablesType, LastOfPositions
  <2>. QED
    BY <1>2, <2>2 DEF LastSuccess
<1>. QED
  BY <1>1, <1>2

LEMMA SameDeployments ==
  ASSUME TypeInv, NEW t, DeploymentsOf(t)' = DeploymentsOf(t),
         \A i \in DeploymentsOf(t) : audit'[i].new = audit[i].new
  PROVE  LastDeployment(t)' = LastDeployment(t)
<1>1. CASE DeploymentsOf(t) = {}
  BY <1>1 DEF LastDeployment
<1>2. CASE DeploymentsOf(t) # {}
  <2>1. DeploymentsOf(t) \in SUBSET (1 .. Len(audit))
    BY TablesType DEF DeploymentsOf
  <2>2. Max(DeploymentsOf(t)) \in DeploymentsOf(t)
    BY <1>2, <2>1, TablesType, LastOfPositions
  <2>. QED
    BY <1>2, <2>2 DEF LastDeployment
<1>. QED
  BY <1>1, <1>2

\* A row that is opened or closed as failed is no success.
LEMMA NoNewSuccess ==
  ASSUME HInv, NEW r \in Requests, RecordUpdate(r) \/ MarkFailed(r)
  PROVE  \A t : LastSuccess(t)' = LastSuccess(t)
<1>1. TypeInv /\ TypeInv'
  BY RecordUpdateType, MarkType DEF HInv
<1>2. /\ DOMAIN history \subseteq DOMAIN history'
      /\ \A i \in DOMAIN history :
           \/ history'[i] = history[i]
           \/ history[i].status = "in_progress" /\ history'[i].status = "failed"
      /\ \A i \in DOMAIN history' \ DOMAIN history : history'[i].status = "in_progress"
  <2>1. CASE history' = history
    BY <2>1
  <2>2. CASE RecordUpdate(r) /\ history' = Append(history, NewRow(r))
    <3>1. NewRow(r) \in HistoryRows
      BY <2>2 DEF RecordUpdate, NewRow, HistoryRows, HInv, TypeInv, TypeOK, HandlerOK,
             KnowsTag, Locals
    <3>2. /\ DOMAIN history' = 1 .. Len(history) + 1
          /\ history'[Len(history) + 1] = NewRow(r)
          /\ \A i \in DOMAIN history : history'[i] = history[i]
      BY <1>1, <2>2, <3>1, TablesType, AppendProperties, LenProperties
    <3>3. NewRow(r).status = "in_progress"
      BY DEF NewRow
    <3>. QED
      BY <1>1, <3>2, <3>3, TablesType
  <2>3. CASE MarkFailed(r) /\ history' # history
    <3>1. Closes(r, "failed")
      BY <2>3 DEF MarkFailed, Stored, Closes, IdOf
    <3>2. /\ IdOf(r) \in DOMAIN history /\ Len(history') = Len(history)
          /\ history'[IdOf(r)].status = "failed"
          /\ \A i \in DOMAIN history \ {IdOf(r)} : history'[i] = history[i]
      BY <3>1, ClosesItsRow
    <3>3. history[IdOf(r)].status = "in_progress"
      BY <1>1, <2>3, <3>2, TablesType DEF MarkFailed, HInv, RowsOK, Opened
    <3>4. DOMAIN history' = 1 .. Len(history')
      BY <1>1, LenProperties DEF TypeInv, TypeOK
    <3>. QED
      BY <1>1, <3>2, <3>3, <3>4, TablesType
  <2>. QED
    BY <2>1, <2>2, <2>3 DEF RecordUpdate, Stored
<1>3. ASSUME NEW t
      PROVE  LastSuccess(t)' = LastSuccess(t)
  <2>1. /\ Successes(t)' = Successes(t)
        /\ \A i \in Successes(t) : history'[i] = history[i]
    BY <1>2 DEF Successes
  <2>. QED
    BY <1>1, <2>1, SameSuccesses
<1>. QED
  BY <1>3

\* The row that is closed as a success is the last of its service from then on,
\* when it is the last of the table.
LEMMA SuccessIsLast ==
  ASSUME SInv, NEW r \in Requests, NEW s \in Services, AtWork(r, s), MarkSuccess(r),
         RowIsLast(r), "sqlite" \notin Faults
  PROVE  /\ LastSuccess(s)' = req[r].tag
         /\ \A t \in Services \ {s} : LastSuccess(t)' = LastSuccess(t)
<1>1. TypeInv /\ TypeInv' /\ HInv
  BY MarkType DEF SInv, HInv
<1>. DEFINE n == Len(history)
<1>2. IdOf(r) = n /\ n \in DOMAIN history /\ n # 0
  <2>1. pc[r] = "markSuccess" /\ req[r].kind = "update"
    BY DEF MarkSuccess, AtWork, Role
  <2>2. IdOf(r) = n /\ history # <<>>
    BY <2>1 DEF RowIsLast, Opened
  <2>. QED
    BY <1>1, <2>2, TablesType, EmptySeq
<1>3. history[n].status = "in_progress" /\ history[n].svc = s /\ history[n].to = req[r].tag
  BY <1>2 DEF MarkSuccess, SInv, HInv, RowsOK, StartedOK, RowOf, Opened, AtWork
<1>4. history' = [history EXCEPT ![n].status = "success"]
  BY <1>2 DEF MarkSuccess, Stored, WithStatus, IdOf
<1>5. /\ DOMAIN history' = DOMAIN history
      /\ history'[n].status = "success" /\ history'[n].svc = s
      /\ history'[n].to = req[r].tag
      /\ \A i \in DOMAIN history \ {n} : history'[i] = history[i]
  BY <1>1, <1>2, <1>3, <1>4, TablesType DEF HistoryRows
<1>. HIDE DEF n
<1>6. Successes(s)' = Successes(s) \cup {n}
  BY <1>2, <1>5 DEF Successes
<1>7. LastSuccess(s)' = req[r].tag
  <2>1. Successes(s)' \in SUBSET (1 .. n) /\ n \in Nat
    BY <1>1, <1>2, <1>6, TablesType DEF Successes, n
  <2>2. Max(Successes(s)') = n
    BY <1>6, <2>1, LastOfPositions
  <2>. QED
    BY <1>5, <1>6, <2>2 DEF LastSuccess
<1>8. ASSUME NEW t \in Services \ {s}
      PROVE  LastSuccess(t)' = LastSuccess(t)
  <2>1. /\ Successes(t)' = Successes(t)
        /\ \A i \in Successes(t) : history'[i] = history[i]
    BY <1>2, <1>3, <1>5 DEF Successes
  <2>. QED
    BY <1>1, <2>1, SameSuccesses
<1>. QED
  BY <1>7, <1>8

\* What the audit row of a request says.
LEMMA LogAuditAppends ==
  ASSUME NEW r \in Requests, NEW s, AtWork(r, s), LogAudit(r),
         "sqlite" \notin Faults
  PROVE  LET n == Len(audit) + 1
         IN  /\ DOMAIN audit' = DOMAIN audit \cup {n} /\ n \notin DOMAIN audit
             /\ audit' = Append(audit, AuditRow(r)) /\ audit'[n] = AuditRow(r)
             /\ \A i \in DOMAIN audit : audit'[i] = audit[i]
             /\ DOMAIN audit' = 1 .. n /\ n \in Nat
<1>1. TypeInv /\ req[r].kind \in Kinds /\ req[r].svc \in Services
  BY DEF AtWork, LogAudit, TypeInv, HandlerOK
<1>2. AuditRow(r) \in AuditRows
  BY <1>1 DEF AuditRow, AuditRows, Locals, AllTags, TypeInv, TypeOK
<1>3. audit' = Append(audit, AuditRow(r))
  BY DEF LogAudit, Stored
<1>4. /\ Len(audit') = Len(audit) + 1 /\ audit' \in Seq(AuditRows)
      /\ audit'[Len(audit) + 1] = AuditRow(r)
      /\ \A i \in 1 .. Len(audit) : audit'[i] = audit[i]
  BY <1>1, <1>2, <1>3, TablesType, AppendProperties
<1>5. DOMAIN audit' = 1 .. Len(audit) + 1
  BY <1>4, LenProperties
<1>. QED
  BY <1>1, <1>3, <1>4, <1>5, TablesType

\* A deployment is the last of its service from then on; a restart is none.
LEMMA LogAuditSays ==
  ASSUME NEW r \in Requests, NEW s, AtWork(r, s), LogAudit(r),
         "sqlite" \notin Faults
  PROVE  /\ IF req[r].kind = "restart"
            THEN LastDeployment(s)' = LastDeployment(s)
            ELSE LastDeployment(s)' = req[r].tag
         /\ \A t \in Services \ {s} : LastDeployment(t)' = LastDeployment(t)
         /\ \A t : RolledBack(t) => RolledBack(t)'
         /\ \A t \in Services \ {s} : RolledBack(t)' => RolledBack(t)
         /\ req[r].kind = "rollback" => RolledBack(s)'
<1>. DEFINE n == Len(audit) + 1
            row == AuditRow(r)
<1>1. /\ DOMAIN audit' = DOMAIN audit \cup {n} /\ n \notin DOMAIN audit
      /\ audit'[n] = row /\ \A i \in DOMAIN audit : audit'[i] = audit[i]
      /\ DOMAIN audit' = 1 .. n /\ n \in Nat
  BY LogAuditAppends
<1>2. row.action = req[r].kind /\ row.svc = s /\ row.new = req[r].tag
  BY DEF AuditRow, AtWork
<1>3. TypeInv /\ req[r].kind \in {"update", "rollback", "restart"} /\ s \in Services
  BY RequestsAssumption DEF AtWork, LogAudit, TypeInv, HandlerOK
<1>. HIDE DEF n, row
<1>4. ASSUME NEW t, t # s \/ req[r].kind = "restart"
      PROVE  LastDeployment(t)' = LastDeployment(t)
  <2>1. /\ DeploymentsOf(t)' = DeploymentsOf(t)
        /\ \A i \in DeploymentsOf(t) : audit'[i] = audit[i]
    BY <1>1, <1>2, <1>4 DEF DeploymentsOf, Deploys
  <2>. QED
    BY <1>3, <2>1, SameDeployments
<1>5. ASSUME req[r].kind # "restart"
      PROVE  LastDeployment(s)' = req[r].tag
  <2>1. DeploymentsOf(s)' = DeploymentsOf(s) \cup {n}
    BY <1>1, <1>2, <1>3, <1>5 DEF DeploymentsOf, Deploys
  <2>2. DeploymentsOf(s)' \in SUBSET (1 .. n)
    BY <1>1 DEF DeploymentsOf
  <2>3. Max(DeploymentsOf(s)') = n
    BY <1>1, <2>1, <2>2, LastOfPositions
  <2>. QED
    BY <1>1, <1>2, <2>1, <2>3 DEF LastDeployment
<1>6. /\ \A t : RolledBack(t) => RolledBack(t)'
      /\ \A t \in Services \ {s} : RolledBack(t)' => RolledBack(t)
      /\ req[r].kind = "rollback" => RolledBack(s)'
  BY <1>1, <1>2 DEF RolledBack
<1>. QED
  BY <1>4, <1>5, <1>6

(***************************************************************************)
(* Where a step leaves its request.                                        *)
(***************************************************************************)
\* What a step of the handler leaves of its local variables.
LEMMA LocalsKept ==
  ASSUME TypeInv, NEW r \in Requests, Handler(r)
  PROVE  /\ req'[r].kind = req[r].kind /\ req'[r].svc = req[r].svc
         /\ ~ ListImages(r) => req'[r].tag = req[r].tag
         /\ ~ RenameOld(r) => req'[r].oldName = req[r].oldName
         /\ RenameOld(r) => req'[r].oldName = OldName(req[r].svc, now)
<1>1. \/ req' = req
      \/ \E v : req' = [req EXCEPT ![r].from = v]
      \/ \E v : req' = [req EXCEPT ![r].updateID = v]
      \/ RenameOld(r) /\ req' = [req EXCEPT ![r].oldName = OldName(req[r].svc, now)]
      \/ ListImages(r) /\ \E v : req' = [req EXCEPT ![r].tag = v]
  BY DEF Handler, InspectService, Pull, Inspect, ImagePull, CopyPullStream, Switch, StopOld,
     RenameOld, CreateNew, StartNew, RemoveOld, Undo, RemoveNew, UndoRename, UndoStart,
     Store, RecordUpdate, MarkFailed, MarkSuccess, LogAudit, InspectTag, ListImages,
     Restart
<1>2. req[r] \in Locals /\ DOMAIN req = Requests
  BY DEF TypeInv, TypeOK
<1>3. RenameOld(r) => ~ ListImages(r) /\ req' = [req EXCEPT ![r].oldName = OldName(req[r].svc, now)]
  BY DEF RenameOld, ListImages
<1>. QED
  BY <1>1, <1>2, <1>3 DEF Locals

\* A request at work is the only one, and its service's tables change at its own steps.
LEMMA Working ==
  ASSUME CInv, TypeInv, OneAtATime, NEW r \in Requests, Handler(r), NEW s, req[r].svc = s
  PROVE  /\ AtWork(r, s) /\ r \in Active /\ RowIsLast(r)
         /\ cancelled' = cancelled /\ OnlyMoves(r) /\ req'[r].svc = s
         /\ Active' \subseteq {r}
         /\ \A t \in Services \ {s} : Intact(t)
<1>1. r \in Active
  BY DEF Handler, InspectService, Pull, Inspect, ImagePull, CopyPullStream, Switch, StopOld,
     RenameOld, CreateNew, StartNew, RemoveOld, Undo, RemoveNew, UndoRename, UndoStart,
     Store, RecordUpdate, MarkFailed, MarkSuccess, LogAudit, InspectTag, ListImages,
     Restart, Active, Terminal
<1>2. OnlyMoves(r) /\ req'[r].svc = s /\ s \in Services
  BY HandlerMovesAlone
<1>3. ~ cancelled[r] /\ Role(r) /\ Shape(r) /\ RowIsLast(r)
  BY <1>1 DEF CInv
<1>4. \A q \in Requests \ {r} : q \notin Active
  BY <1>1 DEF CInv
<1>5. Active' \subseteq {r}
  BY <1>2, <1>4 DEF Active, OnlyMoves
<1>6. \A t \in Services \ {s} : Intact(t)
  BY <1>1, <1>4 DEF CInv, Active
<1>7. cancelled' = cancelled
  <2>1. Outcomes(r) = {"ok"} /\ PullOutcomes(r) \subseteq {"ok", "refused"}
    BY <1>3 DEF OneAtATime, Outcomes, PullOutcomes
  <2>. QED
    BY <1>3, <2>1 DEF Handler, InspectService, Pull, Inspect, ImagePull, CopyPullStream, Switch,
     StopOld, RenameOld, CreateNew, StartNew, RemoveOld, Undo, RemoveNew, UndoRename,
     UndoStart, Store, RecordUpdate, MarkFailed, MarkSuccess, LogAudit, InspectTag,
     ListImages, Restart, EngineCall, EngineCallIgnored, Perform, TypeInv, TypeOK
<1>. QED
  BY <1>1, <1>2, <1>3, <1>5, <1>6, <1>7 DEF AtWork

\* A tag that fits a service goes on to fit it while its tables say the same.
LEMMA StillFits ==
  ASSUME NEW t, NEW tag, Fits(t, tag),
         "sqlite" \notin Faults => /\ LastDeployment(t)' = LastDeployment(t)
                                   /\ LastSuccess(t)' = LastSuccess(t)
                                   /\ RolledBack(t) => RolledBack(t)'
  PROVE  Fits(t, tag)'
BY DEF Fits

LEMMA TablesStay ==
  ASSUME UNCHANGED storeVars
  PROVE  \A t : /\ LastDeployment(t)' = LastDeployment(t)
                /\ LastSuccess(t)' = LastSuccess(t)
                /\ RolledBack(t) => RolledBack(t)'
BY DEF storeVars, LastDeployment, DeploymentsOf, Deploys, LastSuccess, Successes, RolledBack

\* Only an update that is marked and a deployment that is logged change what the
\* tables say, and of their own service alone.
Tells(r) == MarkSuccess(r) \/ (LogAudit(r) /\ req[r].kind # "restart")

LEMMA TablesTell ==
  ASSUME SInv, OneAtATime, NEW r \in Requests, Handler(r), NEW s, AtWork(r, s), RowIsLast(r)
  PROVE  \A t \in Services : \A tag :
           Fits(t, tag) /\ (t # s \/ ~ Tells(r)) => Fits(t, tag)'
<1>. SUFFICES ASSUME NEW t \in Services, NEW tag, Fits(t, tag), t # s \/ ~ Tells(r),
                     "sqlite" \notin Faults
              PROVE  /\ LastDeployment(t)' = LastDeployment(t)
                     /\ LastSuccess(t)' = LastSuccess(t)
                     /\ RolledBack(t) => RolledBack(t)'
  BY StillFits
<1>1. CASE RecordUpdate(r) \/ MarkFailed(r) \/ MarkSuccess(r)
  <2>1. audit' = audit
    BY <1>1 DEF RecordUpdate, MarkFailed, MarkSuccess
  <2>2. LastDeployment(t)' = LastDeployment(t) /\ (RolledBack(t) => RolledBack(t)')
    BY <2>1 DEF LastDeployment, DeploymentsOf, Deploys, RolledBack
  <2>3. LastSuccess(t)' = LastSuccess(t)
    <3>1. CASE RecordUpdate(r) \/ MarkFailed(r)
      BY <3>1, NoNewSuccess DEF SInv
    <3>2. CASE MarkSuccess(r)
      BY <3>2, SuccessIsLast DEF Tells, AtWork
    <3>. QED
      BY <1>1, <3>1, <3>2
  <2>. QED
    BY <2>2, <2>3
<1>2. CASE LogAudit(r)
  <2>1. history' = history
    BY <1>2 DEF LogAudit
  <2>2. LastSuccess(t)' = LastSuccess(t)
    BY <2>1 DEF LastSuccess, Successes
  <2>3. LastDeployment(t)' = LastDeployment(t) /\ (RolledBack(t) => RolledBack(t)')
    BY <1>2, LogAuditSays DEF Tells, AtWork
  <2>. QED
    BY <2>2, <2>3
<1>3. CASE \/ InspectService(r) \/ Pull(r) \/ Switch(r) \/ Undo(r)
           \/ InspectTag(r) \/ ListImages(r) \/ Restart(r)
  <2>1. UNCHANGED storeVars
    BY <1>3 DEF InspectService, Pull, Inspect, ImagePull, CopyPullStream,
       Switch, StopOld, RenameOld, CreateNew, StartNew, RemoveOld,
       Undo, RemoveNew, UndoRename, UndoStart, InspectTag, ListImages, Restart
  <2>. QED
    BY <2>1, TablesStay
<1>. QED
  BY <1>1, <1>2, <1>3 DEF Handler, Store

\* What a request has done decides its kind, and the name it gave the old container.
LEMMA RoleKept ==
  ASSUME NEW r \in Requests, Handler(r), NEW s, AtWork(r, s), r \in Active'
  PROVE  Role(r)'
<1>1. TypeInv /\ Role(r) /\ req[r].svc = s /\ s \in Services
  BY DEF AtWork
<1>2. /\ pc'[r] \in {"inspectFrom", "record"} => pc[r] = "inspectFrom"
      /\ pc'[r] \in {"inspectTag", "listImages"} => pc[r] \in {"inspectTag", "listImages"}
      /\ pc'[r] # "restart"
  BY <1>1 DEF Handler, InspectService, Pull, Inspect, ImagePull, CopyPullStream, Switch, StopOld,
     RenameOld, CreateNew, StartNew, RemoveOld, Undo, RemoveNew, UndoRename, UndoStart,
     Store, RecordUpdate, MarkFailed, MarkSuccess, LogAudit, InspectTag, ListImages,
     Restart, EngineCall, EngineCallIgnored, OnFailure, TypeInv, TypeOK
<1>3. /\ pc'[r] \in {"markFailed", "markSuccess"} => req[r].kind = "update"
      /\ pc[r] = "restart" => pc'[r] \in {"audit", "error"}
      /\ pc[r] = "audit" => pc'[r] = "ok"
  BY <1>1 DEF Handler, InspectService, Pull, Inspect, ImagePull, CopyPullStream, Switch, StopOld,
     RenameOld, CreateNew, StartNew, RemoveOld, Undo, RemoveNew, UndoRename, UndoStart,
     Store, RecordUpdate, MarkFailed, MarkSuccess, LogAudit, InspectTag, ListImages,
     Restart, EngineCall, EngineCallIgnored, OnFailure, TypeInv, TypeOK
<1>4. pc'[r] \in KnowsOldName => pc[r] \in KnowsOldName \/ RenameOld(r)
  BY <1>1 DEF Handler, InspectService, Pull, Inspect, ImagePull, CopyPullStream, Switch, StopOld,
     RenameOld, CreateNew, StartNew, RemoveOld, Undo, RemoveNew, UndoRename, UndoStart,
     Store, RecordUpdate, MarkFailed, MarkSuccess, LogAudit, InspectTag, ListImages,
     Restart, EngineCall, EngineCallIgnored, OnFailure, TypeInv, TypeOK, KnowsOldName
<1>5. pc'[r] \notin Terminal
  BY DEF Active
<1>6. /\ req'[r].kind = req[r].kind /\ req'[r].svc = req[r].svc
      /\ req'[r].oldName = IF RenameOld(r) THEN OldName(s, now) ELSE req[r].oldName
  BY <1>1, LocalsKept
<1>7. pc'[r] \in KnowsOldName => req'[r].oldName # LiveName(s)
  BY <1>1, <1>4, <1>6, NamesApart DEF Role
<1>8. pc[r] = "restart" <=> pc'[r] = "audit" /\ req[r].kind = "restart"
  BY <1>1, <1>3, <1>5 DEF Role, Terminal
<1>. QED
  BY <1>1, <1>2, <1>3, <1>5, <1>6, <1>7, <1>8 DEF Role, Terminal

\* The row of the update stays the last of the table.
LEMMA RowIsLastKept ==
  ASSUME SInv, NEW r \in Requests, Handler(r), NEW s, AtWork(r, s), RowIsLast(r),
         r \in Active'
  PROVE  RowIsLast(r)'
<1>. SUFFICES ASSUME "sqlite" \notin Faults, req'[r].kind = "update"
              PROVE  /\ pc'[r] \in Opened => IdOf(r)' = Len(history') /\ history' # <<>>
                     /\ pc'[r] = "audit" => LastSuccess(s)' = req'[r].tag
  BY LocalsKept DEF RowIsLast, AtWork
<1>1. /\ TypeInv /\ HInv /\ req[r].kind = "update" /\ s \in Services
      /\ pc[r] \in Opened => IdOf(r) = Len(history) /\ history # <<>>
  BY LocalsKept DEF AtWork, SInv, HInv, RowIsLast
<1>2. CASE Elsewhere(r)
  <2>1. history' = history /\ IdOf(r)' = IdOf(r)
    BY <1>1, <1>2, ElsewhereKeepsRowsOK
  <2>2. /\ pc'[r] \in Opened => pc[r] \in Opened \cup {"listImages", "inspectTag"}
        /\ pc'[r] = "audit" => pc[r] = "restart" \/ req[r].kind # "update"
    BY <1>1, <1>2
    DEF Elsewhere, InspectService, Pull, Inspect, ImagePull, CopyPullStream,
        Switch, StopOld, RenameOld, CreateNew, StartNew, RemoveOld,
        Undo, RemoveNew, UndoRename, UndoStart, LogAudit,
        InspectTag, ListImages, Restart, EngineCall, EngineCallIgnored,
        OnFailure, Opened, TypeInv, TypeOK
  <2>3. pc[r] \notin {"listImages", "inspectTag", "restart"}
    BY <1>1 DEF AtWork, Role
  <2>. QED
    BY <1>1, <2>1, <2>2, <2>3
<1>3. CASE RecordUpdate(r)
  <2>1. history' = Append(history, NewRow(r)) /\ pc'[r] = "inspect"
    BY <1>1, <1>3 DEF RecordUpdate, Stored, TypeInv, TypeOK
  <2>2. NewRow(r) \in HistoryRows
    BY <1>1, <1>3 DEF RecordUpdate, NewRow, HistoryRows, TypeInv, TypeOK, HandlerOK,
           KnowsTag, Locals
  <2>3. Len(history') = Len(history) + 1 /\ history' \in Seq(HistoryRows)
    BY <1>1, <2>1, <2>2, TablesType, AppendProperties
  <2>4. history' # history /\ history' # <<>>
    BY <1>1, <2>3, TablesType, EmptySeq
  <2>5. IdOf(r)' = Len(history')
    BY <1>1, <1>3, <2>4 DEF RecordUpdate, IdOf, TypeInv, TypeOK, Locals
  <2>. QED
    BY <2>1, <2>4, <2>5
<1>4. CASE MarkFailed(r)
  BY <1>1, <1>4 DEF MarkFailed, Active, Terminal, TypeInv, TypeOK
<1>5. CASE MarkSuccess(r)
  <2>1. pc'[r] = "audit" /\ req' = req
    BY <1>1, <1>5 DEF MarkSuccess, TypeInv, TypeOK
  <2>2. LastSuccess(s)' = req[r].tag
    BY <1>1, <1>5, SuccessIsLast
  <2>. QED
    BY <2>1, <2>2 DEF Opened
<1>. QED
  BY <1>2, <1>3, <1>4, <1>5 DEF Handler, Store, Elsewhere

\* One container left alone, with a tag that fits.
LEMMA AloneAfter ==
  ASSUME NEW s, NEW k \in Containers, NEW name, NEW state,
         Fits(s, ctr[k].tag), Turns(s, k, name, state),
         \A tag : Fits(s, tag) => Fits(s, tag)'
  PROVE  Alone(s, name, state)'
<1>1. PICK tag : tag = ctr[k].tag
  OBVIOUS
<1>2. Fits(s, tag)' /\ ctr'[k].tag = tag
  BY <1>1 DEF Turns
<1>. QED
  BY <1>2 DEF Turns, Alone

\* The shape of a service, while the step of r changes no container,
LEMMA SameShape ==
  ASSUME NEW s, NEW r \in Requests, req'[r].svc = s, req[r].svc = s, ctr' = ctr,
         \A tag : Fits(s, tag) => Fits(s, tag)'
  PROVE  /\ \A name, state : Alone(s, name, state) => Alone(s, name, state)'
         /\ Intact(s) => Intact(s)'
<1>1. ASSUME NEW name, NEW state, Alone(s, name, state)
      PROVE  Alone(s, name, state)'
  <2>1. PICK k \in Containers : One(s, k, name, state) /\ Fits(s, ctr[k].tag)
    BY <1>1 DEF Alone
  <2>2. Turns(s, k, name, state)
    BY <2>1, NoneChanges DEF Turns, One
  <2>. QED
    BY <2>1, <2>2, AloneAfter
<1>2. Intact(s) => Intact(s)'
  BY <1>1 DEF Intact
<1>. QED
  BY <1>1, <1>2

\* From what is left of the service, the shape that its request's new label asks for.
LEMMA ShapeFrom ==
  ASSUME NEW s, NEW r \in Requests, req'[r].svc = s, NEW old, req'[r].oldName = old
  PROVE  /\ pc'[r] \in Untouched /\ Intact(s)' => Shape(r)'
         /\ pc'[r] \in {"rename", "undoStart"} /\ Alone(s, LiveName(s), "stopped")' => Shape(r)'
         /\ pc'[r] \in {"create", "undoRename"} /\ Alone(s, old, "stopped")' => Shape(r)'
BY DEF Shape, Untouched

\* What a step leaves: the service on its way, or at rest.
Leaves(r, s) ==
  OthersStay(s) /\ (IF r \in Active THEN Shape(r) ELSE Intact(s))'

\* A step that calls the engine, changes its containers and no table.
LEMMA SwitchLeaves ==
  ASSUME NEW r \in Requests, NEW s, AtWork(r, s), req'[r].svc = s,
         \/ StopOld(r) \/ RenameOld(r) \/ CreateNew(r) \/ StartNew(r) \/ RemoveOld(r)
         \/ RemoveNew(r) \/ UndoRename(r) \/ UndoStart(r) \/ Restart(r)
  PROVE  Leaves(r, s)
<1>1. /\ TypeInv /\ s \in Services /\ req[r].svc = s /\ pc \in [Requests -> Labels]
      /\ Performs(r)
  BY WorkPerforms DEF AtWork, TypeInv, TypeOK
<1>2. \A tag : Fits(s, tag) => Fits(s, tag)'
  BY StillFits, TablesStay
  DEF StopOld, RenameOld, CreateNew, StartNew, RemoveOld, RemoveNew, UndoRename,
      UndoStart, Restart
<1>3. CASE StopOld(r)
  <2>1. pc'[r] = "rename"
    BY <1>1, <1>3 DEF Performs
  <2>2. OthersStay(s) /\ Alone(s, LiveName(s), "stopped")'
    BY <1>2, <1>3, StopOldTurns, AloneAfter DEF Turns
  <2>. QED
    BY <1>1, <2>1, <2>2, ShapeFrom DEF Leaves, Active, Terminal
<1>4. CASE RenameOld(r)
  <2>1. PICK old : old = OldName(s, now)
    OBVIOUS
  <2>2. pc'[r] = "create" /\ req'[r].oldName = old
    BY <1>1, <1>4, <2>1 DEF Performs, RenameOld, TypeInv, TypeOK, Locals
  <2>3. PICK k \in Containers : Fits(s, ctr[k].tag) /\ Turns(s, k, old, "stopped")
    BY <1>4, <2>1, RenameOldTurns
  <2>4. OthersStay(s) /\ Alone(s, old, "stopped")'
    BY <1>2, <2>3, AloneAfter DEF Turns
  <2>. QED
    BY <1>1, <2>2, <2>4, ShapeFrom DEF Leaves, Active, Terminal
<1>5. CASE CreateNew(r)
  <2>1. PICK k \in Containers :
          /\ One(s, k, req[r].oldName, "stopped") /\ Fits(s, ctr[k].tag)
          /\ IF CanCreate(r)
             THEN Two(r, k, "created")' /\ ctr'[k] = ctr[k] /\ OthersStay(s)
             ELSE ctr' = ctr
    BY <1>5, CreateNewTurns
  <2>2. req' = req
    BY <1>5 DEF CreateNew
  <2>3. CASE CanCreate(r)
    <3>1. pc'[r] = "start"
      BY <1>1, <1>5, <2>3 DEF Performs
    <3>2. PICK tag : tag = ctr[k].tag
      OBVIOUS
    <3>3. Two(r, k, "created")' /\ ctr'[k].tag = tag /\ Fits(s, tag)' /\ OthersStay(s)
      BY <1>2, <2>1, <2>3, <3>2
    <3>4. Beside(r, "created")'
      BY <1>1, <2>2, <3>3 DEF Beside
    <3>. QED
      BY <3>1, <3>3, <3>4 DEF Leaves, Active, Terminal, Shape, Untouched
  <2>4. CASE ~ CanCreate(r)
    <3>1. pc'[r] = "undoRename" /\ ctr' = ctr
      BY <1>1, <1>5, <2>1, <2>4 DEF Performs
    <3>2. PICK old : old = req[r].oldName
      OBVIOUS
    <3>3. Alone(s, old, "stopped")' /\ req'[r].oldName = old
      BY <1>1, <1>2, <2>1, <2>2, <3>1, <3>2, SameShape DEF Alone
    <3>. QED
      BY <1>1, <3>1, <3>3, ShapeFrom, NoneChanges DEF Leaves, Active, Terminal
  <2>. QED
    BY <2>3, <2>4
<1>6. CASE StartNew(r)
  <2>1. PICK k \in Containers :
          /\ Two(r, k, "created") /\ Fits(s, ctr[k].tag)
          /\ IF CanStart(r)
             THEN /\ Two(r, k, "running")' /\ ctr'[k] = ctr[k] /\ OthersStay(s)
                  /\ req[r].tag \notin Broken
             ELSE ctr' = ctr
    BY <1>6, StartNewTurns
  <2>2. req' = req
    BY <1>6 DEF StartNew
  <2>3. PICK tag : tag = ctr[k].tag
    OBVIOUS
  <2>4. CASE CanStart(r)
    <3>1. pc'[r] = "removeOld"
      BY <1>1, <1>6, <2>4 DEF Performs
    <3>2. /\ Two(r, k, "running")' /\ ctr'[k].tag = tag /\ Fits(s, tag)' /\ OthersStay(s)
          /\ req'[r].tag \notin Broken
      BY <1>2, <2>1, <2>2, <2>3, <2>4
    <3>3. Beside(r, "running")'
      BY <1>1, <2>2, <3>2 DEF Beside
    <3>. QED
      BY <3>1, <3>2, <3>3 DEF Leaves, Active, Terminal, Shape, Untouched
  <2>5. CASE ~ CanStart(r)
    <3>1. pc'[r] = "removeNew" /\ ctr' = ctr
      BY <1>1, <1>6, <2>1, <2>5 DEF Performs
    <3>2. Two(r, k, "created")' /\ ctr'[k].tag = tag /\ Fits(s, tag)'
      BY <1>1, <1>2, <2>1, <2>2, <2>3, <3>1, NoneChanges DEF Two, New
    <3>3. Beside(r, "created")'
      BY <1>1, <2>2, <3>2 DEF Beside
    <3>. QED
      BY <3>1, <3>3, NoneChanges DEF Leaves, Active, Terminal, Shape, Untouched
  <2>. QED
    BY <2>4, <2>5
<1>7. CASE RemoveNew(r) \/ UndoRename(r)
  <2>1. req' = req /\ pc'[r] \in {"undoRename", "undoStart"}
    BY <1>1, <1>7 DEF Performs, RemoveNew, UndoRename
  <2>2. PICK old : old = req[r].oldName
    OBVIOUS
  <2>3. CASE RemoveNew(r)
    <3>1. PICK k \in Containers : Fits(s, ctr[k].tag) /\ Turns(s, k, old, "stopped")
      BY <2>2, <2>3, RemoveNewTurns
    <3>2. OthersStay(s) /\ Alone(s, old, "stopped")' /\ pc'[r] = "undoRename"
      BY <1>1, <1>2, <2>3, <3>1, AloneAfter DEF Turns, Performs
    <3>. QED
      BY <1>1, <2>1, <2>2, <3>2, ShapeFrom DEF Leaves, Active, Terminal
  <2>4. CASE UndoRename(r)
    <3>1. OthersStay(s) /\ Alone(s, LiveName(s), "stopped")' /\ pc'[r] = "undoStart"
      BY <1>1, <1>2, <2>4, UndoRenameTurns, AloneAfter DEF Turns, Performs
    <3>. QED
      BY <1>1, <3>1, ShapeFrom DEF Leaves, Active, Terminal
  <2>. QED
    BY <1>7, <2>3, <2>4
<1>8. CASE UndoStart(r)
  <2>1. OthersStay(s) /\ Intact(s)' /\ pc'[r] \in {"markFailed", "error"}
    BY <1>1, <1>2, <1>8, UndoStartTurns, AloneAfter DEF Turns, Performs, OnFailure, Intact
  <2>. QED
    BY <1>1, <2>1, ShapeFrom DEF Leaves, Active, Terminal, Untouched
<1>9. CASE RemoveOld(r)
  <2>1. Replaced(r)' /\ OthersStay(s) /\ req' = req
    BY <1>9, RemoveOldTurns DEF RemoveOld
  <2>2. pc'[r] = "markSuccess" \/ (pc'[r] = "audit" /\ req'[r].kind # "restart")
    BY <1>1, <1>9, <2>1 DEF Performs, RemoveOld, AtWork, Role
  <2>. QED
    BY <2>1, <2>2 DEF Leaves, Active, Terminal, Shape, Untouched
<1>10. CASE Restart(r)
  <2>1. ctr' = ctr /\ req' = req /\ pc'[r] \in {"audit", "error"}
    BY <1>1, <1>10, RestartTurns DEF Performs, Restart
  <2>2. Intact(s)' /\ req'[r].kind = "restart"
    BY <1>1, <1>2, <1>10, <2>1, SameShape DEF AtWork, Shape, Role, Restart, Untouched
  <2>. QED
    BY <1>1, <2>1, <2>2, NoneChanges DEF Leaves, Active, Terminal, Shape, Untouched
<1>. QED
  BY <1>3, <1>4, <1>5, <1>6, <1>7, <1>8, <1>9, <1>10

\* Nor does any other step spoil it; the last one of a deployment makes its tag
\* the one the tables name.
LEMMA OtherLeaves ==
  ASSUME SInv, OneAtATime, NEW r \in Requests, Handler(r), NEW s, AtWork(r, s),
         RowIsLast(r), req'[r].svc = s,
         InspectService(r) \/ Pull(r) \/ Store(r) \/ InspectTag(r) \/ ListImages(r)
  PROVE  Leaves(r, s)
<1>1. /\ TypeInv /\ s \in Services /\ req[r].svc = s /\ pc \in [Requests -> Labels]
      /\ Shape(r) /\ Role(r)
  BY DEF AtWork, TypeInv, TypeOK
<1>2. ctr' = ctr
  BY DEF InspectService, Pull, Inspect, ImagePull, CopyPullStream, Store, RecordUpdate,
         MarkFailed, MarkSuccess, LogAudit, InspectTag, ListImages, EngineCall, Perform,
         engineVars
<1>3. OthersStay(s)
  BY <1>2, NoneChanges
<1>4. CASE \/ InspectService(r) \/ Pull(r) \/ RecordUpdate(r) \/ MarkFailed(r)
           \/ InspectTag(r) \/ ListImages(r)
  <2>1. pc[r] \in Untouched /\ pc'[r] \in Untouched \cup {"error"}
    BY <1>1, <1>4 DEF InspectService, Pull, Inspect, ImagePull, CopyPullStream, RecordUpdate,
       MarkFailed, InspectTag, ListImages, EngineCall, OnFailure, Untouched
  <2>2. ~ Tells(r)
    BY <1>4 DEF Tells, InspectService, Pull, Inspect, ImagePull, CopyPullStream, RecordUpdate,
       MarkFailed, InspectTag, ListImages, MarkSuccess, LogAudit
  <2>3. \A tag : Fits(s, tag) => Fits(s, tag)'
    BY <1>1, <2>2, TablesTell
  <2>4. Intact(s)'
    BY <1>1, <1>2, <2>1, <2>3, SameShape DEF Shape
  <2>. QED
    BY <1>1, <1>3, <2>1, <2>4, ShapeFrom DEF Leaves, Active, Terminal
<1>5. CASE MarkSuccess(r)
  <2>1. pc'[r] = "audit" /\ req' = req /\ Replaced(r) /\ req[r].kind = "update"
    BY <1>1, <1>5 DEF MarkSuccess, Shape, Role
  <2>2. Replaced(r)'
    BY <1>1, <1>2, <2>1, NoneChanges DEF Replaced, New
  <2>. QED
    BY <1>3, <2>1, <2>2 DEF Leaves, Active, Terminal, Shape, Untouched
<1>6. CASE LogAudit(r)
  <2>1. /\ r \notin Active' /\ req' = req /\ history' = history /\ pc[r] = "audit"
        /\ req[r].kind \in {"update", "rollback", "restart"}
    BY <1>1, <1>6, RequestsAssumption
    DEF LogAudit, Active, Terminal, TypeInv, HandlerOK
  <2>2. CASE req[r].kind = "restart"
    <3>1. \A tag : Fits(s, tag) => Fits(s, tag)'
      BY <1>1, <1>6, <2>2, TablesTell DEF Tells, MarkSuccess, LogAudit
    <3>2. Intact(s)
      BY <1>1, <2>1, <2>2 DEF Shape
    <3>. QED
      BY <1>1, <1>2, <1>3, <2>1, <3>1, <3>2, SameShape DEF Leaves
  <2>3. CASE req[r].kind # "restart"
    <3>1. PICK tag : tag = req[r].tag
      OBVIOUS
    <3>2. Replaced(r)
      BY <1>1, <2>1, <2>3 DEF Shape
    <3>3. ASSUME "sqlite" \notin Faults
          PROVE  LastDeployment(s)' = tag /\ (RolledBack(s)' \/ tag = LastSuccess(s)')
      <4>1. LastDeployment(s)' = tag /\ (req[r].kind = "rollback" => RolledBack(s)')
        BY <1>6, <2>3, <3>1, <3>3, LogAuditSays
      <4>2. LastSuccess(s)' = LastSuccess(s)
        BY <2>1 DEF LastSuccess, Successes
      <4>3. req[r].kind = "update" => LastSuccess(s) = tag
        BY <1>1, <2>1, <3>1, <3>3 DEF RowIsLast
      <4>. QED
        BY <2>1, <2>3, <4>1, <4>2, <4>3
    <3>4. Fits(s, tag)'
      BY <3>1, <3>2, <3>3 DEF Fits, Replaced
    <3>5. r \in Containers /\ One(s, r, LiveName(s), "running") /\ ctr[r].tag = tag
      BY <1>1, <3>1, <3>2 DEF Replaced, New, One, Containers
    <3>6. One(s, r, LiveName(s), "running")' /\ ctr'[r].tag = tag
      BY <1>2, <3>5, NoneChanges DEF One
    <3>7. Intact(s)'
      BY <3>4, <3>5, <3>6 DEF Intact, Alone
    <3>. QED
      BY <1>3, <2>1, <3>7 DEF Leaves
  <2>. QED
    BY <2>2, <2>3
<1>. QED
  BY <1>4, <1>5, <1>6 DEF Store

\* A service that is left alone and of which the tables say the same stays as it is.
LEMMA OthersStayIntact ==
  ASSUME NEW s, OthersStay(s), NEW t \in Services \ {s}, Intact(t),
         \A tag : Fits(t, tag) => Fits(t, tag)'
  PROVE  Intact(t)'
<1>1. PICK k \in Containers : One(t, k, LiveName(t), "running") /\ Fits(t, ctr[k].tag)
  BY DEF Intact, Alone
<1>2. PICK tag : tag = ctr[k].tag
  OBVIOUS
<1>3. k \in ContainersOf(t) /\ ContainersOf(t)' = ContainersOf(t) /\ ctr'[k] = ctr[k]
  BY <1>1 DEF OthersStay, One
<1>4. One(t, k, LiveName(t), "running")' /\ ctr'[k].tag = tag /\ Fits(t, tag)'
  BY <1>1, <1>2, <1>3 DEF One
<1>. QED
  BY <1>4 DEF Intact, Alone

\* The invariant holds at first, and is kept by the handler at work,
LEMMA InitClean == Init => CInv
<1>. SUFFICES ASSUME Init PROVE CInv
  OBVIOUS
<1>1. Active = {} /\ \A r \in Requests : ~ cancelled[r]
  BY DEF Init, Active
<1>2. ASSUME NEW s \in Services
      PROVE  Intact(s)
  <2>1. One(s, s, LiveName(s), "running") /\ ctr[s].tag = InitTag /\ s \in Containers
    BY ServicesAssumption DEF Init, One, ContainersOf, Exists, Containers, LiveName, NoName
  <2>2. LastDeployment(s) = InitTag /\ LastSuccess(s) = InitTag
    BY DEF Init, LastDeployment, DeploymentsOf, LastSuccess, Successes
  <2>3. Fits(s, InitTag)
    BY <2>2, TagsAssumption DEF Fits
  <2>. QED
    BY <2>1, <2>3 DEF Intact, Alone
<1>. QED
  BY <1>1, <1>2 DEF CInv

LEMMA HandlerClean ==
  ASSUME SInv, CInv, OneAtATime, NEW r \in Requests, Handler(r)
  PROVE  CInv'
<1>1. PICK s : s = req[r].svc
  OBVIOUS
<1>2. /\ TypeInv /\ AtWork(r, s) /\ r \in Active /\ RowIsLast(r)
      /\ cancelled' = cancelled /\ req'[r].svc = s /\ Active' \subseteq {r}
      /\ \A t \in Services \ {s} : Intact(t)
  BY <1>1, Working DEF SInv, HInv
<1>3. Leaves(r, s)
  BY <1>2, SwitchLeaves, OtherLeaves DEF Handler, Switch, Undo
<1>4. ASSUME NEW t \in Services \ {s}
      PROVE  Intact(t)'
  <2>1. \A tag : Fits(t, tag) => Fits(t, tag)'
    BY <1>2, TablesTell
  <2>. QED
    BY <1>2, <1>3, <2>1, OthersStayIntact DEF Leaves
<1>5. r \in Active' => Role(r)' /\ Shape(r)' /\ RowIsLast(r)'
  BY <1>2, <1>3, RoleKept, RowIsLastKept DEF Leaves
<1>6. r \notin Active' => Intact(s)'
  BY <1>3 DEF Leaves
<1>7. \A q \in Requests : ~ cancelled'[q]
  BY <1>2 DEF CInv
<1>8. \A t \in Services : (\A q \in Active' : req'[q].svc # t) => Intact(t)'
  BY <1>2, <1>4, <1>6
<1>. QED
  BY <1>2, <1>5, <1>7, <1>8 DEF CInv

\* by a request that begins, which finds every service at rest,
LEMMA BeginClean ==
  ASSUME SInv, CInv, OneAtATime, NEW r \in Requests, Begin(r)
  PROVE  CInv'
<1>1. TypeInv /\ MaxInFlight = 1
  BY DEF SInv, HInv, OneAtATime
<1>2. PICK k \in Kinds, s \in Services, tag \in Tags \cup {NoTag} :
        /\ req' = [req EXCEPT ![r] = NewRequest(k, s, tag)]
        /\ pc' = [pc EXCEPT ![r] = FirstLabel[k]]
  BY DEF Begin
<1>3. ctr' = ctr /\ cancelled' = cancelled /\ UNCHANGED storeVars
  BY DEF Begin, engineVars
<1>4. Active = {}
  <2>1. IsFiniteSet(Active)
    BY ServicesAssumption, FS_Subset DEF Active
  <2>2. Cardinality(Active) \in Nat /\ Cardinality(Active) < 1
    BY <1>1, <2>1, FS_CardinalityType DEF Begin
  <2>. QED
    BY <2>1, <2>2, FS_EmptySet
<1>5. /\ pc'[r] = FirstLabel[k] /\ req'[r] = NewRequest(k, s, tag)
      /\ \A q \in Requests \ {r} : pc'[q] = pc[q]
      /\ k \in {"update", "rollback", "restart"}
  BY <1>1, <1>2, RequestsAssumption DEF TypeInv, TypeOK
<1>6. Active' \subseteq {r}
  BY <1>4, <1>5 DEF Active
<1>7. ASSUME NEW t \in Services
      PROVE  Intact(t)'
  <2>1. \A any : Fits(t, any) => Fits(t, any)'
    BY <1>3, StillFits, TablesStay
  <2>2. Intact(t)
    BY <1>4 DEF CInv
  <2>3. PICK j \in Containers : One(t, j, LiveName(t), "running") /\ Fits(t, ctr[j].tag)
    BY <2>2 DEF Intact, Alone
  <2>4. Turns(t, j, LiveName(t), "running")
    BY <1>3, <2>3, NoneChanges DEF Turns, One
  <2>. QED
    BY <2>1, <2>3, <2>4, AloneAfter DEF Intact
<1>8. Role(r)' /\ Shape(r)' /\ RowIsLast(r)'
  <2>1. /\ pc'[r] = CASE k = "update" -> "inspectFrom" [] k = "rollback" -> "inspectTag"
                      [] k = "restart" -> "restart"
        /\ req'[r].kind = k /\ req'[r].svc = s
    BY <1>5 DEF FirstLabel, NewRequest
  <2>2. Role(r)'
    BY <1>5, <2>1 DEF Role, KnowsOldName
  <2>3. Shape(r)'
    BY <1>5, <1>7, <2>1 DEF Shape, Untouched
  <2>4. RowIsLast(r)'
    BY <1>5, <2>1 DEF RowIsLast, Opened
  <2>. QED
    BY <2>2, <2>3, <2>4
<1>9. \A q \in Requests : ~ cancelled'[q]
  BY <1>3 DEF CInv
<1>. QED
  BY <1>6, <1>7, <1>8, <1>9 DEF CInv

\* and by the steps that are nobody's.
LEMMA NextClean ==
  ASSUME SInv, CInv, OneAtATime, [Next]_vars
  PROVE  CInv'
<1>1. CASE \E r \in Requests : Handler(r)
  BY <1>1, HandlerClean
<1>2. CASE \E r \in Requests : Begin(r)
  BY <1>2, BeginClean
<1>3. CASE (\E r \in Requests : Cancel(r)) \/ Exit
  BY <1>3 DEF Cancel, Exit, OneAtATime
<1>4. CASE Tick \/ Finished \/ UNCHANGED vars
  <2>1. UNCHANGED <<ctr, history, audit, pc, req, cancelled>>
    BY <1>4 DEF Tick, Finished, vars, engineVars, storeVars
  <2>2. \A s, tag : Fits(s, tag)' <=> Fits(s, tag)
    BY <2>1 DEF Fits, LastDeployment, DeploymentsOf, Deploys, LastSuccess, Successes,
       RolledBack
  <2>3. \A s : ContainersOf(s)' = ContainersOf(s)
    BY <2>1 DEF ContainersOf, Exists
  <2>4. \A s, name, state : Alone(s, name, state)' <=> Alone(s, name, state)
    BY <2>1, <2>2, <2>3 DEF Alone, One
  <2>5. \A s : Intact(s)' <=> Intact(s)
    BY <2>4 DEF Intact
  <2>6. \A r, state : Beside(r, state)' <=> Beside(r, state)
    BY <2>1, <2>2, <2>3 DEF Beside, Two, New
  <2>7. \A r : Replaced(r)' <=> Replaced(r)
    BY <2>1, <2>3 DEF Replaced, New
  <2>8. \A r : Shape(r)' <=> Shape(r)
    BY <2>1, <2>4, <2>5, <2>6, <2>7 DEF Shape
  <2>9. \A r : (Role(r)' <=> Role(r)) /\ (RowIsLast(r)' <=> RowIsLast(r))
    BY <2>1 DEF Role, RowIsLast, IdOf, LastSuccess, Successes
  <2>10. Active' = Active
    BY <2>1 DEF Active
  <2>. QED
    BY <2>1, <2>5, <2>8, <2>9, <2>10 DEF CInv
<1>. QED
  BY <1>1, <1>2, <1>3, <1>4 DEF Next

\* The container that is alone is the running one, and its tag the one that runs.
LEMMA IntactRuns ==
  ASSUME TypeInv, NEW s \in Services, Intact(s)
  PROVE  \E k \in Containers :
           /\ ContainersOf(s) = {k} /\ Running(ctr, LiveName(s)) = {k}
           /\ RunningTag(s) = ctr[k].tag /\ Fits(s, RunningTag(s))
<1>1. PICK k \in Containers : One(s, k, LiveName(s), "running") /\ Fits(s, ctr[k].tag)
  BY DEF Intact, Alone
<1>2. Named(ctr, LiveName(s)) = {k}
  BY <1>1, NamedOne, LiveNameType
<1>3. Running(ctr, LiveName(s)) = {k}
  BY <1>1, <1>2 DEF Running, One
<1>4. RunningTag(s) = ctr[k].tag
  BY <1>3 DEF RunningTag, TagOf
<1>. QED
  BY <1>1, <1>3, <1>4 DEF One

LEMMA CleanInvariant ==
  ASSUME OneAtATime
  PROVE  Spec => [](TypeInv /\ CInv)
<1>1. SInv /\ CInv /\ [Next]_vars => CInv'
  BY NextClean
<1>2. Spec => []CInv
  BY <1>1, InitClean, SInvAlways, PTL DEF Spec
<1>3. SInv => TypeInv
  BY DEF SInv, HInv
<1>. QED
  BY <1>2, <1>3, SInvAlways, PTL

\* The operator who waits finds one container per service, under its own name
\* and running: no "_old_" container is left, whatever pull was broken off,
\* whatever image could not be started, whatever row SQLite refused.
THEOREM CleanAtRestAlways ==
  ASSUME OneAtATime
  PROVE  Spec => []CleanAtRest
<1>1. TypeInv /\ CInv => CleanAtRest
  BY IntactRuns DEF CInv, CleanAtRest
<1>. QED
  BY <1>1, CleanInvariant, PTL

\* For that operator the last row of audit_log about an update or a rollback
\* names the tag that runs, as long as SQLite takes every row.
THEOREM AuditExplainsTagAlways ==
  ASSUME OneAtATime, "sqlite" \notin Faults
  PROVE  Spec => []AuditExplainsTag
<1>1. TypeInv /\ CInv => AuditExplainsTag
  BY IntactRuns DEF CInv, AuditExplainsTag, Fits
<1>. QED
  BY <1>1, CleanInvariant, PTL

\* And so does the last successful row of update_history, until a rollback,
\* which writes no row there.
THEOREM HistoryExplainsTagAlways ==
  ASSUME OneAtATime, "sqlite" \notin Faults
  PROVE  Spec => []HistoryExplainsTag
<1>1. TypeInv /\ CInv => HistoryExplainsTag
  BY IntactRuns DEF CInv, HistoryExplainsTag, Fits
<1>. QED
  BY <1>1, CleanInvariant, PTL
-----------------------------------------------------------------------------
(***************************************************************************)
(* The refinement.  Every step of that operator's requests is a step of    *)
(* ServiceDeploy, seen through the containers that run and the rows of the *)
(* trail, or changes neither.                                              *)
(***************************************************************************)
\* The trail of the deployments among any rows.
Entry(row) == [svc |-> row.svc, tag |-> row.new]
Entries == [svc : Services, tag : AllTags]
IsDeployment(row) == row.action \in {"update", "rollback"}

TrailOf(rows) ==
  LET upTo[i \in 0 .. Len(rows)] ==
        IF i = 0 THEN <<>>
        ELSE IF IsDeployment(rows[i])
             THEN Append(upTo[i - 1], [svc |-> rows[i].svc, tag |-> rows[i].new])
             ELSE upTo[i - 1]
  IN  upTo[Len(rows)]

\* A row of the trail is the entry of a deployment, or nothing that is one.
OrNone(rows) ==
  [i \in DOMAIN rows |->
     IF IsDeployment(rows[i]) THEN Entry(rows[i]) ELSE CHOOSE x : x \notin Entries]

LEMMA TrailFilters ==
  ASSUME NEW rows \in Seq(AuditRows)
  PROVE  LET f == CHOOSE f : FiltersFrom(f, 0, Len(rows), <<>>, OrNone(rows), Entries)
         IN  /\ FiltersFrom(f, 0, Len(rows), <<>>, OrNone(rows), Entries)
             /\ TrailOf(rows) = f[Len(rows)]
<1>1. Len(rows) \in Nat /\ DOMAIN rows = 1 .. Len(rows)
  BY LenProperties
<1>2. \A i \in DOMAIN rows : OrNone(rows)[i] \in Entries <=> IsDeployment(rows[i])
  <2>1. (CHOOSE x : x \notin Entries) \notin Entries
    BY NoSetContainsEverything
  <2>2. \A i \in DOMAIN rows : rows[i] \in AuditRows
    BY <1>1, ElementOfSeq
  <2>3. \A i \in DOMAIN rows : Entry(rows[i]) \in Entries
    BY <2>2 DEF Entry, Entries, AuditRows
  <2>. QED
    BY <2>1, <2>3 DEF OrNone
<1>3. \A f : FiltersFrom(f, 0, Len(rows), <<>>, OrNone(rows), Entries)
             <=> f = [i \in 0 .. Len(rows) |->
                        IF i = 0 THEN <<>>
                        ELSE IF IsDeployment(rows[i])
                             THEN Append(f[i - 1], [svc |-> rows[i].svc, tag |-> rows[i].new])
                             ELSE f[i - 1]]
  <2>. TAKE f
  <2>1. \A i \in 0 .. Len(rows) :
          FilterStep(f, i, 0, <<>>, OrNone(rows), Entries)
          = IF i = 0 THEN <<>>
            ELSE IF IsDeployment(rows[i])
                 THEN Append(f[i - 1], [svc |-> rows[i].svc, tag |-> rows[i].new])
                 ELSE f[i - 1]
    <3>1. \A i \in 0 .. Len(rows) : i # 0 => i \in DOMAIN rows
      BY <1>1
    <3>2. \A i \in DOMAIN rows : IsDeployment(rows[i]) => OrNone(rows)[i] = Entry(rows[i])
      BY DEF OrNone
    <3>. QED
      BY <1>2, <3>1, <3>2 DEF FilterStep, Entry
  <2>. QED
    BY <2>1 DEF FiltersFrom
<1>. DEFINE f == CHOOSE f : FiltersFrom(f, 0, Len(rows), <<>>, OrNone(rows), Entries)
<1>4. FiltersFrom(f, 0, Len(rows), <<>>, OrNone(rows), Entries)
  BY <1>1, FilterExists
<1>5. TrailOf(rows) = f[Len(rows)]
  BY <1>3 DEF TrailOf
<1>. QED
  BY <1>4, <1>5

\* One more row, and the trail grows when the row is a deployment's.
LEMMA TrailGrows ==
  ASSUME NEW rows \in Seq(AuditRows), NEW row \in AuditRows
  PROVE  TrailOf(Append(rows, row)) = IF IsDeployment(row) THEN Append(TrailOf(rows), Entry(row))
                                                           ELSE TrailOf(rows)
<1>. DEFINE n == Len(rows)
            more == Append(rows, row)
<1>1. /\ more \in Seq(AuditRows) /\ Len(more) = n + 1 /\ n \in Nat
      /\ DOMAIN rows = 1 .. n /\ DOMAIN more = 1 .. n + 1
      /\ \A i \in 1 .. n : more[i] = rows[i]
      /\ more[n + 1] = row
  BY AppendProperties, LenProperties
<1>. HIDE DEF n, more
<1>2. PICK f : FiltersFrom(f, 0, n, <<>>, OrNone(rows), Entries) /\ TrailOf(rows) = f[n]
  BY TrailFilters DEF n
<1>3. PICK g : FiltersFrom(g, 0, n + 1, <<>>, OrNone(more), Entries) /\ TrailOf(more) = g[n + 1]
  BY <1>1, TrailFilters
<1>4. (\A i \in 1 .. n : OrNone(more)[i] = OrNone(rows)[i]) /\ n + 1 \in DOMAIN more
  BY <1>1 DEF OrNone
<1>5. g[n + 1] = IF OrNone(more)[n + 1] \in Entries THEN Append(f[n], OrNone(more)[n + 1]) ELSE f[n]
  BY <1>1, <1>2, <1>3, <1>4, FilterGrows
<1>6. /\ IsDeployment(row) => OrNone(more)[n + 1] = Entry(row) /\ Entry(row) \in Entries
      /\ ~ IsDeployment(row) => OrNone(more)[n + 1] \notin Entries
  BY <1>1, <1>4, NoSetContainsEverything DEF OrNone, Entry, Entries, AuditRows
<1>. QED
  BY <1>2, <1>3, <1>5, <1>6 DEF more

LEMMA DeploymentsAre == Deployments = TrailOf(audit) /\ Deployments' = TrailOf(audit')
BY DEF Deployments, TrailOf, Deploys, IsDeployment

\* What is seen of a service on its way: what it runs, or ran, and its phase.
Shows(s, tag, phase) == Deployed(s) = tag /\ Phase(s) = phase
UpPhase(s) == IF Unlogged(s) THEN "unlogged" ELSE "up"

ShapesShow ==
  \A s, k, r, name :
    /\ One(s, k, name, "running") => Shows(s, ctr[k].tag, UpPhase(s))
    /\ One(s, k, name, "stopped") => Shows(s, ctr[k].tag, "down")
    /\ req[r].svc = s =>
         /\ Two(r, k, "created") => Shows(s, ctr[k].tag, "down")
         /\ Two(r, k, "running") => Shows(s, req[r].tag, UpPhase(s))
         /\ Replaced(r) => Shows(s, req[r].tag, UpPhase(s))

LEMMA WhatShows == ShapesShow
<1>. SUFFICES ASSUME NEW s, NEW k, NEW r, NEW name
              PROVE
    /\ One(s, k, name, "running") => Shows(s, ctr[k].tag, UpPhase(s))
    /\ One(s, k, name, "stopped") => Shows(s, ctr[k].tag, "down")
    /\ req[r].svc = s =>
         /\ Two(r, k, "created") => Shows(s, ctr[k].tag, "down")
         /\ Two(r, k, "running") => Shows(s, req[r].tag, UpPhase(s))
         /\ Replaced(r) => Shows(s, req[r].tag, UpPhase(s))
  BY DEF ShapesShow
<1>1. \A j : In(s, "running") = {j} => Shows(s, ctr[j].tag, UpPhase(s))
  BY DEF Shows, Deployed, Phase, UpPhase, TagOf
<1>2. \A j : In(s, "running") = {} /\ In(s, "stopped") = {j} => Shows(s, ctr[j].tag, "down")
  BY DEF Shows, Deployed, Phase, TagOf
<1>3. One(s, k, name, "running") => In(s, "running") = {k}
  BY DEF One, In
<1>4. One(s, k, name, "stopped") => In(s, "running") = {} /\ In(s, "stopped") = {k}
  BY DEF One, In
<1>5. req[r].svc = s /\ Two(r, k, "created") => In(s, "running") = {} /\ In(s, "stopped") = {k}
  BY DEF Two, New, In
<1>6. req[r].svc = s /\ Two(r, k, "running") => In(s, "running") = {r} /\ ctr[r].tag = req[r].tag
  BY DEF Two, New, In
<1>7. req[r].svc = s /\ Replaced(r) => In(s, "running") = {r} /\ ctr[r].tag = req[r].tag
  BY DEF Replaced, New, In
<1>. QED
  BY <1>1, <1>2, <1>3, <1>4, <1>5, <1>6, <1>7

LEMMA WhatShowsNext == ShapesShow'
BY WhatShows, PTL

\* Only the request at work can have deployed what is not logged yet.
AfterStart(r) ==
  pc[r] \in {"removeOld", "markSuccess", "audit"} /\ req[r].kind # "restart"

LEMMA UnloggedIs ==
  ASSUME TypeInv, CInv, OneAtATime, NEW r \in Requests, Handler(r), NEW s, req[r].svc = s
  PROVE  /\ UpPhase(s) = IF AfterStart(r) THEN "unlogged" ELSE "up"
         /\ UpPhase(s)' = IF AfterStart(r)' THEN "unlogged" ELSE "up"
         /\ \A t \in Services \ {s} : UpPhase(t) = "up" /\ UpPhase(t)' = "up"
<1>1. /\ r \in Active /\ req'[r].svc = s /\ Active' \subseteq {r}
      /\ \A q \in Active : q = r
  BY Working DEF CInv
<1>2. AfterStart(r)' => r \in Active'
  BY DEF AfterStart, Active, Terminal
<1>3. /\ \A t : Unlogged(t) <=> t = s /\ AfterStart(r)
      /\ \A t : Unlogged(t)' <=> t = s /\ AfterStart(r)'
  BY <1>1, <1>2 DEF Unlogged, AfterStart
<1>. QED
  BY <1>3 DEF UpPhase

\* The services that are not at work show no change.
Aside(t) == Phase(t) = "up" /\ Phase(t)' = "up" /\ Deployed(t)' = Deployed(t)

LEMMA OthersAside ==
  ASSUME SInv, CInv, OneAtATime, NEW r \in Requests, Handler(r), NEW s, req[r].svc = s,
         NEW t \in Services \ {s}
  PROVE  Aside(t)
<1>1. TypeInv /\ AtWork(r, s) /\ Intact(t) /\ req'[r].svc = s
  BY Working DEF SInv, HInv
<1>2. OthersStay(s)
  BY <1>1, Working, SwitchLeaves, OtherLeaves DEF Handler, Switch, Undo, Leaves, SInv, HInv
<1>3. PICK k \in Containers : One(t, k, LiveName(t), "running")
  BY <1>1 DEF Intact, Alone
<1>4. ContainersOf(t)' = ContainersOf(t) /\ ctr'[k] = ctr[k]
  BY <1>2, <1>3 DEF OthersStay, One
<1>5. One(t, k, LiveName(t), "running")'
  BY <1>3, <1>4 DEF One
<1>6. UpPhase(t) = "up" /\ UpPhase(t)' = "up"
  BY <1>1, UnloggedIs
<1>. QED
  BY <1>3, <1>4, <1>5, <1>6, WhatShows, WhatShowsNext DEF ShapesShow, Shows, Aside

\* What one service shows of a step.
Seen(s, phase, next, tag) ==
  /\ Phase(s) = phase /\ Phase(s)' = next
  /\ Deployed(s)' = tag /\ Deployments' = Deployments

SeenNothing(s) ==
  Phase(s)' = Phase(s) /\ Deployed(s)' = Deployed(s) /\ Deployments' = Deployments

SeenLog(s) ==
  /\ Phase(s) = "unlogged" /\ Phase(s)' = "up" /\ Deployed(s)' = Deployed(s)
  /\ Deployments' = Append(Deployments, [svc |-> s, tag |-> Deployed(s)])

SeenStep(s) ==
  \/ SeenNothing(s) \/ SeenLog(s)
  \/ Seen(s, "up", "down", Deployed(s))
  \/ Seen(s, "down", "up", Deployed(s))
  \/ \E tag \in Tags \ Broken : Seen(s, "down", "unlogged", tag)

\* It is a step of ServiceDeploy.
LEMMA SeenIsDeploy ==
  ASSUME NEW s \in Services, SeenStep(s), \A t \in Services \ {s} : Aside(t)
  PROVE  [Deploy!Next]_(Deploy!vars)
<1>. DEFINE deployed == [t \in Services |-> Deployed(t)]
            phase == [t \in Services |-> Phase(t)]
<1>1. /\ deployed' = [deployed EXCEPT ![s] = Deployed(s)']
      /\ phase' = [phase EXCEPT ![s] = Phase(s)']
      /\ deployed[s] = Deployed(s) /\ phase[s] = Phase(s)
      /\ \A t \in Services \ {s} : phase[t] = "up"
      /\ deployed = [deployed EXCEPT ![s] = Deployed(s)]
      /\ phase = [phase EXCEPT ![s] = Phase(s)]
  BY DEF Aside
<1>. HIDE DEF deployed, phase
<1>2. CASE SeenNothing(s)
  BY <1>1, <1>2 DEF SeenNothing, Deploy!vars, deployed, phase
<1>3. CASE SeenLog(s)
  BY <1>1, <1>3 DEF SeenLog, Deploy!Next, Deploy!ComeBack, Deploy!Log, deployed, phase
<1>4. CASE Seen(s, "up", "down", Deployed(s))
  <2>1. \A t \in Services : phase[t] = "up"
    BY <1>1, <1>4 DEF Seen
  <2>. QED
    BY <1>1, <1>4, <2>1 DEF Seen, Deploy!Next, Deploy!TakeDown, deployed, phase
<1>5. CASE Seen(s, "down", "up", Deployed(s))
  BY <1>1, <1>5 DEF Seen, Deploy!Next, Deploy!ComeBack, Deploy!Restore, deployed, phase
<1>6. CASE \E tag \in Tags \ Broken : Seen(s, "down", "unlogged", tag)
  <2>1. PICK tag \in Tags \ Broken : Seen(s, "down", "unlogged", tag)
    BY <1>6
  <2>2. Deploy!Deploy(s)
    BY <1>1, <2>1 DEF Seen, Deploy!Deploy, deployed, phase
  <2>. QED
    BY <2>2 DEF Deploy!Next, Deploy!ComeBack
<1>. QED
  BY <1>2, <1>3, <1>4, <1>5, <1>6 DEF SeenStep

\* What the steps show that turn the service's containers,
LEMMA SwitchSeen ==
  ASSUME TypeInv, CInv, OneAtATime, NEW r \in Requests, Handler(r), NEW s, req[r].svc = s,
         \/ StopOld(r) \/ RenameOld(r) \/ CreateNew(r) \/ StartNew(r) \/ RemoveOld(r)
         \/ RemoveNew(r) \/ UndoRename(r) \/ UndoStart(r) \/ Restart(r)
  PROVE  SeenStep(s)
<1>1. /\ AtWork(r, s) /\ Performs(r) /\ req'[r].svc = s /\ pc \in [Requests -> Labels]
      /\ \/ req' = req
         \/ RenameOld(r)
      /\ req'[r].kind = req[r].kind
  BY Working, WorkPerforms, LocalsKept
  DEF TypeInv, TypeOK, StopOld, RenameOld, CreateNew, StartNew, RemoveOld, RemoveNew,
      UndoRename, UndoStart, Restart
<1>2. Deployments' = Deployments
  <2>1. audit' = audit
    BY DEF StopOld, RenameOld, CreateNew, StartNew, RemoveOld, RemoveNew, UndoRename,
           UndoStart, Restart, storeVars
  <2>. QED
    BY <2>1, DeploymentsAre
<1>3. /\ UpPhase(s) = IF AfterStart(r) THEN "unlogged" ELSE "up"
      /\ UpPhase(s)' = IF AfterStart(r)' THEN "unlogged" ELSE "up"
  BY UnloggedIs
<1>4. CASE StopOld(r)
  <2>1. pc[r] = "stop"
    BY <1>4 DEF StopOld
  <2>2. PICK k \in Containers : /\ One(s, k, LiveName(s), "running")
                                /\ Turns(s, k, LiveName(s), "stopped")
    BY <1>1, <1>4, StopOldTurns
  <2>3. /\ Phase(s) = "up" /\ Deployed(s) = ctr[k].tag
        /\ Phase(s)' = "down" /\ Deployed(s)' = ctr[k].tag
    BY <1>3, <2>1, <2>2, WhatShows, WhatShowsNext DEF ShapesShow, AfterStart, Turns, Shows
  <2>. QED
    BY <1>2, <2>3 DEF SeenStep, Seen
<1>5. CASE RenameOld(r) \/ UndoRename(r)
  <2>1. PICK k \in Containers : \E name, next : /\ One(s, k, name, "stopped")
                                                 /\ Turns(s, k, next, "stopped")
    BY <1>1, <1>5, RenameOldTurns, UndoRenameTurns
  <2>2. /\ Phase(s) = "down" /\ Deployed(s) = ctr[k].tag
        /\ Phase(s)' = "down" /\ Deployed(s)' = ctr[k].tag
    BY <2>1, WhatShows, WhatShowsNext DEF ShapesShow, Turns, Shows
  <2>. QED
    BY <1>2, <2>2 DEF SeenStep, SeenNothing
<1>6. CASE CreateNew(r)
  <2>1. PICK k \in Containers :
          /\ One(s, k, req[r].oldName, "stopped")
          /\ IF CanCreate(r) THEN Two(r, k, "created")' /\ ctr'[k] = ctr[k] ELSE ctr' = ctr
    BY <1>1, <1>6, CreateNewTurns
  <2>2. Phase(s) = "down" /\ Deployed(s) = ctr[k].tag
    BY <2>1, WhatShows DEF ShapesShow, Shows
  <2>3. Phase(s)' = "down" /\ Deployed(s)' = ctr[k].tag
    <3>1. CASE CanCreate(r)
      BY <1>1, <2>1, <3>1, WhatShowsNext DEF ShapesShow, Shows
    <3>2. CASE ~ CanCreate(r)
      <4>1. ctr' = ctr
        BY <2>1, <3>2
      <4>2. \E name : One(s, k, name, "stopped")'
        BY <2>1, <4>1, NoneChanges DEF One
      <4>. QED
        BY <4>1, <4>2, WhatShowsNext DEF ShapesShow, Shows
    <3>. QED
      BY <3>1, <3>2
  <2>. QED
    BY <1>2, <2>2, <2>3 DEF SeenStep, SeenNothing
<1>7. CASE StartNew(r)
  <2>1. PICK k \in Containers :
           /\ Two(r, k, "created")
           /\ IF CanStart(r) THEN Two(r, k, "running")' /\ req[r].tag \notin Broken
                             ELSE ctr' = ctr
    BY <1>1, <1>7, StartNewTurns
  <2>2. Phase(s) = "down" /\ Deployed(s) = ctr[k].tag
    BY <2>1, WhatShows DEF ShapesShow, Shows
  <2>3. req' = req /\ req[r].tag \in Tags
    BY <1>7 DEF StartNew, TypeInv, HandlerOK, KnowsTag
  <2>4. CASE CanStart(r)
    <3>1. pc'[r] = "removeOld" /\ req[r].kind # "restart"
      BY <1>1, <1>7, <2>4 DEF Performs, AtWork, Role, StartNew
    <3>2. AfterStart(r)'
      BY <1>1, <3>1 DEF AfterStart
    <3>3. Phase(s)' = "unlogged" /\ Deployed(s)' = req[r].tag
      BY <1>1, <1>3, <2>1, <2>3, <2>4, <3>2, WhatShowsNext DEF ShapesShow, Shows
    <3>4. PICK tag \in Tags \ Broken : tag = req[r].tag
      BY <2>1, <2>3, <2>4
    <3>. QED
      BY <1>2, <2>2, <3>3, <3>4 DEF SeenStep, Seen
  <2>5. CASE ~ CanStart(r)
    <3>1. ctr' = ctr
      BY <2>1, <2>5
    <3>2. Two(r, k, "created")'
      BY <1>1, <2>1, <2>3, <3>1, NoneChanges DEF Two, New
    <3>3. Phase(s)' = "down" /\ Deployed(s)' = ctr[k].tag
      BY <1>1, <3>1, <3>2, WhatShowsNext DEF ShapesShow, Shows
    <3>. QED
      BY <1>2, <2>2, <3>3 DEF SeenStep, SeenNothing
  <2>. QED
    BY <2>4, <2>5
<1>8. CASE RemoveNew(r)
  <2>1. PICK k \in Containers : /\ Two(r, k, "created")
                                /\ Turns(s, k, req[r].oldName, "stopped")
    BY <1>1, <1>8, RemoveNewTurns
  <2>2. \E name : One(s, k, name, "stopped")' /\ ctr'[k].tag = ctr[k].tag
    BY <2>1 DEF Turns, One
  <2>3. /\ Phase(s) = "down" /\ Deployed(s) = ctr[k].tag
        /\ Phase(s)' = "down" /\ Deployed(s)' = ctr[k].tag
    BY <2>1, <2>2, WhatShows, WhatShowsNext DEF ShapesShow, Shows
  <2>. QED
    BY <1>2, <2>3 DEF SeenStep, SeenNothing
<1>9. CASE UndoStart(r)
  <2>1. PICK k \in Containers : /\ One(s, k, LiveName(s), "stopped")
                                /\ Turns(s, k, LiveName(s), "running")
    BY <1>1, <1>9, UndoStartTurns
  <2>2. ~ AfterStart(r)'
    BY <1>1, <1>9 DEF Performs, OnFailure, AfterStart
  <2>3. /\ Phase(s) = "down" /\ Deployed(s) = ctr[k].tag
        /\ Phase(s)' = "up" /\ Deployed(s)' = ctr[k].tag
    BY <1>3, <2>1, <2>2, WhatShows, WhatShowsNext DEF ShapesShow, Turns, Shows
  <2>. QED
    BY <1>2, <2>3 DEF SeenStep, Seen
<1>10. CASE RemoveOld(r)
  <2>1. PICK k \in Containers : Two(r, k, "running") /\ Replaced(r)' /\ req' = req
    BY <1>1, <1>10, RemoveOldTurns DEF RemoveOld
  <2>2. AfterStart(r) /\ AfterStart(r)'
    BY <1>1, <1>10, <2>1 DEF RemoveOld, Performs, AfterStart, AtWork, Role
  <2>3. Phase(s) = "unlogged" /\ Deployed(s) = req[r].tag
    BY <1>3, <2>1, <2>2, WhatShows DEF ShapesShow, Shows
  <2>4. Phase(s)' = "unlogged" /\ Deployed(s)' = req[r].tag
    BY <1>1, <1>3, <2>1, <2>2, WhatShowsNext DEF ShapesShow, Shows
  <2>. QED
    BY <1>2, <2>3, <2>4 DEF SeenStep, SeenNothing
<1>11. CASE Restart(r)
  <2>1. ctr' = ctr /\ req[r].kind = "restart"
    BY <1>1, <1>11, RestartTurns DEF AtWork, Role, Restart
  <2>2. PICK k \in Containers : One(s, k, LiveName(s), "running")
    BY <1>1, <1>11 DEF AtWork, Shape, Restart, Untouched, Intact, Alone
  <2>3. One(s, k, LiveName(s), "running")' /\ ~ AfterStart(r) /\ ~ AfterStart(r)'
    BY <1>1, <2>1, <2>2, NoneChanges DEF One, AfterStart
  <2>4. /\ Phase(s) = "up" /\ Deployed(s) = ctr[k].tag
        /\ Phase(s)' = "up" /\ Deployed(s)' = ctr[k].tag
    BY <1>3, <2>1, <2>2, <2>3, WhatShows, WhatShowsNext DEF ShapesShow, Shows
  <2>. QED
    BY <1>2, <2>4 DEF SeenStep, SeenNothing
<1>. QED
  BY <1>4, <1>5, <1>6, <1>7, <1>8, <1>9, <1>10, <1>11

\* When no container changes, no service shows one.
LEMMA SameShown ==
  ASSUME ctr' = ctr, NEW s
  PROVE  /\ Deployed(s)' = Deployed(s)
         /\ Phase(s) = IF Phase(s) = "down" THEN "down" ELSE UpPhase(s)
         /\ Phase(s)' = IF Phase(s) = "down" THEN "down" ELSE UpPhase(s)'
<1>1. ContainersOf(s)' = ContainersOf(s)
  BY NoneChanges
<1>2. PICK R, S : R = In(s, "running") /\ S = In(s, "stopped")
  OBVIOUS
<1>3. In(s, "running")' = R /\ In(s, "stopped")' = S
  BY <1>1, <1>2 DEF In
<1>4. TagOf(R)' = TagOf(R) /\ TagOf(S)' = TagOf(S)
  BY DEF TagOf
<1>5. Deployed(s) = IF R # {} THEN TagOf(R) ELSE TagOf(S)
  BY <1>2 DEF Deployed
<1>6. Deployed(s)' = IF R # {} THEN TagOf(R)' ELSE TagOf(S)'
  BY <1>3 DEF Deployed
<1>. QED
  BY <1>2, <1>3, <1>4, <1>5, <1>6 DEF Phase, UpPhase

\* and those that turn none: an audit row about a deployment logs it.
LEMMA OtherSeen ==
  ASSUME TypeInv, CInv, OneAtATime, "sqlite" \notin Faults,
         NEW r \in Requests, Handler(r), NEW s, req[r].svc = s,
         InspectService(r) \/ Pull(r) \/ Store(r) \/ InspectTag(r) \/ ListImages(r)
  PROVE  SeenStep(s)
<1>1. /\ AtWork(r, s) /\ req'[r].svc = s /\ pc \in [Requests -> Labels]
      /\ req'[r].kind = req[r].kind /\ Role(r) /\ s \in Services
  BY Working, LocalsKept DEF TypeInv, TypeOK, AtWork
<1>2. ctr' = ctr
  BY DEF InspectService, Pull, Inspect, ImagePull, CopyPullStream, Store, RecordUpdate,
         MarkFailed, MarkSuccess, LogAudit, InspectTag, ListImages, EngineCall, Perform,
         engineVars
<1>3. /\ UpPhase(s) = IF AfterStart(r) THEN "unlogged" ELSE "up"
      /\ UpPhase(s)' = IF AfterStart(r)' THEN "unlogged" ELSE "up"
  BY UnloggedIs
<1>4. /\ Deployed(s)' = Deployed(s)
      /\ Phase(s) = IF Phase(s) = "down" THEN "down" ELSE UpPhase(s)
      /\ Phase(s)' = IF Phase(s) = "down" THEN "down" ELSE UpPhase(s)'
  BY <1>2, SameShown
<1>5. CASE ~ LogAudit(r)
  <2>1. audit' = audit /\ (AfterStart(r)' <=> AfterStart(r))
    BY <1>1, <1>5 DEF InspectService, Pull, Inspect, ImagePull, CopyPullStream, Store, RecordUpdate,
       MarkFailed, MarkSuccess, InspectTag, ListImages, EngineCall, OnFailure, storeVars,
       AfterStart
  <2>. QED
    BY <1>3, <1>4, <2>1, DeploymentsAre DEF SeenStep, SeenNothing
<1>6. CASE LogAudit(r)
  <2>. DEFINE row == AuditRow(r)
  <2>1. /\ audit' = Append(audit, row) /\ row \in AuditRows
        /\ row.action = req[r].kind /\ row.svc = s /\ row.new = req[r].tag
        /\ req[r].kind \in {"update", "rollback", "restart"} /\ audit \in Seq(AuditRows)
    <3>1. req[r].kind \in Kinds /\ req[r] \in Locals /\ audit \in Seq(AuditRows)
      BY <1>6 DEF LogAudit, TypeInv, TypeOK, HandlerOK
    <3>. QED
      BY <1>1, <1>6, <3>1, RequestsAssumption
      DEF LogAudit, Stored, AuditRow, AuditRows, Locals, AllTags
  <2>. HIDE DEF row
  <2>2. Deployments' = IF IsDeployment(row)
                       THEN Append(Deployments, Entry(row)) ELSE Deployments
    BY <2>1, TrailGrows, DeploymentsAre
  <2>3. pc[r] = "audit" /\ ~ AfterStart(r)'
    BY <1>1, <1>6 DEF LogAudit, AfterStart
  <2>4. CASE req[r].kind = "restart"
    BY <1>3, <1>4, <2>1, <2>2, <2>3, <2>4 DEF IsDeployment, AfterStart, SeenStep, SeenNothing
  <2>5. CASE req[r].kind # "restart"
    <3>1. Replaced(r) /\ AfterStart(r)
      BY <1>1, <2>3, <2>5 DEF AtWork, Shape, AfterStart
    <3>2. Phase(s) = "unlogged" /\ Deployed(s) = req[r].tag
      BY <1>1, <1>3, <3>1, WhatShows DEF ShapesShow, Shows, AtWork
    <3>3. Phase(s)' = "up"
      BY <1>3, <1>4, <2>3, <3>2
    <3>4. Deployments' = Append(Deployments, [svc |-> s, tag |-> Deployed(s)])
      BY <2>1, <2>2, <2>5, <3>2 DEF IsDeployment, Entry
    <3>. QED
      BY <1>4, <3>2, <3>3, <3>4 DEF SeenStep, SeenLog
  <2>. QED
    BY <2>4, <2>5
<1>. QED
  BY <1>5, <1>6

\* Without a step of a handler nothing is seen.
LEMMA NothingSeen ==
  ASSUME TypeInv,
         (\E r \in Requests : Begin(r)) \/ Tick \/ Finished \/ UNCHANGED vars
  PROVE  UNCHANGED Deploy!vars
<1>1. ctr' = ctr /\ audit' = audit
  BY DEF Begin, Tick, Finished, vars, engineVars, storeVars
<1>2. \A s : Unlogged(s)' <=> Unlogged(s)
  <2>1. CASE \E r \in Requests : Begin(r)
    <3>1. PICK r \in Requests : Begin(r)
      BY <2>1
    <3>2. /\ pc[r] = "idle"
          /\ pc'[r] \notin {"removeOld", "markSuccess", "audit"}
          /\ \A q \in Requests \ {r} : pc'[q] = pc[q] /\ req'[q] = req[q]
      BY <3>1, FirstLabelType DEF Begin, TypeInv, TypeOK
    <3>3. \A s, q : q \in Active' /\ req'[q].svc = s
                     /\ pc'[q] \in {"removeOld", "markSuccess", "audit"}
                     /\ req'[q].kind # "restart"
                     <=> q \in Active /\ req[q].svc = s
                         /\ pc[q] \in {"removeOld", "markSuccess", "audit"}
                         /\ req[q].kind # "restart"
      BY <3>2 DEF Active, Terminal
    <3>. QED
      BY <3>3 DEF Unlogged
  <2>2. CASE Tick \/ Finished \/ UNCHANGED vars
    BY <2>2 DEF Tick, Finished, vars, Unlogged, Active
  <2>. QED
    BY <2>1, <2>2
<1>3. \A s : Deployed(s)' = Deployed(s)
  BY <1>1, SameShown
<1>4. \A s : Phase(s)' = Phase(s)
  BY <1>1, <1>2, SameShown DEF UpPhase
<1>. QED
  BY <1>1, <1>3, <1>4, DeploymentsAre DEF Deploy!vars

\* At first every service is up with the tag it was installed with.
LEMMA InitSeen == Init => Deploy!Init
<1>. SUFFICES ASSUME Init PROVE Deploy!Init
  OBVIOUS
<1>1. Deployments = <<>>
  <2>1. audit = <<>> /\ audit \in Seq(AuditRows) /\ Len(audit) = 0
    BY EmptySeq DEF Init
  <2>2. PICK f : FiltersFrom(f, 0, 0, <<>>, OrNone(audit), Entries) /\ TrailOf(audit) = f[0]
    BY <2>1, TrailFilters
  <2>. QED
    BY <2>2, DeploymentsAre DEF FiltersFrom, FilterStep
<1>2. ASSUME NEW s \in Services
      PROVE  Deployed(s) = InitTag /\ Phase(s) = "up"
  <2>1. One(s, s, LiveName(s), "running") /\ ctr[s].tag = InitTag
    BY ServicesAssumption DEF Init, One, ContainersOf, Exists, Containers, LiveName, NoName
  <2>2. ~ Unlogged(s)
    BY DEF Init, Unlogged, Active
  <2>. QED
    BY <2>1, <2>2, WhatShows DEF ShapesShow, Shows, UpPhase
<1>. QED
  BY <1>1, <1>2 DEF Deploy!Init

LEMMA NextSeen ==
  ASSUME SInv, CInv, OneAtATime, "sqlite" \notin Faults, [Next]_vars
  PROVE  [Deploy!Next]_(Deploy!vars)
<1>1. TypeInv
  BY DEF SInv, HInv
<1>2. ASSUME NEW r \in Requests, Handler(r)
      PROVE  [Deploy!Next]_(Deploy!vars)
  <2>1. PICK s \in Services : req[r].svc = s
    BY <1>1, <1>2, HandlerMovesAlone
  <2>2. SeenStep(s)
    BY <1>1, <1>2, <2>1, SwitchSeen, OtherSeen DEF Handler, Switch, Undo
  <2>. QED
    BY <1>2, <2>1, <2>2, OthersAside, SeenIsDeploy
<1>3. CASE (\E r \in Requests : Cancel(r)) \/ Exit
  BY <1>3 DEF Cancel, Exit, OneAtATime
<1>4. CASE (\E r \in Requests : Begin(r)) \/ Tick \/ Finished \/ UNCHANGED vars
  BY <1>1, <1>4, NothingSeen
<1>. QED
  BY <1>2, <1>3, <1>4 DEF Next

\* For the operator who waits, ServiceUpdate implements the steps of
\* ServiceDeploy, as long as SQLite takes every row: a service is taken down
\* while all others are up, comes back as it was or with a tag that can be
\* started, and that tag is in the trail before anything else is taken down.
THEOREM ServiceDeployIsImplemented ==
  ASSUME OneAtATime, "sqlite" \notin Faults
  PROVE  Spec => Deploy!Steps
<1>1. SInv /\ CInv /\ [Next]_vars => [Deploy!Next]_(Deploy!vars)
  BY NextSeen
<1>2. SInv /\ CInv /\ [Next]_vars => CInv'
  BY NextClean
<1>3. Spec => []CInv
  BY <1>2, InitClean, SInvAlways, PTL DEF Spec
<1>. QED
  BY <1>1, <1>3, InitSeen, SInvAlways, PTL DEF Spec, Deploy!Steps
=============================================================================
