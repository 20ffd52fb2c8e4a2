------------------------- MODULE UpdateHistoryProofs -------------------------
(***************************************************************************)
(* Proofs about the rows of update_history, for any requests in flight and *)
(* any faults: a row is closed once, by the request that opened it; one    *)
(* that says "success" names an image that the engine started.             *)
(*                                                                         *)
(* The row a handler closes is the one whose id it keeps in updateID.  The *)
(* invariant says that no two requests keep the same id, that a request    *)
(* without a row keeps 0, the id of no row, and that its row is open until *)
(* the request itself closes it.                                           *)
(***************************************************************************)
EXTENDS ServiceUpdateProofs

\* Before the row is opened, and between its opening and its closing.
Unopened == {"idle", "inspectFrom", "record", "inspectTag", "listImages", "restart"}
Opened == {"inspect", "pull", "copy", "stop", "rename", "create", "start",
           "removeNew", "undoRename", "undoStart", "removeOld", "markFailed",
           "markSuccess"}

IdOf(r) == req[r].updateID

RowsOK ==
  \A r \in Requests :
    /\ IdOf(r) \in 0 .. Len(history)
    /\ pc[r] \in Unopened => IdOf(r) = 0
    /\ IdOf(r) # 0 => /\ pc[r] \in Opened => history[IdOf(r)].status = "in_progress"
                      /\ \A q \in Requests : IdOf(q) = IdOf(r) => q = r

HInv == TypeInv /\ RowsOK

USE DEF At, Goto

\* At first there are no rows.
LEMMA InitRowsOK == Init => RowsOK
BY LenProperties, EmptySeq DEF Init, RowsOK, IdOf, NoRequest, NewRequest

\* A new request has no row.
LEMMA BeginKeepsRowsOK ==
  ASSUME HInv, NEW r \in Requests, Begin(r)
  PROVE  RowsOK'
<1>1. PICK label : pc' = [pc EXCEPT ![r] = label] /\ label \in Unopened
  BY FirstLabelType DEF Begin, Unopened
<1>2. history' = history
  BY DEF Begin, storeVars
<1>3. \A q \in Requests : IdOf(q)' = IdOf(q) /\ (q # r => pc'[q] = pc[q])
  BY <1>1 DEF Begin, HInv, TypeInv, TypeOK, RowsOK, IdOf, Unopened, NewRequest
<1>4. IdOf(r) = 0
  BY DEF Begin, HInv, RowsOK, Unopened
<1>. QED
  BY <1>1, <1>2, <1>3, <1>4 DEF HInv, RowsOK

\* A row that is opened gets an id of its own.
LEMMA RecordUpdateKeepsRowsOK ==
  ASSUME HInv, NEW r \in Requests, RecordUpdate(r)
  PROVE  RowsOK'
<1>1. pc' = [pc EXCEPT ![r] = "inspect"]
  BY DEF RecordUpdate
<1>2. Len(history) \in Nat /\ history \in Seq(HistoryRows)
  BY LenProperties DEF HInv, TypeInv, TypeOK
<1>3. \A q \in Requests \ {r} : IdOf(q)' = IdOf(q) /\ pc'[q] = pc[q]
  BY <1>1 DEF RecordUpdate, HInv, TypeInv, TypeOK, IdOf
<1>4. pc'[r] = "inspect"
  BY <1>1 DEF HInv, TypeInv, TypeOK
<1>5. CASE history' = history
  <2>1. IdOf(r)' = 0
    BY <1>5 DEF RecordUpdate, HInv, TypeInv, TypeOK, Locals, IdOf
  <2>. QED
    BY <1>2, <1>3, <1>4, <1>5, <2>1 DEF HInv, RowsOK, Unopened
<1>6. CASE history' # history /\ history' = Append(history, NewRow(r))
  <2>1. IdOf(r)' = Len(history')
    BY <1>6 DEF RecordUpdate, HInv, TypeInv, TypeOK, Locals, IdOf
  <2>2. NewRow(r) \in HistoryRows
    BY DEF RecordUpdate, NewRow, HistoryRows, HInv, TypeInv, TypeOK, HandlerOK,
           KnowsTag, Locals
  <2>3. /\ Len(history') = Len(history) + 1
        /\ history'[Len(history')] = NewRow(r)
        /\ \A i \in 1 .. Len(history) : history'[i] = history[i]
    BY <1>2, <1>6, <2>2, AppendProperties
  <2>4. NewRow(r).status = "in_progress"
    BY DEF NewRow
  <2>. QED
    BY <1>2, <1>3, <1>4, <2>1, <2>3, <2>4 DEF HInv, RowsOK, Unopened
<1>. QED
  BY <1>5, <1>6 DEF RecordUpdate, Stored
\* MarkFailed and MarkSuccess close the row of their own request, and no other.
Closes(r, status) ==
  /\ history' = WithStatus(IdOf(r), status)
  /\ history' # history

\* What closing a row does to the table.
LEMMA ClosesItsRow ==
  ASSUME HInv, NEW r \in Requests, NEW status, Closes(r, status)
  PROVE  /\ IdOf(r) \in DOMAIN history
         /\ Len(history') = Len(history)
         /\ history'[IdOf(r)].status = status
         /\ \A i \in DOMAIN history \ {IdOf(r)} : history'[i] = history[i]
<1>1. history \in Seq(HistoryRows)
  BY DEF HInv, TypeInv, TypeOK
<1>2. IdOf(r) \in DOMAIN history /\ history' = [history EXCEPT ![IdOf(r)].status = status]
  BY DEF Closes, WithStatus
<1>3. DOMAIN history' = DOMAIN history /\ history[IdOf(r)] \in HistoryRows
  BY <1>1, <1>2, ElementOfSeq, LenProperties
<1>4. Len(history') = Len(history)
  BY <1>1, <1>2
<1>. QED
  BY <1>2, <1>3, <1>4 DEF HistoryRows

\* A request that has closed its row does not close it again.
LEMMA MarkKeepsRowsOK ==
  ASSUME HInv, NEW r \in Requests, MarkFailed(r) \/ MarkSuccess(r)
  PROVE  RowsOK'
<1>1. PICK label \in {"error", "audit"} : pc' = [pc EXCEPT ![r] = label]
  BY DEF MarkFailed, MarkSuccess
<1>2. /\ pc'[r] \notin Unopened \cup Opened
      /\ \A q \in Requests \ {r} : pc'[q] = pc[q]
  BY <1>1 DEF HInv, TypeInv, TypeOK, Unopened, Opened
<1>3. \A q \in Requests : IdOf(q)' = IdOf(q)
  BY DEF MarkFailed, MarkSuccess, IdOf
<1>4. CASE history' = history
  BY <1>2, <1>3, <1>4 DEF HInv, RowsOK
<1>5. CASE \E status : Closes(r, status)
  <2>1. /\ Len(history') = Len(history)
        /\ \A i \in DOMAIN history \ {IdOf(r)} : history'[i] = history[i]
    BY <1>5, ClosesItsRow
  <2>2. DOMAIN history = 1 .. Len(history)
    BY LenProperties DEF HInv, TypeInv, TypeOK
  <2>. QED
    BY <1>2, <1>3, <2>1, <2>2 DEF HInv, RowsOK
<1>. QED
  BY <1>4, <1>5 DEF MarkFailed, MarkSuccess, Stored, Closes, IdOf

\* Every other step of a handler leaves the rows alone.
Elsewhere(r) ==
  \/ InspectService(r) \/ Pull(r) \/ Switch(r) \/ Undo(r) \/ LogAudit(r)
  \/ InspectTag(r) \/ ListImages(r) \/ Restart(r)

\* Such a step changes no row and no request's row.
LEMMA ElsewhereKeepsRowsOK ==
  ASSUME HInv, NEW r \in Requests, Elsewhere(r)
  PROVE  RowsOK' /\ history' = history /\ \A q \in Requests : IdOf(q)' = IdOf(q)
<1>1. history' = history
  BY DEF Elsewhere, InspectService, Pull, Inspect, ImagePull, CopyPullStream,
         Switch, StopOld, RenameOld, CreateNew, StartNew, RemoveOld,
         Undo, RemoveNew, UndoRename, UndoStart, LogAudit,
         InspectTag, ListImages, Restart, storeVars
<1>2. \A q \in Requests : IdOf(q)' = IdOf(q)
  <2>1. \/ req' = req
        \/ \E v : req' = [req EXCEPT ![r].from = v]
        \/ \E v : req' = [req EXCEPT ![r].oldName = v]
        \/ \E v : req' = [req EXCEPT ![r].tag = v]
    BY DEF Elsewhere, InspectService, Pull, Inspect, ImagePull, CopyPullStream,
           Switch, StopOld, RenameOld, CreateNew, StartNew, RemoveOld,
           Undo, RemoveNew, UndoRename, UndoStart, LogAudit,
           InspectTag, ListImages, Restart
  <2>2. ASSUME NEW v, \/ req' = [req EXCEPT ![r].from = v]
                      \/ req' = [req EXCEPT ![r].oldName = v]
                      \/ req' = [req EXCEPT ![r].tag = v]
        PROVE  \A q \in Requests : IdOf(q)' = IdOf(q)
    <3>1. \A q \in Requests \ {r} : req'[q] = req[q]
      BY <2>2 DEF HInv, TypeInv, TypeOK
    <3>2. req'[r].updateID = req[r].updateID
      BY <2>2 DEF HInv, TypeInv, TypeOK, Locals
    <3>. QED
      BY <3>1, <3>2 DEF IdOf
  <2>. QED
    BY <2>1, <2>2 DEF IdOf
<1>3. PICK label :
        /\ pc' = [pc EXCEPT ![r] = label]
        /\ label \in Unopened => pc[r] \in Unopened
        /\ label \in Opened => pc[r] \in Unopened \cup Opened
  BY DEF Elsewhere, InspectService, Pull, Inspect, ImagePull, CopyPullStream,
         Switch, StopOld, RenameOld, CreateNew, StartNew, RemoveOld,
         Undo, RemoveNew, UndoRename, UndoStart, LogAudit,
         InspectTag, ListImages, Restart, EngineCall, EngineCallIgnored,
         OnFailure, Unopened, Opened
<1>4. RowsOK'
  BY <1>1, <1>2, <1>3 DEF HInv, TypeInv, TypeOK, RowsOK
<1>. QED
  BY <1>1, <1>2, <1>4

\* So do the steps that are no handler's.
LEMMA OthersKeepRowsOK ==
  ASSUME HInv, (\E r \in Requests : Cancel(r)) \/ Exit \/ Tick \/ UNCHANGED vars
  PROVE  RowsOK' /\ history' = history
<1>1. history' = history
  BY DEF Cancel, Exit, Tick, storeVars, vars
<1>2. \A q \in Requests : IdOf(q)' = IdOf(q)
  BY DEF Cancel, Exit, Tick, vars, IdOf
<1>3. \A q \in Requests : pc'[q] \in {pc[q], "lost"}
  BY DEF Cancel, Exit, Tick, vars, HInv, TypeInv, TypeOK
<1>4. RowsOK'
  BY <1>1, <1>2, <1>3 DEF HInv, RowsOK, Unopened, Opened
<1>. QED
  BY <1>1, <1>4

\* The steps of Next, by what they do to the rows.
LEMMA NextByRows ==
  ASSUME [Next]_vars
  PROVE  \/ \E r \in Requests : \/ Begin(r) \/ RecordUpdate(r) \/ Elsewhere(r)
                                \/ MarkFailed(r) \/ MarkSuccess(r)
         \/ (\E r \in Requests : Cancel(r)) \/ Exit \/ Tick \/ UNCHANGED vars
BY DEF Next, Handler, Store, Elsewhere, Finished

\* HInv is inductive.
LEMMA HInvKept == HInv /\ [Next]_vars => HInv'
BY NextType, NextByRows, BeginKeepsRowsOK, RecordUpdateKeepsRowsOK,
   ElsewhereKeepsRowsOK, MarkKeepsRowsOK, OthersKeepRowsOK DEF HInv

\* The invariant of the rows holds always.
LEMMA HInvAlways == Spec => []HInv
<1>1. Init => HInv
  BY InitTypeInv, InitRowsOK DEF HInv
<1>. QED
  BY <1>1, HInvKept, PTL DEF Spec

-----------------------------------------------------------------------------
\* One step appends a row, or closes the open row of the request that makes it.
Final ==
  /\ Len(history') >= Len(history)
  /\ \A i \in DOMAIN history :
       history'[i] # history[i] =>
         /\ history[i].status = "in_progress"
         /\ \E r \in Requests : /\ req[r].updateID = i
                                /\ pc[r] # pc'[r]
                                /\ pc'[r] = IF history'[i].status = "failed"
                                            THEN "error" ELSE "audit"

\* Opening a row closes none.
LEMMA RecordUpdateIsFinal ==
  ASSUME HInv, NEW r \in Requests, RecordUpdate(r)
  PROVE  Final
<1>1. Len(history) \in Nat /\ history \in Seq(HistoryRows)
  BY LenProperties DEF HInv, TypeInv, TypeOK
<1>2. CASE history' = history
  BY <1>1, <1>2 DEF Final
<1>3. CASE history' = Append(history, NewRow(r))
  <2>1. NewRow(r) \in HistoryRows
    BY DEF RecordUpdate, NewRow, HistoryRows, HInv, TypeInv, TypeOK, HandlerOK,
           KnowsTag, Locals
  <2>2. /\ Len(history') = Len(history) + 1
        /\ \A i \in 1 .. Len(history) : history'[i] = history[i]
    BY <1>1, <1>3, <2>1, AppendProperties
  <2>. QED
    BY <1>1, <2>2 DEF Final
<1>. QED
  BY <1>2, <1>3 DEF RecordUpdate, Stored

\* Closing a row closes the open row of the request itself.
LEMMA MarkIsFinal ==
  ASSUME HInv, NEW r \in Requests, MarkFailed(r) \/ MarkSuccess(r)
  PROVE  Final
<1>1. Len(history) \in Nat /\ DOMAIN history = 1 .. Len(history)
  BY LenProperties DEF HInv, TypeInv, TypeOK
<1>2. CASE history' = history
  BY <1>1, <1>2 DEF Final
<1>3. ASSUME NEW status \in {"failed", "success"}, Closes(r, status),
             pc' = [pc EXCEPT ![r] = IF status = "failed" THEN "error" ELSE "audit"]
      PROVE  Final
  <2>1. /\ IdOf(r) \in DOMAIN history
        /\ Len(history') = Len(history)
        /\ history'[IdOf(r)].status = status
        /\ \A i \in DOMAIN history \ {IdOf(r)} : history'[i] = history[i]
    BY <1>3, ClosesItsRow
  <2>2. pc[r] \in Opened
    BY DEF MarkFailed, MarkSuccess, Opened
  <2>3. history[IdOf(r)].status = "in_progress"
    BY <1>1, <2>1, <2>2 DEF HInv, RowsOK
  <2>4. pc'[r] = IF status = "failed" THEN "error" ELSE "audit"
    BY <1>3 DEF HInv, TypeInv, TypeOK
  <2>5. pc'[r] # pc[r]
    BY <2>2, <2>4 DEF Opened
  <2>. QED
    BY <1>1, <2>1, <2>3, <2>4, <2>5 DEF Final, IdOf
<1>. QED
  BY <1>2, <1>3 DEF MarkFailed, MarkSuccess, Stored, Closes, IdOf

\* History is append-only and a row is closed once, by the request that opened it,
\* whatever requests are in flight, whatever fails and wherever the process ends.
THEOREM HistoryIsFinalAlways == Spec => HistoryIsFinal
<1>1. HInv /\ [Next]_vars => Final \/ history' = history
  BY NextByRows, RecordUpdateIsFinal, MarkIsFinal, ElsewhereKeepsRowsOK,
     OthersKeepRowsOK DEF Begin, storeVars
<1>2. HInv /\ [Next]_vars => [Final]_history
  BY <1>1
<1>. QED
  BY <1>2, HInvAlways, PTL DEF Spec, HistoryIsFinal, Final

-----------------------------------------------------------------------------
(***************************************************************************)
(* A row that says "success" belongs to a request whose own container was  *)
(* started from the image the row names.                                   *)
(*                                                                         *)
(* The argument follows a request from ContainerCreate to its row: what it *)
(* creates has its tag and its service's name (Made), it passes            *)
(* ContainerStart only when that container was started, and whatever other *)
(* requests do to it afterwards, a container neither changes its image nor *)
(* its service and is never again one that was merely created.             *)
(***************************************************************************)
RowOf(r) == history[IdOf(r)]

\* The container of r was made for r's service from r's tag.
Made(r) == ctr[r].tag = req[r].tag /\ ctr[r].name[1] = req[r].svc

StartedOK ==
  \A r \in Requests :
    IdOf(r) # 0 =>
      /\ RowOf(r).svc = req[r].svc /\ RowOf(r).to = req[r].tag
      /\ pc[r] = "start" => Made(r)
      /\ \/ pc[r] \in {"removeOld", "markSuccess"}
         \/ RowOf(r).status = "success"
         => Made(r) /\ WasStarted(ctr, r)

SInv == HInv /\ StartedOK

\* At first no request has a row.
LEMMA InitStartedOK == Init => StartedOK
BY DEF Init, StartedOK, IdOf, NoRequest, NewRequest

-----------------------------------------------------------------------------
(***************************************************************************)
(* Containers.                                                             *)
(***************************************************************************)
SameService(k) == ctr'[k].name[1] = ctr[k].name[1]
Lives(k) == Ages(ctr, ctr', k) /\ SameService(k)

\* A call that leaves the containers alone or sets states lets them live on.
LEMMA StateCallLives ==
  ASSUME HInv, NEW name, NEW S,
         \/ ctr' = ctr
         \/ ctr' = StopContainer(ctr, name)
         \/ ctr' = StartContainer(ctr, S, Broken)
         \/ ctr' = RemoveContainer(ctr, S)
         \/ ctr' = RestartContainer(ctr, name, Broken)
  PROVE  \A k \in Containers : Lives(k)
<1>1. ctr \in Engines(Containers, AllNames, AllTags)
  BY CtrType DEF HInv, TypeInv
<1>2. CASE ctr' = ctr
  BY <1>2 DEF Lives, SameService, Ages, WasStarted
<1>3. CASE \E K, state : /\ state \in ContainerStates \ {"unused", "created"}
                         /\ ctr' = SetState(ctr, K, state)
  BY <1>1, <1>3, SetStateAges DEF Lives, SameService
<1>4. CASE ctr' = RestartContainer(ctr, name, Broken)
  BY <1>1, <1>4, RestartAges DEF Lives, SameService
<1>5. {"running", "stopped", "removed"} \subseteq ContainerStates \ {"unused", "created"}
  BY DEF ContainerStates
<1>. QED
  BY <1>2, <1>3, <1>4, <1>5 DEF StopContainer, StartContainer, RemoveContainer

\* A rename within one service lets every container live on in its service.
LEMMA RenameLives ==
  ASSUME HInv, NEW old, NEW new \in Names, old[1] = new[1],
         ctr' \in {ctr, RenameContainer(ctr, old, new)}
  PROVE  \A k \in Containers : Lives(k)
<1>1. ctr \in Engines(Containers, AllNames, AllTags) /\ UniqueNames(ctr)
  BY CtrType DEF HInv, TypeInv, EngineOK
<1>2. CASE ctr' = ctr
  BY <1>2 DEF Lives, SameService, Ages, WasStarted
<1>3. CASE ctr' = RenameContainer(ctr, old, new)
  <2>1. \A k \in Containers : Ages(ctr, ctr', k)
    BY <1>1, <1>3, RenameAges
  <2>2. \A k \in Containers : \/ ctr'[k].name = ctr[k].name
                              \/ ctr[k].name = old /\ ctr'[k].name = new
    <3>1. new \in AllNames
      BY DEF AllNames
    <3>. QED
      BY <1>1, <1>3, <3>1, RenameKeeps
  <2>. QED
    BY <2>1, <2>2 DEF Lives, SameService
<1>. QED
  BY <1>2, <1>3

\* ContainerCreate lets every container but the new one live on.
LEMMA CreateNewLives ==
  ASSUME HInv, NEW r \in Requests, CreateNew(r)
  PROVE  \A k \in Containers \ {r} : Lives(k)
<1>1. ctr' = ctr \/ \A k \in Containers \ {r} : ctr'[k] = ctr[k]
  BY CreateNewDoes DEF HInv
<1>. QED
  BY <1>1 DEF Lives, SameService, Ages, WasStarted

\* Every other call of a handler lets every container live on.
LEMMA HandlerLives ==
  ASSUME HInv, NEW r \in Requests, Handler(r), ~ CreateNew(r)
  PROVE  \A k \in Containers : Lives(k)
<1>1. CASE StopOld(r) \/ Restart(r)
  BY <1>1, StateCallLives
     DEF StopOld, Restart, EngineCall, EngineCallIgnored, Perform
<1>2. CASE RenameOld(r)
  <2>1. /\ req[r].svc \in Services
        /\ ctr' \in {ctr, RenameContainer(ctr, LiveName(req[r].svc), OldName(req[r].svc, now))}
    BY <1>2 DEF RenameOld, EngineCall, EngineCallIgnored, Perform, HInv, TypeInv, HandlerOK
  <2>2. OldName(req[r].svc, now) \in Names
    BY <2>1, BoundsAssumption DEF OldName, Names, HInv, TypeInv, TypeOK
  <2>. QED
    BY <2>1, <2>2, RenameLives DEF LiveName, OldName
<1>3. CASE UndoRename(r)
  <2>1. ctr' \in {ctr, RenameContainer(ctr, req[r].oldName, LiveName(req[r].svc))}
    BY <1>3 DEF UndoRename, EngineCall, EngineCallIgnored, Perform
  <2>2. pc[r] \in KnowsOldName /\ pc[r] # "idle"
    BY <1>3 DEF UndoRename, KnowsOldName
  <2>3. req[r].svc \in Services /\ req[r].oldName[1] = req[r].svc
    BY <2>2, OldNameType DEF HInv
  <2>. QED
    BY <2>1, <2>3, LiveNameType, RenameLives
<1>4. CASE StartNew(r) \/ UndoStart(r)
  BY <1>4, StateCallLives
     DEF StartNew, Started, UndoStart, EngineCall, EngineCallIgnored, Perform
<1>5. CASE RemoveNew(r) \/ RemoveOld(r)
  BY <1>5, StateCallLives
     DEF RemoveNew, RemoveOld, EngineCall, EngineCallIgnored, Perform
<1>6. CASE \/ InspectService(r) \/ Pull(r) \/ Store(r) \/ InspectTag(r) \/ ListImages(r)
  <2>1. ctr' = ctr
    BY <1>6 DEF InspectService, Pull, Inspect, ImagePull, CopyPullStream, Store,
                RecordUpdate, MarkFailed, MarkSuccess, LogAudit, InspectTag,
                ListImages, EngineCall, Perform, engineVars
  <2>. QED
    BY <2>1, StateCallLives
<1>. QED
  BY <1>1, <1>2, <1>3, <1>4, <1>5, <1>6 DEF Handler, Switch, Undo

\* StartNew goes on to RemoveOld only when the request's container was started.
LEMMA StartNewStarts ==
  ASSUME HInv, NEW r \in Requests, StartNew(r), pc'[r] = "removeOld"
  PROVE  WasStarted(ctr', r)
<1>1. CanStart(r) /\ ctr' = Started(r)
  BY DEF StartNew, EngineCall, Perform, HInv, TypeInv, TypeOK
<1>2. r \in Startable(ctr, {r}, Broken) /\ r \in DOMAIN ctr
  BY <1>1 DEF CanStart, Startable, HInv, TypeInv, TypeOK, Containers
<1>3. ctr'[r] = [ctr[r] EXCEPT !.state = "running"]
  BY <1>1, <1>2 DEF Started, StartContainer, SetState
<1>. QED
  BY <1>3 DEF WasStarted, HInv, TypeInv, TypeOK, Containers

\* What CreateNew makes before it goes on to StartNew is made for its request.
LEMMA CreateNewMakes ==
  ASSUME HInv, NEW r \in Requests, CreateNew(r), pc'[r] = "start"
  PROVE  Made(r)'
<1>1. CanCreate(r) /\ ctr' = Created(r) /\ req' = req
  BY DEF CreateNew, EngineCall, Perform, HInv, TypeInv, TypeOK
<1>2. Named(ctr, LiveName(req[r].svc)) = {}
  BY <1>1 DEF CanCreate, Live
<1>3. ctr'[r] = [state |-> "created", name |-> LiveName(req[r].svc), tag |-> req[r].tag]
  BY <1>1, <1>2 DEF Created, CreateContainer, HInv, TypeInv, TypeOK, Containers
<1>. QED
  BY <1>1, <1>3 DEF Made, LiveName
-----------------------------------------------------------------------------
(***************************************************************************)
(* Steps.                                                                  *)
(***************************************************************************)
SameRequest(q) ==
  IdOf(q)' = IdOf(q) /\ req'[q].svc = req[q].svc /\ req'[q].tag = req[q].tag

\* What is said of a request stays true when its container lives on.
LEMMA MadeLasts ==
  ASSUME NEW q, SameRequest(q), Lives(q)
  PROVE  /\ Made(q) => Made(q)'
         /\ WasStarted(ctr, q) => WasStarted(ctr, q)'
BY DEF SameRequest, Lives, SameService, Ages, Made, WasStarted

\* What StartedOK says of one request.
StartedFor(q) ==
  IdOf(q) # 0 =>
    /\ RowOf(q).svc = req[q].svc /\ RowOf(q).to = req[q].tag
    /\ pc[q] = "start" => Made(q)
    /\ \/ pc[q] \in {"removeOld", "markSuccess"}
       \/ RowOf(q).status = "success"
       => Made(q) /\ WasStarted(ctr, q)

\* A request that stays where it is, or leaves without going on, keeps what is
\* said of it when its row and its container stay what they were.
LEMMA BystanderKept ==
  ASSUME SInv, NEW q \in Requests, SameRequest(q), Lives(q), RowOf(q)' = RowOf(q),
         pc'[q] \in {pc[q], "lost"}
  PROVE  StartedFor(q)'
<1>1. StartedFor(q)
  BY DEF SInv, StartedOK, StartedFor
<1>. QED
  BY <1>1, MadeLasts DEF StartedFor, SameRequest

\* Steps that touch neither containers nor rows.
LEMMA QuietKeepsStartedOK ==
  ASSUME SInv,
         \/ \E r \in Requests : Begin(r) \/ Cancel(r)
         \/ Exit \/ Tick \/ UNCHANGED vars
  PROVE  StartedOK'
<1>1. ctr' = ctr /\ history' = history
  BY DEF Begin, Cancel, Exit, Tick, vars, engineVars, storeVars
<1>2. \A q \in Requests : Lives(q)
  BY <1>1 DEF Lives, SameService, Ages, WasStarted
<1>3. ASSUME NEW q \in Requests, IdOf(q)' # 0
      PROVE  req'[q] = req[q] /\ pc'[q] \in {pc[q], "lost"}
  BY <1>3 DEF Begin, Cancel, Exit, Tick, vars, IdOf, NewRequest, SInv, HInv, TypeInv, TypeOK
<1>4. ASSUME NEW q \in Requests, IdOf(q)' # 0
      PROVE  StartedFor(q)'
  <2>1. SameRequest(q) /\ RowOf(q)' = RowOf(q)
    BY <1>1, <1>3, <1>4 DEF SameRequest, RowOf, IdOf
  <2>. QED
    BY <1>2, <1>3, <1>4, <2>1, BystanderKept
<1>. QED
  BY <1>4 DEF StartedOK, StartedFor

\* A new row names the request's service and tag.
LEMMA RecordUpdateKeepsStartedOK ==
  ASSUME SInv, NEW r \in Requests, RecordUpdate(r)
  PROVE  StartedOK'
<1>1. /\ ctr' = ctr /\ history \in Seq(HistoryRows) /\ Len(history) \in Nat
      /\ pc' = [pc EXCEPT ![r] = "inspect"]
      /\ req' = [req EXCEPT ![r].updateID = IF history' = history THEN 0 ELSE Len(history')]
      /\ history' \in {history, Append(history, NewRow(r))}
  BY LenProperties DEF RecordUpdate, Stored, engineVars, SInv, HInv, TypeInv, TypeOK
<1>2. NewRow(r) \in HistoryRows
  BY DEF RecordUpdate, NewRow, HistoryRows, SInv, HInv, TypeInv, TypeOK, HandlerOK,
         KnowsTag, Locals
<1>3. \A i \in 1 .. Len(history) : history'[i] = history[i]
  BY <1>1, <1>2, AppendProperties
<1>4. ASSUME NEW q \in Requests \ {r}
      PROVE  StartedFor(q)'
  <2>1. SameRequest(q) /\ pc'[q] = pc[q]
    BY <1>1 DEF SameRequest, IdOf, SInv, HInv, TypeInv, TypeOK
  <2>2. Lives(q)
    BY <1>1 DEF Lives, SameService, Ages, WasStarted
  <2>3. IdOf(q) # 0 => RowOf(q)' = RowOf(q)
    BY <1>1, <1>3, <2>1 DEF SameRequest, RowOf, SInv, HInv, RowsOK
  <2>. QED
    BY <2>1, <2>2, <2>3, BystanderKept DEF StartedFor, SameRequest
<1>5. StartedFor(r)'
  <2>1. /\ pc'[r] = "inspect" /\ req'[r].svc = req[r].svc /\ req'[r].tag = req[r].tag
        /\ IdOf(r)' = IF history' = history THEN 0 ELSE Len(history')
    BY <1>1 DEF IdOf, Locals, SInv, HInv, TypeInv, TypeOK
  <2>2. history' # history => history'[Len(history')] = NewRow(r)
    BY <1>1, <1>2, AppendProperties
  <2>. QED
    BY <2>1, <2>2 DEF StartedFor, RowOf, NewRow
<1>. QED
  BY <1>4, <1>5 DEF StartedOK, StartedFor

\* A row that is closed as "success" is one of a request that has started its
\* container.
LEMMA MarkKeepsStartedOK ==
  ASSUME SInv, NEW r \in Requests, MarkFailed(r) \/ MarkSuccess(r)
  PROVE  StartedOK'
<1>1. ctr' = ctr /\ req' = req
  BY DEF MarkFailed, MarkSuccess, engineVars
<1>2. \A q \in Requests : SameRequest(q) /\ Lives(q)
  BY <1>1 DEF SameRequest, IdOf, Lives, SameService, Ages, WasStarted
<1>3. PICK label \in {"error", "audit"} : pc' = [pc EXCEPT ![r] = label]
  BY DEF MarkFailed, MarkSuccess
<1>4. pc'[r] \in {"error", "audit"} /\ \A q \in Requests \ {r} : pc'[q] = pc[q]
  BY <1>3 DEF SInv, HInv, TypeInv, TypeOK
<1>5. CASE history' = history
  <2>1. \A q \in Requests : RowOf(q)' = RowOf(q)
    BY <1>2, <1>5 DEF RowOf, SameRequest
  <2>2. ASSUME NEW q \in Requests \ {r} PROVE StartedFor(q)'
    BY <1>2, <1>4, <2>1, BystanderKept
  <2>3. StartedFor(r)'
    BY <1>2, <1>4, <2>1, MadeLasts DEF StartedFor, SameRequest, SInv, StartedOK
  <2>. QED
    BY <2>2, <2>3 DEF StartedOK, StartedFor
<1>6. ASSUME NEW status, Closes(r, status), status = "success" => pc[r] = "markSuccess"
      PROVE  StartedOK'
  <2>1. /\ IdOf(r) \in DOMAIN history
        /\ history'[IdOf(r)].status = status
        /\ \A i \in DOMAIN history \ {IdOf(r)} : history'[i] = history[i]
    BY <1>6, ClosesItsRow DEF SInv
  <2>2. /\ history'[IdOf(r)].svc = history[IdOf(r)].svc
        /\ history'[IdOf(r)].to = history[IdOf(r)].to
    <3>1. history[IdOf(r)] \in HistoryRows
      BY <2>1, ElementOfSeq, LenProperties DEF SInv, HInv, TypeInv, TypeOK
    <3>. QED
      BY <1>6, <2>1, <3>1 DEF Closes, WithStatus, HistoryRows
  <2>3. ASSUME NEW q \in Requests \ {r}, IdOf(q) # 0
        PROVE  StartedFor(q)'
    <3>1. IdOf(q) \in DOMAIN history \ {IdOf(r)}
      BY <2>3, LenProperties DEF SInv, HInv, TypeInv, TypeOK, RowsOK
    <3>2. RowOf(q)' = RowOf(q)
      BY <1>2, <2>1, <3>1 DEF RowOf, SameRequest
    <3>. QED
      BY <1>2, <1>4, <3>2, BystanderKept
  <2>4. StartedFor(r)'
    BY <1>2, <1>4, <1>6, <2>1, <2>2, MadeLasts
    DEF StartedFor, RowOf, SameRequest, SInv, StartedOK
  <2>. QED
    BY <1>2, <2>3, <2>4 DEF StartedOK, StartedFor, SameRequest
<1>. QED
  BY <1>5, <1>6 DEF MarkFailed, MarkSuccess, Stored, Closes, IdOf

\* A handler that has a row keeps its service and tag until it ends.
LEMMA ElsewhereSameRequest ==
  ASSUME SInv, NEW r \in Requests, Elsewhere(r), IdOf(r)' # 0
  PROVE  SameRequest(r)
<1>1. pc[r] # "listImages"
  <2>1. CASE ListImages(r)
    <3>1. IdOf(r) = 0
      BY <2>1 DEF ListImages, Unopened, SInv, HInv, RowsOK
    <3>2. IdOf(r)' = IdOf(r)
      BY <2>1 DEF ListImages, IdOf, SInv, HInv, TypeInv, TypeOK, Locals
    <3>. QED
      BY <3>1, <3>2
  <2>2. CASE ~ ListImages(r)
    BY <2>2 DEF Elsewhere, InspectService, Pull, Inspect, ImagePull, CopyPullStream,
           Switch, StopOld, RenameOld, CreateNew, StartNew, RemoveOld,
           Undo, RemoveNew, UndoRename, UndoStart, LogAudit, InspectTag, Restart
  <2>. QED
    BY <2>1, <2>2
<1>2. \/ req' = req
      \/ \E v : req' = [req EXCEPT ![r].from = v]
      \/ \E v : req' = [req EXCEPT ![r].oldName = v]
  BY <1>1 DEF Elsewhere, InspectService, Pull, Inspect, ImagePull, CopyPullStream,
         Switch, StopOld, RenameOld, CreateNew, StartNew, RemoveOld,
         Undo, RemoveNew, UndoRename, UndoStart, LogAudit,
         InspectTag, ListImages, Restart
<1>. QED
  BY <1>2 DEF SameRequest, IdOf, SInv, HInv, TypeInv, TypeOK, Locals

\* The labels of a handler: only CreateNew leads to "start", only StartNew to
\* "removeOld" and only RemoveOld to "markSuccess".
LEMMA ElsewhereMoves ==
  ASSUME SInv, NEW r \in Requests, Elsewhere(r)
  PROVE  /\ pc'[r] = "start" => CreateNew(r)
         /\ pc'[r] = "removeOld" => StartNew(r)
         /\ pc'[r] = "markSuccess" => RemoveOld(r)
         /\ \A q \in Requests \ {r} : pc'[q] = pc[q] /\ req'[q] = req[q]
BY DEF Elsewhere, InspectService, Pull, Inspect, ImagePull, CopyPullStream,
       Switch, StopOld, RenameOld, CreateNew, StartNew, RemoveOld,
       Undo, RemoveNew, UndoRename, UndoStart, LogAudit,
       InspectTag, ListImages, Restart, EngineCall, EngineCallIgnored,
       OnFailure, SInv, HInv, TypeInv, TypeOK

\* The calls of a handler: towards "removeOld" they lead only over a container that
\* was started, and what happens to it later does not undo that.
LEMMA ElsewhereKeepsStartedOK ==
  ASSUME SInv, NEW r \in Requests, Elsewhere(r)
  PROVE  StartedOK'
<1>1. history' = history
  BY ElsewhereKeepsRowsOK DEF SInv
<1>2. \A k \in Containers \ {r} : Lives(k)
  BY CreateNewLives, HandlerLives DEF Elsewhere, Handler, Store, SInv
<1>3. ~ CreateNew(r) => Lives(r)
  BY HandlerLives DEF Elsewhere, Handler, Store, SInv, Containers
<1>4. ASSUME NEW q \in Requests \ {r}
      PROVE  StartedFor(q)'
  <2>1. pc'[q] = pc[q] /\ SameRequest(q)
    BY ElsewhereMoves DEF SameRequest, IdOf
  <2>2. RowOf(q)' = RowOf(q) /\ Lives(q)
    BY <1>1, <1>2, <2>1 DEF RowOf, SameRequest, Containers
  <2>. QED
    BY <2>1, <2>2, BystanderKept
<1>5. ASSUME IdOf(r)' # 0
      PROVE  StartedFor(r)'
  <2>1. SameRequest(r) /\ IdOf(r) # 0 /\ RowOf(r)' = RowOf(r)
    BY <1>1, <1>5, ElsewhereSameRequest DEF SameRequest, RowOf
  <2>2. StartedFor(r)
    BY DEF SInv, StartedOK, StartedFor
  <2>3. RowOf(r)'.svc = req'[r].svc /\ RowOf(r)'.to = req'[r].tag
    BY <2>1, <2>2 DEF StartedFor, SameRequest
  <2>4. pc'[r] = "start" => Made(r)'
    BY ElsewhereMoves, CreateNewMakes DEF SInv
  <2>5. CASE CreateNew(r)
    <3>1. RowOf(r).status = "in_progress"
      BY <2>1, <2>5 DEF CreateNew, Opened, RowOf, SInv, HInv, RowsOK
    <3>2. pc'[r] \notin {"removeOld", "markSuccess"}
      BY <2>5 DEF CreateNew, EngineCall, SInv, HInv, TypeInv, TypeOK
    <3>. QED
      BY <2>1, <2>3, <2>4, <3>1, <3>2 DEF StartedFor
  <2>6. CASE ~ CreateNew(r)
    <3>1. Made(r) => Made(r)'
      BY <1>3, <2>1, <2>6, MadeLasts
    <3>2. WasStarted(ctr, r) => WasStarted(ctr, r)'
      BY <1>3, <2>1, <2>6, MadeLasts
    <3>3. pc'[r] = "removeOld" => Made(r)' /\ WasStarted(ctr, r)'
      BY <2>1, <2>2, <3>1, ElsewhereMoves, StartNewStarts
      DEF StartedFor, StartNew, SInv
    <3>4. pc'[r] = "markSuccess" => Made(r)' /\ WasStarted(ctr, r)'
      BY <2>1, <2>2, <3>1, <3>2, ElsewhereMoves DEF StartedFor, RemoveOld
    <3>5. RowOf(r)'.status = "success" => Made(r)' /\ WasStarted(ctr, r)'
      BY <2>1, <2>2, <3>1, <3>2 DEF StartedFor
    <3>. QED
      BY <2>3, <2>4, <3>3, <3>4, <3>5 DEF StartedFor
  <2>. QED
    BY <2>5, <2>6
<1>. QED
  BY <1>4, <1>5 DEF StartedOK, StartedFor

\* SInv is inductive.
LEMMA SInvAlways == Spec => []SInv
<1>1. Init => SInv
  BY InitTypeInv, InitRowsOK, InitStartedOK DEF SInv, HInv
<1>2. SInv /\ [Next]_vars => HInv'
  BY HInvKept DEF SInv
<1>3. SInv /\ [Next]_vars => StartedOK'
  BY NextByRows, QuietKeepsStartedOK, RecordUpdateKeepsStartedOK,
     MarkKeepsStartedOK, ElsewhereKeepsStartedOK
<1>. QED
  BY <1>1, <1>2, <1>3, PTL DEF Spec, SInv

-----------------------------------------------------------------------------
\* A row that says "success" belongs to a request whose own container was started,
\* from the image and for the service the row names.
THEOREM SuccessMeansStartedAlways == Spec => []SuccessMeansStarted
<1>1. SInv => SuccessMeansStarted
  BY DEF SInv, StartedOK, SuccessMeansStarted, RowOf, IdOf, Made, WasStarted
<1>. QED
  BY <1>1, SInvAlways, PTL
-----------------------------------------------------------------------------
(***************************************************************************)
(* The row of an answered update says what its caller was told, as long as *)
(* SQLite takes what it is given.  Only an update has a row, so each path  *)
(* that ends without closing one is a path of another kind of request; and *)
(* no other request writes a row once its own has closed it.               *)
(***************************************************************************)
AnsweredFor(r) ==
  /\ pc[r] \in {"inspectFrom", "record"} \/ IdOf(r) # 0 => req[r].kind = "update"
  /\ IdOf(r) # 0 =>
       /\ pc[r] \in {"audit", "ok"} => RowOf(r).status = "success"
       /\ pc[r] = "error" => RowOf(r).status = "failed"

AInv == HInv /\ \A r \in Requests : AnsweredFor(r)

\* At first there is nothing to answer.
LEMMA InitAnswered == Init => \A r \in Requests : AnsweredFor(r)
BY DEF Init, AnsweredFor, IdOf, NoRequest, NewRequest

\* What is said of a request whose row and kind stay, and that stays where it is
\* or ends unanswered.
LEMMA BystanderAnswered ==
  ASSUME AInv, NEW q \in Requests, IdOf(q)' = IdOf(q), req'[q].kind = req[q].kind,
         IdOf(q) # 0 => RowOf(q)' = RowOf(q), pc'[q] \in {pc[q], "lost"}
  PROVE  AnsweredFor(q)'
BY DEF AInv, AnsweredFor

\* Only an update goes to "inspectFrom".
LEMMA BeginAnswered ==
  ASSUME AInv, NEW r \in Requests, Begin(r)
  PROVE  \A q \in Requests : AnsweredFor(q)'
<1>1. PICK k \in Kinds, s \in Services, t \in Tags \cup {NoTag} :
        req' = [req EXCEPT ![r] = NewRequest(k, s, t)] /\ pc' = [pc EXCEPT ![r] = FirstLabel[k]]
  BY DEF Begin
<1>2. history' = history
  BY DEF Begin, storeVars
<1>3. ASSUME NEW q \in Requests \ {r}
      PROVE  AnsweredFor(q)'
  <2>1. req'[q] = req[q] /\ pc'[q] = pc[q]
    BY <1>1 DEF AInv, HInv, TypeInv, TypeOK
  <2>. QED
    BY <1>2, <2>1, BystanderAnswered DEF IdOf, RowOf
<1>4. AnsweredFor(r)'
  <2>1. IdOf(r)' = 0 /\ req'[r].kind = k /\ pc'[r] = FirstLabel[k]
    BY <1>1 DEF IdOf, NewRequest, AInv, HInv, TypeInv, TypeOK
  <2>2. pc'[r] \in {"inspectFrom", "record"} => k = "update"
    BY <2>1, RequestsAssumption DEF FirstLabel
  <2>. QED
    BY <2>1, <2>2 DEF AnsweredFor
<1>. QED
  BY <1>3, <1>4

\* A row that is opened is one of an update, which goes on.
LEMMA RecordUpdateAnswered ==
  ASSUME AInv, NEW r \in Requests, RecordUpdate(r)
  PROVE  \A q \in Requests : AnsweredFor(q)'
<1>1. /\ history \in Seq(HistoryRows) /\ Len(history) \in Nat
      /\ pc' = [pc EXCEPT ![r] = "inspect"] /\ pc[r] = "record"
      /\ req' = [req EXCEPT ![r].updateID = IF history' = history THEN 0 ELSE Len(history')]
      /\ history' \in {history, Append(history, NewRow(r))}
  BY LenProperties DEF RecordUpdate, Stored, AInv, HInv, TypeInv, TypeOK
<1>2. NewRow(r) \in HistoryRows
  BY DEF RecordUpdate, NewRow, HistoryRows, AInv, HInv, TypeInv, TypeOK, HandlerOK,
         KnowsTag, Locals
<1>3. \A i \in 1 .. Len(history) : history'[i] = history[i]
  BY <1>1, <1>2, AppendProperties
<1>4. ASSUME NEW q \in Requests \ {r}
      PROVE  AnsweredFor(q)'
  <2>1. req'[q] = req[q] /\ pc'[q] = pc[q] /\ IdOf(q)' = IdOf(q)
    BY <1>1 DEF IdOf, AInv, HInv, TypeInv, TypeOK
  <2>2. IdOf(q) # 0 => RowOf(q)' = RowOf(q)
    BY <1>1, <1>3, <2>1 DEF RowOf, AInv, HInv, RowsOK
  <2>. QED
    BY <2>1, <2>2, BystanderAnswered
<1>5. AnsweredFor(r)'
  <2>1. pc'[r] = "inspect" /\ req'[r].kind = req[r].kind
    BY <1>1 DEF Locals, AInv, HInv, TypeInv, TypeOK
  <2>2. req[r].kind = "update"
    BY <1>1 DEF AInv, AnsweredFor
  <2>. QED
    BY <2>1, <2>2 DEF AnsweredFor
<1>. QED
  BY <1>4, <1>5

\* A row is closed as its caller is told, when the statement is carried out.
LEMMA MarkAnswered ==
  ASSUME AInv, NEW r \in Requests, MarkFailed(r) \/ MarkSuccess(r), "sqlite" \notin Faults
  PROVE  \A q \in Requests : AnsweredFor(q)'
<1>1. req' = req
  BY DEF MarkFailed, MarkSuccess
<1>2. PICK status \in {"failed", "success"} :
        /\ history' = WithStatus(IdOf(r), status)
        /\ pc' = [pc EXCEPT ![r] = IF status = "failed" THEN "error" ELSE "audit"]
  BY DEF MarkFailed, MarkSuccess, Stored, IdOf
<1>3. /\ history \in Seq(HistoryRows) /\ DOMAIN history = 1 .. Len(history)
      /\ Len(history) \in Nat
  BY LenProperties DEF AInv, HInv, TypeInv, TypeOK
<1>4. \A i \in DOMAIN history \ {IdOf(r)} : history'[i] = history[i]
  BY <1>2, <1>3 DEF WithStatus
<1>5. ASSUME NEW q \in Requests \ {r}
      PROVE  AnsweredFor(q)'
  <2>1. pc'[q] = pc[q]
    BY <1>2 DEF AInv, HInv, TypeInv, TypeOK
  <2>2. IdOf(q) # 0 => IdOf(q) \in DOMAIN history \ {IdOf(r)}
    BY <1>3 DEF AInv, HInv, RowsOK
  <2>3. IdOf(q)' = IdOf(q) /\ (IdOf(q) # 0 => RowOf(q)' = RowOf(q))
    BY <1>1, <1>4, <2>2 DEF RowOf, IdOf
  <2>. QED
    BY <1>1, <2>1, <2>3, BystanderAnswered
<1>6. AnsweredFor(r)'
  <2>1. pc'[r] = IF status = "failed" THEN "error" ELSE "audit"
    BY <1>2 DEF AInv, HInv, TypeInv, TypeOK
  <2>2. IdOf(r)' = IdOf(r) /\ (IdOf(r) # 0 => req'[r].kind = "update")
    BY <1>1 DEF IdOf, AInv, AnsweredFor
  <2>3. ASSUME IdOf(r) # 0
        PROVE  history'[IdOf(r)].status = status
    <3>1. IdOf(r) \in DOMAIN history /\ history[IdOf(r)] \in HistoryRows
      BY <1>3, <2>3, ElementOfSeq DEF AInv, HInv, RowsOK
    <3>. QED
      BY <1>2, <3>1 DEF WithStatus, HistoryRows
  <2>. QED
    BY <2>1, <2>2, <2>3 DEF AnsweredFor, RowOf
<1>. QED
  BY <1>5, <1>6

\* A call that ends a request without closing a row ends one that has none.
LEMMA ElsewhereAnswered ==
  ASSUME AInv, NEW r \in Requests, Elsewhere(r)
  PROVE  \A q \in Requests : AnsweredFor(q)'
<1>1. history' = history
  BY ElsewhereKeepsRowsOK DEF AInv
<1>2. \/ req' = req
      \/ \E v : req' = [req EXCEPT ![r].from = v]
      \/ \E v : req' = [req EXCEPT ![r].oldName = v]
      \/ \E v : req' = [req EXCEPT ![r].tag = v]
  BY DEF Elsewhere, InspectService, Pull, Inspect, ImagePull, CopyPullStream,
         Switch, StopOld, RenameOld, CreateNew, StartNew, RemoveOld,
         Undo, RemoveNew, UndoRename, UndoStart, LogAudit,
         InspectTag, ListImages, Restart
<1>3. /\ req'[r].kind = req[r].kind /\ IdOf(r)' = IdOf(r)
      /\ \A q \in Requests \ {r} : req'[q] = req[q]
  BY <1>2 DEF IdOf, Locals, AInv, HInv, TypeInv, TypeOK
<1>4. PICK label : /\ pc' = [pc EXCEPT ![r] = label]
                   /\ label \in {"inspectFrom", "record"} => pc[r] = "inspectFrom"
                   /\ label = "ok" => pc[r] = "audit"
                   /\ label \in {"audit", "error"} =>
                        pc[r] \in Unopened \/ req[r].kind # "update"
  BY DEF Elsewhere, InspectService, Pull, Inspect, ImagePull, CopyPullStream,
         Switch, StopOld, RenameOld, CreateNew, StartNew, RemoveOld,
         Undo, RemoveNew, UndoRename, UndoStart, LogAudit,
         InspectTag, ListImages, Restart, EngineCall, EngineCallIgnored,
         OnFailure, Unopened
<1>5. pc'[r] = label /\ \A q \in Requests \ {r} : pc'[q] = pc[q]
  BY <1>4 DEF AInv, HInv, TypeInv, TypeOK
<1>6. ASSUME NEW q \in Requests \ {r}
      PROVE  AnsweredFor(q)'
  BY <1>1, <1>3, <1>5, BystanderAnswered DEF IdOf, RowOf
<1>7. AnsweredFor(r)'
  BY <1>1, <1>3, <1>4, <1>5 DEF AnsweredFor, RowOf, AInv, HInv, RowsOK
<1>. QED
  BY <1>6, <1>7

\* The steps that are no handler's answer nobody.
LEMMA OthersAnswered ==
  ASSUME AInv, (\E r \in Requests : Cancel(r)) \/ Exit \/ Tick \/ UNCHANGED vars
  PROVE  \A q \in Requests : AnsweredFor(q)'
<1>1. history' = history /\ req' = req
  BY DEF Cancel, Exit, Tick, storeVars, vars
<1>2. \A q \in Requests : pc'[q] \in {pc[q], "lost"}
  BY DEF Cancel, Exit, Tick, vars, AInv, HInv, TypeInv, TypeOK
<1>. QED
  BY <1>1, <1>2, BystanderAnswered DEF IdOf, RowOf

\* An update that is answered "OK" has a row that says "success", one that is answered
\* with an error has a row that says "failed", also when its caller had gone or
\* other updates ran at the same time; a store that fails is the one exception.
THEOREM HistoryMatchesAnswerAlways ==
  ASSUME "sqlite" \notin Faults
  PROVE  Spec => []HistoryMatchesAnswer
<1>1. Init => AInv
  BY InitTypeInv, InitRowsOK, InitAnswered DEF AInv, HInv
<1>2. AInv /\ [Next]_vars => AInv'
  <2>. SUFFICES ASSUME AInv, [Next]_vars PROVE AInv'
    OBVIOUS
  <2>1. HInv'
    BY HInvKept DEF AInv
  <2>2. \A q \in Requests : AnsweredFor(q)'
    BY NextByRows, BeginAnswered, RecordUpdateAnswered, MarkAnswered,
       ElsewhereAnswered, OthersAnswered
  <2>. QED
    BY <2>1, <2>2 DEF AInv
<1>3. AInv => HistoryMatchesAnswer
  BY DEF AInv, AnsweredFor, HistoryMatchesAnswer, IdOf, RowOf
<1>. QED
  BY <1>1, <1>2, <1>3, PTL DEF Spec
=============================================================================
