------------------------- MODULE ServiceUpdateProofs -------------------------
(***************************************************************************)
(* Proofs that ServiceUpdate is type correct and never leaves a service    *)
(* without a container, for every set of services, requests and tags,      *)
(* every order of the images, every combination of faults and any number   *)
(* of requests in flight.                                                  *)
(***************************************************************************)
EXTENDS ServiceUpdateProperties, SequenceLemmas, FiniteSetTheorems

(***************************************************************************)
(* What each engine call does to the containers that exist and to their    *)
(* names, for any set K of identities, N of names and T of tags.           *)
(***************************************************************************)
Engines(K, N, T) == [K -> [state : ContainerStates, name : N, tag : T]]

\* No two existing containers share a name.
UniqueNames(c) ==
  \A k, l \in DOMAIN c :
    Exists(c, k) /\ Exists(c, l) /\ c[k].name = c[l].name => k = l

\* d has the containers of c, under the same names.
SameContainers(c, d) ==
  /\ DOMAIN d = DOMAIN c
  /\ \A k \in DOMAIN c : (Exists(d, k) <=> Exists(c, k)) /\ d[k].name = c[k].name

\* Setting a life-cycle state keeps every engine an engine.
LEMMA SetStateType ==
  ASSUME NEW K, NEW N, NEW T, NEW c \in Engines(K, N, T), NEW S,
         NEW state \in ContainerStates
  PROVE  SetState(c, S, state) \in Engines(K, N, T)
BY DEF Engines, SetState

\* ContainerStop and ContainerStart neither add nor take away a container, nor
\* do they rename one.
LEMMA StopKeeps ==
  ASSUME NEW K, NEW N, NEW T, NEW c \in Engines(K, N, T), NEW name
  PROVE  /\ StopContainer(c, name) \in Engines(K, N, T)
         /\ SameContainers(c, StopContainer(c, name))
<1>1. StopContainer(c, name) \in Engines(K, N, T)
  BY SetStateType DEF StopContainer, ContainerStates
<1>2. SameContainers(c, StopContainer(c, name))
  BY DEF Engines, StopContainer, SetState, Running, Named, Exists,
         SameContainers, ContainerStates
<1> QED BY <1>1, <1>2

\* A start keeps what exists and its name.
LEMMA StartKeeps ==
  ASSUME NEW K, NEW N, NEW T, NEW c \in Engines(K, N, T), NEW S, NEW broken
  PROVE  /\ StartContainer(c, S, broken) \in Engines(K, N, T)
         /\ SameContainers(c, StartContainer(c, S, broken))
<1>1. StartContainer(c, S, broken) \in Engines(K, N, T)
  BY SetStateType DEF StartContainer, ContainerStates
<1>2. SameContainers(c, StartContainer(c, S, broken))
  BY DEF Engines, StartContainer, Startable, SetState, Exists,
         SameContainers, ContainerStates
<1> QED BY <1>1, <1>2

\* ContainerRestart is the one after the other.
LEMMA RestartKeeps ==
  ASSUME NEW K, NEW N, NEW T, NEW c \in Engines(K, N, T), NEW name, NEW broken
  PROVE  /\ RestartContainer(c, name, broken) \in Engines(K, N, T)
         /\ SameContainers(c, RestartContainer(c, name, broken))
<1> DEFINE d == StopContainer(c, name)
           e == StartContainer(d, Named(c, name), broken)
<1>1. d \in Engines(K, N, T) /\ SameContainers(c, d)
  BY StopKeeps
<1>2. e \in Engines(K, N, T) /\ SameContainers(d, e)
  BY <1>1, StartKeeps
<1>3. SameContainers(c, e)
  BY <1>1, <1>2 DEF SameContainers
<1> QED BY <1>2, <1>3 DEF RestartContainer

\* ContainerRename keeps every container and the uniqueness of names; only a
\* container that had the old name changes its own.
LEMMA RenameKeeps ==
  ASSUME NEW K, NEW N, NEW T, NEW c \in Engines(K, N, T), UniqueNames(c),
         NEW name, NEW newName \in N
  PROVE  LET d == RenameContainer(c, name, newName)
         IN  /\ d \in Engines(K, N, T)
             /\ UniqueNames(d)
             /\ \A k \in K : /\ d[k].state = c[k].state
                             /\ \/ d[k].name = c[k].name
                                \/ c[k].name = name /\ d[k].name = newName
<1> DEFINE d == RenameContainer(c, name, newName)
<1>1. DOMAIN c = K
  BY DEF Engines
<1>2. CASE Named(c, newName) # {}
  BY <1>2 DEF RenameContainer
<1>3. CASE Named(c, newName) = {}
  <2>1. d = [k \in K |-> IF k \in Named(c, name)
                         THEN [c[k] EXCEPT !.name = newName] ELSE c[k]]
    BY <1>1, <1>3 DEF RenameContainer, SetName
  <2>2. d \in Engines(K, N, T)
    BY <2>1 DEF Engines
  <2>3. \A k \in K : /\ d[k].state = c[k].state
                     /\ \/ k \in Named(c, name) /\ d[k].name = newName
                        \/ k \notin Named(c, name) /\ d[k].name = c[k].name
    BY <2>1 DEF Engines
  <2>4. UniqueNames(d)
    BY <1>1, <1>3, <2>2, <2>3 DEF UniqueNames, Named, Exists, Engines
  <2> QED BY <1>1, <2>2, <2>3, <2>4 DEF Named
<1> QED BY <1>2, <1>3

\* ContainerCreate under a free name adds one container of that name.
LEMMA CreateAdds ==
  ASSUME NEW K, NEW N, NEW T, NEW c \in Engines(K, N, T), UniqueNames(c),
         NEW k \in K, NEW name \in N, NEW tag \in T,
         Named(c, name) = {}
  PROVE  LET d == CreateContainer(c, k, name, tag)
         IN  /\ d \in Engines(K, N, T)
             /\ UniqueNames(d)
             /\ d[k] = [state |-> "created", name |-> name, tag |-> tag]
             /\ \A l \in K \ {k} : d[l] = c[l]
<1> DEFINE d == CreateContainer(c, k, name, tag)
<1>1. d = [c EXCEPT ![k] = [state |-> "created", name |-> name, tag |-> tag]]
  BY DEF CreateContainer
<1>2. d \in Engines(K, N, T)
  BY <1>1 DEF Engines, ContainerStates
<1>3. d[k] = [state |-> "created", name |-> name, tag |-> tag]
  BY <1>1 DEF Engines
<1>4. \A l \in K \ {k} : d[l] = c[l]
  BY <1>1 DEF Engines
<1>5. UniqueNames(d)
  BY <1>2, <1>3, <1>4 DEF UniqueNames, Named, Exists, Engines
<1> QED BY <1>2, <1>3, <1>4, <1>5

\* ContainerRemove takes away containers of S and no others.
LEMMA RemoveTakes ==
  ASSUME NEW K, NEW N, NEW T, NEW c \in Engines(K, N, T), UniqueNames(c), NEW S
  PROVE  LET d == RemoveContainer(c, S)
         IN  /\ d \in Engines(K, N, T)
             /\ UniqueNames(d)
             /\ \A k \in K : /\ d[k].name = c[k].name
                             /\ Exists(d, k) <=> Exists(c, k) /\ k \notin S
<1> DEFINE d == RemoveContainer(c, S)
<1>1. d \in Engines(K, N, T)
  BY SetStateType DEF RemoveContainer, ContainerStates
<1>2. \A k \in K : /\ d[k].name = c[k].name
                   /\ Exists(d, k) <=> Exists(c, k) /\ k \notin S
  BY DEF Engines, RemoveContainer, SetState, Exists
<1>3. UniqueNames(d)
  BY <1>1, <1>2 DEF UniqueNames, Engines
<1> QED BY <1>1, <1>2, <1>3

\* Container k is in d what it was in c, perhaps later in its life: made from the
\* same image, and started if it was.
WasStarted(c, k) == c[k].state \notin {"unused", "created"}
Ages(c, d, k) == d[k].tag = c[k].tag /\ (WasStarted(c, k) => WasStarted(d, k))

\* The calls that set a state let containers age, under their names.
LEMMA SetStateAges ==
  ASSUME NEW K, NEW N, NEW T, NEW c \in Engines(K, N, T), NEW S,
         NEW state \in ContainerStates \ {"unused", "created"}
  PROVE  \A k \in K : /\ Ages(c, SetState(c, S, state), k)
                      /\ SetState(c, S, state)[k].name = c[k].name
BY DEF Engines, SetState, Ages, WasStarted, ContainerStates

\* ContainerRename lets them age, one of them perhaps under another name.
LEMMA RenameAges ==
  ASSUME NEW K, NEW N, NEW T, NEW c \in Engines(K, N, T), NEW name, NEW newName
  PROVE  \A k \in K : Ages(c, RenameContainer(c, name, newName), k)
BY DEF Engines, RenameContainer, SetName, Ages, WasStarted

\* So does ContainerRestart, which sets two.
LEMMA RestartAges ==
  ASSUME NEW K, NEW N, NEW T, NEW c \in Engines(K, N, T), NEW name, NEW broken
  PROVE  LET d == RestartContainer(c, name, broken)
         IN  \A k \in K : Ages(c, d, k) /\ d[k].name = c[k].name
<1>. DEFINE d == StopContainer(c, name)
            S == Startable(d, Named(c, name), broken)
<1>1. {"running", "stopped"} \subseteq ContainerStates \ {"unused", "created"}
  BY DEF ContainerStates
<1>2. /\ d \in Engines(K, N, T)
      /\ \A k \in K : Ages(c, d, k) /\ d[k].name = c[k].name
  BY <1>1, StopKeeps, SetStateAges DEF StopContainer
<1>3. \A k \in K : /\ Ages(d, SetState(d, S, "running"), k)
                   /\ SetState(d, S, "running")[k].name = d[k].name
  <2>. HIDE DEF d, S
  <2>. QED BY <1>1, <1>2, SetStateAges
<1>4. RestartContainer(c, name, broken) = SetState(d, S, "running")
  BY DEF RestartContainer, StartContainer
<1>. HIDE DEF d, S
<1>. QED
  BY <1>2, <1>3, <1>4 DEF Ages

\* A name belongs to one container at most.
LEMMA NamedAtMostOne ==
  ASSUME NEW c, UniqueNames(c), NEW name,
         NEW k \in Named(c, name), NEW l \in Named(c, name)
  PROVE  k = l
BY DEF UniqueNames, Named

-----------------------------------------------------------------------------
(***************************************************************************)
(* What each handler may rely on at each of its labels.                    *)
(***************************************************************************)
\* The labels at which the tag to deploy is known.
KnowsTag == {"inspectFrom", "record", "inspect", "pull", "copy", "stop",
             "rename", "create", "start"}

\* The labels at which the "_old_" name has been chosen.
KnowsOldName == {"create", "start", "removeNew", "undoRename", "removeOld"}

\* The labels at which a request has not created its container.
BeforeCreate == {"idle", "inspectFrom", "record", "inspect", "pull", "copy",
                 "stop", "rename", "create", "inspectTag", "listImages"}

HandlerOK ==
  \A r \in Requests :
    /\ pc[r] # "idle" => req[r].svc \in Services /\ req[r].kind \in Kinds
    /\ pc[r] \in KnowsTag => req[r].tag \in Tags
    /\ pc[r] \in KnowsOldName => req[r].oldName \in {req[r].svc} \X Nat
    /\ pc[r] \in BeforeCreate => ~ Exists(ctr, r)
    /\ Exists(ctr, r) => ctr[r].name[1] = req[r].svc

EngineOK ==
  /\ UniqueNames(ctr)
  /\ \A k \in Containers : Exists(ctr, k) => ctr[k].name \in Names

\* A request that has created its container and may still remove one, its own
\* or the old one.
Owes(r) == pc[r] \in {"start", "removeNew", "removeOld"}
Owed(s) == {r \in Requests : req[r].svc = s /\ Owes(r)}

\* Each service has a container more than its requests may still remove.
Covered ==
  \A s \in Services : Cardinality(ContainersOf(s)) >= 1 + Cardinality(Owed(s))

TypeInv == TypeOK /\ HandlerOK /\ EngineOK
IInv == TypeInv /\ Covered

\* The containers are an engine's.
LEMMA CtrType == TypeOK => ctr \in Engines(Containers, AllNames, AllTags)
BY DEF TypeOK, Engines

USE DEF At, Goto

\* Nobody asks for anything at first, and every service has its container.
LEMMA InitTypeInv == Init => TypeInv
<1> SUFFICES ASSUME Init PROVE TypeInv
  OBVIOUS
<1>1. TypeOK
  BY ServicesAssumption, TagsAssumption, BoundsAssumption, RequestsAssumption
  DEF Init, TypeOK, ContainerStates, Containers, Names, AllNames, AllTags,
      Locals, LiveName, NoRequest, NewRequest,
      Labels
<1>2. HandlerOK
  BY ServicesAssumption DEF Init, HandlerOK, Exists, Containers, KnowsTag,
     KnowsOldName
<1>3. EngineOK
  BY DEF Init, EngineOK, UniqueNames, Exists, Containers, LiveName, Names
<1> QED BY <1>1, <1>2, <1>3 DEF TypeInv

\* No request starts in the middle of a switch.
LEMMA FirstLabelType ==
  ASSUME NEW k \in Kinds
  PROVE  FirstLabel[k] \in {"inspectFrom", "inspectTag", "restart"}
BY RequestsAssumption DEF FirstLabel

\* A request starts with its service known and its container not made.
LEMMA BeginType == ASSUME TypeInv, NEW r \in Requests, Begin(r) PROVE TypeInv'
<1>1. PICK k \in Kinds, s \in Services :
        \E t \in IF k = "update" THEN Tags ELSE {NoTag} :
         /\ req' = [req EXCEPT ![r] = NewRequest(k, s, t)]
         /\ pc' = [pc EXCEPT ![r] = FirstLabel[k]]
  BY DEF Begin
<1>2. FirstLabel[k] \in Labels /\ FirstLabel[k] # "idle"
        /\ (k # "update" => FirstLabel[k] \in {"inspectTag", "restart"})
        /\ FirstLabel[k] \notin KnowsOldName
  BY RequestsAssumption DEF FirstLabel, Labels, KnowsOldName
<1>3. TypeOK'
  BY <1>1, <1>2
  DEF Begin, TypeInv, TypeOK, Locals, AllTags, AllNames, NoRequest, NewRequest,
      engineVars, storeVars
<1>4. HandlerOK'
  BY <1>1, <1>2
  DEF Begin, TypeInv, TypeOK, HandlerOK, NoRequest, NewRequest, KnowsTag,
      KnowsOldName, BeforeCreate, engineVars, Exists
<1>5. EngineOK'
  BY DEF Begin, TypeInv, EngineOK, UniqueNames, Exists, engineVars
<1> QED BY <1>3, <1>4, <1>5 DEF TypeInv

(***************************************************************************)
(* The helpers return what their callers expect.                           *)
(***************************************************************************)
\* RollbackService finds one of the service's own local tags, or none.
LEMMA PreviousTagType ==
  ASSUME NEW local \in SUBSET Tags, NEW current
  PROVE  PreviousTag(local, current) \in Tags \cup {NoTag}
<1> DEFINE listed == {i \in DOMAIN ImageOrder :
                        ImageOrder[i] \in local \ {current, Latest}}
<1>1. DOMAIN ImageOrder = 1 .. Len(ImageOrder) /\ Len(ImageOrder) \in Nat
  BY TagsAssumption, LenProperties
<1>2. CASE listed = {}
  BY <1>2 DEF PreviousTag
<1>3. CASE listed # {}
  <2>1. \E i \in listed : \A j \in listed : j <= i
    BY <1>1, <1>3, LastPosition
  <2>2. (CHOOSE i \in listed : \A j \in listed : j <= i) \in listed
    BY <2>1
  <2> QED BY <1>3, <2>2 DEF PreviousTag
<1> QED BY <1>2, <1>3

\* The tag of a container found by name is a tag.
LEMMA LiveTag ==
  ASSUME TypeOK, NEW r, Live(r) # {}
  PROVE  TagOf(Live(r)) \in AllTags
<1>1. (CHOOSE k \in Live(r) : TRUE) \in Live(r)
  OBVIOUS
<1>2. Live(r) \subseteq Containers
  BY DEF Live, Named, TypeOK
<1> QED BY <1>1, <1>2 DEF TagOf, TypeOK

\* Closing a row gives a row of the same type.
LEMMA WithStatusType ==
  ASSUME TypeOK, NEW id, NEW status \in {"failed", "success"}
  PROVE  WithStatus(id, status) \in Seq(HistoryRows)
<1>1. history \in Seq(HistoryRows)
  BY DEF TypeOK
<1>2. CASE id \in DOMAIN history
  <2>1. id \in 1 .. Len(history) /\ history[id] \in HistoryRows
    BY <1>1, <1>2, LenProperties, ElementOfSeq
  <2>2. [history[id] EXCEPT !.status = status] \in HistoryRows
    BY <2>1 DEF HistoryRows
  <2> QED BY <1>1, <1>2, <2>1, <2>2, ExceptSeq DEF WithStatus
<1> QED BY <1>1, <1>2 DEF WithStatus

(***************************************************************************)
(* The steps that leave the containers alone.                              *)
(***************************************************************************)
\* A handler that moves to a label it has what it needs for, with locals about
\* the same service, keeps the invariant.
LEMMA QuietMove ==
  ASSUME TypeInv, NEW r \in Requests, NEW x \in Labels \ KnowsOldName,
         ctr' = ctr, now' = now, pc[r] # "idle", pc' = [pc EXCEPT ![r] = x],
         req' \in [Requests -> Locals],
         \A q \in Requests \ {r} : req'[q] = req[q],
         req'[r].svc = req[r].svc /\ req'[r].kind = req[r].kind,
         x \in KnowsTag => req'[r].tag \in Tags,
         x \in BeforeCreate => pc[r] \in BeforeCreate,
         images' \in [Services -> SUBSET Tags], cancelled' \in [Requests -> BOOLEAN],
         history' \in Seq(HistoryRows), audit' \in Seq(AuditRows)
  PROVE  TypeInv'
<1>1. TypeOK'
  BY DEF TypeInv, TypeOK
<1>2. HandlerOK'
  BY DEF TypeInv, TypeOK, HandlerOK, Exists
<1>3. EngineOK'
  BY DEF TypeInv, EngineOK, UniqueNames, Exists
<1> QED BY <1>1, <1>2, <1>3 DEF TypeInv

\* Whether a call is cut off or not, the contexts stay Booleans.
LEMMA PerformType ==
  ASSUME TypeInv, NEW r \in Requests, NEW o, NEW effect, Perform(r, o, effect)
  PROVE  cancelled' \in [Requests -> BOOLEAN]
BY DEF Perform, TypeInv, TypeOK

\* Where a failing PullAndUpdate leads.
LEMMA OnFailureType ==
  ASSUME NEW r
  PROVE  OnFailure(r) \in (Labels \ KnowsOldName) \ (KnowsTag \cup BeforeCreate)
BY DEF OnFailure, Labels, Terminal, KnowsOldName, KnowsTag, BeforeCreate

\* What a query reads is a tag or none.
LEMMA QueryType ==
  ASSUME TypeInv, NEW r \in Requests, InspectService(r) \/ InspectTag(r)
  PROVE  TypeInv'
<1>1. Live(r) # {} => TagOf(Live(r)) \in AllTags
  BY LiveTag DEF TypeInv
<1>2. PICK v \in AllTags : req' = [req EXCEPT ![r].from = v]
  BY <1>1 DEF InspectService, InspectTag, AllTags
<1>3. /\ req' \in [Requests -> Locals]
      /\ \A q \in Requests \ {r} : req'[q] = req[q]
      /\ req'[r].svc = req[r].svc /\ req'[r].kind = req[r].kind /\ req'[r].tag = req[r].tag
  BY <1>2 DEF TypeInv, TypeOK, Locals
<1>4. cancelled' \in [Requests -> BOOLEAN]
  BY PerformType DEF InspectService, InspectTag, EngineCall
<1>5. CASE InspectService(r)
  <2>1. pc[r] = "inspectFrom" /\ pc' = [pc EXCEPT ![r] = "record"] /\ ctr' = ctr
    BY <1>5 DEF InspectService, Perform
  <2>2. "record" \in Labels \ KnowsOldName
    BY DEF Labels, KnowsOldName
  <2>3. req'[r].tag \in Tags /\ pc[r] \in BeforeCreate
    BY <1>3, <2>1 DEF TypeInv, HandlerOK, KnowsTag, BeforeCreate
  <2> QED BY <1>3, <1>4, <1>5, <2>1, <2>2, <2>3, QuietMove
          DEF InspectService, storeVars, TypeInv, TypeOK
<1>6. CASE InspectTag(r)
  <2>1. /\ pc[r] = "inspectTag" /\ ctr' = ctr
        /\ \E x \in {"listImages", "error"} : pc' = [pc EXCEPT ![r] = x]
    BY <1>6 DEF InspectTag, EngineCall, Perform
  <2>2. PICK x \in (Labels \ KnowsOldName) \ KnowsTag : pc' = [pc EXCEPT ![r] = x]
    BY <2>1 DEF Labels, Terminal, KnowsOldName, KnowsTag
  <2>3. pc[r] \in BeforeCreate
    BY <2>1 DEF BeforeCreate
  <2> QED BY <1>3, <1>4, <1>6, <2>1, <2>2, <2>3, QuietMove
          DEF InspectTag, storeVars, TypeInv, TypeOK
<1> QED BY <1>5, <1>6

\* The row that is opened is of the table's type.
LEMMA RecordUpdateType ==
  ASSUME TypeInv, NEW r \in Requests, RecordUpdate(r)
  PROVE  TypeInv'
<1>1. req[r].svc \in Services /\ req[r].tag \in Tags /\ pc[r] = "record"
  BY DEF RecordUpdate, TypeInv, HandlerOK, KnowsTag
<1>2. NewRow(r) \in HistoryRows
  BY <1>1 DEF NewRow, HistoryRows, Locals, TypeInv, TypeOK
<1>3. history' \in Seq(HistoryRows)
  <2>1. Append(history, NewRow(r)) \in Seq(HistoryRows)
    BY <1>2, AppendProperties DEF TypeInv, TypeOK
  <2> QED BY <2>1 DEF RecordUpdate, Stored, TypeInv, TypeOK
<1>4. PICK id \in Nat : req' = [req EXCEPT ![r].updateID = id]
  BY <1>3, LenProperties DEF RecordUpdate
<1>5. /\ req' \in [Requests -> Locals]
      /\ \A q \in Requests \ {r} : req'[q] = req[q]
      /\ req'[r].svc = req[r].svc /\ req'[r].kind = req[r].kind /\ req'[r].tag = req[r].tag
  BY <1>4 DEF TypeInv, TypeOK, Locals
<1>6. "inspect" \in Labels \ KnowsOldName /\ pc[r] \in BeforeCreate
  BY <1>1 DEF Labels, KnowsOldName, BeforeCreate
<1> QED BY <1>1, <1>3, <1>5, <1>6, QuietMove
        DEF RecordUpdate, engineVars, TypeInv, TypeOK

\* The steps of a pull.
LEMMA PullType ==
  ASSUME TypeInv, NEW r \in Requests, Pull(r)
  PROVE  TypeInv'
<1>1. /\ pc[r] \in {"inspect", "pull", "copy"} /\ ctr' = ctr
      /\ UNCHANGED <<storeVars, now, req>>
  BY DEF Pull, Inspect, ImagePull, CopyPullStream, EngineCall, Perform
<1>2. req[r].tag \in Tags /\ pc[r] \in BeforeCreate
  BY <1>1 DEF TypeInv, HandlerOK, KnowsTag, BeforeCreate
<1>3. PICK x \in {"pull", "copy", "stop", OnFailure(r)} : pc' = [pc EXCEPT ![r] = x]
  BY DEF Pull, Inspect, ImagePull, CopyPullStream, EngineCall
<1>4. x \in Labels \ KnowsOldName
  BY OnFailureType DEF Labels, KnowsOldName
<1>5. cancelled' \in [Requests -> BOOLEAN]
  BY PerformType DEF Pull, Inspect, ImagePull, CopyPullStream, EngineCall
<1>6. images' \in [Services -> SUBSET Tags]
  BY <1>2 DEF Pull, Inspect, ImagePull, CopyPullStream, TypeInv, TypeOK
<1> QED BY <1>1, <1>2, <1>3, <1>4, <1>5, <1>6, QuietMove DEF storeVars, TypeInv, TypeOK

\* Closing a row keeps the table's type.
LEMMA MarkType ==
  ASSUME TypeInv, NEW r \in Requests, MarkFailed(r) \/ MarkSuccess(r)
  PROVE  TypeInv'
<1>1. history' \in Seq(HistoryRows)
  BY WithStatusType DEF MarkFailed, MarkSuccess, Stored, TypeInv, TypeOK
<1>2. pc[r] # "idle" /\ \E x \in {"error", "audit"} : pc' = [pc EXCEPT ![r] = x]
  BY DEF MarkFailed, MarkSuccess
<1>3. PICK x \in (Labels \ KnowsOldName) \ (KnowsTag \cup BeforeCreate) :
        pc' = [pc EXCEPT ![r] = x]
  BY <1>2 DEF Labels, Terminal, KnowsOldName, KnowsTag, BeforeCreate
<1> QED BY <1>1, <1>2, <1>3, QuietMove
        DEF MarkFailed, MarkSuccess, engineVars, TypeInv, TypeOK

\* The audit row is of the table's type.
LEMMA LogAuditType == ASSUME TypeInv, NEW r \in Requests, LogAudit(r) PROVE TypeInv'
<1>1. req[r].svc \in Services /\ req[r].kind \in Kinds /\ pc[r] = "audit"
  BY DEF LogAudit, TypeInv, HandlerOK
<1>2. AuditRow(r) \in AuditRows
  BY <1>1 DEF AuditRow, AuditRows, Locals, AllTags, TypeInv, TypeOK
<1>3. audit' \in Seq(AuditRows)
  <2>1. Append(audit, AuditRow(r)) \in Seq(AuditRows)
    BY <1>2, AppendProperties DEF TypeInv, TypeOK
  <2> QED BY <2>1 DEF LogAudit, Stored, TypeInv, TypeOK
<1>4. "ok" \in (Labels \ KnowsOldName) \ (KnowsTag \cup BeforeCreate)
  BY DEF Labels, Terminal, KnowsOldName, KnowsTag, BeforeCreate
<1> QED BY <1>1, <1>3, <1>4, QuietMove DEF LogAudit, engineVars, TypeInv, TypeOK

\* A rollback goes on only with a tag.
LEMMA ListImagesType == ASSUME TypeInv, NEW r \in Requests, ListImages(r) PROVE TypeInv'
<1>1. PICK v \in AllTags :
        /\ req' = [req EXCEPT ![r].tag = v]
        /\ EngineCall(r, v # NoTag, ctr, "inspect", "error")
  BY PreviousTagType DEF ListImages, TypeInv, TypeOK, HandlerOK, AllTags
<1>2. /\ req' \in [Requests -> Locals]
      /\ \A q \in Requests \ {r} : req'[q] = req[q]
      /\ req'[r].svc = req[r].svc /\ req'[r].kind = req[r].kind /\ req'[r].tag = v
  BY <1>1 DEF TypeInv, TypeOK, Locals
<1>3. PICK x \in {"inspect", "error"} :
        /\ pc' = [pc EXCEPT ![r] = x]
        /\ x = "inspect" => v \in Tags
  BY <1>1 DEF EngineCall, AllTags
<1>4. x \in Labels \ KnowsOldName /\ (x \in KnowsTag => v \in Tags)
  BY <1>3 DEF Labels, Terminal, KnowsOldName, KnowsTag
<1>5. pc[r] \in BeforeCreate /\ pc[r] # "idle" /\ ctr' = ctr
  BY DEF ListImages, BeforeCreate, EngineCall, Perform
<1>6. cancelled' \in [Requests -> BOOLEAN]
  BY <1>1, PerformType DEF EngineCall
<1> QED BY <1>2, <1>3, <1>4, <1>5, <1>6, QuietMove
        DEF ListImages, storeVars, TypeInv, TypeOK

(***************************************************************************)
(* The engine calls.  EngineStep says what all of them but CreateNew do.   *)
(***************************************************************************)
\* The containers change, but none comes into existence, and names stay names.
EngineStep ==
  /\ ctr' \in Engines(Containers, AllNames, AllTags)
  /\ UniqueNames(ctr')
  /\ \A k \in Containers :
       Exists(ctr', k) =>
         /\ Exists(ctr, k)
         /\ ctr'[k].name \in Names /\ ctr'[k].name[1] = ctr[k].name[1]

\* Every container stays, and stays with its service.
KeepsContainers ==
  \A k \in Containers :
    Exists(ctr, k) => Exists(ctr', k) /\ ctr'[k].name[1] = ctr[k].name[1]

\* A step that leaves the engine alone is one that keeps the names apart.
LEMMA NoEngineStep ==
  ASSUME TypeInv, ctr' = ctr
  PROVE  EngineStep /\ KeepsContainers
BY CtrType DEF EngineStep, KeepsContainers, TypeInv, EngineOK, UniqueNames, Exists

\* A call that keeps existence and names keeps the names apart.
LEMMA SameContainersStep ==
  ASSUME TypeInv, ctr' \in Engines(Containers, AllNames, AllTags),
         SameContainers(ctr, ctr')
  PROVE  EngineStep /\ KeepsContainers
BY CtrType
DEF EngineStep, KeepsContainers, TypeInv, EngineOK, UniqueNames, Exists,
    SameContainers, Engines

\* A handler that makes such a call and goes to a label that needs no more than
\* its present one keeps the invariant.
LEMMA EngineMove ==
  ASSUME TypeInv, NEW r \in Requests, NEW x \in Labels, EngineStep,
         pc' = [pc EXCEPT ![r] = x], pc[r] # "idle",
         x \in KnowsTag => pc[r] \in KnowsTag,
         x \in KnowsOldName => pc[r] \in KnowsOldName,
         x \in BeforeCreate => pc[r] \in BeforeCreate,
         cancelled' \in [Requests -> BOOLEAN],
         UNCHANGED <<images, history, audit, now, req>>
  PROVE  TypeInv'
<1>1. TypeOK'
  BY DEF TypeInv, TypeOK, EngineStep, Engines
<1>2. HandlerOK'
  BY DEF TypeInv, TypeOK, HandlerOK, EngineStep, Exists, Containers
<1>3. EngineOK'
  BY DEF EngineOK, EngineStep, UniqueNames, Exists
<1> QED BY <1>1, <1>2, <1>3 DEF TypeInv

\* The names a handler gives are names of its own service.
LEMMA LiveNameType ==
  ASSUME NEW s \in Services
  PROVE  LiveName(s) \in Names /\ LiveName(s)[1] = s
BY DEF LiveName, Names

\* The name chosen for the old container is one of its own service.
LEMMA OldNameType ==
  ASSUME TypeInv, NEW r \in Requests, pc[r] \in KnowsOldName, pc[r] # "idle"
  PROVE  /\ req[r].oldName \in Names /\ req[r].svc \in Services
         /\ req[r].oldName[1] = req[r].svc
BY DEF TypeInv, HandlerOK, Names

\* A rename within one service.
LEMMA RenameStep ==
  ASSUME TypeInv, NEW old, NEW new \in Names, old[1] = new[1],
         ctr' \in {ctr, RenameContainer(ctr, old, new)}
  PROVE  EngineStep /\ KeepsContainers
<1>1. ctr \in Engines(Containers, AllNames, AllTags) /\ UniqueNames(ctr)
  BY CtrType DEF TypeInv, EngineOK
<1>2. new \in AllNames
  BY DEF AllNames
<1>3. CASE ctr' = ctr
  BY <1>3, NoEngineStep
<1>4. CASE ctr' = RenameContainer(ctr, old, new)
  <2>1. /\ ctr' \in Engines(Containers, AllNames, AllTags)
        /\ UniqueNames(ctr')
        /\ \A k \in Containers : /\ ctr'[k].state = ctr[k].state
                                 /\ \/ ctr'[k].name = ctr[k].name
                                    \/ ctr[k].name = old /\ ctr'[k].name = new
    BY <1>1, <1>2, <1>4, RenameKeeps
  <2> QED BY <2>1 DEF EngineStep, KeepsContainers, TypeInv, EngineOK, Exists
<1> QED BY <1>3, <1>4

\* A removal.
LEMMA RemoveStep ==
  ASSUME TypeInv, NEW S, ctr' \in {ctr, RemoveContainer(ctr, S)}
  PROVE  EngineStep
<1>1. ctr \in Engines(Containers, AllNames, AllTags) /\ UniqueNames(ctr)
  BY CtrType DEF TypeInv, EngineOK
<1>2. CASE ctr' = ctr
  BY <1>2, NoEngineStep
<1>3. CASE ctr' = RemoveContainer(ctr, S)
  <2>1. /\ ctr' \in Engines(Containers, AllNames, AllTags)
        /\ UniqueNames(ctr')
        /\ \A k \in Containers : /\ ctr'[k].name = ctr[k].name
                                 /\ Exists(ctr', k) <=> Exists(ctr, k) /\ k \notin S
    BY <1>1, <1>3, RemoveTakes
  <2> QED BY <2>1 DEF EngineStep, TypeInv, EngineOK
<1> QED BY <1>2, <1>3

\* The actions that are engine calls.
LEMMA StopOldType ==
  ASSUME TypeInv, NEW r \in Requests, StopOld(r)
  PROVE  TypeInv' /\ KeepsContainers
<1>1. PICK x \in {"rename"} :
        /\ ctr' \in {ctr, StopContainer(ctr, LiveName(req[r].svc))}
        /\ pc' = [pc EXCEPT ![r] = x]
  BY DEF StopOld, EngineCall, EngineCallIgnored, Perform
<1>2. EngineStep /\ KeepsContainers
  <2>1. ctr \in Engines(Containers, AllNames, AllTags)
    BY CtrType DEF TypeInv
  <2>2. CASE ctr' = ctr
    BY <2>2, NoEngineStep
  <2>3. CASE ctr' = StopContainer(ctr, LiveName(req[r].svc))
    BY <2>1, <2>3, StopKeeps, SameContainersStep
  <2> QED BY <1>1, <2>2, <2>3
<1>3. cancelled' \in [Requests -> BOOLEAN]
  BY DEF StopOld, EngineCall, EngineCallIgnored, Perform, TypeInv, TypeOK
<1>4. x \in Labels /\ UNCHANGED <<images, history, audit, now, req>>
  BY DEF StopOld, storeVars, Labels, Terminal
<1> QED BY <1>1, <1>2, <1>3, <1>4, EngineMove
        DEF StopOld, KnowsTag, KnowsOldName, BeforeCreate

\* Starting what was made gives no name and takes none.
LEMMA StartNewType ==
  ASSUME TypeInv, NEW r \in Requests, StartNew(r)
  PROVE  TypeInv' /\ KeepsContainers
<1>1. PICK x \in {"removeOld", "removeNew"} :
        /\ ctr' \in {ctr, StartContainer(ctr, {r}, Broken)}
        /\ pc' = [pc EXCEPT ![r] = x]
  BY DEF StartNew, Started, EngineCall, EngineCallIgnored, Perform
<1>2. EngineStep /\ KeepsContainers
  <2>1. ctr \in Engines(Containers, AllNames, AllTags)
    BY CtrType DEF TypeInv
  <2>2. CASE ctr' = ctr
    BY <2>2, NoEngineStep
  <2>3. CASE ctr' = StartContainer(ctr, {r}, Broken)
    BY <2>1, <2>3, StartKeeps, SameContainersStep
  <2> QED BY <1>1, <2>2, <2>3
<1>3. cancelled' \in [Requests -> BOOLEAN]
  BY DEF StartNew, Started, EngineCall, EngineCallIgnored, Perform, TypeInv, TypeOK
<1>4. x \in Labels /\ UNCHANGED <<images, history, audit, now, req>>
  BY DEF StartNew, storeVars, Labels, Terminal
<1> QED BY <1>1, <1>2, <1>3, <1>4, EngineMove
        DEF StartNew, KnowsTag, KnowsOldName, BeforeCreate

\* Removing what was made takes one container, the request's own.
LEMMA RemoveNewType == ASSUME TypeInv, NEW r \in Requests, RemoveNew(r) PROVE TypeInv'
<1>1. PICK x \in {"undoRename"} :
        /\ ctr' \in {ctr, RemoveContainer(ctr, {r})}
        /\ pc' = [pc EXCEPT ![r] = x]
  BY DEF RemoveNew, EngineCall, EngineCallIgnored, Perform
<1>2. EngineStep
  BY <1>1, RemoveStep
<1>3. cancelled' \in [Requests -> BOOLEAN]
  BY DEF RemoveNew, EngineCall, EngineCallIgnored, Perform, TypeInv, TypeOK
<1>4. x \in Labels /\ UNCHANGED <<images, history, audit, now, req>>
  BY DEF RemoveNew, storeVars, Labels, Terminal
<1> QED BY <1>1, <1>2, <1>3, <1>4, EngineMove
        DEF RemoveNew, KnowsTag, KnowsOldName, BeforeCreate

\* The undo gives the old container the name of its own service.
LEMMA UndoRenameType ==
  ASSUME TypeInv, NEW r \in Requests, UndoRename(r)
  PROVE  TypeInv' /\ KeepsContainers
<1>1. PICK x \in {"undoStart"} :
        /\ ctr' \in {ctr, RenameContainer(ctr, req[r].oldName, LiveName(req[r].svc))}
        /\ pc' = [pc EXCEPT ![r] = x]
  BY DEF UndoRename, EngineCall, EngineCallIgnored, Perform
<1>2. EngineStep /\ KeepsContainers
  <2>1. /\ req[r].svc \in Services /\ LiveName(req[r].svc) \in Names
        /\ req[r].oldName[1] = LiveName(req[r].svc)[1]
    BY OldNameType, LiveNameType DEF UndoRename, KnowsOldName
  <2> QED BY <1>1, <2>1, RenameStep
<1>3. cancelled' \in [Requests -> BOOLEAN]
  BY DEF UndoRename, EngineCall, EngineCallIgnored, Perform, TypeInv, TypeOK
<1>4. x \in Labels /\ UNCHANGED <<images, history, audit, now, req>>
  BY DEF UndoRename, storeVars, Labels, Terminal
<1> QED BY <1>1, <1>2, <1>3, <1>4, EngineMove
        DEF UndoRename, KnowsTag, KnowsOldName, BeforeCreate

\* The undo starts what answers to the live name.
LEMMA UndoStartType ==
  ASSUME TypeInv, NEW r \in Requests, UndoStart(r)
  PROVE  TypeInv' /\ KeepsContainers
<1>1. PICK x \in {"markFailed", "error"} :
        /\ ctr' \in {ctr, StartContainer(ctr, Live(r), Broken)}
        /\ pc' = [pc EXCEPT ![r] = x]
  BY DEF UndoStart, EngineCall, EngineCallIgnored, Perform, OnFailure
<1>2. EngineStep /\ KeepsContainers
  <2>1. ctr \in Engines(Containers, AllNames, AllTags)
    BY CtrType DEF TypeInv
  <2>2. CASE ctr' = ctr
    BY <2>2, NoEngineStep
  <2>3. CASE ctr' = StartContainer(ctr, Live(r), Broken)
    BY <2>1, <2>3, StartKeeps, SameContainersStep
  <2> QED BY <1>1, <2>2, <2>3
<1>3. cancelled' \in [Requests -> BOOLEAN]
  BY DEF UndoStart, EngineCall, EngineCallIgnored, Perform, TypeInv, TypeOK
<1>4. x \in Labels /\ UNCHANGED <<images, history, audit, now, req>>
  BY DEF UndoStart, storeVars, Labels, Terminal
<1> QED BY <1>1, <1>2, <1>3, <1>4, EngineMove
        DEF UndoStart, KnowsTag, KnowsOldName, BeforeCreate

\* The removal of what was replaced gives no name.
LEMMA RemoveOldType == ASSUME TypeInv, NEW r \in Requests, RemoveOld(r) PROVE TypeInv'
<1>1. PICK x \in {"markSuccess", "audit"} :
        /\ ctr' \in {ctr, RemoveContainer(ctr, Named(ctr, req[r].oldName))}
        /\ pc' = [pc EXCEPT ![r] = x]
  BY DEF RemoveOld, Obsolete, EngineCall, EngineCallIgnored, Perform
<1>2. EngineStep
  BY <1>1, RemoveStep
<1>3. cancelled' \in [Requests -> BOOLEAN]
  BY DEF RemoveOld, Obsolete, EngineCall, EngineCallIgnored, Perform, TypeInv, TypeOK
<1>4. x \in Labels /\ UNCHANGED <<images, history, audit, now, req>>
  BY DEF RemoveOld, storeVars, Labels, Terminal
<1> QED BY <1>1, <1>2, <1>3, <1>4, EngineMove
        DEF RemoveOld, KnowsTag, KnowsOldName, BeforeCreate

\* A restart gives no name and takes none.
LEMMA RestartType ==
  ASSUME TypeInv, NEW r \in Requests, Restart(r)
  PROVE  TypeInv' /\ KeepsContainers
<1>1. PICK x \in {"audit", "error"} :
        /\ ctr' \in {ctr, RestartContainer(ctr, LiveName(req[r].svc), Broken)}
        /\ pc' = [pc EXCEPT ![r] = x]
  BY DEF Restart, EngineCall, EngineCallIgnored, Perform
<1>2. EngineStep /\ KeepsContainers
  <2>1. ctr \in Engines(Containers, AllNames, AllTags)
    BY CtrType DEF TypeInv
  <2>2. CASE ctr' = ctr
    BY <2>2, NoEngineStep
  <2>3. CASE ctr' = RestartContainer(ctr, LiveName(req[r].svc), Broken)
    BY <2>1, <2>3, RestartKeeps, SameContainersStep
  <2> QED BY <1>1, <2>2, <2>3
<1>3. cancelled' \in [Requests -> BOOLEAN]
  BY DEF Restart, EngineCall, EngineCallIgnored, Perform, TypeInv, TypeOK
<1>4. x \in Labels /\ UNCHANGED <<images, history, audit, now, req>>
  BY DEF Restart, storeVars, Labels, Terminal
<1> QED BY <1>1, <1>2, <1>3, <1>4, EngineMove
        DEF Restart, KnowsTag, KnowsOldName, BeforeCreate

\* The old container gets an "_old_" name of its own service.
LEMMA RenameOldType ==
  ASSUME TypeInv, NEW r \in Requests, RenameOld(r)
  PROVE  TypeInv' /\ KeepsContainers
<1> DEFINE old == OldName(req[r].svc, now)
<1>1. /\ ctr' \in {ctr, RenameContainer(ctr, LiveName(req[r].svc), old)}
      /\ pc' = [pc EXCEPT ![r] = "create"]
      /\ req' = [req EXCEPT ![r].oldName = old]
      /\ cancelled' \in [Requests -> BOOLEAN]
  BY DEF RenameOld, EngineCall, EngineCallIgnored, Perform, TypeInv, TypeOK
<1>2. /\ req[r] \in Locals /\ req[r].svc \in Services /\ now \in Nat
      /\ old \in Names /\ old = <<req[r].svc, now>>
  BY DEF RenameOld, TypeInv, TypeOK, HandlerOK, OldName, Names
<1>3. EngineStep /\ KeepsContainers
  <2>1. LiveName(req[r].svc)[1] = old[1]
    BY <1>2, LiveNameType
  <2> QED BY <1>1, <1>2, <2>1, RenameStep
<1>4. req' \in [Requests -> Locals]
  BY <1>1, <1>2 DEF TypeInv, TypeOK, Locals, AllNames
<1>5. TypeOK'
  BY <1>1, <1>3, <1>4
  DEF RenameOld, TypeInv, TypeOK, storeVars, EngineStep, Engines, Labels
<1>6. HandlerOK'
  BY <1>1, <1>2, <1>3
  DEF RenameOld, TypeInv, TypeOK, HandlerOK, KnowsTag, KnowsOldName, BeforeCreate,
      EngineStep, Exists, Containers
<1>7. EngineOK'
  BY <1>3 DEF EngineOK, EngineStep, UniqueNames, Exists
<1> QED BY <1>3, <1>5, <1>6, <1>7 DEF TypeInv

\* The new container adds itself and no other.
LEMMA CreateNewDoes ==
  ASSUME TypeInv, NEW r \in Requests, CreateNew(r)
  PROVE  /\ ctr' \in Engines(Containers, AllNames, AllTags)
         /\ UniqueNames(ctr')
         /\ \/ ctr' = ctr /\ pc' = [pc EXCEPT ![r] = "undoRename"]
            \/ /\ pc' \in {[pc EXCEPT ![r] = "start"], [pc EXCEPT ![r] = "undoRename"]}
               /\ ctr'[r].name = LiveName(req[r].svc) /\ Exists(ctr', r)
               /\ \A k \in Containers \ {r} : ctr'[k] = ctr[k]
<1> DEFINE s == req[r].svc
           effect == CreateContainer(ctr, r, LiveName(s), req[r].tag)
<1>1. /\ s \in Services /\ req[r].tag \in AllTags /\ r \in Containers
      /\ LiveName(s) \in AllNames
  BY LiveNameType
  DEF CreateNew, TypeInv, HandlerOK, TypeOK, KnowsTag, AllTags, AllNames, Containers
<1>2. ctr \in Engines(Containers, AllNames, AllTags) /\ UniqueNames(ctr)
  BY CtrType DEF TypeInv, EngineOK
<1>3. CASE ctr' = ctr /\ pc' = [pc EXCEPT ![r] = "undoRename"]
  BY <1>2, <1>3
<1>4. CASE /\ CanCreate(r) /\ ctr' = effect
           /\ pc' \in {[pc EXCEPT ![r] = "start"], [pc EXCEPT ![r] = "undoRename"]}
  <2>1. Named(ctr, LiveName(s)) = {}
    BY <1>4 DEF CanCreate, Live
  <2>2. /\ effect \in Engines(Containers, AllNames, AllTags)
        /\ UniqueNames(effect)
        /\ effect[r] = [state |-> "created", name |-> LiveName(s), tag |-> req[r].tag]
        /\ \A l \in Containers \ {r} : effect[l] = ctr[l]
    BY <1>1, <1>2, <2>1, CreateAdds
  <2> QED BY <1>4, <2>2 DEF Exists
<1> QED BY <1>3, <1>4 DEF CreateNew, Created, EngineCall, Perform

\* The new container gets the live name, if nobody holds it.
LEMMA CreateNewType == ASSUME TypeInv, NEW r \in Requests, CreateNew(r) PROVE TypeInv'
<1>1. PICK x \in {"start", "undoRename"} : pc' = [pc EXCEPT ![r] = x]
  BY CreateNewDoes
<1>2. /\ cancelled' \in [Requests -> BOOLEAN]
      /\ UNCHANGED <<images, history, audit, now, req>>
  BY DEF CreateNew, EngineCall, Perform, TypeInv, TypeOK, storeVars
<1>3. TypeOK'
  BY <1>1, <1>2, CreateNewDoes DEF TypeInv, TypeOK, Engines, Labels
<1>4. \A k \in Containers :
        Exists(ctr', k) => \/ k = r /\ ctr'[k].name[1] = req[r].svc
                           \/ Exists(ctr, k) /\ ctr'[k].name = ctr[k].name
  <2>1. LiveName(req[r].svc)[1] = req[r].svc
    BY LiveNameType DEF CreateNew, TypeInv, HandlerOK
  <2> QED BY <2>1, CreateNewDoes DEF Exists
<1>5. HandlerOK'
  BY <1>1, <1>2, <1>4, ServicesAssumption
  DEF CreateNew, TypeInv, TypeOK, HandlerOK, KnowsTag, KnowsOldName, BeforeCreate,
      Exists, Containers
<1>6. EngineOK'
  <2>1. LiveName(req[r].svc) \in Names
    BY LiveNameType DEF CreateNew, TypeInv, HandlerOK
  <2> QED BY <2>1, CreateNewDoes DEF EngineOK, TypeInv, Exists, UniqueNames
<1> QED BY <1>3, <1>5, <1>6 DEF TypeInv

\* The actions of the environment.
LEMMA CancelType == ASSUME TypeInv, NEW r \in Requests, Cancel(r) PROVE TypeInv'
BY DEF Cancel, TypeInv, TypeOK, HandlerOK, EngineOK, UniqueNames, Exists,
       engineVars, storeVars

\* The end of the process leaves the containers and the tables.
LEMMA ExitType == ASSUME TypeInv, Exit PROVE TypeInv'
<1>1. pc' \in [Requests -> Labels]
  BY DEF Exit, TypeInv, TypeOK, Labels, Terminal
<1>2. TypeOK' /\ EngineOK'
  BY <1>1 DEF Exit, TypeInv, TypeOK, EngineOK, UniqueNames, Exists, engineVars, storeVars
<1>3. HandlerOK'
  BY <1>1 DEF Exit, TypeInv, TypeOK, HandlerOK, Active, Exists, KnowsTag,
     KnowsOldName, BeforeCreate, engineVars
<1> QED BY <1>2, <1>3 DEF TypeInv

\* The clock changes nothing else.
LEMMA TickType == ASSUME TypeInv, Tick PROVE TypeInv'
<1>1. now' \in 1 .. MaxClock
  BY BoundsAssumption DEF Tick, TypeInv, TypeOK
<1>2. TypeOK'
  BY <1>1 DEF Tick, TypeInv, TypeOK, engineVars, storeVars
<1>3. HandlerOK' /\ EngineOK'
  BY DEF Tick, TypeInv, HandlerOK, EngineOK, UniqueNames, Exists, engineVars, storeVars
<1> QED BY <1>2, <1>3 DEF TypeInv

\* A stutter changes nothing.
LEMMA StutterType == ASSUME TypeInv, UNCHANGED vars PROVE TypeInv'
BY DEF vars, TypeInv, TypeOK, HandlerOK, EngineOK, UniqueNames, Exists

\* Every step of the system keeps the first part of the invariant.
LEMMA NextType == TypeInv /\ [Next]_vars => TypeInv'
<1> SUFFICES ASSUME TypeInv, [Next]_vars PROVE TypeInv'
  OBVIOUS
<1>1. CASE \E r \in Requests : Begin(r) \/ Handler(r) \/ Cancel(r)
  <2>1. PICK r \in Requests : Begin(r) \/ Handler(r) \/ Cancel(r)
    BY <1>1
  <2>2. CASE Begin(r) \/ Cancel(r)
    BY <2>2, BeginType, CancelType
  <2>3. CASE InspectService(r) \/ Pull(r)
    BY <2>3, QueryType, PullType
  <2>4. CASE Switch(r)
    BY <2>4, StopOldType, RenameOldType, CreateNewType, StartNewType, RemoveOldType
    DEF Switch
  <2>5. CASE Undo(r)
    BY <2>5, RemoveNewType, UndoRenameType, UndoStartType DEF Undo
  <2>6. CASE Store(r)
    BY <2>6, RecordUpdateType, MarkType, LogAuditType DEF Store
  <2>7. CASE InspectTag(r) \/ ListImages(r) \/ Restart(r)
    BY <2>7, QueryType, ListImagesType, RestartType
  <2> QED BY <2>1, <2>2, <2>3, <2>4, <2>5, <2>6, <2>7 DEF Handler
<1>2. CASE Exit \/ Tick
  BY <1>2, ExitType, TickType
<1>3. CASE Finished \/ UNCHANGED vars
  BY <1>3, StutterType DEF Finished
<1> QED BY <1>1, <1>2, <1>3 DEF Next

\* Every variable keeps its type: a row of update_history or audit_log always
\* names a service and tags that exist, whatever fails.
THEOREM TypeCorrect == Spec => []TypeOK
<1>1. Spec => []TypeInv
  BY InitTypeInv, NextType, PTL DEF Spec
<1>2. TypeInv => TypeOK
  BY DEF TypeInv
<1> QED BY <1>1, <1>2, PTL

-----------------------------------------------------------------------------
(***************************************************************************)
(* The count.  C and D are the containers of a service before and after a  *)
(* step, O and P the requests that may still remove one.                   *)
(***************************************************************************)
\* Nothing is removed and nobody owes more.
LEMMA CountKept ==
  ASSUME NEW C, NEW D, NEW O, NEW P, IsFiniteSet(D), IsFiniteSet(O),
         C \subseteq D, P \subseteq O,
         Cardinality(C) >= 1 + Cardinality(O)
  PROVE  Cardinality(D) >= 1 + Cardinality(P)
<1>1. /\ IsFiniteSet(C) /\ Cardinality(C) <= Cardinality(D)
      /\ IsFiniteSet(P) /\ Cardinality(P) <= Cardinality(O)
  BY FS_Subset
<1> QED BY <1>1, FS_CardinalityType

\* One container is added, and one request owes more.
LEMMA CountAdded ==
  ASSUME NEW C, NEW D, NEW O, NEW P, NEW r, IsFiniteSet(D), IsFiniteSet(O),
         C \cup {r} \subseteq D, r \notin C, P \subseteq O \cup {r},
         Cardinality(C) >= 1 + Cardinality(O)
  PROVE  Cardinality(D) >= 1 + Cardinality(P)
<1>1. IsFiniteSet(C) /\ IsFiniteSet(O \cup {r}) /\ IsFiniteSet(C \cup {r})
  BY FS_Subset, FS_AddElement
<1>2. /\ Cardinality(C \cup {r}) = Cardinality(C) + 1
      /\ Cardinality(O \cup {r}) <= Cardinality(O) + 1
  BY <1>1, FS_AddElement, FS_CardinalityType
<1>3. Cardinality(C \cup {r}) >= 1 + Cardinality(O \cup {r})
  BY <1>1, <1>2, FS_CardinalityType
<1> QED BY <1>1, <1>3, CountKept

\* One container at most is removed, and a request that owed no longer does.
LEMMA CountRemoved ==
  ASSUME NEW C, NEW D, NEW O, NEW P, NEW r, NEW k, IsFiniteSet(C), IsFiniteSet(D),
         IsFiniteSet(O), C \ {k} \subseteq D, r \in O, P \subseteq O \ {r},
         Cardinality(C) >= 1 + Cardinality(O)
  PROVE  Cardinality(D) >= 1 + Cardinality(P)
<1>1. IsFiniteSet(C \ {k}) /\ IsFiniteSet(O \ {r})
  BY FS_RemoveElement
<1>2. /\ Cardinality(C) \in Nat
      /\ Cardinality(C \ {k}) =
           IF k \in C THEN Cardinality(C) - 1 ELSE Cardinality(C)
      /\ Cardinality(O \ {r}) = Cardinality(O) - 1
  BY FS_RemoveElement, FS_CardinalityType
<1>3. Cardinality(C \ {k}) >= 1 + Cardinality(O \ {r})
  BY <1>1, <1>2, FS_CardinalityType
<1> QED BY <1>1, <1>3, CountKept

\* What is counted is finite.
LEMMA FiniteSets ==
  ASSUME NEW s
  PROVE  /\ IsFiniteSet(ContainersOf(s)) /\ IsFiniteSet(ContainersOf(s)')
         /\ IsFiniteSet(Owed(s)) /\ IsFiniteSet(Owed(s)')
<1>1. IsFiniteSet(Containers) /\ IsFiniteSet(Requests)
  BY ServicesAssumption, FS_Union DEF Containers
<1> QED BY <1>1, FS_Subset DEF ContainersOf, Owed

\* No container goes, and only requests that owed still do.
LEMMA KeptCovers ==
  ASSUME TypeInv, Covered, KeepsContainers,
         \A r \in Requests : Owes(r)' => Owes(r) /\ req'[r].svc = req[r].svc
  PROVE  Covered'
<1> SUFFICES ASSUME NEW s \in Services
             PROVE  Cardinality(ContainersOf(s)') >= 1 + Cardinality(Owed(s)')
  BY DEF Covered
<1>1. ContainersOf(s) \subseteq ContainersOf(s)'
  BY DEF ContainersOf, KeepsContainers, Exists
<1>2. Owed(s)' \subseteq Owed(s)
  BY DEF Owed
<1> QED BY <1>1, <1>2, FiniteSets, CountKept DEF Covered

\* A removal by a request that owed one and owes no more.
LEMMA RemovedCovers ==
  ASSUME TypeInv, Covered, NEW r \in Requests, Owes(r), NEW S,
         \A k, l \in S \cap Containers : k = l,
         \A k \in S \cap Containers : Exists(ctr, k) => ctr[k].name[1] = req[r].svc,
         ctr' \in {ctr, RemoveContainer(ctr, S)}, ~ Owes(r)',
         \A q \in Requests \ {r} : Owes(q)' => Owes(q),
         req' = req
  PROVE  Covered'
<1> SUFFICES ASSUME NEW s \in Services
             PROVE  Cardinality(ContainersOf(s)') >= 1 + Cardinality(Owed(s)')
  BY DEF Covered
<1>1. Cardinality(ContainersOf(s)) >= 1 + Cardinality(Owed(s))
  BY DEF Covered
<1>2. \A k \in Containers \ S : Exists(ctr, k) =>
        Exists(ctr', k) /\ ctr'[k].name = ctr[k].name
  <2>1. CASE ctr' = ctr
    BY <2>1
  <2>2. CASE ctr' = RemoveContainer(ctr, S)
    BY <2>2, CtrType, RemoveTakes DEF TypeInv, EngineOK
  <2> QED BY <2>1, <2>2
<1>3. CASE req[r].svc = s
  <2>1. r \in Owed(s) /\ Owed(s)' \subseteq Owed(s) \ {r}
    BY <1>3 DEF Owed
  <2>2. PICK k : S \cap Containers \subseteq {k}
    OBVIOUS
  <2>3. ContainersOf(s) \ {k} \subseteq ContainersOf(s)'
    BY <1>2, <2>2 DEF ContainersOf, Exists
  <2> QED BY <1>1, <2>1, <2>3, FiniteSets, CountRemoved
<1>4. CASE req[r].svc # s
  <2>1. Owed(s)' \subseteq Owed(s)
    BY <1>4 DEF Owed
  <2>2. ContainersOf(s) \subseteq ContainersOf(s)'
    BY <1>2, <1>4 DEF ContainersOf, Exists
  <2> QED BY <1>1, <2>1, <2>2, FiniteSets, CountKept
<1> QED BY <1>3, <1>4

\* A request removes its own container only once.
LEMMA RemoveNewCovers ==
  ASSUME TypeInv, Covered, NEW r \in Requests, RemoveNew(r)
  PROVE  Covered'
<1>1. /\ ctr' \in {ctr, RemoveContainer(ctr, {r})}
      /\ pc' = [pc EXCEPT ![r] = "undoRename"] /\ req' = req
  BY DEF RemoveNew, EngineCall, EngineCallIgnored, Perform
<1>2. Exists(ctr, r) => ctr[r].name[1] = req[r].svc
  BY DEF TypeInv, HandlerOK
<1> QED BY <1>1, <1>2, RemovedCovers DEF RemoveNew, Owes, TypeInv, TypeOK

\* A request removes one old container, of its own service.
LEMMA RemoveOldCovers ==
  ASSUME TypeInv, Covered, NEW r \in Requests, RemoveOld(r)
  PROVE  Covered'
<1> DEFINE S == Named(ctr, req[r].oldName)
<1>1. PICK x \in {"markSuccess", "audit"} :
        /\ ctr' \in {ctr, RemoveContainer(ctr, S)}
        /\ pc' = [pc EXCEPT ![r] = x] /\ req' = req
  BY DEF RemoveOld, Obsolete, EngineCall, EngineCallIgnored, Perform
<1>2. \A k, l \in S \cap Containers : k = l
  BY NamedAtMostOne DEF TypeInv, EngineOK
<1>3. \A k \in S \cap Containers : ctr[k].name[1] = req[r].svc
  BY OldNameType DEF RemoveOld, KnowsOldName, Named
<1>4. Owes(r) /\ ~ Owes(r)' /\ \A q \in Requests \ {r} : Owes(q)' => Owes(q)
  BY <1>1 DEF RemoveOld, Owes, TypeInv, TypeOK
<1> HIDE DEF S
<1> QED BY <1>1, <1>2, <1>3, <1>4, RemovedCovers

\* A request owes a removal only when it has made a container.
LEMMA CreateNewCovers ==
  ASSUME TypeInv, Covered, NEW r \in Requests, CreateNew(r)
  PROVE  Covered'
<1>1. req' = req /\ r \in Containers /\ ~ Exists(ctr, r) /\ req[r].svc \in Services
  BY DEF CreateNew, TypeInv, HandlerOK, BeforeCreate, Containers
<1>2. CASE ctr' = ctr /\ pc' = [pc EXCEPT ![r] = "undoRename"]
  BY <1>1, <1>2, NoEngineStep, KeptCovers DEF Owes, TypeInv, TypeOK
<1>3. CASE /\ pc' \in {[pc EXCEPT ![r] = "start"], [pc EXCEPT ![r] = "undoRename"]}
           /\ ctr'[r].name = LiveName(req[r].svc) /\ Exists(ctr', r)
           /\ \A k \in Containers \ {r} : ctr'[k] = ctr[k]
  <2> SUFFICES ASSUME NEW s \in Services
               PROVE  Cardinality(ContainersOf(s)') >= 1 + Cardinality(Owed(s)')
    BY DEF Covered
  <2>1. \A k \in Containers : Exists(ctr, k) => Exists(ctr', k) /\ ctr'[k] = ctr[k]
    BY <1>1, <1>3 DEF Exists
  <2>2. ContainersOf(s) \subseteq ContainersOf(s)' /\ r \notin ContainersOf(s)
    BY <1>1, <2>1 DEF ContainersOf, Exists
  <2>3. \A q \in Requests \ {r} : pc'[q] = pc[q]
    BY <1>3 DEF TypeInv, TypeOK
  <2>4. CASE req[r].svc = s
    <3>1. r \in ContainersOf(s)'
      BY <1>1, <1>3, <2>4, LiveNameType DEF ContainersOf, Exists
    <3>2. Owed(s)' \subseteq Owed(s) \cup {r}
      BY <1>1, <2>3 DEF Owed, Owes
    <3> QED BY <2>2, <3>1, <3>2, FiniteSets, CountAdded DEF Covered
  <2>5. CASE req[r].svc # s
    <3>1. Owed(s)' \subseteq Owed(s)
      BY <1>1, <2>3, <2>5 DEF Owed, Owes
    <3> QED BY <2>2, <3>1, FiniteSets, CountKept DEF Covered
  <2> QED BY <2>4, <2>5
<1> QED BY <1>2, <1>3, CreateNewDoes

\* A step that leaves the containers alone.
LEMMA QuietCovers ==
  ASSUME TypeInv, Covered, ctr' = ctr,
         \A r \in Requests : Owes(r)' => Owes(r) /\ req'[r].svc = req[r].svc
  PROVE  Covered'
BY NoEngineStep, KeptCovers

\* Every step keeps the count.
LEMMA NextCovers == TypeInv /\ Covered /\ [Next]_vars => Covered'
<1> SUFFICES ASSUME TypeInv, Covered, [Next]_vars PROVE Covered'
  OBVIOUS
<1> USE DEF TypeInv, TypeOK, Owes, engineVars, storeVars,
            EngineCall, EngineCallIgnored, Perform
<1>1. ASSUME NEW r \in Requests, Begin(r) \/ Cancel(r) PROVE Covered'
  <2>1. \A k \in Kinds : FirstLabel[k] \notin {"start", "removeNew", "removeOld"}
    BY FirstLabelType
  <2> QED BY <1>1, <2>1, QuietCovers DEF Begin, Cancel
<1>2. ASSUME NEW r \in Requests, InspectService(r) \/ Inspect(r) PROVE Covered'
  BY <1>2, QuietCovers DEF InspectService, Inspect, OnFailure
<1>3. ASSUME NEW r \in Requests, ImagePull(r) \/ CopyPullStream(r) PROVE Covered'
  BY <1>3, QuietCovers DEF ImagePull, CopyPullStream, OnFailure
<1>4. ASSUME NEW r \in Requests, Store(r) PROVE Covered'
  BY <1>4, QuietCovers DEF Store, RecordUpdate, MarkFailed, MarkSuccess, LogAudit
<1>5. ASSUME NEW r \in Requests, InspectTag(r) \/ ListImages(r) PROVE Covered'
  BY <1>5, QuietCovers DEF InspectTag, ListImages
<1>6. ASSUME NEW r \in Requests, StopOld(r) PROVE Covered'
  BY <1>6, StopOldType, KeptCovers DEF StopOld
<1>7. ASSUME NEW r \in Requests, RenameOld(r) PROVE Covered'
  BY <1>7, RenameOldType, KeptCovers DEF RenameOld
<1>8. ASSUME NEW r \in Requests, StartNew(r) PROVE Covered'
  BY <1>8, StartNewType, KeptCovers DEF StartNew
<1>9. ASSUME NEW r \in Requests, UndoRename(r) PROVE Covered'
  BY <1>9, UndoRenameType, KeptCovers DEF UndoRename
<1>10. ASSUME NEW r \in Requests, UndoStart(r) PROVE Covered'
  BY <1>10, UndoStartType, KeptCovers DEF UndoStart, OnFailure
<1>11. ASSUME NEW r \in Requests, Restart(r) PROVE Covered'
  BY <1>11, RestartType, KeptCovers DEF Restart
<1>12. ASSUME NEW r \in Requests, CreateNew(r) \/ RemoveNew(r) \/ RemoveOld(r)
       PROVE  Covered'
  BY <1>12, CreateNewCovers, RemoveNewCovers, RemoveOldCovers
<1>13. CASE Exit \/ Tick \/ Finished \/ UNCHANGED vars
  BY <1>13, QuietCovers DEF Exit, Active, Tick, Finished, vars
<1> QED
  BY <1>1, <1>2, <1>3, <1>4, <1>5, <1>6, <1>7, <1>8, <1>9, <1>10, <1>11, <1>12, <1>13
  DEF Next, Handler, Pull, Switch, Undo

\* Each service has its container, and nobody owes anything.
LEMMA InitCovers == Init => Covered
<1> SUFFICES ASSUME Init, NEW s \in Services
             PROVE  Cardinality(ContainersOf(s)) >= 1 + Cardinality(Owed(s))
  BY DEF Covered
<1>1. {s} \subseteq ContainersOf(s)
  BY DEF Init, ContainersOf, Containers, Exists, LiveName
<1>2. Owed(s) = {}
  BY DEF Init, Owed, Owes
<1>3. Cardinality({s}) = 1 /\ IsFiniteSet({s}) /\ Cardinality({}) = 0
  BY FS_Singleton, FS_EmptySet
<1>4. Cardinality(ContainersOf(s)) >= 1
  BY <1>1, <1>3, FiniteSets, FS_Subset
<1> QED BY <1>2, <1>3, <1>4, FiniteSets, FS_CardinalityType

\* No service is ever left without a container: an update, rollback or restart
\* removes one only after it has created another, so that however many requests
\* interleave, whatever the engine refuses, whoever goes away and whenever the
\* process ends, there is a container left to start.
THEOREM NeverLostAlways == Spec => []NeverLost
<1>1. Init => IInv
  BY InitTypeInv, InitCovers DEF IInv
<1>2. IInv /\ [Next]_vars => IInv'
  BY NextType, NextCovers DEF IInv
<1>3. IInv => NeverLost
  <2> SUFFICES ASSUME IInv, NEW s \in Services PROVE ContainersOf(s) # {}
    BY DEF NeverLost
  <2>1. Cardinality(ContainersOf(s)) >= 1 + Cardinality(Owed(s))
    BY DEF IInv, Covered
  <2>2. Cardinality(ContainersOf(s)) # 0
    BY <2>1, FiniteSets, FS_CardinalityType
  <2> QED BY <2>2, FS_EmptySet
<1> QED BY <1>1, <1>2, <1>3, PTL DEF Spec
=============================================================================
