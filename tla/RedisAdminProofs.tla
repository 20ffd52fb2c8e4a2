--------------------------- MODULE RedisAdminProofs ---------------------------
(***************************************************************************)
(* Proofs that RedisAdmin keeps its types, that a remove request removes   *)
(* one action at a time, of the GUID it was asked to remove, and that the    *)
(* audit trail tells the truth about the queue and the exchange values: of *)
(* overlapping requests with GUIDs of their own, and of requests made one  *)
(* after the other, when replaying it gives the state.                     *)
(*                                                                         *)
(* The second rests on what a handler knows between LRANGE and LREM: the   *)
(* action it found in its snapshot has the GUID of its request, whatever   *)
(* the list has become. For the trail the invariants relate what a handler *)
(* is about to write there to what it has changed.                         *)
(***************************************************************************)
EXTENDS RedisAdminProperties, SequenceLemmas, FiniteSetTheorems

\* What a handler's local variables hold where they are used.
HandlerOK ==
  \A r \in Requests :
    /\ pc[r] # "idle" => req[r].kind \in Kinds
    /\ pc[r] = "rpush" => req[r].action \in Actions
    /\ pc[r] = "lrem" => /\ req[r].action \in Actions
                         /\ req[r].action.guid = req[r].guid
    /\ pc[r] \in {"hget", "hset"} => /\ req[r].field \in Fields
                                     /\ req[r].value \in Values \cup {Absent}

IInv == TypeOK /\ HandlerOK

USE DEF At, Goto

\* The locals of a new request have their types.
LEMMA NewRequestType ==
  ASSUME NEW k \in Kinds, NEW a \in Actions \cup {NoAction}, NEW g \in Guids \cup {Absent},
         NEW f \in Fields \cup {Absent}, NEW v \in Values \cup {Absent}
  PROVE  NewRequest(k, a, g, f, v) \in Locals
BY FlagsAssumption DEF NewRequest, Locals

\* FirstWithGuid finds an action with the GUID, or none.
LEMMA FirstWithGuidFinds ==
  ASSUME NEW q \in Seq(Actions), NEW g, FirstWithGuid(q, g) # 0
  PROVE  /\ FirstWithGuid(q, g) \in DOMAIN q
         /\ q[FirstWithGuid(q, g)] \in Actions
         /\ q[FirstWithGuid(q, g)].guid = g
<1>. DEFINE I == {i \in 1 .. Len(q) : q[i].guid = g}
<1>1. FirstWithGuid(q, g) = IF I # {} THEN Min(I) ELSE 0
  BY DEF FirstWithGuid, SelectInSeq
<1>2. I \in SUBSET Nat
  OBVIOUS
<1>3. FirstWithGuid(q, g) \in I
  <2>. HIDE DEF I
  <2>. QED BY <1>1, <1>2, SmallestMember
<1>. QED
  BY <1>3, ElementOfSeq, LenProperties

\* LREM keeps a list of actions, and removes at most one element, equal to the
\* one it is given.
LEMMA LRemRemovesOne ==
  ASSUME queue \in Seq(Actions), NEW r
  PROVE  /\ LRem(queue, r) \in Seq(Actions)
         /\ \/ LRem(queue, r) = queue
            \/ \E i \in DOMAIN queue : /\ queue[i] = req[r].action
                                       /\ LRem(queue, r) = RemoveAt(queue, i)
BY RemoveFirstRemovesOne, RemoveAtType DEF LRem

\* The initial states satisfy IInv.
LEMMA InitIInv == Init => IInv
BY FlagsAssumption DEF Init, IInv, TypeOK, HandlerOK, NewRequest, Locals, NoAction, Labels, Terminal

-----------------------------------------------------------------------------
\* Each action keeps IInv.  A new request has locals of the right types.
LEMMA BeginKeepsIInv ==
  ASSUME IInv, NEW r \in Requests, Begin(r)
  PROVE  IInv'
<1>1. PICK k \in Kinds, a \in Actions \cup {NoAction}, g \in Guids \cup {Absent},
           f \in Fields \cup {Absent}, v \in Values \cup {Absent} :
        /\ req' = [req EXCEPT ![r] = NewRequest(k, a, g, f, v)]
        /\ pc' = [pc EXCEPT ![r] = FirstLabel[k]]
        /\ k \in {"push", "remove", "purge", "set"}
        /\ k = "push" => a \in Actions
        /\ k = "set" => f \in Fields
  <2>. PICK k \in Kinds :
         /\ pc' = [pc EXCEPT ![r] = FirstLabel[k]]
         /\ \/ k = "push" /\ \E a \in Actions :
                 req' = [req EXCEPT ![r] = NewRequest(k, a, a.guid, Absent, Absent)]
            \/ k = "remove" /\ \E g \in Guids :
                 req' = [req EXCEPT ![r] = NewRequest(k, NoAction, g, Absent, Absent)]
            \/ /\ k = "purge"
               /\ req' = [req EXCEPT ![r] = NewRequest(k, NoAction, Absent, Absent, Absent)]
            \/ k = "set" /\ \E f \in Fields, v \in Values \cup {Absent} :
                 req' = [req EXCEPT ![r] = NewRequest(k, NoAction, Absent, f, v)]
    BY DEF Begin
  <2>1. CASE k = "push"
    <3>1. PICK a \in Actions :
            req' = [req EXCEPT ![r] = NewRequest(k, a, a.guid, Absent, Absent)]
      BY <2>1
    <3>2. a.guid \in Guids \cup {Absent}
      BY DEF Actions
    <3>. QED
      BY <2>1, <3>1, <3>2
  <2>2. CASE k = "remove"
    BY <2>2
  <2>3. CASE k = "purge"
    BY <2>3
  <2>4. CASE k = "set"
    BY <2>4
  <2>. QED
    BY <2>1, <2>2, <2>3, <2>4
<1>2. NewRequest(k, a, g, f, v) \in Locals
  BY NewRequestType
<1>3. FirstLabel[k] \in Labels
  BY <1>1 DEF FirstLabel, Labels
<1>4. TypeOK'
  BY <1>1, <1>2, <1>3 DEF Begin, IInv, TypeOK
<1>5. HandlerOK'
  BY <1>1 DEF IInv, TypeOK, HandlerOK, NewRequest, FirstLabel
<1>. QED
  BY <1>4, <1>5 DEF IInv

\* What is pushed has been read from the request; what LREM and DEL leave was there.
LEMMA QueueActionsKeepIInv ==
  ASSUME IInv, NEW r \in Requests,
         PushAction(r) \/ RemoveAction(r) \/ PurgeActions(r)
  PROVE  IInv'
<1>1. PICK label \in {"audit", "error"} :
        /\ pc' = [pc EXCEPT ![r] = label]
        /\ pc[r] \in {"rpush", "lrem", "del"}
        /\ UNCHANGED <<exchange, audit, req>>
  BY DEF PushAction, RemoveAction, PurgeActions
<1>2. queue' \in Seq(Actions)
  <2>1. CASE PushAction(r)
    <3>1. req[r].action \in Actions
      BY <2>1 DEF PushAction, IInv, HandlerOK
    <3>. QED
      BY <2>1, <3>1, AppendProperties DEF PushAction, IInv, TypeOK
  <2>2. CASE RemoveAction(r)
    BY <2>2, LRemRemovesOne DEF RemoveAction, IInv, TypeOK
  <2>3. CASE PurgeActions(r)
    BY <2>3 DEF PurgeActions, IInv, TypeOK
  <2>. QED
    BY <2>1, <2>2, <2>3
<1>3. TypeOK'
  BY <1>1, <1>2 DEF IInv, TypeOK, Labels, Terminal
<1>4. HandlerOK'
  BY <1>1 DEF IInv, TypeOK, HandlerOK
<1>. QED
  BY <1>3, <1>4 DEF IInv

\* What the snapshot held is an action, with the GUID of the request.
LEMMA FindActionKeepsIInv ==
  ASSUME IInv, NEW r \in Requests, FindAction(r)
  PROVE  IInv'
<1>. DEFINE i == FirstWithGuid(queue, req[r].guid)
<1>1. CASE /\ i # 0
           /\ req' = [req EXCEPT ![r].action = queue[i]]
           /\ pc' = [pc EXCEPT ![r] = "lrem"]
  <2>1. queue[i] \in Actions /\ queue[i].guid = req[r].guid
    BY <1>1, FirstWithGuidFinds DEF IInv, TypeOK
  <2>. HIDE DEF i
  <2>2. req' \in [Requests -> Locals]
    <3>1. [req[r] EXCEPT !.action = queue[i]] \in Locals
      BY <2>1 DEF IInv, TypeOK, Locals
    <3>. QED
      BY <1>1, <3>1 DEF IInv, TypeOK
  <2>3. TypeOK'
    BY <1>1, <2>2 DEF FindAction, IInv, TypeOK, Labels
  <2>4. HandlerOK'
    BY <1>1, <2>1 DEF FindAction, IInv, TypeOK, HandlerOK, Locals
  <2>. QED
    BY <2>3, <2>4 DEF IInv
<1>2. CASE pc' = [pc EXCEPT ![r] = "error"] /\ UNCHANGED req
  <2>1. TypeOK'
    BY <1>2 DEF FindAction, IInv, TypeOK, Labels, Terminal
  <2>2. HandlerOK'
    BY <1>2 DEF FindAction, IInv, TypeOK, HandlerOK
  <2>. QED
    BY <2>1, <2>2 DEF IInv
<1>. QED
  BY <1>1, <1>2 DEF FindAction

\* LLEN gives a number, HGET a value or none.
LEMMA ReadsKeepIInv ==
  ASSUME IInv, NEW r \in Requests, CountActions(r) \/ ReadOldValue(r)
  PROVE  IInv'
<1>1. CASE CountActions(r)
  <2>1. PICK n \in Nat : req' = [req EXCEPT ![r].count = n]
    BY <1>1, LenProperties DEF CountActions, IInv, TypeOK
  <2>2. req' \in [Requests -> Locals]
    <3>1. [req[r] EXCEPT !.count = n] \in Locals
      BY DEF IInv, TypeOK, Locals
    <3>. QED
      BY <2>1, <3>1 DEF IInv, TypeOK
  <2>3. TypeOK'
    BY <1>1, <2>2 DEF CountActions, IInv, TypeOK, Labels
  <2>4. HandlerOK'
    BY <1>1, <2>1 DEF CountActions, IInv, TypeOK, HandlerOK, Locals
  <2>. QED
    BY <2>3, <2>4 DEF IInv
<1>2. CASE ReadOldValue(r)
  <2>1. PICK v \in Values \cup {Absent} : req' = [req EXCEPT ![r].old = v]
    BY <1>2 DEF ReadOldValue, IInv, TypeOK, HandlerOK
  <2>2. req' \in [Requests -> Locals]
    <3>1. [req[r] EXCEPT !.old = v] \in Locals
      BY DEF IInv, TypeOK, Locals
    <3>. QED
      BY <2>1, <3>1 DEF IInv, TypeOK
  <2>3. TypeOK'
    BY <1>2, <2>2 DEF ReadOldValue, IInv, TypeOK, Labels
  <2>4. HandlerOK'
    BY <1>2, <2>1 DEF ReadOldValue, IInv, TypeOK, HandlerOK, Locals
  <2>. QED
    BY <2>3, <2>4 DEF IInv
<1>. QED
  BY <1>1, <1>2

\* What is set has been read from the request.
LEMMA SetExchangeValueKeepsIInv ==
  ASSUME IInv, NEW r \in Requests, SetExchangeValue(r)
  PROVE  IInv'
<1>1. PICK label \in {"audit", "error"} : pc' = [pc EXCEPT ![r] = label]
  BY DEF SetExchangeValue
<1>2. req[r].value \in Values \cup {Absent}
  BY DEF SetExchangeValue, IInv, HandlerOK
<1>3. exchange' \in [Fields -> Values \cup {Absent}]
  BY <1>2 DEF SetExchangeValue, IInv, TypeOK
<1>4. TypeOK'
  BY <1>1, <1>3 DEF SetExchangeValue, IInv, TypeOK, Labels, Terminal
<1>5. HandlerOK'
  BY <1>1 DEF SetExchangeValue, IInv, TypeOK, HandlerOK
<1>. QED
  BY <1>4, <1>5 DEF IInv

\* The audit row is made of the handler's locals.
LEMMA LogAuditKeepsIInv ==
  ASSUME IInv, NEW r \in Requests, LogAudit(r)
  PROVE  IInv'
<1>1. AuditRow(r) \in AuditRows
  BY DEF LogAudit, IInv, TypeOK, HandlerOK, Locals, AuditRow, AuditRows
<1>2. audit' \in Seq(AuditRows)
  <2>1. Append(audit, AuditRow(r)) \in Seq(AuditRows)
    BY <1>1, AppendProperties DEF IInv, TypeOK
  <2>. QED
    BY <2>1 DEF LogAudit, IInv, TypeOK
<1>3. TypeOK'
  BY <1>2 DEF LogAudit, IInv, TypeOK, Labels, Terminal
<1>4. HandlerOK'
  BY DEF LogAudit, IInv, TypeOK, HandlerOK
<1>. QED
  BY <1>3, <1>4 DEF IInv

\* A command that the client sends again changes what the command changes, and
\* counts.
LEMMA SendAgainDoes ==
  ASSUME IInv, NEW r \in Requests, SendAgain(r)
  PROVE  /\ "redis" \in Faults /\ UNCHANGED <<audit, pc>>
         /\ req' = [req EXCEPT ![r].resent = @ + 1]
         /\ \A q \in Requests : \A x \in {"kind", "action", "guid", "field", "value", "old", "count"} :
              req'[q][x] = req[q][x]
BY DEF SendAgain, IInv, TypeOK, Locals

\* It needs a reply that is lost.
LEMMA NoSendAgain ==
  ASSUME "redis" \notin Faults
  PROVE  \A r : ~ SendAgain(r)
BY DEF SendAgain

LEMMA SendAgainKeepsIInv ==
  ASSUME IInv, NEW r \in Requests, SendAgain(r)
  PROVE  IInv'
<1>1. queue' \in Seq(Actions)
  <2>1. pc[r] = "rpush" => Append(queue, req[r].action) \in Seq(Actions)
    BY AppendProperties DEF IInv, TypeOK, HandlerOK
  <2>2. LRem(queue, r) \in Seq(Actions)
    BY LRemRemovesOne DEF IInv, TypeOK
  <2>. QED
    BY <2>1, <2>2, EmptySeq DEF SendAgain, IInv, TypeOK
<1>2. exchange' \in [Fields -> Values \cup {Absent}]
  BY DEF SendAgain, IInv, TypeOK, HandlerOK
<1>3. req' \in [Requests -> Locals]
  <2>1. req[r].resent + 1 \in 0 .. MaxRetries
    BY FlagsAssumption DEF SendAgain, IInv, TypeOK, Locals
  <2>2. [req[r] EXCEPT !.resent = @ + 1] \in Locals
    BY <2>1 DEF IInv, TypeOK, Locals
  <2>. QED
    BY <2>2, SendAgainDoes DEF IInv, TypeOK
<1>4. HandlerOK'
  BY SendAgainDoes DEF IInv, HandlerOK
<1>. QED
  BY <1>1, <1>2, <1>3, <1>4, SendAgainDoes DEF IInv, TypeOK

\* The gateway, the end of the process and stuttering.
LEMMA OthersKeepIInv ==
  ASSUME IInv, GatewayTakes \/ GatewayWrites \/ Exit \/ UNCHANGED vars
  PROVE  IInv'
<1>1. CASE GatewayTakes
  <2>1. queue' \in Seq(Actions)
    BY <1>1, HeadTailProperties DEF GatewayTakes, IInv, TypeOK
  <2>. QED
    BY <1>1, <2>1 DEF GatewayTakes, IInv, TypeOK, HandlerOK
<1>2. CASE GatewayWrites
  <2>1. exchange' \in [Fields -> Values \cup {Absent}]
    BY <1>2, ValuesAssumption DEF GatewayWrites, IInv, TypeOK
  <2>. QED
    BY <1>2, <2>1 DEF GatewayWrites, IInv, TypeOK, HandlerOK
<1>3. CASE Exit
  <2>1. \A r \in Requests : pc'[r] \in {pc[r], "lost"} /\ (pc'[r] = "lost" => pc[r] # "idle")
    BY <1>3 DEF Exit, Active, IInv, TypeOK
  <2>2. TypeOK'
    BY <1>3, <2>1 DEF Exit, IInv, TypeOK, Labels, Terminal
  <2>3. HandlerOK'
    BY <1>3, <2>1 DEF Exit, IInv, TypeOK, HandlerOK
  <2>. QED
    BY <2>2, <2>3 DEF IInv
<1>4. CASE UNCHANGED vars
  BY <1>4 DEF vars, IInv, TypeOK, HandlerOK
<1>. QED
  BY <1>1, <1>2, <1>3, <1>4

\* IInv is inductive.
LEMMA NextKeepsIInv == IInv /\ [Next]_vars => IInv'
BY BeginKeepsIInv, QueueActionsKeepIInv, FindActionKeepsIInv, ReadsKeepIInv,
   SetExchangeValueKeepsIInv, LogAuditKeepsIInv, SendAgainKeepsIInv, OthersKeepIInv
   DEF Next, Handler, Finished

\* IInv holds in every reachable state.
LEMMA IInvAlways == Spec => []IInv
<1>1. Init => IInv
  BY InitIInv
<1>2. IInv /\ [Next]_vars => IInv'
  BY NextKeepsIInv
<1>. QED
  BY <1>1, <1>2, PTL DEF Spec

-----------------------------------------------------------------------------
\* The variables keep their types: in particular what a handler pushes, sets or
\* audits was read from its request, not left over from another path.
THEOREM TypeCorrect == Spec => []TypeOK
<1>1. IInv => TypeOK
  BY DEF IInv
<1>. QED
  BY <1>1, IInvAlways, PTL

\* An LREM of request r reaches Redis.
Removing(r) ==
  pc[r] = "lrem" /\ (pc'[r] = "audit" \/ req'[r].resent # req[r].resent)

\* That is a step of RemoveAction(r), or of the client that tries again.
LEMMA OnlyLremRemoves ==
  ASSUME IInv, [Next]_vars, NEW r \in Requests, Removing(r)
  PROVE  RemoveAction(r) \/ SendAgain(r)
<1>1. ASSUME NEW q \in Requests, Begin(q) \/ Handler(q) \/ SendAgain(q)
      PROVE  q = r
  <2>1. CASE SendAgain(q)
    BY <2>1, SendAgainDoes DEF Removing, IInv, TypeOK
  <2>2. CASE Begin(q) \/ Handler(q)
    <3>1. \E label : pc' = [pc EXCEPT ![q] = label]
      BY <2>2 DEF Begin, Handler, PushAction, FindAction, RemoveAction, CountActions,
                  PurgeActions, ReadOldValue, SetExchangeValue, LogAudit
    <3>2. req' = req \/ \E v : req' = [req EXCEPT ![q] = v]
      <4>1. Begin(q) => \E v : req' = [req EXCEPT ![q] = v]
        BY DEF Begin
      <4>2. Handler(q) => req' = req \/ \E v : req' = [req EXCEPT ![q] = v]
        BY DEF Handler, PushAction, FindAction, RemoveAction, CountActions,
               PurgeActions, ReadOldValue, SetExchangeValue, LogAudit
      <4>. QED
        BY <2>2, <4>1, <4>2
    <3>. QED
      BY <3>1, <3>2 DEF Removing, IInv, TypeOK
  <2>. QED
    BY <1>1, <2>1, <2>2
<1>2. CASE Begin(r) \/ Handler(r)
  BY <1>2 DEF Removing, Begin, Handler, PushAction, FindAction, CountActions,
              PurgeActions, ReadOldValue, SetExchangeValue, LogAudit
<1>3. ~ (GatewayTakes \/ GatewayWrites \/ Exit \/ Finished \/ UNCHANGED vars)
  BY DEF Removing, GatewayTakes, GatewayWrites, Exit, Finished, vars, IInv, TypeOK
<1>. QED
  BY <1>1, <1>2, <1>3 DEF Next

\* However the snapshot of LRANGE has aged, whatever fails, and however often the
\* client sends its LREM: each time that it reaches Redis it takes at most one
\* action off the queue, one with the GUID the request was asked to remove.
THEOREM RemovesOnlyItsActionAlways == Spec => RemovesOnlyItsAction
<1>1. ASSUME IInv, [Next]_vars, NEW r \in Requests, Removing(r)
      PROVE  \/ queue' = queue
             \/ \E i \in DOMAIN queue : /\ queue[i].guid = req[r].guid
                                        /\ queue' = RemoveAt(queue, i)
  <2>1. RemoveAction(r) \/ SendAgain(r)
    BY <1>1, OnlyLremRemoves
  <2>2. pc[r] = "lrem" /\ req[r].action.guid = req[r].guid
    BY <1>1 DEF IInv, HandlerOK, Removing
  <2>3. queue' = queue \/ queue' = LRem(queue, r)
    BY <2>1, <2>2 DEF RemoveAction, SendAgain
  <2>4. \/ LRem(queue, r) = queue
        \/ \E i \in DOMAIN queue : /\ queue[i] = req[r].action
                                   /\ LRem(queue, r) = RemoveAt(queue, i)
    BY <1>1, LRemRemovesOne DEF IInv, TypeOK
  <2>. QED
    BY <2>2, <2>3, <2>4
<1>. DEFINE Step == \A r \in Requests :
                      Removing(r) =>
                        \/ queue' = queue
                        \/ \E i \in DOMAIN queue : /\ queue[i].guid = req[r].guid
                                                   /\ queue' = RemoveAt(queue, i)
<1>2. IInv /\ [Next]_vars => [Step]_vars
  BY <1>1
<1>. QED
  BY <1>2, IInvAlways, PTL DEF Spec, RemovesOnlyItsAction, Removing
-----------------------------------------------------------------------------
(***************************************************************************)
(* The audit trail of the queue, when every push brings a GUID of its own, *)
(* nobody purges the queue, no gateway takes from it and Redis answers.    *)
(*                                                                         *)
(* Between LRANGE and LREM, and between LREM and its audit row, a remove   *)
(* request is overtaken by others.  What it found still belongs to the one *)
(* request that pushed it, so that nothing of its GUID can come back; and  *)
(* what a handler is about to write to the trail is as true as what the    *)
(* trail already says (Claimed).                                           *)
(***************************************************************************)
UndisturbedQueue ==
  FreshGuids /\ ~ GatewayTakesActions /\ "purge" \notin Kinds /\ "redis" \notin Faults

LabelsOK ==
  \A r \in Requests :
    /\ pc[r] = "idle" => req[r].kind = "none"
    /\ pc[r] = "rpush" => req[r].kind = "push"
    /\ pc[r] \in {"lrange", "lrem"} => req[r].kind = "remove"
    /\ pc[r] \in {"llen", "del"} => req[r].kind = "purge"
    /\ pc[r] \in {"hget", "hset"} => req[r].kind = "set"
    /\ req[r].kind = "push" => req[r].action \in Actions /\ req[r].action.guid = req[r].guid

\* GUIDs of their own.
FreshOK ==
  \A q, r \in Requests :
    req[q].kind = "push" /\ req[r].kind = "push" /\ req[q].guid = req[r].guid => q = r

\* q has pushed the action a, or will never push anything.
Pushed(q, a) == req[q].kind = "push" /\ req[q].action = a /\ pc[q] # "rpush"

QueueOK ==
  /\ Distinct(queue)
  /\ \A a \in ToSet(queue) : \E q \in Requests : Pushed(q, a)

RemoveOK ==
  \A r \in Requests :
    pc[r] = "lrem" => \E q \in Requests : Pushed(q, req[r].action)

\* What the trail says was pushed or removed, or is about to say.
Claimed(k) ==
  Audited(k) \cup {req[r].guid : r \in {r \in Requests : req[r].kind = k /\ pc[r] = "audit"}}

\* g was pushed once, is not in the queue and cannot come back.
Gone(g) ==
  g \notin InQueue /\ \E q \in Requests : Pushed(q, req[q].action) /\ req[q].guid = g

TakenOff(g) ==
  \E q \in Requests : /\ req[q].kind = "remove" /\ req[q].guid = g
                      /\ pc[q] \in {"audit", "ok", "lost"}

ClaimsOK ==
  /\ \A g \in Claimed("remove") : Gone(g)
  /\ \A g \in Claimed("push") : g \in InQueue \/ TakenOff(g)

TInv == IInv /\ LabelsOK /\ FreshOK /\ QueueOK /\ RemoveOK /\ ClaimsOK

\* At first nothing was asked, pushed or claimed.
LEMMA InitTInv == Init => TInv
<1>. SUFFICES ASSUME Init PROVE TInv
  OBVIOUS
<1>1. IInv
  BY InitIInv
<1>2. LabelsOK /\ FreshOK /\ RemoveOK
  BY DEF Init, LabelsOK, FreshOK, RemoveOK, NewRequest
<1>3. ToSet(queue) = {} /\ ToSet(audit) = {} /\ Distinct(queue)
  BY DEF Init, ToSet, Distinct
<1>4. Claimed("remove") = {} /\ Claimed("push") = {}
  BY <1>3 DEF Init, Claimed, Audited, Rows
<1>. QED
  BY <1>1, <1>2, <1>3, <1>4 DEF TInv, QueueOK, ClaimsOK

\* What a step leaves of request q: what it asked for, and how far it had come.
Stays(q) ==
  /\ req[q].kind # "none" => req'[q].kind = req[q].kind /\ req'[q].guid = req[q].guid
  /\ req[q].kind = "push" => req'[q].action = req[q].action
  /\ req[q].kind = "push" /\ pc[q] # "rpush" => pc'[q] # "rpush"
  /\ pc[q] \in {"audit", "ok", "lost"} => pc'[q] \in {"audit", "ok", "lost"}

\* A handler's step changes its own locals only, and there neither kind nor GUID.
LEMMA HandlerLocals ==
  ASSUME IInv, NEW r \in Requests, Handler(r)
  PROVE  /\ \A q \in Requests \ {r} : req'[q] = req[q] /\ pc'[q] = pc[q]
         /\ req'[r].kind = req[r].kind /\ req'[r].guid = req[r].guid
         /\ req'[r].action = req[r].action \/ FindAction(r)
<1>1. PICK label : pc' = [pc EXCEPT ![r] = label]
  BY DEF Handler, PushAction, FindAction, RemoveAction, CountActions, PurgeActions,
         ReadOldValue, SetExchangeValue, LogAudit
<1>2. \/ req' = req
      \/ FindAction(r) /\ \E v : req' = [req EXCEPT ![r].action = v]
      \/ \E v : req' = [req EXCEPT ![r].count = v]
      \/ \E v : req' = [req EXCEPT ![r].old = v]
  BY DEF Handler, PushAction, FindAction, RemoveAction, CountActions, PurgeActions,
         ReadOldValue, SetExchangeValue, LogAudit
<1>. QED
  BY <1>1, <1>2 DEF IInv, TypeOK, Locals

\* Where a handler's step leads.
LEMMA HandlerMoves ==
  ASSUME IInv, NEW r \in Requests, Handler(r)
  PROVE  /\ pc[r] \notin {"idle", "ok", "error", "lost"}
         /\ pc'[r] \notin {"idle", "rpush", "lrange", "llen", "hget", "lost"}
         /\ pc'[r] = "lrem" => pc[r] = "lrange"
         /\ pc'[r] = "del" => pc[r] = "llen"
         /\ pc'[r] = "hset" => pc[r] = "hget"
         /\ pc[r] = "audit" => pc'[r] = "ok"
         /\ pc'[r] = "ok" => pc[r] = "audit"
BY DEF Handler, PushAction, FindAction, RemoveAction, CountActions, PurgeActions,
       ReadOldValue, SetExchangeValue, LogAudit, IInv, TypeOK

\* A request begins where nothing was asked.
LEMMA BeginDoes ==
  ASSUME IInv, NEW r \in Requests, Begin(r)
  PROVE  /\ \A q \in Requests \ {r} : req'[q] = req[q] /\ pc'[q] = pc[q]
         /\ pc[r] = "idle"
         /\ \/ /\ req'[r].kind = "push" /\ pc'[r] = "rpush"
               /\ req'[r].action \in Actions /\ req'[r].action.guid = req'[r].guid
               /\ FreshGuids => req'[r].guid \notin Used
            \/ req'[r].kind = "remove" /\ pc'[r] = "lrange"
            \/ req'[r].kind = "purge" /\ pc'[r] = "llen"
            \/ req'[r].kind = "set" /\ pc'[r] = "hget"
BY DEF Begin, NewRequest, FirstLabel, IInv, TypeOK

\* No step takes back what a request has done.
LEMMA EachStays ==
  ASSUME IInv, LabelsOK, [Next]_vars
  PROVE  \A q \in Requests : Stays(q)
<1>1. CASE \E r \in Requests : Begin(r)
  <2>. PICK r \in Requests : Begin(r)
    BY <1>1
  <2>1. \A q \in Requests \ {r} : Stays(q)
    BY BeginDoes DEF Stays
  <2>2. Stays(r)
    BY BeginDoes DEF Stays, LabelsOK
  <2>. QED
    BY <2>1, <2>2
<1>2. CASE \E r \in Requests : Handler(r)
  <2>. PICK r \in Requests : Handler(r)
    BY <1>2
  <2>1. \A q \in Requests \ {r} : Stays(q)
    BY HandlerLocals DEF Stays
  <2>2. Stays(r)
    BY HandlerLocals, HandlerMoves DEF Stays, FindAction, LabelsOK
  <2>. QED
    BY <2>1, <2>2
<1>3. CASE GatewayTakes \/ GatewayWrites \/ Exit \/ Finished \/ UNCHANGED vars
  <2>1. req' = req /\ \A q \in Requests : pc'[q] \in {pc[q], "lost"}
    BY <1>3 DEF GatewayTakes, GatewayWrites, Exit, Finished, vars, IInv, TypeOK
  <2>. QED
    BY <2>1 DEF Stays
<1>4. CASE \E r \in Requests : SendAgain(r)
  BY <1>4, SendAgainDoes DEF Stays
<1>. QED
  BY <1>1, <1>2, <1>3, <1>4 DEF Next

\* Labels go with kinds in every state.
LEMMA LabelsOKKept ==
  ASSUME IInv, LabelsOK, [Next]_vars
  PROVE  LabelsOK'
<1>1. CASE \E r \in Requests : Begin(r)
  BY <1>1, BeginDoes DEF LabelsOK
<1>2. CASE \E r \in Requests : Handler(r)
  BY <1>2, HandlerLocals, HandlerMoves DEF LabelsOK, FindAction
<1>3. CASE GatewayTakes \/ GatewayWrites \/ Exit \/ Finished \/ UNCHANGED vars
  <2>1. req' = req /\ \A q \in Requests : /\ pc'[q] \in {pc[q], "lost"}
                                          /\ pc'[q] = "lost" => pc[q] # "idle"
    BY <1>3 DEF GatewayTakes, GatewayWrites, Exit, Finished, vars, Active, IInv, TypeOK,
       LabelsOK
  <2>. QED
    BY <2>1 DEF LabelsOK
<1>4. CASE \E r \in Requests : SendAgain(r)
  BY <1>4, SendAgainDoes DEF LabelsOK
<1>. QED
  BY <1>1, <1>2, <1>3, <1>4 DEF Next

\* Pushes keep GUIDs of their own, when each brings one.
LEMMA FreshOKKept ==
  ASSUME IInv, FreshOK, FreshGuids, [Next]_vars
  PROVE  FreshOK'
<1>1. CASE \E r \in Requests : Begin(r)
  BY <1>1, BeginDoes DEF FreshOK, Used
<1>2. CASE \E r \in Requests : Handler(r)
  BY <1>2, HandlerLocals DEF FreshOK
<1>3. CASE GatewayTakes \/ GatewayWrites \/ Exit \/ Finished \/ UNCHANGED vars
  BY <1>3 DEF GatewayTakes, GatewayWrites, Exit, Finished, vars, FreshOK
<1>4. CASE \E r \in Requests : SendAgain(r)
  BY <1>4, SendAgainDoes DEF FreshOK
<1>. QED
  BY <1>1, <1>2, <1>3, <1>4 DEF Next

\* What a step adds to the claims: the GUID of a handler that goes to its audit row.
LEMMA ClaimsGrow ==
  ASSUME IInv, LabelsOK, [Next]_vars, NEW k \in {"push", "remove", "set"}, NEW g \in Claimed(k)'
  PROVE  \/ g \in Claimed(k)
         \/ \E r \in Requests : /\ Handler(r) /\ pc[r] # "audit" /\ pc'[r] = "audit"
                                /\ req[r].kind = k /\ req[r].guid = g
<1>1. CASE \E r \in Requests : LogAudit(r)
  <2>. PICK r \in Requests : LogAudit(r)
    BY <1>1
  <2>1. AuditRow(r) \in AuditRows
    BY DEF LogAudit, IInv, TypeOK, HandlerOK, Locals, AuditRow, AuditRows
  <2>2. ToSet(audit') \subseteq ToSet(audit) \cup {AuditRow(r)}
    BY <2>1, AppendElements DEF LogAudit, IInv, TypeOK
  <2>3. AuditRow(r).kind = req[r].kind /\ AuditRow(r).guid = req[r].guid
    BY DEF AuditRow
  <2>4. pc[r] = "audit" /\ req' = req /\ \A q \in Requests : pc'[q] \in {pc[q], "ok"}
    BY DEF LogAudit, IInv, TypeOK
  <2>. QED
    BY <2>2, <2>3, <2>4 DEF Claimed, Audited, Rows
<1>2. CASE ~ \E r \in Requests : LogAudit(r)
  <2>1. audit' = audit
    BY <1>2 DEF Next, Begin, Handler, PushAction, FindAction, RemoveAction, CountActions,
       PurgeActions, ReadOldValue, SetExchangeValue, SendAgain, GatewayTakes, GatewayWrites,
       Exit, Finished, vars
  <2>2. CASE g \in Audited(k)
    BY <2>2 DEF Claimed
  <2>3. CASE g \notin Audited(k)
    <3>1. PICK q \in Requests : req'[q].kind = k /\ pc'[q] = "audit" /\ req'[q].guid = g
      BY <2>1, <2>3 DEF Claimed, Audited, Rows
    <3>2. CASE pc[q] = "audit"
      <4>1. req[q].kind # "none"
        BY <3>2, KindsAssumption DEF IInv, HandlerOK
      <4>2. Stays(q)
        BY EachStays
      <4>. QED
        BY <3>1, <3>2, <4>1, <4>2 DEF Claimed, Stays
    <3>3. CASE pc[q] # "audit"
      <4>1. PICK r \in Requests : Begin(r) \/ Handler(r)
        BY <3>1, <3>3, SendAgainDoes DEF Next, GatewayTakes, GatewayWrites, Exit, Finished, vars, IInv, TypeOK
      <4>2. q = r /\ Handler(r)
        BY <3>1, <3>3, <4>1, BeginDoes, HandlerLocals
      <4>. QED
        BY <3>1, <3>3, <4>2, HandlerLocals
    <3>. QED
      BY <3>2, <3>3
  <2>. QED
    BY <2>2, <2>3
<1>. QED
  BY <1>1, <1>2
\* An action stays pushed, by the same request.
LEMMA PushedStays ==
  ASSUME IInv, LabelsOK, [Next]_vars, NEW q \in Requests, NEW a, Pushed(q, a)
  PROVE  Pushed(q, a)'
<1>1. Stays(q)
  BY EachStays
<1>. QED
  BY <1>1 DEF Stays, Pushed

\* A GUID belongs to one action, and to one request that pushes it.
LEMMA OneActionPerGuid ==
  ASSUME LabelsOK, FreshOK, NEW q \in Requests, NEW r \in Requests, NEW a, Pushed(q, a),
         req[r].kind = "push", req[r].guid = a.guid
  PROVE  q = r /\ a = req[r].action
BY DEF LabelsOK, FreshOK, Pushed

\* The queue changes by one push or one removal at a time.
LEMMA QueueChanges ==
  ASSUME TInv, UndisturbedQueue, [Next]_vars
  PROVE  \/ queue' = queue
         \/ \E r \in Requests : PushAction(r) /\ queue' = Append(queue, req[r].action)
         \/ \E r \in Requests : RemoveAction(r) /\ queue' = LRem(queue, r)
<1>1. \A r \in Requests : ~ PurgeActions(r)
  BY DEF PurgeActions, TInv, IInv, HandlerOK, LabelsOK, UndisturbedQueue
<1>2. ~ GatewayTakes
  BY DEF GatewayTakes, UndisturbedQueue
<1>3. \A r : ~ SendAgain(r)
  BY NoSendAgain DEF UndisturbedQueue
<1>. QED
  BY <1>1, <1>2, <1>3 DEF Next, Begin, Handler, PushAction, FindAction, RemoveAction, CountActions,
     ReadOldValue, SetExchangeValue, LogAudit, GatewayWrites, Exit, Finished, vars

\* What PushAction appends is new in the queue.
LEMMA PushedActionIsNew ==
  ASSUME TInv, NEW r \in Requests, PushAction(r)
  PROVE  /\ req[r].action \in Actions /\ req[r].action \notin ToSet(queue)
         /\ req[r].guid \notin InQueue /\ ~ Gone(req[r].guid)
         /\ req[r].action.guid = req[r].guid
<1>1. /\ pc[r] = "rpush" /\ req[r].kind = "push" /\ req[r].action \in Actions
      /\ req[r].action.guid = req[r].guid
  BY DEF PushAction, TInv, LabelsOK
<1>2. ASSUME NEW a \in ToSet(queue)
      PROVE  a.guid # req[r].guid
  <2>1. PICK q \in Requests : Pushed(q, a)
    BY DEF TInv, QueueOK
  <2>. QED
    BY <1>1, <2>1, OneActionPerGuid DEF TInv, Pushed
<1>3. ~ Gone(req[r].guid)
  BY <1>1 DEF Gone, Pushed, TInv, FreshOK
<1>. QED
  BY <1>1, <1>2, <1>3 DEF InQueue

\* What LREM leaves.
LEMMA LRemLeaves ==
  ASSUME TInv, NEW r \in Requests, RemoveAction(r), queue' = LRem(queue, r)
  PROVE  /\ Distinct(queue') /\ ToSet(queue') = ToSet(queue) \ {req[r].action}
         /\ InQueue' = InQueue \ {req[r].guid}
<1>1. Distinct(queue') /\ ToSet(queue') = ToSet(queue) \ {req[r].action}
  BY RemoveFirstElements DEF LRem, TInv, IInv, TypeOK, QueueOK
<1>2. PICK p \in Requests : Pushed(p, req[r].action)
  BY DEF RemoveAction, TInv, RemoveOK
<1>3. req[r].action.guid = req[r].guid
  BY DEF RemoveAction, TInv, IInv, HandlerOK
<1>4. ASSUME NEW a \in ToSet(queue), a.guid = req[r].guid
      PROVE  a = req[r].action
  <2>1. PICK q \in Requests : Pushed(q, a)
    BY DEF TInv, QueueOK
  <2>. QED
    BY <1>2, <1>3, <1>4, <2>1, OneActionPerGuid DEF TInv, Pushed, LabelsOK
<1>. QED
  BY <1>1, <1>3, <1>4 DEF InQueue

\* The queue holds each action once, and only actions that were pushed.
LEMMA QueueOKKept ==
  ASSUME TInv, UndisturbedQueue, [Next]_vars
  PROVE  QueueOK'
<1>1. \A q \in Requests, a \in Actions : Pushed(q, a) => Pushed(q, a)'
  BY PushedStays DEF TInv
<1>2. ToSet(queue) \subseteq Actions
  BY ElementOfSeq, LenProperties DEF ToSet, TInv, IInv, TypeOK
<1>3. CASE queue' = queue
  BY <1>1, <1>2, <1>3 DEF TInv, QueueOK
<1>4. CASE \E r \in Requests : PushAction(r) /\ queue' = Append(queue, req[r].action)
  <2>. PICK r \in Requests : PushAction(r) /\ queue' = Append(queue, req[r].action)
    BY <1>4
  <2>1. ToSet(queue') = ToSet(queue) \cup {req[r].action} /\ Distinct(queue')
    BY PushedActionIsNew, AppendElements, AppendDistinct DEF TInv, QueueOK, IInv, TypeOK
  <2>2. PICK a : a = req[r].action
    OBVIOUS
  <2>3. Pushed(r, a)'
    BY <2>2 DEF PushAction, Pushed, TInv, LabelsOK, IInv, TypeOK
  <2>. QED
    BY <1>1, <1>2, <2>1, <2>2, <2>3 DEF TInv, QueueOK
<1>5. CASE \E r \in Requests : RemoveAction(r) /\ queue' = LRem(queue, r)
  BY <1>1, <1>2, <1>5, LRemLeaves DEF TInv, QueueOK
<1>. QED
  BY <1>3, <1>4, <1>5, QueueChanges

\* What a remove request found in its snapshot was pushed.
LEMMA RemoveOKKept ==
  ASSUME TInv, [Next]_vars
  PROVE  RemoveOK'
<1>. SUFFICES ASSUME NEW r \in Requests, pc'[r] = "lrem"
              PROVE  \E q \in Requests : Pushed(q, req[r].action)'
  BY DEF RemoveOK
<1>1. CASE FindAction(r)
  <2>. DEFINE i == FirstWithGuid(queue, req[r].guid)
  <2>1. i # 0 /\ req'[r].action = queue[i]
    BY <1>1 DEF FindAction, TInv, IInv, TypeOK, Locals
  <2>2. queue[i] \in ToSet(queue)
    <3>1. i \in DOMAIN queue
      BY <2>1, FirstWithGuidFinds DEF TInv, IInv, TypeOK
    <3>. QED
      BY <3>1 DEF ToSet
  <2>3. PICK a, q : q \in Requests /\ a = queue[i] /\ Pushed(q, a)
    BY <2>2 DEF TInv, QueueOK
  <2>. HIDE DEF i
  <2>4. Pushed(q, a)'
    BY <2>3, PushedStays DEF TInv
  <2>. QED
    BY <2>1, <2>3, <2>4
<1>2. CASE ~ FindAction(r)
  <2>1. pc[r] = "lrem" /\ req'[r].action = req[r].action
    <3>1. CASE \E q \in Requests : Begin(q)
      BY <3>1, BeginDoes DEF TInv
    <3>2. CASE \E q \in Requests : Handler(q)
      <4>. PICK q \in Requests : Handler(q)
        BY <3>2
      <4>1. CASE q = r
        <5>1. pc[r] = "lrange"
          BY <4>1, HandlerMoves DEF TInv
        <5>. QED
          BY <1>2, <4>1, <5>1 DEF Handler, PushAction, RemoveAction, CountActions,
             PurgeActions, ReadOldValue, SetExchangeValue, LogAudit
      <4>2. CASE q # r
        BY <4>2, HandlerLocals DEF TInv
      <4>. QED
        BY <4>1, <4>2
    <3>3. CASE GatewayTakes \/ GatewayWrites \/ Exit \/ Finished \/ UNCHANGED vars
      BY <3>3 DEF GatewayTakes, GatewayWrites, Exit, Finished, vars, TInv, IInv, TypeOK
    <3>4. CASE \E q \in Requests : SendAgain(q)
      BY <3>4, SendAgainDoes DEF TInv
    <3>. QED
      BY <3>1, <3>2, <3>3, <3>4 DEF Next
  <2>2. PICK a, q : q \in Requests /\ a = req[r].action /\ Pushed(q, a)
    BY <2>1 DEF TInv, RemoveOK
  <2>3. Pushed(q, a)'
    BY <2>2, PushedStays DEF TInv
  <2>. QED
    BY <2>1, <2>2, <2>3
<1>. QED
  BY <1>1, <1>2

\* What is gone stays gone.
LEMMA GoneStays ==
  ASSUME TInv, UndisturbedQueue, [Next]_vars, NEW g, Gone(g)
  PROVE  Gone(g)'
<1>1. PICK q \in Requests : Pushed(q, req[q].action) /\ req[q].guid = g
  BY DEF Gone
<1>2. Pushed(q, req[q].action)' /\ req'[q].guid = g
  BY <1>1, EachStays DEF TInv, Stays, Pushed
<1>3. g \notin InQueue'
  <2>1. CASE queue' = queue
    BY <2>1 DEF Gone, InQueue
  <2>2. CASE \E r \in Requests : PushAction(r) /\ queue' = Append(queue, req[r].action)
    <3>. PICK r \in Requests : PushAction(r) /\ queue' = Append(queue, req[r].action)
      BY <2>2
    <3>1. ToSet(queue') = ToSet(queue) \cup {req[r].action}
      BY PushedActionIsNew, AppendElements DEF TInv, IInv, TypeOK
    <3>. QED
      BY <3>1, PushedActionIsNew DEF Gone, InQueue
  <2>3. CASE \E r \in Requests : RemoveAction(r) /\ queue' = LRem(queue, r)
    BY <2>3, LRemLeaves DEF Gone
  <2>. QED
    BY <2>1, <2>2, <2>3, QueueChanges
<1>. QED
  BY <1>2, <1>3 DEF Gone

\* What was in the queue is still there, or has been taken off by a remove request,
\* which stays true.
LEMMA InQueueOrTakenOff ==
  ASSUME TInv, UndisturbedQueue, [Next]_vars, NEW g, g \in InQueue \/ TakenOff(g)
  PROVE  g \in InQueue' \/ TakenOff(g)'
<1>1. CASE TakenOff(g)
  BY <1>1, EachStays DEF TInv, Stays, TakenOff
<1>2. CASE g \in InQueue
  <2>1. CASE queue' = queue
    BY <1>2, <2>1 DEF InQueue
  <2>2. CASE \E r \in Requests : PushAction(r) /\ queue' = Append(queue, req[r].action)
    <3>. PICK r \in Requests : PushAction(r) /\ queue' = Append(queue, req[r].action)
      BY <2>2
    <3>1. ToSet(queue') = ToSet(queue) \cup {req[r].action}
      BY PushedActionIsNew, AppendElements DEF TInv, IInv, TypeOK
    <3>. QED
      BY <1>2, <3>1 DEF InQueue
  <2>3. CASE \E r \in Requests : RemoveAction(r) /\ queue' = LRem(queue, r)
    <3>. PICK r \in Requests : RemoveAction(r) /\ queue' = LRem(queue, r)
      BY <2>3
    <3>1. /\ req'[r].kind = "remove" /\ req'[r].guid = req[r].guid /\ pc'[r] = "audit"
          /\ InQueue' = InQueue \ {req[r].guid}
      BY LRemLeaves DEF RemoveAction, TInv, LabelsOK, IInv, TypeOK
    <3>. QED
      BY <1>2, <3>1 DEF TakenOff
  <2>. QED
    BY <2>1, <2>2, <2>3, QueueChanges
<1>. QED
  BY <1>1, <1>2

\* Every claim is true when it is made, and stays true.
LEMMA ClaimsOKKept ==
  ASSUME TInv, UndisturbedQueue, [Next]_vars
  PROVE  ClaimsOK'
<1>1. ASSUME NEW g \in Claimed("remove")'
      PROVE  Gone(g)'
  <2>1. CASE g \in Claimed("remove")
    BY <2>1, GoneStays DEF TInv, ClaimsOK
  <2>2. CASE g \notin Claimed("remove")
    <3>1. PICK r \in Requests : /\ Handler(r) /\ pc[r] # "audit" /\ pc'[r] = "audit"
                                /\ req[r].kind = "remove" /\ req[r].guid = g
      BY <2>2, ClaimsGrow DEF TInv
    <3>2. RemoveAction(r) /\ queue' = LRem(queue, r)
      BY <3>1 DEF Handler, PushAction, FindAction, RemoveAction, CountActions, PurgeActions,
         ReadOldValue, SetExchangeValue, LogAudit, TInv, IInv, TypeOK, LabelsOK,
         UndisturbedQueue, Replies, Performed
    <3>3. PICK q \in Requests : Pushed(q, req[r].action)
      BY <3>2 DEF RemoveAction, TInv, RemoveOK
    <3>4. Pushed(q, req[q].action)' /\ req[q].guid = g /\ req'[q].guid = req[q].guid
      BY <3>1, <3>2, <3>3, EachStays
      DEF Pushed, Stays, RemoveAction, TInv, IInv, HandlerOK, LabelsOK
    <3>. QED
      BY <3>1, <3>2, <3>4, LRemLeaves DEF Gone, Pushed
  <2>. QED
    BY <2>1, <2>2
<1>2. ASSUME NEW g \in Claimed("push")'
      PROVE  g \in InQueue' \/ TakenOff(g)'
  <2>1. CASE g \in Claimed("push")
    BY <2>1, InQueueOrTakenOff DEF TInv, ClaimsOK
  <2>2. CASE g \notin Claimed("push")
    <3>1. PICK r \in Requests : /\ Handler(r) /\ pc[r] # "audit" /\ pc'[r] = "audit"
                                /\ req[r].kind = "push" /\ req[r].guid = g
      BY <2>2, ClaimsGrow DEF TInv
    <3>2. PushAction(r) /\ queue' = Append(queue, req[r].action)
      BY <3>1 DEF Handler, PushAction, FindAction, RemoveAction, CountActions, PurgeActions,
         ReadOldValue, SetExchangeValue, LogAudit, TInv, IInv, TypeOK, LabelsOK,
         UndisturbedQueue, Replies, Performed
    <3>3. ToSet(queue') = ToSet(queue) \cup {req[r].action}
      BY <3>2, PushedActionIsNew, AppendElements DEF TInv, IInv, TypeOK
    <3>. QED
      BY <3>1, <3>2, <3>3, PushedActionIsNew DEF InQueue
  <2>. QED
    BY <2>1, <2>2
<1>. QED
  BY <1>1, <1>2 DEF ClaimsOK

\* TInv is inductive, where the queue is left to the requests.
LEMMA TInvKept ==
  ASSUME UndisturbedQueue, TInv, [Next]_vars
  PROVE  TInv'
BY NextKeepsIInv, LabelsOKKept, FreshOKKept, QueueOKKept, RemoveOKKept, ClaimsOKKept
DEF TInv, UndisturbedQueue

\* At every instant, and wherever the process ends: what the trail calls removed is
\* not in the queue, and what it calls pushed is, unless its removal was asked for.
\* Also when SQLite loses rows, for it says nothing false by saying less.
THEOREM AuditNeverLiesAlways ==
  ASSUME UndisturbedQueue
  PROVE  Spec => []AuditNeverLies
<1>1. TInv /\ [Next]_vars => TInv'
  BY TInvKept
<1>2. TInv => AuditNeverLies
  BY DEF TInv, ClaimsOK, Claimed, Gone, TakenOff, RemovalAsked, AuditNeverLies
<1>. QED
  BY <1>1, <1>2, InitTInv, PTL DEF Spec

-----------------------------------------------------------------------------
(***************************************************************************)
(* A request that was answered "OK" has its row, if SQLite takes the rows  *)
(* it is given; and nobody is answered otherwise after a change, if Redis  *)
(* answers.                                                                *)
(***************************************************************************)
HasRow(r) ==
  \E row \in Rows(req[r].kind) :
    row.guid = req[r].guid /\ row.field = req[r].field /\ row.new = req[r].value

AnsweredOK == \A r \in Requests : pc[r] = "ok" => HasRow(r)

\* Only a remove request finds nothing to do.
ErrorsOK == \A r \in Requests : pc[r] = "error" => req[r].kind = "remove"

\* The rows that are there stay there.
LEMMA RowsStay ==
  ASSUME IInv, [Next]_vars
  PROVE  ToSet(audit) \subseteq ToSet(audit')
<1>1. CASE audit' = audit
  BY <1>1
<1>2. CASE \E r \in Requests : LogAudit(r)
  <2>. PICK r \in Requests : LogAudit(r)
    BY <1>2
  <2>1. AuditRow(r) \in AuditRows
    BY DEF LogAudit, IInv, TypeOK, HandlerOK, Locals, AuditRow, AuditRows
  <2>2. CASE audit' = Append(audit, AuditRow(r))
    BY <2>1, <2>2, AppendElements DEF IInv, TypeOK
  <2>. QED
    BY <1>1, <2>2 DEF LogAudit
<1>. QED
  BY <1>1, <1>2 DEF Next, Begin, Handler, PushAction, FindAction, RemoveAction, CountActions,
     PurgeActions, ReadOldValue, SetExchangeValue, SendAgain, GatewayTakes, GatewayWrites,
     Exit, Finished, vars

\* A request that has come to its audit row keeps its locals.
LEMMA LocalsSettle ==
  ASSUME IInv, [Next]_vars, NEW q \in Requests, pc[q] \in {"audit", "ok", "lost"}
  PROVE  /\ req'[q] = req[q]
         /\ pc'[q] \in {"audit", "ok", "lost"}
         /\ pc'[q] = "ok" => pc[q] = "ok" \/ LogAudit(q)
<1>1. CASE \E r \in Requests : Begin(r)
  BY <1>1, BeginDoes
<1>2. CASE \E r \in Requests : Handler(r)
  <2>. PICK r \in Requests : Handler(r)
    BY <1>2
  <2>1. CASE q = r
    <3>1. LogAudit(q)
      BY <2>1 DEF Handler, PushAction, FindAction, RemoveAction, CountActions, PurgeActions,
         ReadOldValue, SetExchangeValue
    <3>. QED
      BY <3>1 DEF LogAudit, IInv, TypeOK
  <2>2. CASE q # r
    BY <2>2, HandlerLocals
  <2>. QED
    BY <2>1, <2>2
<1>3. CASE GatewayTakes \/ GatewayWrites \/ Exit \/ Finished \/ UNCHANGED vars
  BY <1>3 DEF GatewayTakes, GatewayWrites, Exit, Finished, vars, IInv, TypeOK
<1>4. CASE \E r \in Requests : SendAgain(r)
  BY <1>4 DEF SendAgain, IInv, TypeOK
<1>. QED
  BY <1>1, <1>2, <1>3, <1>4 DEF Next

\* "OK" is answered after the row has been written.
LEMMA AnsweredOKKept ==
  ASSUME IInv, AnsweredOK, "sqlite" \notin Faults, [Next]_vars
  PROVE  AnsweredOK'
<1>. SUFFICES ASSUME NEW q \in Requests, pc'[q] = "ok"
              PROVE  HasRow(q)'
  BY DEF AnsweredOK
<1>1. pc[q] \in {"audit", "ok"}
  <2>1. CASE \E r \in Requests : Begin(r)
    BY <2>1, BeginDoes
  <2>2. CASE \E r \in Requests : Handler(r)
    BY <2>2, HandlerLocals, HandlerMoves
  <2>3. CASE GatewayTakes \/ GatewayWrites \/ Exit \/ Finished \/ UNCHANGED vars
    BY <2>3 DEF GatewayTakes, GatewayWrites, Exit, Finished, vars, IInv, TypeOK
  <2>4. CASE \E r \in Requests : SendAgain(r)
    BY <2>4, SendAgainDoes
  <2>. QED
    BY <2>1, <2>2, <2>3, <2>4 DEF Next
<1>2. req'[q] = req[q] /\ (pc[q] = "ok" \/ LogAudit(q))
  BY <1>1, LocalsSettle
<1>3. CASE pc[q] = "ok"
  BY <1>2, <1>3, RowsStay DEF AnsweredOK, HasRow, Rows
<1>4. CASE LogAudit(q)
  <2>1. AuditRow(q) \in AuditRows
    BY <1>4 DEF LogAudit, IInv, TypeOK, HandlerOK, Locals, AuditRow, AuditRows
  <2>2. audit' = Append(audit, AuditRow(q))
    BY <1>4 DEF LogAudit
  <2>3. AuditRow(q) \in ToSet(audit')
    BY <2>1, <2>2, AppendElements DEF IInv, TypeOK
  <2>. QED
    BY <1>2, <2>3 DEF HasRow, Rows, AuditRow
<1>. QED
  BY <1>2, <1>3, <1>4

\* Only a remove request is answered with an error.
LEMMA ErrorsOKKept ==
  ASSUME IInv, LabelsOK, ErrorsOK, "redis" \notin Faults, [Next]_vars
  PROVE  ErrorsOK'
<1>1. CASE \E r \in Requests : Begin(r)
  BY <1>1, BeginDoes DEF ErrorsOK
<1>2. CASE \E r \in Requests : Handler(r)
  <2>. PICK r \in Requests : Handler(r)
    BY <1>2
  <2>1. pc'[r] = "error" => pc[r] = "lrange"
    BY DEF Handler, PushAction, FindAction, RemoveAction, CountActions, PurgeActions,
       ReadOldValue, SetExchangeValue, LogAudit, Replies, IInv, TypeOK
  <2>. QED
    BY <2>1, HandlerLocals DEF ErrorsOK, LabelsOK
<1>3. CASE GatewayTakes \/ GatewayWrites \/ Exit \/ Finished \/ UNCHANGED vars
  BY <1>3 DEF GatewayTakes, GatewayWrites, Exit, Finished, vars, IInv, TypeOK, ErrorsOK
<1>. QED
  BY <1>1, <1>2, <1>3, NoSendAgain DEF Next

\* With every request answered, and every row written, the queue holds exactly what
\* the trail calls pushed and does not call removed.
THEOREM AuditExplainsQueueSetAlways ==
  ASSUME UndisturbedQueue, "sqlite" \notin Faults
  PROVE  Spec => []AuditExplainsQueueSet
<1>. DEFINE Inv == TInv /\ AnsweredOK /\ ErrorsOK
<1>1. Init => Inv
  BY InitTInv DEF Init, AnsweredOK, ErrorsOK
<1>2. TInv /\ [Next]_vars => TInv'
  BY TInvKept
<1>3. Inv /\ [Next]_vars => AnsweredOK' /\ ErrorsOK'
  BY AnsweredOKKept, ErrorsOKKept DEF TInv, UndisturbedQueue
<1>4. ASSUME Inv, Settled
      PROVE  InQueue = Audited("push") \ Audited("remove")
  <2>1. ASSUME NEW g \in InQueue
        PROVE  g \in Audited("push") \ Audited("remove")
    <3>1. PICK q \in Requests : req[q].kind = "push" /\ req[q].guid = g
      BY <1>4 DEF InQueue, TInv, QueueOK, Pushed, LabelsOK
    <3>2. pc[q] = "ok"
      BY <1>4, <3>1 DEF Settled, ErrorsOK, TInv, LabelsOK
    <3>3. g \in Audited("push")
      BY <1>4, <3>1, <3>2 DEF AnsweredOK, HasRow, Audited
    <3>. QED
      BY <1>4, <3>3 DEF TInv, ClaimsOK, Claimed, Gone
  <2>2. ASSUME NEW g \in Audited("push"), g \notin InQueue
        PROVE  g \in Audited("remove")
    <3>1. PICK q \in Requests : /\ req[q].kind = "remove" /\ req[q].guid = g
                                /\ pc[q] \in {"audit", "ok", "lost"}
      BY <1>4, <2>2 DEF TInv, ClaimsOK, Claimed, TakenOff
    <3>2. pc[q] = "ok"
      BY <1>4, <3>1 DEF Settled
    <3>. QED
      BY <1>4, <3>1, <3>2 DEF AnsweredOK, HasRow, Audited
  <2>. QED
    BY <2>1, <2>2
<1>5. Inv => AuditExplainsQueueSet
  BY <1>4 DEF AuditExplainsQueueSet
<1>. QED
  BY <1>1, <1>2, <1>3, <1>5, PTL DEF Spec

-----------------------------------------------------------------------------
(***************************************************************************)
(* Exchange values.  A value that the gateway does not write was written   *)
(* by a request that has its row or will write it next.                    *)
(***************************************************************************)
Writer(r, f) ==
  /\ req[r].kind = "set" /\ req[r].field = f /\ req[r].value = exchange[f]
  /\ pc[r] \in {"audit", "ok", "lost"}

WritersOK ==
  \A f \in Fields :
    exchange[f] \notin GatewayValues \cup {Absent} => \E r \in Requests : Writer(r, f)

\* Each write has its writer.
LEMMA WritersOKKept ==
  ASSUME IInv, LabelsOK, WritersOK, "redis" \notin Faults, [Next]_vars
  PROVE  WritersOK'
<1>. SUFFICES ASSUME NEW f \in Fields, exchange'[f] \notin GatewayValues \cup {Absent}
              PROVE  \E r \in Requests : Writer(r, f)'
  BY DEF WritersOK
<1>1. CASE exchange'[f] = exchange[f]
  <2>1. PICK r \in Requests : Writer(r, f)
    BY <1>1 DEF WritersOK
  <2>2. Writer(r, f)'
    BY <1>1, <2>1, LocalsSettle DEF Writer
  <2>. QED
    BY <2>2
<1>2. CASE exchange'[f] # exchange[f]
  <2>1. ~ GatewayWrites
    BY <1>2 DEF GatewayWrites, IInv, TypeOK
  <2>2. PICK r \in Requests : SetExchangeValue(r)
    BY <1>2, <2>1, NoSendAgain DEF Next, Begin, Handler, PushAction, FindAction, RemoveAction,
       CountActions, PurgeActions, ReadOldValue, LogAudit, GatewayTakes, Exit, Finished, vars
  <2>3. Writer(r, f)'
    BY <1>2, <2>2 DEF SetExchangeValue, Replies, Writer, IInv, TypeOK, LabelsOK
  <2>. QED
    BY <2>3
<1>. QED
  BY <1>1, <1>2

\* With every request answered, whoever wrote the present value of a field is named
\* in the trail, although other writers came between HSET and the row.
THEOREM LastWriterAuditedAlways ==
  ASSUME {"redis", "sqlite"} \cap Faults = {}
  PROVE  Spec => []LastWriterAudited
<1>. DEFINE Inv == IInv /\ LabelsOK /\ AnsweredOK /\ WritersOK
<1>1. Init => Inv
  BY InitIInv, InitTInv DEF Init, TInv, AnsweredOK, WritersOK
<1>2. Inv /\ [Next]_vars => Inv'
  BY NextKeepsIInv, LabelsOKKept, AnsweredOKKept, WritersOKKept
<1>3. ASSUME Inv, Settled, NEW f \in Fields, exchange[f] \notin GatewayValues \cup {Absent}
      PROVE  \E row \in Rows("set") : row.field = f /\ row.new = exchange[f]
  <2>1. PICK r \in Requests : Writer(r, f)
    BY <1>3 DEF WritersOK
  <2>. QED
    BY <1>3, <2>1 DEF Writer, Settled, AnsweredOK, HasRow
<1>4. Inv => LastWriterAudited
  BY <1>3 DEF LastWriterAudited
<1>. QED
  BY <1>1, <1>2, <1>4, PTL DEF Spec

-----------------------------------------------------------------------------
(***************************************************************************)
(* Replaying the trail.  f[n] is what the first n rows leave in the queue. *)
(***************************************************************************)
ReplayStep(f, rows, i) == IF i = 0 THEN <<>> ELSE Replay(f[i - 1], rows[i])
Replays(f, rows, n) == f = [i \in 0 .. n |-> ReplayStep(f, rows, i)]

\* There is such a function,
LEMMA ReplayExists ==
  ASSUME NEW rows, NEW n \in Nat
  PROVE  \E f : Replays(f, rows, n)
<1>. DEFINE Defined == {m \in Nat : \E f : Replays(f, rows, m)}
<1>1. 0 \in Defined
  <2>. DEFINE f == [i \in 0 .. 0 |-> <<>>]
  <2>1. Replays(f, rows, 0)
    BY DEF Replays, ReplayStep
  <2>. HIDE DEF f
  <2>. QED
    BY <2>1
<1>2. ASSUME NEW m \in Nat, NEW f, Replays(f, rows, m)
      PROVE  \E g : Replays(g, rows, m + 1)
  <2>. DEFINE g == [i \in 0 .. m + 1 |-> IF i = m + 1 THEN ReplayStep(f, rows, i) ELSE f[i]]
  <2>1. \A i \in 0 .. m : g[i] = f[i] /\ f[i] = ReplayStep(f, rows, i)
    BY <1>2 DEF Replays
  <2>2. ASSUME NEW i \in 0 .. m + 1
        PROVE  g[i] = ReplayStep(g, rows, i)
    <3>1. g[i] = ReplayStep(f, rows, i)
      <4>1. i = m + 1 \/ i \in 0 .. m
        OBVIOUS
      <4>. QED
        BY <2>1, <4>1
    <3>2. i # 0 => i - 1 \in 0 .. m
      OBVIOUS
    <3>3. i # 0 => g[i - 1] = f[i - 1]
      <4>. HIDE DEF g
      <4>. QED
        BY <2>1, <3>2
    <3>. HIDE DEF g
    <3>. QED
      BY <3>1, <3>3 DEF ReplayStep
  <2>3. g = [i \in 0 .. m + 1 |-> g[i]]
    OBVIOUS
  <2>. HIDE DEF g
  <2>4. Replays(g, rows, m + 1)
    BY <2>2, <2>3 DEF Replays
  <2>. QED
    BY <2>4
<1>3. \A m \in Defined \cap Nat : m + 1 \in Defined
  BY <1>2
<1>4. n \in Defined
  <2>. HIDE DEF Defined
  <2>. QED
    BY <1>1, <1>3, NumberInduction
<1>. QED
  BY <1>4

\* it is Replayed,
LEMMA ReplayedReplays ==
  ASSUME audit \in Seq(AuditRows)
  PROVE  Replays(Replayed, audit, Len(audit))
<1>1. Len(audit) \in Nat
  BY LenProperties
<1>2. PICK f : Replays(f, audit, Len(audit))
  BY <1>1, ReplayExists
<1>3. \A g : Replays(g, audit, Len(audit))
             <=> g = [n \in 0 .. Len(audit) |->
                        IF n = 0 THEN <<>> ELSE Replay(g[n - 1], audit[n])]
  BY DEF Replays, ReplayStep
<1>. QED
  BY <1>2, <1>3 DEF Replayed

\* and one more row adds one more step to it.
LEMMA ReplayedGrows ==
  ASSUME audit \in Seq(AuditRows), NEW row \in AuditRows, audit' = Append(audit, row)
  PROVE  /\ Len(audit') = Len(audit) + 1
         /\ \A i \in 0 .. Len(audit) : Replayed'[i] = Replayed[i]
         /\ Replayed'[Len(audit')] = Replay(Replayed[Len(audit)], row)
<1>. DEFINE n == Len(audit)
<1>1. /\ audit' \in Seq(AuditRows) /\ Len(audit') = n + 1 /\ n \in Nat
      /\ \A i \in 1 .. n : audit'[i] = audit[i]
      /\ audit'[n + 1] = row
  BY AppendProperties, LenProperties
<1>2. Replays(Replayed, audit, n)
  BY ReplayedReplays
<1>3. Replays(Replayed', audit', n + 1)
  <2>1. (audit \in Seq(AuditRows) => Replays(Replayed, audit, Len(audit)))'
    BY ReplayedReplays, PTL
  <2>. QED
    BY <1>1, <2>1
<1>. HIDE DEF n
<1>4. /\ \A i \in 0 .. n : Replayed[i] = ReplayStep(Replayed, audit, i)
      /\ \A i \in 0 .. n + 1 : Replayed'[i] = ReplayStep(Replayed', audit', i)
  BY <1>2, <1>3 DEF Replays
<1>. DEFINE Same == {m \in Nat : m <= n => Replayed'[m] = Replayed[m]}
<1>5. 0 \in Same
  BY <1>1, <1>4 DEF ReplayStep
<1>6. ASSUME NEW m \in Nat, m <= n => Replayed'[m] = Replayed[m], m + 1 <= n
      PROVE  Replayed'[m + 1] = Replayed[m + 1]
  <2>1. /\ m + 1 \in 0 .. n /\ m + 1 \in 0 .. n + 1 /\ m + 1 \in 1 .. n
        /\ m + 1 # 0 /\ (m + 1) - 1 = m /\ m <= n
    BY <1>1, <1>6
  <2>. QED
    BY <1>1, <1>4, <1>6, <2>1 DEF ReplayStep
<1>7. \A m \in Same \cap Nat : m + 1 \in Same
  BY <1>6
<1>8. Nat \subseteq Same
  <2>. HIDE DEF Same
  <2>. QED
    BY <1>5, <1>7, NumberInduction
<1>9. \A i \in 0 .. n : Replayed'[i] = Replayed[i]
  BY <1>1, <1>8
<1>10. n + 1 \in 0 .. n + 1 /\ n + 1 # 0 /\ (n + 1) - 1 = n /\ n \in 0 .. n
  BY <1>1
<1>11. Replayed'[n + 1] = Replay(Replayed[n], row)
  BY <1>1, <1>4, <1>9, <1>10 DEF ReplayStep
<1>. QED
  BY <1>1, <1>9, <1>11 DEF n

-----------------------------------------------------------------------------
(***************************************************************************)
(* One request at a time.  As long as a request has not given its last     *)
(* command, the trail explains what there is; from then on, it does so     *)
(* with the row that the request is about to write.                        *)
(***************************************************************************)
OneAtATime ==
  MaxInFlight = 1 /\ Faults = {} /\ ~ GatewayTakesActions /\ GatewayValues = {}

GuidsOf(q) == [i \in DOMAIN q |-> q[i].guid]
Remaining  == Replayed[Len(audit)]
LastSet(f) == SetBefore(f, Len(audit) + 1)

Explained == GuidsOf(queue) = Remaining /\ \A f \in Fields : exchange[f] = LastSet(f)

\* What a request has read is still so.
OnItsWay(r) ==
  /\ pc[r] = "lrem" =>
       \E i \in DOMAIN queue : /\ queue[i] = req[r].action
                               /\ \A j \in 1 .. i - 1 : queue[j].guid # req[r].guid
  /\ pc[r] = "del" => req[r].count = Len(queue)
  /\ pc[r] = "hset" => req[r].old = exchange[req[r].field]

ExplainedWith(r) ==
  /\ GuidsOf(queue) = Replay(Remaining, AuditRow(r))
  /\ req[r].kind = "purge" => req[r].count = Len(Remaining)
  /\ req[r].kind = "set" => req[r].old = LastSet(req[r].field)
  /\ \A f \in Fields :
       exchange[f] = IF req[r].kind = "set" /\ req[r].field = f THEN req[r].value ELSE LastSet(f)

OInv ==
  /\ IInv /\ LabelsOK
  /\ \A q, r \in Active : q = r
  /\ \A r \in Active : OnItsWay(r) /\ (pc[r] = "audit" => ExplainedWith(r))
  /\ (\A r \in Active : pc[r] # "audit") => Explained
  /\ PurgeCountsExactly
  /\ \A f \in Fields : \A i \in SetRows(f) : audit[i].old = SetBefore(f, i)

\* The empty trail explains the empty queue.
LEMMA InitOInv == Init => OInv
<1>. SUFFICES ASSUME Init PROVE OInv
  OBVIOUS
<1>1. IInv /\ LabelsOK
  BY InitIInv, InitTInv DEF TInv
<1>2. Active = {}
  BY DEF Init, Active, Terminal
<1>3. audit = <<>> /\ Len(audit) = 0 /\ DOMAIN audit = {} /\ audit \in Seq(AuditRows)
  BY DEF Init
<1>4. Remaining = <<>>
  BY <1>3, ReplayedReplays DEF Remaining, Replays, ReplayStep
<1>5. GuidsOf(queue) = <<>>
  BY DEF Init, GuidsOf
<1>6. \A f \in Fields : SetRows(f) = {} /\ LastSet(f) = Absent
  BY <1>3 DEF SetRows, LastSet, SetBefore
<1>. QED
  BY <1>1, <1>2, <1>3, <1>4, <1>5, <1>6 DEF OInv, Explained, Init, PurgeCountsExactly

\* Nobody begins while another is served.
LEMMA BeginAlone ==
  ASSUME OneAtATime, \A q, r \in Active : q = r, NEW r \in Requests, Begin(r)
  PROVE  Active = {}
<1>1. Cardinality(Active) < 1
  BY DEF Begin, OneAtATime
<1>2. ASSUME NEW q \in Active
      PROVE  FALSE
  <2>1. Active = {q}
    OBVIOUS
  <2>2. Cardinality(Active) = 1
    BY <2>1, FS_Singleton
  <2>. QED
    BY <1>1, <2>2
<1>. QED
  BY <1>2

\* LREM takes the GUID of the request out of the queue as the trail replays it.
LEMMA RemovedAsReplayed ==
  ASSUME queue \in Seq(Actions), NEW i \in DOMAIN queue,
         NEW g, queue[i].guid = g, \A j \in 1 .. i - 1 : queue[j].guid # g
  PROVE  GuidsOf(RemoveFirst(queue, queue[i])) = RemoveFirst(GuidsOf(queue), g)
<1>. DEFINE ids == GuidsOf(queue)
            n == Len(queue)
            short == RemoveAt(queue, i)
            at(j) == IF j < i THEN j ELSE j + 1
<1>1. /\ n \in Nat /\ DOMAIN queue = 1 .. n /\ i \in 1 .. n
      /\ \A j \in 1 .. n : queue[j] \in Actions
  BY LenProperties, ElementOfSeq
<1>2. ids \in Seq(Guids \cup {Absent}) /\ Len(ids) = n /\ DOMAIN ids = 1 .. n /\ \A j \in 1 .. n : ids[j] = queue[j].guid
  <2>1. ids \in [1 .. n -> Guids \cup {Absent}]
    BY <1>1 DEF GuidsOf, Actions
  <2>2. ids \in Seq(Guids \cup {Absent})
    BY <1>1, <2>1, SeqDef
  <2>. QED
    BY <1>1, <2>1, <2>2, LenProperties DEF GuidsOf
<1>3. RemoveFirst(queue, queue[i]) = short
  BY <1>1, RemoveFirstIs
<1>4. RemoveFirst(ids, g) = RemoveAt(ids, i)
  <2>1. i \in DOMAIN ids /\ ids[i] = g /\ \A j \in 1 .. i - 1 : ids[j] # g
    BY <1>1, <1>2
  <2>. HIDE DEF ids
  <2>. QED
    BY <1>2, <2>1, RemoveFirstIs
<1>5. /\ short \in Seq(Actions) /\ Len(short) = n - 1 /\ DOMAIN short = 1 .. n - 1
      /\ \A j \in 1 .. n - 1 : short[j] = queue[at(j)]
  BY <1>1, RemoveAtLeaves, RemoveAtType, LenProperties
<1>6. /\ RemoveAt(ids, i) \in Seq(Guids \cup {Absent}) /\ Len(RemoveAt(ids, i)) = n - 1
      /\ \A j \in 1 .. n - 1 : RemoveAt(ids, i)[j] = ids[at(j)]
  <2>. HIDE DEF ids, n
  <2>. QED
    BY <1>1, <1>2, RemoveAtLeaves, RemoveAtType
<1>7. RemoveAt(ids, i) = [j \in 1 .. n - 1 |-> RemoveAt(ids, i)[j]]
  <2>. HIDE DEF ids, n
  <2>. QED
    BY <1>6, LenProperties, SeqDef
<1>8. \A j \in 1 .. n - 1 : short[j].guid = RemoveAt(ids, i)[j]
  <2>1. \A j \in 1 .. n - 1 : at(j) \in 1 .. n
    BY <1>1
  <2>. HIDE DEF ids, n, short, at
  <2>. QED
    BY <1>2, <1>5, <1>6, <2>1
<1>9. GuidsOf(short) = [j \in 1 .. n - 1 |-> short[j].guid]
  BY <1>5 DEF GuidsOf
<1>. HIDE DEF ids, n, short
<1>. QED
  BY <1>3, <1>4, <1>7, <1>8, <1>9 DEF ids

\* One more row about a field is the last one about it; of rows before, nothing changes.
LEMMA SetBeforeGrows ==
  ASSUME audit \in Seq(AuditRows), NEW row \in AuditRows, audit' = Append(audit, row), NEW f
  PROVE  /\ \A i \in DOMAIN audit : i \in SetRows(f)' <=> i \in SetRows(f)
         /\ \A i \in 1 .. Len(audit) + 1 : SetBefore(f, i)' = SetBefore(f, i)
         /\ LastSet(f)' = IF row.kind = "set" /\ row.field = f THEN row.new ELSE LastSet(f)
<1>. DEFINE n == Len(audit)
<1>1. /\ audit' \in Seq(AuditRows) /\ Len(audit') = n + 1 /\ n \in Nat
      /\ DOMAIN audit = 1 .. n /\ DOMAIN audit' = 1 .. n + 1
      /\ \A i \in 1 .. n : audit'[i] = audit[i]
      /\ audit'[n + 1] = row
  BY AppendProperties, LenProperties
<1>. HIDE DEF n
<1>2. /\ SetRows(f) \subseteq 1 .. n /\ SetRows(f)' \subseteq 1 .. n + 1
      /\ \A i \in 1 .. n : i \in SetRows(f)' <=> i \in SetRows(f)
      /\ n + 1 \in SetRows(f)' <=> row.kind = "set" /\ row.field = f
  BY <1>1 DEF SetRows
<1>3. ASSUME NEW i \in 1 .. n + 1
      PROVE  SetBefore(f, i)' = SetBefore(f, i)
  <2>. DEFINE S == {j \in SetRows(f) : j < i}
              T == {j \in SetRows(f)' : j < i}
  <2>1. T = S /\ S \subseteq 1 .. n
    BY <1>1, <1>2
  <2>2. S # {} => Max(S) \in 1 .. n
    <3>. HIDE DEF S
    <3>. QED
      BY <1>1, <2>1, LastOfPositions
  <2>3. /\ SetBefore(f, i) = IF S = {} THEN Absent ELSE audit[Max(S)].new
        /\ SetBefore(f, i)' = IF T = {} THEN Absent ELSE audit'[Max(T)].new
    BY DEF SetBefore
  <2>. HIDE DEF S, T
  <2>. QED
    BY <1>1, <2>1, <2>2, <2>3
<1>4. LastSet(f)' = IF row.kind = "set" /\ row.field = f THEN row.new ELSE LastSet(f)
  <2>. DEFINE T == SetRows(f)'
  <2>1. {j \in SetRows(f)' : j < n + 1 + 1} = T
    BY <1>1, <1>2
  <2>2. LastSet(f)' = IF T = {} THEN Absent ELSE audit'[Max(T)].new
    BY <1>1, <2>1 DEF LastSet, SetBefore
  <2>3. CASE row.kind = "set" /\ row.field = f
    <3>1. n + 1 \in T /\ T \subseteq 1 .. n + 1 /\ n + 1 \in Nat
      BY <1>1, <1>2, <2>3
    <3>2. Max(T) = n + 1
      <4>. HIDE DEF T
      <4>. QED
        BY <3>1, LastOfPositions
    <3>. QED
      BY <1>1, <2>2, <2>3, <3>1, <3>2
  <2>4. CASE ~ (row.kind = "set" /\ row.field = f)
    <3>1. {j \in SetRows(f) : j < n + 1} = T /\ T \subseteq 1 .. n
      BY <1>1, <1>2, <2>4
    <3>2. LastSet(f) = IF T = {} THEN Absent ELSE audit[Max(T)].new
      BY <3>1 DEF LastSet, SetBefore, n
    <3>3. T # {} => Max(T) \in 1 .. n
      <4>. HIDE DEF T
      <4>. QED
        BY <1>1, <3>1, LastOfPositions
    <3>. QED
      BY <1>1, <2>2, <2>4, <3>2, <3>3
  <2>. QED
    BY <2>3, <2>4
<1>. QED
  BY <1>1, <1>2, <1>3, <1>4 DEF n

\* What the trail says as long as no row is added.
LEMMA TrailStays ==
  ASSUME audit' = audit
  PROVE  /\ Remaining' = Remaining
         /\ \A f : LastSet(f)' = LastSet(f)
         /\ PurgeCountsExactly => PurgeCountsExactly'
         /\ \A f : (\A i \in SetRows(f) : audit[i].old = SetBefore(f, i))
                     => (\A i \in SetRows(f) : audit[i].old = SetBefore(f, i))'
<1>1. Replayed' = Replayed
  BY DEF Replayed
<1>2. \A f : SetRows(f)' = SetRows(f) /\ LastSet(f)' = LastSet(f)
  BY DEF SetRows, LastSet, SetBefore
<1>3. \A f, i : SetBefore(f, i)' = SetBefore(f, i)
  BY <1>2 DEF SetBefore
<1>4. Remaining' = Remaining /\ (PurgeCountsExactly => PurgeCountsExactly')
  BY <1>1 DEF Remaining, PurgeCountsExactly
<1>. QED
  BY <1>2, <1>3, <1>4

\* A handler is the only one at work.
LEMMA OnlyHandler ==
  ASSUME OInv, NEW r \in Requests, Handler(r)
  PROVE  /\ Active = {r} /\ Active' \subseteq {r} /\ OnItsWay(r)
         /\ \A q \in Requests \ {r} : q \notin Active'
<1>1. r \in Active
  BY HandlerMoves DEF Active, Terminal, OInv
<1>2. Active = {r}
  BY <1>1 DEF OInv, Active
<1>3. \A q \in Requests \ {r} : pc'[q] = pc[q]
  BY HandlerLocals DEF OInv
<1>4. \A q \in Requests \ {r} : q \notin Active'
  BY <1>2, <1>3 DEF Active
<1>5. Active' \subseteq {r}
  BY <1>4 DEF Active
<1>. QED
  BY <1>1, <1>2, <1>4, <1>5 DEF OInv

\* What is to be shown of a step that adds no row.
LEMMA NoRowKeepsOInv ==
  ASSUME OInv, [Next]_vars, audit' = audit, NEW r \in Requests, Active' \subseteq {r},
         OnItsWay(r)', pc'[r] = "audit" => ExplainedWith(r)', pc'[r] # "audit" => Explained'
  PROVE  OInv'
<1>1. IInv' /\ LabelsOK'
  BY NextKeepsIInv, LabelsOKKept DEF OInv
<1>2. /\ PurgeCountsExactly'
      /\ \A f \in Fields : (\A i \in SetRows(f) : audit[i].old = SetBefore(f, i))'
  BY TrailStays DEF OInv
<1>3. \A q \in Active' : q = r
  OBVIOUS
<1>4. (\A q \in Active' : pc'[q] # "audit") => Explained'
  <2>1. pc'[r] = "audit" => r \in Active'
    BY DEF Active, Terminal
  <2>. QED
    BY <2>1
<1>. QED
  BY <1>1, <1>2, <1>3, <1>4 DEF OInv

\* The GUIDs of a list with one more action, and how many there are.
LEMMA GuidsOfAppend ==
  ASSUME NEW q \in Seq(Actions), NEW a \in Actions
  PROVE  GuidsOf(Append(q, a)) = Append(GuidsOf(q), a.guid)
<1>. DEFINE ids == GuidsOf(q)
            more == Append(q, a)
            n == Len(q)
<1>1. /\ n \in Nat /\ DOMAIN q = 1 .. n /\ more \in Seq(Actions) /\ Len(more) = n + 1
      /\ DOMAIN more = 1 .. n + 1 /\ \A i \in 1 .. n : more[i] = q[i] /\ q[i] \in Actions
      /\ more[n + 1] = a
  BY LenProperties, AppendProperties, ElementOfSeq
<1>2. ids \in Seq(Guids \cup {Absent}) /\ Len(ids) = n /\ \A i \in 1 .. n : ids[i] = q[i].guid
  <2>1. ids \in [1 .. n -> Guids \cup {Absent}]
    BY <1>1 DEF GuidsOf, Actions
  <2>2. ids \in Seq(Guids \cup {Absent})
    BY <1>1, <2>1, SeqDef
  <2>. QED
    BY <1>1, <2>1, <2>2, LenProperties DEF GuidsOf
<1>3. a.guid \in Guids \cup {Absent}
  BY DEF Actions
<1>. HIDE DEF ids, n
<1>4. /\ Append(ids, a.guid) \in Seq(Guids \cup {Absent}) /\ Len(Append(ids, a.guid)) = n + 1
      /\ \A i \in 1 .. n : Append(ids, a.guid)[i] = ids[i]
      /\ Append(ids, a.guid)[n + 1] = a.guid
  BY <1>2, <1>3, AppendProperties
<1>5. Append(ids, a.guid) = [i \in 1 .. n + 1 |-> Append(ids, a.guid)[i]]
  BY <1>4, LenProperties, SeqDef
<1>. HIDE DEF more
<1>6. \A i \in 1 .. n + 1 : more[i].guid = Append(ids, a.guid)[i]
  <2>1. \A i \in 1 .. n + 1 : i \in 1 .. n \/ i = n + 1
    BY <1>1
  <2>. QED
    BY <1>1, <1>2, <1>4, <2>1
<1>7. GuidsOf(more) = [i \in 1 .. n + 1 |-> more[i].guid]
  BY <1>1 DEF GuidsOf
<1>. QED
  BY <1>5, <1>6, <1>7 DEF ids, more

LEMMA GuidsOfLength ==
  ASSUME NEW q \in Seq(Actions)
  PROVE  Len(GuidsOf(q)) = Len(q)
<1>1. Len(q) \in Nat /\ DOMAIN q = 1 .. Len(q) /\ \A i \in 1 .. Len(q) : q[i] \in Actions
  BY LenProperties, ElementOfSeq
<1>2. GuidsOf(q) \in [1 .. Len(q) -> Guids \cup {Absent}]
  BY <1>1 DEF GuidsOf, Actions
<1>3. GuidsOf(q) \in Seq(Guids \cup {Absent})
  BY <1>1, <1>2, SeqDef
<1>4. DOMAIN GuidsOf(q) = 1 .. Len(q) /\ DOMAIN GuidsOf(q) = 1 .. Len(GuidsOf(q))
  BY <1>2, <1>3, LenProperties
<1>. QED
  BY <1>1, <1>3, <1>4, LenProperties

\* No action before the one that FirstWithGuid finds has the GUID.
LEMMA FirstWithGuidIsFirst ==
  ASSUME NEW q \in Seq(Actions), NEW g, FirstWithGuid(q, g) # 0
  PROVE  \A j \in 1 .. FirstWithGuid(q, g) - 1 : q[j].guid # g
<1>. DEFINE I == {i \in 1 .. Len(q) : q[i].guid = g}
<1>1. FirstWithGuid(q, g) = IF I # {} THEN Min(I) ELSE 0
  BY DEF FirstWithGuid, SelectInSeq
<1>2. I \in SUBSET Nat /\ Len(q) \in Nat
  BY LenProperties
<1>3. FirstWithGuid(q, g) \in I /\ \A i \in I : FirstWithGuid(q, g) <= i
  <2>. HIDE DEF I
  <2>. QED BY <1>1, <1>2, SmallestMember
<1>4. FirstWithGuid(q, g) \in 1 .. Len(q)
  BY <1>3
<1>. DEFINE m == FirstWithGuid(q, g)
<1>5. \A j \in 1 .. m - 1 : j \in 1 .. Len(q) /\ ~ (m <= j)
  <2>. HIDE DEF m
  <2>1. m \in 1 .. Len(q)
    BY <1>4 DEF m
  <2>. QED
    BY <1>2, <2>1
<1>. QED
  BY <1>3, <1>5

\* What the queue, the values and the trail are does not depend on the requests.
LEMMA ExplainedStays ==
  ASSUME Explained, UNCHANGED <<queue, exchange, audit>>
  PROVE  Explained'
BY TrailStays DEF Explained, GuidsOf

\* A request that begins knows nothing yet.
LEMMA BeginKeepsOInv ==
  ASSUME OneAtATime, OInv, NEW r \in Requests, Begin(r)
  PROVE  OInv'
<1>1. Active = {} /\ Explained
  BY BeginAlone DEF OInv
<1>2. Explained'
  BY <1>1, ExplainedStays DEF Begin
<1>3. /\ \A q \in Requests \ {r} : pc'[q] = pc[q]
      /\ pc'[r] \in {"rpush", "lrange", "llen", "hget"}
  BY BeginDoes DEF OInv
<1>4. Active' \subseteq {r}
  BY <1>1, <1>3 DEF Active
<1>. QED
  BY <1>2, <1>3, <1>4, NoRowKeepsOInv DEF Begin, OnItsWay, Next

\* The commands on the queue.
LEMMA QueueKeepsOInv ==
  ASSUME OneAtATime, OInv, NEW r \in Requests,
         PushAction(r) \/ RemoveAction(r) \/ PurgeActions(r)
  PROVE  OInv'
<1>1. /\ queue \in Seq(Actions) /\ req \in [Requests -> Locals] /\ pc \in [Requests -> Labels]
      /\ pc[r] \in {"rpush", "lrem", "del"}
  BY DEF OInv, IInv, TypeOK, PushAction, RemoveAction, PurgeActions
<1>2. Active' \subseteq {r} /\ OnItsWay(r) /\ Active = {r}
  BY OnlyHandler DEF Handler
<1>3. Explained
  BY <1>1, <1>2 DEF OInv
<1>4. /\ pc'[r] = "audit" /\ UNCHANGED <<exchange, audit, req>>
      /\ pc[r] = "rpush" => queue' = Append(queue, req[r].action) /\ req[r].kind = "push"
      /\ pc[r] = "lrem" => queue' = RemoveFirst(queue, req[r].action) /\ req[r].kind = "remove"
      /\ pc[r] = "del" => queue' = <<>> /\ req[r].kind = "purge"
  BY <1>1 DEF OneAtATime, PushAction, RemoveAction, PurgeActions, LRem, Replies, Performed,
     OInv, LabelsOK
<1>5. GuidsOf(queue') = Replay(Remaining, AuditRow(r))
  <2>1. CASE pc[r] = "rpush"
    <3>1. req[r].action \in Actions /\ req[r].action.guid = req[r].guid
      BY <1>4, <2>1 DEF OInv, LabelsOK
    <3>2. GuidsOf(Append(queue, req[r].action)) = Append(GuidsOf(queue), req[r].guid)
      BY <1>1, <3>1, GuidsOfAppend
    <3>. QED
      BY <1>3, <1>4, <2>1, <3>2 DEF Explained, Replay, AuditRow
  <2>2. CASE pc[r] = "lrem"
    <3>1. PICK i \in DOMAIN queue : /\ queue[i] = req[r].action
                                    /\ \A j \in 1 .. i - 1 : queue[j].guid # req[r].guid
      BY <1>2, <2>2 DEF OnItsWay
    <3>2. queue[i].guid = req[r].guid
      BY <2>2, <3>1 DEF OInv, IInv, HandlerOK
    <3>3. GuidsOf(RemoveFirst(queue, queue[i])) = RemoveFirst(GuidsOf(queue), req[r].guid)
      BY <1>1, <3>1, <3>2, RemovedAsReplayed
    <3>. QED
      BY <1>3, <1>4, <2>2, <3>1, <3>3 DEF Explained, Replay, AuditRow
  <2>3. CASE pc[r] = "del"
    BY <1>4, <2>3 DEF GuidsOf, Replay, AuditRow
  <2>. QED
    BY <1>1, <2>1, <2>2, <2>3
<1>6. req[r].kind = "purge" => req[r].count = Len(Remaining)
  <2>. SUFFICES ASSUME pc[r] = "del" PROVE req[r].count = Len(Remaining)
    BY <1>1, <1>4
  <2>1. Len(GuidsOf(queue)) = Len(queue)
    BY <1>1, GuidsOfLength
  <2>. QED
    BY <1>2, <1>3, <2>1 DEF OnItsWay, Explained
<1>7. ExplainedWith(r)'
  <2>1. Remaining' = Remaining /\ (\A f : LastSet(f)' = LastSet(f)) /\ AuditRow(r)' = AuditRow(r)
    BY <1>4, TrailStays DEF AuditRow
  <2>2. req[r].kind # "set" /\ \A f \in Fields : exchange[f] = LastSet(f)
    BY <1>1, <1>3, <1>4 DEF Explained
  <2>. QED
    BY <1>4, <1>5, <1>6, <2>1, <2>2 DEF ExplainedWith
<1>8. OnItsWay(r)'
  BY <1>4 DEF OnItsWay
<1>. QED
  BY <1>2, <1>4, <1>7, <1>8, NoRowKeepsOInv DEF Next, Handler

\* The commands that read, and what was read is so.
LEMMA ReadsKeepOInv ==
  ASSUME OneAtATime, OInv, NEW r \in Requests,
         FindAction(r) \/ CountActions(r) \/ ReadOldValue(r)
  PROVE  OInv'
<1>1. /\ queue \in Seq(Actions) /\ req \in [Requests -> Locals] /\ pc \in [Requests -> Labels]
      /\ exchange \in [Fields -> Values \cup {Absent}]
      /\ pc[r] \in {"lrange", "llen", "hget"} /\ UNCHANGED <<queue, exchange, audit>>
  BY DEF OInv, IInv, TypeOK, FindAction, CountActions, ReadOldValue
<1>2. Active' \subseteq {r} /\ Active = {r}
  BY OnlyHandler DEF Handler
<1>3. Explained'
  BY <1>1, <1>2, ExplainedStays DEF OInv
<1>4. pc'[r] # "audit"
  BY <1>1 DEF FindAction, CountActions, ReadOldValue
<1>5. OnItsWay(r)'
  <2>1. CASE FindAction(r)
    <3>. DEFINE i == FirstWithGuid(queue, req[r].guid)
    <3>1. pc'[r] \in {"lrem", "error"}
          /\ (pc'[r] = "lrem" => i # 0 /\ req'[r].action = queue[i] /\ req'[r].guid = req[r].guid)
      BY <1>1, <2>1 DEF FindAction, Locals
    <3>2. i # 0 => i \in DOMAIN queue /\ \A j \in 1 .. i - 1 : queue[j].guid # req[r].guid
      BY <1>1, FirstWithGuidIsFirst, FirstWithGuidFinds
    <3>. HIDE DEF i
    <3>. QED
      BY <1>1, <3>1, <3>2 DEF OnItsWay
  <2>2. CASE CountActions(r)
    <3>1. pc'[r] = "del" /\ req'[r].count = Len(queue)
      BY <1>1, <2>2 DEF CountActions, OneAtATime, Replies, Locals
    <3>. QED
      BY <1>1, <3>1 DEF OnItsWay
  <2>3. CASE ReadOldValue(r)
    <3>1. pc'[r] = "hset" /\ req'[r].old = exchange[req[r].field] /\ req'[r].field = req[r].field
      BY <1>1, <2>3 DEF ReadOldValue, OneAtATime, Replies, Locals
    <3>. QED
      BY <1>1, <3>1 DEF OnItsWay
  <2>. QED
    BY <2>1, <2>2, <2>3
<1>. QED
  BY <1>1, <1>2, <1>3, <1>4, <1>5, NoRowKeepsOInv DEF Next, Handler

\* HSET.
LEMMA SetKeepsOInv ==
  ASSUME OneAtATime, OInv, NEW r \in Requests, SetExchangeValue(r)
  PROVE  OInv'
<1>1. /\ pc \in [Requests -> Labels] /\ exchange \in [Fields -> Values \cup {Absent}]
      /\ pc[r] = "hset" /\ req[r].kind = "set" /\ req[r].field \in Fields
      /\ UNCHANGED <<queue, audit, req>>
  BY DEF OInv, IInv, TypeOK, HandlerOK, LabelsOK, SetExchangeValue
<1>2. Active' \subseteq {r} /\ Active = {r} /\ OnItsWay(r)
  BY OnlyHandler DEF Handler
<1>3. Explained
  BY <1>1, <1>2 DEF OInv
<1>4. pc'[r] = "audit" /\ exchange' = [exchange EXCEPT ![req[r].field] = req[r].value]
  BY <1>1 DEF SetExchangeValue, OneAtATime, Replies, Performed
<1>5. Remaining' = Remaining /\ (\A f : LastSet(f)' = LastSet(f)) /\ AuditRow(r)' = AuditRow(r)
  BY <1>1, TrailStays DEF AuditRow
<1>6. Replay(Remaining, AuditRow(r)) = Remaining
  BY <1>1 DEF Replay, AuditRow
<1>7. ExplainedWith(r)'
  <2>1. req[r].old = LastSet(req[r].field)
    BY <1>1, <1>2, <1>3 DEF OnItsWay, Explained
  <2>2. \A f \in Fields :
          exchange'[f] = IF req[r].field = f THEN req[r].value ELSE LastSet(f)
    BY <1>1, <1>3, <1>4 DEF Explained
  <2>3. GuidsOf(queue') = Remaining
    BY <1>1, <1>3 DEF Explained
  <2>. QED
    BY <1>1, <1>5, <1>6, <2>1, <2>2, <2>3 DEF ExplainedWith
<1>8. OnItsWay(r)'
  BY <1>4 DEF OnItsWay
<1>. QED
  BY <1>1, <1>2, <1>4, <1>7, <1>8, NoRowKeepsOInv DEF Next, Handler

\* The row, which explains what it was written for.
LEMMA LogAuditKeepsOInv ==
  ASSUME OneAtATime, OInv, NEW r \in Requests, LogAudit(r)
  PROVE  OInv'
<1>. DEFINE n == Len(audit)
            row == AuditRow(r)
<1>1. /\ audit \in Seq(AuditRows) /\ row \in AuditRows /\ audit' = Append(audit, row)
      /\ n \in Nat /\ DOMAIN audit = 1 .. n
  BY LenProperties DEF LogAudit, OneAtATime, OInv, IInv, TypeOK, HandlerOK, Locals, AuditRow, AuditRows
<1>2. /\ audit' \in Seq(AuditRows) /\ Len(audit') = n + 1 /\ DOMAIN audit' = 1 .. n + 1
      /\ \A i \in 1 .. n : audit'[i] = audit[i]
      /\ audit'[n + 1] = row
  BY <1>1, AppendProperties, LenProperties
<1>3. /\ \A i \in 0 .. n : Replayed'[i] = Replayed[i]
      /\ Remaining' = Replay(Remaining, row)
  BY <1>1, ReplayedGrows DEF Remaining
<1>4. Active = {r} /\ pc[r] = "audit" /\ pc'[r] = "ok" /\ ExplainedWith(r)
  <2>1. Active = {r}
    BY OnlyHandler DEF Handler
  <2>. QED
    BY <2>1 DEF LogAudit, OInv, IInv, TypeOK
<1>5. Active' = {}
  <2>1. Active' \subseteq {r}
    BY OnlyHandler DEF Handler
  <2>2. r \notin Active'
    BY <1>4 DEF Active, Terminal
  <2>. QED
    BY <2>1, <2>2
<1>6. UNCHANGED <<queue, exchange, req>>
  BY DEF LogAudit
<1>7. Explained'
  <2>1. GuidsOf(queue)' = Remaining'
    BY <1>3, <1>4, <1>6 DEF ExplainedWith, GuidsOf
  <2>2. \A f \in Fields : exchange'[f] = LastSet(f)'
    BY <1>1, <1>4, <1>6, SetBeforeGrows DEF ExplainedWith, AuditRow
  <2>. QED
    BY <2>1, <2>2 DEF Explained
<1>8. PurgeCountsExactly'
  <2>. SUFFICES ASSUME NEW i \in 1 .. n + 1, audit'[i].kind = "purge"
                PROVE  audit'[i].count = Len(Replayed'[i - 1])
    BY <1>2 DEF PurgeCountsExactly
  <2>1. CASE i \in 1 .. n
    <3>1. i - 1 \in 0 .. n
      BY <1>1, <2>1
    <3>. QED
      BY <1>1, <1>2, <1>3, <2>1, <3>1 DEF OInv, PurgeCountsExactly
  <2>2. CASE i = n + 1
    <3>1. i - 1 = n /\ n \in 0 .. n
      BY <1>1, <2>2
    <3>2. row.kind = "purge" => row.count = Len(Remaining)
      BY <1>4 DEF ExplainedWith, AuditRow
    <3>. QED
      BY <1>2, <1>3, <2>2, <3>1, <3>2 DEF Remaining
  <2>. QED
    BY <2>1, <2>2
<1>9. ASSUME NEW f \in Fields
      PROVE  (\A i \in SetRows(f) : audit[i].old = SetBefore(f, i))'
  <2>. SUFFICES ASSUME NEW i \in SetRows(f)'
                PROVE  audit'[i].old = SetBefore(f, i)'
    OBVIOUS
  <2>1. i \in 1 .. n + 1
    BY <1>2 DEF SetRows
  <2>2. SetBefore(f, i)' = SetBefore(f, i)
    BY <1>1, <2>1, SetBeforeGrows
  <2>3. CASE i \in 1 .. n
    <3>1. i \in SetRows(f)
      BY <1>1, <2>3, SetBeforeGrows
    <3>. QED
      BY <1>2, <2>2, <2>3, <3>1 DEF OInv
  <2>4. CASE i = n + 1
    <3>1. row.kind = "set" /\ row.field = f
      BY <1>2, <2>4 DEF SetRows
    <3>2. row.old = LastSet(f)
      BY <1>4, <3>1 DEF ExplainedWith, AuditRow
    <3>. QED
      BY <1>2, <2>2, <2>4, <3>2 DEF LastSet
  <2>. QED
    BY <2>1, <2>3, <2>4
<1>10. IInv' /\ LabelsOK'
  BY NextKeepsIInv, LabelsOKKept DEF OInv, Next, Handler
<1>. HIDE DEF n, row
<1>. QED
  BY <1>5, <1>7, <1>8, <1>9, <1>10 DEF OInv

LEMMA NextKeepsOInv ==
  ASSUME OneAtATime, OInv, [Next]_vars
  PROVE  OInv'
<1>1. CASE UNCHANGED vars
  <2>1. UNCHANGED <<queue, exchange, audit, pc, req>>
    BY <1>1 DEF vars
  <2>2. IInv' /\ LabelsOK' /\ Active' = Active
    BY <2>1, NextKeepsIInv, LabelsOKKept DEF OInv, Active
  <2>3. Explained => Explained'
    BY <2>1, ExplainedStays
  <2>4. /\ PurgeCountsExactly'
        /\ \A f \in Fields : (\A i \in SetRows(f) : audit[i].old = SetBefore(f, i))'
    BY <2>1, TrailStays DEF OInv
  <2>5. ASSUME NEW r \in Active
        PROVE  OnItsWay(r)' /\ (pc'[r] = "audit" => ExplainedWith(r)')
    <3>1. OnItsWay(r)'
      BY <2>1 DEF OInv, OnItsWay
    <3>2. pc[r] = "audit" => ExplainedWith(r)
      BY DEF OInv
    <3>3. Remaining' = Remaining /\ (\A f : LastSet(f)' = LastSet(f)) /\ AuditRow(r)' = AuditRow(r)
      BY <2>1, TrailStays DEF AuditRow
    <3>. QED
      BY <2>1, <3>1, <3>2, <3>3 DEF ExplainedWith
  <2>. QED
    BY <2>1, <2>2, <2>3, <2>4, <2>5 DEF OInv
<1>2. CASE \E r \in Requests : Begin(r) \/ Handler(r)
  BY <1>2, BeginKeepsOInv, QueueKeepsOInv, ReadsKeepOInv, SetKeepsOInv, LogAuditKeepsOInv
     DEF Handler
<1>3. ~ GatewayTakes /\ ~ GatewayWrites /\ ~ Exit /\ \A r : ~ SendAgain(r)
  BY NoSendAgain DEF OneAtATime, GatewayTakes, GatewayWrites, Exit
<1>. QED
  BY <1>1, <1>2, <1>3 DEF Next, Finished

LEMMA OInvAlways ==
  ASSUME OneAtATime
  PROVE  Spec => []OInv
<1>1. OInv /\ [Next]_vars => OInv'
  BY NextKeepsOInv
<1>. QED
  BY <1>1, InitOInv, PTL DEF Spec

\* Between two requests of the operator who waits for an answer, replaying the
\* rows of audit_log gives the list of actions, in order.
THEOREM AuditExplainsQueueAlways ==
  ASSUME OneAtATime
  PROVE  Spec => []AuditExplainsQueue
<1>1. OInv => AuditExplainsQueue
  BY DEF OInv, Explained, GuidsOf, Remaining, AuditExplainsQueue
<1>. QED
  BY <1>1, OInvAlways, PTL

\* The row of a purge counts what the rows before it had left in the queue: LLEN
\* and DEL are two commands, and the count is what was deleted.
THEOREM PurgeCountsExactlyAlways ==
  ASSUME OneAtATime
  PROVE  Spec => []PurgeCountsExactly
<1>1. OInv => PurgeCountsExactly
  BY DEF OInv
<1>. QED
  BY <1>1, OInvAlways, PTL

\* The rows about an exchange value form a chain from no value to the present one:
\* the old value of each is the new value of the one before.
THEOREM AuditChainAlways ==
  ASSUME OneAtATime
  PROVE  Spec => []AuditChain
<1>1. OInv => AuditChain
  BY DEF OInv, Explained, LastSet, AuditChain
<1>. QED
  BY <1>1, OInvAlways, PTL
=============================================================================
