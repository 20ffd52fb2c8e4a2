----------------------------- MODULE RedisAdmin -----------------------------
(***************************************************************************)
(* The requests that change Redis: PushAction, RemoveAction, PurgeActions  *)
(* and SetExchangeValue of internal/api/redis_handler.go, the functions of *)
(* internal/redis/client.go they call, and the rows they write to          *)
(* audit_log.                                                              *)
(*                                                                         *)
(* A Redis command is atomic; a handler makes one or two and then writes   *)
(* the audit row to another database, and other handlers run in between.   *)
(* The commands use the client's own background context, so a client that  *)
(* goes away does not stop its handler.  The gateway, outside the          *)
(* repository, takes actions from the queue and writes exchange values.    *)
(*                                                                         *)
(* A definition Name_Variant is a plausible mistake in Name; nothing here  *)
(* uses it.  The properties are shown to notice it.                        *)
(***************************************************************************)
EXTENDS Integers, SequencesExt

CONSTANTS
  Requests,   \* identities of the HTTP requests of a behaviour
  Guids,      \* GUIDs an action can have
  Bodies,     \* the rest of an action
  Fields,     \* the fields of the exchange tables
  Values,     \* exchange values
  Absent,     \* the empty string: no value
  Kinds,      \* the kinds of request made
  GatewayTakesActions, \* does the gateway take actions from the queue meanwhile?
  GatewayValues, \* the values it writes meanwhile
  Faults,     \* what may go wrong
  FreshGuids, \* does every push bring a GUID of its own, as the UI's do?
  MaxInFlight, \* requests in flight at once
  MaxRetries  \* how often the client sends a command again

ASSUME KindsAssumption ==
  /\ Kinds \subseteq {"push", "remove", "purge", "set"}
  /\ Faults \subseteq {"redis", "sqlite", "exit"}
ASSUME ValuesAssumption ==
  /\ Absent \notin Values \cup Guids
  /\ GatewayValues \subseteq Values
ASSUME FlagsAssumption ==
  /\ FreshGuids \in BOOLEAN /\ GatewayTakesActions \in BOOLEAN
  /\ MaxInFlight \in Nat /\ MaxRetries \in Nat

VARIABLES
  queue,    \* the list essensys:global:actions
  exchange, \* the hashes essensys:client:*:exchange, flattened
  audit,    \* the table audit_log
  pc,       \* where each request's handler is
  req       \* its path, body and local variables

vars == <<queue, exchange, audit, pc, req>>

Actions == [guid : Guids \cup {Absent}, body : Bodies]
NoAction == [guid |-> Absent, body |-> Absent]

Terminal == {"ok", "error", "lost"}
Labels == {"idle", "rpush", "lrange", "lrem", "llen", "del", "hget", "hset",
           "audit"} \cup Terminal
Active == {r \in Requests : pc[r] \notin Terminal \cup {"idle"}}

FirstLabel ==
  [push |-> "rpush", remove |-> "lrange", purge |-> "llen", set |-> "hget"]

\* action: what is pushed, or what the snapshot held; guid, field and value
\* come from the request; old and count were read from Redis; resent counts the
\* commands performed and sent again.
Locals == [kind : Kinds \cup {"none"}, action : Actions \cup {NoAction},
           guid : Guids \cup {Absent}, field : Fields \cup {Absent},
           value : Values \cup {Absent}, old : Values \cup {Absent}, count : Nat,
           resent : 0 .. MaxRetries]
NewRequest(k, a, g, f, v) ==
  [kind |-> k, action |-> a, guid |-> g, field |-> f, value |-> v,
   old |-> Absent, count |-> 0, resent |-> 0]

AuditRows == [kind : Kinds, guid : Guids \cup {Absent}, field : Fields \cup {Absent},
              old : Values \cup {Absent}, new : Values \cup {Absent}, count : Nat]

TypeOK ==
  /\ queue \in Seq(Actions)
  /\ exchange \in [Fields -> Values \cup {Absent}]
  /\ audit \in Seq(AuditRows)
  /\ pc \in [Requests -> Labels]
  /\ req \in [Requests -> Locals]

Init ==
  /\ queue = <<>>
  /\ exchange = [f \in Fields |-> Absent]
  /\ audit = <<>>
  /\ pc = [r \in Requests |-> "idle"]
  /\ req = [r \in Requests |-> NewRequest("none", NoAction, Absent, Absent, Absent)]

-----------------------------------------------------------------------------
At(r, label) == pc[r] = label
Goto(r, label) == pc' = [pc EXCEPT ![r] = label]

\* A Redis command answers "ok", is "refused", or is performed while the reply
\* is lost.  SendAgain is the client that loses a reply and tries again.
Replies == {"ok"} \cup (IF "redis" \in Faults THEN {"refused", "unanswered"} ELSE {})
Performed(reply) == reply # "refused"

Used == {req[q].guid : q \in {q \in Requests : req[q].kind = "push"}}

\* A request reaches its handler with a valid path and body; the handlers accept
\* an action without a GUID and an empty value.
Begin(r) ==
  /\ At(r, "idle")
  /\ Cardinality(Active) < MaxInFlight
  /\ \E k \in Kinds :
       /\ Goto(r, FirstLabel[k])
       /\ \/ /\ k = "push"
             /\ \E a \in Actions :
                  /\ FreshGuids => a.guid \notin Used \cup {Absent}
                  /\ req' = [req EXCEPT ![r] = NewRequest(k, a, a.guid, Absent, Absent)]
          \/ /\ k = "remove"
             /\ \E g \in Guids :
                  req' = [req EXCEPT ![r] = NewRequest(k, NoAction, g, Absent, Absent)]
          \/ /\ k = "purge"
             /\ req' = [req EXCEPT ![r] = NewRequest(k, NoAction, Absent, Absent, Absent)]
          \/ /\ k = "set"
             /\ \E f \in Fields, v \in Values \cup {Absent} :
                  req' = [req EXCEPT ![r] = NewRequest(k, NoAction, Absent, f, v)]
  /\ UNCHANGED <<queue, exchange, audit>>

PushAction(r) ==
  /\ At(r, "rpush")
  /\ \E reply \in Replies :
       /\ queue' = IF Performed(reply) THEN Append(queue, req[r].action) ELSE queue
       /\ Goto(r, IF reply = "ok" THEN "audit" ELSE "error")
  /\ UNCHANGED <<exchange, audit, req>>

(***************************************************************************)
(* RemoveAction reads the whole list, looks for the first action with the  *)
(* GUID in that snapshot, and removes one element equal to it from what    *)
(* the list has become; the result of LREM is dropped.                     *)
(***************************************************************************)
FirstWithGuid(q, g) == SelectInSeq(q, LAMBDA a : a.guid = g)

FindAction(r) ==
  /\ At(r, "lrange")
  /\ LET i == FirstWithGuid(queue, req[r].guid)
     IN  \E reply \in Replies :
           IF reply = "ok" /\ i # 0
           THEN /\ req' = [req EXCEPT ![r].action = queue[i]]
                /\ Goto(r, "lrem")
           ELSE /\ Goto(r, "error")
                /\ UNCHANGED req
  /\ UNCHANGED <<queue, exchange, audit>>

LRem_AllEqual(q, r) == SelectSeq(q, LAMBDA a : a # req[r].action)
LRem_None(q, r) == q
LRem(q, r) == RemoveFirst(q, req[r].action)

RemoveAction(r) ==
  /\ At(r, "lrem")
  /\ \E reply \in Replies :
       queue' = IF Performed(reply) THEN LRem(queue, r) ELSE queue
  /\ Goto(r, "audit")
  /\ UNCHANGED <<exchange, audit, req>>

\* PurgeActions counts the list, then deletes it; a failed count is 0.
CountActions_MinusOne(r) ==
  /\ At(r, "llen")
  /\ \E reply \in Replies :
       req' = [req EXCEPT ![r].count = IF reply = "ok" THEN Len(queue) ELSE -1]
  /\ Goto(r, "del")
  /\ UNCHANGED <<queue, exchange, audit>>
CountActions(r) ==
  /\ At(r, "llen")
  /\ \E reply \in Replies :
       req' = [req EXCEPT ![r].count = IF reply = "ok" THEN Len(queue) ELSE 0]
  /\ Goto(r, "del")
  /\ UNCHANGED <<queue, exchange, audit>>

PurgeActions_KeepsFirst(r) ==
  /\ At(r, "del")
  /\ \E reply \in Replies :
       /\ queue' = IF Performed(reply) /\ queue # <<>> THEN <<Head(queue)>> ELSE queue
       /\ Goto(r, IF reply = "ok" THEN "audit" ELSE "error")
  /\ UNCHANGED <<exchange, audit, req>>
PurgeActions(r) ==
  /\ At(r, "del")
  /\ \E reply \in Replies :
       /\ queue' = IF Performed(reply) THEN <<>> ELSE queue
       /\ Goto(r, IF reply = "ok" THEN "audit" ELSE "error")
  /\ UNCHANGED <<exchange, audit, req>>

\* SetExchangeValue reads the old value, then writes; a failed read is "".
ReadOldValue(r) ==
  /\ At(r, "hget")
  /\ \E reply \in Replies :
       req' = [req EXCEPT ![r].old =
                 IF reply = "ok" THEN exchange[req[r].field] ELSE Absent]
  /\ Goto(r, "hset")
  /\ UNCHANGED <<queue, exchange, audit>>

SetExchangeValue(r) ==
  /\ At(r, "hset")
  /\ \E reply \in Replies :
       /\ exchange' = IF Performed(reply)
                      THEN [exchange EXCEPT ![req[r].field] = req[r].value]
                      ELSE exchange
       /\ Goto(r, IF reply = "ok" THEN "audit" ELSE "error")
  /\ UNCHANGED <<queue, audit, req>>

(***************************************************************************)
(* The client is made with the default options of go-redis: a command      *)
(* whose reply is lost is sent again, although Redis has performed it.     *)
(* Other requests run in between.  To read again is to read later.         *)
(***************************************************************************)
SendAgain(r) ==
  /\ "redis" \in Faults
  /\ req[r].resent < MaxRetries
  /\ \/ /\ At(r, "rpush")
        /\ queue' = Append(queue, req[r].action)
        /\ UNCHANGED exchange
     \/ /\ At(r, "lrem")
        /\ queue' = LRem(queue, r)
        /\ UNCHANGED exchange
     \/ /\ At(r, "del")
        /\ queue' = <<>>
        /\ UNCHANGED exchange
     \/ /\ At(r, "hset")
        /\ exchange' = [exchange EXCEPT ![req[r].field] = req[r].value]
        /\ UNCHANGED queue
  /\ req' = [req EXCEPT ![r].resent = @ + 1]
  /\ UNCHANGED <<audit, pc>>

\* The handler's last step; an error of the store is dropped.
AuditRow_OldIsNew(r) ==
  [kind |-> req[r].kind, guid |-> req[r].guid, field |-> req[r].field,
   old |-> req[r].value, new |-> req[r].value, count |-> req[r].count]
AuditRow_NewIsOld(r) ==
  [kind |-> req[r].kind, guid |-> req[r].guid, field |-> req[r].field,
   old |-> req[r].old, new |-> req[r].old, count |-> req[r].count]
AuditRow(r) ==
  [kind |-> req[r].kind, guid |-> req[r].guid, field |-> req[r].field,
   old |-> req[r].old, new |-> req[r].value, count |-> req[r].count]

LogAudit(r) ==
  /\ At(r, "audit")
  /\ audit' \in {Append(audit, AuditRow(r))}
                \cup (IF "sqlite" \in Faults THEN {audit} ELSE {})
  /\ Goto(r, "ok")
  /\ UNCHANGED <<queue, exchange, req>>

-----------------------------------------------------------------------------
\* The gateway takes the oldest action, or writes an exchange value.
GatewayTakes ==
  /\ GatewayTakesActions /\ queue # <<>>
  /\ queue' = Tail(queue)
  /\ UNCHANGED <<exchange, audit, pc, req>>

GatewayWrites ==
  /\ \E f \in Fields, v \in GatewayValues :
       exchange' = [exchange EXCEPT ![f] = v]
  /\ UNCHANGED <<queue, audit, pc, req>>

\* SIGTERM or a crash: the handlers in flight stop where they are.
Exit ==
  /\ "exit" \in Faults
  /\ Active # {}
  /\ pc' = [r \in Requests |-> IF r \in Active THEN "lost" ELSE pc[r]]
  /\ UNCHANGED <<queue, exchange, audit, req>>

Finished ==
  /\ \A r \in Requests : pc[r] \in Terminal
  /\ UNCHANGED vars

Handler(r) ==
  \/ PushAction(r)
  \/ FindAction(r) \/ RemoveAction(r)
  \/ CountActions(r) \/ PurgeActions(r)
  \/ ReadOldValue(r) \/ SetExchangeValue(r)
  \/ LogAudit(r)

Next ==
  \/ \E r \in Requests : Begin(r) \/ Handler(r) \/ SendAgain(r)
  \/ GatewayTakes
  \/ GatewayWrites
  \/ Exit
  \/ Finished

Spec == Init /\ [][Next]_vars
=============================================================================
