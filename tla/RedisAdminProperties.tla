------------------------ MODULE RedisAdminProperties ------------------------
(***************************************************************************)
(* What the requests that change Redis promise, to each other and to the   *)
(* reader of the audit trail.                                              *)
(***************************************************************************)
EXTENDS RedisAdmin

\* Each time an LREM of a remove request reaches Redis, the last or one whose
\* reply is lost and which is sent again, it takes at most one action off the queue,
\* one with the GUID that was asked for, and leaves the others in order, although it
\* acts on a snapshot that pushes, purges, other removes, the gateway and its own
\* earlier tries have overtaken.
RemovesOnlyItsAction ==
  [][\A r \in Requests :
       pc[r] = "lrem" /\ (pc'[r] = "audit" \/ req'[r].resent # req[r].resent) =>
         \/ queue' = queue
         \/ \E i \in DOMAIN queue : /\ queue[i].guid = req[r].guid
                                    /\ queue' = RemoveAt(queue, i)]_vars

InQueue == {a.guid : a \in ToSet(queue)}
Rows(k) == {row \in ToSet(audit) : row.kind = k}
Audited(k) == {row.guid : row \in Rows(k)}
RemovalAsked(g) == \E r \in Requests : req[r].kind = "remove" /\ req[r].guid = g

\* With the UI's fresh GUIDs and no gateway, at every instant and wherever the
\* process ends: what the trail calls removed is not in the queue, and what it
\* calls pushed is, unless somebody asked for its removal.
AuditNeverLies ==
  /\ Audited("remove") \cap InQueue = {}
  /\ \A g \in Audited("push") : g \in InQueue \/ RemovalAsked(g)

Settled == \A r \in Requests : pc[r] \in {"idle", "ok", "error"}

\* With every request answered, the queue holds exactly what the trail calls
\* pushed and does not call removed, however the requests interleaved.
AuditExplainsQueueSet ==
  Settled => InQueue = Audited("push") \ Audited("remove")

\* With every request answered, an exchange value that the gateway does not write
\* has a row in the trail: whoever wrote last is named, although writers overtake
\* each other between HSET and the row.
LastWriterAudited ==
  Settled =>
    \A f \in Fields :
      exchange[f] \notin GatewayValues \cup {Absent} =>
        \E row \in Rows("set") : row.field = f /\ row.new = exchange[f]

-----------------------------------------------------------------------------
(***************************************************************************)
(* One request at a time: replaying the trail gives the state.             *)
(***************************************************************************)
Replay(guids, row) ==
  CASE row.kind = "push"   -> Append(guids, row.guid)
    [] row.kind = "remove" -> RemoveFirst(guids, row.guid)
    [] row.kind = "purge"  -> <<>>
    [] OTHER               -> guids

\* The GUIDs that the rows of the trail leave in the queue, after each row.
Replayed[n \in 0 .. Len(audit)] ==
  IF n = 0 THEN <<>> ELSE Replay(Replayed[n - 1], audit[n])

\* The rows of the trail, replayed, give the queue, in order.
AuditExplainsQueue ==
  Active = {} => Replayed[Len(audit)] = [i \in DOMAIN queue |-> queue[i].guid]

\* A purge row counts the actions that the rows before it had left.
PurgeCountsExactly ==
  \A i \in DOMAIN audit :
    audit[i].kind = "purge" => audit[i].count = Len(Replayed[i - 1])

\* The rows about an exchange value, and what those before row n say it is.
SetRows(f) == {i \in DOMAIN audit : audit[i].kind = "set" /\ audit[i].field = f}
SetBefore(f, n) ==
  LET earlier == {i \in SetRows(f) : i < n}
  IN  IF earlier = {} THEN Absent ELSE audit[Max(earlier)].new

\* The rows about an exchange value form a chain: each starts from the value the
\* one before it wrote, and the last wrote the present value.
AuditChain ==
  \A f \in Fields :
    /\ \A i \in SetRows(f) : audit[i].old = SetBefore(f, i)
    /\ Active = {} => exchange[f] = SetBefore(f, Len(audit) + 1)

-----------------------------------------------------------------------------
\* sqlite.go: "LogAudit records a Redis modification in the audit trail".  No
\* action is recorded as removed more often than it was pushed.
OneRowPerModification ==
  \A g \in Guids :
    Len(SelectSeq(audit, LAMBDA row : row.kind = "remove" /\ row.guid = g))
      <= Cardinality({r \in Requests : req[r].kind = "push" /\ req[r].guid = g})
=============================================================================
