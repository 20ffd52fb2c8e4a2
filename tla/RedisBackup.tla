----------------------------- MODULE RedisBackup -----------------------------
(***************************************************************************)
(* Backup and restore of the database: Backup and Restore of               *)
(* internal/api/redis_handler.go, with BackupAll, RestoreAll and scanKeys  *)
(* of internal/redis/client.go.                                            *)
(*                                                                         *)
(* Both work key by key, one Redis command after the other, while other    *)
(* requests and the gateway change the same keys.  Every error but that of *)
(* SCAN is dropped.  A key keeps its type; as in Redis, a list, hash or    *)
(* set without elements does not exist.                                    *)
(*                                                                         *)
(* A definition Name_Variant is a plausible mistake in Name; nothing here  *)
(* uses it.  The properties are shown to notice it.                        *)
(***************************************************************************)
EXTENDS Naturals, SequencesExt

CONSTANTS
  Lists, Hashes, Strings, Sets,  \* the keys "essensys:*", by type
  KeyOrder,    \* all of them, in the order in which SCAN goes over them
  NoKey,       \* none of them
  Elements,    \* elements of lists and sets
  Fields,      \* fields of hashes
  Values,      \* values of fields and strings
  EmptyString, \* one of them
  Absent,      \* no value; in a backup, JSON's null
  InitDb,      \* the contents of every key at first
  InitFile,    \* a backup saved before
  Requests,    \* identities of the HTTP requests of a behaviour
  Faults,      \* what may go wrong
  MaxInFlight, \* requests in flight at once
  MaxLen,      \* bound on the length of the lists that others make
  MaxMishaps   \* bound on the changes that others make and the failures

Keys == Lists \cup Hashes \cup Strings \cup Sets

ASSUME KeysAssumption ==
  /\ NoKey \notin Keys
  /\ KeyOrder \in Seq(Keys) /\ Keys = {KeyOrder[i] : i \in DOMAIN KeyOrder}
  /\ Lists \cap (Hashes \cup Strings \cup Sets) = {}
  /\ Hashes \cap (Strings \cup Sets) = {} /\ Strings \cap Sets = {}
ASSUME ValuesAssumption == EmptyString \in Values /\ Absent \notin Values
ASSUME FaultsAssumption == Faults \subseteq {"redis", "sqlite", "exit"}
ASSUME BoundsAssumption == {MaxInFlight, MaxLen, MaxMishaps} \subseteq Nat

VARIABLES
  db,      \* the contents of every key
  file,    \* the backup that was downloaded last
  audit,   \* the table audit_log (rows about backups and restores)
  pc,      \* where each request's handler is
  req,     \* its body and local variables
  spoiled, \* history: the keys that somebody else changed, or of which a
           \* command failed, since each request began
  mishaps  \* how many changes others have made, and commands have failed

vars == <<db, file, audit, pc, req, spoiled, mishaps>>

Contents(k) ==
  CASE k \in Lists   -> Seq(Elements)
    [] k \in Hashes  -> [Fields -> Values \cup {Absent}]
    [] k \in Strings -> Values \cup {Absent}
    [] k \in Sets    -> SUBSET Elements

Empty(k) ==
  CASE k \in Lists   -> <<>>
    [] k \in Hashes  -> [f \in Fields |-> Absent]
    [] k \in Strings -> Absent
    [] k \in Sets    -> {}

Present == {k \in Keys : db[k] # Empty(k)}

\* A backup has an entry for some keys: contents, or null but for strings.
Entries(k) == IF k \in Strings THEN Values ELSE Contents(k) \cup {Absent}
NoEntries == [k \in {} |-> Absent]
IsBackup(data) ==
  DOMAIN data \subseteq Keys /\ \A k \in DOMAIN data : data[k] \in Entries(k)

Terminal == {"ok", "error", "lost"}
Labels == {"idle", "scan", "type", "read", "next", "again", "rpush", "audit"} \cup Terminal
Active == {r \in Requests : pc[r] \notin Terminal \cup {"idle"}}

\* cursor: how far SCAN has gone; found: keys still to be read; todo: keys
\* still to be restored; key: the one being read or restored; rest: what is
\* left to push to it.  At "again" the command for key is sent again.
NewRequest(k, data) ==
  [kind |-> k, data |-> data, cursor |-> 0, found |-> <<>>, todo |-> DOMAIN data,
   key |-> NoKey, rest |-> <<>>]
NoRequest == NewRequest("none", NoEntries)

AuditRows == [kind : {"backup", "restore"}, keys : Nat]

IsDb(d) == DOMAIN d = Keys /\ \A k \in Keys : d[k] \in Contents(k)

ASSUME InitAssumption == IsDb(InitDb) /\ IsBackup(InitFile)

TypeOK ==
  /\ IsDb(db)
  /\ IsBackup(file)
  /\ audit \in Seq(AuditRows)
  /\ pc \in [Requests -> Labels]
  /\ \A r \in Requests : /\ IsBackup(req[r].data)
                         /\ req[r].cursor \in 0 .. Len(KeyOrder)
                         /\ req[r].found \in Seq(Keys)
                         /\ req[r].todo \subseteq Keys
                         /\ req[r].key \in Keys \cup {NoKey}
                         /\ req[r].rest \in Seq(Elements)
  /\ spoiled \in [Requests -> SUBSET Keys]
  /\ mishaps \in 0 .. MaxMishaps

Init ==
  /\ db = InitDb
  /\ file = InitFile
  /\ audit = <<>>
  /\ pc = [r \in Requests |-> "idle"]
  /\ req = [r \in Requests |-> NoRequest]
  /\ spoiled = [r \in Requests |-> {}]
  /\ mishaps = 0

-----------------------------------------------------------------------------
At(r, label) == pc[r] = label
Goto(r, label) == pc' = [pc EXCEPT ![r] = label]

\* A Redis command answers "ok", is "refused", or is performed while the reply
\* is lost.
Replies ==
  {"ok"} \cup (IF "redis" \in Faults /\ mishaps < MaxMishaps
               THEN {"refused", "unanswered"} ELSE {})
\* The client of go-redis sends a command again when it loses the reply.  To read
\* again is to read later; a write is performed, and performed once more.
WriteReplies == Replies \cup {reply \in {"again"} : Replies # {"ok"}}
CountMishap(reply) == mishaps' = IF reply = "ok" THEN mishaps ELSE mishaps + 1

\* For the requests of R in flight, key k is no longer what it was.
Spoil(R, k) ==
  spoiled' = [r \in Requests |->
                IF r \in R \cap Active THEN spoiled[r] \cup {k} ELSE spoiled[r]]

\* The locals of the requests of R go with their handlers.
Forget(R) ==
  /\ req' = [r \in Requests |-> IF r \in R THEN NoRequest ELSE req[r]]
  /\ spoiled' = [r \in Requests |-> IF r \in R THEN {} ELSE spoiled[r]]

\* Request r reads key k; or writes contents v to it.  After a reply of those in
\* sure, the writer's own key is as if the command had been answered.
Read(r, k, reply) ==
  /\ Spoil(IF reply = "ok" THEN {} ELSE {r}, k)
  /\ CountMishap(reply)
Write(r, k, v, reply, sure) ==
  /\ db' = IF reply = "refused" THEN db ELSE [db EXCEPT ![k] = v]
  /\ Spoil((IF reply = "refused" THEN {} ELSE Requests \ {r})
             \cup (IF reply \in sure THEN {} ELSE {r}), k)
  /\ CountMishap(reply)

\* What may be sent more than once, and what may not.
Idempotent == {"ok", "again"}
OnlyOnce == {"ok"}

\* POST /api/redis/backup, or POST /api/redis/restore of the file last saved.
Begin(r) ==
  /\ At(r, "idle")
  /\ Cardinality(Active) < MaxInFlight
  /\ \/ /\ req' = [req EXCEPT ![r] = NewRequest("backup", NoEntries)]
        /\ Goto(r, "scan")
     \/ /\ file # NoEntries
        /\ req' = [req EXCEPT ![r] = NewRequest("restore", file)]
        /\ Goto(r, "next")
  /\ UNCHANGED <<db, file, audit, spoiled, mishaps>>

-----------------------------------------------------------------------------
\* One SCAN goes over the next keys, up to number n, and finds those present;
\* the loop ends when it has gone over all.
Found(r, n) ==
  LET upTo[i \in req[r].cursor .. n] ==
        IF i = req[r].cursor THEN req[r].found
        ELSE IF KeyOrder[i] \in Present THEN Append(upTo[i - 1], KeyOrder[i])
        ELSE upTo[i - 1]
  IN  upTo[n]

ScanComplete_OneCall(n) == TRUE
ScanComplete(n) == n = Len(KeyOrder)

ScanKeys(r) ==
  /\ At(r, "scan")
  /\ \E reply \in Replies, n \in req[r].cursor + 1 .. Len(KeyOrder) :
       IF reply = "ok"
       THEN /\ req' = [req EXCEPT ![r].cursor = n, ![r].found = Found(r, n)]
            /\ Goto(r, IF ScanComplete(n) THEN "type" ELSE "scan")
            /\ UNCHANGED <<spoiled, mishaps>>
       ELSE Goto(r, "error") /\ Forget({r}) /\ CountMishap(reply)
  /\ UNCHANGED <<db, file, audit>>

\* TYPE of a key found: a key that is gone, or an error, means no entry.
ReadType(r) ==
  /\ At(r, "type")
  /\ req[r].found # <<>>
  /\ LET k == Head(req[r].found)
     IN  \E reply \in Replies :
           /\ req' = [req EXCEPT ![r].found = Tail(@), ![r].key = k]
           /\ Goto(r, IF reply = "ok" /\ k \in Present THEN "read" ELSE "type")
           /\ Read(r, k, reply)
  /\ UNCHANGED <<db, file, audit>>

\* What one command reads of a key: null on an error, and for a string the
\* empty string, also when the string is gone since TYPE.
Result_Null(k, reply) == IF reply = "ok" THEN db[k] ELSE Absent
Result(k, reply) ==
  CASE k \in Strings /\ (reply # "ok" \/ db[k] = Absent) -> EmptyString
    [] k \notin Strings /\ reply # "ok" -> Absent
    [] OTHER -> db[k]

ReadKey(r) ==
  /\ At(r, "read")
  /\ LET k == req[r].key
     IN  \E reply \in Replies :
           /\ req' = [req EXCEPT ![r].data =
                        [j \in DOMAIN @ \cup {k} |->
                           IF j = k THEN Result(k, reply) ELSE req[r].data[j]]]
           /\ Read(r, k, reply)
  /\ Goto(r, "type")
  /\ UNCHANGED <<db, file, audit>>

-----------------------------------------------------------------------------
\* RestoreAll takes the entries in any order; a command that is sent again is for
\* the same key.  A null entry, and every set, is passed over.
Upcoming(r) ==
  IF At(r, "again") THEN {req[r].key} ELSE IF At(r, "next") THEN req[r].todo ELSE {}
Take(r, k) == req' = [req EXCEPT ![r].todo = @ \ {k}]

\* One command restores key k; or is about to be sent again.
Restored(r, k, reply) ==
  IF reply = "again"
  THEN Goto(r, "again") /\ req' = [req EXCEPT ![r].key = k]
  ELSE Goto(r, "next") /\ Take(r, k)

PassOver(r) ==
  /\ At(r, "next")
  /\ \E k \in req[r].todo :
       /\ k \in Sets \/ req[r].data[k] = Absent
       /\ Take(r, k)
  /\ UNCHANGED <<db, file, audit, pc, spoiled, mishaps>>

\* HSET of all fields of the entry: other fields stay.
RestoreHash(r) ==
  /\ \E k \in Upcoming(r) \cap Hashes, reply \in WriteReplies :
       LET entry == req[r].data[k]
       IN  /\ entry # Absent
           /\ Write(r, k, [f \in Fields |-> IF entry[f] = Absent THEN db[k][f]
                                                                 ELSE entry[f]],
                    reply, Idempotent)
           /\ Restored(r, k, reply)
  /\ UNCHANGED <<file, audit>>

RestoreString(r) ==
  /\ \E k \in Upcoming(r) \cap Strings, reply \in WriteReplies :
       /\ Write(r, k, req[r].data[k], reply, Idempotent)
       /\ Restored(r, k, reply)
  /\ UNCHANGED <<file, audit>>

\* DEL of a list, then one RPUSH per element.
Deleted_Not(k) == db[k]
Deleted(k) == <<>>

DeleteList(r) ==
  /\ \E k \in Upcoming(r) \cap Lists, reply \in WriteReplies :
       /\ req[r].data[k] # Absent
       /\ Write(r, k, Deleted(k), reply, Idempotent)
       /\ IF reply = "again" THEN Restored(r, k, reply)
          ELSE /\ Goto(r, "rpush")
               /\ req' = [req EXCEPT ![r].todo = @ \ {k}, ![r].key = k,
                                     ![r].rest = req[r].data[k]]
  /\ UNCHANGED <<file, audit>>

PushElement(r) ==
  /\ At(r, "rpush")
  /\ req[r].rest # <<>>
  /\ \E reply \in WriteReplies :
       /\ Write(r, req[r].key, Append(db[req[r].key], Head(req[r].rest)), reply, OnlyOnce)
       /\ req' = IF reply = "again" THEN req ELSE [req EXCEPT ![r].rest = Tail(@)]
  /\ UNCHANGED <<file, audit, pc>>

ListDone(r) ==
  /\ At(r, "rpush")
  /\ req[r].rest = <<>>
  /\ Goto(r, "next")
  /\ UNCHANGED <<db, file, audit, req, spoiled, mishaps>>

-----------------------------------------------------------------------------
\* BackupAll or RestoreAll has returned.
LoopDone(r) ==
  /\ \/ At(r, "type") /\ req[r].found = <<>>
     \/ At(r, "next") /\ req[r].todo = {}
  /\ Goto(r, "audit")
  /\ UNCHANGED <<db, file, audit, req, spoiled, mishaps>>

AuditRow(r) ==
  [kind |-> req[r].kind, keys |-> Cardinality(DOMAIN req[r].data)]

\* The row is written, an error dropped; a backup is sent, and saved by the UI.
LogAudit(r) ==
  /\ At(r, "audit")
  /\ audit' \in {Append(audit, AuditRow(r))}
                \cup (IF "sqlite" \in Faults THEN {audit} ELSE {})
  /\ file' = IF req[r].kind = "backup" THEN req[r].data ELSE file
  /\ Goto(r, "ok")
  /\ Forget({r})
  /\ UNCHANGED <<db, mishaps>>

-----------------------------------------------------------------------------
\* What others do to a key in one command: RPUSH, LREM, DEL, HSET, SET, SADD, SREM.
OneChange(k) ==
  CASE k \in Lists   -> {Append(db[k], e) : e \in IF Len(db[k]) < MaxLen THEN Elements ELSE {}}
                        \cup {RemoveFirst(db[k], e) : e \in Elements} \cup {<<>>}
    [] k \in Hashes  -> {[db[k] EXCEPT ![f] = v] : f \in Fields, v \in Values}
    [] k \in Strings -> Values \cup {Absent}
    [] k \in Sets    -> {db[k] \cup {e} : e \in Elements} \cup {db[k] \ {e} : e \in Elements}

OthersChange ==
  /\ mishaps < MaxMishaps
  /\ \E k \in Keys : \E v \in OneChange(k) \ {db[k]} :
       /\ db' = [db EXCEPT ![k] = v]
       /\ Spoil(Requests, k)
  /\ mishaps' = mishaps + 1
  /\ UNCHANGED <<file, audit, pc, req>>

\* SIGTERM or a crash: the handlers in flight stop where they are.
Exit ==
  /\ "exit" \in Faults
  /\ Active # {}
  /\ pc' = [r \in Requests |-> IF r \in Active THEN "lost" ELSE pc[r]]
  /\ Forget(Active)
  /\ UNCHANGED <<db, file, audit, mishaps>>

Finished ==
  /\ \A r \in Requests : pc[r] \in Terminal
  /\ UNCHANGED vars

Backup(r) == ScanKeys(r) \/ ReadType(r) \/ ReadKey(r)
Restore(r) ==
  \/ PassOver(r) \/ RestoreHash(r) \/ RestoreString(r)
  \/ DeleteList(r) \/ PushElement(r) \/ ListDone(r)

Next ==
  \/ \E r \in Requests : \/ Begin(r) \/ Backup(r) \/ Restore(r)
                         \/ LoopDone(r) \/ LogAudit(r)
  \/ OthersChange
  \/ Exit
  \/ Finished

Spec == Init /\ [][Next]_vars

-----------------------------------------------------------------------------
Returned(r, k) == At(r, "audit") /\ req[r].kind = k

\* A backup holds exactly the keys present, each as it is, but for the keys that
\* others changed while it ran and those whose commands failed: what happens to
\* one key, or fails for it, does not spoil the entry of another.
BackupIsFaithful ==
  \A r \in Requests : Returned(r, "backup") =>
    \A k \in Keys \ spoiled[r] :
      /\ k \in DOMAIN req[r].data <=> k \in Present
      /\ k \in Present => req[r].data[k] = db[k]

Agrees(k, entry) ==
  \/ entry = Absent
  \/ k \in Lists \cup Strings /\ db[k] = entry
  \/ k \in Hashes /\ \A f \in Fields : entry[f] \in {Absent, db[k][f]}

\* A restore brings back every list, hash and string of its file, whatever the
\* database held before, the remains of a restore that was cut off included, but
\* for the keys that others changed while it ran and those whose commands failed.
RestoreBringsBack ==
  \A r \in Requests : Returned(r, "restore") =>
    \A k \in DOMAIN req[r].data \ (Sets \cup spoiled[r]) : Agrees(k, req[r].data[k])
=============================================================================
