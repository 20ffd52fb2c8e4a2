-------------------------- MODULE RedisBackupProofs --------------------------
(***************************************************************************)
(* Proofs about RedisBackup: its types, and that a backup and a restore    *)
(* treat every key on its own.                                             *)
(*                                                                         *)
(* The properties speak of a request that has gone over all keys.  The     *)
(* invariant says the same of a request on its way, of every key that is   *)
(* not spoiled for it.  A backup has read such a key, or still has it to   *)
(* read, exactly when SCAN went past it while it was present.  A restore   *)
(* still has such an entry to take, or the key agrees with it, or, for the *)
(* list whose elements are being pushed, what the key holds followed by    *)
(* what is left to push is the entry.                                      *)
(***************************************************************************)
EXTENDS RedisBackup, SequenceLemmas, FiniteSetTheorems

\* Every request has the fields of NewRequest, and is where its kind goes.
Shaped(q) ==
  DOMAIN q = {"kind", "data", "cursor", "found", "todo", "key", "rest"}

KindOK(r) ==
  /\ pc[r] \in {"scan", "type", "read"} => req[r].kind = "backup"
  /\ pc[r] \in {"next", "again", "rpush"} => /\ req[r].kind = "restore"
                                             /\ req[r].todo \subseteq DOMAIN req[r].data
  /\ pc[r] = "again" => req[r].key \in req[r].todo
  /\ pc[r] = "audit" => req[r].kind \in {"backup", "restore"}
  /\ pc[r] = "read" => req[r].key \in Keys
  /\ pc[r] = "rpush" => req[r].key \in Lists

ShapeOK == DOMAIN req = Requests /\ \A r \in Requests : Shaped(req[r]) /\ KindOK(r)
TypeInv == TypeOK /\ ShapeOK

USE DEF At, Goto

-----------------------------------------------------------------------------
(***************************************************************************)
(* Keys, contents and backups.                                             *)
(***************************************************************************)

\* What a key of each type holds, and how it is when it does not exist.
LEMMA ContentsByType ==
  /\ \A k \in Lists   : Contents(k) = Seq(Elements) /\ Empty(k) = <<>>
  /\ \A k \in Hashes  : /\ Contents(k) = [Fields -> Values \cup {Absent}]
                        /\ Empty(k) = [f \in Fields |-> Absent]
  /\ \A k \in Strings : Contents(k) = Values \cup {Absent} /\ Empty(k) = Absent
  /\ \A k \in Sets    : Contents(k) = SUBSET Elements /\ Empty(k) = {}
<1>1. \A k \in Lists : Contents(k) = Seq(Elements) /\ Empty(k) = <<>>
  BY KeysAssumption DEF Contents, Empty
<1>2. \A k \in Hashes : /\ Contents(k) = [Fields -> Values \cup {Absent}]
                        /\ Empty(k) = [f \in Fields |-> Absent]
  BY KeysAssumption DEF Contents, Empty
<1>3. \A k \in Strings : Contents(k) = Values \cup {Absent} /\ Empty(k) = Absent
  BY KeysAssumption DEF Contents, Empty
<1>4. \A k \in Sets : Contents(k) = SUBSET Elements /\ Empty(k) = {}
  BY KeysAssumption DEF Contents, Empty
<1>. QED
  BY <1>1, <1>2, <1>3, <1>4

\* There are finitely many keys.
LEMMA KeysFinite == IsFiniteSet(Keys)
<1>1. Len(KeyOrder) \in Nat /\ KeyOrder \in [1 .. Len(KeyOrder) -> Keys]
  BY KeysAssumption, LenProperties
<1>2. KeyOrder \in Surjection(1 .. Len(KeyOrder), Keys)
  BY <1>1, KeysAssumption DEF Surjection
<1>. QED
  BY <1>1, <1>2, FS_Interval, FS_Surjection

\* No backup has fewer entries than the empty one.
LEMMA NoEntriesType == IsBackup(NoEntries) /\ DOMAIN NoEntries = {}
BY DEF IsBackup, NoEntries

\* A key that is set to contents of its type leaves a database.
LEMMA SetKeyType ==
  ASSUME IsDb(db), NEW k \in Keys, NEW v \in Contents(k)
  PROVE  /\ IsDb([db EXCEPT ![k] = v])
         /\ [db EXCEPT ![k] = v][k] = v
         /\ \A j \in Keys \ {k} : [db EXCEPT ![k] = v][j] = db[j]
BY DEF IsDb

-----------------------------------------------------------------------------
(***************************************************************************)
(* Types.                                                                  *)
(***************************************************************************)

\* A request that begins, and one that is forgotten.
LEMMA NewRequestType ==
  ASSUME NEW kind, NEW data, IsBackup(data)
  PROVE  LET q == NewRequest(kind, data)
         IN  /\ Shaped(q) /\ q.kind = kind /\ q.data = data /\ q.todo = DOMAIN data
             /\ IsBackup(q.data) /\ q.cursor \in 0 .. Len(KeyOrder) /\ q.cursor = 0
             /\ q.found \in Seq(Keys) /\ q.found = <<>>
             /\ q.todo \subseteq Keys /\ q.key \in Keys \cup {NoKey}
             /\ q.rest \in Seq(Elements)
<1>1. Len(KeyOrder) \in Nat
  BY KeysAssumption, LenProperties
<1>. QED
  BY <1>1, EmptySeq DEF NewRequest, Shaped, IsBackup

\* The fields of a request have their types.
FieldsOK(q) ==
  /\ IsBackup(q.data)
  /\ q.cursor \in 0 .. Len(KeyOrder)
  /\ q.found \in Seq(Keys)
  /\ q.todo \subseteq Keys
  /\ q.key \in Keys \cup {NoKey}
  /\ q.rest \in Seq(Elements)

\* A step that changes one request, to another of the type, keeps the types of
\* all requests.
LEMMA OneRequestType ==
  ASSUME TypeInv, NEW r \in Requests, NEW q, req' = [req EXCEPT ![r] = q],
         NEW label \in Labels, pc' = [pc EXCEPT ![r] = label],
         FieldsOK(q), Shaped(q),
         label \in {"scan", "type", "read"} => q.kind = "backup",
         label \in {"next", "again", "rpush"} =>
           q.kind = "restore" /\ q.todo \subseteq DOMAIN q.data,
         label = "again" => q.key \in q.todo,
         label = "audit" => q.kind \in {"backup", "restore"},
         label = "read" => q.key \in Keys,
         label = "rpush" => q.key \in Lists
  PROVE  /\ pc' \in [Requests -> Labels] /\ ShapeOK'
         /\ \A p \in Requests : FieldsOK(req'[p])
<1>1. pc' \in [Requests -> Labels] /\ DOMAIN req' = Requests
  BY DEF TypeInv, TypeOK, ShapeOK
<1>2. req'[r] = q /\ pc'[r] = label
  BY DEF TypeInv, TypeOK, ShapeOK
<1>3. \A p \in Requests \ {r} : req'[p] = req[p] /\ pc'[p] = pc[p]
  BY DEF TypeInv, TypeOK, ShapeOK
<1>4. \A p \in Requests : FieldsOK(req'[p]) /\ Shaped(req'[p])
  BY <1>2, <1>3 DEF TypeInv, TypeOK, ShapeOK, FieldsOK
<1>5. \A p \in Requests : KindOK(p)'
  BY <1>2, <1>3 DEF TypeInv, ShapeOK, KindOK
<1>. QED
  BY <1>1, <1>4, <1>5 DEF ShapeOK

\* Forgotten requests have the type of those that have not begun.
LEMMA ForgetType ==
  ASSUME TypeInv, NEW R \in SUBSET Requests, Forget(R),
         pc' \in [Requests -> Labels],
         \A p \in R : pc'[p] \in Terminal, \A p \in Requests \ R : pc'[p] = pc[p]
  PROVE  /\ ShapeOK' /\ \A p \in Requests : FieldsOK(req'[p])
         /\ spoiled' \in [Requests -> SUBSET Keys]
<1>1. Shaped(NoRequest) /\ FieldsOK(NoRequest)
  BY NoEntriesType, NewRequestType DEF NoRequest, FieldsOK
<1>2. \A p \in R : req'[p] = NoRequest
  BY DEF Forget
<1>3. \A p \in Requests \ R : req'[p] = req[p]
  BY DEF Forget
<1>4. \A p \in Requests : FieldsOK(req'[p]) /\ Shaped(req'[p])
  BY <1>1, <1>2, <1>3 DEF TypeInv, TypeOK, ShapeOK, FieldsOK
<1>5. \A p \in Requests : KindOK(p)'
  BY <1>3 DEF TypeInv, ShapeOK, KindOK, Terminal
<1>6. DOMAIN req' = Requests /\ spoiled' \in [Requests -> SUBSET Keys]
  BY DEF Forget, TypeInv, TypeOK
<1>. QED
  BY <1>4, <1>5, <1>6 DEF ShapeOK

\* A step that leaves the requests and where they are alone.
LEMMA SameRequestsType ==
  ASSUME TypeInv, UNCHANGED <<pc, req>>
  PROVE  /\ pc' \in [Requests -> Labels] /\ ShapeOK'
         /\ \A p \in Requests : FieldsOK(req'[p])
BY DEF TypeInv, TypeOK, ShapeOK, FieldsOK, KindOK

\* Counting a failure, and spoiling a key.
LEMMA MishapType ==
  ASSUME TypeInv, NEW reply \in WriteReplies, CountMishap(reply)
  PROVE  mishaps' \in 0 .. MaxMishaps
BY BoundsAssumption DEF TypeInv, TypeOK, Replies, WriteReplies, CountMishap

LEMMA RepliesToWrites == Replies \subseteq WriteReplies
BY DEF WriteReplies

LEMMA SpoilType ==
  ASSUME TypeInv, NEW R, NEW k \in Keys, Spoil(R, k)
  PROVE  spoiled' \in [Requests -> SUBSET Keys]
BY DEF TypeInv, TypeOK, Spoil

\* One command that reads, or writes contents of the key's type.
LEMMA ReadTypes ==
  ASSUME TypeInv, NEW r \in Requests, NEW k \in Keys, NEW reply \in Replies,
         Read(r, k, reply)
  PROVE  spoiled' \in [Requests -> SUBSET Keys] /\ mishaps' \in 0 .. MaxMishaps
BY MishapType, RepliesToWrites, SpoilType DEF Read

LEMMA WriteTypes ==
  ASSUME TypeInv, NEW r \in Requests, NEW k \in Keys, NEW v \in Contents(k),
         NEW reply \in WriteReplies, NEW sure, Write(r, k, v, reply, sure)
  PROVE  /\ IsDb(db)'
         /\ spoiled' \in [Requests -> SUBSET Keys] /\ mishaps' \in 0 .. MaxMishaps
<1>1. IsDb(db) /\ (db' = db \/ db' = [db EXCEPT ![k] = v])
  BY DEF Write, TypeInv, TypeOK
<1>2. IsDb(db)'
  BY <1>1, SetKeyType DEF IsDb
<1>. QED
  BY <1>2, MishapType, SpoilType DEF Write

\* The types, from their parts.
LEMMA TypesFromParts ==
  ASSUME IsDb(db)', IsBackup(file)', (audit \in Seq(AuditRows))',
         pc' \in [Requests -> Labels], ShapeOK',
         \A p \in Requests : FieldsOK(req'[p]),
         spoiled' \in [Requests -> SUBSET Keys], mishaps' \in 0 .. MaxMishaps
  PROVE  TypeInv'
BY DEF TypeInv, TypeOK, FieldsOK

\* A request that begins.
LEMMA BeginTypes == ASSUME TypeInv, NEW r \in Requests, Begin(r) PROVE TypeInv'
<1>1. PICK kind \in {"backup", "restore"}, data \in {NoEntries, file} :
        /\ IsBackup(data) /\ req' = [req EXCEPT ![r] = NewRequest(kind, data)]
        /\ pc' = [pc EXCEPT ![r] = IF kind = "backup" THEN "scan" ELSE "next"]
  <2>1. IsBackup(NoEntries) /\ IsBackup(file)
    BY NoEntriesType DEF TypeInv, TypeOK
  <2>. QED
    BY <2>1 DEF Begin
<1>2. Shaped(NewRequest(kind, data)) /\ FieldsOK(NewRequest(kind, data))
  BY <1>1, NewRequestType DEF FieldsOK
<1>3. /\ NewRequest(kind, data).kind = kind
      /\ NewRequest(kind, data).todo = DOMAIN NewRequest(kind, data).data
  BY DEF NewRequest
<1>4. /\ pc' \in [Requests -> Labels] /\ ShapeOK'
      /\ \A p \in Requests : FieldsOK(req'[p])
  <2>. DEFINE q == NewRequest(kind, data)
              label == IF kind = "backup" THEN "scan" ELSE "next"
  <2>1. label \in Labels /\ label \in {"scan", "next"}
    BY DEF Labels
  <2>2. /\ label \in {"scan", "type", "read"} => q.kind = "backup"
        /\ label \in {"next", "again", "rpush"} =>
             q.kind = "restore" /\ q.todo \subseteq DOMAIN q.data
    BY <1>1, <1>3
  <2>. HIDE DEF q, label
  <2>. QED
    BY <1>1, <1>2, <2>1, <2>2, OneRequestType DEF q, label
<1>. QED
  BY <1>4, TypesFromParts DEF Begin, TypeInv, TypeOK

\* SCAN finds the keys present among those it goes over.
LEMMA FoundKeys ==
  ASSUME NEW r \in Requests, req[r].cursor \in Nat, req[r].found \in Seq(Keys),
         NEW n \in req[r].cursor .. Len(KeyOrder)
  PROVE  /\ Found(r, n) \in Seq(Keys)
         /\ ToSet(Found(r, n)) = ToSet(req[r].found)
                                 \cup Hits(KeyOrder, req[r].cursor, n, Present)
<1>. DEFINE c == req[r].cursor
            f == CHOOSE f : FiltersFrom(f, c, n, req[r].found, KeyOrder, Present)
<1>1. KeyOrder \in Seq(Keys)
  BY KeysAssumption
<1>2. c \in Nat /\ n \in c .. Len(KeyOrder)
  OBVIOUS
<1>3. FiltersFrom(f, c, n, req[r].found, KeyOrder, Present)
  <2>. HIDE DEF c
  <2>. QED
    BY <1>1, <1>2, FilterExists
<1>4. Found(r, n) = f[n]
  BY DEF Found, FiltersFrom, FilterStep
<1>. HIDE DEF c, f
<1>5. /\ f[n] \in Seq(Keys)
      /\ ToSet(f[n]) = ToSet(req[r].found) \cup Hits(KeyOrder, c, n, Present)
  BY <1>1, <1>2, <1>3, FilterElements
<1>. QED
  BY <1>4, <1>5 DEF c

\* The steps of a backup.
LEMMA ScanTypes == ASSUME TypeInv, NEW r \in Requests, ScanKeys(r) PROVE TypeInv'
<1>1. PICK reply \in Replies, n \in req[r].cursor + 1 .. Len(KeyOrder) :
        IF reply = "ok"
        THEN /\ req' = [req EXCEPT ![r].cursor = n, ![r].found = Found(r, n)]
             /\ Goto(r, IF ScanComplete(n) THEN "type" ELSE "scan")
             /\ UNCHANGED <<spoiled, mishaps>>
        ELSE Goto(r, "error") /\ Forget({r}) /\ CountMishap(reply)
  BY DEF ScanKeys
<1>2. CASE reply = "ok"
  <2>. DEFINE q == [req[r] EXCEPT !.cursor = n, !.found = Found(r, n)]
              label == IF ScanComplete(n) THEN "type" ELSE "scan"
  <2>1. FieldsOK(req[r]) /\ Shaped(req[r]) /\ req[r].kind = "backup"
    BY DEF ScanKeys, TypeInv, TypeOK, ShapeOK, KindOK, FieldsOK
  <2>2. Len(KeyOrder) \in Nat
    BY KeysAssumption, LenProperties
  <2>3. n \in 0 .. Len(KeyOrder) /\ Found(r, n) \in Seq(Keys)
    BY <2>1, <2>2, FoundKeys DEF FieldsOK
  <2>4. FieldsOK(q) /\ Shaped(q) /\ q.kind = "backup"
    BY <2>1, <2>3 DEF FieldsOK, Shaped
  <2>5. req' = [req EXCEPT ![r] = q] /\ pc' = [pc EXCEPT ![r] = label]
    BY <1>1, <1>2
  <2>6. label \in {"scan", "type"} /\ label \in Labels
    BY DEF Labels
  <2>. HIDE DEF q, label
  <2>7. /\ pc' \in [Requests -> Labels] /\ ShapeOK'
        /\ \A p \in Requests : FieldsOK(req'[p])
    BY <2>4, <2>5, <2>6, OneRequestType
  <2>. QED
    BY <1>1, <1>2, <2>7, TypesFromParts DEF ScanKeys, TypeInv, TypeOK
<1>3. CASE reply # "ok"
  <2>1. pc' = [pc EXCEPT ![r] = "error"] /\ Forget({r}) /\ CountMishap(reply)
    BY <1>1, <1>3
  <2>2. /\ pc' \in [Requests -> Labels] /\ pc'[r] \in Terminal
        /\ \A p \in Requests \ {r} : pc'[p] = pc[p]
    BY <2>1 DEF TypeInv, TypeOK, Labels, Terminal
  <2>3. /\ ShapeOK' /\ \A p \in Requests : FieldsOK(req'[p])
        /\ spoiled' \in [Requests -> SUBSET Keys]
    BY <2>1, <2>2, ForgetType
  <2>. QED
    BY <2>1, <2>2, <2>3, MishapType, RepliesToWrites, TypesFromParts DEF ScanKeys, TypeInv, TypeOK
<1>. QED
  BY <1>2, <1>3

LEMMA ReadTypeTypes == ASSUME TypeInv, NEW r \in Requests, ReadType(r) PROVE TypeInv'
<1>. DEFINE k == Head(req[r].found)
            q == [req[r] EXCEPT !.found = Tail(@), !.key = k]
<1>1. PICK reply \in Replies :
        /\ req' = [req EXCEPT ![r].found = Tail(@), ![r].key = k]
        /\ Goto(r, IF reply = "ok" /\ k \in Present THEN "read" ELSE "type")
        /\ Read(r, k, reply)
  BY DEF ReadType
<1>2. FieldsOK(req[r]) /\ Shaped(req[r]) /\ req[r].kind = "backup"
  BY DEF ReadType, TypeInv, TypeOK, ShapeOK, KindOK, FieldsOK
<1>3. k \in Keys /\ Tail(req[r].found) \in Seq(Keys)
  BY <1>2, HeadTailProperties DEF ReadType, FieldsOK
<1>. HIDE DEF k
<1>4. FieldsOK(q) /\ Shaped(q) /\ q.kind = "backup" /\ q.key = k
  BY <1>2, <1>3 DEF FieldsOK, Shaped
<1>5. req' = [req EXCEPT ![r] = q]
  BY <1>1
<1>. DEFINE label == IF reply = "ok" /\ k \in Present THEN "read" ELSE "type"
<1>6. /\ pc' = [pc EXCEPT ![r] = label] /\ label \in {"read", "type"}
      /\ label \in Labels
  BY <1>1 DEF Labels
<1>. HIDE DEF q, label
<1>7. /\ pc' \in [Requests -> Labels] /\ ShapeOK'
      /\ \A p \in Requests : FieldsOK(req'[p])
  BY <1>3, <1>4, <1>5, <1>6, OneRequestType
<1>. QED
  BY <1>1, <1>3, <1>7, ReadTypes, TypesFromParts DEF ReadType, TypeInv, TypeOK

\* What is read of a key may stand in a backup.
LEMMA ResultType ==
  ASSUME TypeInv, NEW k \in Keys, NEW reply
  PROVE  Result(k, reply) \in Entries(k)
<1>1. db[k] \in Contents(k)
  BY DEF TypeInv, TypeOK, IsDb
<1>2. CASE k \in Strings
  BY <1>1, <1>2, ContentsByType, ValuesAssumption DEF Result, Entries
<1>3. CASE k \notin Strings
  BY <1>1, <1>3 DEF Result, Entries
<1>. QED
  BY <1>2, <1>3

LEMMA ReadKeyTypes == ASSUME TypeInv, NEW r \in Requests, ReadKey(r) PROVE TypeInv'
<1>. DEFINE k == req[r].key
<1>1. PICK reply \in Replies :
        /\ req' = [req EXCEPT ![r].data =
                     [j \in DOMAIN @ \cup {k} |->
                        IF j = k THEN Result(k, reply) ELSE req[r].data[j]]]
        /\ Read(r, k, reply)
  BY DEF ReadKey
<1>2. FieldsOK(req[r]) /\ Shaped(req[r]) /\ req[r].kind = "backup" /\ k \in Keys
  BY DEF ReadKey, TypeInv, TypeOK, ShapeOK, KindOK, FieldsOK
<1>. HIDE DEF k
<1>. DEFINE data == [j \in DOMAIN req[r].data \cup {k} |->
                       IF j = k THEN Result(k, reply) ELSE req[r].data[j]]
            q == [req[r] EXCEPT !.data = data]
<1>3. IsBackup(data)
  <2>1. Result(k, reply) \in Entries(k)
    BY <1>2, ResultType
  <2>. QED
    BY <1>2, <2>1 DEF FieldsOK, IsBackup
<1>4. req' = [req EXCEPT ![r] = q]
  BY <1>1
<1>. HIDE DEF data
<1>5. FieldsOK(q) /\ Shaped(q) /\ q.kind = "backup"
  BY <1>2, <1>3 DEF FieldsOK, Shaped
<1>6. pc' = [pc EXCEPT ![r] = "type"] /\ "type" \in Labels
  BY DEF ReadKey, Labels
<1>. HIDE DEF q
<1>7. /\ pc' \in [Requests -> Labels] /\ ShapeOK'
      /\ \A p \in Requests : FieldsOK(req'[p])
  BY <1>4, <1>5, <1>6, OneRequestType
<1>. QED
  BY <1>1, <1>2, <1>7, ReadTypes, TypesFromParts DEF ReadKey, TypeInv, TypeOK

\* The steps of a restore.  The entry it comes to is one of those left to take.
LEMMA UpcomingEntry ==
  ASSUME TypeInv, NEW r \in Requests, NEW k \in Upcoming(r)
  PROVE  /\ pc[r] \in {"next", "again"} /\ k \in req[r].todo /\ k \in Keys
         /\ k \in DOMAIN req[r].data /\ req[r].kind = "restore"
         /\ req[r].todo \subseteq DOMAIN req[r].data
<1>1. pc[r] \in {"next", "again"} /\ k \in req[r].todo
  BY DEF Upcoming, TypeInv, ShapeOK, KindOK
<1>. QED
  BY <1>1 DEF TypeInv, TypeOK, ShapeOK, KindOK

\* One that restores an entry, or is about to try again, leaves the types of requests.
LEMMA RestoredTypes ==
  ASSUME TypeInv, NEW r \in Requests, NEW k \in Upcoming(r), NEW reply,
         Restored(r, k, reply)
  PROVE  /\ pc' \in [Requests -> Labels] /\ ShapeOK'
         /\ \A p \in Requests : FieldsOK(req'[p])
<1>1. /\ FieldsOK(req[r]) /\ Shaped(req[r]) /\ k \in Keys /\ k \in req[r].todo
      /\ req[r].kind = "restore" /\ req[r].todo \subseteq DOMAIN req[r].data
  BY UpcomingEntry DEF TypeInv, TypeOK, ShapeOK, FieldsOK
<1>2. CASE reply = "again"
  <2>. DEFINE q == [req[r] EXCEPT !.key = k]
  <2>1. /\ FieldsOK(q) /\ Shaped(q) /\ q.kind = "restore" /\ q.todo \subseteq DOMAIN q.data
        /\ q.key \in q.todo
    BY <1>1 DEF FieldsOK, Shaped
  <2>2. /\ req' = [req EXCEPT ![r] = q] /\ pc' = [pc EXCEPT ![r] = "again"]
        /\ "again" \in Labels
    BY <1>2 DEF Restored, Labels
  <2>. HIDE DEF q
  <2>. QED
    BY <2>1, <2>2, OneRequestType
<1>3. CASE reply # "again"
  <2>. DEFINE q == [req[r] EXCEPT !.todo = @ \ {k}]
  <2>1. FieldsOK(q) /\ Shaped(q) /\ q.kind = "restore" /\ q.todo \subseteq DOMAIN q.data
    BY <1>1 DEF FieldsOK, Shaped
  <2>2. /\ req' = [req EXCEPT ![r] = q] /\ pc' = [pc EXCEPT ![r] = "next"]
        /\ "next" \in Labels
    BY <1>3 DEF Restored, Take, Labels
  <2>. HIDE DEF q
  <2>. QED
    BY <2>1, <2>2, OneRequestType
<1>. QED
  BY <1>2, <1>3

\* To pass over an entry is to take it without a command.
LEMMA PassOverTakes ==
  ASSUME TypeInv, NEW r \in Requests, PassOver(r)
  PROVE  \E k \in Upcoming(r) : /\ k \in Sets \/ req[r].data[k] = Absent
                                /\ Restored(r, k, "ok")
<1>1. PICK k \in req[r].todo : (k \in Sets \/ req[r].data[k] = Absent) /\ Take(r, k)
  BY DEF PassOver
<1>2. k \in Upcoming(r) /\ pc' = [pc EXCEPT ![r] = "next"]
  BY DEF PassOver, Upcoming, TypeInv, TypeOK
<1>. QED
  BY <1>1, <1>2 DEF Restored

LEMMA PassOverTypes == ASSUME TypeInv, NEW r \in Requests, PassOver(r) PROVE TypeInv'
<1>1. /\ pc' \in [Requests -> Labels] /\ ShapeOK'
      /\ \A p \in Requests : FieldsOK(req'[p])
  BY PassOverTakes, RestoredTypes
<1>. QED
  BY <1>1, TypesFromParts DEF PassOver, TypeInv, TypeOK

\* An entry that is restored has contents of its key.
LEMMA EntryContents ==
  ASSUME TypeInv, NEW r \in Requests, NEW k \in Upcoming(r)
  PROVE  /\ k \in Keys /\ k \in DOMAIN req[r].data
         /\ k \in Strings => req[r].data[k] \in Contents(k)
         /\ k \notin Strings /\ req[r].data[k] # Absent => req[r].data[k] \in Contents(k)
BY UpcomingEntry, ContentsByType DEF TypeInv, TypeOK, IsBackup, Entries

LEMMA RestoreHashTypes == ASSUME TypeInv, NEW r \in Requests, RestoreHash(r) PROVE TypeInv'
<1>1. PICK k \in Upcoming(r) \cap Hashes, reply \in WriteReplies :
        /\ req[r].data[k] # Absent
        /\ Write(r, k, [f \in Fields |-> IF req[r].data[k][f] = Absent THEN db[k][f]
                                         ELSE req[r].data[k][f]], reply, Idempotent)
        /\ Restored(r, k, reply)
  BY DEF RestoreHash
<1>2. k \in Keys /\ req[r].data[k] \in Contents(k) /\ db[k] \in Contents(k)
  BY <1>1, EntryContents, KeysAssumption DEF TypeInv, TypeOK, IsDb
<1>. DEFINE v == [f \in Fields |-> IF req[r].data[k][f] = Absent THEN db[k][f]
                                  ELSE req[r].data[k][f]]
<1>3. v \in Contents(k)
  BY <1>2, ContentsByType
<1>. HIDE DEF v
<1>4. Write(r, k, v, reply, Idempotent)
  BY <1>1 DEF v
<1>5. /\ pc' \in [Requests -> Labels] /\ ShapeOK'
      /\ \A p \in Requests : FieldsOK(req'[p])
  BY <1>1, RestoredTypes
<1>6. /\ IsDb(db)'
      /\ spoiled' \in [Requests -> SUBSET Keys] /\ mishaps' \in 0 .. MaxMishaps
  BY <1>2, <1>3, <1>4, WriteTypes
<1>. QED
  BY <1>5, <1>6, TypesFromParts DEF RestoreHash, TypeInv, TypeOK

LEMMA RestoreStringTypes == ASSUME TypeInv, NEW r \in Requests, RestoreString(r) PROVE TypeInv'
<1>1. PICK k \in Upcoming(r) \cap Strings, reply \in WriteReplies :
        Write(r, k, req[r].data[k], reply, Idempotent) /\ Restored(r, k, reply)
  BY DEF RestoreString
<1>2. k \in Keys /\ req[r].data[k] \in Contents(k)
  BY <1>1, EntryContents
<1>3. /\ pc' \in [Requests -> Labels] /\ ShapeOK'
      /\ \A p \in Requests : FieldsOK(req'[p])
  BY <1>1, RestoredTypes
<1>4. /\ IsDb(db)'
      /\ spoiled' \in [Requests -> SUBSET Keys] /\ mishaps' \in 0 .. MaxMishaps
  BY <1>1, <1>2, WriteTypes
<1>. QED
  BY <1>3, <1>4, TypesFromParts DEF RestoreString, TypeInv, TypeOK

LEMMA DeleteListTypes == ASSUME TypeInv, NEW r \in Requests, DeleteList(r) PROVE TypeInv'
<1>1. PICK k \in Upcoming(r) \cap Lists, reply \in WriteReplies :
        /\ req[r].data[k] # Absent
        /\ Write(r, k, Deleted(k), reply, Idempotent)
        /\ IF reply = "again" THEN Restored(r, k, reply)
           ELSE /\ Goto(r, "rpush")
                /\ req' = [req EXCEPT ![r].todo = @ \ {k}, ![r].key = k,
                                      ![r].rest = req[r].data[k]]
  BY DEF DeleteList
<1>2. k \in Keys /\ req[r].data[k] \in Seq(Elements) /\ Deleted(k) \in Contents(k)
  <2>1. k \notin Strings /\ Contents(k) = Seq(Elements)
    BY <1>1, KeysAssumption, ContentsByType
  <2>. QED
    BY <1>1, <2>1, EntryContents, EmptySeq DEF Deleted
<1>3. /\ FieldsOK(req[r]) /\ Shaped(req[r])
      /\ req[r].kind = "restore" /\ req[r].todo \subseteq DOMAIN req[r].data
  BY <1>1, UpcomingEntry DEF TypeInv, TypeOK, ShapeOK, FieldsOK
<1>4. /\ pc' \in [Requests -> Labels] /\ ShapeOK'
      /\ \A p \in Requests : FieldsOK(req'[p])
  <2>1. CASE reply = "again"
    BY <1>1, <2>1, RestoredTypes
  <2>2. CASE reply # "again"
    <3>. DEFINE q == [req[r] EXCEPT !.todo = @ \ {k}, !.key = k, !.rest = req[r].data[k]]
    <3>1. /\ FieldsOK(q) /\ Shaped(q) /\ q.key = k
          /\ q.kind = "restore" /\ q.todo \subseteq DOMAIN q.data
      BY <1>2, <1>3 DEF FieldsOK, Shaped
    <3>2. /\ req' = [req EXCEPT ![r] = q] /\ pc' = [pc EXCEPT ![r] = "rpush"]
          /\ "rpush" \in Labels /\ k \in Lists
      BY <1>1, <2>2 DEF Labels
    <3>. HIDE DEF q
    <3>. QED
      BY <3>1, <3>2, OneRequestType
  <2>. QED
    BY <2>1, <2>2
<1>5. /\ IsDb(db)'
      /\ spoiled' \in [Requests -> SUBSET Keys] /\ mishaps' \in 0 .. MaxMishaps
  BY <1>1, <1>2, WriteTypes
<1>. QED
  BY <1>4, <1>5, TypesFromParts DEF DeleteList, TypeInv, TypeOK

LEMMA PushElementTypes == ASSUME TypeInv, NEW r \in Requests, PushElement(r) PROVE TypeInv'
<1>. DEFINE k == req[r].key
            v == Append(db[k], Head(req[r].rest))
<1>1. /\ FieldsOK(req[r]) /\ Shaped(req[r]) /\ k \in Lists /\ k \in Keys
      /\ req[r].kind = "restore" /\ req[r].todo \subseteq DOMAIN req[r].data
  BY DEF PushElement, TypeInv, TypeOK, ShapeOK, KindOK, FieldsOK, Keys
<1>2. Head(req[r].rest) \in Elements /\ Tail(req[r].rest) \in Seq(Elements)
  BY <1>1, HeadTailProperties DEF PushElement, FieldsOK
<1>3. db[k] \in Seq(Elements)
  BY <1>1, ContentsByType DEF TypeInv, TypeOK, IsDb
<1>4. v \in Contents(k)
  BY <1>1, <1>2, <1>3, AppendProperties, ContentsByType
<1>5. PICK reply \in WriteReplies :
        /\ Write(r, k, v, reply, OnlyOnce)
        /\ req' = IF reply = "again" THEN req ELSE [req EXCEPT ![r].rest = Tail(@)]
  BY DEF PushElement
<1>6. /\ pc' \in [Requests -> Labels] /\ ShapeOK'
      /\ \A p \in Requests : FieldsOK(req'[p])
  <2>1. CASE reply = "again"
    BY <1>5, <2>1, SameRequestsType DEF PushElement
  <2>2. CASE reply # "again"
    <3>. DEFINE q == [req[r] EXCEPT !.rest = Tail(@)]
    <3>1. FieldsOK(q) /\ Shaped(q) /\ q.kind = "restore" /\ q.todo \subseteq DOMAIN q.data
          /\ q.key \in Lists
      BY <1>1, <1>2 DEF FieldsOK, Shaped
    <3>2. /\ req' = [req EXCEPT ![r] = q] /\ pc' = [pc EXCEPT ![r] = "rpush"]
          /\ "rpush" \in Labels
      BY <1>5, <2>2 DEF PushElement, Labels, TypeInv, TypeOK
    <3>. HIDE DEF q
    <3>. QED
      BY <3>1, <3>2, OneRequestType
  <2>. QED
    BY <2>1, <2>2
<1>. HIDE DEF k, v
<1>7. /\ IsDb(db)'
      /\ spoiled' \in [Requests -> SUBSET Keys] /\ mishaps' \in 0 .. MaxMishaps
  BY <1>1, <1>4, <1>5, WriteTypes
<1>. QED
  BY <1>6, <1>7, TypesFromParts DEF PushElement, TypeInv, TypeOK

\* A request that only moves on.
LEMMA MoveOnTypes ==
  ASSUME TypeInv, NEW r \in Requests, ListDone(r) \/ LoopDone(r)
  PROVE  TypeInv'
<1>1. PICK label \in {"next", "audit"} :
        /\ pc' = [pc EXCEPT ![r] = label]
        /\ label = "next" => pc[r] = "rpush"
        /\ label = "audit" => pc[r] \in {"type", "next"}
  BY DEF ListDone, LoopDone
<1>2. /\ req' = req /\ pc' \in [Requests -> Labels] /\ pc'[r] = label
      /\ \A p \in Requests \ {r} : pc'[p] = pc[p]
  BY <1>1 DEF ListDone, LoopDone, TypeInv, TypeOK, Labels
<1>3. ShapeOK' /\ \A p \in Requests : FieldsOK(req'[p])
  <2>1. \A p \in Requests : KindOK(p)'
    BY <1>1, <1>2 DEF KindOK, TypeInv, ShapeOK
  <2>. QED
    BY <1>2, <2>1 DEF TypeInv, TypeOK, ShapeOK, FieldsOK
<1>. QED
  BY <1>2, <1>3, TypesFromParts DEF ListDone, LoopDone, TypeInv, TypeOK

LEMMA LogAuditTypes == ASSUME TypeInv, NEW r \in Requests, LogAudit(r) PROVE TypeInv'
<1>1. FieldsOK(req[r]) /\ req[r].kind \in {"backup", "restore"}
  BY DEF LogAudit, TypeInv, TypeOK, ShapeOK, KindOK, FieldsOK
<1>2. Cardinality(DOMAIN req[r].data) \in Nat
  BY <1>1, KeysFinite, FS_Subset, FS_CardinalityType DEF FieldsOK, IsBackup
<1>3. AuditRow(r) \in AuditRows
  BY <1>1, <1>2 DEF AuditRow, AuditRows
<1>4. audit' \in Seq(AuditRows)
  <2>1. audit' = audit \/ audit' = Append(audit, AuditRow(r))
    BY DEF LogAudit
  <2>2. audit \in Seq(AuditRows)
    BY DEF TypeInv, TypeOK
  <2>. QED
    BY <1>3, <2>1, <2>2, AppendProperties
<1>5. IsBackup(file')
  BY <1>1 DEF LogAudit, TypeInv, TypeOK, FieldsOK
<1>6. /\ pc' \in [Requests -> Labels] /\ pc'[r] \in Terminal
      /\ \A p \in Requests \ {r} : pc'[p] = pc[p]
  BY DEF LogAudit, TypeInv, TypeOK, Labels, Terminal
<1>7. /\ ShapeOK' /\ \A p \in Requests : FieldsOK(req'[p])
      /\ spoiled' \in [Requests -> SUBSET Keys]
  BY <1>6, ForgetType DEF LogAudit
<1>. QED
  BY <1>4, <1>5, <1>6, <1>7, TypesFromParts DEF LogAudit, TypeInv, TypeOK

\* What others do, and an exit.
LEMMA OneChangeType ==
  ASSUME TypeInv, NEW k \in Keys, NEW v \in OneChange(k)
  PROVE  v \in Contents(k)
<1>1. db[k] \in Contents(k)
  BY DEF TypeInv, TypeOK, IsDb
<1>2. CASE k \in Lists
  <2>1. OneChange(k) = {Append(db[k], e) : e \in IF Len(db[k]) < MaxLen THEN Elements ELSE {}}
                       \cup {RemoveFirst(db[k], e) : e \in Elements} \cup {<<>>}
    BY <1>2, KeysAssumption DEF OneChange
  <2>2. \/ \E e \in Elements : v = Append(db[k], e)
        \/ \E e \in Elements : v = RemoveFirst(db[k], e)
        \/ v = <<>>
    BY <2>1
  <2>3. db[k] \in Seq(Elements) /\ Contents(k) = Seq(Elements)
    BY <1>1, <1>2, ContentsByType
  <2>4. \A e \in Elements : Append(db[k], e) \in Seq(Elements)
    BY <2>3, AppendProperties
  <2>5. \A e \in Elements : RemoveFirst(db[k], e) \in Seq(Elements)
    BY <2>3, RemoveFirstRemovesOne, RemoveAtType
  <2>. QED
    BY <2>2, <2>3, <2>4, <2>5, EmptySeq
<1>3. CASE k \in Hashes
  <2>1. OneChange(k) = {[db[k] EXCEPT ![f] = w] : f \in Fields, w \in Values}
    BY <1>3, KeysAssumption DEF OneChange
  <2>2. \E f \in Fields, w \in Values : v = [db[k] EXCEPT ![f] = w]
    BY <2>1
  <2>. QED
    BY <1>1, <1>3, <2>2, ContentsByType
<1>4. CASE k \in Strings
  BY <1>4, KeysAssumption, ContentsByType DEF OneChange
<1>5. CASE k \in Sets
  <2>1. OneChange(k) = {db[k] \cup {e} : e \in Elements} \cup {db[k] \ {e} : e \in Elements}
    BY <1>5, KeysAssumption DEF OneChange
  <2>. QED
    BY <1>1, <1>5, <2>1, ContentsByType
<1>. QED
  BY <1>2, <1>3, <1>4, <1>5 DEF Keys

LEMMA OthersChangeTypes == ASSUME TypeInv, OthersChange PROVE TypeInv'
<1>1. PICK k \in Keys :
        (\E v \in OneChange(k) : db' = [db EXCEPT ![k] = v]) /\ Spoil(Requests, k)
  BY DEF OthersChange
<1>2. IsDb(db)'
  <2>1. PICK v \in OneChange(k) : db' = [db EXCEPT ![k] = v]
    BY <1>1
  <2>2. IsDb(db) /\ v \in Contents(k)
    BY <2>1, OneChangeType DEF TypeInv, TypeOK
  <2>. QED
    BY <2>1, <2>2, SetKeyType DEF IsDb
<1>3. mishaps' \in 0 .. MaxMishaps
  BY BoundsAssumption DEF OthersChange, TypeInv, TypeOK
<1>. QED
  BY <1>1, <1>2, <1>3, SpoilType, SameRequestsType, TypesFromParts
  DEF OthersChange, TypeInv, TypeOK

LEMMA ExitTypes == ASSUME TypeInv, Exit PROVE TypeInv'
<1>1. /\ pc' \in [Requests -> Labels]
      /\ \A p \in Active : pc'[p] \in Terminal
      /\ \A p \in Requests \ Active : pc'[p] = pc[p]
  BY DEF Exit, TypeInv, TypeOK, Labels, Terminal, Active
<1>2. Active \in SUBSET Requests
  BY DEF Active
<1>3. /\ ShapeOK' /\ \A p \in Requests : FieldsOK(req'[p])
      /\ spoiled' \in [Requests -> SUBSET Keys]
  BY <1>1, <1>2, ForgetType DEF Exit
<1>. QED
  BY <1>1, <1>3, TypesFromParts DEF Exit, TypeInv, TypeOK

LEMMA InitTypes == Init => TypeInv
<1>. SUFFICES ASSUME Init PROVE TypeInv
  OBVIOUS
<1>1. Shaped(NoRequest) /\ FieldsOK(NoRequest)
  BY NoEntriesType, NewRequestType DEF NoRequest, FieldsOK
<1>2. \A r \in Requests : Shaped(req[r]) /\ FieldsOK(req[r]) /\ KindOK(r)
  BY <1>1 DEF Init, KindOK
<1>3. pc \in [Requests -> Labels] /\ audit \in Seq(AuditRows)
  BY EmptySeq DEF Init, Labels
<1>. QED
  BY <1>2, <1>3, InitAssumption, BoundsAssumption DEF Init, TypeInv, TypeOK, ShapeOK, FieldsOK

\* No step leaves the types.
LEMMA NextTypes == TypeInv /\ [Next]_vars => TypeInv'
<1>. SUFFICES ASSUME TypeInv, [Next]_vars PROVE TypeInv'
  OBVIOUS
<1>1. ASSUME NEW r \in Requests, Begin(r) PROVE TypeInv'
  BY <1>1, BeginTypes
<1>2. ASSUME NEW r \in Requests, Backup(r) PROVE TypeInv'
  BY <1>2, ScanTypes, ReadTypeTypes, ReadKeyTypes DEF Backup
<1>3. ASSUME NEW r \in Requests, Restore(r) PROVE TypeInv'
  BY <1>3, PassOverTypes, RestoreHashTypes, RestoreStringTypes, DeleteListTypes,
     PushElementTypes, MoveOnTypes DEF Restore
<1>4. ASSUME NEW r \in Requests, LoopDone(r) \/ LogAudit(r) PROVE TypeInv'
  BY <1>4, MoveOnTypes, LogAuditTypes
<1>5. CASE OthersChange \/ Exit
  BY <1>5, OthersChangeTypes, ExitTypes
<1>6. CASE UNCHANGED vars
  BY <1>6 DEF vars, TypeInv, TypeOK, ShapeOK, KindOK
<1>. QED
  BY <1>1, <1>2, <1>3, <1>4, <1>5, <1>6 DEF Next, Finished

\* The type invariant holds, for every set of keys, requests and faults.
THEOREM TypeCorrect == Spec => []TypeOK
<1>1. TypeInv => TypeOK
  BY DEF TypeInv
<1>. QED
  BY <1>1, InitTypes, NextTypes, PTL DEF Spec

-----------------------------------------------------------------------------

\* The keys that SCAN went past, all of them once its loop has ended.
Scanned(r) ==
  IF pc[r] = "scan" THEN {KeyOrder[i] : i \in 1 .. req[r].cursor} ELSE Keys

\* The keys that were found and are still to be read.
ToRead(r) ==
  ToSet(req[r].found)
  \cup (IF pc[r] = "read" THEN {req[r].key} ELSE {})

BackupKeyOK(r, k) ==
  /\ k \in ToRead(r) => k \in Present
  /\ k \in Scanned(r) \cap Present => k \in ToRead(r) \cup DOMAIN req[r].data
  /\ k \in DOMAIN req[r].data => k \in Present /\ req[r].data[k] = db[k]

BackupOK(r) ==
  r \in Active /\ req[r].kind = "backup" =>
    /\ pc[r] = "audit" => req[r].found = <<>>
    /\ \A k \in Keys \ spoiled[r] : BackupKeyOK(r, k)

RestoreKeyOK(r, k) ==
  IF pc[r] = "rpush" /\ k = req[r].key
  THEN db[k] \o req[r].rest = req[r].data[k]
  ELSE k \in req[r].todo \/ Agrees(k, req[r].data[k])

RestoreOK(r) ==
  r \in Active /\ req[r].kind = "restore" =>
    /\ pc[r] = "audit" => req[r].todo = {}
    /\ pc[r] = "rpush" => req[r].key \in DOMAIN req[r].data
    /\ \A k \in DOMAIN req[r].data \ (Sets \cup spoiled[r]) : RestoreKeyOK(r, k)

RequestsOK == \A r \in Requests : BackupOK(r) /\ RestoreOK(r)
BInv == TypeInv /\ RequestsOK

-----------------------------------------------------------------------------
(***************************************************************************)
(* What one command does to the other requests in flight.                  *)
(***************************************************************************)

\* To a request in flight, a key changes only when it is spoiled.
Unnoticed(q) ==
  q \in Active => /\ spoiled[q] \subseteq spoiled'[q]
                  /\ \A k \in Keys \ spoiled'[q] : db'[k] = db[k]

\* A step of others keeps what the invariant says of a request.
LEMMA OthersKeepIt ==
  ASSUME BInv, NEW q \in Requests, pc'[q] = pc[q], req'[q] = req[q], Unnoticed(q)
  PROVE  BackupOK(q)' /\ RestoreOK(q)'
<1>1. q \in Active' <=> q \in Active
  BY DEF Active
<1>2. BackupOK(q)'
  <2>. SUFFICES ASSUME q \in Active, req[q].kind = "backup"
                PROVE  /\ pc[q] = "audit" => req[q].found = <<>>
                       /\ \A k \in Keys \ spoiled'[q] : BackupKeyOK(q, k)'
    BY <1>1 DEF BackupOK
  <2>1. pc[q] = "audit" => req[q].found = <<>>
    BY DEF BInv, RequestsOK, BackupOK
  <2>2. ASSUME NEW k \in Keys \ spoiled'[q]
        PROVE  BackupKeyOK(q, k)'
    <3>1. BackupKeyOK(q, k) /\ db'[k] = db[k]
      BY <2>2 DEF BInv, RequestsOK, BackupOK, Unnoticed
    <3>2. k \in Present' <=> k \in Present
      BY <3>1 DEF Present
    <3>3. ToRead(q)' = ToRead(q) /\ Scanned(q)' = Scanned(q)
      BY DEF ToRead, Scanned
    <3>. QED
      BY <3>1, <3>2, <3>3 DEF BackupKeyOK
  <2>. QED
    BY <2>1, <2>2
<1>3. RestoreOK(q)'
  <2>. SUFFICES ASSUME q \in Active, req[q].kind = "restore"
                PROVE  /\ pc[q] = "audit" => req[q].todo = {}
                       /\ pc[q] = "rpush" => req[q].key \in DOMAIN req[q].data
                       /\ \A k \in DOMAIN req[q].data \ (Sets \cup spoiled'[q]) :
                            RestoreKeyOK(q, k)'
    BY <1>1 DEF RestoreOK
  <2>1. /\ pc[q] = "audit" => req[q].todo = {}
        /\ pc[q] = "rpush" => req[q].key \in DOMAIN req[q].data
    BY DEF BInv, RequestsOK, RestoreOK
  <2>2. ASSUME NEW k \in DOMAIN req[q].data \ (Sets \cup spoiled'[q])
        PROVE  RestoreKeyOK(q, k)'
    <3>1. RestoreKeyOK(q, k)
      BY <2>2 DEF BInv, RequestsOK, RestoreOK, Unnoticed
    <3>2. k \in Keys
      BY DEF BInv, TypeInv, TypeOK, IsBackup
    <3>3. db'[k] = db[k]
      BY <2>2, <3>2 DEF Unnoticed
    <3>4. Agrees(k, req[q].data[k])' <=> Agrees(k, req[q].data[k])
      BY <3>3 DEF Agrees
    <3>. QED
      BY <3>1, <3>3, <3>4 DEF RestoreKeyOK
  <2>. QED
    BY <2>1, <2>2
<1>. QED
  BY <1>2, <1>3

\* A request that is not in flight has nothing to keep.
LEMMA NotInFlight ==
  ASSUME NEW q \in Requests, pc'[q] \in Terminal \cup {"idle"}
  PROVE  BackupOK(q)' /\ RestoreOK(q)'
BY DEF Active, BackupOK, RestoreOK

\* A command that reads: a failure spoils the key, for the reader.
LEMMA ReadEffect ==
  ASSUME BInv, NEW r \in Active, NEW k \in Keys, NEW reply \in Replies,
         Read(r, k, reply), db' = db
  PROVE  /\ \A q \in Requests : Unnoticed(q)
         /\ spoiled[r] \subseteq spoiled'[r] /\ (reply # "ok" => k \in spoiled'[r])
BY DEF Read, Spoil, Unnoticed, BInv, TypeInv, TypeOK, Active

\* A command that writes spoils the key, for the others, and after a failure for
\* the writer too.
LEMMA WriteEffect ==
  ASSUME BInv, NEW r \in Active, NEW k \in Keys, NEW v \in Contents(k),
         NEW reply, NEW sure \in SUBSET Idempotent, Write(r, k, v, reply, sure)
  PROVE  /\ \A q \in Requests \ {r} : Unnoticed(q)
         /\ spoiled[r] \subseteq spoiled'[r]
         /\ k \notin spoiled'[r] => db'[k] = v
         /\ \A j \in Keys \ {k} : db'[j] = db[j]
<1>1. \A j \in Keys \ {k} : db'[j] = db[j]
  BY SetKeyType DEF Write, BInv, TypeInv, TypeOK
<1>2. reply \in sure => db'[k] = v
  BY SetKeyType DEF Write, Idempotent, BInv, TypeInv, TypeOK
<1>3. /\ reply # "refused" => \A q \in Active \ {r} : spoiled'[q] = spoiled[q] \cup {k}
      /\ reply = "refused" => db' = db /\ \A q \in Active \ {r} : spoiled'[q] = spoiled[q]
  BY DEF Write, Spoil, Active
<1>4. spoiled'[r] = IF reply \in sure THEN spoiled[r] ELSE spoiled[r] \cup {k}
  BY DEF Write, Spoil, Active
<1>. QED
  BY <1>1, <1>2, <1>3, <1>4 DEF Unnoticed

\* The invariant, from the request that took the step and the others.
LEMMA OneStepOK ==
  ASSUME BInv, TypeInv', NEW r \in Requests,
         \A q \in Requests \ {r} : pc'[q] = pc[q] /\ req'[q] = req[q] /\ Unnoticed(q),
         BackupOK(r)', RestoreOK(r)'
  PROVE  BInv'
<1>1. \A q \in Requests : BackupOK(q)' /\ RestoreOK(q)'
  BY OthersKeepIt
<1>. QED
  BY <1>1 DEF BInv, RequestsOK

-----------------------------------------------------------------------------
(***************************************************************************)
(* Requests that begin and end.                                            *)
(***************************************************************************)

LEMMA BeginOK == ASSUME BInv, NEW r \in Requests, Begin(r) PROVE BInv'
<1>1. TypeInv'
  BY BeginTypes DEF BInv
<1>2. \A q \in Requests \ {r} : pc'[q] = pc[q] /\ req'[q] = req[q] /\ Unnoticed(q)
  BY DEF Begin, Unnoticed, BInv, TypeInv, TypeOK, ShapeOK
<1>3. DOMAIN req = Requests /\ pc \in [Requests -> Labels]
  BY DEF BInv, TypeInv, TypeOK, ShapeOK
<1>4. CASE req' = [req EXCEPT ![r] = NewRequest("backup", NoEntries)] /\ Goto(r, "scan")
  <2>1. pc'[r] = "scan" /\ req'[r] = NewRequest("backup", NoEntries)
    BY <1>3, <1>4
  <2>2. /\ req'[r].kind = "backup" /\ DOMAIN req'[r].data = {}
        /\ req'[r].cursor = 0 /\ req'[r].found = <<>>
    BY <2>1, NoEntriesType DEF NewRequest
  <2>3. ToSet(<<>>) = {}
    BY DEF ToSet
  <2>4. ToRead(r)' = {} /\ Scanned(r)' = {}
    BY <2>1, <2>2, <2>3 DEF ToRead, Scanned
  <2>5. BackupOK(r)' /\ RestoreOK(r)'
    BY <2>1, <2>2, <2>4 DEF BackupOK, BackupKeyOK, RestoreOK
  <2>. QED
    BY <1>1, <1>2, <2>5, OneStepOK
<1>5. CASE req' = [req EXCEPT ![r] = NewRequest("restore", file)] /\ Goto(r, "next")
  <2>1. pc'[r] = "next" /\ req'[r] = NewRequest("restore", file)
    BY <1>3, <1>5
  <2>2. req'[r].kind = "restore" /\ req'[r].todo = DOMAIN req'[r].data
    BY <2>1 DEF NewRequest
  <2>3. BackupOK(r)' /\ RestoreOK(r)'
    BY <2>1, <2>2 DEF BackupOK, RestoreKeyOK, RestoreOK
  <2>. QED
    BY <1>1, <1>2, <2>3, OneStepOK
<1>. QED
  BY <1>4, <1>5 DEF Begin

LEMMA LogAuditOK == ASSUME BInv, NEW r \in Requests, LogAudit(r) PROVE BInv'
<1>1. TypeInv'
  BY LogAuditTypes DEF BInv
<1>2. \A q \in Requests \ {r} : pc'[q] = pc[q] /\ req'[q] = req[q] /\ Unnoticed(q)
  BY DEF LogAudit, Forget, Unnoticed, BInv, TypeInv, TypeOK
<1>3. pc'[r] \in Terminal
  BY DEF LogAudit, Terminal, BInv, TypeInv, TypeOK
<1>. QED
  BY <1>1, <1>2, <1>3, NotInFlight, OneStepOK

LEMMA ExitOK == ASSUME BInv, Exit PROVE BInv'
<1>1. TypeInv'
  BY ExitTypes DEF BInv
<1>2. \A q \in Requests : pc'[q] \in Terminal \cup {"idle"}
  BY DEF Exit, Terminal, Active, BInv, TypeInv, TypeOK
<1>. QED
  BY <1>1, <1>2, NotInFlight DEF BInv, RequestsOK

LEMMA OthersChangeOK == ASSUME BInv, OthersChange PROVE BInv'
<1>1. TypeInv'
  BY OthersChangeTypes DEF BInv
<1>2. PICK k \in Keys :
        (\E v \in OneChange(k) : db' = [db EXCEPT ![k] = v]) /\ Spoil(Requests, k)
  BY DEF OthersChange
<1>3. \A j \in Keys \ {k} : db'[j] = db[j]
  BY <1>2 DEF BInv, TypeInv, TypeOK, IsDb
<1>4. \A q \in Active : spoiled'[q] = spoiled[q] \cup {k}
  BY <1>2 DEF Spoil, Active
<1>5. \A q \in Requests : pc'[q] = pc[q] /\ req'[q] = req[q] /\ Unnoticed(q)
  BY <1>3, <1>4 DEF OthersChange, Unnoticed
<1>. QED
  BY <1>1, <1>5, OthersKeepIt DEF BInv, RequestsOK

-----------------------------------------------------------------------------
(***************************************************************************)
(* The steps of a backup.                                                  *)
(***************************************************************************)

LEMMA ScanOK == ASSUME BInv, NEW r \in Requests, ScanKeys(r) PROVE BInv'
<1>1. TypeInv'
  BY ScanTypes DEF BInv
<1>2. PICK reply \in Replies, n \in req[r].cursor + 1 .. Len(KeyOrder) :
        IF reply = "ok"
        THEN /\ req' = [req EXCEPT ![r].cursor = n, ![r].found = Found(r, n)]
             /\ Goto(r, IF ScanComplete(n) THEN "type" ELSE "scan")
             /\ UNCHANGED <<spoiled, mishaps>>
        ELSE Goto(r, "error") /\ Forget({r}) /\ CountMishap(reply)
  BY DEF ScanKeys
<1>3. DOMAIN req = Requests /\ pc \in [Requests -> Labels] /\ Shaped(req[r])
  BY DEF BInv, TypeInv, TypeOK, ShapeOK
<1>4. CASE reply # "ok"
  <2>1. \A q \in Requests \ {r} : pc'[q] = pc[q] /\ req'[q] = req[q] /\ Unnoticed(q)
    BY <1>2, <1>3, <1>4 DEF ScanKeys, Forget, Unnoticed
  <2>2. pc'[r] \in Terminal
    BY <1>2, <1>3, <1>4 DEF Terminal
  <2>. QED
    BY <1>1, <2>1, <2>2, NotInFlight, OneStepOK
<1>5. CASE reply = "ok"
  <2>1. \A q \in Requests \ {r} : pc'[q] = pc[q] /\ req'[q] = req[q] /\ Unnoticed(q)
    BY <1>2, <1>3, <1>5 DEF ScanKeys, Unnoticed
  <2>2. /\ req'[r].cursor = n /\ req'[r].found = Found(r, n)
        /\ req'[r].kind = req[r].kind /\ req'[r].data = req[r].data
        /\ req'[r].key = req[r].key
    BY <1>2, <1>3, <1>5 DEF Shaped
  <2>3. /\ pc[r] = "scan" /\ req[r].kind = "backup" /\ db' = db /\ spoiled' = spoiled
        /\ pc'[r] = IF ScanComplete(n) THEN "type" ELSE "scan"
    BY <1>2, <1>3, <1>5 DEF ScanKeys, BInv, TypeInv, ShapeOK, KindOK
  <2>4. /\ req[r].cursor \in Nat /\ req[r].found \in Seq(Keys)
        /\ Len(KeyOrder) \in Nat /\ DOMAIN KeyOrder = 1 .. Len(KeyOrder)
    BY KeysAssumption, LenProperties DEF BInv, TypeInv, TypeOK
  <2>5. ToSet(Found(r, n)) = ToSet(req[r].found) \cup Hits(KeyOrder, req[r].cursor, n, Present)
    BY <2>4, FoundKeys
  <2>6. /\ ToRead(r) = ToSet(req[r].found) /\ ToRead(r)' = ToSet(Found(r, n))
        /\ Scanned(r) = {KeyOrder[i] : i \in 1 .. req[r].cursor}
    BY <2>2, <2>3 DEF ToRead, Scanned
  <2>7. Scanned(r)' = {KeyOrder[i] : i \in 1 .. n}
    <3>1. CASE ScanComplete(n)
      BY <2>3, <2>4, <3>1, KeysAssumption DEF Scanned, ScanComplete
    <3>2. CASE ~ScanComplete(n)
      BY <2>2, <2>3, <3>2 DEF Scanned
    <3>. QED
      BY <3>1, <3>2
  <2>8. \A i \in 1 .. n : i \in 1 .. req[r].cursor \/ i \in req[r].cursor + 1 .. n
    BY <2>4
  <2>9. Scanned(r)' \cap Present \subseteq (Scanned(r) \cap Present)
                                          \cup Hits(KeyOrder, req[r].cursor, n, Present)
    BY <2>6, <2>7, <2>8 DEF Hits
  <2>10. Hits(KeyOrder, req[r].cursor, n, Present) \subseteq Present
    BY DEF Hits
  <2>11. Present' = Present
    BY <2>3 DEF Present
  <2>12. r \in Active
    BY <2>3 DEF Active, Terminal
  <2>13. ASSUME NEW k \in Keys \ spoiled[r]
         PROVE  BackupKeyOK(r, k)'
    <3>1. BackupKeyOK(r, k)
      BY <2>3, <2>12 DEF BInv, RequestsOK, BackupOK
    <3>. QED
      BY <2>2, <2>3, <2>5, <2>6, <2>9, <2>10, <2>11, <3>1 DEF BackupKeyOK
  <2>14. BackupOK(r)' /\ RestoreOK(r)'
    BY <2>2, <2>3, <2>13 DEF BackupOK, RestoreOK
  <2>. QED
    BY <1>1, <2>1, <2>14, OneStepOK
<1>. QED
  BY <1>4, <1>5

LEMMA ReadTypeOK == ASSUME BInv, NEW r \in Requests, ReadType(r) PROVE BInv'
<1>. DEFINE h == Head(req[r].found)
<1>1. TypeInv'
  BY ReadTypeTypes DEF BInv
<1>2. PICK reply \in Replies :
        /\ req' = [req EXCEPT ![r].found = Tail(@), ![r].key = h]
        /\ Goto(r, IF reply = "ok" /\ h \in Present THEN "read" ELSE "type")
        /\ Read(r, h, reply)
  BY DEF ReadType
<1>3. /\ DOMAIN req = Requests /\ pc \in [Requests -> Labels] /\ Shaped(req[r])
      /\ pc[r] = "type" /\ req[r].kind = "backup" /\ req[r].found \in Seq(Keys)
      /\ req[r].found # <<>> /\ UNCHANGED <<db, file, audit>>
  BY DEF ReadType, BInv, TypeInv, TypeOK, ShapeOK, KindOK
<1>4. h \in Keys /\ ToSet(req[r].found) = {h} \cup ToSet(Tail(req[r].found))
  BY <1>3, HeadTailProperties, HeadTailElements
<1>. HIDE DEF h
<1>5. /\ req'[r].found = Tail(req[r].found) /\ req'[r].key = h
      /\ req'[r].kind = req[r].kind /\ req'[r].data = req[r].data
  BY <1>2, <1>3 DEF Shaped
<1>6. /\ pc'[r] = IF reply = "ok" /\ h \in Present THEN "read" ELSE "type"
      /\ \A q \in Requests \ {r} : pc'[q] = pc[q] /\ req'[q] = req[q]
  BY <1>2, <1>3
<1>7. r \in Active
  BY <1>3 DEF Active, Terminal
<1>8. /\ \A q \in Requests : Unnoticed(q)
      /\ spoiled[r] \subseteq spoiled'[r] /\ (reply # "ok" => h \in spoiled'[r])
  BY <1>2, <1>3, <1>4, <1>7, ReadEffect
<1>9. /\ ToRead(r) = {h} \cup ToSet(Tail(req[r].found)) /\ Scanned(r) = Keys
      /\ Scanned(r)' = Keys
      /\ ToRead(r)' = ToSet(Tail(req[r].found))
                       \cup (IF reply = "ok" /\ h \in Present THEN {h} ELSE {})
  BY <1>3, <1>4, <1>5, <1>6 DEF ToRead, Scanned
<1>10. Present' = Present
  BY <1>3 DEF Present
<1>11. ASSUME NEW k \in Keys \ spoiled'[r]
       PROVE  BackupKeyOK(r, k)'
  <2>1. BackupKeyOK(r, k)
    BY <1>3, <1>7, <1>8 DEF BInv, RequestsOK, BackupOK
  <2>. QED
    BY <1>3, <1>5, <1>8, <1>9, <1>10, <2>1 DEF BackupKeyOK
<1>12. BackupOK(r)' /\ RestoreOK(r)'
  BY <1>3, <1>5, <1>6, <1>11 DEF BackupOK, RestoreOK
<1>. QED
  BY <1>1, <1>6, <1>8, <1>12, OneStepOK

\* A key that is present, read without a failure, is read as it is.
LEMMA ResultFaithful ==
  ASSUME NEW k \in Present
  PROVE  Result(k, "ok") = db[k]
<1>1. k \in Strings => db[k] # Absent
  BY ContentsByType DEF Present
<1>. QED
  BY <1>1 DEF Result

LEMMA ReadKeyOK == ASSUME BInv, NEW r \in Requests, ReadKey(r) PROVE BInv'
<1>. DEFINE h == req[r].key
<1>1. TypeInv'
  BY ReadKeyTypes DEF BInv
<1>2. PICK reply \in Replies :
        /\ req' = [req EXCEPT ![r].data =
                     [j \in DOMAIN @ \cup {h} |->
                        IF j = h THEN Result(h, reply) ELSE req[r].data[j]]]
        /\ Read(r, h, reply)
  BY DEF ReadKey
<1>3. /\ DOMAIN req = Requests /\ pc \in [Requests -> Labels] /\ Shaped(req[r])
      /\ pc[r] = "read" /\ req[r].kind = "backup" /\ h \in Keys
      /\ UNCHANGED <<db, file, audit>>
  BY DEF ReadKey, BInv, TypeInv, TypeOK, ShapeOK, KindOK
<1>4. ToRead(r) = ToSet(req[r].found) \cup {h} /\ Scanned(r) = Keys
  BY <1>3 DEF ToRead, Scanned
<1>. HIDE DEF h
<1>5. /\ req'[r].found = req[r].found /\ req'[r].kind = req[r].kind
      /\ req'[r].data = [j \in DOMAIN req[r].data \cup {h} |->
                           IF j = h THEN Result(h, reply) ELSE req[r].data[j]]
  BY <1>2, <1>3 DEF Shaped
<1>6. /\ pc'[r] = "type"
      /\ \A q \in Requests \ {r} : pc'[q] = pc[q] /\ req'[q] = req[q]
  BY <1>2, <1>3 DEF ReadKey
<1>7. r \in Active
  BY <1>3 DEF Active, Terminal
<1>8. /\ \A q \in Requests : Unnoticed(q)
      /\ spoiled[r] \subseteq spoiled'[r] /\ (reply # "ok" => h \in spoiled'[r])
  BY <1>2, <1>3, <1>7, ReadEffect
<1>9. ToRead(r)' = ToSet(req[r].found) /\ Scanned(r)' = Keys
  BY <1>5, <1>6 DEF ToRead, Scanned
<1>10. Present' = Present
  BY <1>3 DEF Present
<1>11. ASSUME NEW k \in Keys \ spoiled'[r]
       PROVE  BackupKeyOK(r, k)'
  <2>1. BackupKeyOK(r, k)
    BY <1>3, <1>7, <1>8 DEF BInv, RequestsOK, BackupOK
  <2>2. /\ DOMAIN req'[r].data = DOMAIN req[r].data \cup {h}
        /\ k # h /\ k \in DOMAIN req[r].data => req'[r].data[k] = req[r].data[k]
        /\ req'[r].data[h] = Result(h, reply)
    BY <1>5
  <2>3. k = h => k \in Present /\ req'[r].data[k] = db[k]
    BY <1>4, <1>8, <2>1, <2>2, ResultFaithful DEF BackupKeyOK
  <2>. QED
    BY <1>3, <1>4, <1>9, <1>10, <2>1, <2>2, <2>3 DEF BackupKeyOK
<1>12. BackupOK(r)' /\ RestoreOK(r)'
  BY <1>3, <1>5, <1>6, <1>11 DEF BackupOK, RestoreOK
<1>. QED
  BY <1>1, <1>6, <1>8, <1>12, OneStepOK

\* All keys have been gone over.
LEMMA LoopDoneOK == ASSUME BInv, NEW r \in Requests, LoopDone(r) PROVE BInv'
<1>1. TypeInv'
  BY MoveOnTypes DEF BInv
<1>2. /\ pc'[r] = "audit" /\ UNCHANGED <<db, req, spoiled>>
      /\ \A q \in Requests \ {r} : pc'[q] = pc[q]
  BY DEF LoopDone, BInv, TypeInv, TypeOK
<1>3. \A q \in Requests \ {r} : pc'[q] = pc[q] /\ req'[q] = req[q] /\ Unnoticed(q)
  BY <1>2 DEF Unnoticed
<1>4. CASE pc[r] = "type" /\ req[r].found = <<>>
  <2>1. r \in Active /\ req[r].kind = "backup"
    BY <1>4 DEF Active, Terminal, BInv, TypeInv, ShapeOK, KindOK
  <2>2. ToRead(r)' = ToRead(r) /\ Scanned(r)' = Scanned(r) /\ Present' = Present
    BY <1>2, <1>4 DEF ToRead, Scanned, Present
  <2>3. ASSUME NEW k \in Keys \ spoiled[r]
        PROVE  BackupKeyOK(r, k)'
    <3>1. BackupKeyOK(r, k)
      BY <2>1 DEF BInv, RequestsOK, BackupOK
    <3>. QED
      BY <1>2, <2>2, <3>1 DEF BackupKeyOK
  <2>4. BackupOK(r)' /\ RestoreOK(r)'
    BY <1>2, <1>4, <2>1, <2>3 DEF BackupOK, RestoreOK
  <2>. QED
    BY <1>1, <1>3, <2>4, OneStepOK
<1>5. CASE pc[r] = "next" /\ req[r].todo = {}
  <2>1. r \in Active /\ req[r].kind = "restore"
    BY <1>5 DEF Active, Terminal, BInv, TypeInv, ShapeOK, KindOK
  <2>2. ASSUME NEW k \in DOMAIN req[r].data \ (Sets \cup spoiled[r])
        PROVE  RestoreKeyOK(r, k)'
    <3>1. RestoreKeyOK(r, k)
      BY <2>1 DEF BInv, RequestsOK, RestoreOK
    <3>. QED
      BY <1>2, <1>5, <3>1 DEF RestoreKeyOK, Agrees
  <2>3. BackupOK(r)' /\ RestoreOK(r)'
    BY <1>2, <1>5, <2>1, <2>2 DEF BackupOK, RestoreOK
  <2>. QED
    BY <1>1, <1>3, <2>3, OneStepOK
<1>. QED
  BY <1>4, <1>5 DEF LoopDone

-----------------------------------------------------------------------------
(***************************************************************************)
(* The steps of a restore.                                                 *)
(***************************************************************************)

\* An entry is taken: its key agrees with it now, or it is spoiled; or its command
\* is about to be sent again.
LEMMA RestoredOK ==
  ASSUME BInv, TypeInv', NEW r \in Requests, NEW h \in Upcoming(r), NEW reply,
         Restored(r, h, reply),
         \A q \in Requests \ {r} : Unnoticed(q),
         spoiled[r] \subseteq spoiled'[r], \A j \in Keys \ {h} : db'[j] = db[j],
         reply # "again" => h \in Sets \cup spoiled'[r] \/ Agrees(h, req[r].data[h])'
  PROVE  BInv'
<1>1. /\ DOMAIN req = Requests /\ Shaped(req[r]) /\ pc \in [Requests -> Labels]
      /\ pc[r] \in {"next", "again"} /\ h \in req[r].todo /\ h \in Keys
      /\ req[r].kind = "restore" /\ DOMAIN req[r].data \subseteq Keys
  BY UpcomingEntry DEF BInv, TypeInv, TypeOK, ShapeOK, IsBackup
<1>2. r \in Active
  BY <1>1 DEF Active, Terminal
<1>3. /\ req'[r].kind = req[r].kind /\ req'[r].data = req[r].data
      /\ pc'[r] \in {"next", "again"}
      /\ req'[r].todo = IF reply = "again" THEN req[r].todo ELSE req[r].todo \ {h}
      /\ \A q \in Requests \ {r} : pc'[q] = pc[q] /\ req'[q] = req[q]
  BY <1>1 DEF Restored, Take, Shaped
<1>4. ASSUME NEW k \in DOMAIN req[r].data \ (Sets \cup spoiled'[r])
      PROVE  RestoreKeyOK(r, k)'
  <2>1. RestoreKeyOK(r, k)
    BY <1>1, <1>2 DEF BInv, RequestsOK, RestoreOK
  <2>2. k \in req[r].todo \/ Agrees(k, req[r].data[k])
    BY <1>1, <2>1 DEF RestoreKeyOK
  <2>3. CASE k = h
    BY <1>1, <1>3, <2>3 DEF RestoreKeyOK, Agrees
  <2>4. CASE k # h
    <3>1. db'[k] = db[k]
      BY <1>1, <2>4
    <3>2. Agrees(k, req[r].data[k]) => Agrees(k, req[r].data[k])'
      BY <1>3, <3>1 DEF Agrees
    <3>. QED
      BY <1>3, <2>2, <2>4, <3>2 DEF RestoreKeyOK
  <2>. QED
    BY <2>3, <2>4
<1>5. BackupOK(r)' /\ RestoreOK(r)'
  BY <1>1, <1>3, <1>4 DEF BackupOK, RestoreOK
<1>. QED
  BY <1>3, <1>5, OneStepOK

LEMMA PassOverOK == ASSUME BInv, NEW r \in Requests, PassOver(r) PROVE BInv'
<1>1. TypeInv'
  BY PassOverTypes DEF BInv
<1>2. PICK h \in Upcoming(r) : /\ h \in Sets \/ req[r].data[h] = Absent
                               /\ Restored(r, h, "ok")
  BY PassOverTakes DEF BInv
<1>3. /\ \A q \in Requests : Unnoticed(q)
      /\ spoiled' = spoiled /\ db' = db
  BY DEF PassOver, Unnoticed
<1>4. req'[r].data = req[r].data
  BY <1>2 DEF Restored, Take, BInv, TypeInv, ShapeOK, Shaped
<1>5. h \in Sets \/ Agrees(h, req[r].data[h])'
  BY <1>2, <1>4 DEF Agrees
<1>. QED
  BY <1>1, <1>2, <1>3, <1>5, RestoredOK

LEMMA RestoreHashOK == ASSUME BInv, NEW r \in Requests, RestoreHash(r) PROVE BInv'
<1>1. TypeInv'
  BY RestoreHashTypes DEF BInv
<1>2. PICK h \in Upcoming(r) \cap Hashes, reply \in WriteReplies :
        /\ req[r].data[h] # Absent
        /\ Write(r, h, [f \in Fields |-> IF req[r].data[h][f] = Absent THEN db[h][f]
                                         ELSE req[r].data[h][f]], reply, Idempotent)
        /\ Restored(r, h, reply)
  BY DEF RestoreHash
<1>. DEFINE v == [f \in Fields |-> IF req[r].data[h][f] = Absent THEN db[h][f]
                                  ELSE req[r].data[h][f]]
<1>3. /\ h \in Keys /\ req[r].data[h] \in Contents(h) /\ db[h] \in Contents(h)
      /\ r \in Active
  <2>1. pc[r] \in {"next", "again"}
    BY <1>2, UpcomingEntry DEF BInv
  <2>. QED
    BY <1>2, <2>1, EntryContents, KeysAssumption
    DEF Active, Terminal, BInv, TypeInv, TypeOK, IsDb
<1>4. v \in Contents(h)
  BY <1>3, ContentsByType
<1>5. \A f \in Fields : req[r].data[h][f] \in {Absent, v[f]}
  OBVIOUS
<1>. HIDE DEF v
<1>6. Write(r, h, v, reply, Idempotent)
  BY <1>2 DEF v
<1>7. /\ \A q \in Requests \ {r} : Unnoticed(q)
      /\ spoiled[r] \subseteq spoiled'[r] /\ (h \notin spoiled'[r] => db'[h] = v)
      /\ \A j \in Keys \ {h} : db'[j] = db[j]
  BY <1>3, <1>4, <1>6, WriteEffect
<1>8. req'[r].data = req[r].data
  BY <1>2 DEF Restored, Take, BInv, TypeInv, ShapeOK, Shaped
<1>9. h \in spoiled'[r] \/ Agrees(h, req[r].data[h])'
  BY <1>2, <1>5, <1>7, <1>8 DEF Agrees
<1>. QED
  BY <1>1, <1>2, <1>3, <1>7, <1>9, RestoredOK

LEMMA RestoreStringOK == ASSUME BInv, NEW r \in Requests, RestoreString(r) PROVE BInv'
<1>1. TypeInv'
  BY RestoreStringTypes DEF BInv
<1>2. PICK h \in Upcoming(r) \cap Strings, reply \in WriteReplies :
        Write(r, h, req[r].data[h], reply, Idempotent) /\ Restored(r, h, reply)
  BY DEF RestoreString
<1>3. h \in Keys /\ req[r].data[h] \in Contents(h) /\ r \in Active
  BY <1>2, EntryContents, UpcomingEntry DEF BInv, TypeInv, Active, Terminal
<1>4. /\ \A q \in Requests \ {r} : Unnoticed(q)
      /\ spoiled[r] \subseteq spoiled'[r]
      /\ (h \notin spoiled'[r] => db'[h] = req[r].data[h])
      /\ \A j \in Keys \ {h} : db'[j] = db[j]
  BY <1>2, <1>3, WriteEffect
<1>5. req'[r].data = req[r].data
  BY <1>2 DEF Restored, Take, BInv, TypeInv, ShapeOK, Shaped
<1>6. h \in spoiled'[r] \/ Agrees(h, req[r].data[h])'
  BY <1>2, <1>4, <1>5 DEF Agrees
<1>. QED
  BY <1>1, <1>2, <1>3, <1>4, <1>6, RestoredOK

LEMMA DeleteListOK == ASSUME BInv, NEW r \in Requests, DeleteList(r) PROVE BInv'
<1>1. TypeInv'
  BY DeleteListTypes DEF BInv
<1>2. PICK h \in Upcoming(r) \cap Lists, reply \in WriteReplies :
        /\ req[r].data[h] # Absent
        /\ Write(r, h, <<>>, reply, Idempotent)
        /\ IF reply = "again" THEN Restored(r, h, reply)
           ELSE /\ Goto(r, "rpush")
                /\ req' = [req EXCEPT ![r].todo = @ \ {h}, ![r].key = h,
                                      ![r].rest = req[r].data[h]]
  BY DEF DeleteList, Deleted
<1>3. /\ h \in Keys /\ h \in DOMAIN req[r].data /\ DOMAIN req[r].data \subseteq Keys
      /\ req[r].data[h] \in Seq(Elements) /\ <<>> \in Contents(h)
      /\ r \in Active /\ req[r].kind = "restore" /\ pc[r] \in {"next", "again"}
  <2>1. h \notin Strings /\ Contents(h) = Seq(Elements)
    BY <1>2, KeysAssumption, ContentsByType
  <2>2. /\ h \in Keys /\ h \in DOMAIN req[r].data /\ pc[r] \in {"next", "again"}
        /\ req[r].kind = "restore" /\ req[r].data[h] \in Contents(h)
    BY <1>2, <2>1, EntryContents, UpcomingEntry DEF BInv
  <2>. QED
    BY <2>1, <2>2, EmptySeq DEF BInv, TypeInv, TypeOK, IsBackup, Active, Terminal
<1>4. /\ \A q \in Requests \ {r} : Unnoticed(q)
      /\ spoiled[r] \subseteq spoiled'[r] /\ (h \notin spoiled'[r] => db'[h] = <<>>)
      /\ \A j \in Keys \ {h} : db'[j] = db[j]
  BY <1>2, <1>3, WriteEffect
<1>5. DOMAIN req = Requests /\ Shaped(req[r]) /\ pc \in [Requests -> Labels]
  BY DEF BInv, TypeInv, TypeOK, ShapeOK
<1>6. CASE reply = "again"
  BY <1>1, <1>2, <1>4, <1>6, RestoredOK
<1>7. CASE reply # "again"
  <2>1. /\ req'[r].todo = req[r].todo \ {h} /\ req'[r].key = h
        /\ req'[r].rest = req[r].data[h] /\ req'[r].data = req[r].data
        /\ req'[r].kind = req[r].kind
    BY <1>2, <1>5, <1>7 DEF Shaped
  <2>2. /\ pc'[r] = "rpush"
        /\ \A q \in Requests \ {r} : pc'[q] = pc[q] /\ req'[q] = req[q]
    BY <1>2, <1>5, <1>7
  <2>3. ASSUME NEW k \in DOMAIN req[r].data \ (Sets \cup spoiled'[r])
        PROVE  RestoreKeyOK(r, k)'
    <3>1. CASE k = h
      <4>1. db'[h] = <<>>
        BY <1>4, <2>3, <3>1
      <4>2. <<>> \o req[r].data[h] = req[r].data[h]
        BY <1>3, ConcatEmptySeq
      <4>. QED
        BY <2>1, <2>2, <3>1, <4>1, <4>2 DEF RestoreKeyOK
    <3>2. CASE k # h
      <4>1. RestoreKeyOK(r, k)
        BY <1>3, <1>4 DEF BInv, RequestsOK, RestoreOK
      <4>2. k \in req[r].todo \/ Agrees(k, req[r].data[k])
        BY <1>3, <4>1 DEF RestoreKeyOK
      <4>3. db'[k] = db[k]
        BY <1>3, <1>4, <3>2
      <4>4. Agrees(k, req[r].data[k]) => Agrees(k, req[r].data[k])'
        BY <2>1, <4>3 DEF Agrees
      <4>. QED
        BY <2>1, <3>2, <4>2, <4>4 DEF RestoreKeyOK
    <3>. QED
      BY <3>1, <3>2
  <2>4. BackupOK(r)' /\ RestoreOK(r)'
    BY <1>3, <2>1, <2>2, <2>3 DEF BackupOK, RestoreOK
  <2>. QED
    BY <1>1, <1>4, <2>2, <2>4, OneStepOK
<1>. QED
  BY <1>6, <1>7

LEMMA PushElementOK == ASSUME BInv, NEW r \in Requests, PushElement(r) PROVE BInv'
<1>. DEFINE h == req[r].key
            rest == req[r].rest
            v == Append(db[h], Head(rest))
<1>1. /\ TypeInv' /\ r \in Active /\ req[r].kind = "restore" /\ pc[r] = "rpush"
      /\ h \in Lists /\ h \in Keys /\ rest \in Seq(Elements) /\ rest # <<>>
      /\ DOMAIN req[r].data \subseteq Keys /\ h \in DOMAIN req[r].data
  BY PushElementTypes DEF BInv, PushElement, Active, Terminal, TypeInv, TypeOK, ShapeOK,
     KindOK, RequestsOK, RestoreOK, Keys, IsBackup
<1>2. PICK reply \in WriteReplies :
        /\ Write(r, h, v, reply, OnlyOnce)
        /\ req' = IF reply = "again" THEN req ELSE [req EXCEPT ![r].rest = Tail(@)]
  BY DEF PushElement
<1>3. db[h] \in Seq(Elements)
  BY <1>1, ContentsByType DEF BInv, TypeInv, TypeOK, IsDb
<1>4. v \in Contents(h) /\ v \o Tail(rest) = db[h] \o rest
  <2>1. Head(rest) \in Elements /\ Contents(h) = Seq(Elements)
    BY <1>1, HeadTailProperties, ContentsByType
  <2>2. v \in Seq(Elements)
    <3>. HIDE DEF h, rest
    <3>. QED
      BY <1>3, <2>1, AppendProperties
  <2>3. v \o Tail(rest) = db[h] \o rest
    <3>. HIDE DEF h, rest
    <3>. QED
      BY <1>1, <1>3, MoveElement
  <2>. QED
    BY <2>1, <2>2, <2>3
<1>5. DOMAIN req = Requests /\ Shaped(req[r]) /\ pc' = pc
  BY DEF PushElement, BInv, TypeInv, TypeOK, ShapeOK
<1>6. /\ req'[r].todo = req[r].todo /\ req'[r].key = h
      /\ (reply # "again" => req'[r].rest = Tail(rest)) /\ req'[r].data = req[r].data
      /\ req'[r].kind = req[r].kind
      /\ \A q \in Requests \ {r} : req'[q] = req[q]
  BY <1>2, <1>5 DEF Shaped
<1>. HIDE DEF v
<1>7. /\ \A q \in Requests \ {r} : Unnoticed(q)
      /\ spoiled[r] \subseteq spoiled'[r] /\ (h \notin spoiled'[r] => db'[h] = v)
      /\ \A j \in Keys \ {h} : db'[j] = db[j]
      /\ (reply = "again" => h \in spoiled'[r])
  <2>1. OnlyOnce \in SUBSET Idempotent
    BY DEF OnlyOnce, Idempotent
  <2>2. reply = "again" => h \in spoiled'[r]
    BY <1>1, <1>2 DEF Write, Spoil, OnlyOnce
  <2>. QED
    BY <1>1, <1>2, <1>4, <2>1, <2>2, WriteEffect
<1>8. ASSUME NEW k \in DOMAIN req[r].data \ (Sets \cup spoiled'[r])
      PROVE  RestoreKeyOK(r, k)'
  <2>1. RestoreKeyOK(r, k)
    BY <1>1, <1>7 DEF BInv, RequestsOK, RestoreOK
  <2>2. CASE k = h
    <3>1. db'[h] = v /\ db[h] \o rest = req[r].data[h] /\ reply # "again"
      BY <1>1, <1>7, <2>1, <2>2 DEF RestoreKeyOK
    <3>. QED
      BY <1>1, <1>4, <1>5, <1>6, <2>2, <3>1 DEF RestoreKeyOK
  <2>3. CASE k # h
    <3>1. k \in req[r].todo \/ Agrees(k, req[r].data[k])
      BY <2>1, <2>3 DEF RestoreKeyOK
    <3>2. db'[k] = db[k]
      BY <1>1, <1>7, <2>3
    <3>3. Agrees(k, req[r].data[k]) => Agrees(k, req[r].data[k])'
      BY <1>6, <3>2 DEF Agrees
    <3>. QED
      BY <1>6, <2>3, <3>1, <3>3 DEF RestoreKeyOK
  <2>. QED
    BY <2>2, <2>3
<1>9. BackupOK(r)' /\ RestoreOK(r)'
  BY <1>1, <1>5, <1>6, <1>8 DEF BackupOK, RestoreOK
<1>. QED
  BY <1>1, <1>5, <1>6, <1>7, <1>9, OneStepOK

LEMMA ListDoneOK == ASSUME BInv, NEW r \in Requests, ListDone(r) PROVE BInv'
<1>1. TypeInv'
  BY MoveOnTypes DEF BInv
<1>2. /\ pc[r] = "rpush" /\ pc'[r] = "next" /\ UNCHANGED <<db, req, spoiled>>
      /\ req[r].rest = <<>> /\ \A q \in Requests \ {r} : pc'[q] = pc[q]
  BY DEF ListDone, BInv, TypeInv, TypeOK
<1>3. \A q \in Requests \ {r} : pc'[q] = pc[q] /\ req'[q] = req[q] /\ Unnoticed(q)
  BY <1>2 DEF Unnoticed
<1>4. /\ r \in Active /\ req[r].kind = "restore" /\ req[r].key \in Lists
      /\ req[r].key \in Keys
  BY <1>2 DEF Active, Terminal, BInv, TypeInv, ShapeOK, KindOK, Keys
<1>5. ASSUME NEW k \in DOMAIN req[r].data \ (Sets \cup spoiled[r])
      PROVE  RestoreKeyOK(r, k)'
  <2>1. RestoreKeyOK(r, k)
    BY <1>4 DEF BInv, RequestsOK, RestoreOK
  <2>2. CASE k = req[r].key
    <3>1. db[k] \o <<>> = req[r].data[k]
      BY <1>2, <2>1, <2>2 DEF RestoreKeyOK
    <3>2. db[k] \in Seq(Elements)
      BY <1>4, <2>2, ContentsByType DEF BInv, TypeInv, TypeOK, IsDb
    <3>3. db[k] = req[r].data[k]
      BY <3>1, <3>2, ConcatEmptySeq
    <3>. QED
      BY <1>2, <1>4, <2>2, <3>3 DEF RestoreKeyOK, Agrees
  <2>3. CASE k # req[r].key
    BY <1>2, <2>1, <2>3 DEF RestoreKeyOK, Agrees
  <2>. QED
    BY <2>2, <2>3
<1>6. BackupOK(r)' /\ RestoreOK(r)'
  BY <1>2, <1>4, <1>5 DEF BackupOK, RestoreOK
<1>. QED
  BY <1>1, <1>3, <1>6, OneStepOK

-----------------------------------------------------------------------------
(***************************************************************************)
(* The theorems.                                                           *)
(***************************************************************************)

\* At first no request is in flight.
LEMMA InitOK == Init => BInv
BY InitTypes DEF Init, BInv, RequestsOK, BackupOK, RestoreOK, Active

\* Every step keeps the invariant.
LEMMA NextOK == BInv /\ [Next]_vars => BInv'
<1>. SUFFICES ASSUME BInv, [Next]_vars PROVE BInv'
  OBVIOUS
<1>1. ASSUME NEW r \in Requests, Begin(r) PROVE BInv'
  BY <1>1, BeginOK
<1>2. ASSUME NEW r \in Requests, Backup(r) PROVE BInv'
  BY <1>2, ScanOK, ReadTypeOK, ReadKeyOK DEF Backup
<1>3. ASSUME NEW r \in Requests, Restore(r) PROVE BInv'
  BY <1>3, PassOverOK, RestoreHashOK, RestoreStringOK, DeleteListOK, PushElementOK,
     ListDoneOK DEF Restore
<1>4. ASSUME NEW r \in Requests, LoopDone(r) \/ LogAudit(r) PROVE BInv'
  BY <1>4, LoopDoneOK, LogAuditOK
<1>5. CASE OthersChange \/ Exit
  BY <1>5, OthersChangeOK, ExitOK
<1>6. CASE UNCHANGED vars
  <2>1. TypeInv'
    BY <1>6, NextTypes DEF BInv
  <2>2. \A q \in Requests : pc'[q] = pc[q] /\ req'[q] = req[q] /\ Unnoticed(q)
    BY <1>6 DEF vars, Unnoticed
  <2>. QED
    BY <2>1, <2>2, OthersKeepIt DEF BInv, RequestsOK
<1>. QED
  BY <1>1, <1>2, <1>3, <1>4, <1>5, <1>6 DEF Next, Finished

\* A backup that has gone over all keys holds exactly the keys present, each as
\* it is, but for those that others changed or whose commands failed: for any
\* keys, any number of requests, and any faults.
THEOREM BackupIsFaithfulAlways == Spec => []BackupIsFaithful
<1>1. BInv => BackupIsFaithful
  <2>. SUFFICES ASSUME BInv, NEW r \in Requests, Returned(r, "backup"),
                       NEW k \in Keys \ spoiled[r]
                PROVE  /\ k \in DOMAIN req[r].data <=> k \in Present
                       /\ k \in Present => req[r].data[k] = db[k]
    BY DEF BackupIsFaithful
  <2>1. pc[r] = "audit" /\ req[r].kind = "backup" /\ r \in Active
    BY DEF Returned, Active, Terminal
  <2>2. req[r].found = <<>> /\ BackupKeyOK(r, k)
    BY <2>1 DEF BInv, RequestsOK, BackupOK
  <2>3. ToRead(r) = {} /\ Scanned(r) = Keys
    BY <2>1, <2>2 DEF ToRead, Scanned, ToSet
  <2>. QED
    BY <2>2, <2>3 DEF BackupKeyOK
<1>. QED
  BY <1>1, InitOK, NextOK, PTL DEF Spec

\* A restore that has taken all entries has brought back every list, hash and
\* string of its file, but for the keys that others changed or whose commands
\* failed: for any keys, any number of requests, and any faults.
THEOREM RestoreBringsBackAlways == Spec => []RestoreBringsBack
<1>1. BInv => RestoreBringsBack
  <2>. SUFFICES ASSUME BInv, NEW r \in Requests, Returned(r, "restore"),
                       NEW k \in DOMAIN req[r].data \ (Sets \cup spoiled[r])
                PROVE  Agrees(k, req[r].data[k])
    BY DEF RestoreBringsBack
  <2>1. pc[r] = "audit" /\ req[r].kind = "restore" /\ r \in Active
    BY DEF Returned, Active, Terminal
  <2>2. req[r].todo = {} /\ RestoreKeyOK(r, k)
    BY <2>1 DEF BInv, RequestsOK, RestoreOK
  <2>. QED
    BY <2>1, <2>2 DEF RestoreKeyOK
<1>. QED
  BY <1>1, InitOK, NextOK, PTL DEF Spec
=============================================================================
