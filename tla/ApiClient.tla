------------------------------ MODULE ApiClient ------------------------------
(***************************************************************************)
(* The fetch wrapper of src/ui/src/services/api.ts and the control plane   *)
(* as the pages of the user interface see it.                              *)
(*                                                                         *)
(* A page keeps its state in React hooks.  A handler or an effect runs in  *)
(* one piece up to its first await, where a call is in flight; it goes on, *)
(* again in one piece, when the promise of the call settles.  Between the  *)
(* two, clicks, ticks and the continuations of other calls run in any      *)
(* order.  A call is answered (Serve) at one moment and its continuation   *)
(* runs at a later one, so what it applies may be out of date by then.     *)
(***************************************************************************)
EXTENDS Naturals, Sequences

CONSTANTS
    Null,           \* null, undefined, and the list that was never loaded
    Services,       \* names of the services
    Cells,          \* indices of the exchange table
    Alerts,         \* alerts that may be firing
    MaxEvents,      \* bound: clicks and changes by others in a behaviour
    MaxCalls        \* bound: calls in flight beyond which nothing is clicked

VARIABLES
    hooks,          \* the state hooks of the mounted page, a record
    calls,          \* its calls in flight, in the order they were sent
    hist,           \* history: what the page was told, for the properties
    world,          \* the control plane, and the files the browser saved
    events          \* clicks and changes by others still to come

pageVars == <<hooks, calls, hist, world, events>>

\* A text of an exchange value carries the cell it was read from or typed for.
Written == [cell : Cells, text : {"old", "new"}]
Text    == Written \cup {Null}

\* The whole table, or the rows of it that a search found.
Rows == UNION {[C -> Text] : C \in SUBSET Cells}

ASSUME BoundsAssumption == MaxEvents \in Nat /\ MaxCalls \in Nat

\* null is none of the values a page holds: no name, no text, no table, no answer.
ASSUME NullAssumption ==
    Null \notin Services \cup Cells \cup Written \cup Rows
                \cup [rev : Nat] \cup [rev : Nat, guids : SUBSET Nat] \cup [updates : Nat]

------------------------------------------------------------------------------
\* The world: rev counts the changes, so that an answer shows how old it is.
\* A file in the download folder is a backup, or the error object that was
\* saved in its place.
ErrorObject == [backup |-> FALSE]
Backup      == [backup |-> TRUE]

\* At first, one backup of an earlier visit is in the folder.
InitialWorld ==
    [rev |-> 0, queue |-> {0}, table |-> [c \in Cells |-> [cell |-> c, text |-> "old"]],
     files |-> {Backup}, updates |-> 0, firing |-> {}]

WorldOK ==
    /\ world.rev \in Nat /\ world.queue \subseteq Nat
    /\ world.table \in [Cells -> Text]
    /\ world.files \subseteq {Backup, ErrorObject}
    /\ world.updates \in Nat /\ world.firing \subseteq Alerts

------------------------------------------------------------------------------
\* Promises.  fetchJSON rejects when the response is not ok and when there is
\* none; the backup does not look at the status, so an error is its result.
Pending      == [state |-> "pending"]
Rejected     == [state |-> "rejected"]
Fulfilled(v) == [state |-> "fulfilled", value |-> v]

fetchJSON(r)      == IF r.status = "ok" THEN Fulfilled(r.body) ELSE Rejected
fetchUnchecked(r) == IF r.status # "none" THEN Fulfilled(r.body) ELSE Rejected

Promise(op, r) == IF op = "redis.backup" THEN fetchUnchecked(r) ELSE fetchJSON(r)

Call(op, arg) == [op |-> op, arg |-> arg, answer |-> Pending]

Settled(i)   == i \in DOMAIN calls /\ calls[i].answer # Pending
IsFulfilled(i) == calls[i].answer.state = "fulfilled"
Value(i)     == calls[i].answer.value
Without(i)   == SubSeq(calls, 1, i - 1) \o SubSeq(calls, i + 1, Len(calls))

------------------------------------------------------------------------------
\* The endpoints that change the control plane, and what each one does to it.
\* What a restart does to the containers, and a restore to the keys, no page
\* tells apart: it is one more change.
Effects(c) ==
    LET w == [world EXCEPT !.rev = @ + 1] IN
    CASE c.op \in {"services.restart", "redis.restore"} -> {w}
      [] c.op = "exchange.setValue" -> {[w EXCEPT !.table[c.arg.index] = c.arg.value]}
      [] c.op = "actions.push"      -> {[w EXCEPT !.queue = @ \cup {c.arg.guid}]}
      [] c.op = "actions.remove"    -> {[w EXCEPT !.queue = @ \ {c.arg.guid}]}
      [] c.op = "actions.purge"     -> {[w EXCEPT !.queue = {}]}
      [] OTHER                      -> {}

\* What the other endpoints answer.  A search answers the rows whose index or
\* value has the query in it (SearchExchange), here any of them.  The history
\* ends at a row that cannot be read, and is null when there is none before it:
\* the handler encodes a slice that was never made (GetUpdateHistory).
Bodies(c) ==
    CASE c.op \in {"services.list", "versions.list", "versions.check",
                   "clients.list", "system.get", "redis.info", "redis.keys",
                   "logs.getAll", "prometheus.targets", "prometheus.rules"} ->
                                        {[rev |-> world.rev]}
      [] c.op = "versions.history"   ->
                   {Null} \cup {[updates |-> n] : n \in 1 .. world.updates}
      [] c.op = "exchange.getTable"  -> {[rev |-> world.rev, table |-> world.table]}
      [] c.op = "exchange.search"    ->
                   {[rev |-> world.rev, table |-> [k \in C |-> world.table[k]]] :
                        C \in SUBSET Cells}
      [] c.op = "actions.list"       -> {[rev |-> world.rev, guids |-> world.queue]}
      [] c.op = "redis.backup"       -> {Backup}
      [] c.op = "file.text"          -> {c.arg}
      [] c.op = "logs.get"           -> {c.arg}
      [] c.op = "prometheus.queryRange" -> {c.arg, Null}
      [] c.op = "prometheus.alerts"  -> {[firing |-> world.firing]}
      [] OTHER                       -> {}

\* A response: ok, an error status (the handler failed, or refused to start),
\* or none (the connection broke, before or after the request took effect).
Ok(b)      == [status |-> "ok", body |-> b]
Error      == [status |-> "error", body |-> ErrorObject]
NoResponse == [status |-> "none"]

Outcomes(c) ==
    {[world |-> world, response |-> r] :
        r \in {Ok(b) : b \in Bodies(c)} \cup {Error, NoResponse}}
    \cup {[world |-> w, response |-> r] :
        w \in Effects(c), r \in {Ok([rev |-> world.rev + 1]), NoResponse}}

\* The control plane handles a call, and the response travels back.
Serve(i) ==
    /\ i \in DOMAIN calls /\ calls[i].answer = Pending
    /\ \E o \in Outcomes(calls[i]) :
          /\ world' = o.world
          /\ calls' = [calls EXCEPT ![i].answer = Promise(calls[i].op, o.response)]
    /\ UNCHANGED <<hooks, hist, events>>

Answer == \E i \in DOMAIN calls : Serve(i)

------------------------------------------------------------------------------
\* A handler of the page, up to its first await: the hooks it sets and the
\* calls it leaves in flight.
Handle(h, cs) ==
    /\ events > 0 /\ events' = events - 1
    /\ Len(cs) <= MaxCalls
    /\ hooks' = h /\ calls' = cs
    /\ UNCHANGED <<hist, world>>

\* Typing changes a field of the page and nothing else.
Typing(h) == hooks' = h /\ UNCHANGED <<calls, hist, world, events>>

\* The continuation of a call: g is the history after it.
Continue(h, cs, g) ==
    hooks' = h /\ calls' = cs /\ hist' = g /\ UNCHANGED <<world, events>>

\* Somebody else changes the control plane.
OthersChange(w) ==
    /\ events > 0 /\ events' = events - 1
    /\ world' = [w EXCEPT !.rev = @ + 1]
    /\ UNCHANGED <<hooks, calls, hist>>

\* History of a page that shows a list and changes it: the change it last knew
\* done, the newest answer it applied, and whether what it shows may lag behind
\* for a reason it cannot see: an answer failed, or an older one came later.
Undisturbed == [acked |-> 0, seen |-> 0, disturbed |-> FALSE]

Acked(rev) == [hist EXCEPT !.acked = IF rev > @ THEN rev ELSE @]
Seen(rev)  == [hist EXCEPT !.seen = IF rev > @ THEN rev ELSE @,
                           !.disturbed = @ \/ rev < hist.seen]
Disturbed  == [hist EXCEPT !.disturbed = TRUE]

HistoryOK == hist \in [acked : Nat, seen : Nat, disturbed : BOOLEAN]
=============================================================================
