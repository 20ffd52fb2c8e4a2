------------------------- MODULE ControlPlaneUIProofs -------------------------
(***************************************************************************)
(* Proofs about the user interface, for any number of cells, services,     *)
(* ranges, clicks and calls: a save stays in its cell, and a chart has one *)
(* timer.                                                                  *)
(*                                                                         *)
(* Neither is inductive.  A save carries what the editor held, which came  *)
(* out of a table or of the rows a search found, which came out of an      *)
(* answer, which the control plane read where earlier saves had written.   *)
(* So the invariant is about every call in flight, those of pages left     *)
(* behind included: its argument and its answer fit its operation.         *)
(***************************************************************************)
EXTENDS ControlPlaneUIProperties, SequenceLemmas

\* The texts of a cell, and the tables in which every text is in its own cell.
TextsOf(c) == {v \in Written : v.cell = c}
OwnTables  == {t \in [Cells -> Written] : \A c \in Cells : t[c] \in TextsOf(c)}

\* The rows of such a table that a search found.
OwnRows == {t \in Rows : \A c \in DOMAIN t : t[c] \in TextsOf(c)}

\* What is known of a call.
ArgOK(c) ==
    c.op = "exchange.setValue" => c.arg.index \in Cells /\ c.arg.value \in TextsOf(c.arg.index)

\* What is known of the value v it is answered with.
ValueOK(c, v) ==
    /\ c.op = "exchange.getTable"     => v.table \in OwnTables
    /\ c.op = "exchange.search"       => v.table \in OwnRows
    /\ c.op = "prometheus.queryRange" => v \in {c.arg, Null}

\* A call that fits: its argument does, and its answer when there is one.
CallOK(c) ==
    /\ DOMAIN c = {"op", "arg", "answer"}
    /\ ArgOK(c)
    /\ c.answer \in {Pending, Rejected} \/ c.answer.state = "fulfilled"
    /\ c.answer.state = "fulfilled" => ValueOK(c, c.answer.value)

\* The parts of the world the user interface depends on.
WorldFits(w) ==
    /\ {"rev", "queue", "table", "files", "updates", "firing"} = DOMAIN w
    /\ w.table \in OwnTables

-----------------------------------------------------------------------------
\* A sequence is one over its own elements.
LEMMA OverItself ==
  ASSUME NEW S, NEW s \in Seq(S)
  PROVE  s \in Seq(ToSet(s)) /\ ToSet(s) \subseteq S
<1>1. Len(s) \in Nat /\ s \in [1 .. Len(s) -> S] /\ DOMAIN s = 1 .. Len(s)
  BY LenProperties
<1>2. s \in [1 .. Len(s) -> ToSet(s)]
  BY <1>1 DEF ToSet
<1>3. s \in Seq(ToSet(s))
  BY <1>1, <1>2, SeqDef
<1>. QED
  BY <1>1, <1>3 DEF ToSet

\* The elements of a sequence with one more.
LEMMA ElementsOfAppend ==
  ASSUME NEW s, s \in Seq(ToSet(s)), NEW c
  PROVE  ToSet(Append(s, c)) \subseteq ToSet(s) \cup {c}
<1>. DEFINE S == ToSet(s) \cup {c}
<1>1. s \in Seq(S) /\ c \in S
  BY SeqMonotonic
<1>. HIDE DEF S
<1>2. Append(s, c) \in Seq(S)
  BY <1>1
<1>. QED
  BY <1>2, OverItself DEF S

\* The elements of a sequence with one less.
LEMMA ElementsOfRemoveAt ==
  ASSUME NEW s, s \in Seq(ToSet(s)), NEW i \in DOMAIN s
  PROVE  ToSet(RemoveAt(s, i)) \subseteq ToSet(s)
BY RemoveAtType, OverItself

\* The element of a sequence of one.
LEMMA ElementsOfOne ==
  ASSUME NEW c
  PROVE  ToSet(<<c>>) = {c}
BY DEF ToSet

\* The calls cs follow from the calls old: what is new in them is well formed.
Follows(old, cs) ==
    cs \in Seq(ToSet(cs)) /\ \A c \in ToSet(cs) : c \in ToSet(old) \/ CallOK(c)

\* Nothing new.
LEMMA FollowsItself ==
  ASSUME NEW old, old \in Seq(ToSet(old))
  PROVE  Follows(old, old)
BY DEF Follows

\* One call sent.
LEMMA FollowsAppend ==
  ASSUME NEW old, NEW cs, Follows(old, cs), NEW c, CallOK(c)
  PROVE  Follows(old, Append(cs, c))
<1>. DEFINE S == ToSet(cs) \cup {c}
<1>1. cs \in Seq(S)
  <2>1. cs \in Seq(ToSet(cs)) /\ ToSet(cs) \subseteq S
    BY DEF Follows
  <2>. QED BY <2>1, SeqMonotonic
<1>2. Append(cs, c) \in Seq(S)
  <2>. HIDE DEF S
  <2>1. c \in S
    BY DEF S
  <2>. QED BY <1>1, <2>1
<1>3. Append(cs, c) \in Seq(ToSet(Append(cs, c))) /\ ToSet(Append(cs, c)) \subseteq S
  <2>. HIDE DEF S
  <2>. QED BY <1>2, OverItself
<1>. QED
  BY <1>3 DEF Follows

\* One call over.
LEMMA FollowsRemoveAt ==
  ASSUME NEW old, old \in Seq(ToSet(old)), NEW i \in DOMAIN old
  PROVE  Follows(old, RemoveAt(old, i))
<1>1. RemoveAt(old, i) \in Seq(ToSet(old))
  BY RemoveAtType
<1>. QED
  BY <1>1, OverItself DEF Follows

\* A page that is mounted with one call in flight.
LEMMA FollowsOne ==
  ASSUME NEW old, NEW c, CallOK(c)
  PROVE  Follows(old, <<c>>)
<1>. DEFINE s == <<c>>
<1>1. s \in Seq({c})
  OBVIOUS
<1>2. s \in Seq(ToSet(s)) /\ ToSet(s) \subseteq {c}
  <2>. HIDE DEF s
  <2>. QED BY <1>1, OverItself
<1>. QED
  BY <1>2 DEF Follows

\* The same with two.
LEMMA FollowsTwo ==
  ASSUME NEW old, NEW c, NEW d, CallOK(c), CallOK(d)
  PROVE  Follows(old, <<c, d>>)
<1>. DEFINE s == <<c, d>>
<1>1. s \in Seq({c, d})
  OBVIOUS
<1>2. s \in Seq(ToSet(s)) /\ ToSet(s) \subseteq {c, d}
  <2>. HIDE DEF s
  <2>. QED BY <1>1, OverItself
<1>. QED
  BY <1>2 DEF Follows

\* No call at all.
LEMMA FollowsNone ==
  ASSUME NEW old
  PROVE  Follows(old, <<>>)
BY DEF Follows, ToSet

\* The calls of two effects, one after the other.
LEMMA FollowsConcat ==
  ASSUME NEW old, NEW cs, Follows(old, cs), NEW more, Follows(old, more)
  PROVE  Follows(old, cs \o more)
<1>. DEFINE S == ToSet(cs) \cup ToSet(more)
<1>1. cs \in Seq(S) /\ more \in Seq(S)
  <2>1. cs \in Seq(ToSet(cs)) /\ ToSet(cs) \subseteq S
    BY DEF Follows
  <2>2. more \in Seq(ToSet(more)) /\ ToSet(more) \subseteq S
    BY DEF Follows
  <2>. QED BY <2>1, <2>2, SeqMonotonic
<1>2. cs \o more \in Seq(S)
  <2>. HIDE DEF S
  <2>. QED BY <1>1, ConcatProperties
<1>3. cs \o more \in Seq(ToSet(cs \o more)) /\ ToSet(cs \o more) \subseteq S
  <2>. HIDE DEF S
  <2>. QED BY <1>2, OverItself
<1>. QED
  BY <1>3 DEF Follows

\* The calls after the first two, which Promise.all waits for.
LEMMA FollowsTail ==
  ASSUME NEW old, old \in Seq(ToSet(old))
  PROVE  Follows(old, SubSeq(old, 3, Len(old)))
<1>1. Len(old) \in Nat /\ \A i \in 3 .. Len(old) : old[i] \in ToSet(old)
  BY LenProperties, ElementOfSeq
<1>2. SubSeq(old, 3, Len(old)) \in Seq(ToSet(old))
  BY <1>1, SubSeqProperties
<1>. QED
  BY <1>2, OverItself DEF Follows

\* An answer replaces one call.
LEMMA FollowsAnswer ==
  ASSUME NEW old, old \in Seq(ToSet(old)), NEW i \in DOMAIN old, NEW c, CallOK(c)
  PROVE  Follows(old, [old EXCEPT ![i] = c])
<1>. DEFINE S == ToSet(old) \cup {c}
<1>1. old \in Seq(S) /\ i \in 1 .. Len(old) /\ c \in S
  BY SeqMonotonic, LenProperties
<1>2. [old EXCEPT ![i] = c] \in Seq(S)
  <2>. HIDE DEF S
  <2>. QED BY <1>1, ExceptSeq
<1>3. [old EXCEPT ![i] = c] \in Seq(ToSet([old EXCEPT ![i] = c]))
      /\ ToSet([old EXCEPT ![i] = c]) \subseteq S
  <2>. HIDE DEF S
  <2>. QED BY <1>2, OverItself
<1>. QED
  BY <1>3 DEF Follows

-----------------------------------------------------------------------------
\* A call that was just sent, other than a save, whose argument matters.
LEMMA NewCallOK ==
  ASSUME NEW o, NEW a,
         o # "exchange.setValue"
  PROVE  CallOK([op |-> o, arg |-> a, answer |-> Pending])
BY DEF CallOK, ArgOK, Pending

\* An answer: none, or what the operation of the call returns.
LEMMA AnsweredOK ==
  ASSUME NEW c, CallOK(c), NEW p,
         p = Rejected \/ p.state = "fulfilled",
         p.state = "fulfilled" => ValueOK(c, p.value)
  PROVE  CallOK([c EXCEPT !.answer = p])
<1>. DEFINE d == [c EXCEPT !.answer = p]
<1>1. DOMAIN d = {"op", "arg", "answer"} /\ d.op = c.op /\ d.arg = c.arg /\ d.answer = p
  BY DEF CallOK
<1>2. ArgOK(d)
  BY <1>1 DEF CallOK, ArgOK
<1>3. d.answer.state = "fulfilled" => ValueOK(d, d.answer.value)
  BY <1>1 DEF ValueOK
<1>. QED
  BY <1>1, <1>2, <1>3 DEF CallOK

-----------------------------------------------------------------------------
\* Some rows of a table are rows of their own cells.
LEMMA SomeRowsAreOwn ==
  ASSUME NEW t \in OwnTables, NEW C \in SUBSET Cells
  PROVE  [k \in C |-> t[k]] \in OwnRows
<1>. DEFINE r == [k \in C |-> t[k]]
<1>1. DOMAIN r = C /\ \A k \in C : r[k] \in TextsOf(k) /\ r[k] \in Text
  BY DEF OwnTables, Text, TextsOf
<1>2. r \in [C -> Text]
  BY <1>1
<1>. HIDE DEF r
<1>3. r \in Rows
  BY <1>2 DEF Rows
<1>4. r \in OwnRows
  BY <1>1, <1>3 DEF OwnRows
<1>. QED
  BY <1>4 DEF r

\* What an endpoint answers fits the call.
LEMMA BodyFits ==
  ASSUME NEW c, CallOK(c), WorldFits(world), NEW b \in Bodies(c)
  PROVE  ValueOK(c, b)
<1>1. CASE c.op = "exchange.getTable"
  BY <1>1 DEF Bodies, WorldFits, ValueOK
<1>2. CASE c.op = "exchange.search"
  <2>1. PICK C \in SUBSET Cells : b.table = [k \in C |-> world.table[k]]
    BY <1>2 DEF Bodies
  <2>2. b.table \in OwnRows
    BY <2>1, SomeRowsAreOwn DEF WorldFits
  <2>. QED
    BY <1>2, <2>2 DEF ValueOK
<1>3. CASE c.op = "prometheus.queryRange"
  BY <1>3 DEF Bodies, ValueOK
<1>. QED
  BY <1>1, <1>2, <1>3 DEF ValueOK

\* A change that the control plane makes leaves a world that fits.
LEMMA EffectFits ==
  ASSUME NEW c, CallOK(c), WorldFits(world), NEW w \in Effects(c)
  PROVE  WorldFits(w) /\ \A v : ValueOK(c, v)
<1>. DEFINE u == [world EXCEPT !.rev = @ + 1]
<1>1. DOMAIN u = DOMAIN world /\ u.table = world.table
  BY DEF WorldFits
<1>2. CASE c.op = "exchange.setValue"
  <2>1. w = [u EXCEPT !.table[c.arg.index] = c.arg.value]
    BY <1>2 DEF Effects
  <2>2. c.arg.index \in Cells /\ c.arg.value \in TextsOf(c.arg.index)
    BY <1>2 DEF CallOK, ArgOK
  <2>3. [world.table EXCEPT ![c.arg.index] = c.arg.value] \in OwnTables
    BY <2>2 DEF WorldFits, OwnTables, TextsOf
  <2>4. w.table \in OwnTables
    BY <1>1, <2>1, <2>3 DEF WorldFits
  <2>. QED
    BY <1>1, <1>2, <2>1, <2>4 DEF WorldFits, ValueOK
<1>3. CASE c.op \in {"actions.push", "actions.remove", "actions.purge", "services.restart",
                     "redis.restore"}
  BY <1>1, <1>3 DEF Effects, WorldFits, ValueOK
<1>. QED
  BY <1>2, <1>3 DEF Effects

\* Whatever becomes of a call: its answer fits it, and the world fits.
LEMMA OutcomeFits ==
  ASSUME NEW c, CallOK(c), WorldFits(world), NEW o \in Outcomes(c)
  PROVE  /\ WorldFits(o.world)
         /\ CallOK([c EXCEPT !.answer = Promise(c.op, o.response)])
<1>. DEFINE p == Promise(c.op, o.response)
<1>0. p = Rejected \/ p.state = "fulfilled"
  BY DEF Promise, fetchJSON, fetchUnchecked, Fulfilled
<1>1. CASE \E b \in Bodies(c) : o = [world |-> world, response |-> Ok(b)]
  <2>1. PICK b \in Bodies(c) : o = [world |-> world, response |-> Ok(b)]
    BY <1>1
  <2>2. ValueOK(c, b)
    BY BodyFits
  <2>3. p = [state |-> "fulfilled", value |-> b]
    BY <2>1 DEF Promise, fetchJSON, fetchUnchecked, Ok, Fulfilled
  <2>. QED
    BY <1>0, <2>1, <2>2, <2>3, AnsweredOK
<1>2. CASE o = [world |-> world, response |-> Error]
  <2>1. p.state = "fulfilled" => c.op = "redis.backup" /\ p.value = ErrorObject
    BY <1>2 DEF Promise, fetchJSON, fetchUnchecked, Error, Fulfilled, Rejected
  <2>2. p.state = "fulfilled" => ValueOK(c, p.value)
    BY <2>1 DEF ValueOK
  <2>. QED
    BY <1>0, <1>2, <2>2, AnsweredOK
<1>3. CASE \E w \in {world} \cup Effects(c) : o = [world |-> w, response |-> NoResponse]
  <2>1. PICK w \in {world} \cup Effects(c) : o = [world |-> w, response |-> NoResponse]
    BY <1>3
  <2>2. p.state = "rejected"
    BY <2>1 DEF Promise, fetchJSON, fetchUnchecked, NoResponse, Fulfilled, Rejected
  <2>3. WorldFits(w)
    BY EffectFits
  <2>. QED
    BY <1>0, <2>1, <2>2, <2>3, AnsweredOK
<1>4. CASE \E w \in Effects(c) : \E b : o = [world |-> w, response |-> Ok(b)]
  <2>1. PICK w \in Effects(c) : \E b : o = [world |-> w, response |-> Ok(b)]
    BY <1>4
  <2>2. WorldFits(w)
        /\ ValueOK(c, p.value)
    BY EffectFits
  <2>. QED
    BY <1>0, <2>1, <2>2, AnsweredOK
<1>. QED
  BY <1>1, <1>2, <1>3, <1>4 DEF Outcomes

-----------------------------------------------------------------------------
\* The calls of the mounted page and of the pages left.
InFlight == ToSet(calls) \cup BagToSet(left)

\* The exchange page holds every text in its own cell, the editor's included.
ExchangeFits(h) ==
    /\ {"page", "tableData", "searchResults", "editingIndex", "editValue"} \subseteq DOMAIN h
    /\ h.tableData \in OwnTables \cup {Null}
    /\ h.searchResults \in OwnRows \cup {Null}
    /\ h.editingIndex \in Cells \cup {Null}
    /\ h.editingIndex # Null => h.editValue \in TextsOf(h.editingIndex)

\* A chart that is mounted ticks for the range, and only it asks for ranges.
MetricsFits(h, cs) ==
    /\ {"page", "range", "chart"} \subseteq DOMAIN h
    /\ h.range \in Ranges
    /\ h.chart \in Metrics!Charts \cup {Null}
    /\ h.chart # Null => h.chart.timers = {h.range}
    /\ \A c \in ToSet(cs) :
          c.op = "prometheus.queryRange" => c.arg \in Ranges /\ h.chart # Null

\* The inductive invariant.
IInv ==
    /\ route \in Links
    /\ "page" \in DOMAIN hooks
    /\ calls \in Seq(ToSet(calls))
    /\ \A c \in InFlight : CallOK(c)
    /\ WorldFits(world)
    /\ hooks.page = "exchange" => ExchangeFits(hooks)
    /\ hooks.page = "metrics" => MetricsFits(hooks, calls)

\* What a step of a page does to the rest of the invariant: it stays the same
\* page, and the calls it sends fit.
PageStepFits ==
    /\ hooks'.page = hooks.page /\ "page" \in DOMAIN hooks'
    /\ WorldFits(world')
    /\ Follows(calls, calls')

\* The operations whose argument does not matter.
Ordinary(o) == o # "exchange.setValue"

\* What the calls of a page may become in a step that saves nothing.
LEMMA Sends ==
  ASSUME IInv
  PROVE  /\ Follows(calls, calls)
         /\ Follows(calls, <<>>)
         /\ Follows(calls, SubSeq(calls, 3, Len(calls)))
         /\ \A i \in DOMAIN calls :
               Follows(calls, SubSeq(calls, 1, i - 1) \o SubSeq(calls, i + 1, Len(calls)))
         /\ \A o, a : Ordinary(o) =>
               Follows(calls, <<[op |-> o, arg |-> a, answer |-> [state |-> "pending"]]>>)
         /\ \A cs, o, a : Follows(calls, cs) /\ Ordinary(o) =>
               Follows(calls, Append(cs, [op |-> o, arg |-> a, answer |-> [state |-> "pending"]]))
         /\ \A cs, more : Follows(calls, cs) /\ Follows(calls, more) =>
               Follows(calls, cs \o more)
<1>1. calls \in Seq(ToSet(calls))
  BY DEF IInv
<1>2. ASSUME NEW o, NEW a, Ordinary(o)
      PROVE  CallOK([op |-> o, arg |-> a, answer |-> [state |-> "pending"]])
  BY <1>2, NewCallOK DEF Pending, Ordinary
<1>3. \A i \in DOMAIN calls :
         Follows(calls, SubSeq(calls, 1, i - 1) \o SubSeq(calls, i + 1, Len(calls)))
  BY <1>1, FollowsRemoveAt DEF RemoveAt
<1>4. Follows(calls, calls) /\ Follows(calls, <<>>)
      /\ Follows(calls, SubSeq(calls, 3, Len(calls)))
  BY <1>1, FollowsItself, FollowsNone, FollowsTail
<1>5. ASSUME NEW o, NEW a, Ordinary(o)
      PROVE  Follows(calls, <<[op |-> o, arg |-> a, answer |-> [state |-> "pending"]]>>)
  BY <1>2, <1>5, FollowsOne
<1>6. ASSUME NEW cs, NEW o, NEW a, Follows(calls, cs), Ordinary(o)
      PROVE  Follows(calls, Append(cs, [op |-> o, arg |-> a, answer |-> [state |-> "pending"]]))
  BY <1>2, <1>6, FollowsAppend
<1>7. ASSUME NEW cs, NEW more, Follows(calls, cs), Follows(calls, more)
      PROVE  Follows(calls, cs \o more)
  BY <1>7, FollowsConcat
<1>. QED
  BY <1>3, <1>4, <1>5, <1>6, <1>7

\* A step that leaves the control plane alone.
LEMMA CalmStep ==
  ASSUME IInv, world' = world, hooks'.page = hooks.page, "page" \in DOMAIN hooks',
         Follows(calls, calls')
  PROVE  PageStepFits
BY DEF PageStepFits, IInv

\* A step of others, with the world w before it is counted.
LEMMA OthersStep ==
  ASSUME IInv, NEW w, DOMAIN w = DOMAIN world, w.table = world.table,
         world' = [w EXCEPT !.rev = @ + 1], UNCHANGED <<hooks, calls>>
  PROVE  PageStepFits
<1>1. DOMAIN world' = DOMAIN world /\ world'.table = world.table
  BY DEF IInv, WorldFits
<1>2. WorldFits(world')
  BY <1>1 DEF IInv, WorldFits
<1>3. Follows(calls, calls')
  BY <1>1, Sends
<1>. QED
  BY <1>1, <1>2, <1>3 DEF PageStepFits, IInv

-----------------------------------------------------------------------------
\* The steps of the pages that neither edit nor draw a chart.
\* Whatever the dashboard does, the rest of the invariant holds.
LEMMA DashboardFits ==
  ASSUME IInv, Dashboard!Next
  PROVE  PageStepFits
<1>. USE DEF Dashboard!Handle, Dashboard!Continue, Dashboard!Call, Dashboard!Pending,
         Dashboard!Without, Dashboard!RestartOver, Ordinary
<1>0. "page" \in DOMAIN hooks
  BY DEF IInv
<1>1. ASSUME NEW s, Dashboard!ToggleMenu(s) \/ Dashboard!SelectTab(s) \/ Dashboard!handleRestart(s)
      PROVE  PageStepFits
  BY <1>0, <1>1, Sends, CalmStep
     DEF Dashboard!ToggleMenu, Dashboard!SelectTab, Dashboard!handleRestart
<1>2. CASE Dashboard!LoadFailed \/ Dashboard!Loaded
  <2>1. calls' = Dashboard!AfterLoad /\ world' = world
    BY <1>2 DEF Dashboard!LoadFailed, Dashboard!Loaded
  <2>2. hooks'.page = hooks.page /\ "page" \in DOMAIN hooks'
    BY <1>0, <1>2 DEF Dashboard!LoadFailed, Dashboard!Loaded
  <2>3. Follows(calls, calls')
    BY <2>1, Sends DEF Dashboard!AfterLoad
  <2>. QED
    BY <2>1, <2>2, <2>3, CalmStep
<1>3. ASSUME NEW i \in DOMAIN calls, Dashboard!Restarted(i) \/ Dashboard!Relisted(i)
      PROVE  PageStepFits
  BY <1>0, <1>3, Sends, CalmStep DEF Dashboard!Restarted, Dashboard!Relisted
<1>4. CASE Dashboard!Others
  BY <1>4, OthersStep DEF Dashboard!Others, Dashboard!OthersChange
<1>. QED
  BY <1>1, <1>2, <1>3, <1>4 DEF Dashboard!Next, Dashboard!Clicks, Dashboard!Continuations

\* The same for the action queue.
LEMMA ActionsFits ==
  ASSUME IInv, Actions!Next
  PROVE  PageStepFits
<1>. USE DEF Actions!Handle, Actions!Continue, Actions!Typing, Actions!Call, Actions!Pending,
         Actions!Without, Ordinary
<1>0. "page" \in DOMAIN hooks
  BY DEF IInv
<1>1. ASSUME NEW t, Actions!SelectTab(t) \/ Actions!handleRemove(t)
      PROVE  PageStepFits
  BY <1>0, <1>1, Sends, CalmStep DEF Actions!SelectTab, Actions!handleRemove
<1>2. CASE Actions!OpenModal \/ Actions!CloseModal \/ Actions!TypeForm
  BY <1>0, <1>2, Sends, CalmStep DEF Actions!OpenModal, Actions!CloseModal, Actions!TypeForm
<1>3. CASE Actions!handleInject \/ Actions!handlePurge
  BY <1>0, <1>3, Sends, CalmStep DEF Actions!handleInject, Actions!handlePurge
<1>4. ASSUME NEW i \in DOMAIN calls, Actions!Listed(i) \/ Actions!Changed(i)
      PROVE  PageStepFits
  <2>1. calls' \in {Actions!Without(i), Append(Actions!Without(i), Actions!ListCall)}
        /\ world' = world
    BY <1>4 DEF Actions!Listed, Actions!Changed, Actions!fetchData
  <2>2. hooks'.page = hooks.page /\ "page" \in DOMAIN hooks'
    <3>1. CASE Actions!Listed(i)
      BY <1>0, <3>1 DEF Actions!Listed
    <3>2. CASE Actions!Changed(i)
      <4>. DEFINE h == Actions!AfterChange(calls[i].op)
      <4>1. h.page = hooks.page /\ "page" \in DOMAIN h
        BY <1>0 DEF Actions!AfterChange
      <4>2. hooks' \in {hooks, [h EXCEPT !.loading = TRUE]}
        BY <3>2 DEF Actions!Changed, Actions!fetchData
      <4>. HIDE DEF h
      <4>. QED
        BY <1>0, <4>1, <4>2
    <3>. QED
      BY <1>4, <3>1, <3>2
  <2>3. Follows(calls, calls')
    BY <2>1, Sends DEF Actions!ListCall
  <2>. QED
    BY <2>1, <2>2, <2>3, CalmStep
<1>5. CASE Actions!Others
  <2>1. PICK g : Actions!OthersChange([world EXCEPT !.queue = @ \ {g}])
    BY <1>5 DEF Actions!Others
  <2>. QED
    BY <2>1, OthersStep DEF Actions!OthersChange, IInv, WorldFits
<1>. QED
  BY <1>1, <1>2, <1>3, <1>4, <1>5 DEF Actions!Next, Actions!Clicks, Actions!Continuations

\* The same for the logs, whose two effects send calls of their own.
LEMMA LogsFits ==
  ASSUME IInv, Logs!Next
  PROVE  PageStepFits
<1>. USE DEF Logs!Handle, Logs!Continue, Logs!Call, Logs!Pending, Logs!Without,
         Ordinary
<1>0. "page" \in DOMAIN hooks
  BY DEF IInv
<1>1. ASSUME NEW h
      PROVE  Follows(calls, Logs!Sent(h))
  <2>1. Follows(calls, Logs!AllLogsEffect(h))
    BY Sends DEF Logs!AllLogsEffect
  <2>2. Follows(calls, Logs!ServiceLogsEffect(h))
    BY Sends DEF Logs!ServiceLogsEffect
  <2>. QED
    BY <2>1, <2>2, FollowsConcat DEF Logs!Sent
<1>2. \A h : DOMAIN Logs!AfterEffects(h) = DOMAIN h /\ ("page" \in DOMAIN h =>
                Logs!AfterEffects(h).page = h.page)
  BY DEF Logs!AfterEffects
<1>3. ASSUME NEW t, Logs!SelectTab(t) \/ Logs!SelectService(t)
      PROVE  PageStepFits
  <2>1. PICK h : /\ h.page = hooks.page /\ "page" \in DOMAIN h
                 /\ hooks' = Logs!AfterEffects(h) /\ calls' = calls \o Logs!Sent(h)
                 /\ world' = world
    <3>1. CASE Logs!SelectTab(t)
      BY <1>0, <3>1 DEF Logs!SelectTab
    <3>2. CASE Logs!SelectService(t)
      BY <1>0, <3>2 DEF Logs!SelectService
    <3>. QED
      BY <1>3, <3>1, <3>2
  <2>2. Follows(calls, calls')
    BY <1>1, <2>1, Sends
  <2>. QED
    BY <1>2, <2>1, <2>2, CalmStep
<1>4. ASSUME NEW i \in DOMAIN calls, Logs!AllLogsRead(i) \/ Logs!ServiceLogsRead(i)
      PROVE  PageStepFits
  BY <1>0, <1>4, Sends, CalmStep DEF Logs!AllLogsRead, Logs!ServiceLogsRead
<1>5. ASSUME NEW i \in DOMAIN calls, Logs!ServicesListed(i)
      PROVE  PageStepFits
  BY <1>0, <1>1, <1>2, <1>5, Sends, CalmStep DEF Logs!ServicesListed
<1>. QED
  BY <1>3, <1>4, <1>5 DEF Logs!Next, Logs!Clicks, Logs!Continuations

\* The same for the versions.
LEMMA VersionsFits ==
  ASSUME IInv, Versions!Next
  PROVE  PageStepFits
<1>. USE DEF Versions!Handle, Versions!Continue, Versions!Call, Versions!Pending,
         Versions!Without, Ordinary
<1>0. "page" \in DOMAIN hooks
  BY DEF IInv
<1>1. ASSUME NEW t, Versions!SelectTab(t)
      PROVE  PageStepFits
  <2>1. world' = world /\ hooks'.page = hooks.page /\ "page" \in DOMAIN hooks'
    BY <1>0, <1>1 DEF Versions!SelectTab
  <2>2. calls' \in {calls, Append(calls, Versions!Call("versions.history", Null))}
    BY <1>1 DEF Versions!SelectTab
  <2>3. Follows(calls, calls')
    BY <2>2, Sends
  <2>. QED
    BY <2>1, <2>3, CalmStep
<1>4. CASE Versions!handleCheckUpdates
  BY <1>0, <1>4, Sends, CalmStep DEF Versions!handleCheckUpdates
<1>2. ASSUME NEW i \in DOMAIN calls,
             Versions!VersionsRead(i) \/ Versions!HistoryRead(i) \/ Versions!UpdatesChecked(i)
      PROVE  PageStepFits
  BY <1>0, <1>2, Sends, CalmStep
     DEF Versions!VersionsRead, Versions!HistoryRead, Versions!UpdatesChecked
<1>3. CASE Versions!Others
  BY <1>3, OthersStep DEF Versions!Others, Versions!OthersChange, IInv, WorldFits
<1>. QED
  BY <1>1, <1>2, <1>3, <1>4 DEF Versions!Next, Versions!Clicks, Versions!Continuations

\* The same for the alerts.
LEMMA AlertsFits ==
  ASSUME IInv, AlertsView!Next
  PROVE  PageStepFits
<1>. USE DEF AlertsView!Handle, AlertsView!Continue, AlertsView!Call, AlertsView!Pending,
         AlertsView!Without, AlertsView!AlertsCall, AlertsView!RulesCall,
         Ordinary
<1>0. "page" \in DOMAIN hooks
  BY DEF IInv
<1>1. ASSUME NEW t, AlertsView!Mount(t)
      PROVE  PageStepFits
  BY <1>0, <1>1, Sends, CalmStep DEF AlertsView!Mount, AlertsView!Mounted, AlertsView!TabCall
<1>2. ASSUME NEW g, AlertsView!Tick \/ AlertsView!ToggleGroup(g)
      PROVE  PageStepFits
  <2>1. world' = world /\ hooks'.page = hooks.page /\ "page" \in DOMAIN hooks'
        /\ calls' \in {calls, Append(calls, AlertsView!AlertsCall)}
    BY <1>0, <1>2 DEF AlertsView!Tick, AlertsView!ToggleGroup
  <2>2. Follows(calls, calls')
    BY <2>1, Sends
  <2>. QED
    BY <2>1, <2>2, CalmStep
<1>3. ASSUME NEW i \in DOMAIN calls, AlertsView!AlertsRead(i) \/ AlertsView!RulesRead(i)
      PROVE  PageStepFits
  BY <1>0, <1>3, Sends, CalmStep DEF AlertsView!AlertsRead, AlertsView!RulesRead
<1>4. CASE AlertsView!Others
  <2>1. PICK a \in Alerts :
           AlertsView!OthersChange([world EXCEPT !.firing = IF a \in @ THEN @ \ {a} ELSE @ \cup {a}])
    BY <1>4 DEF AlertsView!Others
  <2>. DEFINE w == [world EXCEPT !.firing = IF a \in @ THEN @ \ {a} ELSE @ \cup {a}]
  <2>2. DOMAIN w = DOMAIN world /\ w.table = world.table 
    BY DEF IInv, WorldFits
  <2>3. AlertsView!OthersChange(w)
    BY <2>1
  <2>. HIDE DEF w
  <2>. QED
    BY <2>2, <2>3, OthersStep DEF AlertsView!OthersChange
<1>. QED
  BY <1>1, <1>2, <1>3, <1>4
     DEF AlertsView!Next, AlertsView!Clicks, AlertsView!Continuations, AlertsView!SelectTab,
         AlertsView!Refresh

\* The same for the clients.
LEMMA ClientsFits ==
  ASSUME IInv, ClientsView!Next
  PROVE  PageStepFits
<1>. USE DEF ClientsView!Handle, ClientsView!Continue, ClientsView!Without
<1>0. "page" \in DOMAIN hooks
  BY DEF IInv
<1>1. ASSUME NEW c, ClientsView!handleRowClick(c)
      PROVE  PageStepFits
  BY <1>0, <1>1, Sends, CalmStep DEF ClientsView!handleRowClick
<1>2. ASSUME NEW i \in DOMAIN calls, ClientsView!ClientsRead(i)
      PROVE  PageStepFits
  BY <1>0, <1>2, Sends, CalmStep DEF ClientsView!ClientsRead
<1>. QED
  BY <1>1, <1>2 DEF ClientsView!Next, ClientsView!Clicks, ClientsView!Continuations

\* The same for the system page.
LEMMA SystemFits ==
  ASSUME IInv, System!Next
  PROVE  PageStepFits
<1>. USE DEF System!Handle, System!Continue, System!Call, System!Pending, System!SystemCall,
         System!Without, Ordinary
<1>0. "page" \in DOMAIN hooks
  BY DEF IInv
<1>1. ASSUME NEW t, System!SelectTab(t)
      PROVE  PageStepFits
  <2>1. world' = world /\ hooks'.page = hooks.page /\ "page" \in DOMAIN hooks'
        /\ calls' \in {calls, Append(calls, System!SystemCall)}
    BY <1>0, <1>1 DEF System!SelectTab
  <2>2. Follows(calls, calls')
    BY <2>1, Sends
  <2>. QED
    BY <2>1, <2>2, CalmStep
<1>2. ASSUME NEW i \in DOMAIN calls, System!SystemRead(i)
      PROVE  PageStepFits
  BY <1>0, <1>2, Sends, CalmStep DEF System!SystemRead
<1>. QED
  BY <1>1, <1>2 DEF System!Next, System!Clicks, System!Continuations

-----------------------------------------------------------------------------
\* The same for the Redis monitor, whose restore is two calls.
LEMMA RedisMonitorFits ==
  ASSUME IInv, RedisMonitor!Next
  PROVE  PageStepFits
<1>. USE DEF RedisMonitor!Handle, RedisMonitor!Continue, RedisMonitor!Call, RedisMonitor!Pending,
         RedisMonitor!Without, Ordinary
<1>0. "page" \in DOMAIN hooks /\ calls \in Seq(ToSet(calls)) /\ WorldFits(world)
  BY DEF IInv
<1>1. ASSUME NEW t, RedisMonitor!SelectTab(t)
      PROVE  PageStepFits
  <2>1. Follows(calls, RedisMonitor!TabCalls(t))
    BY Sends DEF RedisMonitor!TabCalls, RedisMonitor!InfoCall, RedisMonitor!KeysCall
  <2>2. world' = world /\ hooks'.page = hooks.page /\ "page" \in DOMAIN hooks'
        /\ calls' = calls \o RedisMonitor!TabCalls(t)
    BY <1>0, <1>1 DEF RedisMonitor!SelectTab
  <2>. QED
    BY <2>1, <2>2, Sends, CalmStep
<1>2. ASSUME NEW i \in DOMAIN calls,
             RedisMonitor!InfoRead(i) \/ RedisMonitor!KeysRead(i) \/ RedisMonitor!RestoreDone(i)
      PROVE  PageStepFits
  <2>1. world' = world /\ hooks'.page = hooks.page /\ "page" \in DOMAIN hooks'
        /\ calls' = RedisMonitor!Without(i)
    BY <1>0, <1>2 DEF RedisMonitor!InfoRead, RedisMonitor!KeysRead, RedisMonitor!RestoreDone
  <2>. QED
    BY <2>1, Sends, CalmStep
<1>3. CASE RedisMonitor!handleBackup
  BY <1>0, <1>3, Sends, CalmStep DEF RedisMonitor!handleBackup
<1>4. ASSUME NEW f, RedisMonitor!handleRestore(f)
      PROVE  PageStepFits
  BY <1>0, <1>4, Sends, CalmStep DEF RedisMonitor!handleRestore
<1>5. ASSUME NEW i \in DOMAIN calls, RedisMonitor!FileRead(i)
      PROVE  PageStepFits
  BY <1>0, <1>5, Sends, CalmStep DEF RedisMonitor!FileRead
<1>6. ASSUME NEW i \in DOMAIN calls, RedisMonitor!BackedUp(i)
      PROVE  PageStepFits
  <2>1. hooks'.page = hooks.page /\ "page" \in DOMAIN hooks' /\ calls' = RedisMonitor!Without(i)
    BY <1>0, <1>6 DEF RedisMonitor!BackedUp
  <2>2. DOMAIN world' = DOMAIN world /\ world'.table = world.table
    BY <1>0, <1>6 DEF RedisMonitor!BackedUp, WorldFits
  <2>. QED
    BY <1>0, <2>1, <2>2, Sends DEF PageStepFits, WorldFits
<1>7. CASE RedisMonitor!Others
  BY <1>7, OthersStep DEF RedisMonitor!Others, RedisMonitor!OthersChange, IInv, WorldFits
<1>. QED
  BY <1>1, <1>2, <1>3, <1>4, <1>5, <1>6, <1>7
     DEF RedisMonitor!Next, RedisMonitor!Clicks, RedisMonitor!Continuations

-----------------------------------------------------------------------------
\* The exchange table: rendering keeps every text in its cell.
LEMMA RenderedFits ==
  ASSUME NEW h, ExchangeFits(h)
  PROVE  ExchangeFits(Exchange!Rendered(h)) /\ Exchange!Rendered(h).page = h.page
BY DEF ExchangeFits, Exchange!Rendered

\* So does opening an editor on a text of the cell, and closing it.
LEMMA EditorFits ==
  ASSUME NEW h, ExchangeFits(h)
  PROVE  /\ \A c \in Cells : \A v \in TextsOf(c) :
               /\ ExchangeFits(Exchange!Editing(h, c, v))
               /\ Exchange!Editing(h, c, v).page = h.page
         /\ ExchangeFits(Exchange!Editing(h, Null, Null))
         /\ Exchange!Editing(h, Null, Null).page = h.page
         /\ ExchangeFits(Exchange!EditOver(h)) /\ Exchange!EditOver(h).page = h.page
<1>1. ASSUME NEW c \in Cells, NEW v \in TextsOf(c)
      PROVE  /\ ExchangeFits(Exchange!Editing(h, c, v))
             /\ Exchange!Editing(h, c, v).page = h.page
  BY <1>1 DEF ExchangeFits, Exchange!Editing
<1>2. /\ ExchangeFits(Exchange!Editing(h, Null, Null))
      /\ Exchange!Editing(h, Null, Null).page = h.page
  BY DEF ExchangeFits, Exchange!Editing
<1>. QED
  BY <1>1, <1>2, RenderedFits DEF Exchange!EditOver

\* So does putting a saved value into a table, or into the rows that have it.
LEMMA PatchFits ==
  ASSUME NEW e, e.index \in Cells, e.value \in TextsOf(e.index)
  PROVE  /\ \A t \in OwnTables \cup {Null} : Exchange!Patch(t, e) \in OwnTables \cup {Null}
         /\ \A t \in OwnRows \cup {Null} : Exchange!Patch(t, e) \in OwnRows \cup {Null}
<1>1. Exchange!Patch(Null, e) = Null
  BY DEF Exchange!Patch
<1>2. ASSUME NEW t \in OwnTables, t # Null
      PROVE  Exchange!Patch(t, e) \in OwnTables
  BY <1>2 DEF OwnTables, TextsOf, Exchange!Patch
<1>3. ASSUME NEW t \in OwnRows, t # Null
      PROVE  Exchange!Patch(t, e) \in OwnRows
  <2>. DEFINE p == Exchange!Patch(t, e)
  <2>1. PICK C \in SUBSET Cells : t \in [C -> Text]
    BY DEF OwnRows, Rows
  <2>2. DOMAIN p = C /\ \A k \in C : p[k] = IF k = e.index THEN e.value ELSE t[k]
    BY <1>3, <2>1 DEF Exchange!Patch
  <2>3. \A k \in C : p[k] \in TextsOf(k) /\ p[k] \in Text
    BY <2>1, <2>2 DEF OwnRows, TextsOf, Text
  <2>4. p \in [C -> Text]
    BY <1>3, <2>1, <2>2, <2>3 DEF Exchange!Patch
  <2>. HIDE DEF p
  <2>5. p \in Rows
    BY <2>4 DEF Rows
  <2>6. p \in OwnRows
    BY <2>2, <2>3, <2>5 DEF OwnRows
  <2>. QED
    BY <2>6 DEF p
<1>. QED
  BY <1>1, <1>2, <1>3

\* A save carries the value of its cell.
LEMMA SaveFits ==
  ASSUME IInv, hooks.page = "exchange", NEW h, ExchangeFits(h), h.page = hooks.page,
         Exchange!saveEdit(h)
  PROVE  PageStepFits /\ ExchangeFits(hooks')
<1>. DEFINE c == [op |-> "exchange.setValue",
                  arg |-> [index |-> h.editingIndex, value |-> h.editValue],
                  answer |-> [state |-> "pending"]]
<1>1. world' = world /\ hooks' = h /\ calls' = Append(calls, c) /\ h.editingIndex # Null
  BY DEF Exchange!saveEdit, Exchange!Handle, Exchange!Call, Exchange!Pending
<1>2. CallOK(c)
  BY <1>1 DEF CallOK, ArgOK, ExchangeFits, Pending
<1>3. Follows(calls, calls')
  <2>. HIDE DEF c
  <2>. QED BY <1>1, <1>2, Sends, FollowsAppend
<1>4. "page" \in DOMAIN hooks'
  BY <1>1 DEF ExchangeFits
<1>. QED
  BY <1>1, <1>3, <1>4, CalmStep

\* Every step of the exchange page.
LEMMA ExchangeStepFits ==
  ASSUME IInv, hooks.page = "exchange", Exchange!Next
  PROVE  PageStepFits /\ ExchangeFits(hooks')
<1>. USE DEF Exchange!Handle, Exchange!Continue, Exchange!Typing, Exchange!Call,
         Exchange!Pending, Exchange!Without, Ordinary
<1>0. ExchangeFits(hooks) /\ "page" \in DOMAIN hooks
  BY DEF IInv
<1>c. \A i \in DOMAIN calls : CallOK(calls[i])
  BY DEF IInv, InFlight, ToSet
<1>1. ASSUME NEW h, ExchangeFits(h), h.page = hooks.page, hooks' = h, world' = world,
             Follows(calls, calls')
      PROVE  PageStepFits /\ ExchangeFits(hooks')
  BY <1>1, CalmStep DEF ExchangeFits
<1>2. ASSUME NEW t, Exchange!SelectTab(t)
      PROVE  PageStepFits /\ ExchangeFits(hooks')
  <2>1. PICK h : /\ h \in {[hooks EXCEPT !.activeTab = t, !.loading = TRUE],
                           [hooks EXCEPT !.activeTab = t]}
                 /\ hooks' = Exchange!Rendered(h) /\ world' = world
    BY <1>2 DEF Exchange!SelectTab
  <2>2. ExchangeFits(h) /\ h.page = hooks.page
    BY <1>0, <2>1 DEF ExchangeFits
  <2>3. calls' \in {calls, Append(calls, Exchange!TableCall)}
    BY <1>2 DEF Exchange!SelectTab
  <2>4. Follows(calls, calls')
    BY <2>3, Sends DEF Exchange!TableCall
  <2>. QED
    BY <1>1, <2>1, <2>2, <2>4, RenderedFits
<1>3. ASSUME NEW byEnter, Exchange!TypeQuery \/ Exchange!handleSearch(byEnter)
      PROVE  PageStepFits /\ ExchangeFits(hooks')
  <2>1. hooks' \in {[hooks EXCEPT !.searchQuery = "query"], [hooks EXCEPT !.loading = TRUE]}
        /\ world' = world
    BY <1>3 DEF Exchange!TypeQuery, Exchange!handleSearch
  <2>2. ExchangeFits(hooks') /\ hooks'.page = hooks.page
    BY <1>0, <2>1 DEF ExchangeFits
  <2>3. \/ calls' = calls
        \/ \E a : calls' = Append(calls, Exchange!Call("exchange.search", a))
    BY <1>3 DEF Exchange!TypeQuery, Exchange!handleSearch
  <2>4. Follows(calls, calls')
    BY <2>3, Sends
  <2>. QED
    BY <1>1, <2>1, <2>2, <2>4
<1>4. ASSUME NEW i \in DOMAIN calls, Exchange!TableRead(i)
      PROVE  PageStepFits /\ ExchangeFits(hooks')
  <2>1. world' = world /\ calls' = Exchange!Without(i)
    BY <1>4 DEF Exchange!TableRead
  <2>2. Follows(calls, calls')
    BY <2>1, Sends
  <2>3. CASE ~ Exchange!IsFulfilled(i)
    <3>1. hooks' = [hooks EXCEPT !.loading = FALSE]
      BY <1>4, <2>3 DEF Exchange!TableRead
    <3>2. ExchangeFits(hooks') /\ hooks'.page = hooks.page
      BY <1>0, <3>1 DEF ExchangeFits
    <3>. QED
      BY <1>1, <2>1, <2>2, <3>2
  <2>4. CASE Exchange!IsFulfilled(i)
    <3>. DEFINE table == calls[i].answer.value.table
    <3>1. PICK h : /\ \/ /\ calls[i].op = "exchange.getTable"
                         /\ h = [hooks EXCEPT !.tableData = table, !.loading = FALSE]
                      \/ /\ calls[i].op = "exchange.search"
                         /\ h = [hooks EXCEPT !.searchResults = table, !.loading = FALSE]
                   /\ hooks' = Exchange!Rendered(h)
      BY <1>4, <2>4 DEF Exchange!TableRead, Exchange!Value
    <3>2. /\ calls[i].op = "exchange.getTable" => table \in OwnTables
          /\ calls[i].op = "exchange.search" => table \in OwnRows
      BY <1>c, <2>4 DEF CallOK, ValueOK, Exchange!IsFulfilled
    <3>3. ExchangeFits(h) /\ h.page = hooks.page
      BY <1>0, <3>1, <3>2 DEF ExchangeFits
    <3>. QED
      BY <1>1, <2>1, <2>2, <3>1, <3>3, RenderedFits
  <2>. QED
    BY <2>3, <2>4
<1>5. ASSUME NEW c \in Cells, Exchange!startEdit(c)
      PROVE  PageStepFits /\ ExchangeFits(hooks')
  <2>. DEFINE h == Exchange!Editing(hooks, c, Exchange!Entries(hooks)[c])
  <2>1. /\ Exchange!Entries(hooks) \in OwnTables \cup OwnRows
        /\ c \in DOMAIN Exchange!Entries(hooks)
    BY <1>0, <1>5 DEF Exchange!startEdit, Exchange!IsShown, Exchange!Entries, ExchangeFits
  <2>2. Exchange!Entries(hooks)[c] \in TextsOf(c)
    BY <2>1 DEF OwnTables, OwnRows
  <2>3. ExchangeFits(h) /\ h.page = hooks.page
    BY <1>0, <2>2, EditorFits
  <2>4. hooks' = Exchange!Rendered(h) /\ world' = world /\ calls' = calls
    BY <1>5 DEF Exchange!startEdit
  <2>. HIDE DEF h
  <2>. QED
    BY <1>1, <2>3, <2>4, RenderedFits, Sends
<1>6. CASE Exchange!TypeValue
  <2>1. hooks' = [hooks EXCEPT !.editValue = [cell |-> hooks.editingIndex, text |-> "new"]]
        /\ world' = world /\ calls' = calls
    BY <1>6 DEF Exchange!TypeValue
  <2>2. ExchangeFits(hooks') /\ hooks'.page = hooks.page
    BY <1>0, <2>1 DEF ExchangeFits, TextsOf, Written
  <2>. QED
    BY <1>1, <2>1, <2>2, Sends
<1>7. CASE Exchange!PressEnter \/ Exchange!Blur
  <2>1. ExchangeFits([hooks EXCEPT !.focus = FALSE])
        /\ [hooks EXCEPT !.focus = FALSE].page = hooks.page
    BY <1>0 DEF ExchangeFits
  <2>. QED
    BY <1>0, <1>7, <2>1, SaveFits DEF Exchange!PressEnter, Exchange!Blur
<1>8. CASE Exchange!PressEscape
  <2>1. hooks' = Exchange!EditOver(hooks) /\ world' = world /\ calls' = calls
    BY <1>8 DEF Exchange!PressEscape, Exchange!EditOver
  <2>. QED
    BY <1>0, <1>1, <2>1, EditorFits, Sends
<1>9. CASE Exchange!Refocus
  <2>1. hooks' = [hooks EXCEPT !.focus = TRUE] /\ world' = world /\ calls' = calls
    BY <1>9 DEF Exchange!Refocus
  <2>2. ExchangeFits(hooks') /\ hooks'.page = hooks.page
    BY <1>0, <2>1 DEF ExchangeFits
  <2>. QED
    BY <1>1, <2>1, <2>2, Sends
<1>10. ASSUME NEW i \in DOMAIN calls, Exchange!Saved(i)
       PROVE  PageStepFits /\ ExchangeFits(hooks')
  <2>. DEFINE h == [hooks EXCEPT !.tableData = Exchange!Patch(@, calls[i].arg),
                                 !.searchResults = Exchange!Patch(@, calls[i].arg)]
  <2>1. calls[i].arg.index \in Cells /\ calls[i].arg.value \in TextsOf(calls[i].arg.index)
    BY <1>c, <1>10 DEF Exchange!Saved, CallOK, ArgOK
  <2>2. /\ Exchange!Patch(hooks.tableData, calls[i].arg) \in OwnTables \cup {Null}
        /\ Exchange!Patch(hooks.searchResults, calls[i].arg) \in OwnRows \cup {Null}
    BY <1>0, <2>1, PatchFits DEF ExchangeFits
  <2>3. ExchangeFits(h) /\ h.page = hooks.page
    BY <1>0, <2>2 DEF ExchangeFits
  <2>4. hooks' \in {Exchange!EditOver(h), Exchange!EditOver(hooks)}
        /\ world' = world /\ calls' = Exchange!Without(i)
    BY <1>10 DEF Exchange!Saved
  <2>. HIDE DEF h
  <2>5. ExchangeFits(hooks') /\ hooks'.page = hooks.page
    BY <1>0, <2>3, <2>4, EditorFits
  <2>. QED
    BY <1>1, <2>4, <2>5, Sends
<1>. QED
  BY <1>2, <1>3, <1>4, <1>5, <1>6, <1>7, <1>8, <1>9, <1>10
     DEF Exchange!Next, Exchange!Clicks, Exchange!Continuations

-----------------------------------------------------------------------------
\* The metrics: a chart is mounted with one timer, for its range.
LEMMA NewChart ==
  ASSUME NEW r \in Ranges
  PROVE  Metrics!Chart(r) \in Metrics!Charts /\ Metrics!Chart(r).timers = {r}
BY DEF Metrics!Chart, Metrics!Charts

\* Every step of the metrics page leaves one timer, for the selected range.
LEMMA MetricsStepFits ==
  ASSUME IInv, hooks.page = "metrics", Metrics!Next
  PROVE  PageStepFits /\ MetricsFits(hooks', calls')
<1>. USE DEF Metrics!Handle, Metrics!Continue, Metrics!Call, Metrics!Pending, Metrics!Without,
         Metrics!RangeCall, Metrics!TargetsCall, Ordinary
<1>0. MetricsFits(hooks, calls) /\ "page" \in DOMAIN hooks /\ calls \in Seq(ToSet(calls))
  BY DEF IInv
<1>c. \A i \in DOMAIN calls : calls[i] \in ToSet(calls) /\ CallOK(calls[i])
  BY DEF IInv, InFlight, ToSet
<1>t. Null \notin Metrics!Charts
  BY RangesAssumption
<1>1. ASSUME NEW r \in Ranges, Metrics!SelectRange(r)
      PROVE  PageStepFits /\ MetricsFits(hooks', calls')
  <2>1. CASE hooks.chart = Null
    <3>1. hooks' = [hooks EXCEPT !.range = r] /\ calls' = calls /\ world' = world
      BY <1>1, <2>1 DEF Metrics!SelectRange
    <3>2. MetricsFits(hooks', calls') /\ hooks'.page = hooks.page /\ "page" \in DOMAIN hooks'
      BY <1>0, <2>1, <3>1 DEF MetricsFits
    <3>. QED
      BY <3>1, <3>2, Sends, CalmStep
  <2>2. CASE hooks.chart # Null
    <3>1. /\ hooks' = [hooks EXCEPT !.range = r, !.chart = Metrics!RangeEffect(r)]
          /\ calls' = Append(calls, Metrics!RangeCall(r)) /\ world' = world
      BY <1>1, <2>2 DEF Metrics!SelectRange
    <3>2. Metrics!RangeEffect(r) \in Metrics!Charts /\ Metrics!RangeEffect(r).timers = {r}
      <4>1. hooks.chart \in Metrics!Charts /\ hooks.chart.timers = {hooks.range}
        BY <1>0, <2>2 DEF MetricsFits
      <4>. QED
        BY <4>1 DEF Metrics!RangeEffect, Metrics!Fetching, Metrics!Cleared, Metrics!Charts
    <3>3. ToSet(calls') \subseteq ToSet(calls) \cup {Metrics!RangeCall(r)}
      BY <1>0, <3>1, ElementsOfAppend
    <3>4. MetricsFits(hooks', calls') /\ hooks'.page = hooks.page /\ "page" \in DOMAIN hooks'
      BY <1>0, <1>t, <3>1, <3>2, <3>3 DEF MetricsFits
    <3>5. Follows(calls, calls')
      BY <3>1, Sends
    <3>. QED
      BY <3>1, <3>4, <3>5, CalmStep
  <2>. QED
    BY <2>1, <2>2
<1>2. ASSUME hooks'.page = hooks.page, {"page", "range", "chart"} \subseteq DOMAIN hooks',
             hooks'.chart = Metrics!Chart(hooks.range), hooks'.range = hooks.range,
             calls' = <<Metrics!RangeCall(hooks.range)>>, world' = world
      PROVE  PageStepFits /\ MetricsFits(hooks', calls')
  <2>1. hooks.range \in Ranges
    BY <1>0 DEF MetricsFits
  <2>2. ToSet(calls') = {Metrics!RangeCall(hooks.range)}
    BY <1>2, ElementsOfOne
  <2>3. MetricsFits(hooks', calls')
    BY <1>2, <1>t, <2>1, <2>2, NewChart DEF MetricsFits
  <2>4. Follows(calls, calls')
    BY <1>2, Sends
  <2>. QED
    BY <1>2, <2>3, <2>4, CalmStep
<1>3. ASSUME NEW t, Metrics!SelectTab(t)
      PROVE  PageStepFits /\ MetricsFits(hooks', calls')
  <2>1. CASE t = "targets"
    <3>1. /\ hooks' = [hooks EXCEPT !.activeTab = t, !.chart = Null, !.targets = Null,
                                    !.loading = TRUE]
          /\ calls' = <<Metrics!TargetsCall>> /\ world' = world
      BY <1>3, <2>1 DEF Metrics!SelectTab
    <3>2. ToSet(calls') = {Metrics!TargetsCall}
      BY <3>1, ElementsOfOne
    <3>3. MetricsFits(hooks', calls') /\ hooks'.page = hooks.page /\ "page" \in DOMAIN hooks'
      BY <1>0, <3>1, <3>2 DEF MetricsFits
    <3>4. Follows(calls, calls')
      BY <3>1, Sends
    <3>. QED
      BY <3>1, <3>3, <3>4, CalmStep
  <2>2. CASE t # "targets"
    <3>1. /\ hooks' = [hooks EXCEPT !.activeTab = t, !.chart = Metrics!Chart(hooks.range),
                                    !.loading = FALSE]
          /\ calls' = <<Metrics!RangeCall(hooks.range)>> /\ world' = world
      BY <1>3, <2>2 DEF Metrics!SelectTab
    <3>. QED
      BY <1>0, <1>2, <3>1 DEF MetricsFits
  <2>. QED
    BY <2>1, <2>2
<1>4. CASE Metrics!Refresh
  <2>1. /\ hooks' = [hooks EXCEPT !.chart = Metrics!Chart(hooks.range)]
        /\ calls' = <<Metrics!RangeCall(hooks.range)>> /\ world' = world
    BY <1>4 DEF Metrics!Refresh
  <2>. QED
    BY <1>0, <1>2, <2>1 DEF MetricsFits
<1>5. ASSUME NEW c \in Metrics!Charts, c.timers = {hooks.range}, hooks.chart # Null,
             hooks' = [hooks EXCEPT !.chart = c], world' = world,
             \A x \in ToSet(calls') : x \in ToSet(calls) \/ x.arg \in Ranges,
             Follows(calls, calls')
      PROVE  PageStepFits /\ MetricsFits(hooks', calls')
  <2>1. MetricsFits(hooks', calls') /\ hooks'.page = hooks.page /\ "page" \in DOMAIN hooks'
    BY <1>0, <1>t, <1>5 DEF MetricsFits
  <2>. QED
    BY <1>5, <2>1, CalmStep
<1>6. CASE Metrics!Tick
  <2>1. hooks.chart \in Metrics!Charts /\ hooks.chart.timers = {hooks.range} /\ hooks.chart # Null
        /\ hooks.range \in Ranges
    BY <1>0, <1>6 DEF MetricsFits, Metrics!Tick
  <2>. DEFINE c == Metrics!Fetching(hooks.chart)
  <2>2. /\ hooks' = [hooks EXCEPT !.chart = c] /\ world' = world
        /\ calls' = Append(calls, Metrics!RangeCall(hooks.range))
    BY <1>6, <2>1 DEF Metrics!Tick
  <2>3. c \in Metrics!Charts /\ c.timers = {hooks.range}
    BY <2>1 DEF Metrics!Fetching, Metrics!Charts
  <2>4. \A x \in ToSet(calls') : x \in ToSet(calls) \/ x.arg \in Ranges
    BY <1>0, <2>1, <2>2, ElementsOfAppend
  <2>5. Follows(calls, calls')
    BY <2>2, Sends
  <2>. HIDE DEF c
  <2>. QED
    BY <1>5, <2>1, <2>2, <2>3, <2>4, <2>5
<1>7. ASSUME NEW i \in DOMAIN calls, Metrics!ChartRead(i)
      PROVE  PageStepFits /\ MetricsFits(hooks', calls')
  <2>1. calls[i].arg \in Ranges /\ hooks.chart # Null /\ hooks.chart \in Metrics!Charts
        /\ hooks.chart.timers = {hooks.range}
    BY <1>0, <1>c, <1>7 DEF MetricsFits, Metrics!ChartRead
  <2>. DEFINE c == Metrics!ChartAnswer(hooks.chart, calls[i].answer)
  <2>2. calls[i].answer.state # "rejected" => calls[i].answer.value \in Ranges \cup {Null}
    <3>1. calls[i].op = "prometheus.queryRange" /\ calls[i].answer # Pending
      BY <1>7 DEF Metrics!ChartRead, Metrics!Settled, Pending
    <3>2. calls[i].answer = Rejected \/ calls[i].answer.state = "fulfilled"
      BY <1>c, <3>1 DEF CallOK
    <3>3. calls[i].answer = Rejected => calls[i].answer.state = "rejected"
      BY DEF Rejected
    <3>4. calls[i].answer.state = "fulfilled" => calls[i].answer.value \in {calls[i].arg, Null}
      BY <1>c, <3>1 DEF CallOK, ValueOK
    <3>. QED
      BY <2>1, <3>2, <3>3, <3>4
  <2>3. c \in Metrics!Charts /\ c.timers = {hooks.range}
    BY <2>1, <2>2 DEF Metrics!ChartAnswer, Metrics!Charts
  <2>4. hooks' = [hooks EXCEPT !.chart = c] /\ world' = world /\ calls' = Metrics!Without(i)
    BY <1>7 DEF Metrics!ChartRead
  <2>5. ToSet(calls') \subseteq ToSet(calls)
    BY <1>0, <2>4, ElementsOfRemoveAt DEF RemoveAt
  <2>6. Follows(calls, calls')
    BY <2>4, Sends
  <2>. HIDE DEF c
  <2>. QED
    BY <1>5, <2>1, <2>3, <2>4, <2>5, <2>6
<1>8. ASSUME NEW i \in DOMAIN calls, Metrics!TargetsRead(i)
      PROVE  PageStepFits /\ MetricsFits(hooks', calls')
  <2>1. world' = world /\ calls' = Metrics!Without(i)
    BY <1>8 DEF Metrics!TargetsRead
  <2>2. ToSet(calls') \subseteq ToSet(calls)
    BY <1>0, <2>1, ElementsOfRemoveAt DEF RemoveAt
  <2>3. MetricsFits(hooks', calls') /\ hooks'.page = hooks.page /\ "page" \in DOMAIN hooks'
    BY <1>0, <1>8, <2>2 DEF MetricsFits, Metrics!TargetsRead
  <2>. QED
    BY <2>1, <2>3, Sends, CalmStep
<1>. QED
  BY <1>1, <1>3, <1>4, <1>6, <1>7, <1>8
     DEF Metrics!Next, Metrics!Clicks, Metrics!Continuations

-----------------------------------------------------------------------------
\* The pages the routes show.
PageNames ==
    {"dashboard", "exchange", "clients", "actions", "logs", "redis", "system", "metrics",
     "alerts", "versions"}

\* Every link shows one of them.
LEMMA PageOfLink ==
  ASSUME NEW to \in Links
  PROVE  Page[to] \in PageNames
BY DEF Links, Page, PageNames

\* A page that is mounted: its hooks fit, and so do the calls of its effects.
MountFits(p) ==
    /\ "page" \in DOMAIN Mount[p].hooks /\ Mount[p].hooks.page = p
    /\ Follows(<<>>, Mount[p].calls)
    /\ p = "exchange" => ExchangeFits(Mount[p].hooks)
    /\ p = "metrics" => MetricsFits(Mount[p].hooks, Mount[p].calls)

\* A call of an ordinary operation fits when it is sent.
LEMMA PendingOK ==
  ASSUME NEW o, NEW a, Ordinary(o)
  PROVE  CallOK([op |-> o, arg |-> a, answer |-> [state |-> "pending"]])
BY NewCallOK DEF Ordinary, Pending

\* Every page is mounted so.
LEMMA EachMountFits ==
  ASSUME NEW p \in PageNames
  PROVE  MountFits(p)
<1>. USE DEF MountFits, Ordinary
<1>1. CASE p = "dashboard"
  <2>1. Mount[p].hooks = Dashboard!InitialHooks /\ Mount[p].calls = Dashboard!MountCalls
    BY <1>1 DEF Mount
  <2>2. Follows(<<>>, Dashboard!MountCalls)
    BY PendingOK, FollowsTwo DEF Dashboard!MountCalls, Dashboard!Call, Dashboard!Pending
  <2>. QED
    BY <1>1, <2>1, <2>2 DEF Dashboard!InitialHooks
<1>2. CASE p = "logs"
  <2>1. Mount[p].hooks = Logs!InitialHooks /\ Mount[p].calls = Logs!MountCalls
    BY <1>2 DEF Mount
  <2>2. Follows(<<>>, Logs!MountCalls)
    BY PendingOK, FollowsTwo DEF Logs!MountCalls, Logs!Call, Logs!Pending
  <2>. QED
    BY <1>2, <2>1, <2>2 DEF Logs!InitialHooks
<1>3. CASE p = "exchange"
  <2>1. Mount[p].hooks = Exchange!InitialHooks /\ Mount[p].calls = Exchange!MountCalls
    BY <1>3 DEF Mount
  <2>2. Follows(<<>>, Exchange!MountCalls)
    BY PendingOK, FollowsOne
       DEF Exchange!MountCalls, Exchange!TableCall, Exchange!Call, Exchange!Pending
  <2>. QED
    BY <1>3, <2>1, <2>2 DEF Exchange!InitialHooks, ExchangeFits
<1>4. CASE p = "metrics"
  <2>1. Mount[p].hooks = Metrics!InitialHooks /\ Mount[p].calls = Metrics!MountCalls
    BY <1>4 DEF Mount
  <2>. DEFINE c == Metrics!RangeCall(Metrics!FirstRange)
  <2>2. Follows(<<>>, Metrics!MountCalls)
    BY PendingOK, FollowsOne
       DEF Metrics!MountCalls, Metrics!RangeCall, Metrics!Call, Metrics!Pending
  <2>3. Metrics!FirstRange \in Ranges
    BY RangesAssumption DEF Metrics!FirstRange
  <2>4. ToSet(Metrics!MountCalls) = {c} /\ c.arg = Metrics!FirstRange
    BY ElementsOfOne DEF Metrics!MountCalls, Metrics!RangeCall, Metrics!Call
  <2>5. MetricsFits(Metrics!InitialHooks, Metrics!MountCalls)
    <3>. HIDE DEF c
    <3>. QED
      BY <2>3, <2>4, NewChart, RangesAssumption DEF MetricsFits, Metrics!InitialHooks
  <2>. QED
    BY <1>4, <2>1, <2>2, <2>5 DEF Metrics!InitialHooks
<1>5. CASE p = "clients"
  <2>1. Mount[p].hooks = ClientsView!InitialHooks /\ Mount[p].calls = ClientsView!MountCalls
    BY <1>5 DEF Mount
  <2>2. Follows(<<>>, ClientsView!MountCalls)
    BY PendingOK, FollowsOne DEF ClientsView!MountCalls, ClientsView!Call, ClientsView!Pending
  <2>. QED
    BY <1>5, <2>1, <2>2 DEF ClientsView!InitialHooks
<1>6. CASE p = "actions"
  <2>1. Mount[p].hooks = Actions!InitialHooks /\ Mount[p].calls = Actions!MountCalls
    BY <1>6 DEF Mount
  <2>2. Follows(<<>>, Actions!MountCalls)
    BY PendingOK, FollowsOne
       DEF Actions!MountCalls, Actions!ListCall, Actions!Call, Actions!Pending
  <2>. QED
    BY <1>6, <2>1, <2>2 DEF Actions!InitialHooks
<1>7. CASE p = "redis"
  <2>1. /\ Mount[p].hooks = RedisMonitor!InitialHooks
        /\ Mount[p].calls = RedisMonitor!MountCalls
    BY <1>7 DEF Mount
  <2>2. Follows(<<>>, RedisMonitor!MountCalls)
    BY PendingOK, FollowsOne
       DEF RedisMonitor!MountCalls, RedisMonitor!InfoCall, RedisMonitor!Call, RedisMonitor!Pending
  <2>. QED
    BY <1>7, <2>1, <2>2 DEF RedisMonitor!InitialHooks
<1>8. CASE p = "system"
  <2>1. Mount[p].hooks = System!InitialHooks /\ Mount[p].calls = System!MountCalls
    BY <1>8 DEF Mount
  <2>2. Follows(<<>>, System!MountCalls)
    BY PendingOK, FollowsOne
       DEF System!MountCalls, System!SystemCall, System!Call, System!Pending
  <2>. QED
    BY <1>8, <2>1, <2>2 DEF System!InitialHooks
<1>9. CASE p = "alerts"
  <2>1. Mount[p].hooks = AlertsView!InitialHooks /\ Mount[p].calls = AlertsView!MountCalls
    BY <1>9 DEF Mount
  <2>2. Follows(<<>>, AlertsView!MountCalls)
    BY PendingOK, FollowsOne
       DEF AlertsView!MountCalls, AlertsView!AlertsCall, AlertsView!Call, AlertsView!Pending
  <2>. QED
    BY <1>9, <2>1, <2>2 DEF AlertsView!InitialHooks
<1>10. CASE p = "versions"
  <2>1. Mount[p].hooks = Versions!InitialHooks /\ Mount[p].calls = Versions!MountCalls
    BY <1>10 DEF Mount
  <2>2. Follows(<<>>, Versions!MountCalls)
    BY PendingOK, FollowsOne DEF Versions!MountCalls, Versions!Call, Versions!Pending
  <2>. QED
    BY <1>10, <2>1, <2>2 DEF Versions!InitialHooks
<1>. QED
  BY <1>1, <1>2, <1>3, <1>4, <1>5, <1>6, <1>7, <1>8, <1>9, <1>10 DEF PageNames

-----------------------------------------------------------------------------
\* The steps of the application keep the invariant.  A step of a page does when
\* it fits.
LEMMA PageKeepsIInv ==
  ASSUME IInv, PageStepFits, UNCHANGED <<route, left>>,
         hooks.page = "exchange" => ExchangeFits(hooks'),
         hooks.page = "metrics" => MetricsFits(hooks', calls')
  PROVE  IInv'
<1>1. \A c \in InFlight' : CallOK(c)
  BY DEF IInv, PageStepFits, Follows, InFlight
<1>. QED
  BY <1>1 DEF IInv, PageStepFits, Follows

\* So does every step of the mounted page.
LEMMA PageStepKeepsIInv ==
  ASSUME IInv, PageStep
  PROVE  IInv'
<1>1. CASE hooks.page = "exchange" /\ Exchange!Next
  BY <1>1, ExchangeStepFits, PageKeepsIInv DEF PageStep
<1>2. CASE hooks.page = "metrics" /\ Metrics!Next
  BY <1>2, MetricsStepFits, PageKeepsIInv DEF PageStep
<1>3. CASE hooks.page \notin {"exchange", "metrics"}
  <2>1. PageStepFits
    BY <1>3, DashboardFits, ActionsFits, LogsFits, RedisMonitorFits, VersionsFits, AlertsFits,
       ClientsFits, SystemFits DEF PageStep
  <2>. QED
    BY <1>3, <2>1, PageKeepsIInv DEF PageStep
<1>. QED
  BY <1>1, <1>2, <1>3 DEF PageStep

\* So does an answer to one of its calls.
LEMMA AnsweredKeepsIInv ==
  ASSUME IInv, Answered
  PROVE  IInv'
<1>1. PICK i \in DOMAIN calls : Serve(i)
  BY DEF Answered, Answer
<1>2. PICK o \in Outcomes(calls[i]) :
        /\ world' = o.world
        /\ calls' = [calls EXCEPT ![i].answer = Promise(calls[i].op, o.response)]
  BY <1>1 DEF Serve
<1>. DEFINE c == [calls[i] EXCEPT !.answer = Promise(calls[i].op, o.response)]
<1>3. calls \in Seq(ToSet(calls)) /\ calls[i] \in ToSet(calls) /\ WorldFits(world)
      /\ CallOK(calls[i])
  BY DEF IInv, InFlight, ToSet
<1>4. WorldFits(world') /\ CallOK(c)
  BY <1>2, <1>3, OutcomeFits
<1>5. calls' = [calls EXCEPT ![i] = c] /\ c.op = calls[i].op /\ c.arg = calls[i].arg
  BY <1>2, <1>3 DEF CallOK
<1>. HIDE DEF c
<1>6. Follows(calls, calls')
  BY <1>3, <1>4, <1>5, FollowsAnswer
<1>7. ToSet(calls') \subseteq ToSet(calls) \cup {c}
  <2>1. DOMAIN calls' = DOMAIN calls
    BY <1>5
  <2>2. \A j \in DOMAIN calls : calls'[j] = IF j = i THEN c ELSE calls[j]
    BY <1>5
  <2>. QED
    BY <2>1, <2>2 DEF ToSet
<1>8. hooks' = hooks /\ UNCHANGED <<route, left>>
  BY <1>1 DEF Answered, Serve
<1>9. hooks.page = "metrics" => MetricsFits(hooks, calls')
  BY <1>3, <1>5, <1>7 DEF IInv, MetricsFits
<1>10. PageStepFits
  BY <1>4, <1>6, <1>8 DEF PageStepFits, IInv
<1>. QED
  BY <1>8, <1>9, <1>10, PageKeepsIInv DEF IInv

\* A page is shown while the calls in others go on.
LEMMA ShowKeepsIInv ==
  ASSUME IInv, NEW p \in PageNames, NEW others, Show(p, others), route' \in Links,
         world' = world, BagToSet(others) \subseteq InFlight
  PROVE  IInv'
<1>1. MountFits(p)
  BY EachMountFits
<1>2. hooks' = Mount[p].hooks /\ calls' = Mount[p].calls /\ left' = others
  BY DEF Show
<1>3. \A c \in InFlight' : CallOK(c)
  BY <1>1, <1>2 DEF MountFits, Follows, InFlight, ToSet, IInv
<1>4. /\ "page" \in DOMAIN hooks' /\ hooks'.page = p /\ calls' \in Seq(ToSet(calls'))
      /\ hooks'.page = "exchange" => ExchangeFits(hooks')
      /\ hooks'.page = "metrics" => MetricsFits(hooks', calls')
  BY <1>1, <1>2 DEF MountFits, Follows
<1>. QED
  BY <1>3, <1>4 DEF IInv

\* The calls that outlive the page were in flight.
LEMMA LeftWasInFlight ==
  /\ BagToSet(left (+) RestrictDomain(ToBag(calls), Outlives)) \subseteq InFlight
  /\ BagToSet(RestrictDomain(left (+) ToBag(calls), IsRequest)) \subseteq InFlight
<1>1. DOMAIN ToBag(calls) = ToSet(calls)
  BY DEF ToBag, Range, ToSet
<1>2. DOMAIN RestrictDomain(ToBag(calls), Outlives) \subseteq ToSet(calls)
  BY <1>1 DEF RestrictDomain, Restrict
<1>3. DOMAIN (left (+) RestrictDomain(ToBag(calls), Outlives)) \subseteq DOMAIN left \cup ToSet(calls)
  BY <1>2 DEF (+)
<1>4. DOMAIN (left (+) ToBag(calls)) = DOMAIN left \cup ToSet(calls)
  BY <1>1 DEF (+)
<1>5. DOMAIN RestrictDomain(left (+) ToBag(calls), IsRequest) \subseteq DOMAIN left \cup ToSet(calls)
  BY <1>4 DEF RestrictDomain, Restrict
<1>. QED
  BY <1>3, <1>5 DEF BagToSet, InFlight

\* A link and a reload mount a page, and drop or keep calls, but add none.
LEMMA NavigationKeepsIInv ==
  ASSUME IInv, Reload \/ \E to \in Links : NavLink(to)
  PROVE  IInv'
<1>1. CASE Reload
  <2>1. Page[route] \in PageNames /\ route' \in Links
    BY <1>1, PageOfLink DEF IInv, Reload
  <2>. QED
    BY <1>1, <2>1, ShowKeepsIInv, LeftWasInFlight DEF Reload
<1>2. ASSUME NEW to \in Links, NavLink(to)
      PROVE  IInv'
  <2>1. CASE Page[to] = hooks.page
    <3>1. UNCHANGED <<hooks, calls, left, world>> /\ route' = to
      BY <1>2, <2>1 DEF NavLink
    <3>. QED
      BY <3>1 DEF IInv, InFlight
  <2>2. CASE Page[to] # hooks.page
    <3>1. Page[to] \in PageNames /\ route' \in Links
      BY <1>2, PageOfLink DEF NavLink
    <3>. QED
      BY <1>2, <2>2, <3>1, ShowKeepsIInv, LeftWasInFlight DEF NavLink
  <2>. QED
    BY <2>1, <2>2
<1>. QED
  BY <1>1, <1>2

\* What is added to a bag, and what is left of it.
LEMMA BagElements ==
  ASSUME NEW B, NEW c
  PROVE  /\ BagToSet(BagRemove(B, c)) \subseteq BagToSet(B)
         /\ \A d : BagToSet(BagAdd(BagRemove(B, c), d)) \subseteq BagToSet(B) \cup {d}
<1>1. DOMAIN BagRemove(B, c) \subseteq DOMAIN B
  BY DEF BagRemove
<1>2. ASSUME NEW A, NEW d
      PROVE  DOMAIN BagAdd(A, d) \subseteq DOMAIN A \cup {d}
  BY DEF BagAdd
<1>. QED
  BY <1>1, <1>2 DEF BagToSet

\* The control plane answers a call of a page that was left, or its handler runs
\* on: it saves a backup, or sends the file it read.
LEMMA LeftStepKeepsIInv ==
  ASSUME IInv, LeftStep
  PROVE  IInv'
<1>1. PICK c \in BagToSet(left) : LeftServed(c) \/ LeftContinues(c)
  BY DEF LeftStep
<1>2. CallOK(c) /\ WorldFits(world)
  BY DEF IInv, InFlight
<1>3. UNCHANGED <<hooks, calls, route>>
  BY <1>1 DEF LeftServed, LeftContinues
<1>4. ASSUME NEW d, CallOK(d), BagToSet(left') \subseteq BagToSet(left) \cup {d},
             WorldFits(world')
      PROVE  IInv'
  <2>1. \A e \in InFlight' : CallOK(e)
    BY <1>3, <1>4 DEF IInv, InFlight
  <2>. QED
    BY <1>3, <1>4, <2>1 DEF IInv
<1>5. CASE LeftServed(c)
  <2>1. PICK o \in Outcomes(c) :
          /\ world' = o.world
          /\ left' \in {BagRemove(left, c),
                        BagAdd(BagRemove(left, c), [c EXCEPT !.answer = Promise(c.op, o.response)])}
    BY <1>5 DEF LeftServed
  <2>. DEFINE d == [c EXCEPT !.answer = Promise(c.op, o.response)]
  <2>2. WorldFits(world') /\ CallOK(d)
    BY <1>2, <2>1, OutcomeFits
  <2>3. left' \in {BagRemove(left, c), BagAdd(BagRemove(left, c), d)}
    BY <2>1
  <2>. HIDE DEF d
  <2>4. BagToSet(left') \subseteq BagToSet(left) \cup {d}
    BY <2>3, BagElements
  <2>. QED
    BY <1>4, <2>2, <2>4
<1>6. CASE LeftContinues(c)
  <2>1. CASE c.op = "redis.backup" /\ c.answer.state = "fulfilled" /\ c.answer.value # Null
    <3>1. /\ world' = [world EXCEPT !.files = world.files \cup {c.answer.value}]
          /\ left' = BagRemove(left, c)
      BY <1>6, <2>1 DEF LeftContinues
    <3>2. WorldFits(world')
      BY <1>2, <3>1 DEF WorldFits
    <3>3. BagToSet(left') \subseteq BagToSet(left) \cup {c}
      BY <3>1, BagElements
    <3>. QED
      BY <1>2, <1>4, <3>2, <3>3
  <2>2. CASE c.op = "file.text" /\ c.answer.state = "fulfilled" /\ c.answer.value # Null
    <3>. DEFINE d == Call("redis.restore", c.answer.value)
    <3>1. world' = world /\ left' = BagAdd(BagRemove(left, c), d)
      BY <1>6, <2>2 DEF LeftContinues
    <3>2. CallOK(d)
      BY DEF Call, CallOK, ArgOK, Pending
    <3>. HIDE DEF d
    <3>3. BagToSet(left') \subseteq BagToSet(left) \cup {d}
      BY <3>1, BagElements
    <3>. QED
      BY <1>2, <1>4, <3>1, <3>2, <3>3
  <2>3. CASE ~ (c.op \in {"redis.backup", "file.text"} /\ c.answer.state = "fulfilled"
                /\ c.answer.value # Null)
    <3>1. world' = world /\ left' = BagRemove(left, c)
      BY <1>6, <2>3 DEF LeftContinues
    <3>2. BagToSet(left') \subseteq BagToSet(left) \cup {c}
      BY <3>1, BagElements
    <3>. QED
      BY <1>2, <1>4, <3>1, <3>2
  <2>. QED
    BY <2>1, <2>2, <2>3
<1>. QED
  BY <1>1, <1>5, <1>6

\* The application starts on any page.
LEMMA InitIInv == Init => IInv
<1>. SUFFICES ASSUME Init PROVE IInv
  OBVIOUS
<1>1. PICK to \in Links : /\ route = to /\ hooks = Mount[Page[to]].hooks
                          /\ calls = Mount[Page[to]].calls
  BY DEF Init
<1>2. MountFits(Page[to])
  BY PageOfLink, EachMountFits
<1>3. WorldFits(world)
  <2>1. world.table = [c \in Cells |-> [cell |-> c, text |-> "old"]]
        /\ DOMAIN world = {"rev", "queue", "table", "files", "updates", "firing"}
    BY DEF Init, InitialWorld
  <2>2. world.table \in OwnTables
    BY <2>1 DEF OwnTables, TextsOf, Written
  <2>. QED
    BY <2>1, <2>2 DEF WorldFits
<1>4. left = EmptyBag
  BY DEF Init
<1>5. BagToSet(left) = {}
  BY <1>4 DEF EmptyBag, SetToBag, BagToSet
<1>. QED
  BY <1>1, <1>2, <1>3, <1>5 DEF IInv, MountFits, Follows, InFlight, ToSet

\* Every step keeps the invariant.
LEMMA NextKeepsIInv ==
  ASSUME IInv, [Next]_vars
  PROVE  IInv'
<1>1. CASE UNCHANGED vars
  BY <1>1 DEF vars, IInv, InFlight
<1>. QED
  BY <1>1, PageStepKeepsIInv, AnsweredKeepsIInv, NavigationKeepsIInv, LeftStepKeepsIInv DEF Next

\* The invariant holds in every behaviour.
LEMMA IInvAlways == Spec => []IInv
<1>1. IInv /\ [Next]_vars => IInv'
  BY NextKeepsIInv
<1>. QED
  BY <1>1, InitIInv, PTL DEF Spec

-----------------------------------------------------------------------------
\* No save ever carries the text of one cell to another, in any order of
\* clicks, keys, answers and changes of page (startEdit and saveEdit of
\* ExchangePage.tsx).
THEOREM SavesStayInTheirCellAlways == Spec => []SavesStayInTheirCell
<1>1. IInv => SavesStayInTheirCell
  <2>. SUFFICES ASSUME IInv, NEW i \in DOMAIN calls, calls[i].op = "exchange.setValue"
                PROVE  calls[i].arg.value # Null /\ calls[i].arg.value.cell = calls[i].arg.index
    BY DEF SavesStayInTheirCell, Exchange!SavesStayInTheirCell
  <2>1. calls[i].arg.value \in TextsOf(calls[i].arg.index)
    BY DEF IInv, InFlight, ToSet, CallOK, ArgOK
  <2>. QED
    BY <2>1, NullAssumption DEF TextsOf
<1>. QED
  BY <1>1, IInvAlways, PTL

\* A chart has one timer, for the selected range, after any number of changes
\* of the range, of the tab and of the page (MetricChart of MetricsPage.tsx).
THEOREM OneTimerAlways == Spec => []OneTimer
<1>1. IInv => OneTimer
  BY DEF IInv, MetricsFits, OneTimer, Metrics!OneTimer
<1>. QED
  BY <1>1, IInvAlways, PTL
=============================================================================
