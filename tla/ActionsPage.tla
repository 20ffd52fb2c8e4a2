----------------------------- MODULE ActionsPage -----------------------------
(***************************************************************************)
(* The actions queue of the user interface                                 *)
(* (src/ui/src/pages/ActionsPage.tsx): the list of pending actions, and    *)
(* the buttons that inject, remove and purge.  No button is disabled while *)
(* its call is in flight, and no handler catches a failure.                *)
(***************************************************************************)
EXTENDS ApiClient

InitialHooks ==
    [page |-> "actions", activeTab |-> "queue", data |-> Null, loading |-> TRUE,
     showInject |-> FALSE, form |-> "empty"]

ListCall   == Call("actions.list", Null)
MountCalls == <<ListCall>>

TypeOK ==
    /\ hooks.activeTab \in {"queue", "history"}
    /\ hooks.data \in {Null} \/ (hooks.data.rev \in Nat /\ hooks.data.guids \subseteq Nat)
    /\ hooks.loading \in BOOLEAN /\ hooks.showInject \in BOOLEAN
    /\ hooks.form \in {"empty", "typed"}
    /\ HistoryOK

------------------------------------------------------------------------------
\* fetchData: the spinner replaces the table until an answer clears it, be it
\* the answer of an earlier list.
fetchData(h, cs, g) == Continue([h EXCEPT !.loading = TRUE], Append(cs, ListCall), g)

Listed_OnlyThen(i) ==
    /\ Settled(i) /\ calls[i].op = "actions.list"
    /\ \/ /\ IsFulfilled(i)
          /\ Continue([hooks EXCEPT !.data = Value(i), !.loading = FALSE],
                      Without(i), Seen(Value(i).rev))
       \/ ~IsFulfilled(i) /\ Continue(hooks, Without(i), Disturbed)

Listed(i) ==
    /\ Settled(i) /\ calls[i].op = "actions.list"
    /\ \/ /\ IsFulfilled(i)
          /\ Continue([hooks EXCEPT !.data = Value(i), !.loading = FALSE],
                      Without(i), Seen(Value(i).rev))
       \/ /\ ~IsFulfilled(i)
          /\ Continue([hooks EXCEPT !.loading = FALSE], Without(i), Disturbed)

------------------------------------------------------------------------------
SelectTab(t) == hooks.activeTab # t /\ Handle([hooks EXCEPT !.activeTab = t], calls)
OpenModal    == ~hooks.showInject /\ Handle([hooks EXCEPT !.showInject = TRUE], calls)
CloseModal   == hooks.showInject /\ Handle([hooks EXCEPT !.showInject = FALSE], calls)
TypeForm     == hooks.showInject /\ hooks.form = "empty" /\ Typing([hooks EXCEPT !.form = "typed"])

\* crypto.randomUUID: the events left are a number no other click has.
FreshGUID == events

handleInject ==
    /\ hooks.showInject
    /\ Handle(hooks, Append(calls, Call("actions.push", [guid |-> FreshGUID])))

\* The header and the table stay within reach of the keyboard under the modal.
handlePurge == Handle(hooks, Append(calls, Call("actions.purge", Null)))

Row(g) ==
    /\ hooks.activeTab = "queue" /\ ~hooks.loading
    /\ hooks.data # Null /\ g \in hooks.data.guids

handleRemove(g) == Row(g) /\ Handle(hooks, Append(calls, Call("actions.remove", [guid |-> g])))

------------------------------------------------------------------------------
Changes == {"actions.push", "actions.remove", "actions.purge"}

\* The end of an inject closes the modal and empties the form, whatever was
\* opened and typed since.
AfterChange(op) ==
    IF op = "actions.push" THEN [hooks EXCEPT !.showInject = FALSE, !.form = "empty"] ELSE hooks

Changed_PurgeNotListed(i) ==
    /\ Settled(i) /\ calls[i].op \in Changes
    /\ \/ /\ IsFulfilled(i) /\ calls[i].op # "actions.purge"
          /\ fetchData(AfterChange(calls[i].op), Without(i), Acked(Value(i).rev))
       \/ /\ IsFulfilled(i) /\ calls[i].op = "actions.purge"
          /\ Continue(hooks, Without(i), Acked(Value(i).rev))
       \/ ~IsFulfilled(i) /\ Continue(hooks, Without(i), hist)

\* Every change that succeeds reads the list again; one that fails leaves the
\* page as it is.
Changed(i) ==
    /\ Settled(i) /\ calls[i].op \in Changes
    /\ \/ IsFulfilled(i) /\ fetchData(AfterChange(calls[i].op), Without(i), Acked(Value(i).rev))
       \/ ~IsFulfilled(i) /\ Continue(hooks, Without(i), hist)

------------------------------------------------------------------------------
\* A spinner is on, or a button is disabled.
Busy == hooks.loading

Clicks ==
    \/ \E t \in {"queue", "history"} : SelectTab(t)
    \/ OpenModal \/ CloseModal \/ TypeForm
    \/ handleInject \/ handlePurge
    \/ hooks.data # Null /\ \E g \in hooks.data.guids : handleRemove(g)

Continuations == \E i \in DOMAIN calls : Listed(i) \/ Changed(i)

\* A gateway takes an action from the queue.
Others == \E g \in world.queue : OthersChange([world EXCEPT !.queue = @ \ {g}])

Next == Clicks \/ Continuations \/ Others

Init ==
    /\ hooks = InitialHooks /\ calls = MountCalls /\ hist = Undisturbed
    /\ world = InitialWorld /\ events = MaxEvents

Spec == Init /\ [][Next \/ Answer]_pageVars

------------------------------------------------------------------------------
\* At rest, the queue shown was read after the last change the page knows
\* done, unless a list failed to load or an older one arrived after a newer
\* one: a purge, a removal and an injection are awaited before the list is
\* read again (handlePurge, handleRemove, handleInject).
ChangesAreShown ==
    calls = <<>> /\ ~hist.disturbed =>
        hooks.data # Null /\ hooks.data.rev >= hist.acked
=============================================================================
