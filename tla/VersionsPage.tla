---------------------------- MODULE VersionsPage -----------------------------
(***************************************************************************)
(* The updates page of the user interface                                  *)
(* (src/ui/src/pages/VersionsPage.tsx): the installed and available        *)
(* versions, the check for updates, and the history of updates.  The two   *)
(* tables share one spinner.                                               *)
(***************************************************************************)
EXTENDS ApiClient

InitialHooks ==
    [page |-> "versions", activeTab |-> "updates", versionList |-> Null, historyList |-> [updates |-> 0],
     loading |-> TRUE, checking |-> FALSE]

MountCalls == <<Call("versions.list", Null)>>

TypeOK ==
    /\ hooks.activeTab \in {"updates", "history"}
    /\ hooks.versionList \in [rev : Nat] \cup {Null}
    /\ hooks.historyList \in [updates : Nat] \cup {Null}
    /\ hooks.loading \in BOOLEAN /\ hooks.checking \in BOOLEAN
    /\ HistoryOK

------------------------------------------------------------------------------
\* Rendering the history tab reads the length of the list.  On null it throws,
\* and React, with no error boundary, takes the whole interface down.
Blank == hooks.activeTab = "history" /\ hooks.historyList = Null

SelectTab(t) ==
    /\ hooks.activeTab # t
    /\ IF t = "history" /\ hooks.historyList # Null
       THEN Handle([hooks EXCEPT !.activeTab = t, !.loading = TRUE],
                   Append(calls, Call("versions.history", Null)))
       ELSE Handle([hooks EXCEPT !.activeTab = t], calls)

handleCheckUpdates ==
    /\ ~hooks.checking
    /\ Handle([hooks EXCEPT !.checking = TRUE], Append(calls, Call("versions.check", Null)))

------------------------------------------------------------------------------
VersionsRead(i) ==
    /\ Settled(i) /\ calls[i].op = "versions.list"
    /\ \/ /\ IsFulfilled(i)
          /\ Continue([hooks EXCEPT !.versionList = Value(i), !.loading = FALSE],
                      Without(i), Seen(Value(i).rev))
       \/ /\ ~IsFulfilled(i)
          /\ Continue([hooks EXCEPT !.loading = FALSE], Without(i), Disturbed)

HistoryRead(i) ==
    /\ Settled(i) /\ calls[i].op = "versions.history"
    /\ \/ /\ IsFulfilled(i)
          /\ Continue([hooks EXCEPT !.historyList = Value(i), !.loading = FALSE],
                      Without(i), hist)
       \/ /\ ~IsFulfilled(i)
          /\ Continue([hooks EXCEPT !.loading = FALSE], Without(i), hist)

UpdatesChecked_NotShown(i) ==
    /\ Settled(i) /\ calls[i].op = "versions.check"
    /\ \/ /\ IsFulfilled(i)
          /\ Continue([hooks EXCEPT !.checking = FALSE],
                      Without(i), [Seen(Value(i).rev) EXCEPT !.acked = Value(i).rev])
       \/ /\ ~IsFulfilled(i)
          /\ Continue([hooks EXCEPT !.checking = FALSE], Without(i), Disturbed)

UpdatesChecked_Whole(i) ==
    /\ Settled(i) /\ calls[i].op = "versions.check"
    /\ \/ /\ IsFulfilled(i)
          /\ Continue([hooks EXCEPT !.versionList = [versions |-> Value(i)], !.checking = FALSE],
                      Without(i), [Seen(Value(i).rev) EXCEPT !.acked = Value(i).rev])
       \/ /\ ~IsFulfilled(i)
          /\ Continue([hooks EXCEPT !.checking = FALSE], Without(i), Disturbed)

UpdatesChecked(i) ==
    /\ Settled(i) /\ calls[i].op = "versions.check"
    /\ \/ /\ IsFulfilled(i)
          /\ Continue([hooks EXCEPT !.versionList = Value(i), !.checking = FALSE],
                      Without(i), [Seen(Value(i).rev) EXCEPT !.acked = Value(i).rev])
       \/ /\ ~IsFulfilled(i)
          /\ Continue([hooks EXCEPT !.checking = FALSE], Without(i), Disturbed)

------------------------------------------------------------------------------
\* A spinner is on, or a button is disabled.
Busy == ~Blank /\ (hooks.loading \/ hooks.checking)

Clicks ==
    /\ ~Blank
    /\ \/ \E t \in {"updates", "history"} : SelectTab(t)
       \/ handleCheckUpdates

Continuations ==
    /\ ~Blank
    /\ \E i \in DOMAIN calls : VersionsRead(i) \/ HistoryRead(i) \/ UpdatesChecked(i)

\* Others update a service; the history gains a row and loses none.
Others == OthersChange([world EXCEPT !.updates = @ + 1])

Next == Clicks \/ Continuations \/ Others

Init ==
    /\ hooks = InitialHooks /\ calls = MountCalls /\ hist = Undisturbed
    /\ world = InitialWorld /\ events = MaxEvents

Spec == Init /\ [][Next \/ Answer]_pageVars

------------------------------------------------------------------------------
\* At rest, the versions shown are at least as recent as the last check, unless
\* an answer failed or an older one arrived after a newer one (the first list
\* may arrive after a check).
CheckIsShown ==
    calls = <<>> /\ ~hist.disturbed =>
        hooks.versionList # Null /\ hooks.versionList.rev >= hist.acked
=============================================================================
