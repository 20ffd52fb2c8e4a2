---------------------------- MODULE DashboardPage ----------------------------
(***************************************************************************)
(* The dashboard of the user interface (src/ui/src/pages/DashboardPage.tsx,*)
(* routes / and /services): the list of services and the restart button.   *)
(* The load waits for two answers, and a restart for two in a row; any     *)
(* number of restarts, of different services, may overlap.                 *)
(***************************************************************************)
EXTENDS ApiClient

InitialHooks ==
    [page |-> "dashboard", activeTab |-> "overview", servicesList |-> Null,
     versionInfos |-> Null, loading |-> TRUE, restarting |-> Null, actionOpen |-> Null]

\* fetchData on mount: Promise.all of two calls, marked by the argument Null.
MountCalls == <<Call("services.list", Null), Call("versions.list", Null)>>

TypeOK ==
    /\ hooks.activeTab \in {"overview", "metrics"}
    /\ hooks.servicesList \in [rev : Nat] \cup {Null}
    /\ hooks.versionInfos \in [rev : Nat] \cup {Null}
    /\ hooks.loading \in BOOLEAN
    /\ hooks.restarting \in Services \cup {Null}
    /\ hooks.actionOpen \in Services \cup {Null}
    /\ HistoryOK

------------------------------------------------------------------------------
LoadCalls == {i \in DOMAIN calls : calls[i].arg = Null}

\* The two calls of the load were the first to be sent.
AfterLoad == SubSeq(calls, 3, Len(calls))

\* Promise.all rejects with the first rejection, and the other answer is
\* ignored; it fulfils when both calls have.
LoadFailed ==
    /\ \E i \in LoadCalls : Settled(i) /\ ~IsFulfilled(i)
    /\ Continue([hooks EXCEPT !.loading = FALSE], AfterLoad, Disturbed)

Loaded ==
    /\ LoadCalls # {} /\ \A i \in LoadCalls : Settled(i) /\ IsFulfilled(i)
    /\ \E s, v \in LoadCalls :
          /\ calls[s].op = "services.list" /\ calls[v].op = "versions.list"
          /\ Continue([hooks EXCEPT !.servicesList = Value(s), !.versionInfos = Value(v),
                                    !.loading = FALSE],
                      AfterLoad, Seen(Value(s).rev))

------------------------------------------------------------------------------
\* A row, with its menu button, for each service of the list; the restart
\* button is in the open menu, disabled for the service marked as restarting.
RowShown(s)       == hooks.activeTab = "overview" /\ hooks.servicesList # Null /\ s \in Services
RestartOffered(s) == RowShown(s) /\ hooks.actionOpen = s /\ hooks.restarting # s

ToggleMenu(s) ==
    /\ RowShown(s)
    /\ Handle([hooks EXCEPT !.actionOpen = IF @ = s THEN Null ELSE s], calls)

SelectTab(t) == hooks.activeTab # t /\ Handle([hooks EXCEPT !.activeTab = t], calls)

handleRestart(s) ==
    /\ RestartOffered(s)
    /\ Handle([hooks EXCEPT !.restarting = s, !.actionOpen = Null],
              Append(calls, Call("services.restart", s)))

\* The finally clause clears the mark, whichever service it is on by then.
RestartOver == [hooks EXCEPT !.restarting = Null]

Restarted_MarkKept(i) ==
    /\ Settled(i) /\ calls[i].op = "services.restart"
    /\ \/ /\ IsFulfilled(i)
          /\ Continue(hooks, Append(Without(i), Call("services.list", calls[i].arg)),
                      Acked(Value(i).rev))
       \/ /\ ~IsFulfilled(i)
          /\ Continue(hooks, Without(i), hist)

Restarted_NotRelisted(i) ==
    /\ Settled(i) /\ calls[i].op = "services.restart"
    /\ Continue(RestartOver, Without(i), IF IsFulfilled(i) THEN Acked(Value(i).rev) ELSE hist)

Restarted(i) ==
    /\ Settled(i) /\ calls[i].op = "services.restart"
    /\ \/ /\ IsFulfilled(i)
          /\ Continue(hooks, Append(Without(i), Call("services.list", calls[i].arg)),
                      Acked(Value(i).rev))
       \/ /\ ~IsFulfilled(i)
          /\ Continue(RestartOver, Without(i), hist)

Relisted(i) ==
    /\ Settled(i) /\ calls[i].op = "services.list" /\ calls[i].arg # Null
    /\ \/ /\ IsFulfilled(i)
          /\ Continue([RestartOver EXCEPT !.servicesList = Value(i)],
                      Without(i), Seen(Value(i).rev))
       \/ /\ ~IsFulfilled(i)
          /\ Continue(RestartOver, Without(i), Disturbed)

------------------------------------------------------------------------------
\* A spinner is on, or a button is disabled.
Busy == hooks.loading \/ hooks.restarting # Null

Clicks ==
    \/ \E s \in Services : ToggleMenu(s) \/ handleRestart(s)
    \/ \E t \in {"overview", "metrics"} : SelectTab(t)

Continuations ==
    \/ LoadFailed
    \/ Loaded
    \/ \E i \in DOMAIN calls : Restarted(i) \/ Relisted(i)

\* Services stop, start and are updated by others.
Others == OthersChange(world)

Next == Clicks \/ Continuations \/ Others

Init ==
    /\ hooks = InitialHooks /\ calls = MountCalls /\ hist = Undisturbed
    /\ world = InitialWorld /\ events = MaxEvents

Spec == Init /\ [][Next \/ Answer]_pageVars

------------------------------------------------------------------------------
\* While a service is marked as restarting, a restart of it, or the list read
\* after it, is in flight: no failure and no overlap with another restart
\* leaves a row whose button stays disabled (handleRestart, finally).
RestartMarkIsLive ==
    hooks.restarting # Null =>
        \E i \in DOMAIN calls : calls[i].arg = hooks.restarting

\* At rest, the list was read after the last restart the page knows done,
\* unless a list failed to load or an older list arrived after a newer one:
\* the restart is awaited before the list is read (handleRestart).
RestartsAreShown ==
    calls = <<>> /\ ~hist.disturbed =>
        hooks.servicesList # Null /\ hooks.servicesList.rev >= hist.acked
=============================================================================
