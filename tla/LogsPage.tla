------------------------------ MODULE LogsPage -------------------------------
(***************************************************************************)
(* The log viewer of the user interface (src/ui/src/pages/LogsPage.tsx):   *)
(* the logs of all services, or of the selected one.  Calls are sent by    *)
(* effects, when the tab or the selection they depend on has changed.  An  *)
(* answer does not say which service it is of, and nothing cancels a call  *)
(* whose service is no longer selected.                                    *)
(***************************************************************************)
EXTENDS ApiClient

InitialHooks ==
    [page |-> "logs", activeTab |-> "all", allLogs |-> Null, serviceLogs |-> Null,
     selectedService |-> Null, serviceList |-> {}, loading |-> TRUE]

MountCalls == <<Call("logs.getAll", Null), Call("services.list", Null)>>

TypeOK ==
    /\ hooks.activeTab \in {"all", "by-service", "live"}
    /\ hooks.allLogs \in [rev : Nat] \cup {Null}
    /\ hooks.serviceLogs \in Services \cup {Null}       \* whose logs they are
    /\ hooks.selectedService \in Services \cup {Null}
    /\ hooks.serviceList \in {{}, Services}
    /\ hooks.loading \in BOOLEAN
    /\ hist \in [overtaken : BOOLEAN]

InOrder == [overtaken |-> FALSE]

------------------------------------------------------------------------------
\* fetchAllLogs depends on whether the tab is "all", so it also runs when that
\* tab is left; fetchServiceLogs on the tab and the selection.
AllLogsEffect(h) ==
    IF (h.activeTab = "all") # (hooks.activeTab = "all")
    THEN <<Call("logs.getAll", Null)>> ELSE <<>>

ServiceLogsEffect_TabOnly(h) ==
    IF /\ h.activeTab # hooks.activeTab
       /\ h.activeTab = "by-service" /\ h.selectedService # Null
    THEN <<Call("logs.get", h.selectedService)>> ELSE <<>>

ServiceLogsEffect(h) ==
    IF /\ <<h.activeTab, h.selectedService>> # <<hooks.activeTab, hooks.selectedService>>
       /\ h.activeTab = "by-service" /\ h.selectedService # Null
    THEN <<Call("logs.get", h.selectedService)>> ELSE <<>>

Sent(h) == AllLogsEffect(h) \o ServiceLogsEffect(h)

\* The hooks after the effects: each one that runs turns the spinner on.
AfterEffects(h) == [h EXCEPT !.loading = @ \/ Sent(h) # <<>>]

SelectTab(t) ==
    LET h == [hooks EXCEPT !.activeTab = t] IN
    hooks.activeTab # t /\ Handle(AfterEffects(h), calls \o Sent(h))

SelectService(s) ==
    LET h == [hooks EXCEPT !.selectedService = s] IN
    /\ hooks.activeTab = "by-service" /\ s \in hooks.serviceList \ {hooks.selectedService}
    /\ Handle(AfterEffects(h), calls \o Sent(h))

------------------------------------------------------------------------------
AllLogsRead(i) ==
    /\ Settled(i) /\ calls[i].op = "logs.getAll"
    /\ Continue([hooks EXCEPT !.allLogs = IF IsFulfilled(i) THEN Value(i) ELSE Null,
                              !.loading = FALSE],
                Without(i), hist)

\* An answer overtakes when an earlier call for the logs of a service is still
\* in flight.
Overtakes(i) == \E j \in 1 .. i - 1 : calls[j].op = "logs.get"

ServiceLogsRead(i) ==
    /\ Settled(i) /\ calls[i].op = "logs.get"
    /\ Continue([hooks EXCEPT !.serviceLogs = IF IsFulfilled(i) THEN Value(i) ELSE Null,
                              !.loading = FALSE],
                Without(i), [overtaken |-> hist.overtaken \/ Overtakes(i)])

\* The first service of the list is selected; no other can have been, since
\* there was nothing to select from.
FirstService == CHOOSE s \in Services : TRUE

ServicesListed(i) ==
    LET h == [hooks EXCEPT !.serviceList = Services, !.selectedService = FirstService] IN
    /\ Settled(i) /\ calls[i].op = "services.list"
    /\ \/ IsFulfilled(i) /\ Continue(AfterEffects(h), Without(i) \o Sent(h), hist)
       \/ ~IsFulfilled(i) /\ Continue(hooks, Without(i), hist)

------------------------------------------------------------------------------
\* A spinner is on, or a button is disabled.
Busy == hooks.loading

Clicks ==
    \/ \E t \in {"all", "by-service", "live"} : SelectTab(t)
    \/ \E s \in Services : SelectService(s)

Continuations == \E i \in DOMAIN calls : AllLogsRead(i) \/ ServiceLogsRead(i) \/ ServicesListed(i)

Next == Clicks \/ Continuations

Init ==
    /\ hooks = InitialHooks /\ calls = MountCalls /\ hist = InOrder
    /\ world = InitialWorld /\ events = MaxEvents

Spec == Init /\ [][Next \/ Answer]_pageVars

------------------------------------------------------------------------------
\* At rest, the logs in the pane are those of the service that is selected,
\* unless an answer overtook an earlier one: every change of the selection, and
\* every return to the tab, reads them again (fetchServiceLogs).
PaneIsOfSelected ==
    calls = <<>> /\ ~hist.overtaken /\ hooks.activeTab = "by-service" =>
        hooks.serviceLogs \in {Null, hooks.selectedService}
=============================================================================
