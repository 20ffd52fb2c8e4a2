----------------------------- MODULE SystemPage ------------------------------
(***************************************************************************)
(* The system page of the user interface                                   *)
(* (src/ui/src/pages/SystemPage.tsx, routes /system and /settings): the    *)
(* figures of the host, read whenever the overview is entered.             *)
(***************************************************************************)
EXTENDS ApiClient

SystemCall == Call("system.get", Null)

InitialHooks ==
    [page |-> "system", activeTab |-> "overview", sysInfo |-> Null, loading |-> TRUE]

MountCalls == <<SystemCall>>

TypeOK ==
    /\ hooks.activeTab \in {"overview", "graphs"}
    /\ hooks.sysInfo \in [rev : Nat] \cup {Null} /\ hooks.loading \in BOOLEAN

SelectTab(t) ==
    /\ hooks.activeTab # t
    /\ IF t = "overview"
       THEN Handle([hooks EXCEPT !.activeTab = t, !.loading = TRUE], Append(calls, SystemCall))
       ELSE Handle([hooks EXCEPT !.activeTab = t], calls)

SystemRead(i) ==
    /\ Settled(i) /\ calls[i].op = "system.get"
    /\ Continue([hooks EXCEPT !.sysInfo = IF IsFulfilled(i) THEN Value(i) ELSE Null,
                              !.loading = FALSE],
                Without(i), hist)

Clicks        == \E t \in {"overview", "graphs"} : SelectTab(t)
Continuations == \E i \in DOMAIN calls : SystemRead(i)
Busy          == hooks.loading

Next == Clicks \/ Continuations
=============================================================================
