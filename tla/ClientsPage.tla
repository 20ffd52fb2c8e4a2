----------------------------- MODULE ClientsPage -----------------------------
(***************************************************************************)
(* The list of clients of the user interface                               *)
(* (src/ui/src/pages/ClientsPage.tsx): read once, with the details of the  *)
(* row that was clicked below the table.                                   *)
(***************************************************************************)
EXTENDS ApiClient

CONSTANT Clients

InitialHooks ==
    [page |-> "clients", clientsList |-> {}, loading |-> TRUE, selectedClient |-> Null]

MountCalls == <<Call("clients.list", Null)>>

TypeOK ==
    /\ hooks.clientsList \in {{}, Clients} /\ hooks.loading \in BOOLEAN
    /\ hooks.selectedClient \in hooks.clientsList \cup {Null}

ClientsRead(i) ==
    /\ Settled(i) /\ calls[i].op = "clients.list"
    /\ Continue([hooks EXCEPT !.clientsList = IF IsFulfilled(i) THEN Clients ELSE @,
                              !.loading = FALSE],
                Without(i), hist)

\* A click on a row shows its details, and a second one hides them.
handleRowClick(c) ==
    /\ c \in hooks.clientsList
    /\ Handle([hooks EXCEPT !.selectedClient = IF @ = c THEN Null ELSE c], calls)

Clicks        == \E c \in hooks.clientsList : handleRowClick(c)
Continuations == \E i \in DOMAIN calls : ClientsRead(i)
Busy          == hooks.loading

Next == Clicks \/ Continuations
=============================================================================
