---------------------------- MODULE ExchangePage -----------------------------
(***************************************************************************)
(* The exchange table of the user interface                                *)
(* (src/ui/src/pages/ExchangePage.tsx): browsing, searching, and editing a *)
(* value in place.  One editor, in the cell editingIndex, saves on Enter   *)
(* and whenever it loses the focus; clicking another cell takes the focus  *)
(* first, so a save is in flight when the next cell opens.                 *)
(***************************************************************************)
EXTENDS ApiClient

InitialHooks ==
    [page |-> "exchange", activeTab |-> "browse", tableData |-> Null, searchQuery |-> "empty",
     searchResults |-> Null, loading |-> TRUE, editingIndex |-> Null, editValue |-> Null,
     focus |-> FALSE]

TableCall  == Call("exchange.getTable", Null)
MountCalls == <<TableCall>>

TypeOK ==
    /\ hooks.activeTab \in {"browse", "search", "live"}
    /\ hooks.tableData \in [Cells -> Text] \cup {Null}
    /\ hooks.searchResults \in Rows \cup {Null}
    /\ hooks.searchQuery \in {"empty", "query"} /\ hooks.loading \in BOOLEAN
    /\ hooks.editingIndex \in Cells \cup {Null} /\ hooks.editValue \in Text
    /\ hooks.focus \in BOOLEAN
    /\ HistoryOK

------------------------------------------------------------------------------
\* The entries of the open tab, in which the cell being edited is an input.
\* It takes the focus when it is mounted (autoFocus).  When it goes, with its
\* tab or with its row, the focus goes with it and nothing is saved: React
\* fires no blur for an element that it removes.
Entries(h) ==
    CASE h.activeTab = "browse" -> h.tableData
      [] h.activeTab = "search" -> h.searchResults
      [] OTHER -> Null

IsShown(h, k)  == Entries(h) # Null /\ k \in DOMAIN Entries(h)
EditorShown(h) == h.editingIndex # Null /\ IsShown(h, h.editingIndex)

Remounted(h) ==
    h.activeTab # hooks.activeTab \/ h.editingIndex # hooks.editingIndex \/ ~EditorShown(hooks)

Rendered(h) == [h EXCEPT !.focus = EditorShown(h) /\ (@ \/ Remounted(h))]

------------------------------------------------------------------------------
\* loadTable runs when the browse tab is entered.
SelectTab(t) ==
    /\ hooks.activeTab # t /\ ~hooks.focus
    /\ IF t = "browse"
       THEN Handle(Rendered([hooks EXCEPT !.activeTab = t, !.loading = TRUE]),
                   Append(calls, TableCall))
       ELSE Handle(Rendered([hooks EXCEPT !.activeTab = t]), calls)

TypeQuery ==
    /\ hooks.activeTab = "search" /\ hooks.searchQuery = "empty" /\ ~hooks.focus
    /\ Typing([hooks EXCEPT !.searchQuery = "query"])

\* With the Search button, disabled while loading, or with Enter, which is not.
handleSearch(byEnter) ==
    /\ hooks.activeTab = "search" /\ ~hooks.focus
    /\ ~hooks.loading \/ byEnter
    /\ hooks.searchQuery # "empty"
    /\ Handle([hooks EXCEPT !.loading = TRUE],
              Append(calls, Call("exchange.search", [query |-> hooks.searchQuery])))

\* The answers of both, and the shared spinner that either clears.
TableRead(i) ==
    /\ Settled(i) /\ calls[i].op \in {"exchange.getTable", "exchange.search"}
    /\ \/ /\ IsFulfilled(i) /\ calls[i].op = "exchange.getTable"
          /\ Continue(Rendered([hooks EXCEPT !.tableData = Value(i).table, !.loading = FALSE]),
                      Without(i), Seen(Value(i).rev))
       \/ /\ IsFulfilled(i) /\ calls[i].op = "exchange.search"
          /\ Continue(Rendered([hooks EXCEPT !.searchResults = Value(i).table, !.loading = FALSE]),
                      Without(i), Seen(Value(i).rev))
       \/ /\ ~IsFulfilled(i)
          /\ Continue([hooks EXCEPT !.loading = FALSE], Without(i), Disturbed)

------------------------------------------------------------------------------
Editing_KeepsText(h, c, v) ==
    [h EXCEPT !.editingIndex = c, !.editValue = IF @ = Null THEN v ELSE @]

\* A click on the value of a cell, once the open editor has lost the focus.
Editing(h, c, v) == [h EXCEPT !.editingIndex = c, !.editValue = v]

startEdit(c) ==
    /\ IsShown(hooks, c) /\ hooks.editingIndex # c /\ ~hooks.focus
    /\ Handle(Rendered(Editing(hooks, c, Entries(hooks)[c])), calls)

TypeValue ==
    /\ hooks.focus /\ hooks.editValue.text # "new"
    /\ Typing([hooks EXCEPT !.editValue = [cell |-> hooks.editingIndex, text |-> "new"]])

saveEdit(h) ==
    /\ h.editingIndex # Null
    /\ Handle(h, Append(calls, Call("exchange.setValue",
                                    [index |-> h.editingIndex, value |-> h.editValue])))

PressEnter  == hooks.focus /\ saveEdit(hooks)
Blur        == hooks.focus /\ saveEdit([hooks EXCEPT !.focus = FALSE])
PressEscape == hooks.focus /\ Handle(Rendered(Editing(hooks, Null, Null)), calls)
Refocus     == EditorShown(hooks) /\ ~hooks.focus /\ Handle([hooks EXCEPT !.focus = TRUE], calls)

\* The saved value, in the entries that have the cell.
Patch(entries, e) ==
    IF entries = Null THEN Null
    ELSE [k \in DOMAIN entries |-> IF k = e.index THEN e.value ELSE entries[k]]

\* The finally clause closes the editor, whichever cell it is in by then.
EditOver(h) == Rendered(Editing(h, Null, Null))

Saved_BrowseOnly(i) ==
    /\ Settled(i) /\ calls[i].op = "exchange.setValue"
    /\ \/ /\ IsFulfilled(i)
          /\ Continue(EditOver([hooks EXCEPT !.tableData = Patch(@, calls[i].arg)]),
                      Without(i), Seen(Value(i).rev))
       \/ /\ ~IsFulfilled(i)
          /\ Continue(EditOver(hooks), Without(i), Disturbed)

Saved_OpenOnFailure(i) ==
    /\ Settled(i) /\ calls[i].op = "exchange.setValue"
    /\ \/ /\ IsFulfilled(i)
          /\ Continue(EditOver([hooks EXCEPT !.tableData = Patch(@, calls[i].arg),
                                             !.searchResults = Patch(@, calls[i].arg)]),
                      Without(i), Seen(Value(i).rev))
       \/ ~IsFulfilled(i) /\ Continue(hooks, Without(i), Disturbed)

Saved(i) ==
    /\ Settled(i) /\ calls[i].op = "exchange.setValue"
    /\ \/ /\ IsFulfilled(i)
          /\ Continue(EditOver([hooks EXCEPT !.tableData = Patch(@, calls[i].arg),
                                             !.searchResults = Patch(@, calls[i].arg)]),
                      Without(i), Seen(Value(i).rev))
       \/ /\ ~IsFulfilled(i)
          /\ Continue(EditOver(hooks), Without(i), Disturbed)

------------------------------------------------------------------------------
\* A spinner is on, a button is disabled, or the editor waits for its save.
Busy == hooks.loading \/ (EditorShown(hooks) /\ ~hooks.focus)

Clicks ==
    \/ \E t \in {"browse", "search", "live"} : SelectTab(t)
    \/ TypeQuery
    \/ \E byEnter \in BOOLEAN : handleSearch(byEnter)
    \/ \E c \in Cells : startEdit(c)
    \/ TypeValue \/ PressEnter \/ Blur \/ PressEscape \/ Refocus

Continuations == \E i \in DOMAIN calls : TableRead(i) \/ Saved(i)

Next == Clicks \/ Continuations

Init ==
    /\ hooks = InitialHooks /\ calls = MountCalls /\ hist = Undisturbed
    /\ world = InitialWorld /\ events = MaxEvents

Spec == Init /\ [][Next \/ Answer]_pageVars

------------------------------------------------------------------------------
\* Every save in flight carries a value that was read from its own cell or
\* typed into it, although another cell may have been opened, and the editor
\* closed by the end of another save, since (startEdit, saveEdit): the index
\* and the value always change together.
SavesStayInTheirCell ==
    \A i \in DOMAIN calls :
        calls[i].op = "exchange.setValue" =>
            /\ calls[i].arg.value # Null
            /\ calls[i].arg.value.cell = calls[i].arg.index

\* An editor on the screen that has not the focus is one whose save is in
\* flight: a save that fails closes it as well (saveEdit, finally), and one that
\* went with its row, when a search was answered without the cell, has the
\* focus again when the row is back.
EditorClosesAfterSave ==
    EditorShown(hooks) /\ ~hooks.focus =>
        \E i \in DOMAIN calls : calls[i].op = "exchange.setValue"

\* At rest, both tables show what the control plane holds, if nobody else
\* changes it, no call failed and no answer overtook a newer one: a save
\* corrects the browse table and the rows that were found, whichever is open.
TablesAgree ==
    calls = <<>> /\ ~hist.disturbed =>
        /\ hooks.tableData = world.table
        /\ hooks.searchResults # Null =>
              \A k \in DOMAIN hooks.searchResults : hooks.searchResults[k] = world.table[k]
=============================================================================
