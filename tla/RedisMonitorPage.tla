-------------------------- MODULE RedisMonitorPage ---------------------------
(***************************************************************************)
(* The Redis monitor of the user interface                                 *)
(* (src/ui/src/pages/RedisMonitorPage.tsx, routes /redis-monitor and       *)
(* /backups): figures, keys, and the backup that is saved to a file and    *)
(* restored from one.                                                      *)
(***************************************************************************)
EXTENDS ApiClient

InitialHooks ==
    [page |-> "redis", activeTab |-> "overview", info |-> Null, keys |-> Null,
     loading |-> TRUE, backingUp |-> FALSE, restoring |-> FALSE]

InfoCall   == Call("redis.info", Null)
KeysCall   == Call("redis.keys", Null)
MountCalls == <<InfoCall>>

\* hist.entered is the restore last known done when the keys tab was entered.
NoRestore == [acked |-> 0, seen |-> 0, disturbed |-> FALSE, entered |-> 0]

TypeOK ==
    /\ hooks.activeTab \in {"overview", "keys", "backup"}
    /\ hooks.info \in [rev : Nat] \cup {Null} /\ hooks.keys \in [rev : Nat] \cup {Null}
    /\ hooks.loading \in BOOLEAN /\ hooks.backingUp \in BOOLEAN /\ hooks.restoring \in BOOLEAN
    /\ hist \in [acked : Nat, seen : Nat, disturbed : BOOLEAN, entered : Nat]

------------------------------------------------------------------------------
TabCalls_OverviewOnly(t) == IF t = "overview" THEN <<InfoCall>> ELSE <<>>

\* The effects of the tabs: the figures and the keys are read on entry.
TabCalls(t) ==
    CASE t = "overview" -> <<InfoCall>>
      [] t = "keys"     -> <<KeysCall>>
      [] OTHER          -> <<>>

SelectTab(t) ==
    /\ events > 0 /\ events' = events - 1
    /\ hooks.activeTab # t /\ Len(calls) < MaxCalls
    /\ hooks' = [hooks EXCEPT !.activeTab = t, !.loading = @ \/ TabCalls(t) # <<>>]
    /\ calls' = calls \o TabCalls(t)
    /\ hist' = IF t = "keys" THEN [hist EXCEPT !.entered = hist.acked] ELSE hist
    /\ UNCHANGED world

InfoRead(i) ==
    /\ Settled(i) /\ calls[i].op = "redis.info"
    /\ Continue([hooks EXCEPT !.info = IF IsFulfilled(i) THEN Value(i) ELSE Null,
                              !.loading = FALSE],
                Without(i), hist)

KeysRead(i) ==
    /\ Settled(i) /\ calls[i].op = "redis.keys"
    /\ \/ /\ IsFulfilled(i)
          /\ Continue([hooks EXCEPT !.keys = Value(i), !.loading = FALSE],
                      Without(i), Seen(Value(i).rev))
       \/ /\ ~IsFulfilled(i)
          /\ Continue([hooks EXCEPT !.keys = Null, !.loading = FALSE], Without(i), Disturbed)

------------------------------------------------------------------------------
handleBackup ==
    /\ hooks.activeTab = "backup" /\ ~hooks.backingUp
    /\ Handle([hooks EXCEPT !.backingUp = TRUE], Append(calls, Call("redis.backup", Null)))

\* What came is saved as the backup file, an error object too.
BackedUp(i) ==
    /\ Settled(i) /\ calls[i].op = "redis.backup"
    /\ hooks' = [hooks EXCEPT !.backingUp = FALSE]
    /\ calls' = Without(i)
    /\ world' = IF IsFulfilled(i) THEN [world EXCEPT !.files = @ \cup {Value(i)}] ELSE world
    /\ UNCHANGED <<hist, events>>

\* The user picks a saved file, or, Null, one that is not JSON.
handleRestore(f) ==
    /\ hooks.activeTab = "backup" /\ ~hooks.restoring
    /\ Handle([hooks EXCEPT !.restoring = TRUE], Append(calls, Call("file.text", f)))

FileRead_NotAwaited(i) ==
    /\ Settled(i) /\ calls[i].op = "file.text"
    /\ Continue([hooks EXCEPT !.restoring = FALSE],
                IF IsFulfilled(i) /\ Value(i) # Null
                THEN Append(Without(i), Call("redis.restore", Value(i))) ELSE Without(i),
                hist)

FileRead(i) ==
    /\ Settled(i) /\ calls[i].op = "file.text"
    /\ IF IsFulfilled(i) /\ Value(i) # Null
       THEN Continue(hooks, Append(Without(i), Call("redis.restore", Value(i))), hist)
       ELSE Continue([hooks EXCEPT !.restoring = FALSE], Without(i), hist)

\* The file input is only in the backup tab, so the activeTab the handler
\* closed over is never "keys" and it never reads the keys again.
RestoreDone(i) ==
    /\ Settled(i) /\ calls[i].op = "redis.restore"
    /\ Continue([hooks EXCEPT !.restoring = FALSE], Without(i),
                IF IsFulfilled(i) THEN Acked(Value(i).rev) ELSE hist)

------------------------------------------------------------------------------
\* A spinner is on, or a button is disabled.
Busy == hooks.loading \/ hooks.backingUp \/ hooks.restoring

Clicks ==
    \/ \E t \in {"overview", "keys", "backup"} : SelectTab(t)
    \/ handleBackup
    \/ \E f \in world.files \cup {Null} : handleRestore(f)

Continuations ==
    \E i \in DOMAIN calls :
        InfoRead(i) \/ KeysRead(i) \/ BackedUp(i) \/ FileRead(i) \/ RestoreDone(i)

\* Others write to the store.
Others == OthersChange(world)

Next == Clicks \/ Continuations \/ Others

Init ==
    /\ hooks = InitialHooks /\ calls = MountCalls /\ hist = NoRestore
    /\ world = InitialWorld /\ events = MaxEvents

Spec == Init /\ [][Next \/ Answer]_pageVars

------------------------------------------------------------------------------
\* The page has one restore on its way at most, from the choice of the file to
\* the answer, and takes no other file meanwhile: two restores that overlap mix
\* the elements of their lists (handleRestore, RestoreAll).
Restoring(c) == c.op \in {"file.text", "redis.restore"}

OneRestoreAtATime ==
    /\ hooks.restoring <=> \E i \in DOMAIN calls : Restoring(calls[i])
    /\ \A i, j \in DOMAIN calls : Restoring(calls[i]) /\ Restoring(calls[j]) => i = j

\* At rest, the keys tab shows the keys as of every restore the page knew done
\* when the tab was entered, unless an answer failed or was overtaken.  A
\* restore that ends after that is not shown (handleRestore, line 90).
KeysShowEarlierRestores ==
    calls = <<>> /\ ~hist.disturbed /\ hooks.activeTab = "keys" =>
        hooks.keys # Null /\ hooks.keys.rev >= hist.entered
=============================================================================
