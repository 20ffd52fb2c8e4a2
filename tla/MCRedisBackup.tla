---------------------------- MODULE MCRedisBackup ----------------------------
(***************************************************************************)
(* Instances of RedisBackup for TLC: one key of each type; a database in   *)
(* which all of them exist, and an older backup.                           *)
(***************************************************************************)
EXTENDS RedisBackup, TLC

Order == <<"actions", "exchange", "connected", "members">>

Only(f, v) == [g \in Fields |-> IF g = f THEN v ELSE Absent]

Now ==
  [k \in Keys |-> CASE k \in Lists   -> <<"b">>
                    [] k \in Hashes  -> Only("0", "on")
                    [] k \in Strings -> "on"
                    [] k \in Sets    -> {"a"}]

Older ==
  [k \in Keys |-> CASE k \in Lists   -> <<"a", "b">>
                    [] k \in Hashes  -> Only("1", "on")
                    [] k \in Strings -> ""
                    [] k \in Sets    -> {"a", "b"}]

\* Which request is which makes no difference.
Symmetry == Permutations(Requests)
=============================================================================
