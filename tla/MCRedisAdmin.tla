---------------------------- MODULE MCRedisAdmin ----------------------------
(***************************************************************************)
(* Instances of RedisAdmin for TLC; the .cfg files give the constants.     *)
(***************************************************************************)
EXTENDS RedisAdminProperties, TLC

\* Which request is which makes no difference.
Symmetry == Permutations(Requests)
=============================================================================
