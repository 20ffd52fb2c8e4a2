-------------------------- MODULE MCControlPlaneUI ---------------------------
(***************************************************************************)
(* Small instances of the user interface for TLC.                          *)
(***************************************************************************)
EXTENDS ControlPlaneUIProperties

MCGroups == <<"g1", "g2">>

\* Clicks, keys and changes by others in a behaviour that starts on a page.
MCBudget ==
    [dashboard |-> 4, actions |-> 3, exchange |-> 4, logs |-> 4, redis |-> 3,
     versions |-> 3, metrics |-> 3, alerts |-> 3, clients |-> 2, system |-> 2]
=============================================================================
