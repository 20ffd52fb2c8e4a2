-------------------------- MODULE MCServiceUpdate --------------------------
(***************************************************************************)
(* Instances of ServiceUpdate for TLC.  ImageList returns the newest image *)
(* first: the tags of the instances were built in the order v1, v2, v3;    *)
(* in LatestLast the tag "latest" is on an old image.                      *)
(***************************************************************************)
EXTENDS ServiceUpdateProperties, TLC

NewestFirst == <<"v3", "v2", "v1">>
LatestLast == <<"v2", "v1", "latest">>
NewestOfTwo == <<"v2", "v1">>

\* Which request is which makes no difference.
Symmetry == Permutations(Requests)
=============================================================================
