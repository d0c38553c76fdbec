---------------------------- MODULE MCNasServer ----------------------------
(***************************************************************************)
(* Instances of NasServer.  Two devices, two paths that form one           *)
(* directory, two versions; each configuration turns on a group of         *)
(* commands, so that every group is explored with kills, restarts and      *)
(* failing steps.                                                          *)
(***************************************************************************)
EXTENDS NasServer

CONSTANTS d1, d2, p1, p2, v1, v2

TwoDevices == {d1, d2}
TwoPaths == {p1, p2}
TwoVersions == {v1, v2}
DeviceSymmetry == Permutations(TwoDevices)

\* Browse-delete a file or the directory; rename a file over the other's name.
SomeTrees == {{p1}, {p1, p2}}
SomeRenames == {p1 :> p2}
NoRenames == {}
NoTrees == {}

\* Delete both files in one request.
BothDeleted == {p1 :> v2 @@ p2 :> v1}
NoDeletes == {}

\* Publish two new files in one batch.
OneBatch == {p1 :> v2 @@ p2 :> v1}
NoBatches == {}
=============================================================================
