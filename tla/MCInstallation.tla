-------------------------- MODULE MCInstallation --------------------------
(***************************************************************************)
(* Two commands at a time, two versions, the bundled extension and one of  *)
(* an application builder, the manifests of two browsers.                  *)
(***************************************************************************)
EXTENDS Installation, TLC

CONSTANTS p1, p2, bundled, custom, m1, m2

TwoVersions == {1, 2}
TwoManifests == <<m1, m2>>
AnyProc == Permutations(Proc)
=============================================================================
