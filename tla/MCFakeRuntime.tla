---------------------------- MODULE MCFakeRuntime ----------------------------
(* Small instances of FakeRuntime. *)
EXTENDS FakeRuntime, TLC

CONSTANTS c1, c2

OneCamera == {c1}
TwoCameras == {c1, c2}
OneMethod == {"announce"}

\* The two cameras are interchangeable.
CameraSymmetry == Permutations(Cameras)
=============================================================================
