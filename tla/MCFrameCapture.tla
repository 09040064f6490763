--------------------------- MODULE MCFrameCapture ---------------------------
(***************************************************************************)
(* Instances of FrameCapture for TLC.                                      *)
(***************************************************************************)
EXTENDS FrameCapture, TLC

CONSTANTS c1, c2

OneCamera == {c1}
TwoCameras == {c1, c2}

\* The two cameras are alike in every safety property.
CameraSymmetry == Permutations({c1, c2})

\* The failures start_capture meets; with those of the teardown and of the
\* trampoline; and a failing VmbFrameRevokeAll as well.
StartFaults == {"open", "announce", "start", "queue", "acquire", "acqstop"}
SurvivedFaults == StartFaults \cup {"end", "flush", "requeue", "panic"}
EveryFault == FaultKinds
=============================================================================
