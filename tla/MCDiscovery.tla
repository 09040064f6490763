----------------------------- MODULE MCDiscovery -----------------------------
(* A small instance of Discovery. *)
EXTENDS Discovery, TLC

CONSTANTS g1, g2, camA, camB

TwoRegs == {g1, g2}
TwoCameraIds == {camA, camB}
OneKind == {"Detected"}
\* Two events without camera or type in common, one of a type that is not known.
TwoEvents == {<<camA, "Detected">>, <<camB, Unknown>>}
AllFaults == FaultKinds
=============================================================================
