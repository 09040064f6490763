------------------------- MODULE MCRuntimeLifecycle -------------------------
(* Small instances of RuntimeLifecycle. *)
EXTENDS RuntimeLifecycle, TLC

CONSTANTS s1, s2, s3, c1, c2, r1, r2

ThreeSystems == {s1, s2, s3}
TwoCameras == {c1, c2}
TwoRaws == {r1, r2}
StartupFaults == {"startup"}

=============================================================================
