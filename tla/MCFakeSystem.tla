---------------------------- MODULE MCFakeSystem -----------------------------
(* A small instance of FakeSystem. *)
EXTENDS FakeSystem, TLC

CONSTANTS s1, s2, g1, g2, t1, t2, e1

TwoSystems == {s1, s2}
TwoRegs == {g1, g2}
TwoEmitters == {t1, t2}
OneEvent == {e1}
AllFaults == FaultKinds

\* Objects and threads of one kind are interchangeable.
Symmetry == Permutations(Systems) \cup Permutations(Regs) \cup Permutations(Emitters)
=============================================================================
