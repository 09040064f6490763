------------------------------ MODULE MCQueries ------------------------------
(* A small instance of Queries. *)
EXTENDS Queries, TLC

CONSTANTS k1, k2, k3

ThreeCameras == {k1, k2, k3}
\* Every text up to one byte longer than the buffer.
ShortTexts == UNION {[1 .. n -> Bytes] : n \in 0 .. BufSize + 1}
\* The codes of the header, its gap at -38 and two it does not have.
AllCodes == ({1, 7} \cup {-n : n \in 1 .. 42})

CameraSymmetry == Permutations(CameraIds)
=============================================================================
