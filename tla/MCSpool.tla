------------------------------ MODULE MCSpool ------------------------------
(* Instances of Spool small enough for TLC. *)
EXTENDS Spool, TLC

MCExpectedSizes == {-1, 2}

UploadSymmetry == Permutations(Uploads)
=============================================================================
