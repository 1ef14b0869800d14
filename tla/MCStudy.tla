------------------------------- MODULE MCStudy -------------------------------
(* OssEvaluation on a small instance; writers differ in nothing.  An edit may  *)
(* turn the files of a case into those of a success.                         *)
EXTENDS OssEvaluation, TLC

WriterSymmetry == Permutations(Writers)

Successes == {f \in GuardEnds : Successful(f)}
=============================================================================
