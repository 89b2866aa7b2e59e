---------------------------- MODULE MCDaoStorage ----------------------------
(* DaoStorage on small instances. *)
EXTENDS DaoStorage, TLC

CONSTANTS k1, k2

OneBatch == {<<k1, k2>>}
NoBatch == {}
ShortBatch == {<<k1>>}
CallerSymmetry == Permutations(Callers)
=============================================================================
