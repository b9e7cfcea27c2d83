----------------------------- MODULE MCIndexing -----------------------------
(***************************************************************************)
(* Instance of Indexing for TLC.  Translation t1 is numbered by s1, a       *)
(* versification based on t2; t2 is a numbering space of its own with two   *)
(* schemes to prefer, s2 and s3.                                            *)
(***************************************************************************)
EXTENDS Indexing, TLC

CONSTANTS t1, t2, s1, s2, s3

MCTranslations == {t1, t2}
MCSchemes == {s1, s2, s3}
MCBasedOn == s1 :> t2 @@ s2 :> None @@ s3 :> None
MCAssociated == t1 :> {s1} @@ t2 :> {s2, s3}
MCPreferred0 == t1 :> s1 @@ t2 :> s2

\* Index ids are interchangeable (safety runs only).
IdSymmetry == Permutations(Ids)
=============================================================================
