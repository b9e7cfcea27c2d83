----------------------------- MODULE MCCatalog -----------------------------
(***************************************************************************)
(* Instance of Catalog for TLC.  The package ships org and eng; p is an    *)
(* ingested project, t3 with its scheme s3; q is an uploaded scheme, s4,    *)
(* which t3 is associated with too.  i1 is the defaulted index of t3; i2    *)
(* is pinned to s3 by t2, which has been dissociated from s3 since.        *)
(***************************************************************************)
EXTENDS Catalog, TLC

CONSTANTS org, eng, p, q, t1, t2, t3, t4, s1, s2, s3, s4, s5, i1, i2, i3

MCNames == {org, eng, p, q}
MCTranslations == {t1, t2, t3, t4}
MCSchemes == {s1, s2, s3, s4, s5}
MCIds == {i1, i2, i3}

NoTranslation == [state |-> "none", name |-> None, anchor |-> FALSE]
NoScheme == [state |-> "none", name |-> None, canonical |-> FALSE, base |-> None,
             ingredient |-> None, rows |-> None, source |-> None]
NoIndex == [state |-> "none", tr |-> None, scheme |-> None, explicit |-> FALSE]
Seed(s, n, b) == [state |-> "live", name |-> n, canonical |-> TRUE, base |-> b,
                  ingredient |-> Packaged(n, 1), rows |-> Packaged(n, 1),
                  source |-> Packaged(n, 1)]

MCStart ==
    [tr |-> t1 :> [state |-> "live", name |-> org, anchor |-> TRUE]
         @@ t2 :> [state |-> "live", name |-> eng, anchor |-> TRUE]
         @@ t3 :> [state |-> "live", name |-> p, anchor |-> FALSE]
         @@ t4 :> NoTranslation,
     sch |-> s1 :> Seed(s1, org, None) @@ s2 :> Seed(s2, eng, t1)
         @@ s3 :> IngestedScheme(s3, p, t1)
         \* a scheme ingested before sources were kept
         @@ s4 :> [IngestedScheme(s4, q, t1) EXCEPT !.source = None]
         @@ s5 :> NoScheme,
     assoc |-> {<<t1, s1>>, <<t2, s2>>, <<t3, s3>>, <<t3, s4>>},
     pref |-> t1 :> s1 @@ t2 :> s2 @@ t3 :> s3 @@ t4 :> None,
     idx |-> i1 :> [state |-> "live", tr |-> t3, scheme |-> s3, explicit |-> FALSE]
         @@ i2 :> [state |-> "live", tr |-> t2, scheme |-> s3, explicit |-> TRUE]
         @@ i3 :> NoIndex]

\* Requests are interchangeable.
RequestSymmetry == Permutations(Requests)
=============================================================================
