----------------------------- MODULE BatchRequests ----------------------------
(* The requests of the batch endpoints and the answers they carry, in the     *)
(* words the promise and the program share.                                   *)
(*                                                                            *)
(* A verse is <<book, chapter, verse>>, the book a number in USX order.  The  *)
(* catalog is a counter of the commits that change an answer: of schemes,    *)
(* chains, associations and stored text.  An answer names the versions        *)
(* between which everything it was computed from was read: each statement of  *)
(* a request or of a build sees what is committed when it runs.               *)
EXTENDS Integers, FiniteSets, Sequences

CONSTANTS
    None,           \* what a bound or a page leaves open
    Texts,          \* catalog version -> the stored rows: [at, hi]
    Requests,       \* the requests a client may make
    DEFAULT_LIMIT, MAX_LIMIT

Versions == DOMAIN Texts

ASSUME VersionsAssumption ==
    /\ 0 \in Versions /\ Versions \subseteq Nat
    /\ DEFAULT_LIMIT \in Nat \ {0} /\ MAX_LIMIT \in Nat \ {0}

MaxBound == 1000    \* above every chapter and verse

Coordinates == {x \in [1 .. 3 -> Nat] : x[2] < MaxBound /\ x[3] < MaxBound}

ASSUME TextsAssumption == \A v \in Versions :
    /\ IsFiniteSet(Texts[v])
    /\ \A row \in Texts[v] : row.at \in Coordinates /\ row.hi \in 0 .. (MaxBound - 1)

(* A member of a request is [kind, at, hi]: a stored verse, one with spaces  *)
(* around it ("padded"), several verses ("range"), or no reference ("bad").  *)
Verse(at) == [kind |-> "verse", at |-> at, hi |-> at[3]]

Answer(ref, first, last) == [of |-> ref, first |-> first, last |-> last]
Error == [of |-> None, first |-> 0, last |-> 0]

(* The verses of a version of the text, those inside milestones included. *)
StoredVerses(version) ==
    UNION {{<<row.at[1], row.at[2], v>> : v \in row.at[3] .. row.hi} :
            row \in Texts[version]}

(* What is asked for, one by one or as stored. *)
Members ==
    (UNION {{req.refs[i] : i \in DOMAIN req.refs} :
            req \in {r \in Requests : r.endpoint = "verses"}})
    \cup {Verse(x) : x \in UNION {StoredVerses(v) : v \in Versions}}

Bounds == [book : Nat, chapter : 0 .. (MaxBound - 1) \cup {None},
           verse : 0 .. (MaxBound - 1) \cup {None}]

ASSUME RequestsAssumption ==
    /\ None \notin Int
    /\ \A r \in Members : /\ r.kind \in {"verse", "padded", "range", "bad"}
                          /\ r.kind = "verse" => r = Verse(r.at)
    /\ \A req \in Requests :
        \/ req.endpoint = "verses" /\ req.refs \in Seq(Members)
        \/ /\ req.endpoint = "range" /\ req.from \in Bounds /\ req.to \in Bounds
           /\ {req.limit, req.offset} \subseteq Int \cup {None}
=============================================================================
