--------------------------- MODULE DivergenceScheme ---------------------------
(* One side of a divergence report: a scheme document as the engine loads it  *)
(* (divergence/scheme.py) and what the stored text of the translation changes *)
(* in it (divergence/text_facts.py).                                          *)
(*                                                                            *)
(* A verse is <<book, chapter, verse>>, the book its place in the catalog, so *)
(* that verse_pos is the order of tuples.  A document is [max, excluded,      *)
(* merged, partial, mapped, vrs, has_vrs]; a mapping line is [from, to], each *)
(* a range [book, chapter, lo, hi, part].  Warnings are left out, but for     *)
(* those that reach a relation.                                               *)
EXTENDS Integers, Sequences, SequencesExt

(* verse_pos, first and last verse of a set. *)
Before(x, y) ==
    \/ x[1] < y[1]
    \/ x[1] = y[1] /\ x[2] < y[2]
    \/ x[1] = y[1] /\ x[2] = y[2] /\ x[3] < y[3]

FirstOf(verses) == CHOOSE x \in verses : \A y \in verses \ {x} : Before(x, y)
LastOf(verses) == CHOOSE x \in verses : \A y \in verses \ {x} : Before(y, x)

(* sorted(): the elements of a set in an order, given as the pairs the first  *)
(* of which comes sooner; the elements of a sequence at some places.          *)
InOrder(S, sooner) ==
    [i \in 1 .. Cardinality(S) |->
        CHOOSE x \in S : Cardinality({y \in S : <<y, x>> \in sooner}) = i - 1]
Sorted(verses) == InOrder(verses, {p \in verses \X verses : Before(p[1], p[2])})
Increasing(numbers) ==
    InOrder(numbers, {p \in numbers \X numbers : p[1] < p[2]})
Pick(seq, places) ==
    [i \in 1 .. Cardinality(places) |-> seq[Increasing(places)[i]]]

-----------------------------------------------------------------------------
(* What the parser of a document and the stored text can hold: finitely many *)
(* lines and verses, named by natural numbers.                               *)
RefOK(ref) == {ref.book, ref.chapter, ref.lo, ref.hi} \subseteq Nat
DocOK(doc) ==
    /\ doc = [max |-> doc.max, excluded |-> doc.excluded, merged |-> doc.merged,
              partial |-> doc.partial, mapped |-> doc.mapped, vrs |-> doc.vrs,
              has_vrs |-> doc.has_vrs]
    /\ DOMAIN doc.max \subseteq Nat /\ IsFiniteSet(DOMAIN doc.max)
    /\ \A book \in DOMAIN doc.max : doc.max[book] \in Seq(Nat)
    /\ IsFiniteSet(doc.mapped \cup doc.vrs) /\ doc.has_vrs \in BOOLEAN
    /\ \A line \in doc.mapped \cup doc.vrs : RefOK(line.from) /\ RefOK(line.to)
    /\ doc.merged \in Seq(ToSet(doc.merged)) /\ \A r \in ToSet(doc.merged) : RefOK(r)
SideOK(side) ==
    /\ DocOK(side.doc) /\ IsFiniteSet(side.spans)
    /\ \A s \in side.spans : {s.book, s.chapter, s.verse, s.hi} \subseteq Nat

(* A scheme: max, the verses of each chapter of a book; excluded, bridges and *)
(* segments of the document; edges, the org verses a verse maps to; flags of  *)
(* the edges of a verse; omissions, the verses the text skips.                *)
_exists(max, x) ==
    /\ x[1] \in DOMAIN max
    /\ x[2] \in DOMAIN max[x[1]]
    /\ x[3] \in 1 .. max[x[1]][x[2]]

Width(range) == range.hi - range.lo + 1
Reversed(line) == Width(line.from) < 1 \/ Width(line.to) < 1

(* Unequal ranges of several verses: by position, the shorter one's last     *)
(* verse again and again.                                                    *)
Unequal(line) ==
    /\ Width(line.from) # Width(line.to)
    /\ 1 \notin {Width(line.from), Width(line.to)}

PairsOf(line) ==
    LET VerseOf(r, i) == <<r.book, r.chapter, Min({r.lo + i, r.hi})>>
        All(r) == {VerseOf(r, i) : i \in 0 .. (Width(r) - 1)}
    IN  IF Width(line.from) = Width(line.to) \/ Unequal(line)
        THEN {<<VerseOf(line.from, i), VerseOf(line.to, i)>> :
                i \in 0 .. (Max({Width(line.from), Width(line.to)}) - 1)}
        ELSE All(line.from) \X All(line.to)

FlagsOfLine(line, provenance) ==
    {f \in {"segment", "vrs", "approx", "warn"} :
        CASE f = "segment" -> line.from.part \/ line.to.part
          [] f = "vrs" -> provenance = "vrs"
          [] OTHER -> Unequal(line)}

(* Mutant of _add: a mapping from a verse the maxima do not list is kept. *)
AddUndefined(max, line) == {p \in PairsOf(line) : p[2][3] # 0}

(* No edge leads to a title, none starts at a verse the maxima do not list. *)
_add(max, line) ==
    {p \in PairsOf(line) : /\ ~ Reversed(line) /\ p[2][3] # 0
                           /\ p[1][3] = 0 \/ _exists(max, p[1])}

load_scheme(doc) ==
    LET Flags(lines, provenance) ==
            UNION {{p[1] : p \in _add(doc.max, line)} \X FlagsOfLine(line, provenance) :
                    line \in lines}
    IN  [max |-> doc.max, excluded |-> doc.excluded,
         bridges |-> Pick(doc.merged, {i \in DOMAIN doc.merged :
                                        doc.merged[i].hi > doc.merged[i].lo}),
         segments |-> doc.partial, omissions |-> {}, has_vrs |-> doc.has_vrs,
         edges |-> UNION {_add(doc.max, line) : line \in doc.mapped \cup doc.vrs},
         flags |-> Flags(doc.mapped, "json") \cup Flags(doc.vrs \ doc.mapped, "vrs")]

(* The chapters of the maxima, and verse 0 of a chapter if it is mapped. *)
verses(scheme) ==
    LET chapters == UNION {{<<b, c>> : c \in DOMAIN scheme.max[b]} :
                            b \in DOMAIN scheme.max}
        In(bc) == {<<bc[1], bc[2], v>> : v \in 1 .. scheme.max[bc[1]][bc[2]]}
        titles == {e \in scheme.edges :
                    e[1][3] = 0 /\ <<e[1][1], e[1][2]>> \in chapters}
    IN  {e[1] : e \in titles} \cup UNION {In(bc) : bc \in chapters}

Mapped(scheme, x) == {e[2] : e \in {y \in scheme.edges : y[1] = x}}
IsDefault(scheme, x) == Mapped(scheme, x) = {}

(* A verse without an edge is itself in org. *)
to_org(scheme, x) == IF IsDefault(scheme, x) THEN {x} ELSE Mapped(scheme, x)

-----------------------------------------------------------------------------
(* Books the text does not contain drop out, verses it skips are omissions.  *)
(* A stored verse is [book, chapter, verse, part, hi]; hi > verse makes it a *)
(* combined milestone, of which only the first verse counts as covered.      *)
apply_text_facts(scheme, spans) ==
    LET max == [b \in DOMAIN scheme.max \cap {s.book : s \in spans} |->
                    scheme.max[b]]
        At(s) == <<s.book, s.chapter, s.verse>>
        inside == {s \in spans : _exists(max, At(s))}
        omitted == {x \in verses([scheme EXCEPT !.max = max]) :
                        x[3] # 0 /\ x \notin {At(s) : s \in inside}}
        Combined(s) == [book |-> s.book, chapter |-> s.chapter,
                        lo |-> s.verse, hi |-> s.hi]
    IN  IF spans = {} THEN scheme
        ELSE [scheme EXCEPT
                !.max = max,
                !.segments = @ \cup {<<At(s), s.part>> :
                                s \in {x \in inside : x.part # ""}},
                !.bridges = @ \o SetToSeq({Combined(s) :
                                s \in {x \in inside : x.hi > x.verse}}),
                !.excluded = @ \cup omitted,
                !.omissions = @ \cup omitted]
=============================================================================
