----------------------------- MODULE MCResolver -----------------------------
(* Instances of Resolver for TLC: one chapter of two or three verses, and    *)
(* every scheme of one or two mapping rows that ingest derives over it.      *)
EXTENDS Resolver

RefsTo(n) == {r \in [c : {1}, lo : 1 .. n, hi : 1 .. n] : r.lo <= r.hi}
Single(n) == {r \in RefsTo(n) : width(r) = 0}
Long(n) == RefsTo(n) \ Single(n)

(* One line of an ingredient.  A merge or a split lists its reference beside *)
(* the mappedVerses entry that gives its base.                               *)
Entry(kind, source, base) == [kind |-> kind, source |-> source, base |-> base]
Entries(n) ==
    {Entry("mapped", s, b) : s \in RefsTo(n), b \in RefsTo(n)}
    \cup {Entry("excluded", s, None) : s \in Single(n)}
    \cup {Entry("merged", s, b) : s \in Long(n), b \in Single(n) \cup {None}}
    \cup {Entry("split", s, b) : s \in Single(n), b \in Long(n)}
    \cup {Entry("partial", s, None) : s \in Single(n)}

Ingredient(entries) ==
    LET Of(kind) == SelectSeq(entries, LAMBDA e : e.kind = kind)
        Refs(kind) == [i \in DOMAIN Of(kind) |-> Of(kind)[i].source]
    IN  [mapped   |-> SelectSeq(entries, LAMBDA e : e.base # None),
         excluded |-> Refs("excluded"),
         merged   |-> Refs("merged"),
         split    |-> Refs("split"),
         partial  |-> [i \in DOMAIN Refs("partial") |->
                        [source |-> Refs("partial")[i], part |-> "a"]]]

(* The schemes of k rows; no reference is listed twice. *)
Schemes(n, k) ==
    {derive_mapping_records(Ingredient(s)) :
        s \in {t \in [1 .. k -> Entries(n)] :
                \A i, j \in 1 .. k : i # j => t[i].source # t[j].source}}
OneRow2 == Schemes(2, 1)
TwoRows2 == Schemes(2, 2)
OneRow3 == Schemes(3, 1)
WideRow3 == {s \in OneRow3 : RefRange(1, 1, 3) \in {s[1].source, s[1].base}}
SplitRow3 == {s \in OneRow3 : s[1].relation \in {"split", "merge"}}

Chain(src, tgt) == [srcHops |-> src, tgtHops |-> tgt]

(* Two rows in one hop, one row in each of two hops on either side or across *)
(* the ancestor, and a row over three verses against a row over two.         *)
MCChains ==
    {Chain(<<a>>, <<>>) : a \in TwoRows2} \cup {Chain(<<>>, <<a>>) : a \in TwoRows2}
    \cup {Chain(<<a, b>>, <<>>) : a \in OneRow2, b \in OneRow2}
    \cup {Chain(<<>>, <<a, b>>) : a \in OneRow2, b \in OneRow2}
    \cup {Chain(<<a>>, <<b>>) : a \in OneRow2, b \in OneRow2 \cup WideRow3}
    \cup {Chain(<<a>>, <<b>>) : a \in WideRow3, b \in OneRow2}

MCMemberSets ==
    {expand(RefRange(1, 1, 1), None), expand(RefRange(1, 2, 2), None),
     expand(RefRange(1, 1, 3), None), expand(RefRange(1, 1, 1), "a")}

MCVerses == [c : {1}, v : 1 .. 3, part : {None, "a"}]

(* Combined verses on both sides of the ancestor. *)
MCSplitChains == {Chain(<<a>>, <<b>>) : a \in SplitRow3, b \in SplitRow3}
=============================================================================
