---------------------------- MODULE MCResolvePort ----------------------------
(* Instances of ResolvePort for TLC. *)
EXTENDS MCResolver, ResolvePort

(* A row of one chapter, a combined milestone when it ends after it starts. *)
Row(v, part, hi) == [c |-> 1, v |-> v, part |-> part,
                     range |-> IF hi = v THEN None ELSE RefRange(1, v, hi)]

(* Every verse by itself; a milestone; parts; a verse no row stores. *)
MCPlain == <<Row(1, None, 1), Row(2, None, 2), Row(3, None, 3)>>
MCTables == {
    MCPlain,
    <<Row(1, None, 2), Row(3, None, 3)>>,
    <<Row(1, "a", 1), Row(1, "b", 1), Row(2, None, 2)>>,
    <<Row(1, None, 1), Row(3, None, 3)>>}
MCAsks == {[ref |-> RefRange(1, 2, 2), part |-> None],
           [ref |-> RefRange(1, 1, 1), part |-> "a"],
           [ref |-> RefRange(1, 2, 2), part |-> "a"],
           [ref |-> RefRange(1, 1, 3), part |-> None]}

MCResolverAsks == {[ref |-> RefRange(1, 1, 1), part |-> None],
                   [ref |-> RefRange(1, 2, 2), part |-> None],
                   [ref |-> RefRange(1, 1, 1), part |-> "a"],
                   [ref |-> RefRange(1, 1, 2), part |-> None]}
MCAllAsks == MCAsks \cup MCResolverAsks

SplitRow2 == {s \in OneRow2 : s[1].relation \in {"split", "merge"}
                               /\ s[1].base # None}
MCPortChains ==
    {Chain(<<a>>, <<>>) : a \in OneRow2 \cup SplitRow3} \cup {Chain(<<>>, <<>>)}
    \cup {Chain(<<a>>, <<b>>) : a \in SplitRow2, b \in SplitRow2}

MCAllChains == MCChains \cup MCPortChains

(* What a change in the middle of a chapter leaves. *)
MCChanged == {None, Chain(<<>>, <<>>)}

MCPortVerses == [c : {1}, v : 1 .. 3, part : {None, "a", "b"}]

(* The resolver by itself: the schemes of MCResolver between texts that store *)
(* every verse by itself.  With the text: the schemes of this module between *)
(* every two texts, for a reference and for a chapter.                       *)
MCInit ==
    /\ \/ chains \in MCPortChains
       \/ /\ chains \in MCChains \ MCPortChains /\ endpoint = "single"
          /\ source_rows = MCPlain /\ target_rows = MCPlain
    /\ PortInit
    /\ endpoint = "single" =>
            asked[1] \in IF chains \in MCPortChains THEN MCAsks ELSE MCResolverAsks

MCSpec == MCInit /\ [][PortNext]_<<vars, portVars>>
=============================================================================
