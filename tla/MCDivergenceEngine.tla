-------------------------- MODULE MCDivergenceEngine --------------------------
(* Instances of DivergenceEngine for TLC: a book of two chapters, its         *)
(* alternate form and a third book; documents with up to two mapping lines of *)
(* every kind, exclusions, bridges, parts and texts with gaps and milestones. *)
EXTENDS DivergenceEngine

Verses(book, chapter, lo, hi) ==
    [book |-> book, chapter |-> chapter, lo |-> lo, hi |-> hi, part |-> FALSE]
At(book, chapter, verse) == Verses(book, chapter, verse, verse)
Line(from, to) == [from |-> from, to |-> to]
Part(range) == [range EXCEPT !.part = TRUE]

Swap == {Line(At(1, 1, 1), At(1, 1, 2)), Line(At(1, 1, 2), At(1, 1, 1))}
Rotate == {Line(Verses(1, 1, 1, 2), Verses(1, 1, 2, 3)), Line(At(1, 1, 3), At(1, 1, 1))}
Merge == {Line(Verses(1, 1, 1, 2), At(1, 1, 1))}
Split == {Line(At(1, 1, 2), Verses(1, 1, 2, 3)), Line(Part(At(1, 2, 1)), Verses(1, 2, 1, 2))}
Uneven == {Line(Verses(1, 1, 1, 3), Verses(1, 1, 1, 2)), Line(At(1, 2, 2), At(1, 1, 3))}
Title == {Line(At(1, 2, 0), At(1, 2, 1)), Line(At(1, 2, 1), At(1, 2, 2))}
Move == {Line(At(1, 1, 3), At(1, 2, 1)), Line(Verses(1, 2, 1, 2), Verses(1, 2, 2, 3))}
Alternate == {Line(At(2, 1, 1), At(1, 1, 1)), Line(At(2, 1, 2), At(1, 1, 2))}
Third == {Line(At(3, 1, 1), At(1, 1, 1)), Line(At(3, 1, 9), At(1, 1, 2)),
          Line(At(1, 1, 2), At(1, 1, 0)), Line(Verses(1, 1, 2, 1), At(1, 2, 1))}

One == 1 :> <<3, 2>>
Two == One @@ 2 :> <<2>>
All == Two @@ 3 :> <<1, 1>>
Longer == 1 :> <<3, 3>> @@ 3 :> <<1, 2>>

(* A document has a line once. *)
Lines(groups) ==
    {x \cup y : <<x, y>> \in {p \in groups \X groups :
        \A k \in p[1], l \in p[2] : k.from = l.from => k = l}}

Doc(max, mapped) ==
    [max |-> max, excluded |-> {}, merged |-> <<>>, partial |-> {},
     mapped |-> mapped, vrs |-> {}, has_vrs |-> FALSE]

Plain ==
    {Doc(One, x) : x \in Lines({{}, Swap, Rotate, Merge, Split, Uneven, Title, Move})}
    \cup {Doc(Two, x) : x \in {{}, Alternate, Alternate \cup Merge}}
    \cup {Doc(All, x) : x \in {{}, Third, Third \cup Alternate}}
    \cup {Doc(One, {Line(At(1, 1, 3), At(1, 1, 1))}), Doc(Longer, Move), Doc(3 :> <<1>>, {}),
          Doc(1 :> <<1>> @@ 2 :> <<2>>, {Line(At(2, 1, 1), At(1, 1, 1))})}

(* With a supplement, exclusions, bridges and parts. *)
Rich ==
    {[Doc(One, Merge) EXCEPT !.vrs = Merge \cup Split, !.has_vrs = TRUE],
     [Doc(One, Swap) EXCEPT !.excluded = {<<1, 1, 1>>, <<1, 2, 2>>},
         !.merged = <<Verses(1, 1, 2, 3)>>],
     [Doc(Two, Rotate) EXCEPT !.partial = {<<<<1, 1, 1>>, "a">>},
         !.merged = <<Verses(1, 2, 1, 2)>>]}

Stored(book, chapter, verse, part, hi) ==
    [book |-> book, chapter |-> chapter, verse |-> verse, part |-> part, hi |-> hi]
Gaps == {Stored(1, 1, 1, "", 2), Stored(1, 1, 3, "a", 3), Stored(1, 2, 1, "", 1),
         Stored(1, 2, 7, "", 7)}
Scattered == {Stored(1, 1, 2, "", 2), Stored(1, 2, 1, "", 1), Stored(3, 1, 1, "", 1)}

MCSides == [doc : Plain, spans : {{}, Scattered}]
    \cup [doc : Rich \cup {Doc(One, Split), Doc(Two, Alternate)},
          spans : {{}, Gaps, Scattered}]
MCOrgs == {Doc(All, {}), Doc(One, {Line(At(1, 1, 2), At(1, 1, 3))})}
=============================================================================
