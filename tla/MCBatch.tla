------------------------------ MODULE MCBatch --------------------------------
(* An instance of BatchResolve for TLC: a text whose second version has lost *)
(* a verse, one build at a time, one request.                                *)
EXTENDS BatchResolve

Stored(book, verse, hi) == [at |-> <<book, 1, verse>>, hi |-> hi]
MCTexts == [v \in 0 .. 1 |->
    IF v = 0 THEN {Stored(1, 1, 2)} ELSE {Stored(1, 2, 2)}]

Padded == [kind |-> "padded", at |-> <<1, 1, 2>>, hi |-> 2]
Both == [kind |-> "range", at |-> <<1, 1, 1>>, hi |-> 2]

Bound(book, chapter, verse) == [book |-> book, chapter |-> chapter, verse |-> verse]
Window(from, to, limit, offset) ==
    [endpoint |-> "range", from |-> from, to |-> to, limit |-> limit,
     offset |-> offset]
Listed(members) == [endpoint |-> "verses", refs |-> members]

(* Two that are answered, two that are refused. *)
MCRequests == {
    Listed(<<Both, Padded>>),
    Window(Bound(1, 1, None), Bound(2, None, None), 1, 1),
    Listed(<<>>),
    Window(Bound(1, 1, 2), Bound(1, 1, 1), None, -1)}

(* After the response nothing reads what the writers do. *)
UntilAnswered == served < MaxRequests \/ call # NoCall
=============================================================================
