---------------------------- MODULE CatalogProofs ----------------------------
(* What holds of the catalog for any translations, schemes, indexes, requests *)
(* and packages: the tables satisfy their schema at every commit, and the six *)
(* action properties of Catalog.                                             *)
EXTENDS Catalog, TLAPS

-----------------------------------------------------------------------------
(* The types, and the constraints of the schema one by one. *)
Typed ==
    /\ tr \in [Translations -> TranslationRows]
    /\ sch \in [Schemes -> SchemeRows]
    /\ pref \in [Translations -> Schemes \cup {None}]
    /\ idx \in [Ids -> IndexRowSet]
    /\ reclaim \subseteq Ids
    /\ req \in [Requests -> RequestRows]
    /\ package \in 1..MaxPackage
    /\ spent \in [calls : 0..MaxCalls, boots : 0..MaxBoots]

NamesDiffer == \A t, u \in LiveTr : t # u => tr[t].name # tr[u].name
SchemesOK == \A s \in LiveSch : sch[s].base \in LiveTr \cup {None} /\ sch[s].ingredient # None
AssociationsOK == assoc \subseteq LiveTr \X LiveSch
PreferredOK == \A t \in Translations : pref[t] # None => <<t, pref[t]>> \in assoc
IndexesOK == \A i \in LiveIdx : idx[i].tr \in LiveTr /\ idx[i].scheme \in LiveSch
PairsDiffer ==
    \A i, j \in LiveIdx :
        i # j => <<idx[i].tr, idx[i].scheme>> # <<idx[j].tr, idx[j].scheme>>

LEMMA TypeParts ==
    TypeOK <=> /\ Typed /\ NamesDiffer /\ SchemesOK /\ AssociationsOK /\ PreferredOK
               /\ IndexesOK /\ PairsDiffer
  BY DEF TypeOK, Typed, Consistent, NamesDiffer, SchemesOK, AssociationsOK, PreferredOK,
         IndexesOK, PairsDiffer, LiveTr, LiveSch, LiveIdx

LEMMA TypePartsNext ==
    TypeOK' <=> /\ Typed' /\ NamesDiffer' /\ SchemesOK' /\ AssociationsOK' /\ PreferredOK'
                /\ IndexesOK' /\ PairsDiffer'
  BY DEF TypeOK, Typed, Consistent, NamesDiffer, SchemesOK, AssociationsOK, PreferredOK,
         IndexesOK, PairsDiffer, LiveTr, LiveSch, LiveIdx

(* A request that holds the row of an association holds one that is there, and *)
(* no ingredient is newer than the package.                                  *)
HeldAreThere == \A r \in Requests : req[r].held => <<req[r].tr, req[r].scheme>> \in assoc

Shipped ==
    \A s \in Schemes : sch[s].ingredient # None => sch[s].ingredient.version <= package

Inv == TypeOK /\ HeldAreThere /\ Shipped

-----------------------------------------------------------------------------
(* Constants, requests and what a request leaves alone. *)
LEMMA Bounds == MaxCalls \in Nat /\ MaxBoots \in Nat /\ MaxPackage \in Nat /\ 1 <= MaxPackage
  BY CatalogAssumption

LEMMA Counting ==
    ASSUME Typed
    PROVE  /\ spent.calls < MaxCalls =>
                [spent EXCEPT !.calls = @ + 1] \in [calls : 0..MaxCalls, boots : 0..MaxBoots]
           /\ spent.boots < MaxBoots =>
                [spent EXCEPT !.boots = @ + 1] \in [calls : 0..MaxCalls, boots : 0..MaxBoots]
<1>1. spent \in [calls : 0..MaxCalls, boots : 0..MaxBoots]
  BY DEF Typed
<1>2. /\ spent.calls < MaxCalls => spent.calls + 1 \in 0..MaxCalls
      /\ spent.boots < MaxBoots => spent.boots + 1 \in 0..MaxBoots
  BY <1>1, Bounds
<1> QED
  BY <1>1, <1>2

LEMMA BusyRequest ==
    ASSUME Typed, NEW r \in Requests, req[r].op \in Ops
    PROVE  /\ req[r].tr \in Translations
           /\ req[r].scheme \in Schemes \cup {None} /\ req[r].held \in BOOLEAN
           /\ req[r].flag \in BOOLEAN /\ req[r].ixs \subseteq Ids
<1>1. "drop" \notin Ops /\ Idle.op \notin Ops
  BY DEF Ops, Idle
<1>2. req[r] \in [op : Ops, tr : Translations, scheme : Schemes \cup {None},
                  flag : BOOLEAN, held : BOOLEAN, ixs : SUBSET Ids]
  BY <1>1 DEF Typed, RequestRows
<1> QED
  BY <1>2

LEMMA DropRequest ==
    ASSUME Typed, NEW r \in Requests, req[r].op = "drop"
    PROVE  req[r].ixs \subseteq Ids
<1>1. "drop" \notin Ops /\ Idle.op # "drop"
  BY DEF Ops, Idle
<1>2. req[r] \in [op : {"drop"}, tr : {None}, scheme : Schemes, flag : {FALSE},
                  held : {FALSE}, ixs : SUBSET Ids]
  BY <1>1 DEF Typed, RequestRows
<1> QED
  BY <1>2

LEMMA OpIsBusy ==
    ASSUME NEW r, req[r].op \in Ops PROVE req[r] # Idle
  BY DEF Ops, Idle

LEMMA IdleStays == ASSUME NEW x, x = Idle.held PROVE [Idle EXCEPT !.held = x] = Idle
  BY DEF Idle

(* What Finish does to the requests. *)
LEMMA Finishing ==
    ASSUME Typed, NEW r \in Requests, NEW P, Finish(r, P)
    PROVE  /\ req' \in [Requests -> RequestRows] /\ req'[r] = Idle
           /\ \A q \in Requests : req'[q] = Idle
                  \/ /\ req'[q].op = req[q].op /\ req'[q].tr = req[q].tr
                     /\ req'[q].scheme = req[q].scheme
                     /\ req'[q].held => req[q].held /\ <<req[q].tr, req[q].scheme>> \notin P
           /\ package' = package /\ spent' = spent
<1>1. req' = [q \in Requests |->
                  IF q = r THEN Idle
                  ELSE [req[q] EXCEPT !.held = @ /\ <<req[q].tr, req[q].scheme>> \notin P]]
  BY DEF Finish
<1>2. ASSUME NEW q \in Requests, q # r
      PROVE  /\ req'[q] \in RequestRows
             /\ req'[q].op = req[q].op /\ req'[q].tr = req[q].tr
             /\ req'[q].scheme = req[q].scheme
             /\ req'[q].held => req[q].held /\ <<req[q].tr, req[q].scheme>> \notin P
  <2> DEFINE h == req[q].held /\ <<req[q].tr, req[q].scheme>> \notin P
  <2>1. req'[q] = [req[q] EXCEPT !.held = h]
    BY <1>1, <1>2
  <2>2. h \in BOOLEAN
    OBVIOUS
  <2> HIDE DEF h
  <2>3. CASE req[q] \in [op : Ops, tr : Translations, scheme : Schemes \cup {None},
                         flag : BOOLEAN, held : BOOLEAN, ixs : SUBSET Ids]
    <3>1. req[q] \in [op : Ops, tr : Translations, scheme : Schemes \cup {None},
                      flag : BOOLEAN, held : BOOLEAN, ixs : SUBSET Ids]
      BY <2>3
    <3>2. /\ req'[q] \in RequestRows
          /\ req'[q].op = req[q].op /\ req'[q].tr = req[q].tr
          /\ req'[q].scheme = req[q].scheme /\ req'[q].held = h
      BY <2>1, <2>2, <3>1 DEF RequestRows
    <3> QED
      BY <3>2 DEF h
  <2>4. CASE req[q] = Idle
    <3>1. h = FALSE
      BY <2>4 DEF h, Idle
    <3>2. h = Idle.held
      BY <3>1 DEF Idle
    <3>3. req'[q] = Idle
      BY <2>1, <2>4, <3>2, IdleStays
    <3> QED
      BY <2>4, <3>3 DEF Idle, RequestRows
  <2>5. CASE req[q] \in [op : {"drop"}, tr : {None}, scheme : Schemes, flag : {FALSE},
                         held : {FALSE}, ixs : SUBSET Ids]
    <3>1. h = FALSE
      BY <2>5 DEF h
    <3>2. /\ req'[q] \in [op : {"drop"}, tr : {None}, scheme : Schemes, flag : {FALSE},
                           held : {FALSE}, ixs : SUBSET Ids]
          /\ req'[q].op = req[q].op /\ req'[q].tr = req[q].tr
          /\ req'[q].scheme = req[q].scheme /\ req'[q].held = FALSE
      BY <2>1, <2>5, <3>1
    <3> QED
      BY <3>2 DEF RequestRows
  <2> QED
    BY <2>3, <2>4, <2>5 DEF Typed, RequestRows
<1>3. req'[r] = Idle /\ Idle \in RequestRows
  BY <1>1 DEF RequestRows
<1>4. req' \in [Requests -> RequestRows]
  BY <1>1, <1>2, <1>3
<1> QED
  BY <1>2, <1>3, <1>4 DEF Finish

LEMMA FinishingHolds ==
    ASSUME Inv, NEW r \in Requests, NEW P, Finish(r, P), assoc \ P \subseteq assoc'
    PROVE  HeldAreThere'
<1> SUFFICES ASSUME NEW q \in Requests, req'[q].held
             PROVE  <<req'[q].tr, req'[q].scheme>> \in assoc'
  BY DEF HeldAreThere
<1>1. Typed
  BY TypeParts DEF Inv
<1>2. req'[q] # Idle
  BY DEF Idle
<1>3. /\ req'[q].tr = req[q].tr /\ req'[q].scheme = req[q].scheme
      /\ req[q].held /\ <<req[q].tr, req[q].scheme>> \notin P
  BY <1>1, <1>2, Finishing
<1> QED
  BY <1>3 DEF Inv, HeldAreThere

-----------------------------------------------------------------------------
(* Steps that change no table, and the beginning of a request. *)
Parts == NamesDiffer /\ SchemesOK /\ AssociationsOK /\ PreferredOK /\ IndexesOK /\ PairsDiffer

LEMMA TablesStay ==
    ASSUME Inv, UNCHANGED <<tr, sch, assoc, pref, idx>>
    PROVE  Parts' /\ LiveTr' = LiveTr /\ LiveSch' = LiveSch /\ LiveIdx' = LiveIdx
  BY TypeParts DEF Inv, Parts, NamesDiffer, SchemesOK, AssociationsOK, PreferredOK,
     IndexesOK, PairsDiffer, LiveTr, LiveSch, LiveIdx

LEMMA Whole == Typed' /\ Parts' /\ HeldAreThere' /\ Shipped' => Inv'
  BY TypePartsNext DEF Inv, Parts

LEMMA CallKeeps ==
    ASSUME Inv, Call
    PROVE  /\ spent' \in [calls : 0..MaxCalls, boots : 0..MaxBoots]
           /\ package' = package /\ package' \in 1..MaxPackage
           /\ spent'.boots = spent.boots
  BY TypeParts, Counting DEF Inv, Typed, Call

LEMMA SameRequests ==
    ASSUME Inv, req' = req, assoc \subseteq assoc' PROVE HeldAreThere'
  BY DEF Inv, HeldAreThere

LEMMA SameIngredients ==
    ASSUME Inv, \A s \in Schemes : sch'[s].ingredient = sch[s].ingredient, package' = package
    PROVE  Shipped'
  BY DEF Inv, Shipped

LEMMA MemberIsTruth == ASSUME NEW S, NEW x PROVE \E h \in BOOLEAN : h = (x \in S)
<1>1. CASE x \in S
  <2>1. (x \in S) = TRUE
    BY <1>1
  <2> QED
    BY <2>1
<1>2. CASE x \notin S
  <2>1. (x \in S) = FALSE
    BY <1>2
  <2> QED
    BY <2>1
<1> QED
  BY <1>1, <1>2

(* What a request may be about. *)
Request(op, t, s, flag) ==
    \/ op \in Ops /\ t \in Translations /\ s \in Schemes \cup {None} /\ flag \in BOOLEAN
    \/ op = "drop" /\ t = None /\ s \in Schemes /\ flag = FALSE

LEMMA Beginning ==
    ASSUME Inv, NEW r \in Requests, NEW op, NEW t, NEW s, NEW flag, NEW ixs \in SUBSET Ids,
           Begin(r, op, t, s, flag, ixs), Request(op, t, s, flag),
           op \in {"prefer", "dissociate"} => <<t, s>> \in assoc
    PROVE  /\ Inv'
           /\ UNCHANGED <<tr, sch, assoc, pref, idx, reclaim>>
           /\ req[r] = Idle /\ req'[r].op = op /\ req'[r].tr = t /\ req'[r].scheme = s
           /\ req'[r].flag = flag /\ (req'[r].held <=> op \in {"prefer", "dissociate"})
           /\ \A q \in Requests \ {r} : req'[q] = req[q]
           /\ spent'.boots = spent.boots /\ package' = package
<1>1. /\ UNCHANGED <<tr, sch, assoc, pref, idx, reclaim>> /\ Call /\ req[r] = Idle
      /\ req' = [req EXCEPT ![r] = [op |-> op, tr |-> t, scheme |-> s, flag |-> flag,
                                    held |-> op \in {"prefer", "dissociate"}, ixs |-> ixs]]
  BY DEF Begin
<1>2. PICK h \in BOOLEAN : h = (op \in {"prefer", "dissociate"})
  BY MemberIsTruth
<1> DEFINE x == [op |-> op, tr |-> t, scheme |-> s, flag |-> flag, held |-> h, ixs |-> ixs]
<1>3. x \in RequestRows
  <2>1. CASE op \in Ops /\ t \in Translations /\ s \in Schemes \cup {None} /\ flag \in BOOLEAN
    BY <2>1 DEF RequestRows
  <2>2. CASE op = "drop" /\ t = None /\ s \in Schemes /\ flag = FALSE
    <3>1. h = FALSE
      BY <1>2, <2>2
    <3> QED
      BY <2>2, <3>1 DEF RequestRows
  <2> QED
    BY <2>1, <2>2 DEF Request
<1>4. req' = [req EXCEPT ![r] = x]
  BY <1>1, <1>2
<1>5. Typed
  BY TypeParts DEF Inv
<1>6. req' \in [Requests -> RequestRows] /\ req'[r] = x
      /\ \A q \in Requests \ {r} : req'[q] = req[q]
  BY <1>3, <1>4, <1>5 DEF Typed
<1>7. HeldAreThere'
  <2> SUFFICES ASSUME NEW q \in Requests, req'[q].held
               PROVE  <<req'[q].tr, req'[q].scheme>> \in assoc
    BY <1>1 DEF HeldAreThere
  <2>1. CASE q = r
    <3>1. x.held = h /\ x.tr = t /\ x.scheme = s
      OBVIOUS
    <3>2. h
      BY <2>1, <3>1, <1>6
    <3>3. <<t, s>> \in assoc
      BY <3>2, <1>2
    <3> QED
      BY <2>1, <3>1, <3>3, <1>6
  <2>2. CASE q # r
    BY <2>2, <1>6 DEF Inv, HeldAreThere
  <2> QED
    BY <2>1, <2>2
<1>8. Typed'
  BY <1>1, <1>5, <1>6, CallKeeps DEF Typed
<1>9. Inv'
  BY <1>1, <1>7, <1>8, CallKeeps, TablesStay, SameIngredients, Whole
<1> QED
  BY <1>1, <1>2, <1>6, <1>9, CallKeeps

LEMMA LoadBegins ==
    ASSUME Inv, NEW r \in Requests, Load(r)
    PROVE  \E op, t, s, flag : \E ixs \in SUBSET Ids :
              /\ Begin(r, op, t, s, flag, ixs) /\ Request(op, t, s, flag)
              /\ op \in {"prefer", "dissociate"} => <<t, s>> \in assoc
              /\ op = "dissociate" => pref[t] # s
              /\ op = "prefer" => (flag => pref[t] = s)
              /\ op = "associate" => (~ flag => SchemesOf(t) # {})
<1>1. Typed /\ AssociationsOK
  BY TypeParts DEF Inv
<1>2. LiveTr \subseteq Translations /\ LiveSch \subseteq Schemes /\ LiveIdx \subseteq Ids
  BY DEF LiveTr, LiveSch, LiveIdx
<1>3. ASSUME NEW t \in LiveTr, LoadDeleteTranslation(r, t)
      PROVE  \E s \in Schemes \cup {None}, ixs \in SUBSET Ids :
                Begin(r, "delete", t, s, FALSE, ixs)
  <2>1. CoupledScheme(t) \in Schemes \cup {None}
    BY <1>1, <1>2 DEF CoupledScheme, Typed
  <2>2. {i \in LiveIdx : idx[i].tr = t} \in SUBSET Ids
    BY <1>2
  <2> QED
    BY <1>3, <2>1, <2>2 DEF LoadDeleteTranslation
<1>4. ASSUME NEW t \in LiveTr, NEW s \in LiveSch, LoadAssociate(r, t, s)
      PROVE  \E flag \in BOOLEAN : /\ Begin(r, "associate", t, s, flag, {})
                                   /\ ~ flag => SchemesOf(t) # {}
  <2>1. PICK flag \in BOOLEAN : flag = (SchemesOf(t) = {})
    OBVIOUS
  <2>2. Begin(r, "associate", t, s, flag, {})
    BY <1>4, <2>1 DEF LoadAssociate
  <2> QED
    BY <2>1, <2>2
<1>5. ASSUME NEW t \in LiveTr, NEW s \in LiveSch, LoadMakePreferred(r, t, s)
      PROVE  \E flag \in BOOLEAN : /\ Begin(r, "prefer", t, s, flag, {})
                                   /\ <<t, s>> \in assoc
                                   /\ flag => pref[t] = s
  <2>1. PICK flag \in BOOLEAN : flag = (pref[t] = s)
    OBVIOUS
  <2>2. Begin(r, "prefer", t, s, flag, {}) /\ <<t, s>> \in assoc
    BY <1>5, <2>1 DEF LoadMakePreferred
  <2> QED
    BY <2>1, <2>2
<1>6. ASSUME NEW t \in LiveTr, NEW s \in LiveSch, LoadDissociate(r, t, s)
      PROVE  Begin(r, "dissociate", t, s, FALSE, {}) /\ <<t, s>> \in assoc /\ pref[t] # s
  BY <1>6 DEF LoadDissociate
<1>7. ASSUME NEW t \in LiveTr, NEW s \in LiveSch, NEW explicit \in BOOLEAN,
             LoadCreateIndex(r, t, s, explicit)
      PROVE  Begin(r, "index", t, s, explicit, {})
  BY <1>7 DEF LoadCreateIndex
<1>8. {"associate", "prefer", "dissociate", "delete", "index"} \subseteq Ops
      /\ {} \in SUBSET Ids /\ FALSE \in BOOLEAN
  BY DEF Ops
<1>9. ASSUME NEW op \in Ops, NEW u \in LiveTr, NEW s \in Schemes \cup {None}, NEW flag \in BOOLEAN
      PROVE  Request(op, u, s, flag)
  BY <1>2 DEF Request
<1> DEFINE Goal == \E op, u, s, flag : \E ixs \in SUBSET Ids :
              /\ Begin(r, op, u, s, flag, ixs) /\ Request(op, u, s, flag)
              /\ op \in {"prefer", "dissociate"} => <<u, s>> \in assoc
              /\ op = "dissociate" => pref[u] # s
              /\ op = "prefer" => (flag => pref[u] = s)
              /\ op = "associate" => (~ flag => SchemesOf(u) # {})
<1>10. CASE \E s \in LiveSch : LoadDeleteVersification(r, s)
  <2>1. PICK s \in LiveSch : LoadDeleteVersification(r, s)
    BY <1>10
  <2>2. {i \in LiveIdx : idx[i].scheme = s} \in SUBSET Ids
    BY <1>2
  <2>3. Begin(r, "drop", None, s, FALSE, {i \in LiveIdx : idx[i].scheme = s})
    BY <2>1 DEF LoadDeleteVersification
  <2>4. Request("drop", None, s, FALSE)
    BY <1>2 DEF Request
  <2>5. "drop" \notin {"prefer", "dissociate"} /\ "drop" # "dissociate"
        /\ "drop" # "prefer" /\ "drop" # "associate"
    OBVIOUS
  <2> QED
    BY <2>2, <2>3, <2>4, <2>5
<1> SUFFICES ASSUME ~ \E s \in LiveSch : LoadDeleteVersification(r, s)
             PROVE  Goal
  BY <1>10
<1>11. PICK t \in LiveTr :
         \/ LoadDeleteTranslation(r, t)
         \/ \E s \in LiveSch :
               \/ LoadAssociate(r, t, s) \/ LoadMakePreferred(r, t, s)
               \/ LoadDissociate(r, t, s)
               \/ \E explicit \in BOOLEAN : LoadCreateIndex(r, t, s, explicit)
  BY DEF Load
<1>12. CASE LoadDeleteTranslation(r, t)
  <2>1. PICK s \in Schemes \cup {None}, ixs \in SUBSET Ids :
           Begin(r, "delete", t, s, FALSE, ixs)
    BY <1>3, <1>12
  <2>2. "delete" \notin {"prefer", "dissociate"} /\ "delete" # "dissociate"
        /\ "delete" # "prefer" /\ "delete" # "associate"
    OBVIOUS
  <2>3. Request("delete", t, s, FALSE)
    BY <1>8, <1>9
  <2> QED
    BY <1>8, <2>1, <2>2, <2>3
<1>13. ASSUME NEW s \in LiveSch, LoadAssociate(r, t, s) PROVE Goal
  <2>1. PICK flag \in BOOLEAN : Begin(r, "associate", t, s, flag, {})
                                /\ (~ flag => SchemesOf(t) # {})
    BY <1>4, <1>13
  <2>2. s \in Schemes \cup {None}
    BY <1>2
  <2>3. "associate" \notin {"prefer", "dissociate"} /\ "associate" # "dissociate"
        /\ "associate" # "prefer"
    OBVIOUS
  <2>4. Request("associate", t, s, flag)
    BY <1>8, <1>9, <2>2
  <2> QED
    BY <1>8, <2>1, <2>2, <2>3, <2>4
<1>14. ASSUME NEW s \in LiveSch, LoadMakePreferred(r, t, s) PROVE Goal
  <2>1. PICK flag \in BOOLEAN : /\ Begin(r, "prefer", t, s, flag, {})
                                /\ <<t, s>> \in assoc /\ (flag => pref[t] = s)
    BY <1>5, <1>14
  <2>2. s \in Schemes \cup {None}
    BY <1>2
  <2>3. "prefer" # "dissociate" /\ "prefer" # "associate"
    OBVIOUS
  <2>4. Request("prefer", t, s, flag)
    BY <1>8, <1>9, <2>2
  <2> QED
    BY <1>8, <2>1, <2>2, <2>3, <2>4
<1>15. ASSUME NEW s \in LiveSch, LoadDissociate(r, t, s) PROVE Goal
  <2>1. Begin(r, "dissociate", t, s, FALSE, {}) /\ <<t, s>> \in assoc /\ pref[t] # s
    BY <1>6, <1>15
  <2>2. s \in Schemes \cup {None}
    BY <1>2
  <2>3. "dissociate" # "prefer" /\ "dissociate" # "associate"
    OBVIOUS
  <2>4. Request("dissociate", t, s, FALSE)
    BY <1>8, <1>9, <2>2
  <2> QED
    BY <1>8, <2>1, <2>2, <2>3, <2>4
<1>16. ASSUME NEW s \in LiveSch, NEW explicit \in BOOLEAN, LoadCreateIndex(r, t, s, explicit)
       PROVE  Goal
  <2>1. Begin(r, "index", t, s, explicit, {})
    BY <1>7, <1>16
  <2>2. s \in Schemes \cup {None}
    BY <1>2
  <2>3. "index" \notin {"prefer", "dissociate"} /\ "index" # "dissociate"
        /\ "index" # "prefer" /\ "index" # "associate"
    OBVIOUS
  <2>4. Request("index", t, s, explicit)
    BY <1>8, <1>9, <2>2
  <2> QED
    BY <1>8, <2>1, <2>2, <2>3, <2>4
<1> QED
  BY <1>11, <1>12, <1>13, <1>14, <1>15, <1>16

-----------------------------------------------------------------------------
(* Edits of one table.  A translation whose row is written stays or becomes live. *)
LEMMA TranslationWritten ==
    ASSUME Inv, NEW t \in Translations, NEW x \in TranslationRows, x.state = "live",
           tr' = [tr EXCEPT ![t] = x],
           \A u \in LiveTr \ {t} : tr[u].name # x.name
    PROVE  /\ tr' \in [Translations -> TranslationRows]
           /\ LiveTr' = LiveTr \cup {t}
           /\ NamesDiffer'
<1>1. tr \in [Translations -> TranslationRows] /\ NamesDiffer
  BY TypeParts DEF Inv, Typed
<1>2. tr' \in [Translations -> TranslationRows] /\ tr'[t] = x
      /\ \A u \in Translations \ {t} : tr'[u] = tr[u]
  BY <1>1
<1>3. LiveTr' = LiveTr \cup {t}
  BY <1>2 DEF LiveTr
<1>4. NamesDiffer'
  <2> SUFFICES ASSUME NEW u \in LiveTr', NEW v \in LiveTr', u # v
               PROVE  tr'[u].name # tr'[v].name
    BY DEF NamesDiffer
  <2>1. u \in Translations /\ v \in Translations
    BY DEF LiveTr
  <2>2. CASE u = t
    BY <1>2, <1>3, <2>1, <2>2
  <2>3. CASE v = t
    BY <1>2, <1>3, <2>1, <2>3
  <2>4. CASE u # t /\ v # t
    BY <1>1, <1>2, <1>3, <2>1, <2>4 DEF NamesDiffer
  <2> QED
    BY <2>2, <2>3, <2>4
<1> QED
  BY <1>2, <1>3, <1>4

(* A scheme whose row is written stays or becomes live. *)
LEMMA SchemeWritten ==
    ASSUME Inv, NEW s \in Schemes, NEW x \in SchemeRows, x.state = "live",
           sch' = [sch EXCEPT ![s] = x],
           LiveTr \subseteq LiveTr', x.base \in LiveTr' \cup {None}, x.ingredient # None
    PROVE  /\ sch' \in [Schemes -> SchemeRows]
           /\ LiveSch' = LiveSch \cup {s}
           /\ SchemesOK'
           /\ sch'[s] = x /\ \A y \in Schemes \ {s} : sch'[y] = sch[y]
<1>1. sch \in [Schemes -> SchemeRows] /\ SchemesOK
  BY TypeParts DEF Inv, Typed
<1>2. sch' \in [Schemes -> SchemeRows] /\ sch'[s] = x
      /\ \A y \in Schemes \ {s} : sch'[y] = sch[y]
  BY <1>1
<1>3. LiveSch' = LiveSch \cup {s}
  BY <1>2 DEF LiveSch
<1>4. SchemesOK'
  <2> SUFFICES ASSUME NEW y \in LiveSch'
               PROVE  sch'[y].base \in LiveTr' \cup {None} /\ sch'[y].ingredient # None
    BY DEF SchemesOK
  <2>1. CASE y = s
    BY <2>1, <1>2
  <2>2. CASE y # s
    <3>1. y \in LiveSch /\ y \in Schemes
      BY <2>2, <1>3 DEF LiveSch
    <3> QED
      BY <2>2, <3>1, <1>1, <1>2 DEF SchemesOK
  <2> QED
    BY <2>1, <2>2
<1> QED
  BY <1>2, <1>3, <1>4

(* Rows that refer to others stay right while those live. *)
LEMMA ReferencesStay ==
    ASSUME Inv, LiveTr \subseteq LiveTr', LiveSch \subseteq LiveSch'
    PROVE  /\ assoc' = assoc => AssociationsOK'
           /\ assoc' = assoc /\ pref' = pref => PreferredOK'
           /\ idx' = idx => IndexesOK' /\ PairsDiffer'
           /\ sch' = sch => SchemesOK'
<1>1. AssociationsOK /\ PreferredOK /\ IndexesOK /\ PairsDiffer /\ SchemesOK
  BY TypeParts DEF Inv
<1>2. assoc' = assoc => AssociationsOK'
  BY <1>1 DEF AssociationsOK
<1>3. assoc' = assoc /\ pref' = pref => PreferredOK'
  BY <1>1 DEF PreferredOK
<1>4. idx' = idx => IndexesOK' /\ PairsDiffer'
  BY <1>1 DEF IndexesOK, PairsDiffer, LiveIdx
<1>5. sch' = sch => SchemesOK'
  BY <1>1 DEF SchemesOK, LiveSch
<1> QED
  BY <1>2, <1>3, <1>4, <1>5

LEMMA NewNames ==
    ASSUME Typed, NEW n \in Names, NEW t \in Translations
    PROVE  /\ [state |-> "live", name |-> n, anchor |-> FALSE] \in TranslationRows
           /\ t \in LiveTr => [tr[t] EXCEPT !.name = n] \in TranslationRows
                              /\ [tr[t] EXCEPT !.name = n].state = "live"
                              /\ [tr[t] EXCEPT !.name = n].name = n
  BY DEF Typed, TranslationRows, States, LiveTr

LEMMA TranslationsKeep ==
    ASSUME Inv, NEW n \in Names, NEW t \in Translations,
           CreateTranslation(t, n) \/ UpdateTranslation(t, n)
    PROVE  Inv'
<1>1. Typed
  BY TypeParts DEF Inv
<1>2. Call /\ UNCHANGED <<sch, assoc, pref, idx, reclaim, req>>
  BY DEF CreateTranslation, UpdateTranslation
<1>3. PICK x \in TranslationRows :
          x.state = "live" /\ x.name = n /\ tr' = [tr EXCEPT ![t] = x]
  <2>1. CASE CreateTranslation(t, n)
    BY <1>1, <2>1, NewNames DEF CreateTranslation
  <2>2. CASE UpdateTranslation(t, n)
    BY <1>1, <2>2, NewNames DEF UpdateTranslation
  <2> QED
    BY <2>1, <2>2
<1>4. \A u \in LiveTr \ {t} : tr[u].name # n
  BY DEF CreateTranslation, UpdateTranslation, Named
<1>5. /\ tr' \in [Translations -> TranslationRows] /\ LiveTr' = LiveTr \cup {t}
      /\ NamesDiffer'
  BY <1>3, <1>4, TranslationWritten
<1>6. LiveSch' = LiveSch
  BY <1>2 DEF LiveSch
<1>7. Parts'
  BY <1>2, <1>5, <1>6, ReferencesStay DEF Parts
<1>8. Typed'
  BY <1>1, <1>2, <1>5, CallKeeps DEF Typed
<1> QED
  BY <1>2, <1>7, <1>8, CallKeeps, SameRequests, SameIngredients, Whole

LEMMA UploadIsIngredient ==
    ASSUME NEW s \in Schemes
    PROVE  Upload(s) \in Ingredients /\ Upload(s) # None /\ Upload(s).version = 0
<1>1. Upload(s) \in Ingredients
  BY DEF Ingredients
<1> QED
  BY <1>1, CatalogAssumption DEF Upload

LEMMA PackagedIsIngredient ==
    ASSUME NEW n \in CanonNames, NEW v \in 1..MaxPackage
    PROVE  Packaged(n, v) \in Ingredients /\ Packaged(n, v) # None
           /\ Packaged(n, v).version = v /\ Packaged(n, v).of = n
<1>1. Packaged(n, v) \in Ingredients
  BY DEF Ingredients
<1> QED
  BY <1>1, CatalogAssumption DEF Packaged

LEMMA IngestedIsScheme ==
    ASSUME NEW s \in Schemes, NEW n \in Names, NEW b \in Translations
    PROVE  LET x == IngestedScheme(s, n, b)
           IN  /\ x \in SchemeRows /\ x.state = "live" /\ x.base = b /\ ~ x.canonical
               /\ x.ingredient = Upload(s) /\ x.rows = x.ingredient
  BY UploadIsIngredient DEF IngestedScheme, SchemeRows, States

LEMMA VersionsKeep ==
    ASSUME Inv, NEW s \in Schemes, sch'[s].ingredient.version = 0,
           \A y \in Schemes \ {s} : sch'[y] = sch[y], package' = package
    PROVE  Shipped'
<1>1. 0 <= package
  BY TypeParts, Bounds DEF Inv, Typed
<1> QED
  BY <1>1 DEF Inv, Shipped

LEMMA UploadKeeps ==
    ASSUME Inv, NEW s \in Schemes, NEW n \in Names, NEW b \in Translations,
           UploadVersification(s, n, b)
    PROVE  Inv'
<1> DEFINE x == IngestedScheme(s, n, b)
<1>1. Call /\ UNCHANGED <<tr, assoc, pref, idx, reclaim, req>> /\ b \in LiveTr
      /\ sch' = [sch EXCEPT ![s] = x]
  BY DEF UploadVersification
<1>2. x \in SchemeRows /\ x.state = "live" /\ x.base = b /\ x.ingredient = Upload(s)
  BY IngestedIsScheme
<1>3. LiveTr' = LiveTr
  BY <1>1 DEF LiveTr
<1>4. Upload(s) # None /\ Upload(s).version = 0
  BY UploadIsIngredient
<1> HIDE DEF x
<1>5. /\ sch' \in [Schemes -> SchemeRows] /\ LiveSch' = LiveSch \cup {s} /\ SchemesOK'
      /\ sch'[s] = x /\ \A y \in Schemes \ {s} : sch'[y] = sch[y]
  BY <1>1, <1>2, <1>3, <1>4, SchemeWritten
<1>6. NamesDiffer'
  BY <1>1, TypeParts DEF Inv, NamesDiffer, LiveTr
<1>7. Parts'
  BY <1>1, <1>3, <1>5, <1>6, ReferencesStay DEF Parts
<1>8. Typed'
  BY <1>1, <1>5, CallKeeps, TypeParts DEF Inv, Typed
<1>9. Shipped'
  BY <1>1, <1>2, <1>4, <1>5, CallKeeps, VersionsKeep
<1> QED
  BY <1>1, <1>7, <1>8, <1>9, SameRequests, Whole

LEMMA IngestKeeps ==
    ASSUME Inv, NEW s \in Schemes, NEW n \in Names, NEW b \in Translations,
           NEW t \in Translations, IngestProject(t, s, n, b)
    PROVE  Inv'
<1> DEFINE x == IngestedScheme(s, n, b)
           y == [state |-> "live", name |-> n, anchor |-> FALSE]
<1>0. Typed /\ AssociationsOK /\ PreferredOK
  BY TypeParts DEF Inv
<1>1. /\ Call /\ UNCHANGED <<idx, reclaim, req>> /\ b \in LiveTr \cup {t}
      /\ sch' = [sch EXCEPT ![s] = x] /\ tr' = [tr EXCEPT ![t] = y]
      /\ assoc' = assoc \cup {<<t, s>>} /\ pref' = [pref EXCEPT ![t] = s]
      /\ Named(n) = {}
  BY DEF IngestProject
<1>2. x \in SchemeRows /\ x.state = "live" /\ x.base = b /\ x.ingredient = Upload(s)
  BY IngestedIsScheme
<1>3. y \in TranslationRows /\ y.state = "live" /\ y.name = n
  BY <1>0, NewNames
<1>4. Upload(s) # None /\ Upload(s).version = 0
  BY UploadIsIngredient
<1> HIDE DEF x, y
<1>5. /\ tr' \in [Translations -> TranslationRows] /\ LiveTr' = LiveTr \cup {t}
      /\ NamesDiffer'
  <2>1. \A u \in LiveTr \ {t} : tr[u].name # n
    BY <1>1 DEF Named
  <2> QED
    BY <1>1, <1>3, <2>1, TranslationWritten
<1>6. /\ sch' \in [Schemes -> SchemeRows] /\ LiveSch' = LiveSch \cup {s} /\ SchemesOK'
      /\ sch'[s] = x /\ \A z \in Schemes \ {s} : sch'[z] = sch[z]
  BY <1>1, <1>2, <1>4, <1>5, SchemeWritten
<1>7. AssociationsOK' /\ PreferredOK' /\ pref' \in [Translations -> Schemes \cup {None}]
  BY <1>0, <1>1, <1>5, <1>6 DEF AssociationsOK, PreferredOK, Typed
<1>8. Parts'
  BY <1>1, <1>5, <1>6, <1>7, ReferencesStay DEF Parts
<1>9. Typed'
  BY <1>0, <1>1, <1>5, <1>6, <1>7, CallKeeps DEF Typed
<1>10. Shipped'
  BY <1>1, <1>2, <1>4, <1>6, CallKeeps, VersionsKeep
<1> QED
  BY <1>1, <1>8, <1>9, <1>10, SameRequests, Whole

LEMMA SchemeEdits ==
    ASSUME Inv, NEW s \in LiveSch,
           (\E n \in Names : UpdateVersification(s, n)) \/ AttachSource(s)
    PROVE  \E x \in SchemeRows :
              /\ sch' = [sch EXCEPT ![s] = x]
              /\ x.state = "live" /\ x.base = sch[s].base /\ x.rows = sch[s].rows
              /\ x.ingredient = sch[s].ingredient /\ x.canonical = sch[s].canonical
<1>1. sch[s] \in SchemeRows /\ s \in Schemes /\ sch[s].state = "live"
  BY TypeParts DEF Inv, Typed, LiveSch
<1>2. ASSUME NEW n \in Names
      PROVE  LET x == [sch[s] EXCEPT !.name = n]
             IN  /\ x \in SchemeRows
                 /\ x.state = "live" /\ x.base = sch[s].base /\ x.rows = sch[s].rows
                 /\ x.ingredient = sch[s].ingredient /\ x.canonical = sch[s].canonical
  BY <1>1 DEF SchemeRows
<1>3. LET x == [sch[s] EXCEPT !.source = sch[s].ingredient]
      IN  /\ x \in SchemeRows
          /\ x.state = "live" /\ x.base = sch[s].base /\ x.rows = sch[s].rows
          /\ x.ingredient = sch[s].ingredient /\ x.canonical = sch[s].canonical
  BY <1>1 DEF SchemeRows
<1>4. ASSUME NEW n \in Names, UpdateVersification(s, n)
      PROVE  sch' = [sch EXCEPT ![s] = [sch[s] EXCEPT !.name = n]]
  BY <1>4 DEF UpdateVersification
<1>5. AttachSource(s) => sch' = [sch EXCEPT ![s] = [sch[s] EXCEPT !.source = sch[s].ingredient]]
  BY DEF AttachSource
<1> QED
  BY <1>2, <1>3, <1>4, <1>5

LEMMA SchemeEditsKeep ==
    ASSUME Inv, NEW s \in LiveSch,
           (\E n \in Names : UpdateVersification(s, n)) \/ AttachSource(s)
    PROVE  Inv'
<1>1. Call /\ UNCHANGED <<tr, assoc, pref, idx, reclaim, req>>
  BY DEF UpdateVersification, AttachSource
<1>2. PICK x \in SchemeRows :
              /\ sch' = [sch EXCEPT ![s] = x]
              /\ x.state = "live" /\ x.base = sch[s].base
              /\ x.ingredient = sch[s].ingredient
  BY SchemeEdits
<1>3. s \in Schemes /\ sch[s].base \in LiveTr \cup {None} /\ sch[s].ingredient # None
  BY TypeParts DEF Inv, SchemesOK, LiveSch
<1>4. LiveTr' = LiveTr
  BY <1>1 DEF LiveTr
<1>5. /\ sch' \in [Schemes -> SchemeRows] /\ LiveSch' = LiveSch \cup {s} /\ SchemesOK'
      /\ sch'[s] = x /\ \A y \in Schemes \ {s} : sch'[y] = sch[y]
  BY <1>2, <1>3, <1>4, SchemeWritten
<1>6. NamesDiffer'
  BY <1>1, TypeParts DEF Inv, NamesDiffer, LiveTr
<1>7. Parts'
  BY <1>1, <1>4, <1>5, <1>6, ReferencesStay DEF Parts
<1>8. Typed'
  BY <1>1, <1>5, CallKeeps, TypeParts DEF Inv, Typed
<1>9. Shipped'
  BY <1>1, <1>2, <1>5, CallKeeps, SameIngredients
<1> QED
  BY <1>1, <1>7, <1>8, <1>9, SameRequests, Whole

(* Rows of indexes that are deleted. *)
LEMMA IndexesDropped ==
    ASSUME Inv, NEW I \in SUBSET LiveIdx, idx' = Dropped(I)
    PROVE  /\ idx' \in [Ids -> IndexRowSet] /\ LiveIdx' = LiveIdx \ I
           /\ \A i \in Ids \ I : idx'[i] = idx[i]
           /\ \A i \in I : idx'[i].state = "gone"
           /\ PairsDiffer'
<1>1. idx \in [Ids -> IndexRowSet] /\ PairsDiffer
  BY TypeParts DEF Inv, Typed
<1>2. I \subseteq Ids /\ LiveIdx \subseteq Ids
  BY DEF LiveIdx
<1>3. \A i \in Ids : [idx[i] EXCEPT !.state = "gone"] \in IndexRowSet
                     /\ [idx[i] EXCEPT !.state = "gone"].state = "gone"
  BY <1>1 DEF IndexRowSet, States
<1>4. /\ \A i \in Ids \ I : idx'[i] = idx[i]
      /\ \A i \in I : idx'[i] = [idx[i] EXCEPT !.state = "gone"]
  BY <1>2 DEF Dropped
<1>5. idx' \in [Ids -> IndexRowSet]
  BY <1>1, <1>2, <1>3 DEF Dropped
<1>6. LiveIdx' = LiveIdx \ I
  BY <1>2, <1>3, <1>4 DEF LiveIdx
<1>7. PairsDiffer'
  BY <1>1, <1>2, <1>4, <1>6 DEF PairsDiffer
<1> QED
  BY <1>2, <1>3, <1>4, <1>5, <1>6, <1>7

(* A scheme that is deleted. *)
LEMMA SchemeDeleted ==
    ASSUME Inv, NEW s, sch' = [x \in Schemes |-> IF x = s THEN [sch[x] EXCEPT !.state = "gone"]
                                                 ELSE sch[x]]
    PROVE  /\ sch' \in [Schemes -> SchemeRows] /\ LiveSch' = LiveSch \ {s}
           /\ \A x \in Schemes \ {s} : sch'[x] = sch[x]
           /\ \A x \in Schemes : sch'[x].ingredient = sch[x].ingredient
<1>1. sch \in [Schemes -> SchemeRows]
  BY TypeParts DEF Inv, Typed
<1>2. \A x \in Schemes : /\ [sch[x] EXCEPT !.state = "gone"] \in SchemeRows
                         /\ [sch[x] EXCEPT !.state = "gone"].state = "gone"
                         /\ [sch[x] EXCEPT !.state = "gone"].ingredient = sch[x].ingredient
  BY <1>1 DEF SchemeRows, States
<1>3. sch' \in [Schemes -> SchemeRows]
  BY <1>1, <1>2
<1>4. LiveSch' = LiveSch \ {s}
  BY <1>2 DEF LiveSch
<1> QED
  BY <1>2, <1>3, <1>4

LEMMA DeleteIndexKeeps ==
    ASSUME Inv, NEW i \in LiveIdx, DeleteIndex(i) PROVE Inv'
<1>1. /\ Call /\ UNCHANGED <<tr, sch, assoc, pref, req>>
      /\ idx' = Dropped({i}) /\ reclaim' = reclaim \cup {i}
  BY DEF DeleteIndex
<1>2. /\ idx' \in [Ids -> IndexRowSet] /\ LiveIdx' = LiveIdx \ {i} /\ PairsDiffer'
      /\ \A j \in Ids \ {i} : idx'[j] = idx[j]
  BY <1>1, IndexesDropped
<1>3. LiveTr' = LiveTr /\ LiveSch' = LiveSch
  BY <1>1 DEF LiveTr, LiveSch
<1>4. IndexesOK' /\ NamesDiffer'
  BY <1>1, <1>2, <1>3, TypeParts DEF Inv, IndexesOK, LiveIdx, NamesDiffer
<1>5. Parts'
  BY <1>1, <1>2, <1>3, <1>4, ReferencesStay DEF Parts
<1>6. Typed'
  BY <1>1, <1>2, CallKeeps, TypeParts DEF Inv, Typed, LiveIdx
<1> QED
  BY <1>1, <1>5, <1>6, CallKeeps, SameRequests, SameIngredients, Whole

LEMMA PinKeeps ==
    ASSUME Inv, NEW i \in LiveIdx, NEW s \in LiveSch, PinIndex(i, s) PROVE Inv'
<1> DEFINE x == [idx[i] EXCEPT !.scheme = s, !.explicit = TRUE]
<1>1. /\ Call /\ UNCHANGED <<tr, sch, assoc, pref, reclaim, req>>
      /\ idx' = [idx EXCEPT ![i] = x]
      /\ \A j \in LiveIdx \ {i} : <<idx[j].tr, idx[j].scheme>> # <<idx[i].tr, s>>
  BY DEF PinIndex
<1>2. Typed /\ IndexesOK /\ PairsDiffer /\ i \in Ids /\ s \in Schemes
  BY TypeParts DEF Inv, LiveIdx, LiveSch
<1>3. x \in IndexRowSet /\ x.state = "live" /\ x.tr = idx[i].tr /\ x.scheme = s
  BY <1>2 DEF Typed, IndexRowSet, LiveIdx
<1> HIDE DEF x
<1>4. idx' \in [Ids -> IndexRowSet] /\ idx'[i] = x /\ \A j \in Ids \ {i} : idx'[j] = idx[j]
  BY <1>1, <1>2, <1>3 DEF Typed
<1>5. LiveIdx' = LiveIdx
  BY <1>3, <1>4 DEF LiveIdx
<1>6. LiveTr' = LiveTr /\ LiveSch' = LiveSch
  BY <1>1 DEF LiveTr, LiveSch
<1>7. IndexesOK' /\ PairsDiffer'
  BY <1>1, <1>2, <1>3, <1>4, <1>5, <1>6 DEF IndexesOK, PairsDiffer, LiveIdx
<1>8. NamesDiffer'
  BY <1>1, TypeParts DEF Inv, NamesDiffer, LiveTr
<1>9. Parts'
  BY <1>1, <1>6, <1>7, <1>8, ReferencesStay DEF Parts
<1>10. Typed'
  BY <1>1, <1>2, <1>4, CallKeeps DEF Typed
<1> QED
  BY <1>1, <1>9, <1>10, CallKeeps, SameRequests, SameIngredients, Whole

-----------------------------------------------------------------------------
(* Commits.  What a retarget does to the indexes. *)
LEMMA Retargeting ==
    ASSUME Inv, NEW t, NEW p, Retarget(t, p), p[t] # None => p[t] \in LiveSch
    PROVE  /\ idx' \in [Ids -> IndexRowSet] /\ LiveIdx' = LiveIdx
           /\ \A i \in LiveIdx : idx'[i].tr = idx[i].tr /\ idx'[i].scheme \in LiveSch
           /\ \A i \in Ids : idx'[i].state = idx[i].state
           /\ PairsDiffer'
<1>1. idx \in [Ids -> IndexRowSet] /\ PairsDiffer /\ IndexesOK
  BY TypeParts DEF Inv, Typed
<1>2. PICK s \in BatchSchemes(t, p) :
        /\ \A i, j \in Moving(t, s) : i = j
        /\ idx' = [i \in Ids |-> IF i \in Moving(t, s)
                                 THEN [idx[i] EXCEPT !.scheme = s] ELSE idx[i]]
  BY DEF Retarget
<1>3. s \in LiveSch /\ s \in Schemes
  BY DEF BatchSchemes, CanonicalNamed, LiveSch
<1>4. \A i \in Ids : /\ [idx[i] EXCEPT !.scheme = s] \in IndexRowSet
                     /\ [idx[i] EXCEPT !.scheme = s].scheme = s
                     /\ [idx[i] EXCEPT !.scheme = s].tr = idx[i].tr
                     /\ [idx[i] EXCEPT !.scheme = s].state = idx[i].state
  BY <1>1, <1>3 DEF IndexRowSet
<1>5. idx' \in [Ids -> IndexRowSet]
  BY <1>1, <1>2, <1>4
<1>6. \A i \in Ids : /\ idx'[i].state = idx[i].state /\ idx'[i].tr = idx[i].tr
                     /\ idx'[i].scheme = IF i \in Moving(t, s) THEN s ELSE idx[i].scheme
  BY <1>2, <1>4
<1>7. LiveIdx' = LiveIdx /\ LiveIdx \subseteq Ids
  BY <1>6 DEF LiveIdx
<1>8. PairsDiffer'
  <2> SUFFICES ASSUME NEW i \in LiveIdx, NEW j \in LiveIdx, i # j,
                      idx'[i].tr = idx'[j].tr, idx'[i].scheme = idx'[j].scheme
               PROVE  FALSE
    BY <1>7 DEF PairsDiffer
  <2>1. CASE i \notin Moving(t, s) /\ j \notin Moving(t, s)
    BY <2>1, <1>1, <1>6, <1>7 DEF PairsDiffer
  <2>2. ASSUME NEW k \in LiveIdx, NEW l \in LiveIdx, k \in Moving(t, s), l \notin Moving(t, s),
               idx'[k].tr = idx'[l].tr, idx'[k].scheme = idx'[l].scheme
        PROVE  FALSE
    <3>1. idx[l].tr = idx[k].tr /\ idx[l].scheme = s
      BY <2>2, <1>6, <1>7
    <3>2. idx[k].tr = t /\ ~ Taken(t, s)
      BY <2>2 DEF Moving
    <3> QED
      BY <3>1, <3>2 DEF Taken
  <2>3. CASE i \in Moving(t, s) /\ j \in Moving(t, s)
    BY <2>3, <1>2
  <2> QED
    BY <2>1, <2>2, <2>3
<1> QED
  BY <1>1, <1>3, <1>5, <1>6, <1>7, <1>8 DEF IndexesOK

LEMMA AssociationsCommitted ==
    ASSUME Inv, NEW r \in Requests, NEW t \in Translations, NEW P,
           Retarget(t, pref'), Finish(r, P), UNCHANGED <<tr, sch, reclaim>>,
           assoc \ P \subseteq assoc', assoc' \subseteq LiveTr \X LiveSch,
           pref' \in [Translations -> Schemes \cup {None}],
           \A u \in Translations : pref'[u] # None => <<u, pref'[u]>> \in assoc'
    PROVE  Inv'
<1>1. Typed /\ IndexesOK
  BY TypeParts DEF Inv
<1>2. LiveTr' = LiveTr /\ LiveSch' = LiveSch
  BY DEF LiveTr, LiveSch
<1>3. AssociationsOK' /\ PreferredOK'
  BY <1>2 DEF AssociationsOK, PreferredOK
<1>4. pref'[t] # None => pref'[t] \in LiveSch
  OBVIOUS
<1>5. /\ idx' \in [Ids -> IndexRowSet] /\ LiveIdx' = LiveIdx
      /\ \A i \in LiveIdx : idx'[i].tr = idx[i].tr /\ idx'[i].scheme \in LiveSch
      /\ PairsDiffer'
  BY <1>4, Retargeting
<1>6. IndexesOK'
  BY <1>1, <1>2, <1>5 DEF IndexesOK
<1>7. NamesDiffer' /\ SchemesOK'
  BY <1>2, TypeParts DEF Inv, NamesDiffer, SchemesOK
<1>8. HeldAreThere'
  BY FinishingHolds
<1>9. Typed'
  BY <1>1, <1>5, Finishing DEF Typed
<1>10. Shipped'
  BY <1>1, Finishing, SameIngredients
<1> QED
  BY <1>3, <1>5, <1>6, <1>7, <1>8, <1>9, <1>10, Whole DEF Parts

(* What the commits of an association, a preference and a dissociation leave    *)
(* of the associations and of the preferred schemes.                          *)
LEMMA AssociateWrites ==
    ASSUME Inv, NEW r \in Requests, CommitAssociate(r)
    PROVE  LET t == req[r].tr  s == req[r].scheme
           IN  /\ t \in LiveTr /\ t \in Translations /\ s \in LiveSch /\ s \in Schemes
               /\ assoc' = assoc \cup {<<t, s>>}
               /\ pref' \in [Translations -> Schemes \cup {None}]
               /\ pref'[t] = IF req[r].flag THEN s ELSE pref[t]
               /\ \A u \in Translations \ {t} : pref'[u] = pref[u]
               /\ Retarget(t, pref') /\ Finish(r, {}) /\ UNCHANGED <<tr, sch, reclaim>>
<1> DEFINE t == req[r].tr
           s == req[r].scheme
<1>1. /\ t \in LiveTr /\ s \in LiveSch /\ assoc' = assoc \cup {<<t, s>>}
      /\ pref' = [pref EXCEPT ![t] = IF req[r].flag THEN s ELSE @]
      /\ Retarget(t, pref') /\ Finish(r, {}) /\ UNCHANGED <<tr, sch, reclaim>>
  BY DEF CommitAssociate
<1>2. t \in Translations /\ s \in Schemes
  BY <1>1 DEF LiveTr, LiveSch
<1>3. pref \in [Translations -> Schemes \cup {None}]
  BY TypeParts DEF Inv, Typed
<1>4. /\ pref' \in [Translations -> Schemes \cup {None}]
      /\ pref'[t] = IF req[r].flag THEN s ELSE pref[t]
      /\ \A u \in Translations \ {t} : pref'[u] = pref[u]
  BY <1>1, <1>2, <1>3
<1> QED
  BY <1>1, <1>2, <1>4

LEMMA PreferWrites ==
    ASSUME Inv, NEW r \in Requests, CommitMakePreferred(r)
    PROVE  LET t == req[r].tr  s == req[r].scheme
           IN  /\ t \in Translations /\ s \in Schemes \cup {None}
               /\ pref' \in [Translations -> Schemes \cup {None}]
               /\ \/ pref'[t] = s /\ (<<t, s>> \in assoc)
                  \/ /\ pref'[t] = None
                     /\ req[r].flag /\ (pref[t] # s \/ ~ req[r].held)
               /\ \A u \in Translations \ {t} : pref'[u] = pref[u]
               /\ Retarget(t, pref') /\ Finish(r, {}) /\ UNCHANGED <<tr, sch, assoc, reclaim>>
<1> DEFINE t == req[r].tr
           s == req[r].scheme
<1>1. /\ req[r].held \/ req[r].flag
      /\ pref' = [pref EXCEPT ![t] =
                   IF ~req[r].flag \/ (@ = s /\ req[r].held) THEN s ELSE None]
      /\ Retarget(t, pref') /\ Finish(r, {}) /\ UNCHANGED <<tr, sch, assoc, reclaim>>
  BY DEF CommitMakePreferred
<1>2. Typed
  BY TypeParts DEF Inv
<1>3. req[r].op \in Ops
  BY DEF CommitMakePreferred, Ops
<1>4. t \in Translations /\ s \in Schemes \cup {None}
  BY <1>2, <1>3, BusyRequest
<1>5. req[r].held => <<t, s>> \in assoc
  BY DEF Inv, HeldAreThere
<1>6. /\ pref' \in [Translations -> Schemes \cup {None}]
      /\ pref'[t] = IF ~req[r].flag \/ (pref[t] = s /\ req[r].held) THEN s ELSE None
      /\ \A u \in Translations \ {t} : pref'[u] = pref[u]
  BY <1>1, <1>2, <1>4 DEF Typed
<1> QED
  BY <1>1, <1>4, <1>5, <1>6

LEMMA DissociateWrites ==
    ASSUME Inv, NEW r \in Requests, CommitDissociate(r)
    PROVE  LET t == req[r].tr  s == req[r].scheme
               P == IF req[r].held THEN {<<t, s>>} ELSE {}
           IN  /\ t \in Translations
               /\ assoc' = assoc \ P
               /\ pref' \in [Translations -> Schemes \cup {None}]
               /\ pref'[t] = IF <<t, pref[t]>> \in P THEN None ELSE pref[t]
               /\ \A u \in Translations \ {t} : pref'[u] = pref[u]
               /\ Retarget(t, pref') /\ Finish(r, P) /\ UNCHANGED <<tr, sch, reclaim>>
<1> DEFINE t == req[r].tr
           s == req[r].scheme
           P == IF req[r].held THEN {<<t, s>>} ELSE {}
<1>1. /\ assoc' = assoc \ P
      /\ pref' = [pref EXCEPT ![t] = IF <<t, @>> \in P THEN None ELSE @]
      /\ Retarget(t, pref') /\ Finish(r, P) /\ UNCHANGED <<tr, sch, reclaim>>
  BY DEF CommitDissociate
<1>2. Typed
  BY TypeParts DEF Inv
<1>3. req[r].op \in Ops
  BY DEF CommitDissociate, Ops
<1>4. t \in Translations
  BY <1>2, <1>3, BusyRequest
<1> HIDE DEF P
<1>5. /\ pref' \in [Translations -> Schemes \cup {None}]
      /\ pref'[t] = IF <<t, pref[t]>> \in P THEN None ELSE pref[t]
      /\ \A u \in Translations \ {t} : pref'[u] = pref[u]
  BY <1>1, <1>2, <1>4 DEF Typed
<1> QED
  BY <1>1, <1>4, <1>5 DEF P

LEMMA AssociateKeeps == ASSUME Inv, NEW r \in Requests, CommitAssociate(r) PROVE Inv'
<1>1. AssociationsOK /\ PreferredOK
  BY TypeParts DEF Inv
<1> DEFINE t == req[r].tr
           s == req[r].scheme
<1>2. /\ t \in LiveTr /\ t \in Translations /\ s \in LiveSch /\ s \in Schemes
      /\ assoc' = assoc \cup {<<t, s>>}
      /\ pref' \in [Translations -> Schemes \cup {None}]
      /\ pref'[t] = IF req[r].flag THEN s ELSE pref[t]
      /\ \A u \in Translations \ {t} : pref'[u] = pref[u]
      /\ Retarget(t, pref') /\ Finish(r, {}) /\ UNCHANGED <<tr, sch, reclaim>>
  BY AssociateWrites
<1>3. assoc \ {} \subseteq assoc' /\ assoc' \subseteq LiveTr \X LiveSch
  BY <1>1, <1>2 DEF AssociationsOK
<1>4. \A u \in Translations : pref'[u] # None => <<u, pref'[u]>> \in assoc'
  BY <1>1, <1>2 DEF PreferredOK
<1> QED
  BY <1>2, <1>3, <1>4, AssociationsCommitted

LEMMA PreferKeeps == ASSUME Inv, NEW r \in Requests, CommitMakePreferred(r) PROVE Inv'
<1>1. AssociationsOK /\ PreferredOK
  BY TypeParts DEF Inv
<1> DEFINE t == req[r].tr
           s == req[r].scheme
<1>2. /\ t \in Translations
      /\ pref' \in [Translations -> Schemes \cup {None}]
      /\ \/ pref'[t] = s /\ (<<t, s>> \in assoc)
         \/ pref'[t] = None
      /\ \A u \in Translations \ {t} : pref'[u] = pref[u]
      /\ Retarget(t, pref') /\ Finish(r, {}) /\ UNCHANGED <<tr, sch, assoc, reclaim>>
  BY PreferWrites
<1>3. assoc \ {} \subseteq assoc' /\ assoc' \subseteq LiveTr \X LiveSch
  BY <1>1, <1>2 DEF AssociationsOK
<1>4. \A u \in Translations : pref'[u] # None => <<u, pref'[u]>> \in assoc'
  BY <1>1, <1>2 DEF PreferredOK
<1> QED
  BY <1>2, <1>3, <1>4, AssociationsCommitted

LEMMA DissociateKeeps == ASSUME Inv, NEW r \in Requests, CommitDissociate(r) PROVE Inv'
<1>1. AssociationsOK /\ PreferredOK
  BY TypeParts DEF Inv
<1> DEFINE t == req[r].tr
           s == req[r].scheme
           P == IF req[r].held THEN {<<t, s>>} ELSE {}
<1>2. /\ t \in Translations
      /\ assoc' = assoc \ P
      /\ pref' \in [Translations -> Schemes \cup {None}]
      /\ pref'[t] = IF <<t, pref[t]>> \in P THEN None ELSE pref[t]
      /\ \A u \in Translations \ {t} : pref'[u] = pref[u]
      /\ Retarget(t, pref') /\ Finish(r, P) /\ UNCHANGED <<tr, sch, reclaim>>
  BY DissociateWrites
<1>3. assoc \ P \subseteq assoc' /\ assoc' \subseteq LiveTr \X LiveSch
  BY <1>1, <1>2 DEF AssociationsOK
<1>4. \A p \in P : p[1] = t
  OBVIOUS
<1> HIDE DEF P
<1>5. \A u \in Translations : pref'[u] # None => <<u, pref'[u]>> \in assoc'
  <2> SUFFICES ASSUME NEW u \in Translations, pref'[u] # None PROVE <<u, pref'[u]>> \in assoc'
    OBVIOUS
  <2>1. pref'[u] = pref[u] /\ <<u, pref[u]>> \notin P
    <3>1. CASE u = t
      BY <3>1, <1>2
    <3>2. CASE u # t
      BY <3>2, <1>2, <1>4
    <3> QED
      BY <3>1, <3>2
  <2>2. <<u, pref[u]>> \in assoc
    BY <2>1, <1>1 DEF PreferredOK
  <2> QED
    BY <2>1, <2>2, <1>2
<1> QED
  BY <1>2, <1>3, <1>5, AssociationsCommitted

LEMMA TranslationDeleted ==
    ASSUME Inv, NEW t \in Translations, tr' = [tr EXCEPT ![t].state = "gone"]
    PROVE  /\ tr' \in [Translations -> TranslationRows] /\ LiveTr' = LiveTr \ {t}
           /\ \A u \in Translations \ {t} : tr'[u] = tr[u]
           /\ NamesDiffer'
<1>1. tr \in [Translations -> TranslationRows] /\ NamesDiffer
  BY TypeParts DEF Inv, Typed
<1>2. [tr[t] EXCEPT !.state = "gone"] \in TranslationRows
      /\ [tr[t] EXCEPT !.state = "gone"].state = "gone"
  BY <1>1 DEF TranslationRows, States
<1>3. /\ tr' \in [Translations -> TranslationRows]
      /\ tr'[t].state = "gone"
      /\ \A u \in Translations \ {t} : tr'[u] = tr[u]
  BY <1>1, <1>2
<1>4. LiveTr' = LiveTr \ {t}
  BY <1>3 DEF LiveTr
<1>5. NamesDiffer'
  BY <1>1, <1>3, <1>4 DEF NamesDiffer, LiveTr
<1> QED
  BY <1>3, <1>4, <1>5

LEMMA DeleteTranslationKeeps ==
    ASSUME Inv, NEW r \in Requests, CommitDeleteTranslation(r) PROVE Inv'
<1> DEFINE t == req[r].tr
           s == req[r].scheme
           P == {p \in assoc : p[1] = t}
           I == {i \in LiveIdx : idx[i].tr = t \/ idx[i].scheme = s}
<1>1. /\ t \in LiveTr /\ BasedOn(t) = {} /\ UsersOf(s) \subseteq {t}
      /\ tr' = [tr EXCEPT ![t].state = "gone"]
      /\ sch' = [x \in Schemes |-> IF x = s THEN [sch[x] EXCEPT !.state = "gone"]
                                   ELSE sch[x]]
      /\ assoc' = assoc \ P /\ pref' = [pref EXCEPT ![t] = None]
      /\ idx' = Dropped(I) /\ reclaim' = reclaim \cup req[r].ixs /\ Finish(r, P)
  BY DEF CommitDeleteTranslation
<1>2. /\ Typed /\ AssociationsOK /\ PreferredOK /\ IndexesOK /\ SchemesOK
      /\ t \in Translations /\ LiveTr \subseteq Translations /\ LiveSch \subseteq Schemes
      /\ LiveIdx \subseteq Ids
  BY <1>1, TypeParts DEF Inv, LiveTr, LiveSch, LiveIdx
<1>3. /\ tr' \in [Translations -> TranslationRows] /\ LiveTr' = LiveTr \ {t}
      /\ NamesDiffer'
  BY <1>1, <1>2, TranslationDeleted
<1>4. /\ sch' \in [Schemes -> SchemeRows] /\ LiveSch' = LiveSch \ {s}
      /\ \A x \in Schemes \ {s} : sch'[x] = sch[x]
      /\ \A x \in Schemes : sch'[x].ingredient = sch[x].ingredient
  BY <1>1, SchemeDeleted
<1>5. /\ idx' \in [Ids -> IndexRowSet] /\ LiveIdx' = LiveIdx \ I /\ PairsDiffer'
      /\ \A i \in Ids \ I : idx'[i] = idx[i]
  <2>1. I \in SUBSET LiveIdx
    OBVIOUS
  <2> QED
    BY <1>1, <2>1, IndexesDropped
<1>6. SchemesOK'
  <2> SUFFICES ASSUME NEW x \in LiveSch'
               PROVE  sch'[x].base \in LiveTr' \cup {None} /\ sch'[x].ingredient # None
    BY DEF SchemesOK
  <2>1. x \in LiveSch /\ x # s /\ sch'[x] = sch[x]
    BY <1>2, <1>4
  <2>2. sch[x].base # t
    BY <1>1, <2>1 DEF BasedOn
  <2> QED
    BY <1>2, <1>3, <2>1, <2>2 DEF SchemesOK
<1>7. AssociationsOK'
  <2>1. ASSUME NEW p \in assoc, p \notin P PROVE p \in (LiveTr \ {t}) \X (LiveSch \ {s})
    <3>1. PICK u \in LiveTr, x \in LiveSch : p = <<u, x>>
      BY <1>2, <2>1 DEF AssociationsOK
    <3>2. u # t
      BY <2>1, <3>1
    <3>3. x # s
      BY <1>1, <1>2, <2>1, <3>1, <3>2 DEF UsersOf
    <3> QED
      BY <3>1, <3>2, <3>3
  <2> QED
    BY <1>1, <1>3, <1>4, <2>1 DEF AssociationsOK
<1>8. pref' \in [Translations -> Schemes \cup {None}] /\ pref'[t] = None
      /\ \A u \in Translations \ {t} : pref'[u] = pref[u]
  BY <1>1, <1>2 DEF Typed
<1>9. PreferredOK'
  <2> SUFFICES ASSUME NEW u \in Translations, pref'[u] # None
               PROVE  <<u, pref'[u]>> \in assoc'
    BY DEF PreferredOK
  <2>1. u # t /\ pref'[u] = pref[u]
    BY <1>8
  <2>2. <<u, pref[u]>> \in assoc /\ <<u, pref[u]>> \notin P
    BY <1>2, <2>1 DEF PreferredOK
  <2> QED
    BY <1>1, <2>1, <2>2
<1>10. IndexesOK'
  BY <1>2, <1>3, <1>4, <1>5 DEF IndexesOK
<1>11. req[r].ixs \subseteq Ids
  <2>1. req[r].op \in Ops
    BY DEF CommitDeleteTranslation, Ops
  <2> QED
    BY <1>2, <2>1, BusyRequest
<1>12. Typed'
  BY <1>1, <1>2, <1>3, <1>4, <1>5, <1>8, <1>11, Finishing DEF Typed
<1>13. HeldAreThere'
  BY <1>1, FinishingHolds
<1>14. Shipped'
  BY <1>1, <1>2, <1>4, Finishing, SameIngredients
<1> QED
  BY <1>3, <1>5, <1>6, <1>7, <1>9, <1>10, <1>12, <1>13, <1>14, Whole DEF Parts

LEMMA DeleteSchemeKeeps ==
    ASSUME Inv, NEW r \in Requests, CommitDeleteVersification(r) PROVE Inv'
<1> DEFINE s == req[r].scheme
           I == {i \in LiveIdx : idx[i].scheme = s}
<1>1. /\ UNCHANGED <<tr, assoc, pref>> /\ s \in LiveSch /\ UsersOf(s) = {}
      /\ idx' = Dropped(I) /\ reclaim' = reclaim \cup req[r].ixs
      /\ sch' = [sch EXCEPT ![s].state = "gone"] /\ Finish(r, {}) /\ req[r].op = "drop"
  BY DEF CommitDeleteVersification
<1>2. Typed /\ AssociationsOK /\ PreferredOK /\ IndexesOK /\ SchemesOK /\ NamesDiffer
  BY TypeParts DEF Inv
<1>3. sch' = [x \in Schemes |-> IF x = s THEN [sch[x] EXCEPT !.state = "gone"] ELSE sch[x]]
  BY <1>1, <1>2 DEF Typed, LiveSch
<1>4. /\ sch' \in [Schemes -> SchemeRows] /\ LiveSch' = LiveSch \ {s}
      /\ \A x \in Schemes \ {s} : sch'[x] = sch[x]
      /\ \A x \in Schemes : sch'[x].ingredient = sch[x].ingredient
  BY <1>3, SchemeDeleted
<1>5. /\ idx' \in [Ids -> IndexRowSet] /\ LiveIdx' = LiveIdx \ I /\ PairsDiffer'
      /\ \A i \in Ids \ I : idx'[i] = idx[i]
  <2>1. I \in SUBSET LiveIdx
    OBVIOUS
  <2> QED
    BY <1>1, <2>1, IndexesDropped
<1>6. LiveTr' = LiveTr
  BY <1>1 DEF LiveTr
<1>7. NamesDiffer' /\ PreferredOK'
  BY <1>1, <1>2 DEF NamesDiffer, LiveTr, PreferredOK
<1>8. SchemesOK'
  BY <1>2, <1>4, <1>6 DEF SchemesOK, LiveSch
<1>9. AssociationsOK'
  <2>1. ASSUME NEW p \in assoc PROVE p \in LiveTr \X (LiveSch \ {s})
    <3>1. PICK t \in LiveTr, x \in LiveSch : p = <<t, x>>
      BY <1>2, <2>1 DEF AssociationsOK
    <3>2. x # s
      BY <1>1, <2>1, <3>1 DEF UsersOf, LiveTr
    <3> QED
      BY <3>1, <3>2
  <2> QED
    BY <1>1, <1>4, <1>6, <2>1 DEF AssociationsOK
<1>10. IndexesOK'
  BY <1>2, <1>4, <1>5, <1>6 DEF IndexesOK, LiveIdx
<1>11. Typed'
  <2>1. req[r].ixs \subseteq Ids
    BY <1>1, <1>2, DropRequest
  <2> QED
    BY <1>1, <1>2, <1>4, <1>5, <2>1, Finishing DEF Typed
<1>12. Parts'
  BY <1>5, <1>7, <1>8, <1>9, <1>10 DEF Parts
<1>13. HeldAreThere'
  BY <1>1, FinishingHolds
<1>14. Shipped'
  BY <1>1, <1>2, <1>4, Finishing, SameIngredients
<1> QED
  BY <1>11, <1>12, <1>13, <1>14, Whole

LEMMA CreateIndexKeeps ==
    ASSUME Inv, NEW r \in Requests, NEW i \in Ids, CommitCreateIndex(r, i) PROVE Inv'
<1> DEFINE t == req[r].tr
           s == req[r].scheme
           x == [state |-> "live", tr |-> t, scheme |-> s, explicit |-> req[r].flag]
<1>1. /\ idx[i].state = "none" /\ t \in LiveTr /\ s \in LiveSch /\ ~ Taken(t, s)
      /\ idx' = [idx EXCEPT ![i] = x] /\ Finish(r, {})
      /\ UNCHANGED <<tr, sch, assoc, pref, reclaim>>
  BY DEF CommitCreateIndex
<1>2. Typed /\ IndexesOK /\ PairsDiffer
  BY TypeParts DEF Inv
<1>3. req[r].op \in Ops
  BY DEF CommitCreateIndex, Ops
<1>4. x \in IndexRowSet /\ x.state = "live" /\ x.tr = t /\ x.scheme = s
  BY <1>1, <1>2, <1>3, BusyRequest DEF IndexRowSet, States, LiveSch
<1> HIDE DEF x
<1>5. idx' \in [Ids -> IndexRowSet] /\ idx'[i] = x /\ \A j \in Ids \ {i} : idx'[j] = idx[j]
  BY <1>1, <1>2, <1>4 DEF Typed
<1>6. LiveIdx' = LiveIdx \cup {i} /\ i \notin LiveIdx
  BY <1>1, <1>4, <1>5 DEF LiveIdx
<1>7. LiveTr' = LiveTr /\ LiveSch' = LiveSch
  BY <1>1 DEF LiveTr, LiveSch
<1>8. IndexesOK' /\ PairsDiffer'
  <2>1. \A j \in LiveIdx : idx'[j] = idx[j] /\ <<idx[j].tr, idx[j].scheme>> # <<t, s>>
    BY <1>1, <1>5, <1>6 DEF Taken, LiveIdx
  <2> QED
    BY <1>1, <1>2, <1>4, <1>5, <1>6, <1>7, <2>1 DEF IndexesOK, PairsDiffer
<1>9. NamesDiffer'
  BY <1>1, <1>7, TypeParts DEF Inv, NamesDiffer
<1>10. Parts'
  BY <1>1, <1>7, <1>8, <1>9, ReferencesStay DEF Parts
<1>11. Typed'
  BY <1>1, <1>2, <1>5, Finishing DEF Typed
<1>12. HeldAreThere'
  BY <1>1, FinishingHolds
<1>13. Shipped'
  BY <1>1, <1>2, Finishing, SameIngredients
<1> QED
  BY <1>10, <1>11, <1>12, <1>13, Whole

LEMMA FailKeeps == ASSUME Inv, NEW r \in Requests, Fail(r) PROVE Inv'
<1>1. Finish(r, {}) /\ UNCHANGED <<tr, sch, assoc, pref, idx, reclaim>>
  BY DEF Fail
<1>2. Typed
  BY TypeParts DEF Inv
<1>3. Typed'
  BY <1>1, <1>2, Finishing DEF Typed
<1>4. HeldAreThere' /\ Shipped'
  BY <1>1, <1>2, FinishingHolds, Finishing, SameIngredients
<1> QED
  BY <1>1, <1>3, <1>4, TablesStay, Whole

-----------------------------------------------------------------------------
(* The seed: each canonical name has an anchor T[n] and a scheme S[n]. *)
SeededBy(v, T, S) ==
    /\ \A n \in CanonNames :
          \/ T[n] \in Named(n)
          \/ tr[T[n]].state = "none" /\ Named(n) = {}
    /\ \A n \in CanonNames :
          \/ S[n] \in CanonicalNamed(n)
          \/ sch[S[n]].state = "none" /\ CanonicalNamed(n) = {}
    /\ \A n, m \in CanonNames : n # m => T[n] # T[m] /\ S[n] # S[m]
    /\ \A n \in CanonNames :
          /\ tr'[T[n]] = [state |-> "live", anchor |-> TRUE, name |-> n]
          /\ sch'[S[n]] = SeededScheme(S[n], n, v, T[Org])
          /\ pref'[T[n]] = S[n]
    /\ \A t \in Translations :
          (\A n \in CanonNames : T[n] # t) => tr'[t] = tr[t] /\ pref'[t] = pref[t]
    /\ \A s \in Schemes : (\A n \in CanonNames : S[n] # s) => sch'[s] = sch[s]
    /\ assoc' = assoc \cup {<<T[n], S[n]>> : n \in CanonNames}
    /\ tr' = [t \in Translations |-> tr'[t]]
    /\ pref' = [t \in Translations |-> pref'[t]]
    /\ sch' = [s \in Schemes |-> sch'[s]]

LEMMA FoundRows ==
    ASSUME NEW present, NEW fresh, NEW f, f \in Found(present, fresh), NEW U,
           fresh \subseteq U,
           \A n \in CanonNames : \A x \in present[n] : x \in U /\ x \notin fresh,
           \A n, m \in CanonNames : n # m => \A x \in present[n] : x \notin present[m]
    PROVE  /\ f \in [CanonNames -> U]
           /\ \A n \in CanonNames : \/ f[n] \in present[n]
                                    \/ f[n] \in fresh /\ present[n] = {}
           /\ \A n, m \in CanonNames : n # m => f[n] # f[m]
<1>1. /\ f \in [CanonNames -> fresh \cup UNION {present[n] : n \in CanonNames}]
      /\ \A n \in CanonNames :
            IF present[n] # {} THEN f[n] \in present[n]
            ELSE f[n] \in fresh /\ \A m \in CanonNames \ {n} : f[m] # f[n]
  BY DEF Found
<1>2. \A n \in CanonNames : \/ f[n] \in present[n]
                            \/ f[n] \in fresh /\ present[n] = {}
  BY <1>1
<1>3. ASSUME NEW n \in CanonNames, NEW m \in CanonNames, n # m PROVE f[n] # f[m]
  <2>1. CASE present[n] = {} \/ present[m] = {}
    BY <1>1, <1>3, <2>1
  <2>2. CASE present[n] # {} /\ present[m] # {}
    <3>1. f[n] \in present[n] /\ f[m] \in present[m]
      BY <1>1, <2>2
    <3> QED
      BY <3>1, <1>3
  <2> QED
    BY <2>1, <2>2
<1>4. f \in [CanonNames -> U]
  <2>1. \A n \in CanonNames : f[n] \in U
    BY <1>2
  <2> QED
    BY <1>1, <2>1
<1> QED
  BY <1>2, <1>3, <1>4

LEMMA SeedWrites ==
    ASSUME Inv, NEW v, SeedCanonical(v)
    PROVE  \E T \in [CanonNames -> Translations], S \in [CanonNames -> Schemes] :
              SeededBy(v, T, S)
<1> DEFINE Anchors == Found([n \in CanonNames |-> Named(n)], Fresh(tr))
           Canonicals == Found([n \in CanonNames |-> CanonicalNamed(n)], Fresh(sch))
           Writes(T, S) ==
             /\ tr' = [t \in Translations |->
                          IF \E n \in CanonNames : T[n] = t
                          THEN [state |-> "live", anchor |-> TRUE,
                                name |-> CHOOSE n \in CanonNames : T[n] = t]
                          ELSE tr[t]]
             /\ sch' = [s \in Schemes |->
                          IF \E n \in CanonNames : S[n] = s
                          THEN SeededScheme(s, CHOOSE n \in CanonNames : S[n] = s, v, T[Org])
                          ELSE sch[s]]
             /\ assoc' = assoc \cup {<<T[n], S[n]>> : n \in CanonNames}
             /\ pref' = [t \in Translations |->
                          IF \E n \in CanonNames : T[n] = t
                          THEN S[CHOOSE n \in CanonNames : T[n] = t] ELSE pref[t]]
<1>0. \E T \in Anchors, S \in Canonicals : Writes(T, S)
  BY DEF SeedCanonical
<1> HIDE DEF Anchors, Canonicals, Writes
<1>1. PICK T, S : T \in Anchors /\ S \in Canonicals /\ Writes(T, S)
  BY <1>0
<1> USE DEF Anchors, Canonicals, Writes
<1>2. Typed
  BY TypeParts DEF Inv
<1>3. /\ Fresh(tr) \subseteq Translations /\ Fresh(sch) \subseteq Schemes
      /\ \A t \in Fresh(tr) : tr[t].state = "none"
      /\ \A s \in Fresh(sch) : sch[s].state = "none"
  BY <1>2 DEF Fresh, Typed
<1>4. /\ T \in [CanonNames -> Translations]
      /\ \A n \in CanonNames : T[n] \in Named(n) \/ (T[n] \in Fresh(tr) /\ Named(n) = {})
      /\ \A n, m \in CanonNames : n # m => T[n] # T[m]
  <2>1. PICK P, F : P = [n \in CanonNames |-> Named(n)] /\ F = Fresh(tr)
    OBVIOUS
  <2>2. \A n \in CanonNames : \A x \in P[n] : x \in Translations /\ x \notin F
    BY <1>3, <2>1 DEF Named, LiveTr
  <2>3. \A n, m \in CanonNames : n # m => \A x \in P[n] : x \notin P[m]
    BY <2>1 DEF Named
  <2>4. T \in Found(P, F) /\ F \subseteq Translations
    BY <1>1, <1>3, <2>1
  <2>5. /\ T \in [CanonNames -> Translations]
        /\ \A n \in CanonNames : T[n] \in P[n] \/ (T[n] \in F /\ P[n] = {})
        /\ \A n, m \in CanonNames : n # m => T[n] # T[m]
    BY <2>2, <2>3, <2>4, FoundRows
  <2> QED
    BY <2>1, <2>5
<1>5. /\ S \in [CanonNames -> Schemes]
      /\ \A n \in CanonNames : S[n] \in CanonicalNamed(n)
                               \/ (S[n] \in Fresh(sch) /\ CanonicalNamed(n) = {})
      /\ \A n, m \in CanonNames : n # m => S[n] # S[m]
  <2>1. PICK P, F : P = [n \in CanonNames |-> CanonicalNamed(n)] /\ F = Fresh(sch)
    OBVIOUS
  <2>2. \A n \in CanonNames : \A x \in P[n] : x \in Schemes /\ x \notin F
    BY <1>3, <2>1 DEF CanonicalNamed, LiveSch
  <2>3. \A n, m \in CanonNames : n # m => \A x \in P[n] : x \notin P[m]
    BY <2>1 DEF CanonicalNamed
  <2>4. S \in Found(P, F) /\ F \subseteq Schemes
    BY <1>1, <1>3, <2>1
  <2>5. /\ S \in [CanonNames -> Schemes]
        /\ \A n \in CanonNames : S[n] \in P[n] \/ (S[n] \in F /\ P[n] = {})
        /\ \A n, m \in CanonNames : n # m => S[n] # S[m]
    BY <2>2, <2>3, <2>4, FoundRows
  <2> QED
    BY <2>1, <2>5
<1>6. ASSUME NEW n \in CanonNames
      PROVE  /\ tr'[T[n]] = [state |-> "live", anchor |-> TRUE, name |-> n]
             /\ sch'[S[n]] = SeededScheme(S[n], n, v, T[Org])
             /\ pref'[T[n]] = S[n]
  <2>1. T[n] \in Translations /\ S[n] \in Schemes
    BY <1>4, <1>5
  <2>2. (CHOOSE m \in CanonNames : T[m] = T[n]) = n
    BY <1>4
  <2>3. (CHOOSE m \in CanonNames : S[m] = S[n]) = n
    BY <1>5
  <2> QED
    BY <1>1, <2>1, <2>2, <2>3
<1>7. \A t \in Translations :
          (\A n \in CanonNames : T[n] # t) => tr'[t] = tr[t] /\ pref'[t] = pref[t]
  BY <1>1
<1>8. \A s \in Schemes : (\A n \in CanonNames : S[n] # s) => sch'[s] = sch[s]
  BY <1>1
<1>9. SeededBy(v, T, S)
  <2>1. \A n \in CanonNames : \/ T[n] \in Named(n)
                              \/ tr[T[n]].state = "none" /\ Named(n) = {}
    BY <1>3, <1>4
  <2>2. \A n \in CanonNames : \/ S[n] \in CanonicalNamed(n)
                              \/ sch[S[n]].state = "none" /\ CanonicalNamed(n) = {}
    BY <1>3, <1>5
  <2>3. assoc' = assoc \cup {<<T[n], S[n]>> : n \in CanonNames}
    BY <1>1
  <2>4. /\ tr' = [t \in Translations |-> tr'[t]]
        /\ pref' = [t \in Translations |-> pref'[t]]
        /\ sch' = [s \in Schemes |-> sch'[s]]
    BY <1>1
  <2> QED
    BY <1>4, <1>5, <1>6, <1>7, <1>8, <2>1, <2>2, <2>3, <2>4 DEF SeededBy
<1> QED
  BY <1>4, <1>5, <1>9

LEMMA SeededIsScheme ==
    ASSUME Typed, NEW s \in Schemes, NEW n \in CanonNames, NEW v \in 1..MaxPackage,
           NEW org \in Translations
    PROVE  LET x == SeededScheme(s, n, v, org)
           IN  /\ x \in SchemeRows /\ x.state = "live" /\ x.name = n /\ x.canonical
               /\ x.base = IF n = Org THEN None ELSE org
               /\ x.ingredient = Packaged(n, v) /\ x.source = Packaged(n, v)
               /\ x.rows = IF sch[s].state = "live" THEN sch[s].rows ELSE Packaged(n, v)
<1>1. n \in Names
  BY CatalogAssumption
<1>2. sch[s].rows \in Ingredients \cup {None}
  BY DEF Typed, SchemeRows
<1> QED
  BY <1>1, <1>2, PackagedIsIngredient DEF SeededScheme, SchemeRows, States

(* The tables after a start. *)
LEMMA BootWrites ==
    ASSUME Inv, NEW v \in 1..MaxPackage,
           NEW T \in [CanonNames -> Translations], NEW S \in [CanonNames -> Schemes],
           SeededBy(v, T, S)
    PROVE  /\ tr' \in [Translations -> TranslationRows]
           /\ sch' \in [Schemes -> SchemeRows]
           /\ pref' \in [Translations -> Schemes \cup {None}]
           /\ LiveTr' = LiveTr \cup {T[n] : n \in CanonNames}
           /\ LiveSch' = LiveSch \cup {S[n] : n \in CanonNames}
<1>1. Typed
  BY TypeParts DEF Inv
<1>2. Org \in CanonNames /\ CanonNames \subseteq Names
  BY CatalogAssumption
<1>3. /\ \A t \in Translations :
            (\A n \in CanonNames : T[n] # t) => tr'[t] = tr[t] /\ pref'[t] = pref[t]
      /\ \A s \in Schemes : (\A n \in CanonNames : S[n] # s) => sch'[s] = sch[s]
      /\ \A n \in CanonNames :
            /\ tr'[T[n]] = [state |-> "live", anchor |-> TRUE, name |-> n]
            /\ sch'[S[n]] = SeededScheme(S[n], n, v, T[Org])
            /\ pref'[T[n]] = S[n]
  BY DEF SeededBy
<1>4. \A n \in CanonNames :
         /\ SeededScheme(S[n], n, v, T[Org]) \in SchemeRows
         /\ SeededScheme(S[n], n, v, T[Org]).state = "live"
  BY <1>1, <1>2, SeededIsScheme
<1>5. \A n \in CanonNames :
         [state |-> "live", anchor |-> TRUE, name |-> n] \in TranslationRows
  BY <1>2 DEF TranslationRows, States
<1>6. \A t \in Translations : tr'[t] \in TranslationRows
                              /\ pref'[t] \in Schemes \cup {None}
  <2> SUFFICES ASSUME NEW t \in Translations
               PROVE  tr'[t] \in TranslationRows /\ pref'[t] \in Schemes \cup {None}
    OBVIOUS
  <2>1. CASE \E n \in CanonNames : T[n] = t
    <3>1. PICK n \in CanonNames : T[n] = t
      BY <2>1
    <3>2. tr'[t] = [state |-> "live", anchor |-> TRUE, name |-> n] /\ pref'[t] = S[n]
      BY <3>1, <1>3
    <3> QED
      BY <3>2, <1>5
  <2>2. CASE \A n \in CanonNames : T[n] # t
    BY <2>2, <1>1, <1>3 DEF Typed
  <2> QED
    BY <2>1, <2>2
<1>7. \A s \in Schemes : sch'[s] \in SchemeRows
  <2> SUFFICES ASSUME NEW s \in Schemes PROVE sch'[s] \in SchemeRows
    OBVIOUS
  <2>1. CASE \E n \in CanonNames : S[n] = s
    <3>1. PICK n \in CanonNames : S[n] = s
      BY <2>1
    <3>2. sch'[s] = SeededScheme(S[n], n, v, T[Org])
      BY <3>1, <1>3
    <3> QED
      BY <3>2, <1>4
  <2>2. CASE \A n \in CanonNames : S[n] # s
    BY <2>2, <1>1, <1>3 DEF Typed
  <2> QED
    BY <2>1, <2>2
<1>8. /\ tr' = [t \in Translations |-> tr'[t]]
      /\ pref' = [t \in Translations |-> pref'[t]]
      /\ sch' = [s \in Schemes |-> sch'[s]]
  BY DEF SeededBy
<1>9. LiveTr' = LiveTr \cup {T[n] : n \in CanonNames}
  <2>1. \A n \in CanonNames : tr'[T[n]].state = "live" /\ T[n] \in Translations
    <3> SUFFICES ASSUME NEW n \in CanonNames
                 PROVE  tr'[T[n]].state = "live" /\ T[n] \in Translations
      OBVIOUS
    <3>1. tr'[T[n]] = [state |-> "live", anchor |-> TRUE, name |-> n]
      BY <1>3
    <3> QED
      BY <3>1
  <2>2. \A t \in Translations : (\A n \in CanonNames : T[n] # t) => tr'[t] = tr[t]
    BY <1>3
  <2> QED
    BY <2>1, <2>2 DEF LiveTr
<1>10. LiveSch' = LiveSch \cup {S[n] : n \in CanonNames}
  <2>1. \A n \in CanonNames : sch'[S[n]].state = "live" /\ S[n] \in Schemes
    <3> SUFFICES ASSUME NEW n \in CanonNames
                 PROVE  sch'[S[n]].state = "live" /\ S[n] \in Schemes
      OBVIOUS
    <3>1. sch'[S[n]] = SeededScheme(S[n], n, v, T[Org])
      BY <1>3
    <3> QED
      BY <3>1, <1>4
  <2>2. \A s \in Schemes : (\A n \in CanonNames : S[n] # s) => sch'[s] = sch[s]
    BY <1>3
  <2> QED
    BY <2>1, <2>2 DEF LiveSch
<1> QED
  BY <1>6, <1>7, <1>8, <1>9, <1>10

LEMMA BootKeeps ==
    ASSUME Inv, NEW v \in package..MaxPackage, Boot(v) PROVE Inv'
<1>1. /\ SeedCanonical(v) /\ package' = v /\ UNCHANGED <<idx, reclaim, req>>
      /\ spent.boots < MaxBoots /\ spent' = [spent EXCEPT !.boots = @ + 1]
  BY DEF Boot
<1>2. /\ Typed /\ NamesDiffer /\ SchemesOK /\ AssociationsOK /\ PreferredOK /\ IndexesOK
      /\ PairsDiffer /\ Shipped
  BY TypeParts DEF Inv
<1>3. v \in 1..MaxPackage /\ package <= v /\ v \in Nat /\ package \in Nat
  BY <1>2, Bounds DEF Typed
<1>4. PICK T \in [CanonNames -> Translations], S \in [CanonNames -> Schemes] :
           SeededBy(v, T, S)
  BY <1>1, SeedWrites
<1>5. /\ tr' \in [Translations -> TranslationRows]
      /\ sch' \in [Schemes -> SchemeRows]
      /\ pref' \in [Translations -> Schemes \cup {None}]
      /\ LiveTr' = LiveTr \cup {T[n] : n \in CanonNames}
      /\ LiveSch' = LiveSch \cup {S[n] : n \in CanonNames}
  BY <1>3, <1>4, BootWrites
<1>6. /\ \A n \in CanonNames : \/ T[n] \in Named(n)
                               \/ tr[T[n]].state = "none" /\ Named(n) = {}
      /\ \A n, m \in CanonNames : n # m => T[n] # T[m]
      /\ \A n \in CanonNames :
            /\ tr'[T[n]] = [state |-> "live", anchor |-> TRUE, name |-> n]
            /\ sch'[S[n]] = SeededScheme(S[n], n, v, T[Org])
            /\ pref'[T[n]] = S[n]
      /\ \A t \in Translations :
            (\A n \in CanonNames : T[n] # t) => tr'[t] = tr[t] /\ pref'[t] = pref[t]
      /\ \A s \in Schemes : (\A n \in CanonNames : S[n] # s) => sch'[s] = sch[s]
      /\ assoc' = assoc \cup {<<T[n], S[n]>> : n \in CanonNames}
  BY <1>4 DEF SeededBy
<1>7. Org \in CanonNames
  BY CatalogAssumption
<1>8. \A n \in CanonNames : /\ sch'[S[n]].base \in LiveTr' \cup {None}
                            /\ sch'[S[n]].ingredient = Packaged(n, v)
  <2> SUFFICES ASSUME NEW n \in CanonNames
               PROVE  /\ sch'[S[n]].base \in LiveTr' \cup {None}
                      /\ sch'[S[n]].ingredient = Packaged(n, v)
    OBVIOUS
  <2> DEFINE x == SeededScheme(S[n], n, v, T[Org])
  <2>1. x.base \in {None, T[Org]} /\ x.ingredient = Packaged(n, v)
    BY <1>2, <1>3, <1>7, SeededIsScheme
  <2> HIDE DEF x
  <2>2. sch'[S[n]] = x
    BY <1>6 DEF x
  <2> QED
    BY <1>5, <1>7, <2>1, <2>2
<1>9. \A n \in CanonNames : tr'[T[n]].name = n
  <2> SUFFICES ASSUME NEW n \in CanonNames PROVE tr'[T[n]].name = n
    OBVIOUS
  <2>1. tr'[T[n]] = [state |-> "live", anchor |-> TRUE, name |-> n]
    BY <1>6
  <2> QED
    BY <2>1
<1>10. NamesDiffer'
  <2>1. ASSUME NEW n \in CanonNames, NEW u \in LiveTr', T[n] # u PROVE tr'[u].name # n
    <3>1. CASE \E m \in CanonNames : T[m] = u
      BY <3>1, <1>9, <2>1
    <3>2. CASE \A m \in CanonNames : T[m] # u
      <4>1. u \in LiveTr /\ u \in Translations
        BY <3>2, <1>5 DEF LiveTr
      <4>2. tr'[u] = tr[u]
        BY <3>2, <4>1, <1>6
      <4>3. ASSUME tr[u].name = n PROVE FALSE
        <5>1. u \in Named(n)
          BY <4>1, <4>3 DEF Named
        <5>2. T[n] \in LiveTr /\ tr[T[n]].name = n
          BY <5>1, <1>6 DEF Named
        <5> QED
          BY <5>2, <4>1, <4>3, <2>1, <1>2 DEF NamesDiffer
      <4> QED
        BY <4>2, <4>3
    <3> QED
      BY <3>1, <3>2
  <2> SUFFICES ASSUME NEW t \in LiveTr', NEW u \in LiveTr', t # u
               PROVE  tr'[t].name # tr'[u].name
    BY DEF NamesDiffer
  <2>2. CASE \E n \in CanonNames : T[n] = t
    BY <2>1, <2>2, <1>9
  <2>3. CASE \E n \in CanonNames : T[n] = u
    BY <2>1, <2>3, <1>9
  <2>4. CASE \A n \in CanonNames : T[n] # t /\ T[n] # u
    <3>1. t \in LiveTr /\ u \in LiveTr /\ t \in Translations /\ u \in Translations
      BY <2>4, <1>5 DEF LiveTr
    <3>2. tr'[t] = tr[t] /\ tr'[u] = tr[u]
      BY <2>4, <3>1, <1>6
    <3> QED
      BY <3>1, <3>2, <1>2 DEF NamesDiffer
  <2> QED
    BY <2>2, <2>3, <2>4
<1>11. SchemesOK'
  <2> SUFFICES ASSUME NEW s \in LiveSch'
               PROVE  sch'[s].base \in LiveTr' \cup {None} /\ sch'[s].ingredient # None
    BY DEF SchemesOK
  <2>1. CASE \E n \in CanonNames : S[n] = s
    <3>1. PICK n \in CanonNames : S[n] = s
      BY <2>1
    <3>2. Packaged(n, v) # None
      BY <1>3, PackagedIsIngredient
    <3> QED
      BY <3>1, <3>2, <1>8
  <2>2. CASE \A n \in CanonNames : S[n] # s
    <3>1. s \in LiveSch /\ s \in Schemes
      BY <2>2, <1>5 DEF LiveSch
    <3>2. sch'[s] = sch[s]
      BY <2>2, <3>1, <1>6
    <3> QED
      BY <3>1, <3>2, <1>2, <1>5 DEF SchemesOK
  <2> QED
    BY <2>1, <2>2
<1>12. AssociationsOK'
  BY <1>2, <1>5, <1>6 DEF AssociationsOK
<1>13. PreferredOK'
  <2> SUFFICES ASSUME NEW t \in Translations, pref'[t] # None PROVE <<t, pref'[t]>> \in assoc'
    BY DEF PreferredOK
  <2>1. CASE \E n \in CanonNames : T[n] = t
    <3>1. PICK n \in CanonNames : T[n] = t
      BY <2>1
    <3>2. pref'[t] = S[n]
      BY <3>1, <1>6
    <3>3. <<T[n], S[n]>> \in assoc'
      BY <1>6
    <3> QED
      BY <3>1, <3>2, <3>3
  <2>2. CASE \A n \in CanonNames : T[n] # t
    <3>1. pref'[t] = pref[t]
      BY <2>2, <1>6
    <3> QED
      BY <3>1, <1>2, <1>6 DEF PreferredOK
  <2> QED
    BY <2>1, <2>2
<1>14. IndexesOK' /\ PairsDiffer'
  BY <1>1, <1>2, <1>5 DEF IndexesOK, PairsDiffer, LiveIdx
<1>15. Typed'
  BY <1>1, <1>2, <1>3, <1>5, Counting DEF Typed
<1>16. HeldAreThere'
  BY <1>1, <1>6, SameRequests
<1>17. Shipped'
  <2> SUFFICES ASSUME NEW s \in Schemes, sch'[s].ingredient # None
               PROVE  sch'[s].ingredient.version <= v
    BY <1>1 DEF Shipped
  <2>1. CASE \E n \in CanonNames : S[n] = s
    <3>1. PICK n \in CanonNames : S[n] = s
      BY <2>1
    <3> QED
      BY <3>1, <1>3, <1>8, PackagedIsIngredient
  <2>2. CASE \A n \in CanonNames : S[n] # s
    <3>1. sch'[s] = sch[s]
      BY <2>2, <1>6
    <3>2. sch[s].ingredient \in Ingredients
      BY <2>2, <3>1, <1>2 DEF Typed, SchemeRows
    <3>3. sch[s].ingredient.version \in Nat
      BY <3>2, Bounds DEF Ingredients, Upload, Packaged
    <3>4. sch[s].ingredient.version <= package
      BY <3>1, <1>2 DEF Shipped
    <3> QED
      BY <3>1, <3>3, <3>4, <1>3
  <2> QED
    BY <2>1, <2>2
<1> QED
  BY <1>10, <1>11, <1>12, <1>13, <1>14, <1>15, <1>16, <1>17, Whole DEF Parts

-----------------------------------------------------------------------------
LEMMA InitInv == Init => Inv
<1> SUFFICES ASSUME Init PROVE Inv
  OBVIOUS
<1>1. /\ tr = Start.tr /\ sch = Start.sch /\ assoc = Start.assoc
      /\ pref = Start.pref /\ idx = Start.idx
      /\ reclaim = {} /\ req = [r \in Requests |-> Idle]
      /\ package = 1 /\ spent = [calls |-> 0, boots |-> 0]
  BY DEF Init
<1>2. Consistent(tr, sch, assoc, pref, idx)
  BY <1>1, StartAssumption
<1>3. /\ tr \in [Translations -> TranslationRows] /\ sch \in [Schemes -> SchemeRows]
      /\ pref \in [Translations -> Schemes \cup {None}] /\ idx \in [Ids -> IndexRowSet]
  BY <1>1, StartAssumption
<1>4. req \in [Requests -> RequestRows]
  BY <1>1 DEF RequestRows
<1>5. package \in 1..MaxPackage /\ spent \in [calls : 0..MaxCalls, boots : 0..MaxBoots]
  BY <1>1, Bounds
<1>6. HeldAreThere
  BY <1>1 DEF HeldAreThere, Idle
<1>7. Shipped
  BY <1>1, StartAssumption DEF Shipped
<1> QED
  BY <1>1, <1>2, <1>3, <1>4, <1>5, <1>6, <1>7 DEF Inv, TypeOK

LEMMA EditKeeps == ASSUME Inv, EditCatalog PROVE Inv'
<1>1. /\ Fresh(tr) \subseteq Translations /\ LiveTr \subseteq Translations
      /\ Fresh(sch) \subseteq Schemes
  BY TypeParts DEF Inv, Typed, Fresh, LiveTr
<1>2. ASSUME NEW n \in Names, NEW t \in Translations,
             CreateTranslation(t, n) \/ UpdateTranslation(t, n)
      PROVE  Inv'
  BY <1>2, TranslationsKeep
<1>3. ASSUME NEW n \in Names, NEW s \in Schemes, NEW b \in Translations,
             UploadVersification(s, n, b)
      PROVE  Inv'
  BY <1>3, UploadKeeps
<1>4. ASSUME NEW n \in Names, NEW s \in Schemes, NEW b \in Translations, NEW t \in Translations,
             IngestProject(t, s, n, b)
      PROVE  Inv'
  BY <1>4, IngestKeeps
<1>5. ASSUME NEW s \in LiveSch,
             (\E n \in Names : UpdateVersification(s, n)) \/ AttachSource(s)
      PROVE  Inv'
  BY <1>5, SchemeEditsKeep
<1>6. ASSUME NEW i \in LiveIdx, DeleteIndex(i) \/ \E s \in LiveSch : PinIndex(i, s)
      PROVE  Inv'
  BY <1>6, DeleteIndexKeeps, PinKeeps
<1> QED
  BY <1>1, <1>2, <1>3, <1>4, <1>5, <1>6 DEF EditCatalog

LEMMA CommitKeeps == ASSUME Inv, NEW r \in Requests, Commit(r) PROVE Inv'
<1>1. Fresh(idx) \subseteq Ids
  BY TypeParts DEF Inv, Typed, Fresh
<1> QED
  BY <1>1, AssociateKeeps, PreferKeeps, DissociateKeeps, DeleteTranslationKeeps,
     DeleteSchemeKeeps, CreateIndexKeeps DEF Commit

LEMMA LoadKeeps == ASSUME Inv, NEW r \in Requests, Load(r) PROVE Inv'
<1>1. PICK op, t, s, flag : \E ixs \in SUBSET Ids :
              /\ Begin(r, op, t, s, flag, ixs) /\ Request(op, t, s, flag)
              /\ op \in {"prefer", "dissociate"} => <<t, s>> \in assoc
              /\ op = "dissociate" => pref[t] # s
              /\ op = "prefer" => (flag => pref[t] = s)
              /\ op = "associate" => (~ flag => SchemesOf(t) # {})
  BY LoadBegins, Zenon
<1>2. PICK ixs \in SUBSET Ids :
              /\ Begin(r, op, t, s, flag, ixs) /\ Request(op, t, s, flag)
              /\ op \in {"prefer", "dissociate"} => <<t, s>> \in assoc
  BY <1>1, Zenon
<1> QED
  BY <1>2, Beginning, Zenon

LEMMA StepKeepsInv == Inv /\ [Next]_vars => Inv'
<1> SUFFICES ASSUME Inv, [Next]_vars PROVE Inv'
  OBVIOUS
<1>1. CASE UNCHANGED vars
  <2>1. UNCHANGED <<tr, sch, assoc, pref, idx, reclaim, req, package, spent>>
    BY <1>1 DEF vars
  <2>2. Typed' /\ HeldAreThere' /\ Shipped'
    BY <2>1, TypeParts DEF Inv, Typed, HeldAreThere, Shipped
  <2> QED
    BY <2>1, <2>2, TablesStay, Whole
<1> QED
  BY <1>1, EditKeeps, LoadKeeps, CommitKeeps, FailKeeps, BootKeeps DEF Next

(* The tables satisfy their schema at every commit, whatever the requests      *)
(* decided on rows they had loaded before.                                    *)
THEOREM Invariance == Spec => []Inv
  BY InitInv, StepKeepsInv, PTL DEF Spec

(* The types and the constraints of the schema: unique names of translations,    *)
(* foreign keys, at most one preferred association, one index per pair.       *)
THEOREM SchemaHolds == Spec => []TypeOK
<1>1. Inv => TypeOK
  BY DEF Inv
<1> QED
  BY <1>1, Invariance, PTL

-----------------------------------------------------------------------------
(* The steps one by one, for the action properties. *)
LEMMA StepCases ==
    ASSUME Inv, [Next]_vars
    PROVE  \/ UNCHANGED vars
           \/ \E n \in Names, t \in Translations : CreateTranslation(t, n) \/ UpdateTranslation(t, n)
           \/ \E n \in Names, s \in Schemes, b \in Translations : UploadVersification(s, n, b)
           \/ \E n \in Names, s \in Schemes, b \in Translations, t \in Translations :
                 IngestProject(t, s, n, b)
           \/ \E s \in LiveSch : (\E n \in Names : UpdateVersification(s, n)) \/ AttachSource(s)
           \/ \E i \in LiveIdx : DeleteIndex(i)
           \/ \E i \in LiveIdx, s \in LiveSch : PinIndex(i, s)
           \/ \E r \in Requests : Load(r)
           \/ \E r \in Requests : CommitAssociate(r)
           \/ \E r \in Requests : CommitMakePreferred(r)
           \/ \E r \in Requests : CommitDissociate(r)
           \/ \E r \in Requests : CommitDeleteTranslation(r)
           \/ \E r \in Requests : CommitDeleteVersification(r)
           \/ \E r \in Requests, i \in Ids : CommitCreateIndex(r, i)
           \/ \E r \in Requests : Fail(r)
           \/ \E v \in package..MaxPackage : Boot(v)
<1>1. /\ Fresh(tr) \subseteq Translations /\ LiveTr \subseteq Translations
      /\ Fresh(sch) \subseteq Schemes /\ Fresh(idx) \subseteq Ids
  BY TypeParts DEF Inv, Typed, Fresh, LiveTr
<1>2. CASE UNCHANGED vars
  BY <1>2
<1>3. CASE EditCatalog
  <2>1. PICK n \in Names :
           \/ \E t \in Fresh(tr) : CreateTranslation(t, n)
           \/ \E t \in LiveTr : UpdateTranslation(t, n)
           \/ \E s \in LiveSch : UpdateVersification(s, n)
           \/ \E s \in Fresh(sch), b \in Translations :
                 \/ UploadVersification(s, n, b)
                 \/ \E t \in Fresh(tr) : IngestProject(t, s, n, b)
           \/ \E s \in LiveSch : AttachSource(s)
           \/ \E i \in LiveIdx : DeleteIndex(i) \/ \E s \in LiveSch : PinIndex(i, s)
    BY <1>3, CatalogAssumption DEF EditCatalog
  <2> QED
    BY <1>1, <2>1
<1>4. ASSUME NEW r \in Requests, Commit(r)
      PROVE  \/ CommitAssociate(r) \/ CommitMakePreferred(r) \/ CommitDissociate(r)
             \/ CommitDeleteTranslation(r) \/ CommitDeleteVersification(r)
             \/ \E i \in Ids : CommitCreateIndex(r, i)
  BY <1>1, <1>4 DEF Commit
<1> QED
  BY <1>2, <1>3, <1>4 DEF Next

LEMMA Loading ==
    ASSUME Inv, NEW r \in Requests, Load(r)
    PROVE  /\ UNCHANGED <<tr, sch, assoc, pref, idx, reclaim>>
           /\ req[r] = Idle /\ \A q \in Requests \ {r} : req'[q] = req[q]
           /\ spent'.boots = spent.boots /\ package' = package
           /\ ~ StaleCopy(r)'
<1>1. PICK op, t, s, flag : \E ixs \in SUBSET Ids :
              /\ Begin(r, op, t, s, flag, ixs) /\ Request(op, t, s, flag)
              /\ op \in {"prefer", "dissociate"} => <<t, s>> \in assoc
              /\ op = "dissociate" => pref[t] # s
              /\ op = "prefer" => (flag => pref[t] = s)
              /\ op = "associate" => (~ flag => SchemesOf(t) # {})
  BY LoadBegins
<1>2. /\ UNCHANGED <<tr, sch, assoc, pref, idx, reclaim>>
      /\ req[r] = Idle /\ req'[r].op = op /\ req'[r].tr = t /\ req'[r].scheme = s
      /\ req'[r].flag = flag /\ (req'[r].held <=> op \in {"prefer", "dissociate"})
      /\ \A q \in Requests \ {r} : req'[q] = req[q]
      /\ spent'.boots = spent.boots /\ package' = package
  BY <1>1, Beginning
<1>3. SchemesOf(t)' = SchemesOf(t)
  BY <1>2 DEF SchemesOf
<1>4. ~ StaleCopy(r)'
  BY <1>1, <1>2, <1>3 DEF StaleCopy, SchemesOf
<1> QED
  BY <1>2, <1>4

LEMMA CommitsFinish ==
    ASSUME Inv, NEW r \in Requests,
           \/ CommitAssociate(r) \/ CommitMakePreferred(r) \/ CommitDissociate(r)
           \/ CommitDeleteTranslation(r) \/ CommitDeleteVersification(r) \/ Fail(r)
           \/ \E i \in Ids : CommitCreateIndex(r, i)
    PROVE  /\ \E P : Finish(r, P)
           /\ package' = package /\ spent' = spent /\ req'[r] = Idle
           /\ \A q \in Requests : req'[q] = Idle \/ req'[q].op = req[q].op
<1>1. PICK P : Finish(r, P)
  BY DEF CommitAssociate, CommitMakePreferred, CommitDissociate, CommitDeleteTranslation,
         CommitDeleteVersification, CommitCreateIndex, Fail
<1> QED
  BY <1>1, TypeParts, Finishing DEF Inv

-----------------------------------------------------------------------------
(* Deleted indexes are recorded for the reclaim of their mapping rows. *)
LEMMA DroppedRecorded ==
    ASSUME Inv, NEW i \in LiveIdx, NEW I \in SUBSET LiveIdx, idx' = Dropped(I),
           idx'[i].state = "gone"
    PROVE  i \in I
<1>1. i \in Ids /\ idx[i].state = "live"
  BY DEF LiveIdx
<1>2. i \notin I => idx'[i] = idx[i]
  BY <1>1, IndexesDropped
<1> QED
  BY <1>1, <1>2

LEMMA Unrecorded ==
    ASSUME Inv, [Next]_vars, NEW i \in Ids,
           i \in LiveIdx, idx'[i].state = "gone", i \notin reclaim'
    PROVE  \E r \in Requests :
              /\ req[r].op \in {"delete", "drop"} /\ req'[r] = Idle /\ i \notin req[r].ixs
              /\ idx[i].scheme = req[r].scheme \/ idx[i].tr = req[r].tr
<1>1. idx[i].state = "live"
  BY DEF LiveIdx
<1>2. idx' # idx
  BY <1>1
<1>3. ASSUME NEW r \in Requests, CommitAssociate(r) \/ CommitMakePreferred(r) \/ CommitDissociate(r)
      PROVE  idx'[i].state = idx[i].state
  <2>1. PICK t, p : Retarget(t, p)
    BY <1>3 DEF CommitAssociate, CommitMakePreferred, CommitDissociate
  <2>2. PICK s : idx' = [x \in Ids |-> IF x \in Moving(t, s) THEN [idx[x] EXCEPT !.scheme = s]
                                       ELSE idx[x]]
    BY <2>1 DEF Retarget
  <2>3. idx[i] \in IndexRowSet
    BY TypeParts DEF Inv, Typed
  <2> QED
    BY <2>2, <2>3 DEF IndexRowSet
<1>4. ASSUME NEW r \in Requests, CommitDeleteVersification(r)
      PROVE  /\ req[r].op = "drop" /\ req'[r] = Idle /\ i \notin req[r].ixs
             /\ idx[i].scheme = req[r].scheme
  <2> DEFINE I == {j \in LiveIdx : idx[j].scheme = req[r].scheme}
  <2>1. idx' = Dropped(I) /\ reclaim' = reclaim \cup req[r].ixs /\ req[r].op = "drop"
    BY <1>4 DEF CommitDeleteVersification
  <2>2. I \in SUBSET LiveIdx
    OBVIOUS
  <2>3. i \in I
    BY <2>1, <2>2, DroppedRecorded
  <2> QED
    BY <1>4, <2>1, <2>3, CommitsFinish
<1>5. ASSUME NEW j \in LiveIdx, DeleteIndex(j) PROVE FALSE
  <2>1. idx' = Dropped({j}) /\ reclaim' = reclaim \cup {j} /\ {j} \in SUBSET LiveIdx
    BY <1>5 DEF DeleteIndex
  <2> QED
    BY <2>1, DroppedRecorded
<1>6. ASSUME NEW j \in LiveIdx, NEW s \in LiveSch, PinIndex(j, s) PROVE FALSE
  <2>1. idx' = [idx EXCEPT ![j].scheme = s, ![j].explicit = TRUE]
    BY <1>6 DEF PinIndex
  <2>2. idx \in [Ids -> IndexRowSet]
    BY TypeParts DEF Inv, Typed
  <2>3. idx'[i].state = idx[i].state
    BY <2>1, <2>2 DEF IndexRowSet
  <2> QED
    BY <1>1, <2>3
<1>7. ASSUME NEW r \in Requests, NEW j \in Ids, CommitCreateIndex(r, j) PROVE FALSE
  <2>1. idx[j].state = "none" /\ \E row : idx' = [idx EXCEPT ![j] = row]
    BY <1>7 DEF CommitCreateIndex
  <2>2. idx'[i] = idx[i]
    BY <1>1, <2>1, TypeParts DEF Inv, Typed
  <2> QED
    BY <1>1, <2>2
<1>8. ASSUME NEW r \in Requests, CommitDeleteTranslation(r)
      PROVE  /\ req[r].op = "delete" /\ req'[r] = Idle /\ i \notin req[r].ixs
             /\ idx[i].scheme = req[r].scheme \/ idx[i].tr = req[r].tr
  <2> DEFINE I == {j \in LiveIdx : idx[j].tr = req[r].tr \/ idx[j].scheme = req[r].scheme}
  <2>1. idx' = Dropped(I) /\ reclaim' = reclaim \cup req[r].ixs /\ req[r].op = "delete"
    BY <1>8 DEF CommitDeleteTranslation
  <2>2. I \in SUBSET LiveIdx
    OBVIOUS
  <2>3. i \in I
    BY <2>1, <2>2, DroppedRecorded
  <2> QED
    BY <1>8, <2>1, <2>3, CommitsFinish
<1>9. ASSUME idx' = idx PROVE FALSE
  BY <1>2, <1>9
<1>10. /\ UNCHANGED vars => idx' = idx
       /\ (\E n \in Names, t \in Translations : CreateTranslation(t, n) \/ UpdateTranslation(t, n))
            => idx' = idx
       /\ (\E n \in Names, s \in Schemes, b \in Translations : UploadVersification(s, n, b))
            => idx' = idx
       /\ (\E n \in Names, s \in Schemes, b \in Translations, t \in Translations :
                 IngestProject(t, s, n, b)) => idx' = idx
       /\ (\E s \in LiveSch : (\E n \in Names : UpdateVersification(s, n)) \/ AttachSource(s))
            => idx' = idx
       /\ (\E r \in Requests : Load(r)) => idx' = idx
       /\ (\E r \in Requests : Fail(r)) => idx' = idx
       /\ (\E v \in package..MaxPackage : Boot(v)) => idx' = idx
  BY Loading DEF vars, CreateTranslation, UpdateTranslation, UploadVersification, IngestProject,
     UpdateVersification, AttachSource, Fail, Boot
<1> QED
  BY <1>1, <1>3, <1>4, <1>5, <1>6, <1>7, <1>8, <1>9, <1>10, StepCases

(* Every deleted index is recorded, except by the two cascades. *)
THEOREM DeletedAreRecorded == Spec => UnrecordedOnlyByCascade
<1>1. Inv /\ [Next]_vars =>
         [\A i \in Ids : i \in LiveIdx /\ idx'[i].state = "gone" /\ i \notin reclaim' =>
          \E r \in Requests :
              /\ req[r].op \in {"delete", "drop"} /\ req'[r] = Idle /\ i \notin req[r].ixs
              /\ idx[i].scheme = req[r].scheme \/ idx[i].tr = req[r].tr]_vars
  BY Unrecorded
<1> QED
  BY <1>1, Invariance, PTL DEF Spec, UnrecordedOnlyByCascade
-----------------------------------------------------------------------------
(* No request begins on a wrong copy, and only a wrong copy loses the preferred *)
(* scheme of a translation.                                                    *)
LEMMA IdleIsCurrent == ASSUME NEW r, req'[r] = Idle PROVE ~ StaleCopy(r)'
  BY DEF StaleCopy, Idle

LEMMA IdleOpIsCurrent ==
    ASSUME NEW r, req[r] = Idle, req'[r].op = req[r].op PROVE ~ StaleCopy(r)'
  BY DEF StaleCopy, Idle

LEMMA BeginsCurrent ==
    ASSUME Inv, [Next]_vars, NEW r \in Requests, req[r] = Idle PROVE ~ StaleCopy(r)'
<1>1. ASSUME req' = req PROVE ~ StaleCopy(r)'
  BY <1>1, IdleIsCurrent
<1>2. ASSUME NEW q \in Requests, Load(q) PROVE ~ StaleCopy(r)'
  <2>1. ~ StaleCopy(q)' /\ (r # q => req'[r] = req[r])
    BY <1>2, Loading
  <2> QED
    BY <2>1, IdleIsCurrent
<1>3. ASSUME NEW q \in Requests,
             \/ CommitAssociate(q) \/ CommitMakePreferred(q) \/ CommitDissociate(q)
             \/ CommitDeleteTranslation(q) \/ CommitDeleteVersification(q) \/ Fail(q)
             \/ \E i \in Ids : CommitCreateIndex(q, i)
      PROVE  ~ StaleCopy(r)'
  <2>1. req'[r] = Idle \/ req'[r].op = req[r].op
    BY <1>3, CommitsFinish
  <2> QED
    BY <2>1, IdleIsCurrent, IdleOpIsCurrent
<1>4. /\ UNCHANGED vars => req' = req
      /\ (\E n \in Names, t \in Translations : CreateTranslation(t, n) \/ UpdateTranslation(t, n))
            => req' = req
      /\ (\E n \in Names, s \in Schemes, b \in Translations : UploadVersification(s, n, b))
            => req' = req
      /\ (\E n \in Names, s \in Schemes, b \in Translations, t \in Translations :
                 IngestProject(t, s, n, b)) => req' = req
      /\ (\E s \in LiveSch : (\E n \in Names : UpdateVersification(s, n)) \/ AttachSource(s))
            => req' = req
      /\ (\E i \in LiveIdx : DeleteIndex(i)) => req' = req
      /\ (\E i \in LiveIdx, s \in LiveSch : PinIndex(i, s)) => req' = req
      /\ (\E v \in package..MaxPackage : Boot(v)) => req' = req
  BY DEF vars, CreateTranslation, UpdateTranslation, UploadVersification, IngestProject,
     UpdateVersification, AttachSource, DeleteIndex, PinIndex, Boot
<1> QED
  BY <1>1, <1>2, <1>3, <1>4, StepCases

LEMMA NamesNoScheme ==
    ASSUME Inv, NEW t \in Translations
    PROVE  /\ t \notin LiveTr => SchemesOf(t) = {} /\ pref[t] = None
           /\ \A s : <<t, s>> \in assoc => s \in Schemes /\ s \in LiveSch /\ s # None
<1>1. AssociationsOK /\ PreferredOK
  BY TypeParts DEF Inv
<1>2. ASSUME NEW s, <<t, s>> \in assoc PROVE t \in LiveTr /\ s \in LiveSch
  BY <1>1, <1>2 DEF AssociationsOK
<1>3. LiveSch \subseteq Schemes /\ None \notin Schemes
  BY CatalogAssumption DEF LiveSch
<1>4. ASSUME t \notin LiveTr PROVE SchemesOf(t) = {} /\ pref[t] = None
  BY <1>1, <1>2, <1>4 DEF SchemesOf, PreferredOK
<1> QED
  BY <1>2, <1>3, <1>4

LEMMA PreferredLost ==
    ASSUME Inv, [Next]_vars, NEW t \in Translations, ~ Unpreferred(t), Unpreferred(t)'
    PROVE  \E r \in Requests : req[r].tr = t /\ StaleCopy(r) /\ req'[r] = Idle
<1>1. t \in LiveTr' /\ SchemesOf(t)' # {} /\ pref'[t] = None
  BY DEF Unpreferred
<1>2. ~ (SchemesOf(t) # {} /\ pref[t] = None)
  BY NamesNoScheme DEF Unpreferred
<1>3. ASSUME pref'[t] = pref[t], \A s \in Schemes : <<t, s>> \in assoc' => <<t, s>> \in assoc
      PROVE  FALSE
  <2>1. SchemesOf(t)' \subseteq SchemesOf(t)
    BY <1>3 DEF SchemesOf
  <2> QED
    BY <1>1, <1>2, <1>3, <2>1
<1>4. None \notin Schemes
  BY CatalogAssumption
<1>5. ASSUME NEW n \in Names, NEW s \in Schemes, NEW b \in Translations, NEW u \in Translations,
             IngestProject(u, s, n, b)
      PROVE  FALSE
  <2>1. assoc' = assoc \cup {<<u, s>>} /\ pref' = [pref EXCEPT ![u] = s]
    BY <1>5 DEF IngestProject
  <2>2. pref'[u] = s /\ (t # u => pref'[t] = pref[t])
    BY <2>1, TypeParts DEF Inv, Typed
  <2>3. t # u
    BY <1>1, <1>4, <2>2
  <2> QED
    BY <1>3, <2>1, <2>2, <2>3
<1>6. ASSUME NEW r \in Requests, CommitAssociate(r)
      PROVE  req[r].tr = t /\ StaleCopy(r) /\ req'[r] = Idle
  <2> DEFINE u == req[r].tr
             s == req[r].scheme
  <2>1. /\ s \in Schemes /\ assoc' = assoc \cup {<<u, s>>}
        /\ pref'[u] = IF req[r].flag THEN s ELSE pref[u]
        /\ \A x \in Translations \ {u} : pref'[x] = pref[x]
    BY <1>6, AssociateWrites
  <2>2. u = t
    BY <1>3, <2>1
  <2>3. ~ req[r].flag /\ pref[t] = None
    BY <1>1, <1>4, <2>1, <2>2
  <2>4. SchemesOf(t) = {}
    BY <1>2, <2>3
  <2>5. req[r].op = "associate"
    BY <1>6 DEF CommitAssociate
  <2> QED
    BY <1>6, <2>2, <2>3, <2>4, <2>5, CommitsFinish DEF StaleCopy
<1>7. ASSUME NEW r \in Requests, CommitMakePreferred(r)
      PROVE  req[r].tr = t /\ StaleCopy(r) /\ req'[r] = Idle
  <2> DEFINE u == req[r].tr
             s == req[r].scheme
  <2>1. /\ u \in Translations /\ UNCHANGED assoc
        /\ \/ pref'[u] = s /\ (<<u, s>> \in assoc)
           \/ req[r].flag /\ (pref[u] # s \/ ~ req[r].held)
        /\ \A x \in Translations \ {u} : pref'[x] = pref[x]
    BY <1>7, PreferWrites
  <2>2. u = t
    BY <1>3, <2>1
  <2>3. req[r].flag /\ (pref[t] # s \/ ~ req[r].held)
    BY <1>1, <2>1, <2>2, NamesNoScheme
  <2>4. req[r].op = "prefer"
    BY <1>7 DEF CommitMakePreferred
  <2> QED
    BY <1>7, <2>2, <2>3, <2>4, CommitsFinish DEF StaleCopy
<1>8. ASSUME NEW r \in Requests, CommitDissociate(r)
      PROVE  req[r].tr = t /\ StaleCopy(r) /\ req'[r] = Idle
  <2> DEFINE u == req[r].tr
             s == req[r].scheme
             P == IF req[r].held THEN {<<u, s>>} ELSE {}
  <2>1. /\ assoc' = assoc \ P
        /\ pref'[u] = IF <<u, pref[u]>> \in P THEN None ELSE pref[u]
        /\ \A x \in Translations \ {u} : pref'[x] = pref[x]
    BY <1>8, DissociateWrites
  <2>2. \A x : <<u, x>> \in P => x = s
    OBVIOUS
  <2> HIDE DEF P
  <2>3. u = t
    BY <1>3, <2>1
  <2>4. <<t, pref[t]>> \in P
    BY <1>3, <2>1, <2>3
  <2>5. pref[t] = s
    BY <2>2, <2>3, <2>4
  <2>6. req[r].op = "dissociate"
    BY <1>8 DEF CommitDissociate
  <2> QED
    BY <1>8, <2>3, <2>5, <2>6, CommitsFinish DEF StaleCopy
<1>9. ASSUME NEW r \in Requests, CommitDeleteTranslation(r) PROVE FALSE
  <2>1. /\ assoc' \subseteq assoc /\ tr' = [tr EXCEPT ![req[r].tr].state = "gone"]
        /\ pref' = [pref EXCEPT ![req[r].tr] = None]
        /\ req[r].tr \in Translations
    BY <1>9 DEF CommitDeleteTranslation, LiveTr
  <2>2. req[r].tr # t
    BY <1>1, <2>1, TranslationDeleted
  <2>3. pref'[t] = pref[t]
    BY <2>1, <2>2, TypeParts DEF Inv, Typed
  <2> QED
    BY <1>3, <2>1, <2>3
<1>10. ASSUME NEW v \in package..MaxPackage, Boot(v) PROVE FALSE
  <2>1. PICK T \in [CanonNames -> Translations], S \in [CanonNames -> Schemes] :
             SeededBy(v, T, S)
    BY <1>10, SeedWrites DEF Boot
  <2>2. /\ \A n \in CanonNames : pref'[T[n]] = S[n] /\ S[n] \in Schemes
        /\ (\A n \in CanonNames : T[n] # t) => pref'[t] = pref[t]
        /\ assoc' = assoc \cup {<<T[n], S[n]>> : n \in CanonNames}
    BY <2>1 DEF SeededBy
  <2>3. \A n \in CanonNames : T[n] # t
    <3> SUFFICES ASSUME NEW n \in CanonNames, T[n] = t PROVE FALSE
      OBVIOUS
    <3>1. pref'[t] = S[n] /\ S[n] \in Schemes
      BY <2>2
    <3> QED
      BY <1>1, <1>4, <3>1
  <2>4. ASSUME NEW s \in Schemes, <<t, s>> \in assoc' PROVE <<t, s>> \in assoc
    <3>1. ASSUME NEW n \in CanonNames PROVE <<T[n], S[n]>> # <<t, s>>
      BY <2>3
    <3> QED
      BY <2>2, <2>4, <3>1
  <2> QED
    BY <1>3, <2>2, <2>3, <2>4
<1>11. ASSUME assoc' = assoc, pref' = pref PROVE FALSE
  BY <1>3, <1>11
<1>12. /\ UNCHANGED vars => assoc' = assoc /\ pref' = pref
       /\ (\E n \in Names, u \in Translations : CreateTranslation(u, n) \/ UpdateTranslation(u, n))
            => assoc' = assoc /\ pref' = pref
       /\ (\E n \in Names, s \in Schemes, b \in Translations : UploadVersification(s, n, b))
            => assoc' = assoc /\ pref' = pref
       /\ (\E s \in LiveSch : (\E n \in Names : UpdateVersification(s, n)) \/ AttachSource(s))
            => assoc' = assoc /\ pref' = pref
       /\ (\E r \in Requests : CommitDeleteVersification(r)) => assoc' = assoc /\ pref' = pref
       /\ (\E i \in LiveIdx : DeleteIndex(i)) => assoc' = assoc /\ pref' = pref
       /\ (\E i \in LiveIdx, s \in LiveSch : PinIndex(i, s)) => assoc' = assoc /\ pref' = pref
       /\ (\E r \in Requests : Load(r)) => assoc' = assoc /\ pref' = pref
       /\ (\E r \in Requests, i \in Ids : CommitCreateIndex(r, i)) => assoc' = assoc /\ pref' = pref
       /\ (\E r \in Requests : Fail(r)) => assoc' = assoc /\ pref' = pref
  BY Loading DEF vars, CreateTranslation, UpdateTranslation, UploadVersification,
     UpdateVersification, AttachSource, CommitDeleteVersification, DeleteIndex, PinIndex,
     CommitCreateIndex, Fail
<1> QED
  BY <1>5, <1>6, <1>7, <1>8, <1>9, <1>10, <1>11, <1>12, StepCases

(* A translation keeps its preferred scheme unless a request commits on a copy  *)
(* that others made stale since it was loaded.                                *)
THEOREM PreferredIsKept == Spec => PreferredLostOnlyByStaleCopy
<1>1. Inv /\ [Next]_vars =>
         [/\ \A r \in Requests : req[r] = Idle => ~StaleCopy(r)'
          /\ \A t \in Translations : ~Unpreferred(t) /\ Unpreferred(t)' =>
                \E r \in Requests : req[r].tr = t /\ StaleCopy(r) /\ req'[r] = Idle]_vars
  BY BeginsCurrent, PreferredLost
<1> QED
  BY <1>1, Invariance, PTL DEF Spec, PreferredLostOnlyByStaleCopy
-----------------------------------------------------------------------------
(* The mapping rows of a scheme and its ingredient. *)
LEMMA RowsFall ==
    ASSUME Inv, [Next]_vars, NEW s \in Schemes, ~ (RowsBehind(s)' <=> RowsBehind(s))
    PROVE  \/ /\ ~RowsBehind(s)
              /\ spent'.boots # spent.boots
              /\ \/ sch[s].ingredient.version < package'
                 \/ sch[s].ingredient.of # sch[s].name
           \/ RowsBehind(s) /\ (s \notin LiveSch' \/ spent'.boots # spent.boots)
<1>1. ASSUME sch'[s].state = sch[s].state, sch'[s].rows = sch[s].rows,
             sch'[s].ingredient = sch[s].ingredient
      PROVE  FALSE
  BY <1>1 DEF RowsBehind, LiveSch
<1>2. sch \in [Schemes -> SchemeRows]
  BY TypeParts DEF Inv, Typed
<1>3. ASSUME NEW x \in Schemes, NEW n \in Names, NEW b \in Translations, sch[x].state = "none",
             sch' = [sch EXCEPT ![x] = IngestedScheme(x, n, b)]
      PROVE  FALSE
  <2>1. x # s => sch'[s] = sch[s]
    BY <1>2, <1>3
  <2>2. sch'[x].rows = sch'[x].ingredient
    BY <1>2, <1>3 DEF IngestedScheme
  <2> QED
    BY <1>1, <1>3, <2>1, <2>2 DEF RowsBehind, LiveSch
<1>4. (\E n \in Names, x \in Schemes, b \in Translations : UploadVersification(x, n, b))
         => FALSE
  BY <1>3 DEF UploadVersification
<1>5. (\E n \in Names, x \in Schemes, b \in Translations, t \in Translations :
          IngestProject(t, x, n, b)) => FALSE
  BY <1>3 DEF IngestProject
<1>6. ASSUME NEW x \in LiveSch,
             (\E n \in Names : UpdateVersification(x, n)) \/ AttachSource(x)
      PROVE  FALSE
  <2>1. PICK y \in SchemeRows :
              /\ sch' = [sch EXCEPT ![x] = y]
              /\ y.state = "live" /\ y.rows = sch[x].rows /\ y.ingredient = sch[x].ingredient
    BY <1>6, SchemeEdits
  <2>2. sch'[s] = IF s = x THEN y ELSE sch[s]
    BY <1>2, <2>1
  <2>3. sch[x].state = "live"
    BY DEF LiveSch
  <2> QED
    BY <1>1, <2>1, <2>2, <2>3
<1>7. ASSUME NEW x, sch' = [z \in Schemes |-> IF z = x THEN [sch[z] EXCEPT !.state = "gone"]
                                              ELSE sch[z]]
      PROVE  RowsBehind(s) /\ s \notin LiveSch'
  <2>1. LiveSch' = LiveSch \ {x} /\ \A z \in Schemes \ {x} : sch'[z] = sch[z]
    BY <1>7, SchemeDeleted
  <2>2. s = x
    BY <1>1, <2>1
  <2> QED
    BY <2>1, <2>2 DEF RowsBehind
<1>8. ASSUME NEW r \in Requests, CommitDeleteVersification(r)
      PROVE  RowsBehind(s) /\ s \notin LiveSch'
  <2>1. PICK x \in Schemes : sch' = [sch EXCEPT ![x].state = "gone"]
    BY <1>8 DEF CommitDeleteVersification, LiveSch
  <2>2. sch' = [z \in Schemes |-> IF z = x THEN [sch[z] EXCEPT !.state = "gone"] ELSE sch[z]]
    BY <1>2, <2>1
  <2> QED
    BY <1>7, <2>2
<1>9. ASSUME NEW r \in Requests, CommitDeleteTranslation(r)
      PROVE  RowsBehind(s) /\ s \notin LiveSch'
  <2>1. PICK x : sch' = [z \in Schemes |-> IF z = x THEN [sch[z] EXCEPT !.state = "gone"]
                                          ELSE sch[z]]
    BY <1>9 DEF CommitDeleteTranslation
  <2> QED
    BY <1>7, <2>1
<1>10. ASSUME NEW v \in package..MaxPackage, Boot(v), ~ RowsBehind(s)
       PROVE  \/ sch[s].ingredient.version < package'
              \/ sch[s].ingredient.of # sch[s].name
  <2>1. v \in 1..MaxPackage /\ package <= v /\ v \in Nat /\ package \in Nat /\ package' = v
    BY <1>10, Bounds, TypeParts DEF Inv, Typed, Boot
  <2>2. PICK T \in [CanonNames -> Translations], S \in [CanonNames -> Schemes] :
             SeededBy(v, T, S)
    BY <1>10, SeedWrites DEF Boot
  <2>3. \E n \in CanonNames : S[n] = s
    BY <1>1, <2>2 DEF SeededBy
  <2>4. PICK n \in CanonNames : S[n] = s
    BY <2>3
  <2>5. Org \in CanonNames
    BY CatalogAssumption
  <2>6. /\ sch'[s] = SeededScheme(s, n, v, T[Org])
        /\ S[n] \in CanonicalNamed(n) \/ sch[s].state = "none"
    BY <2>2, <2>4 DEF SeededBy
  <2>7. /\ sch'[s].ingredient = Packaged(n, v)
        /\ sch'[s].rows = IF sch[s].state = "live" THEN sch[s].rows ELSE Packaged(n, v)
    BY <2>1, <2>5, <2>6, SeededIsScheme, TypeParts DEF Inv
  <2>8. sch'[s].rows # sch'[s].ingredient
    BY <1>10 DEF RowsBehind
  <2>9. sch[s].state = "live" /\ sch[s].rows # Packaged(n, v)
    BY <2>7, <2>8
  <2>10. s \in LiveSch
    BY <2>9 DEF LiveSch
  <2>11. sch[s].name = n /\ sch[s].rows = sch[s].ingredient
    BY <1>10, <2>4, <2>6, <2>9, <2>10 DEF CanonicalNamed, RowsBehind
  <2>12. sch[s].ingredient # None
    BY <2>10, TypeParts DEF Inv, SchemesOK
  <2>13. sch[s].ingredient.version <= package
    BY <2>12 DEF Inv, Shipped
  <2>14. sch[s].ingredient \in Ingredients
    BY <1>2, <2>12 DEF SchemeRows
  <2>15. /\ sch[s].ingredient.version \in Nat
         /\ sch[s].ingredient = [of |-> sch[s].ingredient.of, version |-> sch[s].ingredient.version]
    BY <2>14, Bounds DEF Ingredients, Upload, Packaged
  <2>16. SUFFICES ASSUME ~ (sch[s].ingredient.version < v), sch[s].ingredient.of = n
                  PROVE  FALSE
    BY <2>1, <2>11
  <2>17. sch[s].ingredient.version = v
    BY <2>1, <2>13, <2>15, <2>16
  <2>18. sch[s].ingredient = Packaged(n, v)
    BY <2>15, <2>16, <2>17 DEF Packaged
  <2> QED
    BY <2>9, <2>11, <2>18
<1>11. ASSUME NEW v \in package..MaxPackage, Boot(v) PROVE spent'.boots # spent.boots
  <2>1. spent' = [spent EXCEPT !.boots = @ + 1]
    BY <1>11 DEF Boot
  <2> QED
    BY <2>1, Bounds, TypeParts DEF Inv, Typed
<1>12. ASSUME sch' = sch PROVE FALSE
  BY <1>1, <1>12
<1>13. /\ UNCHANGED vars => sch' = sch
       /\ (\E n \in Names, u \in Translations : CreateTranslation(u, n) \/ UpdateTranslation(u, n))
            => sch' = sch
       /\ (\E i \in LiveIdx : DeleteIndex(i)) => sch' = sch
       /\ (\E i \in LiveIdx, x \in LiveSch : PinIndex(i, x)) => sch' = sch
       /\ (\E r \in Requests : Load(r)) => sch' = sch
       /\ (\E r \in Requests : CommitAssociate(r)) => sch' = sch
       /\ (\E r \in Requests : CommitMakePreferred(r)) => sch' = sch
       /\ (\E r \in Requests : CommitDissociate(r)) => sch' = sch
       /\ (\E r \in Requests, i \in Ids : CommitCreateIndex(r, i)) => sch' = sch
       /\ (\E r \in Requests : Fail(r)) => sch' = sch
  BY Loading DEF vars, CreateTranslation, UpdateTranslation, DeleteIndex, PinIndex,
     CommitAssociate, CommitMakePreferred, CommitDissociate, CommitCreateIndex, Fail
<1> QED
  BY <1>4, <1>5, <1>6, <1>8, <1>9, <1>10, <1>11, <1>12, <1>13, StepCases

(* Mapping rows fall behind their ingredient only at a start of the API, and no *)
(* request ever brings them back.                                             *)
THEOREM RowsFollowTheirIngredient == Spec => RowsFallBehindOnlyAtSeed
<1>1. Inv /\ [Next]_vars =>
   [\A s \in Schemes : RowsBehind(s)' # RowsBehind(s) =>
          \/ /\ ~RowsBehind(s)
             /\ spent'.boots # spent.boots
             /\ \/ sch[s].ingredient.version < package'
                \/ sch[s].ingredient.of # sch[s].name
          \/ RowsBehind(s) /\ (s \notin LiveSch' \/ spent'.boots # spent.boots)]_vars
  <2> SUFFICES ASSUME Inv, [Next]_vars, NEW s \in Schemes, RowsBehind(s)' # RowsBehind(s)
               PROVE  \/ /\ ~RowsBehind(s)
                         /\ spent'.boots # spent.boots
                         /\ \/ sch[s].ingredient.version < package'
                            \/ sch[s].ingredient.of # sch[s].name
                      \/ RowsBehind(s) /\ (s \notin LiveSch' \/ spent'.boots # spent.boots)
    OBVIOUS
  <2>1. ~ (RowsBehind(s)' <=> RowsBehind(s))
    <3>1. RowsBehind(s) \in BOOLEAN /\ RowsBehind(s)' \in BOOLEAN
      BY DEF RowsBehind
    <3> QED
      BY <3>1
  <2> QED
    BY <2>1, RowsFall
<1> QED
  BY <1>1, Invariance, PTL DEF Spec, RowsFallBehindOnlyAtSeed
-----------------------------------------------------------------------------
(* Only a start of the API changes the package and seeds. *)
LEMMA BootOnly ==
    ASSUME Inv, [Next]_vars, spent'.boots # spent.boots \/ package' # package
    PROVE  \E v \in package..MaxPackage : Boot(v)
<1>1. ASSUME Call PROVE FALSE
  BY <1>1, CallKeeps
<1>2. /\ (\E n \in Names, t \in Translations : CreateTranslation(t, n) \/ UpdateTranslation(t, n))
            => Call
      /\ (\E n \in Names, s \in Schemes, b \in Translations : UploadVersification(s, n, b))
            => Call
      /\ (\E n \in Names, s \in Schemes, b \in Translations, t \in Translations :
             IngestProject(t, s, n, b)) => Call
      /\ (\E s \in LiveSch : (\E n \in Names : UpdateVersification(s, n)) \/ AttachSource(s))
            => Call
      /\ (\E i \in LiveIdx : DeleteIndex(i)) => Call
      /\ (\E i \in LiveIdx, s \in LiveSch : PinIndex(i, s)) => Call
  BY DEF CreateTranslation, UpdateTranslation, UploadVersification, IngestProject,
     UpdateVersification, AttachSource, DeleteIndex, PinIndex
<1>3. ASSUME NEW r \in Requests, Load(r) PROVE FALSE
  BY <1>3, Loading
<1>4. ASSUME NEW r \in Requests,
             \/ CommitAssociate(r) \/ CommitMakePreferred(r) \/ CommitDissociate(r)
             \/ CommitDeleteTranslation(r) \/ CommitDeleteVersification(r) \/ Fail(r)
             \/ \E i \in Ids : CommitCreateIndex(r, i)
      PROVE  FALSE
  BY <1>4, CommitsFinish
<1>5. ASSUME UNCHANGED vars PROVE FALSE
  BY <1>5 DEF vars
<1> QED
  BY <1>1, <1>2, <1>3, <1>4, <1>5, StepCases

(* What a start leaves under each canonical name. *)
LEMMA BootSeeds ==
    ASSUME Inv, NEW v \in package..MaxPackage, Boot(v)
    PROVE  Seeded(package)'
<1>1. v \in 1..MaxPackage /\ package' = v
  BY Bounds, TypeParts DEF Inv, Typed, Boot
<1>2. PICK T \in [CanonNames -> Translations], S \in [CanonNames -> Schemes] :
           SeededBy(v, T, S)
  BY SeedWrites DEF Boot
<1>3. Org \in CanonNames
  BY CatalogAssumption
<1>4. LiveTr' = LiveTr \cup {T[n] : n \in CanonNames}
      /\ LiveSch' = LiveSch \cup {S[n] : n \in CanonNames}
  BY <1>1, <1>2, BootWrites
<1>5. ASSUME NEW n \in CanonNames
      PROVE  /\ T[n] \in Named(n)' /\ tr'[T[n]].anchor
             /\ pref'[T[n]] = S[n] /\ S[n] \in CanonicalNamed(n)'
             /\ sch'[S[n]].ingredient = Packaged(n, v) /\ sch'[S[n]].source = Packaged(n, v)
             /\ sch'[S[n]].base = IF n = Org THEN None ELSE T[Org]
  <2>1. /\ tr'[T[n]] = [state |-> "live", anchor |-> TRUE, name |-> n]
        /\ sch'[S[n]] = SeededScheme(S[n], n, v, T[Org])
        /\ pref'[T[n]] = S[n]
    BY <1>2 DEF SeededBy
  <2>2. tr'[T[n]].anchor /\ tr'[T[n]].name = n
    BY <2>1
  <2>3. /\ sch'[S[n]].name = n /\ sch'[S[n]].canonical
        /\ sch'[S[n]].base = IF n = Org THEN None ELSE T[Org]
        /\ sch'[S[n]].ingredient = Packaged(n, v) /\ sch'[S[n]].source = Packaged(n, v)
    BY <1>1, <1>3, <2>1, SeededIsScheme, TypeParts DEF Inv
  <2>4. T[n] \in Named(n)'
    BY <1>4, <2>2 DEF Named
  <2>5. S[n] \in CanonicalNamed(n)'
    BY <1>4, <2>3 DEF CanonicalNamed
  <2> QED
    BY <2>1, <2>2, <2>3, <2>4, <2>5
<1> SUFFICES ASSUME NEW n \in CanonNames
             PROVE  \E t \in Named(n)' :
                       /\ tr'[t].anchor /\ pref'[t] \in CanonicalNamed(n)'
                       /\ sch'[pref'[t]].ingredient = Packaged(n, v)
                       /\ sch'[pref'[t]].source = Packaged(n, v)
                       /\ sch'[pref'[t]].base \in IF n = Org THEN {None} ELSE Named(Org)'
  BY <1>1 DEF Seeded
<1>6. T[Org] \in Named(Org)'
  BY <1>3, <1>5
<1>7. sch'[S[n]].base \in IF n = Org THEN {None} ELSE Named(Org)'
  BY <1>5, <1>6
<1> QED
  BY <1>5, <1>7

(* A second start on the same package finds each row as it is to be. *)
LEMMA BootRepeats ==
    ASSUME Inv, NEW v \in package..MaxPackage, Boot(v), Seeded(package), package' = package,
           \A n \in CanonNames : \A s, x \in CanonicalNamed(n) : s = x
    PROVE  UNCHANGED <<tr, sch, assoc, pref>>
<1>1. v \in 1..MaxPackage /\ package = v
  BY Bounds, TypeParts DEF Inv, Typed, Boot
<1>2. PICK T \in [CanonNames -> Translations], S \in [CanonNames -> Schemes] :
           SeededBy(v, T, S)
  BY SeedWrites DEF Boot
<1>3. Org \in CanonNames /\ None \notin Schemes
  BY CatalogAssumption
<1>4. /\ tr \in [Translations -> TranslationRows] /\ sch \in [Schemes -> SchemeRows]
      /\ pref \in [Translations -> Schemes \cup {None}] /\ NamesDiffer /\ PreferredOK
  BY TypeParts DEF Inv, Typed
<1>5. \A n \in CanonNames : \A t, u \in Named(n) : t = u
  BY <1>4 DEF Named, NamesDiffer
<1>6. ASSUME NEW n \in CanonNames
      PROVE  /\ T[n] \in Named(n) /\ tr[T[n]].anchor
             /\ S[n] = pref[T[n]] /\ S[n] \in CanonicalNamed(n)
             /\ sch[S[n]].ingredient = Packaged(n, v) /\ sch[S[n]].source = Packaged(n, v)
             /\ sch[S[n]].base \in IF n = Org THEN {None} ELSE Named(Org)
  <2>1. PICK t \in Named(n) :
            /\ tr[t].anchor /\ pref[t] \in CanonicalNamed(n)
            /\ sch[pref[t]].ingredient = Packaged(n, v)
            /\ sch[pref[t]].source = Packaged(n, v)
            /\ sch[pref[t]].base \in IF n = Org THEN {None} ELSE Named(Org)
    BY <1>1 DEF Seeded
  <2>2. T[n] \in Named(n) /\ S[n] \in CanonicalNamed(n)
    BY <1>2, <2>1 DEF SeededBy
  <2>3. T[n] = t
    BY <1>5, <2>1, <2>2
  <2>4. S[n] = pref[t]
    BY <2>1, <2>2
  <2> QED
    BY <2>1, <2>2, <2>3, <2>4
<1>7. ASSUME NEW n \in CanonNames
      PROVE  tr'[T[n]] = tr[T[n]] /\ pref'[T[n]] = pref[T[n]] /\ <<T[n], S[n]>> \in assoc
  <2>1. tr'[T[n]] = [state |-> "live", anchor |-> TRUE, name |-> n] /\ pref'[T[n]] = S[n]
    BY <1>2 DEF SeededBy
  <2>2. tr[T[n]] \in TranslationRows /\ T[n] \in Translations
    BY <1>4
  <2>3. tr[T[n]] = [state |-> tr[T[n]].state, name |-> tr[T[n]].name,
                    anchor |-> tr[T[n]].anchor]
    BY <2>2 DEF TranslationRows
  <2>4. tr[T[n]].state = "live" /\ tr[T[n]].name = n
    BY <1>6 DEF Named, LiveTr
  <2>5. tr[T[n]].anchor \in BOOLEAN
    BY <2>2 DEF TranslationRows
  <2>6. tr[T[n]].anchor = TRUE
    BY <1>6, <2>5
  <2>7. tr'[T[n]] = tr[T[n]]
    BY <2>1, <2>3, <2>4, <2>6
  <2>8. <<T[n], S[n]>> \in assoc
    BY <1>3, <1>4, <1>6 DEF PreferredOK
  <2> QED
    BY <1>6, <2>1, <2>7, <2>8
<1>8. ASSUME NEW n \in CanonNames PROVE sch'[S[n]] = sch[S[n]]
  <2> DEFINE row == sch[S[n]]
  <2>1. sch'[S[n]] = SeededScheme(S[n], n, v, T[Org])
    BY <1>2 DEF SeededBy
  <2>2. row \in SchemeRows
    BY <1>4
  <2>3. row.state = "live" /\ row.name = n /\ row.canonical
    BY <1>6 DEF CanonicalNamed, LiveSch
  <2>4. row.canonical \in BOOLEAN
    BY <2>2 DEF SchemeRows
  <2>5. row.canonical = TRUE
    BY <2>3, <2>4
  <2>6. row.base = IF n = Org THEN None ELSE T[Org]
    BY <1>3, <1>5, <1>6
  <2>7. row.ingredient = Packaged(n, v) /\ row.source = Packaged(n, v)
    BY <1>6
  <2>8. row = [state |-> row.state, name |-> row.name, canonical |-> row.canonical,
               base |-> row.base, ingredient |-> row.ingredient, rows |-> row.rows,
               source |-> row.source]
    BY <2>2 DEF SchemeRows
  <2>9. SeededScheme(S[n], n, v, T[Org]) =
           [state |-> "live", name |-> n, canonical |-> TRUE, base |-> row.base,
            ingredient |-> Packaged(n, v), rows |-> row.rows, source |-> Packaged(n, v)]
    BY <2>3, <2>6 DEF SeededScheme
  <2> HIDE DEF row
  <2>10. sch'[S[n]] = row
    BY <2>1, <2>3, <2>5, <2>7, <2>8, <2>9
  <2> QED
    BY <2>10 DEF row
<1>9. /\ \A t \in Translations :
            (\A n \in CanonNames : T[n] # t) => tr'[t] = tr[t] /\ pref'[t] = pref[t]
      /\ \A s \in Schemes : (\A n \in CanonNames : S[n] # s) => sch'[s] = sch[s]
      /\ assoc' = assoc \cup {<<T[n], S[n]>> : n \in CanonNames}
      /\ tr' = [t \in Translations |-> tr'[t]]
      /\ pref' = [t \in Translations |-> pref'[t]]
      /\ sch' = [s \in Schemes |-> sch'[s]]
  BY <1>2 DEF SeededBy
<1>10. ASSUME NEW t \in Translations PROVE tr'[t] = tr[t] /\ pref'[t] = pref[t]
  <2>1. CASE \E n \in CanonNames : T[n] = t
    BY <1>7, <2>1
  <2>2. CASE \A n \in CanonNames : T[n] # t
    BY <1>9, <2>2
  <2> QED
    BY <2>1, <2>2
<1>11. ASSUME NEW s \in Schemes PROVE sch'[s] = sch[s]
  <2>1. CASE \E n \in CanonNames : S[n] = s
    BY <1>8, <2>1
  <2>2. CASE \A n \in CanonNames : S[n] # s
    BY <1>9, <2>2
  <2> QED
    BY <2>1, <2>2
<1>12. assoc' = assoc
  BY <1>7, <1>9
<1>13. tr' = tr
  BY <1>4, <1>9, <1>10
<1>14. pref' = pref
  BY <1>4, <1>9, <1>10
<1>15. sch' = sch
  BY <1>4, <1>9, <1>11
<1> QED
  BY <1>12, <1>13, <1>14, <1>15

(* A start repairs the canonical rows, and a second one on the same package      *)
(* changes nothing.                                                           *)
THEOREM StartsRepair == Spec => SeedRepairs
<1>1. Inv /\ [Next]_vars =>
        [spent'.boots # spent.boots =>
          /\ Seeded(package)'
          /\ Seeded(package) /\ package' = package
             /\ (\A n \in CanonNames : \A s, x \in CanonicalNamed(n) : s = x)
             => UNCHANGED <<tr, sch, assoc, pref>>]_vars
  BY BootOnly, BootSeeds, BootRepeats
<1> QED
  BY <1>1, Invariance, PTL DEF Spec, SeedRepairs
-----------------------------------------------------------------------------
(* Chains: no step but a start changes what a scheme is based on, and a closed   *)
(* set of translations was closed before or holds one that some scheme is based *)
(* on and that has another preferred scheme now.                              *)
LEMMA BasesStay ==
    ASSUME Inv, [Next]_vars, spent'.boots = spent.boots, NEW s \in LiveSch
    PROVE  sch'[s].base = sch[s].base
<1>1. sch \in [Schemes -> SchemeRows] /\ s \in Schemes /\ sch[s].state = "live"
  BY TypeParts DEF Inv, Typed, LiveSch
<1>2. ASSUME NEW x \in Schemes, NEW n \in Names, NEW b \in Translations, sch[x].state = "none",
             sch' = [sch EXCEPT ![x] = IngestedScheme(x, n, b)]
      PROVE  sch'[s].base = sch[s].base
  BY <1>1, <1>2
<1>3. ASSUME NEW x \in LiveSch,
             (\E n \in Names : UpdateVersification(x, n)) \/ AttachSource(x)
      PROVE  sch'[s].base = sch[s].base
  <2>1. PICK y \in SchemeRows : sch' = [sch EXCEPT ![x] = y] /\ y.base = sch[x].base
    BY <1>3, SchemeEdits
  <2>2. sch'[s] = IF s = x THEN y ELSE sch[s]
    BY <1>1, <2>1
  <2> QED
    BY <2>1, <2>2
<1>4. ASSUME NEW r \in Requests, CommitDeleteVersification(r) PROVE sch'[s].base = sch[s].base
  <2>1. PICK x \in Schemes : sch' = [sch EXCEPT ![x].state = "gone"]
    BY <1>4 DEF CommitDeleteVersification, LiveSch
  <2>2. sch'[s] = IF s = x THEN [sch[s] EXCEPT !.state = "gone"] ELSE sch[s]
    BY <1>1, <2>1
  <2>3. [sch[s] EXCEPT !.state = "gone"].base = sch[s].base
    BY <1>1 DEF SchemeRows
  <2> QED
    BY <2>2, <2>3
<1>5. ASSUME NEW r \in Requests, CommitDeleteTranslation(r) PROVE sch'[s].base = sch[s].base
  <2>1. PICK x : sch' = [z \in Schemes |-> IF z = x THEN [sch[z] EXCEPT !.state = "gone"]
                                          ELSE sch[z]]
    BY <1>5 DEF CommitDeleteTranslation
  <2>2. [sch[s] EXCEPT !.state = "gone"].base = sch[s].base
    BY <1>1 DEF SchemeRows
  <2> QED
    BY <1>1, <2>1, <2>2
<1>6. ASSUME NEW v \in package..MaxPackage, Boot(v) PROVE FALSE
  <2>1. spent' = [spent EXCEPT !.boots = @ + 1]
    BY <1>6 DEF Boot
  <2> QED
    BY <2>1, Bounds, TypeParts DEF Inv, Typed
<1>7. /\ (\E n \in Names, x \in Schemes, b \in Translations : UploadVersification(x, n, b))
            => sch'[s].base = sch[s].base
      /\ (\E n \in Names, x \in Schemes, b \in Translations, t \in Translations :
             IngestProject(t, x, n, b)) => sch'[s].base = sch[s].base
  BY <1>2 DEF UploadVersification, IngestProject
<1>8. /\ UNCHANGED vars => sch' = sch
      /\ (\E n \in Names, u \in Translations : CreateTranslation(u, n) \/ UpdateTranslation(u, n))
           => sch' = sch
      /\ (\E i \in LiveIdx : DeleteIndex(i)) => sch' = sch
      /\ (\E i \in LiveIdx, x \in LiveSch : PinIndex(i, x)) => sch' = sch
      /\ (\E r \in Requests : Load(r)) => sch' = sch
      /\ (\E r \in Requests : CommitAssociate(r)) => sch' = sch
      /\ (\E r \in Requests : CommitMakePreferred(r)) => sch' = sch
      /\ (\E r \in Requests : CommitDissociate(r)) => sch' = sch
      /\ (\E r \in Requests, i \in Ids : CommitCreateIndex(r, i)) => sch' = sch
      /\ (\E r \in Requests : Fail(r)) => sch' = sch
  BY Loading DEF vars, CreateTranslation, UpdateTranslation, DeleteIndex, PinIndex,
     CommitAssociate, CommitMakePreferred, CommitDissociate, CommitCreateIndex, Fail
<1> QED
  BY <1>3, <1>4, <1>5, <1>6, <1>7, <1>8, StepCases

LEMMA ChainsClose ==
    ASSUME Inv, [Next]_vars, \A t \in Translations : ChainEnds(t),
           NEW t0 \in Translations, ~ ChainEnds(t0)'
    PROVE  /\ spent'.boots = spent.boots
           /\ \E b \in Translations : /\ pref'[b] \notin {pref[b], None}
                                      /\ BasedOn(b)' # {}
<1>1. Inv'
  BY StepKeepsInv
<1>2. AssociationsOK /\ PreferredOK /\ AssociationsOK' /\ PreferredOK'
  BY <1>1, TypeParts, TypePartsNext DEF Inv
<1>3. None \notin Translations /\ None \notin Schemes
  BY CatalogAssumption
<1>4. PICK C \in SUBSET Translations : t0 \in C /\ \A c \in C : Hop(c)' \in C
  BY DEF ChainEnds
<1>5. ASSUME NEW c \in C
      PROVE  /\ c \in Translations /\ pref'[c] # None /\ sch'[pref'[c]].base \in C
             /\ pref'[c] \in LiveSch'
  <2>1. c \in Translations /\ Hop(c)' \in C
    BY <1>4
  <2>2. pref'[c] # None /\ sch'[pref'[c]].base \in C
    BY <1>3, <2>1 DEF Hop
  <2>3. <<c, pref'[c]>> \in assoc'
    BY <1>2, <2>1, <2>2 DEF PreferredOK
  <2> QED
    BY <1>2, <2>1, <2>2, <2>3 DEF AssociationsOK
<1>6. ASSUME NEW D \in SUBSET C, NEW d \in D, \A c \in D : Hop(c) \in D PROVE FALSE
  BY <1>6 DEF ChainEnds
<1>7. ASSUME NEW v \in package..MaxPackage, Boot(v) PROVE FALSE
  <2>1. v \in 1..MaxPackage
    BY Bounds, TypeParts DEF Inv, Typed
  <2>2. PICK T \in [CanonNames -> Translations], S \in [CanonNames -> Schemes] :
             SeededBy(v, T, S)
    BY <1>7, SeedWrites DEF Boot
  <2>3. Org \in CanonNames
    BY CatalogAssumption
  <2>4. ASSUME NEW n \in CanonNames
        PROVE  /\ pref'[T[n]] = S[n]
               /\ sch'[S[n]].base = IF n = Org THEN None ELSE T[Org]
    <3>1. pref'[T[n]] = S[n] /\ sch'[S[n]] = SeededScheme(S[n], n, v, T[Org])
      BY <2>2 DEF SeededBy
    <3> QED
      BY <2>1, <2>3, <3>1, SeededIsScheme, TypeParts DEF Inv
  <2>5. T[Org] \notin C
    BY <1>3, <1>4, <1>5, <2>3, <2>4
  <2>6. ASSUME NEW n \in CanonNames PROVE T[n] \notin C
    BY <1>3, <1>4, <1>5, <2>4, <2>5, <2>6
  <2>7. ASSUME NEW c \in C PROVE Hop(c) \in C
    <3>1. pref'[c] = pref[c]
      BY <1>5, <2>2, <2>6, <2>7 DEF SeededBy
    <3>2. \A n \in CanonNames : S[n] # pref'[c]
      <4> SUFFICES ASSUME NEW n \in CanonNames, S[n] = pref'[c] PROVE FALSE
        OBVIOUS
      <4>1. sch'[S[n]].base \in C
        BY <1>5, <2>7
      <4> QED
        BY <1>3, <1>4, <2>4, <2>5, <4>1
    <3>3. pref'[c] \in Schemes
      BY <1>5, <2>7 DEF LiveSch
    <3>4. sch'[pref'[c]] = sch[pref'[c]]
      BY <2>2, <3>2, <3>3 DEF SeededBy
    <3> QED
      BY <1>5, <2>7, <3>1, <3>4 DEF Hop
  <2> QED
    BY <1>4, <1>6, <2>7
<1>8. spent'.boots = spent.boots
  BY <1>7, BootOnly
<1>9. ASSUME \A b \in Translations : pref'[b] \in {pref[b], None} \/ BasedOn(b)' = {}
      PROVE  FALSE
  <2> DEFINE D == {sch'[pref'[c]].base : c \in C}
  <2>1. D \subseteq C /\ sch'[pref'[t0]].base \in D
    BY <1>4, <1>5
  <2>2. ASSUME NEW b \in D PROVE Hop(b) \in D
    <3>1. PICK c \in C : b = sch'[pref'[c]].base
      BY <2>2
    <3>2. pref'[c] \in BasedOn(b)'
      BY <1>5, <3>1 DEF BasedOn
    <3>3. b \in C /\ b \in Translations /\ pref'[b] # None
      BY <1>5, <2>1, <2>2
    <3>4. pref'[b] = pref[b]
      BY <1>9, <3>2, <3>3
    <3>5. <<b, pref[b]>> \in assoc
      BY <1>2, <3>3, <3>4 DEF PreferredOK
    <3>6. pref[b] \in LiveSch
      BY <1>2, <3>5 DEF AssociationsOK
    <3>7. sch'[pref[b]].base = sch[pref[b]].base
      BY <1>8, <3>6, BasesStay
    <3>8. sch'[pref'[b]].base \in D
      BY <3>3
    <3>9. Hop(b) = sch'[pref'[b]].base
      BY <3>3, <3>4, <3>7 DEF Hop
    <3> QED
      BY <3>8, <3>9
  <2> HIDE DEF D
  <2> QED
    BY <1>6, <2>1, <2>2
<1> QED
  BY <1>8, <1>9

(* A chain that returns to a translation it passed is made only by giving a      *)
(* translation that some scheme is based on another preferred scheme.         *)
THEOREM ChainsStayOpen == Spec => ChainsCloseOnlyAtBases
<1>1. Inv /\ [Next]_vars =>
   [(\A t \in Translations : ChainEnds(t)) /\ (\E t \in Translations : ~ChainEnds(t)') =>
          /\ spent'.boots = spent.boots
          /\ \E b \in Translations : /\ pref'[b] \notin {pref[b], None}
                                     /\ BasedOn(b)' # {}]_vars
  BY ChainsClose
<1> QED
  BY <1>1, Invariance, PTL DEF Spec, ChainsCloseOnlyAtBases
-----------------------------------------------------------------------------
(* Defaulted indexes and the preferred scheme of their translation. *)
LEMMA TracksUnlessRenamed ==
    ASSUME NEW i \in Ids, ~ Astray(i), Astray(i)', idx'[i] = idx[i],
           pref'[idx[i].tr] = pref[idx[i].tr]
    PROVE  pref[idx[i].tr] = None /\ CanonicalNamed(Org)' # CanonicalNamed(Org)
<1>1. /\ i \in LiveIdx /\ ~ idx[i].explicit
      /\ idx[i].scheme \notin BatchSchemes(idx[i].tr, pref)'
  BY DEF Astray, LiveIdx
<1>2. idx[i].scheme \in BatchSchemes(idx[i].tr, pref)
  BY <1>1 DEF Astray
<1> QED
  BY <1>1, <1>2 DEF BatchSchemes

LEMMA TracksOnCommit ==
    ASSUME Inv, NEW i \in Ids, ~ Astray(i), Astray(i)', NEW t \in Translations,
           Retarget(t, pref'), sch' = sch, pref'[t] # None => pref'[t] \in LiveSch,
           \A u \in Translations \ {t} : pref'[u] = pref[u]
    PROVE  \/ \E j \in LiveIdx \ {i} : /\ idx[j].tr = idx[i].tr
                                       /\ idx[j].scheme \in BatchSchemes(idx[j].tr, pref')
           \/ pref[idx[i].tr] = None /\ CanonicalNamed(Org)' # CanonicalNamed(Org)
<1>1. PICK s \in BatchSchemes(t, pref') :
        idx' = [x \in Ids |-> IF x \in Moving(t, s) THEN [idx[x] EXCEPT !.scheme = s] ELSE idx[x]]
  BY DEF Retarget
<1>2. LiveIdx' = LiveIdx /\ i \in LiveIdx'
  BY Retargeting DEF Astray
<1>3. idx[i] \in IndexRowSet /\ idx[i].tr \in Translations
  BY <1>2, TypeParts DEF Inv, Typed, IndexesOK, LiveTr
<1>4. s \in BatchSchemes(t, pref)'
  BY <1>1 DEF BatchSchemes, CanonicalNamed, LiveSch
<1>5. CASE idx[i].tr # t
  <2>1. i \notin Moving(t, s)
    BY <1>5 DEF Moving
  <2>2. idx'[i] = idx[i] /\ pref'[idx[i].tr] = pref[idx[i].tr]
    BY <1>1, <1>3, <1>5, <2>1
  <2> QED
    BY <2>2, TracksUnlessRenamed
<1>6. CASE idx[i].tr = t /\ i \in Moving(t, s)
  <2>1. idx'[i].tr = t /\ idx'[i].scheme = s
    BY <1>1, <1>3, <1>6 DEF IndexRowSet
  <2> QED
    BY <1>4, <2>1 DEF Astray
<1>7. CASE idx[i].tr = t /\ i \notin Moving(t, s)
  <2>1. idx'[i] = idx[i]
    BY <1>1, <1>7
  <2>2. ~ idx[i].explicit /\ idx[i].scheme # s
    BY <1>4, <1>7, <2>1 DEF Astray
  <2>3. Taken(t, s)
    BY <1>2, <1>7, <2>2 DEF Moving
  <2>4. PICK j \in LiveIdx : idx[j].tr = t /\ idx[j].scheme = s
    BY <2>3 DEF Taken
  <2> QED
    BY <1>1, <1>7, <2>2, <2>4
<1> QED
  BY <1>5, <1>6, <1>7

LEMMA StopsTracking ==
    ASSUME Inv, [Next]_vars, NEW i \in Ids, ~ Astray(i), Astray(i)'
    PROVE  \/ package' # package \/ spent'.boots # spent.boots
           \/ \E j \in LiveIdx \ {i} : /\ idx[j].tr = idx[i].tr
                                       /\ idx[j].scheme \in BatchSchemes(idx[j].tr, pref')
           \/ idx[i].state = "none" /\ \E r \in Requests :
                 /\ req[r].op = "index" /\ req'[r] = Idle
                 /\ req[r].scheme \notin BatchSchemes(req[r].tr, pref)
           \/ pref[idx[i].tr] = None /\ CanonicalNamed(Org)' # CanonicalNamed(Org)
<1> DEFINE Renamed == pref[idx[i].tr] = None /\ CanonicalNamed(Org)' # CanonicalNamed(Org)
           Blocked == \E j \in LiveIdx \ {i} :
                         /\ idx[j].tr = idx[i].tr
                         /\ idx[j].scheme \in BatchSchemes(idx[j].tr, pref')
           Overtaken == idx[i].state = "none" /\ \E r \in Requests :
                           /\ req[r].op = "index" /\ req'[r] = Idle
                           /\ req[r].scheme \notin BatchSchemes(req[r].tr, pref)
<1>1. /\ idx \in [Ids -> IndexRowSet] /\ pref \in [Translations -> Schemes \cup {None}]
      /\ IndexesOK
  BY TypeParts DEF Inv, Typed
<1>2. i \in LiveIdx' /\ idx'[i].state = "live" /\ ~ idx'[i].explicit
  BY DEF Astray, LiveIdx
<1>3. ASSUME NEW I \in SUBSET LiveIdx, idx' = Dropped(I) PROVE idx'[i] = idx[i] /\ i \in LiveIdx \ I
  BY <1>2, <1>3, IndexesDropped
<1>4. ASSUME NEW n \in Names, NEW s \in Schemes, NEW b \in Translations, NEW t \in Translations,
             IngestProject(t, s, n, b)
      PROVE  Renamed
  <2>1. idx' = idx /\ pref' = [pref EXCEPT ![t] = s] /\ tr[t].state = "none"
    BY <1>4 DEF IngestProject
  <2>2. i \in LiveIdx
    BY <1>2, <2>1 DEF LiveIdx
  <2>3. idx[i].tr \in Translations /\ idx[i].tr # t
    BY <1>1, <2>1, <2>2 DEF IndexesOK, LiveTr
  <2>4. pref'[idx[i].tr] = pref[idx[i].tr]
    BY <1>1, <2>1, <2>3
  <2> QED
    BY <2>1, <2>4, TracksUnlessRenamed
<1>5. ASSUME NEW r \in Requests, CommitDeleteVersification(r) PROVE Renamed
  <2>1. PICK I \in SUBSET LiveIdx : idx' = Dropped(I) /\ pref' = pref
    BY <1>5 DEF CommitDeleteVersification
  <2> QED
    BY <1>3, <2>1, TracksUnlessRenamed
<1>6. ASSUME NEW j \in LiveIdx, DeleteIndex(j) PROVE Renamed
  <2>1. PICK I \in SUBSET LiveIdx : idx' = Dropped(I) /\ pref' = pref
    BY <1>6 DEF DeleteIndex
  <2> QED
    BY <1>3, <2>1, TracksUnlessRenamed
<1>7. ASSUME NEW j \in LiveIdx, NEW s \in LiveSch, PinIndex(j, s) PROVE Renamed
  <2>1. idx' = [idx EXCEPT ![j].scheme = s, ![j].explicit = TRUE] /\ pref' = pref
    BY <1>7 DEF PinIndex
  <2>2. idx'[i].explicit = IF i = j THEN TRUE ELSE idx[i].explicit
    BY <1>1, <2>1 DEF IndexRowSet
  <2>3. i # j
    BY <1>2, <2>2
  <2>4. idx'[i] = idx[i]
    BY <1>1, <2>1, <2>3
  <2> QED
    BY <2>1, <2>4, TracksUnlessRenamed
<1>8. ASSUME NEW r \in Requests, CommitAssociate(r) PROVE Blocked \/ Renamed
  <2> DEFINE t == req[r].tr
             s == req[r].scheme
  <2>1. /\ t \in Translations /\ s \in LiveSch
        /\ pref'[t] = IF req[r].flag THEN s ELSE pref[t]
        /\ \A u \in Translations \ {t} : pref'[u] = pref[u]
        /\ Retarget(t, pref') /\ sch' = sch
    BY <1>8, AssociateWrites
  <2>2. pref'[t] # None => pref'[t] \in LiveSch
    BY <2>1, NamesNoScheme, TypeParts DEF Inv, PreferredOK
  <2> QED
    BY <2>1, <2>2, TracksOnCommit
<1>9. ASSUME NEW r \in Requests, CommitMakePreferred(r) PROVE Blocked \/ Renamed
  <2> DEFINE t == req[r].tr
             s == req[r].scheme
  <2>1. /\ t \in Translations
        /\ \/ pref'[t] = s /\ (<<t, s>> \in assoc)
           \/ /\ pref'[t] = None
              /\ req[r].flag /\ (pref[t] # s \/ ~ req[r].held)
        /\ \A u \in Translations \ {t} : pref'[u] = pref[u]
        /\ Retarget(t, pref') /\ sch' = sch
    BY <1>9, PreferWrites
  <2>2. pref'[t] # None => pref'[t] \in LiveSch
    BY <2>1, NamesNoScheme
  <2> QED
    BY <2>1, <2>2, TracksOnCommit
<1>10. ASSUME NEW r \in Requests, CommitDissociate(r) PROVE Blocked \/ Renamed
  <2> DEFINE t == req[r].tr
             s == req[r].scheme
  <2>1. /\ t \in Translations
        /\ pref'[t] = None \/ pref'[t] = pref[t]
        /\ \A u \in Translations \ {t} : pref'[u] = pref[u]
        /\ Retarget(t, pref') /\ sch' = sch
    BY <1>10, DissociateWrites
  <2>2. pref'[t] # None => pref'[t] \in LiveSch
    BY <2>1, NamesNoScheme, TypeParts DEF Inv, PreferredOK
  <2> QED
    BY <2>1, <2>2, TracksOnCommit
<1>11. ASSUME NEW r \in Requests, CommitDeleteTranslation(r) PROVE Renamed
  <2> DEFINE t == req[r].tr
             I == {j \in LiveIdx : idx[j].tr = t \/ idx[j].scheme = req[r].scheme}
  <2>1. idx' = Dropped(I) /\ pref' = [pref EXCEPT ![t] = None] /\ I \in SUBSET LiveIdx
    BY <1>11 DEF CommitDeleteTranslation
  <2>2. idx'[i] = idx[i] /\ i \in LiveIdx /\ idx[i].tr # t
    BY <1>3, <2>1
  <2>3. idx[i].tr \in Translations
    BY <1>1, <2>2 DEF IndexesOK, LiveTr
  <2>4. pref'[idx[i].tr] = pref[idx[i].tr]
    BY <1>1, <2>1, <2>2, <2>3
  <2> QED
    BY <2>2, <2>4, TracksUnlessRenamed
<1>12. ASSUME NEW r \in Requests, NEW j \in Ids, CommitCreateIndex(r, j)
       PROVE  Overtaken \/ Renamed
  <2>0. PICK t, s : t = req[r].tr /\ s = req[r].scheme
    OBVIOUS
  <2>1. /\ req[r].op = "index" /\ idx[j].state = "none" /\ UNCHANGED <<sch, pref>>
        /\ idx' = [idx EXCEPT ![j] = [state |-> "live", tr |-> t, scheme |-> s,
                                      explicit |-> req[r].flag]]
        /\ req'[r] = Idle
    BY <1>12, <2>0, CommitsFinish DEF CommitCreateIndex
  <2>2. CASE i # j
    BY <1>1, <2>1, <2>2, TracksUnlessRenamed
  <2>3. CASE i = j
    <3>1. idx'[i].tr = t /\ idx'[i].scheme = s
      BY <1>1, <2>1, <2>3
    <3>2. s \notin BatchSchemes(t, pref)'
      BY <3>1 DEF Astray
    <3>3. BatchSchemes(t, pref)' = BatchSchemes(t, pref)
      BY <2>1 DEF BatchSchemes, CanonicalNamed, LiveSch
    <3> QED
      BY <2>0, <2>1, <2>3, <3>2, <3>3
  <2> QED
    BY <2>2, <2>3
<1>13. ASSUME NEW v \in package..MaxPackage, Boot(v) PROVE spent'.boots # spent.boots
  <2>1. spent' = [spent EXCEPT !.boots = @ + 1]
    BY <1>13 DEF Boot
  <2> QED
    BY <2>1, Bounds, TypeParts DEF Inv, Typed
<1>14. ASSUME idx' = idx, pref' = pref PROVE Renamed
  BY <1>14, TracksUnlessRenamed
<1>15. /\ UNCHANGED vars => idx' = idx /\ pref' = pref
       /\ (\E n \in Names, u \in Translations : CreateTranslation(u, n) \/ UpdateTranslation(u, n))
            => idx' = idx /\ pref' = pref
       /\ (\E n \in Names, s \in Schemes, b \in Translations : UploadVersification(s, n, b))
            => idx' = idx /\ pref' = pref
       /\ (\E s \in LiveSch : (\E n \in Names : UpdateVersification(s, n)) \/ AttachSource(s))
            => idx' = idx /\ pref' = pref
       /\ (\E r \in Requests : Load(r)) => idx' = idx /\ pref' = pref
       /\ (\E r \in Requests : Fail(r)) => idx' = idx /\ pref' = pref
  BY Loading DEF vars, CreateTranslation, UpdateTranslation, UploadVersification,
     UpdateVersification, AttachSource, Fail
<1> HIDE DEF Renamed, Blocked, Overtaken
<1>16. Renamed \/ Blocked \/ Overtaken \/ spent'.boots # spent.boots
  BY <1>4, <1>5, <1>6, <1>7, <1>8, <1>9, <1>10, <1>11, <1>12, <1>13, <1>14, <1>15, StepCases
<1> QED
  BY <1>16 DEF Renamed, Blocked, Overtaken

(* A defaulted index stops tracking the preferred scheme only in the four ways    *)
(* that are known.                                                            *)
THEOREM DefaultedIndexesTrack == Spec => StopsTrackingOnlyKnown
<1>1. Inv /\ [Next]_vars =>
   [\A i \in Ids : ~Astray(i) /\ Astray(i)' =>
          \/ package' # package \/ spent'.boots # spent.boots
          \/ \E j \in LiveIdx \ {i} : /\ idx[j].tr = idx[i].tr
                                      /\ idx[j].scheme \in BatchSchemes(idx[j].tr, pref')
          \/ idx[i].state = "none" /\ \E r \in Requests :
                /\ req[r].op = "index" /\ req'[r] = Idle
                /\ req[r].scheme \notin BatchSchemes(req[r].tr, pref)
          \/ pref[idx[i].tr] = None /\ CanonicalNamed(Org)' # CanonicalNamed(Org)]_vars
  BY StopsTracking
<1> QED
  BY <1>1, Invariance, PTL DEF Spec, StopsTrackingOnlyKnown
=============================================================================
