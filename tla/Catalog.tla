------------------------------ MODULE Catalog ------------------------------
(***************************************************************************)
(* The catalog: translations, versification schemes, the associations      *)
(* between them with one preferred scheme per translation, and the indexes *)
(* that follow the preferred scheme; the CRUD and ingest requests on them  *)
(* and the seed every start of the API runs.                               *)
(*                                                                         *)
(* A request that decides on rows it loaded has two steps, Load... and     *)
(* Commit..., with other requests between them: transactions run READ      *)
(* COMMITTED and lock no row they only read.  A commit meets the unique    *)
(* indexes and the foreign keys as they are then.  A request may be rolled *)
(* back at any time.                                                       *)
(*                                                                         *)
(* Data kept: a name is its lower-case form; an ingredient is the scheme   *)
(* it came with, or a canonical name with the version of the package.      *)
(* Spans and mapping rows are kept as what they were derived from.  The    *)
(* status of an index is IndexRows'.                                       *)
(***************************************************************************)
EXTENDS Naturals

CONSTANTS
    Names,        \* names of translations and schemes, lower case
    CanonNames,   \* CANONICAL_NAMES: the names the package ships
    Org,          \* the canonical name that is the root numbering space
    Translations, \* translation ids
    Schemes,      \* scheme ids
    Ids,          \* index ids
    Requests,     \* request slots: how many requests are in flight at once
    None,         \* SQL NULL
    Start,        \* the tables at the start
    MaxCalls,     \* bound: requests
    MaxBoots,     \* bound: starts of the API
    MaxPackage    \* bound: versions of the package

VARIABLES
    tr,       \* translation: id -> row
    sch,      \* versification_scheme, with its mapping_record and source rows
    assoc,    \* translation_versification: pairs <<translation, scheme>>
    pref,     \* the pair of a translation with preferred set: its scheme, or None
    idx,      \* translation_index: id -> row
    reclaim,  \* index_reclaim: index ids
    req,      \* what each request in flight has loaded
    package,  \* version of the packaged canonical files
    spent     \* calls and boots so far

vars == <<tr, sch, assoc, pref, idx, reclaim, req, package, spent>>
-----------------------------------------------------------------------------
(* Tables *)

States == {"none", "live", "gone"}

\* What an ingredient was read from: an upload, or a packaged file.
Upload(s) == [of |-> s, version |-> 0]
Packaged(n, v) == [of |-> n, version |-> v]
Ingredients == {Upload(s) : s \in Schemes}
               \cup {Packaged(n, v) : n \in CanonNames, v \in 1..MaxPackage}

TranslationRows ==
    [state : States, name : Names \cup {None}, anchor : BOOLEAN]
SchemeRows ==
    [state : States, name : Names \cup {None}, canonical : BOOLEAN,
     base : Translations \cup {None}, ingredient : Ingredients \cup {None},
     rows : Ingredients \cup {None}, source : Ingredients \cup {None}]
IndexRowSet ==
    [state : States, tr : Translations \cup {None},
     scheme : Schemes \cup {None}, explicit : BOOLEAN]

Idle == [op |-> "idle", tr |-> None, scheme |-> None, flag |-> FALSE,
         held |-> FALSE, ixs |-> {}]
Ops == {"associate", "prefer", "dissociate", "delete", "index"}
RequestRows ==
    [op : Ops, tr : Translations, scheme : Schemes \cup {None},
     flag : BOOLEAN, held : BOOLEAN, ixs : SUBSET Ids]
    \cup [op : {"drop"}, tr : {None}, scheme : Schemes, flag : {FALSE},
          held : {FALSE}, ixs : SUBSET Ids]
    \cup {Idle}

LiveTr == {t \in Translations : tr[t].state = "live"}
LiveSch == {s \in Schemes : sch[s].state = "live"}
Fresh(rows) == {x \in DOMAIN rows : rows[x].state = "none"}
LiveIdx == {i \in Ids : idx[i].state = "live"}

Named(n) == {t \in LiveTr : tr[t].name = n}
CanonicalNamed(n) == {s \in LiveSch : sch[s].canonical /\ sch[s].name = n}
SchemesOf(t) == {s \in Schemes : <<t, s>> \in assoc}
UsersOf(s) == {t \in Translations : <<t, s>> \in assoc}
BasedOn(t) == {s \in LiveSch : sch[s].base = t}
Taken(t, s) == \E i \in LiveIdx : idx[i].tr = t /\ idx[i].scheme = s

\* The constraints of the schema: uq_translation_name_ci, the foreign keys, the
\* ingredient that may not be NULL, uq_translation_versification_preferred and
\* uq_translation_index_pair.
Consistent(tr1, sch1, assoc1, pref1, idx1) ==
    LET T == {t \in Translations : tr1[t].state = "live"}
        S == {s \in Schemes : sch1[s].state = "live"}
        I == {i \in Ids : idx1[i].state = "live"}
    IN  /\ \A t, u \in T : t # u => tr1[t].name # tr1[u].name
        /\ \A s \in S : sch1[s].base \in T \cup {None} /\ sch1[s].ingredient # None
        /\ assoc1 \subseteq T \X S
        /\ \A t \in Translations : pref1[t] # None => <<t, pref1[t]>> \in assoc1
        /\ \A i \in I : idx1[i].tr \in T /\ idx1[i].scheme \in S
        /\ \A i, j \in I : i # j =>
               <<idx1[i].tr, idx1[i].scheme>> # <<idx1[j].tr, idx1[j].scheme>>

ASSUME CatalogAssumption ==
    /\ Org \in CanonNames /\ CanonNames \subseteq Names
    /\ None \notin Names \cup Translations \cup Schemes \cup Ids \cup Ingredients
    /\ {MaxCalls, MaxBoots} \subseteq Nat /\ MaxPackage \in Nat \ {0}

\* The tables at the start are consistent, and no row is newer than the package.
ASSUME StartAssumption ==
    /\ Start.tr \in [Translations -> TranslationRows]
    /\ Start.sch \in [Schemes -> SchemeRows]
    /\ Start.pref \in [Translations -> Schemes \cup {None}]
    /\ Start.idx \in [Ids -> IndexRowSet]
    /\ Consistent(Start.tr, Start.sch, Start.assoc, Start.pref, Start.idx)
    /\ \A s \in Schemes :
          Start.sch[s].ingredient # None => Start.sch[s].ingredient.version <= 1
-----------------------------------------------------------------------------
(* scheme_select.py, invalidation.py *)

\* batch_scheme_ref of t, where the preferred scheme is p: no preferred scheme
\* falls back to any canonical scheme named org.
BatchSchemes(t, p) == IF p[t] # None THEN {p[t]} ELSE CanonicalNamed(Org)

\* Index rows deleted; queue_reclaim records the ones the code saw.
Dropped(I) == [i \in Ids |-> IF i \in I THEN [idx[i] EXCEPT !.state = "gone"] ELSE idx[i]]

\* Mutant: without the search for an index that has the new pair.
MovingMutated(t, s) ==
    {i \in LiveIdx : idx[i].tr = t /\ ~idx[i].explicit /\ idx[i].scheme # s}

\* retarget_default_indexes: the defaulted indexes of t that move to s.  One whose
\* new pair is taken stays where it is.
Moving(t, s) ==
    IF Taken(t, s) THEN {}
    ELSE {i \in LiveIdx : idx[i].tr = t /\ ~idx[i].explicit /\ idx[i].scheme # s}

\* Mutant: the batch scheme is looked up, no index moves.
RetargetMutated(t, p) == BatchSchemes(t, p) # {} /\ idx' = idx

\* Two that move to one pair break the unique index (the flush comes after the
\* loop): the request they belong to is rolled back.
Retarget(t, p) ==
    \E s \in BatchSchemes(t, p) :
        /\ \A i, j \in Moving(t, s) : i = j
        /\ idx' = [i \in Ids |-> IF i \in Moving(t, s)
                                 THEN [idx[i] EXCEPT !.scheme = s] ELSE idx[i]]
-----------------------------------------------------------------------------
(* Requests *)

Call == /\ spent.calls < MaxCalls
        /\ spent' = [spent EXCEPT !.calls = @ + 1]
        /\ UNCHANGED package

Begin(r, op, t, s, flag, ixs) ==
    /\ Call /\ req[r] = Idle
    /\ req' = [req EXCEPT ![r] = [op |-> op, tr |-> t, scheme |-> s, flag |-> flag,
                                  held |-> op \in {"prefer", "dissociate"}, ixs |-> ixs]]
    /\ UNCHANGED <<tr, sch, assoc, pref, idx, reclaim>>

\* r is answered, and the association rows P are deleted: the copies other
\* requests hold of them are of rows that are no more.
Finish(r, P) ==
    /\ req' = [q \in Requests |->
                  IF q = r THEN Idle
                  ELSE [req[q] EXCEPT !.held = @ /\ <<req[q].tr, req[q].scheme>> \notin P]]
    /\ UNCHANGED <<package, spent>>

\* POST /api/translations.
CreateTranslation(t, n) ==
    /\ Call
    /\ tr[t].state = "none" /\ Named(n) = {}
    /\ tr' = [tr EXCEPT ![t] = [state |-> "live", name |-> n, anchor |-> FALSE]]
    /\ UNCHANGED <<sch, assoc, pref, idx, reclaim, req>>

\* PATCH /api/translations/{id}.
UpdateTranslation(t, n) ==
    /\ Call
    /\ t \in LiveTr /\ Named(n) \subseteq {t} /\ tr[t].name # n
    /\ tr' = [tr EXCEPT ![t].name = n]
    /\ UNCHANGED <<sch, assoc, pref, idx, reclaim, req>>

\* Mutant: the mapping rows are not derived.
IngestedSchemeMutated(s, n, b) ==
    [state |-> "live", name |-> n, canonical |-> FALSE, base |-> b,
     ingredient |-> Upload(s), rows |-> None, source |-> Upload(s)]

\* A scheme row as ingest inserts it, with its mapping rows and its source.
IngestedScheme(s, n, b) ==
    [state |-> "live", name |-> n, canonical |-> FALSE, base |-> b,
     ingredient |-> Upload(s), rows |-> Upload(s), source |-> Upload(s)]

\* persist_versification: basedOn is a translation, found by name.
UploadVersification(s, n, b) ==
    /\ Call
    /\ sch[s].state = "none" /\ b \in LiveTr
    /\ sch' = [sch EXCEPT ![s] = IngestedScheme(s, n, b)]
    /\ UNCHANGED <<tr, assoc, pref, idx, reclaim, req>>

\* persist_project: the translation is inserted before basedOn is looked up, so b
\* may be t itself.
IngestProject(t, s, n, b) ==
    /\ Call
    /\ tr[t].state = "none" /\ sch[s].state = "none" /\ Named(n) = {}
    /\ b \in LiveTr \cup {t}
    /\ tr' = [tr EXCEPT ![t] = [state |-> "live", name |-> n, anchor |-> FALSE]]
    /\ sch' = [sch EXCEPT ![s] = IngestedScheme(s, n, b)]
    /\ assoc' = assoc \cup {<<t, s>>}
    /\ pref' = [pref EXCEPT ![t] = s]
    /\ UNCHANGED <<idx, reclaim, req>>

\* PATCH /api/versifications/{id}: any scheme, any name.
UpdateVersification(s, n) ==
    /\ Call
    /\ s \in LiveSch /\ sch[s].name # n
    /\ sch' = [sch EXCEPT ![s].name = n]
    /\ UNCHANGED <<tr, assoc, pref, idx, reclaim, req>>

\* attach_source: a file that does not derive to the ingredient is refused.
Attachable(s) == ~sch[s].canonical /\ sch[s].source = None

\* PUT /api/versifications/{id}/source.
AttachSource(s) ==
    /\ Call
    /\ s \in LiveSch /\ Attachable(s)
    /\ sch' = [sch EXCEPT ![s].source = sch[s].ingredient]
    /\ UNCHANGED <<tr, assoc, pref, idx, reclaim, req>>

\* DELETE /api/indexes/{id}.
DeleteIndex(i) ==
    /\ Call
    /\ i \in LiveIdx
    /\ idx' = Dropped({i}) /\ reclaim' = reclaim \cup {i}
    /\ UNCHANGED <<tr, sch, assoc, pref, req>>

\* set_versification.
PinIndex(i, s) ==
    /\ Call
    /\ i \in LiveIdx /\ s \in SchemesOf(idx[i].tr)
    /\ \A j \in LiveIdx \ {i} : <<idx[j].tr, idx[j].scheme>> # <<idx[i].tr, s>>
    /\ idx' = [idx EXCEPT ![i].scheme = s, ![i].explicit = TRUE]
    /\ UNCHANGED <<tr, sch, assoc, pref, reclaim, req>>
-----------------------------------------------------------------------------
(* Requests that decide on what they loaded *)

\* create_association: the first association of t will be preferred (flag).
LoadAssociate(r, t, s) ==
    /\ t \in LiveTr /\ s \in LiveSch /\ <<t, s>> \notin assoc
    /\ Begin(r, "associate", t, s, SchemesOf(t) = {}, {})

CommitAssociate(r) ==
    LET t == req[r].tr  s == req[r].scheme IN
    /\ req[r].op = "associate"
    /\ t \in LiveTr /\ s \in LiveSch /\ <<t, s>> \notin assoc
    /\ req[r].flag => pref[t] = None
    /\ assoc' = assoc \cup {<<t, s>>}
    /\ pref' = [pref EXCEPT ![t] = IF req[r].flag THEN s ELSE @]
    /\ Retarget(t, pref')
    /\ Finish(r, {})
    /\ UNCHANGED <<tr, sch, reclaim>>

\* make_preferred: flag is the loaded row's own preferred.
LoadMakePreferred(r, t, s) ==
    /\ <<t, s>> \in assoc
    /\ Begin(r, "prefer", t, s, pref[t] = s, {})

\* Another preferred row is cleared; the loaded row is written only if its copy
\* says it is not preferred yet, and then it must still be there.
CommitMakePreferred(r) ==
    LET t == req[r].tr  s == req[r].scheme IN
    /\ req[r].op = "prefer"
    /\ req[r].held \/ req[r].flag
    /\ pref' = [pref EXCEPT ![t] =
                   IF ~req[r].flag \/ (@ = s /\ req[r].held) THEN s ELSE None]
    /\ Retarget(t, pref')
    /\ Finish(r, {})
    /\ UNCHANGED <<tr, sch, assoc, reclaim>>

\* Mutant: a preferred association is not refused.
LoadDissociateMutated(r, t, s) ==
    <<t, s>> \in assoc /\ Begin(r, "dissociate", t, s, FALSE, {})

\* delete_association: the preferred row is refused.
LoadDissociate(r, t, s) ==
    /\ <<t, s>> \in assoc /\ pref[t] # s
    /\ Begin(r, "dissociate", t, s, FALSE, {})

\* DELETE by primary key: what the row says by now does not matter.
CommitDissociate(r) ==
    LET t == req[r].tr  s == req[r].scheme
        P == IF req[r].held THEN {<<t, s>>} ELSE {} IN
    /\ req[r].op = "dissociate"
    /\ assoc' = assoc \ P
    /\ pref' = [pref EXCEPT ![t] = IF <<t, @>> \in P THEN None ELSE @]
    /\ Retarget(t, pref')
    /\ Finish(r, P)
    /\ UNCHANGED <<tr, sch, reclaim>>

\* coupled_preferred_scheme_id: the preferred scheme of t, if it has the name of t
\* and no other translation uses it.
CoupledScheme(t) ==
    IF pref[t] # None /\ sch[pref[t]].name = tr[t].name /\ UsersOf(pref[t]) = {t}
    THEN pref[t] ELSE None

\* delete_translation: 409 for a base; the indexes to reclaim are read here.
LoadDeleteTranslation(r, t) ==
    /\ t \in LiveTr /\ BasedOn(t) = {}
    /\ Begin(r, "delete", t, CoupledScheme(t), FALSE, {i \in LiveIdx : idx[i].tr = t})

\* The rows of t and of the coupled scheme go; the indexes that were not read go
\* by ON DELETE CASCADE.
CommitDeleteTranslation(r) ==
    LET t == req[r].tr  s == req[r].scheme
        P == {p \in assoc : p[1] = t} IN
    /\ req[r].op = "delete"
    /\ t \in LiveTr /\ BasedOn(t) = {}
    /\ UsersOf(s) \subseteq {t}
    /\ tr' = [tr EXCEPT ![t].state = "gone"]
    /\ sch' = [x \in Schemes |-> IF x = s THEN [sch[x] EXCEPT !.state = "gone"] ELSE sch[x]]
    /\ assoc' = assoc \ P
    /\ pref' = [pref EXCEPT ![t] = None]
    /\ idx' = Dropped({i \in LiveIdx : idx[i].tr = t \/ idx[i].scheme = s})
    /\ reclaim' = reclaim \cup req[r].ixs
    /\ Finish(r, P)

\* delete_versification: 409 while a translation is associated; the indexes to
\* reclaim are read here.
LoadDeleteVersification(r, s) ==
    /\ s \in LiveSch /\ UsersOf(s) = {}
    /\ Begin(r, "drop", None, s, FALSE, {i \in LiveIdx : idx[i].scheme = s})

\* Mutant: the index rows are left to the cascade.
CommitDeleteVersificationMutated(r) ==
    LET s == req[r].scheme IN
    /\ req[r].op = "drop"
    /\ s \in LiveSch /\ UsersOf(s) = {}
    /\ sch' = [sch EXCEPT ![s].state = "gone"]
    /\ idx' = Dropped({i \in LiveIdx : idx[i].scheme = s})
    /\ Finish(r, {})
    /\ UNCHANGED <<tr, assoc, pref, reclaim>>

\* An association committed since restricts the DELETE; an index that was not read
\* goes by ON DELETE CASCADE.
CommitDeleteVersification(r) ==
    LET s == req[r].scheme IN
    /\ req[r].op = "drop"
    /\ s \in LiveSch /\ UsersOf(s) = {}
    /\ sch' = [sch EXCEPT ![s].state = "gone"]
    /\ idx' = Dropped({i \in LiveIdx : idx[i].scheme = s})
    /\ reclaim' = reclaim \cup req[r].ixs
    /\ Finish(r, {})
    /\ UNCHANGED <<tr, assoc, pref>>

\* registry.create_index: an explicit scheme must be associated; a defaulted one
\* is the batch scheme at this point.
LoadCreateIndex(r, t, s, explicit) ==
    /\ t \in LiveTr
    /\ s \in IF explicit THEN SchemesOf(t) ELSE BatchSchemes(t, pref)
    /\ ~Taken(t, s)
    /\ Begin(r, "index", t, s, explicit, {})

CommitCreateIndex(r, i) ==
    LET t == req[r].tr  s == req[r].scheme IN
    /\ req[r].op = "index"
    /\ idx[i].state = "none"
    /\ t \in LiveTr /\ s \in LiveSch /\ ~Taken(t, s)
    /\ idx' = [idx EXCEPT ![i] = [state |-> "live", tr |-> t, scheme |-> s,
                                  explicit |-> req[r].flag]]
    /\ Finish(r, {})
    /\ UNCHANGED <<tr, sch, assoc, pref, reclaim>>

\* get_session: any error rolls the request back.
Fail(r) ==
    /\ req[r] # Idle
    /\ Finish(r, {})
    /\ UNCHANGED <<tr, sch, assoc, pref, idx, reclaim>>
-----------------------------------------------------------------------------
(* bootstrap.py *)

\* A row per canonical name, found by name or inserted.  Two canonical schemes may
\* have one name: the query returns either.
Found(present, fresh) ==
    {f \in [CanonNames -> fresh \cup UNION {present[n] : n \in CanonNames}] :
        \A n \in CanonNames :
            IF present[n] # {} THEN f[n] \in present[n]
            ELSE f[n] \in fresh /\ \A m \in CanonNames \ {n} : f[m] # f[n]}

\* Mutant: a canonical scheme that exists keeps its base.
SeededSchemeMutated(s, n, v, org) ==
    [state |-> "live", name |-> n, canonical |-> TRUE,
     base |-> IF n = Org THEN None
              ELSE IF sch[s].state = "live" THEN sch[s].base ELSE org,
     ingredient |-> Packaged(n, v),
     rows |-> IF sch[s].state = "live" THEN sch[s].rows ELSE Packaged(n, v),
     source |-> Packaged(n, v)]

\* Mutant: the root scheme is based on org like the others.
SeededSchemeRooted(s, n, v, org) ==
    [state |-> "live", name |-> n, canonical |-> TRUE, base |-> org,
     ingredient |-> Packaged(n, v),
     rows |-> IF sch[s].state = "live" THEN sch[s].rows ELSE Packaged(n, v),
     source |-> Packaged(n, v)]

\* The canonical scheme s of name n: base, ingredient and source are brought up to
\* date, mapping rows are inserted only where there are none.
SeededScheme(s, n, v, org) ==
    [state |-> "live", name |-> n, canonical |-> TRUE,
     base |-> IF n = Org THEN None ELSE org, ingredient |-> Packaged(n, v),
     rows |-> IF sch[s].state = "live" THEN sch[s].rows ELSE Packaged(n, v),
     source |-> Packaged(n, v)]

\* seed_canonical, with a package of version v.  Indexes are not retargeted.
SeedCanonical(v) ==
    \E T \in Found([n \in CanonNames |-> Named(n)], Fresh(tr)),
       S \in Found([n \in CanonNames |-> CanonicalNamed(n)], Fresh(sch)) :
        /\ tr' = [t \in Translations |->
                     IF \E n \in CanonNames : T[n] = t
                     THEN [state |-> "live", anchor |-> TRUE,
                           name |-> CHOOSE n \in CanonNames : T[n] = t]
                     ELSE tr[t]]
        /\ sch' = [s \in Schemes |->
                     IF \E n \in CanonNames : S[n] = s
                     THEN SeededScheme(s, CHOOSE n \in CanonNames : S[n] = s, v, T[Org])
                     ELSE sch[s]]
        /\ assoc' = assoc \cup {<<T[n], S[n]>> : n \in CanonNames}
        /\ pref' = [t \in Translations |->
                     IF \E n \in CanonNames : T[n] = t
                     THEN S[CHOOSE n \in CanonNames : T[n] = t] ELSE pref[t]]

\* A start of the API, on this package or on a newer one.
Boot(v) ==
    /\ spent.boots < MaxBoots
    /\ SeedCanonical(v)
    /\ package' = v
    /\ spent' = [spent EXCEPT !.boots = @ + 1]
    /\ UNCHANGED <<idx, reclaim, req>>
-----------------------------------------------------------------------------
Init ==
    /\ tr = Start.tr /\ sch = Start.sch /\ assoc = Start.assoc
    /\ pref = Start.pref /\ idx = Start.idx
    /\ reclaim = {} /\ req = [r \in Requests |-> Idle]
    /\ package = 1 /\ spent = [calls |-> 0, boots |-> 0]

EditCatalog ==
    \/ \E n \in Names :
          \/ \E t \in Fresh(tr) : CreateTranslation(t, n)
          \/ \E t \in LiveTr : UpdateTranslation(t, n)
          \/ \E s \in LiveSch : UpdateVersification(s, n)
          \/ \E s \in Fresh(sch), b \in Translations :
                \/ UploadVersification(s, n, b)
                \/ \E t \in Fresh(tr) : IngestProject(t, s, n, b)
    \/ \E s \in LiveSch : AttachSource(s)
    \/ \E i \in LiveIdx : DeleteIndex(i) \/ \E s \in LiveSch : PinIndex(i, s)

Load(r) ==
    \/ \E s \in LiveSch : LoadDeleteVersification(r, s)
    \/ \E t \in LiveTr :
          \/ LoadDeleteTranslation(r, t)
          \/ \E s \in LiveSch :
                \/ LoadAssociate(r, t, s) \/ LoadMakePreferred(r, t, s)
                \/ LoadDissociate(r, t, s)
                \/ \E explicit \in BOOLEAN : LoadCreateIndex(r, t, s, explicit)

Commit(r) ==
    \/ CommitAssociate(r) \/ CommitMakePreferred(r) \/ CommitDissociate(r)
    \/ CommitDeleteTranslation(r) \/ CommitDeleteVersification(r)
    \/ \E i \in Fresh(idx) : CommitCreateIndex(r, i)

Next ==
    \/ spent.calls < MaxCalls /\ (EditCatalog \/ \E r \in Requests : Load(r))
    \/ \E r \in Requests : Commit(r) \/ Fail(r)
    \/ \E v \in package..MaxPackage : Boot(v)

Spec == Init /\ [][Next]_vars
-----------------------------------------------------------------------------
(* Properties *)

\* The tables satisfy their schema at every commit, whatever the requests decided
\* on rows they had loaded before.
TypeOK ==
    /\ tr \in [Translations -> TranslationRows]
    /\ sch \in [Schemes -> SchemeRows]
    /\ pref \in [Translations -> Schemes \cup {None}]
    /\ idx \in [Ids -> IndexRowSet]
    /\ reclaim \subseteq Ids
    /\ req \in [Requests -> RequestRows]
    /\ package \in 1..MaxPackage
    /\ spent \in [calls : 0..MaxCalls, boots : 0..MaxBoots]
    /\ Consistent(tr, sch, assoc, pref, idx)

\* A translation with associations, none of them preferred.
Unpreferred(t) == t \in LiveTr /\ SchemesOf(t) # {} /\ pref[t] = None

\* What r loaded says something else than the table: it took the row of an
\* association for preferred or not preferred, or for there, or took the
\* translation for one with associations.
StaleCopy(r) ==
    \/ req[r].op = "dissociate" /\ pref[req[r].tr] = req[r].scheme
    \/ req[r].op = "prefer" /\ req[r].flag /\
          (pref[req[r].tr] # req[r].scheme \/ ~req[r].held)
    \/ req[r].op = "associate" /\ ~req[r].flag /\ SchemesOf(req[r].tr) = {}

\* "A translation with any association always retains exactly one preferred
\* scheme" (requirement A25): no request begins on a wrong copy, and the preferred
\* scheme is lost only when one commits on a copy that others made stale since.
PreferredLostOnlyByStaleCopy ==
    [][/\ \A r \in Requests : req[r] = Idle => ~StaleCopy(r)'
       /\ \A t \in Translations : ~Unpreferred(t) /\ Unpreferred(t)' =>
             \E r \in Requests : req[r].tr = t /\ StaleCopy(r) /\ req'[r] = Idle]_vars

\* A defaulted index that is not on the scheme it is to track.
Astray(i) ==
    /\ i \in LiveIdx /\ ~idx[i].explicit
    /\ idx[i].scheme \notin BatchSchemes(idx[i].tr, pref)

\* scheme_explicit FALSE "makes the index track the translation's preferred scheme"
\* (models/__init__.py): it stops tracking it only by the seed, which does not
\* retarget; when the pair it should move to is taken; when it is created on a
\* scheme loaded before another became preferred; or when there is no preferred
\* scheme and the canonical org scheme is renamed or deleted.
StopsTrackingOnlyKnown ==
    [][\A i \in Ids : ~Astray(i) /\ Astray(i)' =>
          \/ package' # package \/ spent'.boots # spent.boots
          \/ \E j \in LiveIdx \ {i} : /\ idx[j].tr = idx[i].tr
                                      /\ idx[j].scheme \in BatchSchemes(idx[j].tr, pref')
          \/ idx[i].state = "none" /\ \E r \in Requests :
                /\ req[r].op = "index" /\ req'[r] = Idle
                /\ req[r].scheme \notin BatchSchemes(req[r].tr, pref)
          \/ pref[idx[i].tr] = None /\ CanonicalNamed(Org)' # CanonicalNamed(Org)]_vars

\* Every deleted index is recorded for the reclaim of its mapping rows, except one
\* that a cascade removed because the deletion of its translation or its scheme had
\* not read it: it came there while that request was under way, or the scheme is
\* the coupled one of another translation (drop_indexes_for_scheme, _drop).
UnrecordedOnlyByCascade ==
    [][\A i \in Ids : i \in LiveIdx /\ idx'[i].state = "gone" /\ i \notin reclaim' =>
          \E r \in Requests :
              /\ req[r].op \in {"delete", "drop"} /\ req'[r] = Idle /\ i \notin req[r].ixs
              /\ idx[i].scheme = req[r].scheme \/ idx[i].tr = req[r].tr]_vars

\* The canonical rows as a start on package v is to leave them: one anchor per
\* name that prefers the canonical scheme of that name, every scheme but the root
\* based on the org anchor, with ingredient and source of this package.
Seeded(v) ==
    \A n \in CanonNames :
        \E t \in Named(n) :
            /\ tr[t].anchor /\ pref[t] \in CanonicalNamed(n)
            /\ sch[pref[t]].ingredient = Packaged(n, v)
            /\ sch[pref[t]].source = Packaged(n, v)
            /\ sch[pref[t]].base \in IF n = Org THEN {None} ELSE Named(Org)

\* A start repairs whatever renames, deletions and new preferences did to the
\* canonical rows, and "re-runs never duplicate rows": a second start on the same
\* package changes nothing (bootstrap.py), unless two canonical schemes share a name.
SeedRepairs ==
    [][spent'.boots # spent.boots =>
          /\ Seeded(package)'
          /\ Seeded(package) /\ package' = package
             /\ (\A n \in CanonNames : \A s, x \in CanonicalNamed(n) : s = x)
             => UNCHANGED <<tr, sch, assoc, pref>>]_vars

\* The mapping rows of s come from another ingredient than the one stored.
RowsBehind(s) == s \in LiveSch /\ sch[s].rows # sch[s].ingredient

\* Mapping rows are "derived ... flattened from ingredient" (models/__init__.py):
\* they fall behind it only at a start, on a package newer than theirs or after a canonical
\* scheme took the name of another, and no request ever brings them back.
RowsFallBehindOnlyAtSeed ==
    [][\A s \in Schemes : RowsBehind(s)' # RowsBehind(s) =>
          \/ /\ ~RowsBehind(s)
             /\ spent'.boots # spent.boots
             /\ \/ sch[s].ingredient.version < package'
                \/ sch[s].ingredient.of # sch[s].name
          \/ RowsBehind(s) /\ (s \notin LiveSch' \/ spent'.boots # spent.boots)]_vars

\* build_chain from the preferred scheme of t: the translation of each hop.
Hop(t) == IF pref[t] = None THEN None ELSE sch[pref[t]].base

\* It ends unless it stays for ever within some translations.
ChainEnds(t) ==
    \A C \in SUBSET Translations : t \in C => \E c \in C : Hop(c) \notin C

\* build_chain and index_fingerprint raise on a chain that returns to a translation
\* it passed, and the sweep of all indexes with them.  Nothing checks for it, but it
\* takes a request that gives a translation some scheme is based on another
\* preferred scheme (a project based on its own name included): no upload, rename
\* or deletion closes a chain, and no start does, which makes the canonical ones end.
ChainsCloseOnlyAtBases ==
    [][(\A t \in Translations : ChainEnds(t)) /\ (\E t \in Translations : ~ChainEnds(t)') =>
          /\ spent'.boots = spent.boots
          /\ \E b \in Translations : /\ pref'[b] \notin {pref[b], None}
                                     /\ BasedOn(b)' # {}]_vars
=============================================================================
