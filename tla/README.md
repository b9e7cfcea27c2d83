# Formal models of the versification tool

The versification tool stores Bible translations and the versifications that number
their verses, resolves references from one translation to another, and compares
versifications. This directory holds TLA+ models of the parts of it where processes,
threads and transactions interleave and of the algorithms that resolve a reference and
compare two sides, the TLC configurations that check them, and theorems with TLAPS proofs.

Run TLC and tlapm in this directory:

    tlc -workers 2 -config MCIndexing.cfg MCIndexing.tla
    tlapm BatchProofs.tla

## 1. Inventory

| Part | Code | State | Operations | Modules |
|---|---|---|---|---|
| Catalog | `api/routers/{translations,versifications,associations}.py`, `scheme_select.py`, `coupled_scheme_delete.py`, `source_attach.py`, `bootstrap.py`, `ports/ingest_port.py` | `translation`, `versification_scheme`, `translation_versification` (one preferred per translation), sources, mapping rows | create, rename, delete, associate, prefer, upload, ingest, attach, seed at start | `Catalog`; edits as far as they touch a build: `IndexRequests` |
| Indexing, requests | `api/indexing/registry.py`, `invalidation.py`, `routers/indexes.py` | `translation_index`, `index_reclaim` | create, pin, delete, rebuild, cancel; requeue, retarget, drop | `IndexRequests`, `Catalog` |
| Indexing, worker | `api/indexing/worker.py`, `builder.py`, `fingerprint.py` | the same tables and `index_mapping`; the thread's local state | drain, claim, build, publish, sweep, recover, purge | `IndexWorker`, `Indexing` |
| Build lock | `worker.py`, `api/db.py` | an advisory lock per database, a connection pool per process | acquire, commit, release | `BuildLock` |
| Index lookup, batches, ranges | `api/indexing/lookup.py`, `keys.py`, `resolve_batch.py`, `verse_range.py` | none (a request's local variables) | prepare, expand a window, find a ready pair, load payloads, resolve the rest | `BatchPromise`, `BatchResolve` |
| Resolver | `resolver/*`, `ingest/derive_mappings.py` | none (one call's local variables) | cover, project, walk a chain of schemes, compose, grow a hull, assemble | `VerseMapping`, `Resolver`; chains as far as an index depends on them: `IndexRows` |
| Single references and chapters | `api/ports/resolver_port.py`, `span_lookup.py`, `resolve_chapter.py` | none | canonicalize, resolve, look rows up, deduplicate, emit | `ResolvePort` |
| Divergence orchestration | `api/divergence/*`, `routers/divergence.py` | `divergence_report`, an in-memory priority queue, the threads | claim, submit, compute, store, precompute | `DivergenceReports`, `DivergenceDialog` |
| Divergence dialog | `web/src/divergence/useDivergenceReport.ts` | the state of the polling loop | post, poll, repost, fetch, close | `DivergenceDialog` |
| Divergence engine | `divergence/*` | none | load sides, compose, classify, build events and runs | `DivergenceScheme`, `DivergenceRelations`, `DivergenceEngine` |
| Ingest | `ingest/*` | none | parse, derive mappings | the derivation: `VerseMapping`; what is stored: `Catalog`; parsers not modelled |
| Navigation and jumps | `routers/navigation.py`, `jump_*.py` | `_PROCESS_CANCEL_CACHE` | list, filter | not modelled |
| Authentication | `auth.py`, `failed_auth_limiter.py` | failures per client in memory | check, count, evict | not modelled |
| Web viewer, overlay, charts, management pages | `web/src/viewer`, `web/src/divergence`, `web/src/manage` | URL, caches, presentation | navigate, draw, forms | not modelled, except for the dialog |
| Plumbing | `config`, `errors`, `health`, `static`, `logging`, migrations, testops, research | settings | | not modelled |

How they interact. A request handler runs in a thread with a session of its own; all it
writes becomes visible when `get_session` commits at the end. The index worker is one
thread per process. It polls the database, so requests reach it through
`translation_index` rows only; the advisory lock keeps the workers of several processes
apart. When an index becomes ready, the worker's thread calls `schedule_precompute`,
which claims divergence reports and puts their ids in the process's priority queue. The
divergence threads take ids from that queue; the dialog posts a comparison, which claims
a report in the same way at a higher priority, and polls the row. A batch reads the rows
that builds write and resolves live what it does not find there.

What is hard here:

- Nothing has a version column. A session keeps the row it loaded until its next commit
  or rollback, writes only the attributes whose values it changed, and does not see
  what was committed meanwhile. Each decision in a handler or a build is made on a copy.
- Transactions run READ COMMITTED: two statements of one request see two states.
- A build commits many times, so a request may edit, requeue, cancel or delete the index
  being built, one of its counterparts, or the catalog, between any two commits.
- Mapping rows have no foreign key; deleting an index leaves them to a reclaim queue.
- The advisory lock belongs to a connection and the worker's connection changes.
- The queue of divergence jobs is in memory, the rows it stands for are not.
- Timeouts (a stale heartbeat) race the computation they suspect.
- The seed runs at every start over whatever users made of the canonical rows.
- A walk up a scheme has no inverse: ranges of unequal length are paired by index and
  clamped, merges and splits fan out, exclusions drop branches. The answer to one
  reference is assembled by three algorithms that decline in favour of each other, two
  of which iterate over sets, and then translated into stored rows that coincide.
- The engine groups, splits and merges relations several times over; a verse lost on the
  way leaves a report that still looks right.

Correctness, by part: a ready index has all the rows a reader may ask for, resolved on the
scheme it claims; rows of deleted indexes go away; every queued index comes to rest; one
process builds at a time (as far as its pool does not overflow); a translation keeps a
preferred scheme and its defaulted index follows it; a batch is answered as the live
resolver could have answered it, or from an index, with no answer older than the index's
last build; a report is never served as up to date with an older payload for good; a job
is not lost; a dialog gets an answer; a resolved reference comes with all verses it is
connected with and no others, under a relation that agrees with them, whichever lookup
found the rows; a report names every verse and every divergence once.

## 2. Modules

| Module | Extends | Models |
|---|---|---|
| `IndexRows` | | tables, catalog, the unit of work (`Merge`, `Flush`), chains, digests, pages |
| `IndexRequests` | `IndexRows` | `registry.py`, `invalidation.py`, catalog handlers |
| `IndexWorker` | `IndexRows` | `worker.py`, `builder.py`, faults |
| `Indexing` | both | composition, fairness, properties, the inductive invariant |
| `IndexingProofs` | `Indexing` | theorems |
| `BuildLock`, `BuildLockProofs` | | the advisory lock over connection pools; theorems |
| `Catalog` | | catalog requests, preferred schemes, defaulted indexes, the seed |
| `CatalogProofs` | `Catalog` | theorems |
| `BatchRequests` | | requests, texts and answers, shared by the next two |
| `BatchPromise` | `BatchRequests` | what the batch endpoints promise |
| `BatchResolve` | `BatchRequests` | `resolve_batch.py`, `verse_range.py`, `lookup.py` beside the index's writers; implements `BatchPromise` |
| `BatchProofs` | `BatchResolve` | theorems on windows and pages; the refinement |
| `DivergenceReports` | | claims, queue, threads, `compute.py` |
| `DivergenceDialog` | `DivergenceReports` | POST handler, precompute hook, dialog; composition and properties |
| `DivergenceProofs` | `DivergenceDialog` | theorems |
| `DivergenceScheme` | | `scheme.py`, `text_facts.py` (operators) |
| `DivergenceRelations` | `DivergenceScheme` | `compose.py`, `classify.py` (operators) |
| `DivergenceEngine` | `DivergenceRelations` | the pipeline, `events.py`, `runs.py`; properties |
| `DivergenceRelationProofs` | `DivergenceEngine` | lemmas on sorting, joining, splitting, the patience sort, grouping |
| `DivergenceEngineProofs` | `DivergenceRelationProofs` | theorems |
| `VerseMapping` | | rows from an ingredient, covers, projections, relations, walks (operators) |
| `Resolver` | `VerseMapping` | one call of `resolve()`: `resolve.py`, `range_hull.py` |
| `ResolvePort` | `Resolver` | `resolver_port.py`, `span_lookup.py`, `resolve_chapter.py` around it |
| `ResolverProofs` | `ResolvePort` | theorems on one call and on requests |
| `MC*` | | constants and symmetry for TLC |

### Indexing

`rows` is `translation_index` (status, pair, `scheme_explicit`, `cancel_requested`,
`content_fingerprint`), `older` the order of `requested_at` (rows stamped by one
statement are equal), `maps` is `index_mapping`, `notes` the pairs in `build_notes`,
`reclaim` is `index_reclaim`, `pref` and `stamp` the part of the catalog that indexes are
computed from. `txn` is a request between its reads and its commit, with the rows as it
loaded them; `w` is the worker's program counter and local variables, `w.row` the
identity map's copy of the row being built. A request is a `Load...` action with the
handler's checks and then `CommitUpdate` or `CommitDrop`. A build is one action from
commit to commit, split again where the code reads something a request may change:

| Code | Action |
|---|---|
| `drain_reclaim` | `DrainReclaim` |
| `process_next_index` | `ClaimNext`, `FailBuild` |
| `sweep_fingerprints` | `SweepFingerprints`, `SkipSweep` |
| `build_index` to its first commit | `OpenBuild` |
| `_stop_if_not_current` | `StopIfNotCurrent`, `ApplyCancel` |
| the delete loop | `ClearMappings` |
| `_build_pair`, each direction | `PairOpen`, `WritePair`; `PairBack`, `WriteBack` |
| `_increment_pairs` | `NextPair` |
| `_finish` | `FinishLoad`, `Publish` |
| `IndexWorker.start` | `Recover` in `Restart` and `BootBeside` |

Data is abstracted: one stored verse per translation, so one mapping row per ordered
pair; its payload is the `Path` it was resolved on. A chain has at most two hops
(`CatalogAssumption`). A digest keeps what the code hashes: translation, its time stamp,
the chain and the time stamps of its hops. Progress counters, error texts, reasons and
start and end times are left out. `vacuum_index_mapping` has no effect on this state.

Left out: creating and deleting associations and schemes (`Catalog` has them, so that
here an associated scheme stays one and `scheme_ref_from_id` never returns nothing),
uploads, and two requests in flight at once. Between reading and flushing, the sweep is
one step, as is `recover_orphaned_builds`.

### Build lock

`idle`, `others` and `worker` give each connection of each process a place; `lock` is its
owner and depth. The pool is SQLAlchemy's `QueuePool` as `create_engine` sets it up in
`db.py`: first-in first-out, with an overflow; a connection returned to a full pool is
closed. PostgreSQL's lock is re-entrant per connection and is dropped when the connection
closes. An unlock on another connection than the owner has no effect: the code's
`release_build_lock` may well be such an unlock, the lock then stays on a pooled
connection and a later pass that gets this connection enters again. `WithinPool` says that
no process has more connections open than its pool keeps. Nothing in the code limits a
process to that: `OneBuilderWithinPool` is what holds of one builder at a time as long as
it is so, `OneProcessBuilds` is the documentation's claim without that condition, and is
violated.

### Catalog

`tr`, `sch`, `assoc`, `pref`, `idx` and `reclaim` are the tables, with deleted rows kept
as `"gone"` so that ids are not used twice; `Consistent` is their unique indexes and
foreign keys, which every commit meets. `req` holds what each request in flight has
loaded. A request that decides on rows it read earlier is a `Load...` and a `Commit...`
action: associate, prefer, dissociate, delete a translation, delete a scheme, create an
index. A request that a constraint rejects is `Fail`. The other requests read and write in
one statement or decide on nothing they read before, and are one action. A DELETE or
UPDATE in SQLAlchemy addresses the row by primary key, so it acts on a row whose contents
have changed and fails on a row that is gone (`held`). `Boot` is `seed_canonical` with the
package version it finds. An ingredient is the scheme it came with or a canonical name
with a version; mapping rows and spans are what they were derived from. The status of an
index is left to `Indexing`.

### Batches and ranges

A request is a chain of actions: `Prepare` (schemes and a hop path), `Expand` (the stored
verses of a window and its page), `FindSource` and `FindTarget` (the two statements of
`find_ready_pair`), `LoadPayloads`, one `ResolveEntry` per member, `RespondBatch`. An
answer is dated by two versions: `first`, when the path it was computed on began to be
read, and `last`, when its spans were. `Prepare` takes several statements; its answers are
dated from the first of them, so that whatever a later one sees lies between the two. A
member is a verse, a padded verse (the index strips it, the live parser rejects it),
several verses, or no reference at all. `load_payloads`, `index_key`,
`stored_verse_refs`, `clamp_page` have the names of their functions.

Between any two of these actions the writers commit. They are kept as free as the code
leaves them:

- `Edit` changes answers and queues the index of its side, `EditFurther` changes answers
  and queues none (an edit of a base translation or of a scheme further up the chain, which
  only the sweep notices; an index created after an edit listed those to queue). `Requeue`
  stands for every commit that takes an index out of its status.
- A build is `Claim`, `OpenBuild` (the counterparts are listed once), `ClearMapping` row by
  row, `OpenPair`, `LoadPair` (spans and verses are loaded once for all rows of a pair),
  `BuildRow`, `CheckFinish`, `Publish`. Whether the index is still the one claimed is
  looked at in `CheckFinish` and then no more: `Publish` writes `ready` over an edit, a
  rebuild or a cancel that committed since, as `_finish` does. Rows are still written after
  the index was queued or dropped, pairs and members may fail, a build may stop anywhere.
- Any number of builds runs at once, also of one index: nothing here rests on the build
  lock, so none of it falls with `OneProcessBuilds`.
- An index is dropped, created again under a new id, and its rows reclaimed one by one.

`floor` and `since` are auxiliary: the floor of an index is the version at which its last
build was claimed or, if other builds ran then, the oldest at which one of them was.
`AnsweredSinceBuild` says that no answer is older than both the call and the floors of the
indexes it was served from.

`BatchPromise` states what a client may rely on: one entry per member, in order, each the
answer of its own reference; computed from reads between the call and the response unless
the response says that an index was used; for a window, the verses whose number of
predecessors lies in the page, and the total, at one such moment; 422 for what is out of
bounds. `BatchResolve` is shown to implement it: `ImplementsPromise` is `Promise!Spec` under
the mapping that shows the client the request in progress and nothing else.

Abstracted or left out: one ordered pair of translations with one index on each side, on
the schemes the request selects (that a request finds no index for its schemes is the index
being absent); which attributes a commit writes (`Indexing` has the unit of work); payload
rows that do not parse; 404, 409 and the 422 for a path that cannot be built, which answer
the whole request with an error; unknown book codes.

### Single references and chapters

`ResolvePort` puts `Resolver` between the stored rows of both translations. A row is
`[c, v, part, range]`. `_canonicalize_query_ref` turns a verse inside a milestone into its
anchor, `find_stored_span` and `_lookup_preloaded` are the two lookups (database, loaded
tables), `_enrich_span` and `_dedupe_enriched` make rows of coordinates, `Emit` is the
chapter's check for alignments given before. `Ask` reads the chains anew for every
reference, as the code does; `EditChains` is another request's commit; `PathFails` is the
`LookupError` that a chapter swallows.

### Divergence reports

`inputs` is the version of what a report is computed from, and stands for its fingerprint;
`row` is the report's row, `payload` the version it was computed from. `queue` keeps the
ids of each priority in order, `pending` the runner's set, `job` each thread's place in
`compute_report` and the row as it loaded it. `client` is a dialog or a run of the
precompute hook. `same_fingerprint` is modelled as what it does: it locks the row and
compares the copy in the identity map, since a locking SELECT does not refresh an object
already loaded. `Submit` does the two critical steps of `submit` (the set, the queue) at
once. The documentation says that precompute runs on the divergence runner; the code runs
`schedule_precompute` on the index worker's thread (`main.py`), which only claims and
submits. Left out: the deletion of report rows by cascade, the stop of the threads at
shutdown (their jobs are lost as at a restart), an exception inside a claim.

### Divergence engine

One run is four stages: `Load` (both sides with their text facts, and the root), `Compose`
(union of org verses, split of alternate books, classification, inversions), `BuildEvents`
(groups, bridges, parts, one-sided books), `BuildRuns` (rows of the ladder). A verse is
`<<book, chapter, verse>>`, so that the order of tuples is `verse_pos`. Loops that carry
something along are functions on the number of turns: `Parts` is the union-find of
`compose.py`, `Tails` the patience sort of `classify.py` (for each length the subsequence
with the least last value), `Groups` the loop of `build_events`, `FoldBooks` that of
`_fold_book_one_sided`, `Rows` that of `build_runs`. `InOrder` is sorting. `EngineAssumption`
says what the loaders let through: books, chapters and verses are natural numbers
(`RefOK`), a document has finitely many lines and books (`DocOK`), a text finitely many
spans (`SideOK`). Left out: the reader of `.vrs`
files, the catalog of books, the wording and codes of warnings, the encoding of the
payload.

### Resolver

A verse is `[c, v, part]`, a range `[c, lo, hi]`. Book and chapter are one coordinate `c`,
since the code only compares the two together; verse numbers are the code's. A hop is the
sequence of a scheme's mapping rows, in ordinal order, and the rows are what
`derive_mapping_records` makes of an ingredient, never arbitrary ones.

`query` is the call after `resolve()` has selected schemes, expanded the reference and
built the two lists of hops. `Assemble` is `assemble` up to the first hull: the range
trigger decides between `build_hull` and the atomic path. `PopNode` is one turn of
`build_hull`'s loop with its `worklist` and `seen`; `FinishHull` is the rest of the call,
in which the atomic path may call `build_hull` again. `_atomic_result`,
`find_range_trigger`, `build_range_hull` and `HullAnswer` are operators under the names of
their functions where they have one. The worklist is a set here and any of its nodes may
be popped: the list in the code is filled by iterating over sets, so its order is not
fixed. The loops over the pivots (`for pivot in pivots`, `next(iter(pivots))`) take them
in any of `Orders`. `_relation_after_dedupe` is what the endpoints do to the relation;
`Public` applies it for the property that compares answers.

`CallsAssumption` says what the code guarantees of a call and its rows (`RowOK`: what
`derive_mapping_records` and `parse_ref` let through), and is all the proofs know of them.

Left out: the grammar of references and rows that do not parse (ingest skips them,
`cover.py` ignores them), the text of spans, trace logging, the selection of schemes.

## 3. Runs

| Run | Instance | Shows |
|---|---|---|
| `index_safety` | 3 ids, t1 numbered by s1 based on t2, t2 with s2 and s3; 1 request, 1 edit, 1 fault (a crash, a further process or a database error) | `TypeOK`, `OrphansTracked`, `ReadyPairsCovered`, `PublishedRowsMatch` |
| `index_liveness` | 2 ids, 1 request, 1 crash or further process, fair | `SettlesWhenQuiet` |
| `index_requeue` | 2 ids, 1 request | `ConcurrentRequestWins` is violated |
| `index_stale` | 2 ids, 1 request | `StaleIsDetected` is violated |
| `build_lock` | 2 processes, 5 connections, pools of 2 with an overflow of 1 | `TypeOK`, `OneBuilderWithinPool` |
| `build_lock_overflow` | the same with 6 connections | `OneProcessBuilds` is violated |
| `catalog` | 2 canonical names, 4 translations, 5 schemes, 3 indexes; 3 requests, 2 in flight, 1 start on the same or a newer package | `TypeOK`, `PreferredLostOnlyByStaleCopy`, `StopsTrackingOnlyKnown`, `UnrecordedOnlyByCascade`, `SeedRepairs`, `RowsFallBehindOnlyAtSeed`, `ChainsCloseOnlyAtBases` |
| `batch` | a milestone of two verses of which one is left after an edit; a list of several verses and a padded one, a window, an empty list, a reversed window; 1 edit, 1 build at a time, 1 index created again | `TypeOK`, `AnsweredSinceBuild`, `ImplementsPromise` |
| `divergence` | 1 report, 1 thread, 1 dialog, 1 hook; 1 edit, 1 stall, 1 restart, 2 claims, fair | `TypeOK`, `OnlyRestartLosesJobs`, `MislabelledIsReplaced`, `DialogIsAnswered` |
| `engine` | every ordered pair of the listed sides, two roots | `TypeOK`, `NoVerseLost`, `EveryDivergenceReported`, `InversionsAreFewest`, `RunsDecode`, `SelfComparisonIsSilent`, `MirrorAgrees` |
| `resolver` | one chapter of 2 or 3 verses, at most 2 mapping rows in all on the path, single verses, ranges, parts; with a row of them, or a split or merge on either side, also 4 texts of 3 verses (plain, milestone, parts, gap) for each translation, chapters, 1 change of the chains | `HullClosed`, `HullIsComponent`, `NothingLost`, `TargetsLinked`, `SingleVerseAnswer`, `LoopAdvances`, `PortTypeOK`, `FindersAgree`, `QueryRowListed`, `CounterpartRowsListed`, `EmittedOnce`, `ChapterCovers` |
| `resolver_hash_order` | a split or merge over 3 verses on either side of the ancestor | `AnswerIsFixed` is violated |

Why the bounds are enough. Three indexes are the least with a build, a counterpart still
to come and one already done; two of them may share a translation, so that pairs with and
without a shared ancestor, a retarget and a taken pair all occur. `ChunkSize` 1 makes
every clearing and every reclaim take several pages. One request reaches each kind of
interference with a build at each of its steps; `CreateIndex` is bounded by the ids, not
by the requests. A crash and a second process are the same recovery at another moment;
the crash is in the liveness run, the other process in the safety run. Symmetry on ids is
used in the safety run only.

With one report, one dialog and one hook, two claims may race each other, an edit, the
thread and the restart. The properties `TypeOK` and `OnlyRestartLosesJobs` were also
explored with two threads (2.86 million states, no restart), which takes too long to keep
as a run; section 5 proves the first two for any number of everything.
`MislabelledIsReplaced` is about one thread, the default of `DIVERGENCE_RUNNER_THREADS`,
and proved for one thread. The pools of `build_lock` hold two connections and open one
more (the code takes SQLAlchemy's defaults, five and ten): the least with which the
connection of a pass changes, another one is in use beside it, and a connection comes back
to a pool that is full. The numbers matter to the property only through `WithinPool`.

`catalog` starts from a seeded database with a project, an uploaded scheme and one
defaulted and one pinned index. Two requests in flight are the least in which a copy goes
stale, the third prepares or repairs what they meet; with two starts or four requests the
states are too many to keep; its seven properties are proved without these bounds. `batch`
needs one edit for two versions of every answer, one fresh index for an id that changes
under a reader, and a text that differs between the versions; two members of which one can
be stored are enough to mix stored and live answers. `UntilAnswered` stops a behaviour at
the response, which is still checked: nothing reads what the writers do after it. One build
at a time is what the lock means to allow; two at once were explored apart with a text of
one verse (1.6 million states), and section 5 proves the property for any number of them.
The window of the run cuts a page off two books; that any page of any window is the
promised one is proved (`WindowIsPaged`).

`resolver` checks the resolver inside `ResolvePort`, which calls it. Its initial states are
of two kinds (`MCInit`): the schemes of `MCResolver` between texts that store every verse by
itself, one reference each, and the schemes of `MCResolvePort` between every two texts. The
latter have each way in which a coordinate can meet a row: its own row, another part's whole
verse, a milestone, none.

`engine` compares every two of its sides with each other: all pairs of eight kinds of
mapping lines within a book of two chapters, an alternate form of the book, a third book
of single verses, a longer text, supplements, exclusions, bridges and parts, each with no
stored text and with one or two scattered texts, of which one has parts and milestones.
Chapters of more than three verses and three kinds of lines that interact are not covered.
The resolver's instance holds every scheme with two rows over two verses on either side,
every two schemes with a row each stacked on one side or facing each other across the
ancestor, and rows over three verses that face rows over two: every pair of relations
meets in a composition, every relation meets an exclusion, ranges of unequal length meet
each other, and an unequal range has an interior verse. The range 1-3 also reaches past
the two-verse schemes of one row, where the identity applies. A third row, a third hop and
a second chapter are not covered.

`CHECK_DEADLOCK FALSE` is set where a run may come to its end: a call is answered
(the runs of `MCResolver` and `MCResolvePort`, `engine`, `batch`), every dialog is closed
(`divergence`), or the bounded requests are used up (`catalog`).

Each property of a passing run has a mutant, an operator placed before the one it
replaces and commented "Mutant of"; with it, TLC finds the property violated.

### Disagreements between code and documentation

1. `ConcurrentRequestWins`: `_finish` checks once, computes the fingerprint and publishes
   with an UPDATE that has no guard; a rebuild or cancel committed in between is lost.
2. `StaleIsDetected`: the fingerprint is taken when the build ends. If the preferred
   scheme changes while pairs are resolved, the rows are out of date and the fingerprint
   is not, so no sweep rebuilds them.
3. `AnswerIsFixed`: `build_hull` takes a pivot by the iteration order of a set whose
   elements hash differently in every process. When a split and a merge face each other
   across the ancestor, the same call is answered `split` by one process and
   `one_to_one` by another, so an index row and a live resolve may disagree.
4. `OneProcessBuilds`: the pool opens up to ten connections beyond the five it keeps
   (`db.py:28`). When the connection that owns the lock comes back at a commit and five
   others are idle, it is closed and the lock is gone, while the pass goes on. Another
   process then builds beside it, which `doc/indexing.md:81` excludes.

### Observations

What the models show or what was met while writing them, without a run of its own. No
documentation says otherwise unless a line is quoted.

- Indexing: after a database error the except clause of `process_next_index`
  (worker.py:220) reads on the broken session and raises too; the row stays `building`
  until a process starts (`DbError`, `Recover`).
- Batch: `ready` does not mean up to date. An edit that commits while `_finish` computes
  the fingerprint is published over, one further up the chain queues no index until a
  sweep; a request that follows the edit is then answered with rows from before it, where
  `lookup.py:37` calls a stale index "slow rather than wrong". This follows from the first
  two disagreements; `AnsweredSinceBuild` is what holds instead.
- Divergence reports: the locked fingerprint check compares a cached copy
  (registry.py:124), so a newer claim can be marked ready with the older payload;
  `MislabelledIsReplaced` bounds the damage. A report queued by precompute keeps that
  priority when a dialog asks for it (runner.py:82).
- Divergence engine: a row of the ladder keeps the exclusion marks of its first relation
  (runs.py:58). `_adjacent` (events.py:15) takes the first verse of a chapter for the
  successor of any verse of the chapter before. A side compared with itself still emits
  BRIDGE and SEGMENT events. Verses inside a stored milestone count as omitted.
  `split_alternates` does not look at exclusions, and is not symmetric when both sides are
  in several books of which none is shared (`MirrorAgrees` leaves that out).
- Responses: the edges of a response index the lists from before the deduplication
  (resolver_port.py:336-343). doc/resolver.md:54 says that a chapter does not emit the
  same spans twice; complex answers may be, since their connectors differ (`EmittedOnce`
  leaves them out). A verse may be listed by two alignments of a chapter.
- Resolver: a range with one excluded verse becomes a hull of two sources and one target
  labelled `merge`, where requirement A9 asks for a `complex` hull. A split one of whose
  branches is excluded on a later hop is answered by the surviving branch on the atomic
  path and by `exclude` in a hull; `NothingLost` leaves an excluded climb out for that
  reason. The connectors of a range hull start at its first and last source only, so that
  targets in between may have none (`TargetsLinked` speaks of connected hulls). They are
  also given with the relation `range`, although types.py:81 and doc/resolver.md:108 say
  that edges are populated only for `complex`.
- Catalog: an anchor that was renamed is created anew at the next start; a user's
  translation with the name of a canonical scheme becomes its anchor. A project based on
  its own name closes a chain and can then not be deleted (409). Two defaulted indexes of
  one translation make `make_preferred` fail on the unique index (invalidation.py:119).
  Deleting a coupled scheme cascades to other translations' indexes without a reclaim
  entry, and so does deleting any scheme to an index that is created on it or pinned to it
  between the SELECT of the indexes and the DELETE (versifications.py:187). Mapping rows
  of a canonical scheme stay as they were after an upgrade of the package
  (`RowsFallBehindOnlyAtSeed`).
- Batches: a padded reference is answered when the index has its row and an error when it
  is resolved live; the promise allows both. `expand_stored_range` reads the texts after
  the schemes and the path were read: a window may be of a later text than its answers'
  path.

## 4. Fairness

Safety runs assume none. In `Indexing`: weak fairness of `Worker`, because `_run` polls for
ever and an exception does not end it; of `Restart`, because a supervisor restarts the
container; of the commit of a request that reached its handler. Strong fairness of
`SweepFingerprints`: a pass that finds no work sweeps once the timer is due, and the timer
does not restart when other work intervenes. Users are not fair: `SettlesWhenQuiet`
assumes only that they stop. In `DivergenceDialog`: weak fairness of each thread's normal
steps, of the server's handling of a request, of an open dialog's next request (it
polls on a timer), and of a heartbeat that nobody refreshes becoming stale. Nothing makes
a compute fail, an input change or a dialog close. A compute that raises at every attempt
still answers the dialog, with a failure.

`Resolver`, `ResolvePort`, `DivergenceEngine` and the reader of `BatchResolve` are
sequential code. That a hull's loop ends follows from `LoopAdvances`: each turn marks a
new node or takes one off the worklist, and over finitely many verses (`TypeOK`) there are
finitely many of both.

## 5. Proofs

`IndexingProofs` proves, for any sets of ids, translations and schemes and any bounds,

- `TypeCorrect`: `Spec => []TypeOK`,
- `OrphansAlwaysTracked`: `Spec => []OrphansTracked`,
- `ReadyPairsAlwaysCovered`: `Spec => []ReadyPairsCovered`,
- `PublishedRowsAlwaysMatch`: `Spec => PublishedRowsMatch`,
- `Invariance`: `Spec => []IInv`, on which they rest.

The assumptions are `CatalogAssumption` and `BoundsAssumption`.

None of the properties is inductive alone. A build that is about to write a row for an
index just deleted would break `OrphansTracked`, unless that index is in the queue and
stays there: `BuildTracksOrphans` says so of the build's index and of all counterparts it
still has to visit, and it holds because the worker that drains the queue is the worker
that builds. A build that publishes would break `ReadyPairsCovered` unless it has covered
each index that is ready now: `BuildCovers` says that each ready index is still on the
build's list or covered in both directions, and that the list is complete although
indexes change during the build, because no other build can make an index ready.
`BuildMatches` says that after the clearing loop all rows of the build's index have the
scheme the build started from. `WorkerOK` and `RequestOK` describe the local state of the
worker and of the request at each step. The proof has one lemma per action; the parts that an
action cannot disturb are dealt with once per class of actions (`RowsOnly...`,
`QuietStepInv`, `EndPassInv`).

`BuildLockProofs` proves, for any processes, connections and pool size, from
`PoolAssumption`,

- `TypeCorrect`: `Spec => []TypeOK`,
- `OneProcessAtATime`: `Spec => OneBuilderWithinPool`.

The overflow is any number. The condition, that no process ever has more connections open
than its pool keeps, cannot be dropped: `build_lock_overflow` shows what happens without
it. The invariant `LockInv` says that a connection is in one place, in one
use or once in one pool (`PlaceInv`), that what a process has in use and what it keeps idle
never exceed the pool, so that nothing is closed when it comes back (`RoomInv`, kept by
every step that leaves each process within its pool), and that the lock's owner is an open
connection of the process that is in a pass (`OwnerInv`). Since the owner is one connection
and open in one process, two passes cannot overlap.

`BatchProofs` proves `WindowIsPaged`: for any stored text and any window and page
that is not refused, the sorted list of `stored_verse_refs`, cut as `resolve_verse_range`
cuts it, is the page that `BatchPromise` defines by counting predecessors, and its length
is the size of the window. It rests on `Ascending` sorting a finite set of coordinates
into the one increasing list, on padded bounds (-1 and above every verse) comparing as
open ones, and on the filter by books losing nothing.

It then proves, for any texts, requests, limits, numbers of indexes and calls and any
finite set of builds at once,

- `BatchKeepsPromise`: `Spec => ImplementsPromise`,
- `AnsweredSinceItsBuild`: `Spec => []AnsweredSinceBuild`,
- `TypeCorrect`: `Spec => []TypeOK`.

The assumptions are those of `BatchRequests` (finite texts with coordinates below
`MaxBound`, well-formed requests), `MaxAssumption` and `WorkersAssumption`. The invariant
`Inv` follows one thought. The floor of an index is the oldest start among the builds that
ran when its last build was claimed, so whatever any of them writes from then on is dated
from the floor or later. Once that build has found the rows of its index gone, all of them
are no older than the floor, and stay so when it is published, queued or built again
(`FloorInv`). From the moment a call has found an index ready, the rows it will load, and
those that running builds may still write among them, are no older than the floors it
found, although it reads them by a later statement (`ReadInv`). Hence each loaded row is
allowed, and each live answer was read within the call; `AnswerInv` says so of the entries
so far, `PageInv` of the page. `TimeInv` keeps the dates in order. For the promise, every
step of the writers but an edit, and every step of the reader but the first and the last,
is a stutter. Neither theorem assumes anything of when an index is queued, which status a
build finds when it publishes, or how many builds run.

`ResolverProofs` proves, for any mapping rows, any chains and any reference,

- `HullIsClosed`: `Spec => []HullClosed`,
- `HullMinimal`: the loop collects nothing outside a set that holds the query and is
  closed under neighbours,
- `HullIsTheComponent`: `Spec => []HullIsComponent`,
- `LoopAlwaysAdvances`: `Spec => LoopAdvances`,
- `TypeCorrect`: `Spec => []TypeOK`,
- `CounterpartsAreKept`: `Spec => []NothingLost`,
- `ConnectorsReachTargets`: `Spec => []TargetsLinked`,
- `SingleVerseIsAnswered`: `Spec => []SingleVerseAnswer`.

`HullIsClosed`, `HullMinimal` and `LoopAlwaysAdvances` rest on no assumption: what
`project_verse` returns matters nowhere, only that a neighbour is looked up in the same way
each time. `HullClosed` speaks of the end of the loop and is not inductive. The loop
invariant `HullInv` says that what is owed to the component is collected or still on the
worklist; with an empty worklist it is `HullClosed`. `HullMinimal` needs the converse
invariant, that collected and waiting nodes are within the closed set.

The others are about what the walks compute, and need `CallsAssumption`: the members of a
reference share their part, a range does not end before it begins (`parse_ref` refuses
it), only an excluded row or a merge has no base and a row called `one_to_one` has its own
range as base (`derive_mapping_records`), and `Verses` has whatever the rows refer to. It
restricts no row further: rows may overlap, contradict each other, pair ranges of any two
lengths and come in any order. From the bottom:

- Recursion. The library's induction theorems take an operator and cannot be used, so
  `Induction` is proved for a set of numbers: the least number outside it would be 0 or
  follow one inside. `RecursionDefines` derives from it that a function defined by
  recursion with values in a set exists, so that the `CHOOSE` behind it finds one. The
  walks are written as such functions, not with `FoldLeft`, for that reason.
- One hop. The covering row found exists and covers (`FindsCovering`), pairing by index
  lands inside the other range, a descent never excludes (`Projects`).
- Walks. A walk keeps the part and stays inside `Verses` (`WalkStaysInside`), and verses
  walk together as each walks by itself (`WalksTogether`), although the relation of the
  walk depends on their order. So the counterparts of a verse are those of the pivots it
  climbs to.
- Answers. `AnswerOK` says what every path of assemble gives back: the members are among
  the sources, the counterparts of each climb that is not excluded among the targets,
  connectors join spans, those of a complex connected hull reach each target, and all is
  of the call's part. It is shown of the atomic answer, the connected hull and the range
  hull in turn.
- The invariant. `ResolverInv`, together with `HullInv`, is inductive: the trigger is a
  range met on a hop of the call (`Whence`), what is collected has the part of the call,
  and a collected target was found from a collected pivot (`Collected`, `TargetsFound`).
  The last is why no target of a complex hull is without a connector: the pivot it was
  found from inverts to some source, which `HullClosed` says is collected.
- The component. A search that has not closed grows with each hop, and a call has no more
  nodes than three for each chapter and verse since they share their part; hence it is
  closed at the bound of `HullIsComponent`. Then `HullMinimal`'s invariant bounds the hull
  by it, and `HullClosed` the search by the hull.
- The relation of one verse. A walk on which no row splits or merges leaves nothing or one
  verse, has no siblings, and is called unmoved only if the verse stands where it began
  (`PlainWalk`, kept hop by hop by `HopStaysPlain`, since composing relations that name a
  change never gives `one_to_one`). So the atomic path answers such a verse itself, and
  the hull is asked for a single verse only when a split or a merge is on its way. That is
  `SingleInv`, inductive with `ResolverInv` and `HullInv`. A hull names one of the four
  relations for one source and one target only (`HullSingle`), a range hull never
  (`RangeRelation`). The proof showed that "unless what is split and merged may cancel"
  has to speak of the rows met (`Combined`), not of the walk's result: a split and a merge
  within one leg can leave one verse and no siblings.

It goes on to prove of the endpoints, for any stored texts, requests and chains,

- `LookupsAlwaysAgree`: `PortSpec => []FindersAgree`,
- `HullIsClosedInRequests`: `PortSpec => []HullClosed`,
- `CounterpartRowsAreListed`: `PortSpec => []CounterpartRowsListed`,
- `ChaptersAreCovered`: `PortSpec => []ChapterCovers`,
- `AskedRowsAreListed`: `PortSpec => []QueryRowListed`, if no request names a part or no
  text stores both a verse by itself and a milestone over it (`Apart`),
- `PortTypeCorrect`: `PortSpec => []PortTypeOK`, which includes the resolver's `TypeOK`.

The assumption is `PortAssumption`: a text is a sequence of rows with unique coordinates
(`uq_verse_span_coords`), its rows and the references of a request are about chapters,
verses and parts that `Verses` has (`StoredOK`, `AskOK`), a milestone is stored whole under
the first of its verses (`parse_usx`), and what a commit leaves is again one of `Chains`, or
none.

- The lookups agree for each text and each verse, stored or not: unique coordinates make
  the last row that the table of the builder keeps the only one, and the first milestone of
  a chapter that covers a verse is the first of all rows that does.
- The hull stays complete within a request because a call of the resolver starts with an
  empty worklist, and nothing else writes what the loop collects.
- The others rest on `PortInv`. Its `CallInv` says that while the resolver works, it
  works on the reference next in `asked`, and that `ResolverInv` and `HullInv` hold of
  that call: the members a reference is canonicalized to are verses of one part
  (`AskedMembersOK`), so every call of the endpoints is one that `ResolverProofs` is about,
  whatever the chains were when they were read. Then `AnswerOK` gives the sources and the
  counterparts of the answer, and `DedupeKeeps` that taking spans together loses none.
- `ChapterCovers` speaks of finished chapters only, and `ChapterSoFar` says what is true of
  unfinished ones: every stored whole verse is still to be asked, has failed, or is on the
  source side of a response. A step that answers it lists it, or drops the answer because
  an earlier response has the same fingerprint and hence the same source coordinates. This
  needs that a stored whole verse is asked as itself, which is where unique coordinates
  count (`WholeIsAskedAsItself`).
- A verse that is asked and stored is canonicalized to the coordinates of a row that holds
  it, and that row is what the lookup of the answer's source finds (`AskedHolder`). The
  hypothesis is needed for parts: when a text has a verse by itself and a milestone over it,
  a part of the verse is moved to the milestone's anchor, and a part stored at the anchor
  is another verse's. Neither the parsers nor the tables refuse such an overlap; the texts
  of the run have none.

`DivergenceProofs` proves, for any reports, threads, dialogs and hooks and any bounds,

- `TypeCorrect`: `Spec => []TypeOK`,
- `JobsAreKept`: `Spec => OnlyRestartLosesJobs`,
- `OneThreadReplacesMislabelled`: if there is one thread, `Spec => MislabelledIsReplaced`,
- `Invariance`: `Spec => []Inv`, on which they rest.

The assumptions are `ReportAssumption` and `ClientAssumption`. What makes `Inv` inductive:
a submit is dropped when its id is in `pending`, so an id that is there must be in the
queue or just taken off it (`PendingServed`); a thread that takes an id loads its row, so
whatever is queued, about to be submitted or computed has one (`QueuedHaveRows`,
`ClientOK`, `JobOK`). A job is kept because each step that ends one kind of promise
(queued, about to be submitted, in the hands of a thread) begins another or finds the row
no longer pending. For the second property, fingerprints and copies never run ahead of the
inputs (`RowsBehindInputs`, `JobOK`): a finished job mislabels a report only if a newer
claim changed the row after the thread loaded it, and then that claim's submit is still
to come or queued (`CopiesOK`). With a second thread this fails: it may take the newer job
and be done with it before the first one writes.

`DivergenceEngineProofs` proves, for any documents, texts and root, from
`EngineAssumption`,

- `TypeCorrect`: `Spec => []TypeOK`,
- `NoVerseIsLeftOut`: `Spec => []NoVerseLost`,
- `InversionsStayFewest`: `Spec => []InversionsAreFewest`,
- `DivergencesAreReported`: `Spec => []EveryDivergenceReported`,
- `RunsAreDecoded`: `Spec => []RunsDecode`,
- `SelfComparisonStaysSilent`: `Spec => []SelfComparisonIsSilent`,
- `DirectionsMirror`: `Spec => []MirrorAgrees`,
- `EngineStays`: `Spec => []EngineInv`, on which they rest.

The control of a report is a line of four stages; the proof is about what each loop
computes, for input of any length. `EngineInv` says what a stage leaves the next one: the
schemes are those loaded from the inputs, the relations those composed from the schemes,
then the same ones as drawn (`Drafted`), the events tell each of those that differ once
(`Told`), the rows are laid out from the relations as drawn, and a side compared with
itself has no event of a relation (`Silent`). None of the properties is inductive alone,
since each is about one stage and follows from what the stage before it left. What is
known of the loops is mostly in `DivergenceRelationProofs`:

- A loop's invariant is shown to hold up to its last turn (`StaysUpTo`), which is induction
  on a set of numbers again; `LeastIsOne` finds the first turn at which something happens.
- Sorting. `InOrder` lists each member of a finite set once and in order (`Listing`), which
  needs that the orders used are total on what is sorted: relations of one book differ in
  their first verse because none share one.
- The union-find. `Parts` is a partition at each turn, and joins what a link joins; hence
  each verse of either side is in one relation of the first pass, if it has an org verse.
- The split by books keeps each verse in one of its copies, but for the alternate form whose
  counterparts are already paired (`LeftOver`).
- The patience sort. At each turn there is a tail for each length up to the longest, each
  is an ascending subsequence of what was read with the least last value of its length, and
  every ascending choice so far is no longer and ends no lower than the tail of its length.
  Its end is `InversionsAreFewest`.
- Grouping loses and repeats no relation: put together again, the groups are the sequence
  (`Groups`), and folding a book takes out events of one side of this book only.
- The ladder. Each row is a run of relations in order, those of a row with more than one
  are one verse each at a fixed distance, and rows of different relations differ in where
  they start. So a relation is told by its own row and no other.
- One side against itself. Equal sides load to equal schemes, so each node is linked to its
  twin through the same org verses (`TwinsAgree`), each relation has the same verses on
  either side, and is classified as the same (`TwinsAreSilent`). No event but of bridges and
  parts is left; a book cannot be on one side only.
- Both directions of a pair (`DirectionsAgree`). Exchanging the sides of each node turns the
  links of one direction into those of the other (`LinksFlip`), and since what links join is
  unique, its components too (`ComponentsFlip`). The split of an exchanged relation is that
  of the relation, exchanged, but where several books face several others (`SplitSwaps`), and
  so is its kind, merges as splits (`KindTurns`, `PassMirrors`). Which relations are out of
  order may differ between the directions, since there may be several longest subsequences.
  How many may not: what one direction keeps is in order in the other as well, book by book,
  so neither keeps fewer (`KeepsAsMany`, `KeysAddUp`). That is where the hypothesis of one
  book is needed: the books of the one direction are those of the side called A, in the
  other those of B.

The proofs found where three of these properties stood too strong, in cases outside the
run's sides. A one-sided relation may hold verses of several books, and its group is folded
under the first of them; `EveryDivergenceReported` and the summary of a book hold up to
that. A relation with gaps may span verses of others; `RunsDecode` lets a row that has a
relation's exact span tell that one only.

`CatalogProofs` proves, for any translations, schemes, indexes, names, requests and
bounds, from `CatalogAssumption` and `StartAssumption` (the tables at the start satisfy
their schema and hold nothing newer than the package),

- `SchemaHolds`: `Spec => []TypeOK`,
- `DeletedAreRecorded`: `Spec => UnrecordedOnlyByCascade`,
- `PreferredIsKept`: `Spec => PreferredLostOnlyByStaleCopy`,
- `RowsFollowTheirIngredient`: `Spec => RowsFallBehindOnlyAtSeed`,
- `StartsRepair`: `Spec => SeedRepairs`,
- `ChainsStayOpen`: `Spec => ChainsCloseOnlyAtBases`,
- `DefaultedIndexesTrack`: `Spec => StopsTrackingOnlyKnown`,
- `Invariance`: `Spec => []Inv`, on which they rest.

`Consistent` is split into its constraints, and each action is shown to keep each of them.
It is not inductive alone. A request that loaded the row of an association and then makes
it preferred writes `pref` without looking at `assoc`, so `HeldAreThere` says that a row
still held is there: whoever deletes it takes it away from every request (`Finish`). A
start upgrades schemes that are older than the package, so that `Shipped` has to say that
none is newer. The action properties follow action by action. A
translation that has associations and a preferred one loses it only to a commit that
decided on a stale copy: a request that loaded the rows as they are now either leaves
`pref` alone or gives it another scheme. For `SeedRepairs`, the rows found under one name
are not those found under another, so that the start writes each name's rows as if it were
alone. For the chains, a chain that does not end stays within a set of translations closed
under hops. If no translation some scheme is based on gets another preferred scheme, the
bases of that set were a closed set before the step. A start makes the canonical anchors
end at the root, so none of them is in the set, and what is left of it was closed before.

Model-checked only:

- liveness (`SettlesWhenQuiet`, `DialogIsAnswered`), out of the prover's reach;
- `EmittedOnce` of `ResolvePort`: whether two alignments of a chapter can have the same
  coordinates and differ elsewhere depends on which answers meet when the chains change
  within it. It is checked for the changes of the run and not claimed for any;
- the violated claims.

## 6. Not modelled, and the plan

Of the modelled parts, section 2 names what each module leaves out. Not modelled at all:

- Navigation and jump filters: read-only pages over verses. Their one piece of state, the
  process-wide cancel cache of `jump_cancel.py`, is filled once per pair of schemes and
  never invalidated; that it goes stale is visible in the code.
- Authentication: basic credentials and a limiter per client.
- The web viewer, its overlay, the charts and the management pages. `ViewerSession` has
  asynchronous lookups that write a URL computed from an earlier one
  (`ViewerSession.tsx:331`); it is the next candidate for a module.
- Parsers of `.vrs`, USX and project files, the grammar of references, the encoding of a
  report, configuration, logging, static files, health, migrations: little state that
  interleaves, better served by tests.
- Test operations and research prototypes: not part of the running program.

What would come next: the guarantees of ingest that rule out overlapping milestones, as a
module; `ViewerResolve` (URL, caches, the latest-request guard).
