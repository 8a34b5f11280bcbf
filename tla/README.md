# Story Forge: TLA+ verification

Story Forge turns a story text into a knowledge graph. A language model proposes
entities and relations, an author decides every one of them, and the decided
graph can then be edited and every edit undone. This directory holds TLA+ models
of the parts of that program in which something can go wrong between two steps,
TLC runs that check them on small instances, and TLAPS proofs for instances of
any size. `PROJECT.json` maps every definition to the source lines it models;
paths below are relative to `src/`, and `sf/` stands for
`backend/src/story_forge/`.

Run a check with `tlc -config <run>.cfg <module>.tla`, a proof with
`tlapm <module>.tla`.

## 1. Inventory

The program is a FastAPI backend over two stores, Postgres and Neo4j, and a React
frontend. A store call of the services is a transaction of its own (the stores open a
connection per call), nothing spans the two stores, and every `await` lets another
request run. So the unit of atomicity is one store call, a request can die between any
two, and the whole design rests on the order of calls, deterministic ids and "evidence
first, status last". Upload and structuring are the exception: they share the connection
of `get_connection` (`sf/adapters/db.py`), one transaction that commits after the answer
was sent.

| Component (source) | State it keeps | Operations | Correct when |
|---|---|---|---|
| Candidate review gate (`sf/agents/candidate_review.py`, `candidate_rematch.py`, `sf/adapters/postgres_candidate_store.py`; `frontend/.../extraction-review`) | candidate rows, `candidate_decisions`, accept mentions, entity nodes and aliases | accept (create / merge / default), reject, on-accept re-match | evidence precedes the terminal status; status, evidence, mention and graph agree; first decision stands; re-match only upgrades pending NEW rows; retry is safe |
| Ingestion (`sf/agents/extraction_coordinator.py`, `candidate_staging.py`) | `paragraph_processed` markers, staged candidates and relations | extract, stage, persist one paragraph; pause on budget or quota; resume | a paragraph is staged whole or not at all, at most once per run; pause and crash lose nothing that was persisted; a finished run has marked every paragraph |
| Relation review gate (`sf/agents/relation_review.py`, `sf/adapters/postgres_relation_store.py`) | `staged_relations`, edges in Neo4j | list committable, commit, reject | an edge is written only between committed entities and only on a human decision; exactly one edge per triple; a written row names its edge |
| Graph editing, merge and undo (`sf/agents/entity_edit.py`, `sf/domain/entity_merge.py`, `graph_undo.py`, `sf/adapters/postgres_edit_store.py`, `neo4j_repo.py`, `postgres_mention_store.py`) | entities, edges, mentions, suppressions, the grouped edit log with generations | edit, add / remove / re-target relation, rename predicate or type, merge, delete, tag, undo | an undone operation restores what it changed; an operation is logged whole; re-doing after undo logs a new generation; undo refuses drift; a crash leaves duplicates, never losses |
| LLM router (`sf/adapters/llm/router.py`, `postgres_cost_store.py`, `openrouter.py`, `ollama.py`, `sf/api/llm.py`) | the `llm_calls` ledger | pick a tier, budget gate, failover over the tier's providers, record each answer; status panel | every answer the router has a branch for leaves its row; the spend overshoots the cap by at most one call for each in flight; the pause means quota and nothing else; every call ends |
| Structuring (`sf/api/stories.py` structure_story, `sf/agents/chunking_coordinator.py`, `chunking_agent.py`, `sf/domain/chunking.py`) | chapters, scenes, paragraphs and the text of a story, the lock on its row | build an outline by hand, by model or both, persist it under `SELECT ... FOR UPDATE` | a story gets one tree, however many requests race, and it is the tree of the stored text, with nothing of it missing |
| Matching cascade (`sf/agents/matching_agent.py`, `judge_agent.py`, `sf/domain/name_similarity.py`) | none | band thresholds, stage 1-3 verdicts | bands partition the scores; the strongest match wins |
| Duplicates and name normalisation (`sf/domain/duplicate_clusters.py`, `label_synonyms.py`, `sf/adapters/label_vocabulary_reader.py`, dismissal stores) | dismissed pairs, the cache of label vectors and its lock | suggest, dismiss, take back, embed | a dismissed pair is not suggested again, through merges, renames and undos; a label is embedded once |
| Reader projections (`sf/domain/highlights.py`, `entity_summary.py`, `neighbourhood.py`, `story_scope.py`, `edge_evidence.py`) | none | spans to mark, tooltips, ego graph, story graph | marks do not overlap and obey their ranks; what is hidden uncovers nothing; a tooltip and the panel show the same neighbours; a merge loses no occurrence |
| Review screens (`frontend/src/features/*`, `frontend/src/hooks/*`) | cursor, pending mutation, query cache | keyboard reducer, commit, refetch | the cursor stays on the queue; the decision goes to the card shown |
| Projects, stories, uploads (`sf/api/projects.py`, `stories.py`, `sf/adapters/upload_storage.py`, `postgres_repo.py`, `db.py`) | files on disk, plain rows, one transaction per request | upload; create and read | a story has its original and its project, whatever fails |
| Prompts, providers, parsing (`sf/prompts`, `sf/adapters/llm/ollama.py`, `openrouter.py`, `sf/domain/parsing.py`) | none | text in, text out | the data is natural language and HTTP; how a provider fails is the router's business |

How they interact: structuring produces paragraphs; ingestion reads the accepted
graph once, asks the router for each paragraph and stages candidates and
relations; the review gate commits candidates and re-matches the pending ones; the
relation gate resolves the surface names of a relation against the committed
candidates and writes edges; graph editing changes nodes, edges and mentions
underneath both gates, which keep references (a merge target, a committed entity)
to what it may delete. The screens read graph, mentions and dismissals in separate
queries while all of this goes on.

### The hard behaviours

- **Two requests at once.** The screens do not stop a second decision of a card
  while the first is in flight, nor a second POST of a story; handlers interleave at
  every store call.
- **A request that dies.** A store error (answered 503) or the end of the process
  leaves what was written; the author submits again and the retry runs over it.
- **Read, then write later.** A candidate row is read and flipped four calls later; a
  merge target is checked, then written to; a run reads the accepted graph once and
  works on it for minutes; re-match loops over a list read before its updates.
- **References across stores.** Candidate rows, mentions and staged relations name
  entities that another request may delete.
- **Model output.** The same paragraph may be read differently, badly, or not at all.

`PROJECT.json` lists these as hazards, each at the line where it bites, with the
properties that watch it.

## 2. Plan

| Order | Modules | Abstract specification | State |
|---|---|---|---|
| 1 | `CandidateReview` | `CandidateLifecycle`: the documented lifecycle of a card | modelled, checked, proved |
| 2 | `Ingest` | `StoryIngest`: paragraphs staged whole, in order | modelled, checked, proved |
| 3 | `RelationReview` | none: its invariants are the promise | modelled, checked, proved |
| 4 | `GraphEdit`: every operation of the edit service and undo, one action per store call, with the grouped log and its generations | a stack of snapshots: an operation pushes, undo pops (kept as the history variable `trail`) | modelled, checked; types, the log, what a death half way leaves, that undo is exact, and that a handle names one edge: proved |
| 5 | `LLMRouter`: budget gate, failover, ledger, calls in flight, status panel | none: its invariants are the promise | modelled, checked, proved |
| 6 | `Outline` (text to tree, pure) and `Stories` (upload, structuring) on top of it | what a tree keeps of its text, said without the parser | modelled, checked; the races proved, the parser checked |
| 7 | `Projections` (what a screen computes, pure) and `Screens`, which composes it with `GraphEdit` | the rules of arbitration, said without the greedy pass | modelled, checked; what the screens show, merges seen half way, dismissals and the vocabulary cache proved |
| 8 | `RelationReview` over a `CandidateReview` instance, `GraphEdit` underneath both | what the gates keep referring to is still there or was deleted by the author | open |
| 9 | matching bands and the choice among several candidates of one band; the review screens' cursor | reference definitions over bounded inputs | open |

Every safety invariant and every action property that a run checks is also a theorem;
liveness is left to TLC (section 5 says why).

## 3. Modules and how they correspond to the code

One action is one store call of one request (or the stretch between two awaits that
reads no store), because that is the grain at which the program interleaves and
dies. A request's local variables are the fields of `req[r]` (`run[r]` in `Ingest`),
its program counter is `pc`. A constant named in capitals with a leading `Max` is a
bound. In each module the operators marked "mutant" are small bugs the
checks must notice; they are not part of any specification.

### CandidateReview

| State | Code |
|---|---|
| `row` | Postgres `candidates`: status, proposal, target |
| `decision` | Postgres `candidate_decisions`; one per candidate because the id is `uuid5` of the candidate |
| `mention` | Postgres `entity_mentions` written by accepts, id `uuid5` of the candidate |
| `nodes`, `aliases` | Neo4j entity nodes and their alias lists |
| `req` | accept / reject requests in flight, with what they have read |
| `editor` | a `delete_entity` in flight |
| `deleted`, `failures` | history: deletions begun, requests that died |

`Submit` is the review queue. `LoadNothingToDo`, `LoadReject`, `LoadMerge`,
`LoadCreate` are the outcomes of `_load_open` and the choice of branch;
`CheckTarget`, `AddAlias`, `CreateEntity`, `AddMention`, `RecordDecision`,
`SetStatus` are the calls of `_merge`, `_create`, `_record` and `reject`, in the
order of the code: graph, mention, evidence, status. `ListPending`,
`UpdateProposal`, `RematchDone` are the re-match that follows a commit. `Fail`
ends a request between any two calls. `StartDelete`, `DropMentions`, `DropNode`
are `delete_entity`.

`CandidateLifecycle` is the lifecycle of
`architecture/state-machines/candidate-lifecycle.md`: a pending card may be
upgraded to a merge, gets evidence, becomes terminal, and stays so.

### Ingest

`markers` and the staged candidates and relations are what `persist` writes in one
transaction; `run[r]` is one POST of `/extract` in flight with its snapshot, its
current paragraph and the rows it is building. `Post`, `ReadMarkers`,
`LoadAccepted`, `Extract`, `ExtractMalformed` (the retries of
`validate_with_retry`), the steps of the cascade per row (`MatchStrong`,
`MatchNone`, `MatchVector`, `JudgeConfident`, `JudgeUnsure`), `Pause`,
`CascadeDone`, `Persist`, `Answer`, `Fail`. `Accept` is the author's commit
with its re-match, seen from ingestion. `Readings[p]` is what the model may make of
paragraph `p`. `StoryIngest` is the promise: paragraphs are staged in order, each
once, each with the whole of one reading.

### RelationReview

`rel` is `staged_relations`, `committed` which entity each accepted candidate is
committed to, `edges` the Neo4j relationships, keyed by the triple because the id is
`uuid5` of it. `Submit`, `Load`, `MarkRejected`, `Resolve`, `CreateEdge`, `MarkWritten`,
`Fail` are the handler; `AcceptCandidate`, `RemoveEdge`, `DeleteEntity` are what the
author does elsewhere meanwhile. `Resolves` is the resolution index: an endpoint
resolves only if all accepted candidates of that name in the paragraph agree on
one entity, and the two ends differ.

### GraphEdit

| State | Code |
|---|---|
| `node` | Neo4j entity nodes: type, a name, aliases, one property |
| `edge` | Neo4j relationships, keyed by the triple because the id is `uuid5` of it; the value is the surrogate handle `edge_uid`, which must survive re-keying |
| `mention`, `hidden` | Postgres `entity_mentions` and `mention_suppressions`, keyed by what their `uuid5` ids are made of |
| `log` | Postgres `graph_edits`: rows with operation id, `seq`, `created_at`, `undone_at` |
| `req` | a request: the store calls it has still to make, the rows it will log |
| `minted`, `clock` | handles and times given out |
| `trail` | history: the graph before each operation that undo can take back exactly |

An operation (`EditEntity`, `AddRelation`, `RemoveRelation`, `RetargetRelation`,
`RenamePredicate`, `RelabelEntityType`, `MergeEntities`, `DeleteEntity`, `TagExisting`,
`TagNewEntity`, `SuppressOccurrence`, `RetagOccurrence`, `MoveBoundaries`,
`MaterializeBoundaries`) reads, checks what the code checks, and becomes a list of
store calls in the order of the code plus the rows of its evidence. The fifteen
actions of `StoreCall` make the calls one at a time with the effect of their Cypher or
SQL (`ON CREATE SET`, `MATCH` both ends, `DETACH DELETE`, `ON CONFLICT DO NOTHING`).
`Stamp` is the id and time of the evidence, `Record` its insert. `UndoLast` takes the
newest live operation, checks drift as `invert_operation` and `_check_drift` do, and
becomes the list of inverse calls, highest `seq` first; `MarkUndone` ends it.
`Fail` drops a request between any two calls. `Asks` is what the author may ask
for in a run.

### LLMRouter

`spent` and `logged` are the sum and the number of today's rows of `llm_calls` (the code
reads the rows only through these aggregates), `ever` whether there is a row of any day.
`call[c]` is the call of one caller with what it has heard so far. `Start` is
`complete()` up to its first await; `Gate` reads the spend; `Refuse` records the refusal;
`Answer` is a provider's answer, of one of the five kinds the router has a branch for;
`Record` writes its row in a transaction of its own and returns, raises or goes on to the
next provider. `AnswerEscapes` is a 200 whose fields have other types than the adapters take
for granted (a content that is no string, a usage that is no object, token counts that are
no numbers): only a body that does not parse, missing fields and a null content become a
`ProviderResponseError`, and this one raises past every except clause of the router.
`LedgerFails` is a database that fails under the read of the spend or the write of a row.
`Midnight` is the date of
the database server. `StatusTotals`, `StatusByType`, `StatusLast` are the three
statements of the status panel, each with its own snapshot.

### Outline and Stories

`Outline` holds the pure part: a text is a sequence of lines, a line is prose, blank or a
heading of three kinds. `Blocks` is the paragraph rule, `ReadLine` and `Flush` are
`parse_manual_outline`, `RangeProblem` and `WellFormed` the checks on a model's answer,
`FillUntitled` the splicing of hybrid chunking. Its last part says what a tree must keep of
its text without using the parser.

In `Stories`, `files` is the disk, `projects`, `stories` and `trees` the committed rows,
`lock` the row locks of `SELECT ... FOR UPDATE`; what a request has written but not
committed is in the request. `ReadUpload`, `SaveUpload`, `AnswerUpload`, `CommitUpload`
are `upload_story`; `ReadStory`, `Propose` (one call of the model with its check),
`LockStory`, `CheckUnderLock`, `AnswerStructure`, `CommitStructure` are
`structure_story`. The commit is a step after the answer, because the framework runs what
follows the `yield` of a dependency once the response is out. `Crash` ends the process:
requests and locks are gone, uncommitted rows are rolled back, the disk stays.

### Projections and Screens

`Projections` extends `GraphEdit` with what the screens compute from a graph they have
read: `Marks` (`reconcile_highlights`: a greedy pass in rank order, then the
suppressions), `Summary` (the tooltips), `StoryGraph`, `Ego`, `DuplicatePairs`,
`SynonymPairs` with the canonical pair that names a dismissal.

`Screens` adds the requests: `look[v]` is one in flight with what it has `seen`, store by
store (`Read` takes one query's snapshot; `ReadsOf` says which come in order and which are
gathered), `dismissed` the dismissals, `embedded` and `encoding` the vocabulary cache and
its lock (`CheckCache`, `TakeLock`, `EncodeLabel`, `ReleaseLock`, `EncodeFails`). Every
step of `GraphEdit` may fall between two reads.

### Abstractions

- A candidate stands for its surface form; names and vectors are replaced by
  `StrongMatch` (a relation) in `CandidateReview` and by the bands `Likeness` in
  `Ingest`. Aliases are not matched in `Ingest`.
- The order in which re-match visits the pending rows is left open.
- The judge's own retries are one step with its possible verdicts.
- In `Ingest` an accept and its re-match are one step and only create; in
  `RelationReview` an accept is one step and final. The interleavings within an
  accept are the subject of `CandidateReview`.
- One Cypher statement is one step. `MERGE` of an entity is on an id with a uniqueness
  constraint (`infra/neo4j/init.cypher:6-7`); relationships have no constraint, and
  two `MERGE`s of one relationship are taken to be serialised by Neo4j's locks on the
  two end nodes that they match.
- In `RelationReview` an entity disappears in one step, and edges are removed but not
  re-keyed; the graph editor proper is `GraphEdit`.
- In `GraphEdit` the reads before an operation's first write are taken together with
  its planning, and an undo's read and drift check with its plan: the author is one, and
  the runs have one request at a time. One property stands for the property map;
  an edge's confidence and provenance travel with its handle; aliases are a set; the
  order in which an operation goes through the edges is one fixed order; the read and
  the write of a field restore are one call. A log id is the pair of its seed and
  generation.
- An operation whose evidence the log did not take, or that made nothing new (a span
  tagged twice), is not put on `trail`: undo does not promise to restore what came
  before it.
- In `LLMRouter` money is in small units; a paid answer without usage costs nothing, as in
  the code, which then counts it as free. The breakdown by task type is read for its sum.
- In `Stories` a story bears the name of the upload that makes it; lines have an id for
  their words; the checks on an upload's type, size and content are a choice of
  `RefuseUpload`, and the limit on a model's input in words is one in lines. The model's
  answers are a set of good and bad outlines.
- In `Projections` a span of the text has one name that claims it (`Named`): a surface
  form that overlaps itself is not modelled. Two manual claims of one span for one
  entity are one. Scores are above or below the floor, and the ranking of suggestions is
  left out.
- In `Screens` the two vocabulary reads are taken together, since nothing relates one to
  the other; when a gathered read fails, the encoding that goes on in its thread is left
  out. A merge does not move the suppressions of the entity it folds, as in the code
  (`docs/decisions/0008-manual-correction-overlay-storage.md`).

## 4. Runs

Deadlock is checked in `router`, where the status can always be asked for. It is not in the
others: the program legitimately comes to rest once every card is decided, every paragraph
is staged, every request has been answered or the bounds are used up. That requests do
not get stuck is the liveness property of the runs with fairness.

| Run | Shows |
|---|---|
| `race` | two candidates that re-match each other, every kind of decision, two requests, a failure, a deletion: `TypeOK`, `EvidenceBeforeTerminal`, `CommittedIsInGraph`, `CommittedIsMentioned`, `RematchSparesDecided`, `DecisionsStand` |
| `retry` | the same explicit decision submitted twice or again after a failure: the stores tell one story (`StoresAgree`), the accept can be retried at every point (`RetryDecides`), requests end (`RequestsEnd`), and with two requests in flight every card goes through the lifecycle of `CandidateLifecycle` (`ImplementsLifecycle`) |
| `stray` | violated: `NoStrayNode` |
| `ingest_pair` | two POSTs in flight beside reviews: `TypeOK`, `StagedWhole`, `ProgressIsReal` |
| `ingest_serial` | one POST at a time, three paragraphs: `StagedOnce`, `NoMissedMatch`, refines `StoryIngest`, `RunsEnd` |
| `relation_race` | one fact from two paragraphs, an ambiguous name, two requests, edits: `TypeOK`, `EdgesJoinCommitted`, `OneEdgePerFact`, `WrittenUnlessEdited`, `DecisionStands` |
| `edit_undo` | three operations of every kind with undos in between: `TypeOK`, `UndoIsExact` (undo takes the operation just done, is not refused, restores both stores), `HandleNamesOneEdge` (as long as every operation has its evidence), `RedoIsLogged` |
| `edit_crash` | three operations, of which one edit and one undo may die anywhere: `NoDanglingMention` (no step leaves a mention naming an entity that is gone, but for the undo of a tag that made it), `RekeyNeverLoses`, `EvidenceIsKept` |
| `router` | two calls in flight over a paid tier and a free tier of two providers, answers that raise past the router, a ledger that may be down, a midnight: `LedgerIsSound` (types, overshoot, which rows may be missing), `PauseOnlyOnQuota`, `PanelAccountsForTotal`, `CallsEnd` |
| `structure` | an upload and two structure requests in every mode with every text, good, bad and missing model answers, failures, a crash: `StoryIsWhole` (the original, the project, a tree that says the stored text under the author's headings), `StructureIsFinal`, `RequestsEnd` |
| `screens` | the reader, the story graph, the suggestions and two vocabulary requests, each beside one or two edits or their undoing: `ScreensAreSound` (marks obey the rules of arbitration, tooltips agree with the panel, the story graph has no loose ends when no edit came between), `DismissedStaysDismissed`, `MergeKeepsOccurrences`, `EncodedOnce` |
| `retag` | violated: `RetagShows` |

### Bounds

- Requests in flight: two. Every race found here is between two actors, and a third
  request adds no new store call; the proofs cover any number.
- Candidates: two that match each other (each can flip the other), three where the
  question is about their different outcomes. Relations: two of one fact.
  Paragraphs: three in sequence, two beside a second POST.
- `MaxFailures` is 1 or 2: one failure anywhere and a retry that may itself fail.
- `MaxEdits` is 3: an operation, one on top of it, and a third that meets what an undo
  left; `MaxFailures` of `GraphEdit` is per kind, one edit and one undo. Four entities
  (one of them the one a tag would mint), two predicates, a legacy edge without a
  handle, an edge that a merge folds, one it re-points and one it turns into a loop.
- `router`: `Cap` and `MaxCost` are one unit, so that one call reaches the cap and two in
  flight overshoot it; `MaxRows` 3 is a call that fails over and one beside it: past it
  no call starts on that day, and those in flight still write theirs. `MaxDays` 1 lets a day
  turn under calls in flight.
- `structure`: one story, two requests (the re-check is between two), three texts that
  among them have every kind of heading, missing titles, prose before the first heading and
  a `#` line in the middle of a paragraph; five proposals of which two are sound for some
  text; `MaxInputWords` 7 is below the longest. `MaxCrashes` 1.
- `screens`: three entities, three spans of which one covers the other two, three edges of
  which one is asserted in another story, one line per tooltip. `Scenes` are the pairs of
  screens that share state, each with as many edits and decisions as can matter to it: the
  two suggestion screens need an edit and its undoing after a dismissal and its reversal, and
  the pairs of entities two edits after one dismissal.
- `MaxRetries` is 1 or 2 (2 in the code), `MaxPosts` 2 or 3: a run, and the runs
  that resume it.
- Requests (and entities in `RelationReview`) are symmetric in the runs without
  liveness; nothing distinguishes them.

### Fairness

`FairSpec` has weak fairness of the handler of each request and nothing else: the event
loop runs every handler that can go on, store and model calls end (they carry timeouts;
running into one is a `Fail`). The author's decisions, deletions, POSTs, the re-match
that another request owes, and failures are never forced.

In `LLMRouter`, `Stories`: `Spec` has weak fairness of what the server does for each call or
request it has taken, not of taking one. A provider answers or runs into its 120 s
timeout, and the database answers or refuses, which ends the request with an error. A failure
of the ledger is not among the fair steps of `LLMRouter`: a call ends without one.

### What the violations show

- **`stray`**: an accept takes its branch from the row it reads. If it dies after
  `create_entity` and a re-match turns the row into a merge proposal, the retry merges
  and the node of the first attempt stays in the graph, with no row that names
  it. The same holds if the author rejects instead of retrying.
- **`retag`**: `retag_occurrence` (`sf/agents/entity_edit.py:925`) suppresses the wrong
  entity at the span and tags the right one there, and takes back no suppression that an
  earlier re-tag left. Re-tagged from a to b and then back, the span carries both
  suppressions: the reader marks nothing, although the second re-tag was logged and
  answered as done.

Further documented statements fail in the same way and are kept in the modules, most under
"What the documentation says and the code does not do". To see one, add its name to a
configuration (and read `with` as a changed constant there):

| Statement | Add to | What happens |
|---|---|---|
| `TerminalIsFinal` (property) | `CandidateReview_race.cfg` | `set_status` updates by id only (`sf/adapters/postgres_candidate_store.py:199`): of an accept and a reject of one card in flight the slower overwrites the other's terminal status (`candidate-lifecycle.md:104` says terminal states are final). What still holds is in `race`: evidence first, first decision kept, a committed status always has its graph half |
| `WrittenHadEdge` (invariant) | `RelationReview_race.cfg` | a candidate row keeps resolving to an entity that has been deleted; `create_relation` then matches no node and writes nothing, and the row becomes written (`relation-lifecycle.md:60` says the edge was written) |
| `RetriedUndoProceeds` (invariant) | `GraphEdit_crash.cfg` | an undo of a deletion that dies after it has recreated the node is refused when it is tried again, because the drift check expects the node to be absent; nothing below it can be undone either (`entity_edit.py:1108-1110` says a crashed undo's retry is safe) |
| `InvertsWhatIsLive` (invariant) | `GraphEdit_undo.cfg` with `Requests = {r1, r2}`, `MaxEdits = 1` | two undo requests read the same top of the stack; the slower applies its inverse after the faster has marked the operation undone (`entity_edit.py:1108-1109` says it cannot recur) |
| `OneCallOvershoot` (invariant) | `LLMRouter_calls.cfg` | every call in flight reads the spend before the others have recorded theirs, so the overshoot is one call for each, not one (`router.py:106-107`) |
| `EveryAnswerHasRow` (invariant) | `LLMRouter_calls.cfg` | the adapters check that a 200 has a content and take for granted that it is a string, that `usage` is an object and that token counts are numbers (`openrouter.py:121,126,133`, `ollama.py:106-115`); where they are not, the exception is none of those the router catches (`router.py:126-188`), so the call ends without a row and without failing over, and a paid answer is missing from the spend the gate reads (`router.py:6-7` says one row per call, "success, refusal, or failure"; `openrouter.py:114-117` that the adapter raises "so the router records + fails over"). While the database answers, no other row is missing: `LedgerIsSound` |
| `AnsweredIsStored` (invariant) | `Stories_structure.cfg` | the transaction commits after the answer was sent and may still fail: the author has a 201 and the store has nothing, and a read that follows the answer may come first |
| `TreeKeepsStoredText` (invariant) | `Stories_structure.cfg` with `Texts <- WithEmpty` | a text without prose or headings gives no chapter, so its story may be structured again: of two requests in flight the slower stores the tree of the text it read, while the text in the row is the faster one's |
| `NoDanglingEdges` (invariant) | `Screens_answers.cfg` | the undo of a deletion between the reads of nodes and of edges: the answer has an edge without one of its ends. The viewer drops it (`frontend/src/features/graph-viewer/graphElements.ts:43`) |
| `NeverRepoints` (property) | `CandidateReview_race.cfg` | two accepts re-match one pending row from lists read while it was NEW; the second re-points the first one's merge (`candidate_rematch.py:18-19` says never) |
| `EvidenceHoldsWhatWasShown` (invariant) | `CandidateReview_race.cfg` | a re-match changes the proposal between the display of a card and the accept's own read; the evidence holds the latter (`domain/candidates.py:90-91`) |
| `NoDanglingMention` (invariant) | `CandidateReview_race.cfg` | the merge target is deleted between its check and the mention (`neo4j_repo.py:102-103` calls the check the guard) |
| `RejectedHasNoEdge` (invariant) | `RelationReview_race.cfg` | a commit dies between the edge and the flip, or is overtaken by a reject: the edge stays (`relation-lifecycle.md:62`) |
| `StagedOnce` (invariant) | `Ingest_pair.cfg` | candidate ids are random and only the marker insert absorbs a conflict, so two POSTs in flight stage a paragraph twice (`postgres_candidate_store.py:66-67` calls a re-persist idempotent) |
| `NoMissedMatch` (invariant) | `Ingest_pair.cfg` | a run matches against the graph as it was when the run began; what it stages after an accept is matched by neither the cascade nor the re-match (`domain/candidates.py:207-208` says the snapshot does not drift) |
| `MergeNeverLoses` (invariant) | `GraphEdit_undo.cfg` | a merge deletes the old edge before it creates the re-pointed one; a crash between the two loses it for good (`entity_edit.py:670-673` says every point up to the delete is retryable) |
| `UndoneTagOrphansNothing` (invariant) | `GraphEdit_crash.cfg` | a second tag of an entity that a tag has made dies after its mention is stored and before it is logged; the undo of the first tag is then the top of the stack, deletes the entity and its own mention, and the other mention names nothing (`domain/graph_undo.py:86-87` says the grouped operation never orphans one; `entity_edit.py:864-865` "no dangling half") |
| `EvidenceIsTaken` (property) | `GraphEdit_undo.cfg` | a grouped operation done again while its first time is still live derives the same id, and `ON CONFLICT` drops its evidence: it cannot be undone (`graph-operation.md` has every applied operation reach undone). Undo passes over what was dropped: an edge re-targeted, removed, and reached again by a second re-target whose evidence is dropped has given its handle on when the undo of what lies below gives it back, which is why `HandleNamesOneEdge` asks for the evidence of every operation |

## 5. Proofs

Eight modules hold theorems, checked by `tlapm` to the last leaf, for any number of
candidates, requests, runs, paragraphs, screens, edits, failures and so on.

What they assume. Each rests on the assumption of the module it is about
(`ConstantsAssumption`, `HandlesAssumption`, `RouterAssumption`, `StoriesAssumption`, `ScreensAssumption`, and
`PatchesAssumption`, `ProjectionsAssumption`): the constants have the shapes the code gives
them (a mention made by hand has its place, two spans differ in an offset, names and ids
are ordered as strings are, no two edges start with one handle, because a handle is a
`uuid4`), and the markers for "none" are not members of the sets they extend. TLC evaluates
them in every run. Some theorems have a condition of their own, which is part of their
statement:

- a single request slot: `SerialReview`, `SerialIngest`, `SerialStagesOnce`,
  `RedoneIsLogged`, `NothingDangles`, `RekeyedIsKept`, `UndoneIsRestored`,
  `HandlesAreOfOneEdge`, `MergedOccurrencesAreKept`. With two slots the property fails, and
  section 4 or a hazard says how (of `HandlesAreOfOneEdge`: a rename and a re-target that both
  read an edge before either has moved it both take its handle along; of the last: a second
  edit may take a mention away during the merge).
- `RequestsAgree` (`AgreeingStores`, `AgreeingReview`): all requests for a candidate ask
  the same explicit thing and no entity is deleted meanwhile. It is the double submit and
  the retry, and the `retry` run is an instance. `OneMatch` (`AgreeingReview`): a pending
  card matches one accepted candidate at most; otherwise see `NeverRepoints`.
- `~ReviewDuringRuns` (`NothingMissed`): the author decides between runs and not during one.
- `ChunkingIsFaithful` (`StoriesAreWhole`): the pure functions of `Outline` keep the text
  and the titles of every text, and give it a chapter. They are recursive, so this is what
  TLC evaluates, for the texts of its instance (an `ASSUME` of `MCStories`). The chapter is
  needed: see `TreeKeepsStoredText`.

| Theorem | Statement | Argument |
|---|---|---|
| `CandidateReview_proofs!TypeCorrect` | `Spec => []TypeOK` | inductive; includes that a request past its check has an entity |
| `!EvidenceFirst` | `[]EvidenceBeforeTerminal` | with `FlipIsRecorded`: a request about to flip has recorded. Needed because the flip does not look at the decision table |
| `!CommittedInGraph` | `[]CommittedIsInGraph` | with `RequestInGraph`: a request past its graph write has a node (with its alias) that is still there or has been deleted |
| `!CommittedMentioned` | `[]CommittedIsMentioned` | with `PastMention`: a request past its mention has left one, unless a deletion has begun |
| `!FirstDecisionStands`, `!RematchSpares` | the action properties | from `TypeOK`, action by action |
| `!SerialReview` | one request at a time refines the lifecycle | with `SerialInv`: the only request in flight works on a row that is still as it read it |
| `!AgreeingStores`, `!AgreeingReview` | `[]StoresAgree`; the refinement with any number of agreeing requests | with `AgreeInv`: each store holds nothing, or what the one outcome of the card makes of it; and each request is at a point its twins may have passed. A re-match meets a row that is as it was listed, flipped to the same entity by a twin, or decided (`RematchAgrees`) |
| `Ingest_proofs!TypeCorrect`, `!WholeOrNothing`, `!ProgressReported` | `TypeOK`, `StagedWhole`, `ProgressIsReal` | with `StoresOK`, `RunsOK`, `PostsApart`: what a run is building is part of the reading it has, and no two runs share a POST number |
| `!NothingMissed` | `[]NoMissedMatch` | with `MatchInv`: the graph does not grow under a run, so its snapshot is the graph; what was staged before an accept waits for the re-match of that accept |
| `!SerialIngest`, `!SerialStagesOnce` | refinement of `StoryIngest`; `StagedOnce` | with `SerialInv`: the todo list of the only run is the complement of the markers |
| `RelationReview_proofs` (five theorems) | `TypeOK`, `EdgesJoinCommitted`, `OneEdgePerFact`, `WrittenUnlessEdited`, `DecisionStands` | with `InFlightJoins` (an edge in flight joins committed entities), `CommittedExists`, `MarkedIsAccounted` and `WrittenIsAccounted` (the edge of a request about to flip, or of a written row, is in the graph, was removed, or lacks an endpoint the author deleted) |
| `GraphEdit_proofs!LogIsKept` | `EvidenceIsKept`, for any number of requests | every step is one of six kinds (`StepKinds`), of which two touch the log; needs the shape of rows and requests (`LogShape`, `ReqShape`) |
| `!RedoneIsLogged` | `RedoIsLogged`, one request at a time | `IdsOK`: a generation is below the number of ids given out, so the least unused one exists; `PendingIsFresh`: an id given to a request has no undone row until it is logged |
| `!GraphIsWellFormed` | `[]TypeOK`, both ends of every edge included, for any number of requests | `TypeInv`: every pending call and every logged row fits the stores, so that undo, which makes its calls from the rows, writes only what they take; the rows of one operation differ in `seq`, so the order of the inverse exists |
| `!NothingDangles` | `NoDanglingMention`, one request at a time, deaths anywhere | `SafeCalls`: what a pending call gives a mention to is there, or is made by the first of the pending calls. For an undo this needs `LogSafe`: the highest row of a merge or a deletion is the row of the entity it took, so the node comes back first |
| `!RekeyedIsKept` | `[]RekeyNeverLoses`, one request at a time | `RekeyPlan`: among the pending calls an edge is deleted behind the call that creates its new one; the plan is a flattened list of pairs |
| `GraphEditUndo_proofs!UndoneIsRestored` | `[]UndoIsExact`, one request at a time: any operation on any graph, any stack of operations and undos, deaths anywhere | every operation is `Planned`: its calls lead to a graph from which the inverses of its rows, the last first, lead back, and in which nothing it checks has drifted -- provided that what the rows say was made was new (`MadeNew`, the condition under which `trail` grows). `Reversible` carries this through the steps: an edit or an undo in flight has the rest of its run before it (`EditReady`, `UndoReady`), and what has been logged since evidence was last lost is `Stacked`: each operation leads back from the graph the next was begun on, all its rows are in the log, and no younger row is live. So the newest live operation is the one on top |
| `!HandlesAreOfOneEdge` | `[]HandleNamesOneEdge`, one request at a time: any operation, undos that die anywhere, operations that cannot be taken back exactly | weaker than an exact undo and needed where there is none. `Rewires` says of an edit in flight that its handles are those it was begun on or new ones, that what is still to be tied was cut or is cut before, and that the rows say where each handle came from; every operation begins so (`OperationRewires`). `Unwinds` says of the calls of an undo that wherever they stop no handle is given twice, and the rows of a finished edit unwind it (`RewiresEnds`). The live operations of the log are a pile (`Piled`), each unwinding to the edges the one below left. `HandlesKept` carries it as long as the log accounts for every operation begun: one whose evidence is missing can never be made up for (`FallsBehind`) |
| `LLMRouter_proofs!LedgerSound` | `LedgerIsSound`: types, the overshoot, and that no row is missing but the last one of a call that an ill-typed answer or the ledger broke off, for any number of callers, tiers, providers and prices, a cap of 0 included | the bound is on the sum plus what the calls past the gate may still add: a call enters it below the cap, adds at most `MaxCost` once, and leaves it with its row. Needs `CallsOK`: a failover costs nothing, and one row is due exactly while an answer is being recorded |
| `!PauseMeansQuota` | `PauseOnlyOnQuota` | with `CallsOK`: a call asked in turn every provider it has heard, all but the last failed over, and `NonQuota` says whether one of them failed otherwise |
| `!PanelAccounts` | `PanelAccountsForTotal` | with `PanelInv`: within a day the ledger only grows, so each later statement sees at least what the totals saw |
| `Stories_proofs!FinalStructure` | `StructureIsFinal`, any number of requests | a request that is past the re-check holds the row lock, and the story it holds has no chapters yet; nobody else writes a tree |
| `!BackedStories`, `!StoriesAreWhole` | `TypeOK`, `StoryIsBacked`; `StoryIsWhole` | what a request is about to commit is a tree of the text it commits, or of the stored text, which has not changed while the story has no tree (`TextRead`) |
| `Screens_proofs!DismissedIsNotShown` | `[]DismissedStaysDismissed`, any number of screens, edits and decisions | an id that stood since the screen was opened is in what it has read of the dismissals, or stands still; two ids of one surface with the same members are equal, because the order of ids is one (`PairIsId`) |
| `!LabelsAreEncodedOnce` | `[]EncodedOnce` | with `EncodingOK`: who holds the lock encodes only what is not in the cache, and each of its labels is in the cache or still to come; a label in the cache was encoded once |
| `!ScreensShowWhatIsSound` | `[]ScreensAreSound`: the screens' types, the reader's marks and tooltips, a closed story graph, for any text, any graph, any edits between the reads | what a request has read has the types of `GraphEdit`, whose invariant holds under the screens as well (`ReadsGraph`). `Stronger` and `Prominent` are strict total orders, so sorting by them gives a sequence without gaps or repetitions (`InOrderIs`); the fold over it makes the one greedy choice (`HeldIsGreedy`: a claim is held exactly when no held claim before it overlaps it), and of a greedy choice in an order the rules of arbitration follow (`KeptClaims`) |
| `!MergedOccurrencesAreKept` | `[]MergeKeepsOccurrences`, one request that edits, any number of screens | the calls still to come of a merge or of its undo are read as a path (`Merging`, `Unmerging`): the survivor has all the names before a mention is handed on, and no mention is left with an absorbed entity that is gone, so at every point of the path each claim of the start is made by one of the two (`MidwayKeeps`). An undo takes its calls from the log, so the merge's rows are followed from the moment they are written to the moment the undo reads them (`Retraced`), over the stack that `UndoneIsRestored` keeps |

About data. What a recursive definition computes for every input is out of the prover's
reach as an induction; where a proof needs a fact of that kind (a flattened list of calls,
the order of rows, the greedy choice among claims) it is got from a least counterexample over `Nat`
(`LeastNat`, and the lemmas after it in `GraphEdit_proofs`).

Only model-checked: liveness (`RetryDecides`, `RequestsEnd`, `RunsEnd`, `CallsEnd`) and what
the parser and the model's outlines keep of a text (`ChunkingIsFaithful`).

## 6. Not modelled

- The choice among several candidates of one score band, and the scores themselves
  (`matching_agent.py`, `name_similarity.py`): Ingest keeps the bands.
- The screens' own state: the cursor of the review queues and the query cache.
- `edge_evidence`, the listing routes of projects, stories and trees, creating an empty
  project: one statement each. No route deletes a project or a story.
- Natural language (prompts, file formats, language detection, names), HTTP, settings and
  the construction of the services. `main.py` wires one free provider and no paid one, so
  the failover between providers and the budget gate are there for a configuration it does
  not build. Chunking is given a provider of its own, so its calls leave no row in the
  ledger.
- Store isolation below one statement, and Neo4j's own locking (`MERGE` between two matched
  nodes is taken to be atomic).
- The development scripts of `scripts/`.
