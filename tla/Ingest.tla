------------------------------- MODULE Ingest -------------------------------
(***************************************************************************)
(* Extraction of a story: ExtractionCoordinator.ingest_story drives the    *)
(* paragraphs through the extraction model and the matching cascade        *)
(* (CandidateStager) and persists each with its resume marker in one       *)
(* Postgres transaction.  A run stops at a budget or quota pause, on a     *)
(* model or store failure, or with the process; the author posts again.    *)
(* Nothing prevents a second POST while the first is still running, nor    *)
(* the author from reviewing staged candidates meanwhile.                  *)
(*                                                                         *)
(* One action is what a run does between two awaits.  A name stands for a  *)
(* candidate's surface form and for the entity an accept creates from it;  *)
(* the numeric scores of the matcher are reduced to its three bands.       *)
(***************************************************************************)
EXTENDS Naturals

CONSTANTS
  N,             \* number of paragraphs, in reading order 1..N
  Runs,          \* POST /extract requests that can be in flight together
  Names,         \* surface forms
  NoName,        \* Python's None where an entity id is optional
  Seeds,         \* entities in the graph before the first run
  Triples,       \* surface relations
  Readings,      \* what the extraction model may answer for each paragraph
  Likeness,      \* stage-1 band of a surface form against an entity
  MaxRetries,    \* re-prompts after a malformed answer (2 in the code)
  MaxPosts,      \* bound on the POSTs of the story
  NotStaged,     \* "paragraph without a marker", for the abstract view
  ReviewDuringRuns  \* may the author accept while a run is in flight

Paragraph == 1..N
Band == {"strong", "close", "far"}
Reading == [entities : SUBSET Names, relations : SUBSET Triples]

ASSUME ConstantsAssumption ==
  /\ N \in Nat
  /\ NoName \notin Names
  /\ Seeds \subseteq Names
  /\ Readings \in [Paragraph -> SUBSET Reading]
  /\ Likeness \in [Names -> [Names -> Band]]
  /\ MaxRetries \in Nat
  /\ MaxPosts \in Nat
  /\ NotStaged \notin Reading
  /\ ReviewDuringRuns \in BOOLEAN

(* A candidates row.  Its id is a fresh uuid4, so rows of different POSTs  *)
(* never collide; "decided" is any terminal status.                        *)
Candidate ==
  [post : 1..MaxPosts, para : Paragraph, name : Names,
   proposal : {"new", "merge"}, target : Names \cup {NoName},
   status : {"pending", "decided"}]

VARIABLES
  marker,     \* Postgres paragraph_processed
  rows,       \* Postgres candidates
  relations,  \* Postgres staged_relations, keyed by <<paragraph, triple>>
  graph,      \* entities accepted into Neo4j
  run,        \* the requests, with the locals of ingest_story
  posts,      \* POSTs so far
  rematch     \* accepted entities whose re-match is still to run

stores == <<marker, rows, relations>>
vars == <<marker, rows, relations, graph, run, posts, rematch>>

Pc == {"idle", "start", "load", "extract", "cascade", "judge", "persist"}

Idle ==
  [pc |-> "idle", post |-> 0, answer |-> "none", todo |-> {}, snapshot |-> {},
   tries |-> 0, reading |-> [entities |-> {}, relations |-> {}],
   left |-> {}, judged |-> NoName, against |-> NoName, batch |-> {}]

Run ==
  [pc : Pc, post : 0..MaxPosts, answer : {"none", "finished", "paused", "failed"},
   todo : SUBSET Paragraph, snapshot : SUBSET Names, tries : 0..MaxRetries,
   reading : Reading, left : SUBSET Names, judged : Names \cup {NoName},
   against : Names \cup {NoName}, batch : SUBSET Candidate]

TypeOK ==
  /\ marker \subseteq Paragraph
  /\ rows \subseteq Candidate
  /\ relations \subseteq Paragraph \X Triples
  /\ graph \subseteq Names
  /\ run \in [Runs -> Run]
  /\ posts \in 0..MaxPosts
  /\ rematch \subseteq graph

Init ==
  /\ marker = {}
  /\ rows = {}
  /\ relations = {}
  /\ graph = Seeds
  /\ run = [r \in Runs |-> Idle]
  /\ posts = 0
  /\ rematch = {}

-----------------------------------------------------------------------------
(* Requests *)

(* POST /extract: a fresh coordinator call that knows nothing yet.         *)
Post(r) ==
  /\ run[r].pc = "idle"
  /\ posts < MaxPosts
  /\ posts' = posts + 1
  /\ run' = [run EXCEPT ![r] = [Idle EXCEPT !.pc = "start", !.post = posts + 1,
                                          !.todo = Paragraph]]
  /\ UNCHANGED <<stores, graph, rematch>>

(* The request is answered 200, 202 (paused) or with an error; what was    *)
(* still to do stays visible as paragraphs_total - paragraphs_done.        *)
Answered(k, how, left) ==
  [Idle EXCEPT !.post = k, !.answer = how, !.todo = left]

Answer(r, how) ==
  run' = [run EXCEPT ![r] = Answered(run[r].post, how, run[r].todo)]

ReadMarkersNever(r) ==   \* mutant: the resume checkpoint is not consulted
  /\ run[r].pc = "start"
  /\ IF Paragraph = {} THEN Answer(r, "finished")
       ELSE run' = [run EXCEPT ![r].pc = "load"]
  /\ UNCHANGED <<stores, graph, posts, rematch>>

(* paragraphs_processed, and the early end when nothing is left.           *)
ReadMarkers(r) ==
  LET left == Paragraph \ marker
  IN  /\ run[r].pc = "start"
      /\ run' = IF left = {}
           THEN [run EXCEPT ![r] = Answered(run[r].post, "finished", {})]
           ELSE [run EXCEPT ![r] = [run[r] EXCEPT !.pc = "load", !.todo = left]]
      /\ UNCHANGED <<stores, graph, posts, rematch>>

LoadAcceptedSeeds(r) ==   \* mutant: the snapshot is cached across runs
  /\ run[r].pc = "load"
  /\ run' = [run EXCEPT ![r] = [run[r] EXCEPT !.pc = "extract", !.snapshot = Seeds]]
  /\ UNCHANGED <<stores, graph, posts, rematch>>

(* load_accepted, once per run.                                            *)
LoadAccepted(r) ==
  /\ run[r].pc = "load"
  /\ run' = [run EXCEPT ![r] = [run[r] EXCEPT !.pc = "extract", !.snapshot = graph]]
  /\ UNCHANGED <<stores, graph, posts, rematch>>

-----------------------------------------------------------------------------
(* One paragraph *)

(* The for loop takes the paragraphs that were not done in reading order.  *)
IsCurrent(r, p) ==
  /\ p \in run[r].todo
  /\ \A q \in run[r].todo : p <= q

(* A well-formed answer of the extraction model.                           *)
Extract(r) ==
  /\ run[r].pc = "extract"
  /\ \E p \in Paragraph : \E reading \in Readings[p] :
       /\ IsCurrent(r, p)
       /\ run' = [run EXCEPT ![r] = [run[r] EXCEPT
                   !.pc = "cascade", !.tries = 0, !.reading = reading,
                   !.left = reading.entities, !.batch = {}]]
  /\ UNCHANGED <<stores, graph, posts, rematch>>

ExtractMalformedForever(r) ==   \* mutant: the last attempt starts over
  /\ run[r].pc = "extract"
  /\ run' = [run EXCEPT ![r] = [run[r] EXCEPT
              !.tries = IF @ < MaxRetries THEN @ + 1 ELSE 0]]
  /\ UNCHANGED <<stores, graph, posts, rematch>>

ExtractMalformedOnceMore(r) ==   \* mutant: one attempt too many
  /\ run[r].pc = "extract"
  /\ IF run[r].tries <= MaxRetries
       THEN run' = [run EXCEPT ![r] = [run[r] EXCEPT !.tries = @ + 1]]
       ELSE Answer(r, "failed")
  /\ UNCHANGED <<stores, graph, posts, rematch>>

(* validate_with_retry: a malformed answer is asked for again, and after   *)
(* the last attempt ExtractionError ends the request (502).                *)
ExtractMalformed(r) ==
  /\ run[r].pc = "extract"
  /\ IF run[r].tries < MaxRetries
       THEN run' = [run EXCEPT ![r] = [run[r] EXCEPT !.tries = @ + 1]]
       ELSE Answer(r, "failed")
  /\ UNCHANGED <<stores, graph, posts, rematch>>

(* The row CandidateStager builds for one name.                            *)
Staged(r, p, name, proposal, target) ==
  [post |-> run[r].post, para |-> p, name |-> name,
   proposal |-> proposal, target |-> target, status |-> "pending"]

StageRow(r, name, proposal, target) ==
  \E p \in Paragraph :
    /\ IsCurrent(r, p)
    /\ run' = [run EXCEPT ![r] = [run[r] EXCEPT
                !.pc = "cascade", !.left = @ \ {name},
                !.judged = NoName, !.against = NoName,
                !.batch = @ \cup {Staged(r, p, name, proposal, target)}]]

(* The entities of the snapshot in the name's best stage-1 band.           *)
InBand(r, name, band) == {e \in run[r].snapshot : Likeness[name][e] = band}

(* Stage 1 above the merge threshold: merge into the best match.           *)
MatchStrong(r) ==
  /\ run[r].pc = "cascade"
  /\ \E name \in run[r].left : \E e \in InBand(r, name, "strong") :
       StageRow(r, name, "merge", e)
  /\ UNCHANGED <<stores, graph, posts, rematch>>

(* Stage 1 below the floor (an empty graph included): new.                 *)
MatchNone(r) ==
  /\ run[r].pc = "cascade"
  /\ \E name \in run[r].left :
       /\ InBand(r, name, "strong") = {}
       /\ InBand(r, name, "close") = {}
       /\ StageRow(r, name, "new", NoName)
  /\ UNCHANGED <<stores, graph, posts, rematch>>

(* Stage 1 ambiguous, stage 2 finds vectors above the cosine threshold:    *)
(* merge into whichever entity they belong to.                             *)
MatchVector(r) ==
  /\ run[r].pc = "cascade"
  /\ \E name \in run[r].left : \E e \in run[r].snapshot :
       /\ InBand(r, name, "strong") = {}
       /\ InBand(r, name, "close") # {}
       /\ StageRow(r, name, "merge", e)
  /\ UNCHANGED <<stores, graph, posts, rematch>>

(* Still ambiguous, or no vector: the judge is asked about the stage-1     *)
(* target or the entity nearest by vector.                                 *)
AskJudge(r) ==
  /\ run[r].pc = "cascade"
  /\ \E name \in run[r].left : \E e \in run[r].snapshot :
       /\ InBand(r, name, "strong") = {}
       /\ InBand(r, name, "close") # {}
       /\ run' = [run EXCEPT ![r] = [run[r] EXCEPT
                   !.pc = "judge", !.judged = name, !.against = e]]
  /\ UNCHANGED <<stores, graph, posts, rematch>>

(* A confident yes merges.  Everything else, JudgeError included (bad      *)
(* output after its retries, provider unreachable), is new.                *)
JudgeConfident(r) ==
  /\ run[r].pc = "judge"
  /\ StageRow(r, run[r].judged, "merge", run[r].against)
  /\ UNCHANGED <<stores, graph, posts, rematch>>

JudgeUnsure(r) ==
  /\ run[r].pc = "judge"
  /\ StageRow(r, run[r].judged, "new", NoName)
  /\ UNCHANGED <<stores, graph, posts, rematch>>

(* BudgetExceededError or QuotaExhaustedError from either model call: the  *)
(* paragraph in hand is dropped and the run answers paused.                *)
Pause(r) ==
  /\ run[r].pc \in {"extract", "judge"}
  /\ Answer(r, "paused")
  /\ UNCHANGED <<stores, graph, posts, rematch>>

CascadeDone(r) ==
  /\ run[r].pc = "cascade"
  /\ run[r].left = {}
  /\ run' = [run EXCEPT ![r] = [run[r] EXCEPT !.pc = "persist"]]
  /\ UNCHANGED <<stores, graph, posts, rematch>>

(* persist: candidates, relations and marker commit together; then the     *)
(* next paragraph, or the answer.                                          *)
Persisted(r, p) ==
  run' = IF run[r].todo = {p}
    THEN [run EXCEPT ![r] = Answered(run[r].post, "finished", {})]
    ELSE [run EXCEPT ![r] = [run[r] EXCEPT !.pc = "extract", !.todo = @ \ {p},
                                           !.batch = {}]]

PersistUnmarkedWhenEmpty(r) ==   \* mutant: no marker without candidates
  /\ run[r].pc = "persist"
  /\ \E p \in Paragraph :
       /\ IsCurrent(r, p)
       /\ rows' = rows \cup run[r].batch
       /\ relations' = relations \cup ({p} \X run[r].reading.relations)
       /\ marker' = IF run[r].batch = {} THEN marker ELSE marker \cup {p}
       /\ Persisted(r, p)
  /\ UNCHANGED <<graph, posts, rematch>>

PersistRelationsLater(r) ==   \* mutant: relations are not in the transaction
  /\ run[r].pc = "persist"
  /\ \E p \in Paragraph :
       /\ IsCurrent(r, p)
       /\ rows' = rows \cup run[r].batch
       /\ \E kept \in SUBSET ({p} \X run[r].reading.relations) :
            relations' = relations \cup kept
       /\ marker' = marker \cup {p}
       /\ Persisted(r, p)
  /\ UNCHANGED <<graph, posts, rematch>>

PersistOneByOne(r) ==   \* mutant: the candidates commit one by one
  /\ run[r].pc = "persist"
  /\ \E p \in Paragraph :
       /\ IsCurrent(r, p)
       /\ \/ \E c \in run[r].batch :
               /\ rows' = rows \cup {c}
               /\ run' = [run EXCEPT ![r] = [run[r] EXCEPT !.batch = @ \ {c}]]
               /\ UNCHANGED <<marker, relations>>
          \/ /\ run[r].batch = {}
             /\ relations' = relations \cup ({p} \X run[r].reading.relations)
             /\ marker' = marker \cup {p}
             /\ Persisted(r, p)
             /\ UNCHANGED rows
  /\ UNCHANGED <<graph, posts, rematch>>

Persist(r) ==
  /\ run[r].pc = "persist"
  /\ \E p \in Paragraph :
       /\ IsCurrent(r, p)
       /\ rows' = rows \cup run[r].batch
       /\ relations' = relations \cup ({p} \X run[r].reading.relations)
       /\ marker' = marker \cup {p}
       /\ Persisted(r, p)
  /\ UNCHANGED <<graph, posts, rematch>>

(* A store failure (503), an unreachable provider during extraction (502)  *)
(* or the end of the process: everything the run held is gone.             *)
Fail(r) ==
  /\ run[r].pc # "idle"
  /\ Answer(r, "failed")
  /\ UNCHANGED <<stores, graph, posts, rematch>>

-----------------------------------------------------------------------------
(* The reviewer, as far as ingestion can tell (module CandidateReview)     *)

(* A pending NEW candidate is accepted: its entity enters the graph.       *)
Accept(c) ==
  /\ c.status = "pending"
  /\ c.proposal = "new"
  /\ ReviewDuringRuns \/ \A r \in Runs : run[r].pc = "idle"
  /\ rows' = (rows \ {c}) \cup {[c EXCEPT !.status = "decided"]}
  /\ graph' = graph \cup {c.name}
  /\ rematch' = rematch \cup {c.name}
  /\ UNCHANGED <<marker, relations, run, posts>>

(* Its re-match flips the pending NEW rows that strongly match it.         *)
Rematched(e) ==
  LET flips == {c \in rows : /\ c.status = "pending"
                             /\ c.proposal = "new"
                             /\ Likeness[c.name][e] = "strong"}
  IN  /\ e \in rematch
      /\ rows' = (rows \ flips)
                   \cup {[c EXCEPT !.proposal = "merge", !.target = e] : c \in flips}
      /\ rematch' = rematch \ {e}
      /\ UNCHANGED <<marker, relations, graph, run, posts>>

-----------------------------------------------------------------------------
(* What a run does by itself, whatever the model answers.                  *)
Handler(r) ==
  \/ ReadMarkers(r) \/ LoadAccepted(r)
  \/ Extract(r) \/ ExtractMalformed(r) \/ Pause(r)
  \/ MatchStrong(r) \/ MatchNone(r) \/ MatchVector(r)
  \/ AskJudge(r) \/ JudgeConfident(r) \/ JudgeUnsure(r)
  \/ CascadeDone(r) \/ Persist(r)

Next ==
  \/ \E r \in Runs : Post(r) \/ Handler(r) \/ Fail(r)
  \/ \E c \in rows : Accept(c)
  \/ \E e \in rematch : Rematched(e)

Spec == Init /\ [][Next]_vars

(* The event loop runs every handler on, and model calls time out; nothing *)
(* makes the author post or review.                                        *)
FairSpec == Spec /\ \A r \in Runs : WF_vars(Handler(r))

-----------------------------------------------------------------------------
(* Safety *)

(* The names one POST staged for a paragraph.                              *)
StagedNames(k, p) == {c.name : c \in {x \in rows : x.post = k /\ x.para = p}}

(* A paragraph is staged whole or not at all: whatever a POST left behind  *)
(* for it is all of one reading, and the paragraph is checkpointed, so a   *)
(* crash, a pause or a failure half way neither loses nor half-stages it   *)
(* (persist is one transaction, reached only after the whole cascade).     *)
StagedWhole ==
  /\ \A p \in Paragraph, k \in 1..MaxPosts :
       StagedNames(k, p) # {} =>
         /\ p \in marker
         /\ \E reading \in Readings[p] : reading.entities = StagedNames(k, p)
  /\ \A x \in relations : x[1] \in marker

(* Progress is real: the checkpoint is a prefix of the story, and what a   *)
(* run counts as done (paragraphs_done, read once and advanced by itself)  *)
(* is checkpointed, so a 200 means that the whole story is staged, also    *)
(* with other runs in flight.                                              *)
ProgressIsReal ==
  /\ \A p \in marker, q \in Paragraph : q <= p => q \in marker
  /\ \A r \in Runs : run[r].post > 0 =>
       /\ Paragraph \ run[r].todo \subseteq marker
       /\ run[r].answer = "finished" => marker = Paragraph

(* A paragraph is staged by one POST only: a resumed run duplicates no     *)
(* candidate.  (True of runs that follow each other, not of two at once.)  *)
StagedOnce ==
  \A c, d \in rows : c.para = d.para => c.post = d.post

(* Once every accept has had its re-match, no pending NEW candidate is a   *)
(* strong match of an entity the graph holds: the cascade catches those    *)
(* accepted before its run, the re-match those staged before the accept.   *)
(* (True while reviews and runs alternate, not of an accept during a run.) *)
NoMissedMatch ==
  rematch = {} =>
    \A c \in rows, e \in graph :
      c.status = "pending" /\ c.proposal = "new" => Likeness[c.name][e] # "strong"

-----------------------------------------------------------------------------
(* Liveness: every POST is answered, malformed model output included.      *)
RunsEnd == \A r \in Runs : (run[r].pc # "idle") ~> (run[r].pc = "idle")

-----------------------------------------------------------------------------
(* Refinement *)

NamesStaged(p) == {c.name : c \in {x \in rows : x.para = p}}
RelationsOf(p) == {t \in Triples : <<p, t>> \in relations}

(* The checkpoint is a prefix of the story: its length.                    *)
Done == CHOOSE k \in 0..N : marker = 1..k

StagedAs ==
  [p \in Paragraph |->
    IF p \in marker
      THEN [entities |-> NamesStaged(p), relations |-> RelationsOf(p)]
      ELSE NotStaged]

Abstract == INSTANCE StoryIngest WITH done <- Done, staged <- StagedAs

(* One run at a time, with pauses, failures and crashes anywhere,          *)
(* ingestion implements the resumable ingest.                              *)
ImplementsStoryIngest == Abstract!Spec
=============================================================================
