------------------------------ MODULE Stories ------------------------------
(***************************************************************************)
(* Uploading a story and giving it its structure: upload_story and         *)
(* structure_story (api/stories.py), the chunking coordinator and agent    *)
(* they call, and the transaction each request runs in (adapters/db.py).   *)
(*                                                                         *)
(* A request's writes are seen by the others when its transaction commits. *)
(* That is AFTER its answer was sent: the commit is the part of            *)
(* get_connection that follows the yield, and the framework runs it once   *)
(* the response is out.  The database is READ COMMITTED.                   *)
(***************************************************************************)
EXTENDS Outline

CONSTANTS
    Uploads,        \* upload requests; the story and the project one makes bear its name
    Structurings,   \* structure requests
    OldProjects,    \* projects that exist already
    Texts,          \* the texts an upload or an override may carry
    Proposals,      \* what the model may answer, beside an unusable response
    NoProject,      \* no project_id in an upload
    NoText,         \* no raw_text in a structure request
    NoStory,        \* not a row of stories
    NoTree,         \* a story that never got a structure
    NoLock,         \* a story row nobody holds
    MaxRetries,     \* ChunkingAgent(max_retries=...)
    MaxInputWords,  \* ChunkingCoordinator(max_input_words=...), in lines here
    MaxCrashes      \* bound: how often the process is killed

ASSUME StoriesAssumption ==
    /\ NoProject \notin Uploads \cup OldProjects
    /\ NoStory \notin Uploads \cup [project : Uploads \cup OldProjects, text : Texts]
    /\ NoText \notin Texts /\ NoLock \notin Structurings
    /\ Texts \subseteq Seq(Line)
    /\ MaxRetries \in Nat /\ MaxInputWords \in Nat /\ MaxCrashes \in Nat

Modes == {"auto", "manual", "hybrid"}

VARIABLES
    files,      \* stories whose original is on disk
    projects,   \* committed project rows
    stories,    \* committed story rows: [project, text]
    trees,      \* story -> its committed chapters, scenes and paragraphs
    lock,       \* story row -> the structure request that holds it FOR UPDATE
    upload,     \* Uploads -> the request
    structure,  \* Structurings -> the request
    crashes

vars == <<files, projects, stories, trees, lock, upload, structure, crashes>>

NewUpload == [pc |-> "new", status |-> 0, text |-> NoText, project |-> NoProject]

NewStructure == [pc |-> "new", status |-> 0, story |-> NoStory, mode |-> "manual",
                 override |-> NoText, text |-> NoText, fills |-> <<>>, attempts |-> 0]

Init ==
    /\ files = {} /\ projects = OldProjects
    /\ stories = [u \in Uploads |-> NoStory]
    /\ trees = [u \in Uploads |-> NoTree]
    /\ lock = [u \in Uploads |-> NoLock]
    /\ upload = [u \in Uploads |-> NewUpload]
    /\ structure = [r \in Structurings |-> NewStructure]
    /\ crashes = 0

-----------------------------------------------------------------------------
(* POST /stories/upload *)

EndUpload(u, status) ==
    upload' = [upload EXCEPT ![u] = [NewUpload EXCEPT !.pc = "ended", !.status = status]]

\* The file is not one the route takes (type, size, empty, not parseable).
RefuseUpload(u) ==
    /\ upload[u].pc = "new"
    /\ \E status \in {400, 413, 415} : EndUpload(u, status)
    /\ UNCHANGED <<files, projects, stories, trees, lock, structure, crashes>>

\* A project_id that names no project is refused before anything is written.
ReadUpload(u, text, project) ==
    /\ upload[u].pc = "new"
    /\ IF project \in {NoProject} \cup projects
       THEN upload' = [upload EXCEPT ![u] =
                         [pc |-> "save", status |-> 0, text |-> text, project |-> project]]
       ELSE EndUpload(u, 404)
    /\ UNCHANGED <<files, projects, stories, trees, lock, structure, crashes>>

\* save_upload writes the original before any row, or aborts the request.
SaveUpload(u) ==
    /\ upload[u].pc = "save"
    /\ upload' = [upload EXCEPT ![u].pc = "insert"]
    /\ files' = files \cup {u}
    /\ UNCHANGED <<projects, stories, trees, lock, structure, crashes>>

\* The rows are inserted, still uncommitted, and the answer goes out.
AnswerUpload(u) ==
    /\ upload[u].pc = "insert"
    /\ upload' = [upload EXCEPT ![u] = [upload[u] EXCEPT !.pc = "answered", !.status = 201]]
    /\ UNCHANGED <<files, projects, stories, trees, lock, structure, crashes>>

CommitUpload(u) ==
    LET project == IF upload[u].project = NoProject THEN u ELSE upload[u].project IN
    /\ upload[u].pc = "answered"
    /\ projects' = projects \cup {project}
    /\ stories' = [stories EXCEPT ![u] = [project |-> project, text |-> upload[u].text]]
    /\ EndUpload(u, 201)
    /\ UNCHANGED <<files, trees, lock, structure, crashes>>

\* The disk or the database fails: before the answer a 500, after it only a lost commit.
FailUpload(u) ==
    /\ upload[u].pc \in {"save", "insert", "answered"}
    /\ EndUpload(u, IF upload[u].pc = "answered" THEN 201 ELSE 500)
    /\ UNCHANGED <<files, projects, stories, trees, lock, structure, crashes>>

-----------------------------------------------------------------------------
(* POST /stories/{id}/structure *)

ReleaseForgotten(r) == lock   \* mutant: the lock outlives the request

\* The request ends and its transaction with it: the row lock is released.
Release(r) == [u \in Uploads |-> IF lock[u] = r THEN NoLock ELSE lock[u]]

EndStructure(r, status) ==
    /\ structure' = [structure EXCEPT ![r] =
                       [NewStructure EXCEPT !.pc = "ended", !.status = status]]
    /\ lock' = Release(r)

\* The author's outline of each text, and what each mode leaves to the model.
Parsed == [text \in Texts |-> ParseManual(text)]
Pieces == [mode \in Modes, text \in Texts |-> ToPropose(mode, text, Parsed[text])]

Pending(r) == Pieces[structure[r].mode, structure[r].text]

\* get_story, and the text to parse: the override or the stored one.
ReadStory(r, u, mode, override) ==
    /\ structure[r].pc = "new"
    /\ IF stories[u] = NoStory THEN EndStructure(r, 404)
       ELSE /\ structure' = [structure EXCEPT ![r] = [NewStructure EXCEPT
                  !.pc = "build", !.story = u, !.mode = mode, !.override = override,
                  !.text = IF override # NoText THEN override ELSE stories[u].text]]
            /\ UNCHANGED lock
    /\ UNCHANGED <<files, projects, stories, trees, upload, crashes>>

Words(blocks) == Len(FlattenSeq(blocks))

\* The answer fits the schema, and its ranges fit the paragraphs.
Accepted(proposal, blocks) ==
    WellFormed(proposal) /\ ~RangeProblem(proposal, Len(blocks))

\* A proposal that fits is turned into its outline; another one is asked for again until
\* MaxRetries have been.
TakeProposal(r, proposal, blocks) ==
    LET s == structure[r] IN
    IF Accepted(proposal, blocks)
    THEN /\ structure' = [structure EXCEPT ![r] = [s EXCEPT
               !.fills = Append(s.fills, ToOutline(proposal, blocks)), !.attempts = 0]]
         /\ UNCHANGED lock
    ELSE IF s.attempts = MaxRetries THEN EndStructure(r, 502)
    ELSE structure' = [structure EXCEPT ![r].attempts = s.attempts + 1] /\ UNCHANGED lock

\* _propose and propose_outline: the length guard, one call of the model, the check of what
\* it answered.  An unusable response (502) or no response at all (500) is not asked again.
Propose(r) ==
    LET s == structure[r]
        blocks == Pending(r)[Len(s.fills) + 1] IN
    /\ s.pc = "build" /\ Len(s.fills) < Len(Pending(r))
    /\ \/ Words(blocks) > MaxInputWords /\ EndStructure(r, 422)
       \/ /\ Words(blocks) <= MaxInputWords
          /\ \/ \E status \in {500, 502} : EndStructure(r, status)
             \/ \E proposal \in Proposals : TakeProposal(r, proposal, blocks)
    /\ UNCHANGED <<files, projects, stories, trees, upload, crashes>>

\* The outline is whole; SELECT ... FOR UPDATE waits until nobody holds the row.
LockStory(r) ==
    LET s == structure[r] IN
    /\ s.pc = "build" /\ Len(s.fills) = Len(Pending(r))
    /\ lock[s.story] = NoLock
    /\ lock' = [lock EXCEPT ![s.story] = r]
    /\ structure' = [structure EXCEPT ![r].pc = "check"]
    /\ UNCHANGED <<files, projects, stories, trees, upload, crashes>>

\* list_chapters is not empty.  A text without prose or headings gives no chapter at all,
\* and its story may be structured again.
HasChapters(u) == trees[u] # NoTree /\ trees[u].chapters # <<>>

CheckUnderLockNot(r) ==   \* mutant: only the check before the model's call is made
    /\ structure[r].pc = "check"
    /\ structure' = [structure EXCEPT ![r].pc = "insert"]
    /\ UNCHANGED <<files, projects, stories, trees, lock, upload, crashes>>

\* list_chapters again, under the lock.
CheckUnderLock(r) ==
    LET s == structure[r] IN
    /\ s.pc = "check"
    /\ IF HasChapters(s.story) THEN EndStructure(r, 409)
       ELSE /\ structure' = [structure EXCEPT ![r].pc = "insert"]
            /\ UNCHANGED lock
    /\ UNCHANGED <<files, projects, stories, trees, upload, crashes>>

\* The text and the tree are written, still uncommitted, and the answer goes out.
AnswerStructure(r) ==
    /\ structure[r].pc = "insert"
    /\ structure' = [structure EXCEPT ![r] =
                       [structure[r] EXCEPT !.pc = "answered", !.status = 201]]
    /\ UNCHANGED <<files, projects, stories, trees, lock, upload, crashes>>

NewTextStored(s) == stories[s.story].text   \* mutant: the edited text is not saved

\* What update_story_raw_text leaves in the row.
NewText(s) == IF s.override # NoText THEN s.override ELSE stories[s.story].text

CommitStructure(r) ==
    LET s == structure[r] IN
    /\ s.pc = "answered"
    /\ stories' = [stories EXCEPT ![s.story].text = NewText(s)]
    /\ trees' = [trees EXCEPT ![s.story] =
                   [mode |-> s.mode, chapters |-> BuildOutline(s.mode, Parsed[s.text], s.fills)]]
    /\ EndStructure(r, 201)
    /\ UNCHANGED <<files, projects, upload, crashes>>

\* The database fails: everything of the request is rolled back.
FailStructure(r) ==
    /\ structure[r].pc \in {"check", "insert", "answered"}
    /\ EndStructure(r, IF structure[r].pc = "answered" THEN 201 ELSE 500)
    /\ UNCHANGED <<files, projects, stories, trees, upload, crashes>>

-----------------------------------------------------------------------------
\* The process dies: requests in flight are gone, their transactions are rolled back, what
\* is on disk stays.
Crash ==
    /\ crashes < MaxCrashes
    /\ crashes' = crashes + 1
    /\ upload' = [u \in Uploads |-> IF upload[u].pc \in {"new", "ended"} THEN upload[u]
                                    ELSE [NewUpload EXCEPT !.pc = "ended"]]
    /\ structure' = [r \in Structurings |->
                       IF structure[r].pc \in {"new", "ended"} THEN structure[r]
                       ELSE [NewStructure EXCEPT !.pc = "ended"]]
    /\ lock' = [u \in Uploads |-> NoLock]
    /\ UNCHANGED <<files, projects, stories, trees>>

UploadWork(u) == SaveUpload(u) \/ AnswerUpload(u) \/ CommitUpload(u) \/ FailUpload(u)

StructureWork(r) ==
    \/ Propose(r) \/ LockStory(r) \/ CheckUnderLock(r)
    \/ AnswerStructure(r) \/ CommitStructure(r) \/ FailStructure(r)

Next ==
    \/ \E u \in Uploads :
         \/ RefuseUpload(u) \/ UploadWork(u)
         \/ \E text \in Texts, project \in Uploads \cup OldProjects \cup {NoProject} :
              ReadUpload(u, text, project)
    \/ \E r \in Structurings :
         \/ StructureWork(r)
         \/ \E u \in Uploads, mode \in Modes, override \in Texts \cup {NoText} :
              ReadStory(r, u, mode, override)
    \/ Crash

\* The server runs a request it has taken to its end: a provider answers or times out, the
\* database answers or fails.  Nobody has to send one.
Spec ==
    /\ Init /\ [][Next]_vars
    /\ \A u \in Uploads : WF_vars(UploadWork(u))
    /\ \A r \in Structurings : WF_vars(StructureWork(r))

-----------------------------------------------------------------------------
(* Properties *)

TypeOK ==
    /\ files \subseteq Uploads /\ projects \subseteq Uploads \cup OldProjects
    /\ \A u \in Uploads :
        /\ stories[u] = NoStory \/ stories[u] \in [project : Uploads \cup OldProjects, text : Texts]
        /\ trees[u] = NoTree \/ trees[u].mode \in Modes
        /\ lock[u] \in Structurings \cup {NoLock}
        /\ upload[u].pc \in {"new", "save", "insert", "answered", "ended"}
        /\ upload[u].text \in Texts \cup {NoText}
        /\ upload[u].project \in Uploads \cup OldProjects \cup {NoProject}
    /\ \A r \in Structurings :
        /\ structure[r].pc \in {"new", "build", "check", "insert", "answered", "ended"}
        /\ structure[r].story \in Uploads \cup {NoStory}
        /\ structure[r].text \in Texts \cup {NoText}
        /\ structure[r].attempts \in 0..MaxRetries
    /\ crashes \in 0..MaxCrashes

\* Every chapter the author has titled is a titled chapter of the tree, in order.
KeepsAnchors(tree, text, mode) ==
    mode # "auto" =>
        LET anchors == Anchors(text, "chapter")
            titled == SelectSeq(tree, LAMBDA c : c.title # NoTitle) IN
        [i \in DOMAIN titled |-> titled[i].title] = [i \in DOMAIN anchors |-> anchors[i].id]

\* A tree in the store was parsed from the text in the store, and nothing of that text is
\* missing from it: whoever wins a race of structure requests, with whichever override, the
\* text and the tree that stay are the winner's both.
TreeKeepsStoredText ==
    \A u \in Uploads : trees[u] # NoTree =>
        /\ stories[u] # NoStory
        /\ TreeKeepsText(trees[u].chapters, stories[u].text, trees[u].mode)

\* The author's titled chapters survive manual and hybrid chunking, all of them, in order.
ChapterAnchorsKept ==
    \A u \in Uploads : trees[u] # NoTree =>
        KeepsAnchors(trees[u].chapters, stories[u].text, trees[u].mode)

\* Once a story has chapters, neither they nor the text they came from are ever replaced.
StructureIsFinal ==
    [][\A u \in Uploads : HasChapters(u) =>
         trees'[u] = trees[u] /\ stories'[u] = stories[u]]_vars

\* A story in the store has its original on disk and its project's row, also after a crash.
StoryIsBacked ==
    \A u \in Uploads : stories[u] # NoStory => u \in files /\ stories[u].project \in projects

\* A story in the store is whole: its original, its project, and a tree that says its text.
StoryIsWhole == TypeOK /\ StoryIsBacked /\ TreeKeepsStoredText /\ ChapterAnchorsKept

\* What StoryIsWhole takes from the pure chunking functions, for one answer of the model for
\* each piece that is proposed: the outline keeps the text and the titles of the author, and
\* has a chapter.  Module MCStories has TLC evaluate it for the texts of its instance.
OutlinesOf(mode, text) ==
    LET pieces == Pieces[mode, text]
        answers == {a \in [DOMAIN pieces -> Proposals] :
                      \A i \in DOMAIN pieces : Accepted(a[i], pieces[i])} IN
    {BuildOutline(mode, Parsed[text], [i \in DOMAIN pieces |-> ToOutline(a[i], pieces[i])]) :
       a \in answers}

ChunkingIsFaithful ==
    \A mode \in Modes, text \in Texts :
        /\ DOMAIN Pieces[mode, text] = 1..Len(Pieces[mode, text])
        /\ \A tree \in OutlinesOf(mode, text) :
             /\ tree # <<>> /\ [mode |-> mode, chapters |-> tree] # NoTree
             /\ TreeKeepsText(tree, text, mode)
             /\ KeepsAnchors(tree, text, mode)

\* What the comments of update_story_raw_text and of structure_story promise to a later
\* read: once the request is answered the edited text and its tree are what is read.
AnsweredIsStored ==
    \A r \in Structurings : structure[r].pc = "answered" =>
        /\ trees[structure[r].story] # NoTree
        /\ stories[structure[r].story].text = structure[r].text

\* Every request ends, also the ones that wait for each other's row lock.
RequestsEnd ==
    \A r \in Structurings : structure[r].pc = "build" ~> structure[r].pc = "ended"
=============================================================================
