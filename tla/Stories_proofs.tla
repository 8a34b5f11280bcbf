---------------------------- MODULE Stories_proofs ----------------------------
(***************************************************************************)
(* Proofs about Stories, for any number of uploads and structure requests, *)
(* any texts, any answers of the model and any number of crashes.  What a  *)
(* race of structure requests rests on: whoever is going to write holds    *)
(* the row and has seen, while holding it, that there are no chapters; and *)
(* what it is going to store was built from the text that it read.         *)
(***************************************************************************)
EXTENDS Stories, TLAPS

-----------------------------------------------------------------------------
(* The inductive invariant *)

Upload ==
    [pc : {"new", "save", "insert", "answered", "ended"}, status : Nat,
     text : Texts \cup {NoText}, project : Uploads \cup OldProjects \cup {NoProject}]

\* Only the upload of a story makes its row, after its file and with a project.
UploadOK(u) ==
    LET q == upload[u] IN
    /\ q \in Upload
    /\ q.pc # "ended" => stories[u] = NoStory
    /\ q.pc \in {"save", "insert", "answered"} =>
         q.text \in Texts /\ q.project \in projects \cup {NoProject}
    /\ q.pc \in {"insert", "answered"} => u \in files

StoryRow == [project : Uploads \cup OldProjects, text : Texts]

StoryOK(u) ==
    /\ stories[u] # NoStory =>
         stories[u] \in StoryRow /\ u \in files /\ stories[u].project \in projects
    /\ trees[u] # NoTree => stories[u] # NoStory /\ trees[u].mode \in Modes
    /\ lock[u] \in Structurings \cup {NoLock}

\* What an answer of the model may become for the i-th piece.
Fills(mode, text, i) ==
    {ToOutline(p, Pieces[mode, text][i]) :
       p \in {q \in Proposals : Accepted(q, Pieces[mode, text][i])}}

Fill == UNION {Fills(x[1], x[2], x[3]) : x \in Modes \X Texts \X Nat}

Structure ==
    [pc : {"new", "build", "check", "insert", "answered", "ended"}, status : Nat,
     story : Uploads \cup {NoStory}, mode : Modes, override : Texts \cup {NoText},
     text : Texts \cup {NoText}, fills : Seq(Fill), attempts : 0..MaxRetries]

InHand(q) == q.pc \in {"build", "check", "insert", "answered"}
Whole(q) == q.pc \in {"check", "insert", "answered"}
Writes(q) == q.pc \in {"insert", "answered"}

\* A request's outline is built from the text it read.
Built(q) ==
    /\ q \in Structure
    /\ InHand(q) =>
         /\ q.story \in Uploads /\ q.text \in Texts
         /\ q.override # NoText => q.text = q.override
         /\ \A i \in 1..Len(q.fills) : q.fills[i] \in Fills(q.mode, q.text, i)
    /\ Whole(q) => Len(q.fills) = Len(Pieces[q.mode, q.text])

\* It writes under the lock, to a story without chapters.
LockHeld(r) ==
    LET q == structure[r] IN
    /\ InHand(q) => stories[q.story] # NoStory
    /\ Whole(q) => lock[q.story] = r
    /\ Writes(q) => ~HasChapters(q.story)

Functions ==
    /\ files \subseteq Uploads /\ projects \subseteq Uploads \cup OldProjects
    /\ stories = [u \in Uploads |-> stories[u]]
    /\ trees = [u \in Uploads |-> trees[u]]
    /\ lock = [u \in Uploads |-> lock[u]]
    /\ upload = [u \in Uploads |-> upload[u]]
    /\ structure = [r \in Structurings |-> structure[r]]
    /\ crashes \in 0..MaxCrashes

IInv ==
    /\ Functions
    /\ \A u \in Uploads : UploadOK(u) /\ StoryOK(u)
    /\ \A r \in Structurings : Built(structure[r]) /\ LockHeld(r)

LEMMA NewIsOK ==
    ASSUME NEW status \in Nat
    PROVE  LET q == [NewStructure EXCEPT !.pc = "ended", !.status = status]
               p == [NewUpload EXCEPT !.pc = "ended", !.status = status]
           IN  /\ Built(q) /\ ~InHand(q) /\ ~Whole(q) /\ ~Writes(q)
               /\ Built(NewStructure) /\ ~InHand(NewStructure) /\ ~Whole(NewStructure) /\ ~Writes(NewStructure)
               /\ p \in Upload /\ p.pc = "ended" /\ NewUpload \in Upload /\ NewUpload.pc = "new"
<1>1. 0 \in 0..MaxRetries /\ <<>> \in Seq(Fill) /\ "manual" \in Modes
  BY StoriesAssumption DEF StoriesAssumption, Modes
<1>2. NewStructure \in Structure
  BY <1>1 DEF NewStructure, Structure
<1>3. NewUpload \in Upload /\ NewUpload.pc = "new" /\ NewStructure.pc = "new"
  BY DEF NewUpload, Upload, NewStructure
<1> DEFINE q == [NewStructure EXCEPT !.pc = "ended", !.status = status]
           p == [NewUpload EXCEPT !.pc = "ended", !.status = status]
<1>4. q \in Structure /\ q.pc = "ended"
  BY <1>2 DEF Structure
<1>5. p \in Upload /\ p.pc = "ended"
  BY <1>3 DEF Upload
<1> QED
  BY <1>2, <1>3, <1>4, <1>5 DEF Built, InHand, Whole, Writes

\* The same of a request that is answered 201, and of an upload that is about to end so.
LEMMA CreatedIsOK ==
    LET q == [NewStructure EXCEPT !.pc = "ended", !.status = 201]
        p == [NewUpload EXCEPT !.pc = "ended", !.status = 201]
    IN  /\ Built(q) /\ ~InHand(q) /\ ~Whole(q) /\ ~Writes(q)
        /\ p \in Upload /\ p.pc = "ended"
<1>1. \A status : status = 201 => status \in Nat
  OBVIOUS
<1>2. ASSUME NEW status, status = 201
      PROVE  LET q == [NewStructure EXCEPT !.pc = "ended", !.status = status]
                 p == [NewUpload EXCEPT !.pc = "ended", !.status = status]
             IN  /\ Built(q) /\ ~InHand(q) /\ ~Whole(q) /\ ~Writes(q)
                 /\ p \in Upload /\ p.pc = "ended"
  <2>1. status \in Nat
    BY <1>1, <1>2
  <2> QED
    BY <2>1, NewIsOK, Zenon
<1> QED
  BY <1>2, Zenon

AnsweredOf(t) == [t EXCEPT !.pc = "answered", !.status = 201]

LEMMA AnsweredIsOK ==
    ASSUME NEW t \in Upload
    PROVE  LET q == AnsweredOf(t)
           IN  q \in Upload /\ q.pc = "answered" /\ q.text = t.text /\ q.project = t.project
<1> DEFINE p == [t EXCEPT !.pc = "answered"]
<1>1. p \in Upload /\ p.pc = "answered" /\ p.text = t.text /\ p.project = t.project
  BY DEF Upload
<1>2. LET q == [p EXCEPT !.status = 201]
      IN  q \in Upload /\ q.pc = "answered" /\ q.text = t.text /\ q.project = t.project
  <2> HIDE DEF p
  <2> QED
    BY <1>1 DEF Upload
<1>3. [t EXCEPT !.pc = "answered", !.status = 201] = [p EXCEPT !.status = 201]
  BY DEF Upload
<1> HIDE DEF p
<1> QED
  BY <1>2, <1>3 DEF AnsweredOf

LEMMA InitIInv == Init => IInv
<1> SUFFICES ASSUME Init PROVE IInv
  OBVIOUS
<1>1. Functions
  BY StoriesAssumption, SMTT(30) DEF StoriesAssumption, Init, Functions
<1>2. \A u \in Uploads : UploadOK(u) /\ StoryOK(u)
  BY NewIsOK, ZenonT(40) DEF Init, UploadOK, StoryOK
<1>3. \A r \in Structurings : Built(structure[r]) /\ LockHeld(r)
  BY NewIsOK DEF Init, LockHeld
<1> QED
  BY <1>1, <1>2, <1>3 DEF IInv

-----------------------------------------------------------------------------
(* Uploads *)

\* A step of an upload: its row appears or it does not.
LEMMA UploadStep ==
    ASSUME IInv, NEW u \in Uploads, NEW q \in Upload,
           upload' = [upload EXCEPT ![u] = q],
           stories' = stories \/ (stories' = [stories EXCEPT ![u] = stories'[u]]
                                    /\ stories[u] = NoStory /\ stories'[u] \in StoryRow
                                    /\ u \in files /\ stories'[u].project \in projects'),
           files \subseteq files', files' \subseteq Uploads,
           projects \subseteq projects', projects' \subseteq Uploads \cup OldProjects,
           q.pc # "ended" => stories'[u] = NoStory,
           q.pc \in {"save", "insert", "answered"} =>
             q.text \in Texts /\ q.project \in projects' \cup {NoProject},
           q.pc \in {"insert", "answered"} => u \in files',
           UNCHANGED <<trees, lock, structure, crashes>>
    PROVE  IInv'
<1>1. upload'[u] = q /\ \A w \in Uploads : w # u => upload'[w] = upload[w]
  BY DEF IInv, Functions
<1>2. \A w \in Uploads : w # u => stories'[w] = stories[w]
  BY DEF IInv, Functions
<1>3. Functions'
  BY DEF IInv, Functions
<1>4. ASSUME NEW w \in Uploads PROVE UploadOK(w)' /\ StoryOK(w)'
  <2>1. UploadOK(w)'
    BY <1>1, <1>2 DEF IInv, UploadOK
  <2>2. StoryOK(w)'
    BY <1>2, StoriesAssumption DEF IInv, StoryOK, StoriesAssumption, StoryRow
  <2> QED
    BY <2>1, <2>2
<1>5. ASSUME NEW r \in Structurings PROVE Built(structure[r])' /\ LockHeld(r)'
  <2>1. structure' = structure /\ Built(structure[r]) /\ LockHeld(r)
    BY <1>5 DEF IInv
  <2>2. InHand(structure[r]) => structure[r].story \in Uploads
    BY <2>1 DEF Built
  <2>3. \A w \in Uploads : stories[w] # NoStory => stories'[w] = stories[w]
    BY <1>2
  <2>4. \A w \in Uploads : HasChapters(w)' = HasChapters(w)
    BY DEF HasChapters
  <2>5. Built(structure[r])'
    BY <2>1
  <2>6. LockHeld(r)'
    BY <2>1, <2>2, <2>3, <2>4 DEF LockHeld, InHand, Whole, Writes
  <2> QED
    BY <2>5, <2>6
<1> QED
  BY <1>3, <1>4, <1>5 DEF IInv

LEMMA UploadsKeep ==
    ASSUME IInv, NEW u \in Uploads,
           \/ RefuseUpload(u) \/ UploadWork(u)
           \/ \E text \in Texts, project \in Uploads \cup OldProjects \cup {NoProject} :
                ReadUpload(u, text, project)
    PROVE  IInv'
<1>1. /\ UploadOK(u) /\ upload[u] \in Upload
      /\ files \subseteq Uploads /\ projects \subseteq Uploads \cup OldProjects
  BY DEF IInv, UploadOK, Functions
<1>2. ASSUME NEW status \in Nat, EndUpload(u, status),
             UNCHANGED <<files, projects, stories, trees, lock, structure, crashes>>
      PROVE  IInv'
  <2> DEFINE q == [NewUpload EXCEPT !.pc = "ended", !.status = status]
  <2>1. q \in Upload /\ q.pc = "ended"
    BY NewIsOK
  <2>2. upload' = [upload EXCEPT ![u] = q]
    BY <1>2 DEF EndUpload
  <2> HIDE DEF q
  <2> QED
    BY <1>1, <1>2, <2>1, <2>2, UploadStep
<1>3. CASE RefuseUpload(u)
  BY <1>2, <1>3 DEF RefuseUpload
<1>4. ASSUME NEW text \in Texts, NEW project \in Uploads \cup OldProjects \cup {NoProject},
             ReadUpload(u, text, project)
      PROVE  IInv'
  <2>1. CASE project \in {NoProject} \cup projects
    <3> DEFINE q == [pc |-> "save", status |-> 0, text |-> text, project |-> project]
    <3>1. q \in Upload /\ q.pc = "save" /\ q.text = text /\ q.project = project
      BY DEF Upload
    <3>2. upload' = [upload EXCEPT ![u] = q]
      BY <1>4, <2>1 DEF ReadUpload
    <3> HIDE DEF q
    <3>3. stories[u] = NoStory /\ UNCHANGED <<files, projects, stories, trees, lock, structure, crashes>>
      BY <1>1, <1>4 DEF UploadOK, ReadUpload
    <3> QED
      BY <1>1, <2>1, <3>1, <3>2, <3>3, UploadStep
  <2>2. CASE project \notin {NoProject} \cup projects
    BY <1>2, <1>4, <2>2 DEF ReadUpload
  <2> QED
    BY <2>1, <2>2
<1>5. CASE SaveUpload(u)
  <2> DEFINE q == [upload[u] EXCEPT !.pc = "insert"]
  <2>1. q \in Upload /\ q.pc = "insert" /\ q.text = upload[u].text /\ q.project = upload[u].project
    BY <1>1 DEF Upload
  <2>2. upload' = [upload EXCEPT ![u] = q] /\ files' = files \cup {u} /\ upload[u].pc = "save"
        /\ UNCHANGED <<projects, stories, trees, lock, structure, crashes>>
    BY <1>5 DEF SaveUpload
  <2> HIDE DEF q
  <2>3. stories[u] = NoStory /\ q.text \in Texts /\ q.project \in projects \cup {NoProject}
    BY <1>1, <2>1, <2>2 DEF UploadOK
  <2> QED
    BY <1>1, <2>1, <2>2, <2>3, UploadStep
<1>6. CASE AnswerUpload(u)
  <2> DEFINE q == AnsweredOf(upload[u])
  <2>1. q \in Upload /\ q.pc = "answered" /\ q.text = upload[u].text /\ q.project = upload[u].project
    BY <1>1, AnsweredIsOK
  <2>2. upload' = [upload EXCEPT ![u] = q] /\ upload[u].pc = "insert"
        /\ UNCHANGED <<files, projects, stories, trees, lock, structure, crashes>>
    BY <1>6 DEF AnswerUpload, AnsweredOf
  <2> HIDE DEF q
  <2>3. stories[u] = NoStory /\ q.text \in Texts /\ q.project \in projects \cup {NoProject} /\ u \in files
    BY <1>1, <2>1, <2>2 DEF UploadOK
  <2> QED
    BY <1>1, <2>1, <2>2, <2>3, UploadStep
<1>7. CASE CommitUpload(u)
  <2> DEFINE project == IF upload[u].project = NoProject THEN u ELSE upload[u].project
             q == [NewUpload EXCEPT !.pc = "ended", !.status = 201]
             row == [project |-> project, text |-> upload[u].text]
  <2>1. q \in Upload /\ q.pc = "ended"
    BY CreatedIsOK
  <2>2. /\ upload' = [upload EXCEPT ![u] = q] /\ upload[u].pc = "answered"
        /\ projects' = projects \cup {project} /\ stories' = [stories EXCEPT ![u] = row]
        /\ UNCHANGED <<files, trees, lock, structure, crashes>>
    BY <1>7 DEF CommitUpload, EndUpload
  <2>3. /\ stories[u] = NoStory /\ u \in files
        /\ upload[u].text \in Texts /\ upload[u].project \in projects \cup {NoProject}
    BY <1>1, <2>2 DEF UploadOK
  <2>4. project \in Uploads \cup OldProjects
    BY <1>1, <2>3
  <2>5. row \in StoryRow /\ row.project = project
    BY <2>3, <2>4 DEF StoryRow
  <2>6. stories'[u] = row
    BY <2>2 DEF IInv, Functions
  <2> HIDE DEF q, row, project
  <2>7. projects \subseteq projects' /\ projects' \subseteq Uploads \cup OldProjects
    BY <1>1, <2>2, <2>4
  <2>8. stories' = [stories EXCEPT ![u] = stories'[u]]
    BY <2>2, <2>6
  <2>9. stories'[u] \in StoryRow
    BY <2>5, <2>6
  <2>10. stories'[u].project \in projects'
    BY <2>2, <2>5, <2>6
  <2> QED
    BY <1>1, <2>1, <2>2, <2>3, <2>7, <2>8, <2>9, <2>10, UploadStep
<1>8. CASE FailUpload(u)
  BY <1>2, <1>8 DEF FailUpload
<1> QED
  BY <1>3, <1>4, <1>5, <1>6, <1>7, <1>8 DEF UploadWork

-----------------------------------------------------------------------------
(* Structure requests *)

\* A request goes on to a sound state; it may take its row's lock, or let it go, and if it
\* writes, it writes to the row it holds.
LEMMA StructureStep ==
    ASSUME IInv, NEW r \in Structurings, NEW q, Built(q),
           structure' = [structure EXCEPT ![r] = q],
           UNCHANGED <<files, projects, upload, crashes>>,
           \A s \in Structurings, u \in Uploads : s # r /\ lock[u] = s => lock'[u] = s,
           lock' = [u \in Uploads |-> lock'[u]],
           \A u \in Uploads : lock'[u] \in Structurings \cup {NoLock},
           stories' = [u \in Uploads |-> stories'[u]], trees' = [u \in Uploads |-> trees'[u]],
           \A u \in Uploads : lock[u] # r => stories'[u] = stories[u] /\ trees'[u] = trees[u],
           \A u \in Uploads : stories[u] # NoStory =>
             stories'[u] \in StoryRow /\ stories'[u].project = stories[u].project,
           \A u \in Uploads : stories[u] = NoStory => stories'[u] = NoStory,
           \A u \in Uploads : trees'[u] # trees[u] => stories[u] # NoStory /\ trees'[u].mode \in Modes,
           InHand(q) => stories[q.story] # NoStory,
           Whole(q) => lock'[q.story] = r,
           Writes(q) => ~HasChapters(q.story)'
    PROVE  IInv'
<1>1. structure'[r] = q /\ \A s \in Structurings : s # r => structure'[s] = structure[s]
  BY DEF IInv, Functions
<1>2. Functions'
  BY DEF IInv, Functions
<1>3. \A u \in Uploads : stories[u] # NoStory <=> stories'[u] # NoStory
  BY StoriesAssumption DEF StoriesAssumption, StoryRow
<1>4. ASSUME NEW u \in Uploads PROVE UploadOK(u)' /\ StoryOK(u)'
  <2>1. UploadOK(u)'
    BY <1>3 DEF IInv, UploadOK
  <2>2. StoryOK(u)'
    BY <1>3 DEF IInv, StoryOK
  <2> QED
    BY <2>1, <2>2
<1>5. ASSUME NEW s \in Structurings PROVE Built(structure'[s]) /\ LockHeld(s)'
  <2>1. CASE s = r
    <3>1. InHand(q) => q.story \in Uploads
      BY DEF Built
    <3>2. InHand(q) => stories'[q.story] # NoStory
      BY <1>3, <3>1
    <3> QED
      BY <1>1, <2>1, <3>2 DEF LockHeld
  <2>2. CASE s # r
    <3>1. structure'[s] = structure[s] /\ Built(structure[s]) /\ LockHeld(s)
      BY <1>1, <2>2 DEF IInv
    <3> DEFINE p == structure[s]
    <3>2. InHand(p) => p.story \in Uploads /\ stories'[p.story] # NoStory
      BY <1>3, <3>1 DEF Built, LockHeld
    <3>3. Whole(p) => InHand(p) /\ lock[p.story] = s /\ lock'[p.story] = s
      BY <2>2, <3>1, <3>2 DEF LockHeld, Whole, InHand
    <3>4. Writes(p) => ~HasChapters(p.story)'
      <4>1. SUFFICES ASSUME Writes(p) PROVE trees'[p.story] = trees[p.story]
        BY <3>1 DEF LockHeld, HasChapters
      <4>2. Whole(p)
        BY <4>1 DEF Writes, Whole
      <4>3. lock[p.story] # r
        BY <2>2, <3>3, <4>2
      <4> QED
        BY <3>2, <3>3, <4>2, <4>3
    <3> QED
      BY <3>1, <3>2, <3>3, <3>4 DEF LockHeld
  <2> QED
    BY <2>1, <2>2
<1>6. \A s \in Structurings : Built(structure[s])'
  BY <1>5 DEF Built
<1> QED
  BY <1>2, <1>4, <1>5, <1>6 DEF IInv

\* A request that stays off the rows.
LEMMA StayStep ==
    ASSUME IInv, NEW r \in Structurings, NEW q, Built(q),
           structure' = [structure EXCEPT ![r] = q],
           UNCHANGED <<files, projects, stories, trees, lock, upload, crashes>>,
           InHand(q) => stories[q.story] # NoStory,
           Whole(q) => lock[q.story] = r,
           Writes(q) => ~HasChapters(q.story)
    PROVE  IInv'
<1>1. /\ stories = [u \in Uploads |-> stories[u]] /\ trees = [u \in Uploads |-> trees[u]]
      /\ lock = [u \in Uploads |-> lock[u]]
      /\ \A u \in Uploads : /\ lock[u] \in Structurings \cup {NoLock}
                            /\ stories[u] # NoStory => stories[u] \in StoryRow
  BY DEF IInv, Functions, StoryOK
<1>2. \A u \in Uploads : HasChapters(u)' = HasChapters(u)
  BY DEF HasChapters
<1>3. Writes(q) => q.story \in Uploads
  BY DEF Writes, Built, InHand
<1> QED
  BY <1>1, <1>2, <1>3, StructureStep

\* A request that ends lets go of its lock.
LEMMA EndStep ==
    ASSUME IInv, NEW r \in Structurings, NEW status \in Nat, EndStructure(r, status),
           UNCHANGED <<files, projects, stories, trees, upload, crashes>>
    PROVE  IInv'
<1> DEFINE q == [NewStructure EXCEPT !.pc = "ended", !.status = status]
<1>1. Built(q) /\ ~InHand(q) /\ ~Whole(q) /\ ~Writes(q)
  BY NewIsOK
<1>2. structure' = [structure EXCEPT ![r] = q] /\ lock' = Release(r)
  BY DEF EndStructure
<1> HIDE DEF q
<1>3. /\ lock' = [u \in Uploads |-> lock'[u]]
      /\ \A s \in Structurings, u \in Uploads : s # r /\ lock[u] = s => lock'[u] = s
      /\ \A u \in Uploads : lock'[u] \in Structurings \cup {NoLock}
  BY <1>2 DEF Release, IInv, StoryOK
<1>4. /\ stories = [u \in Uploads |-> stories[u]] /\ trees = [u \in Uploads |-> trees[u]]
      /\ \A u \in Uploads : stories[u] # NoStory => stories[u] \in StoryRow
  BY DEF IInv, Functions, StoryOK
<1> QED
  BY <1>1, <1>2, <1>3, <1>4, StructureStep, ZenonT(40)

LEMMA ReadStoryKeeps ==
    ASSUME IInv, NEW r \in Structurings, NEW u \in Uploads, NEW mode \in Modes,
           NEW override \in Texts \cup {NoText}, ReadStory(r, u, mode, override)
    PROVE  IInv'
<1>1. CASE stories[u] = NoStory
  BY <1>1, EndStep DEF ReadStory
<1>2. CASE stories[u] # NoStory
  <2> DEFINE text == IF override # NoText THEN override ELSE stories[u].text
             q == [NewStructure EXCEPT !.pc = "build", !.story = u, !.mode = mode,
                                       !.override = override, !.text = text]
  <2>1. text \in Texts
    BY <1>2 DEF IInv, StoryOK, StoryRow
  <2>2. NewStructure \in Structure
    BY NewIsOK DEF Built
  <2>3. q \in Structure
    BY <2>1, <2>2 DEF Structure
  <2>4. /\ q.pc = "build" /\ q.story = u /\ q.override = override /\ q.text = text /\ q.fills = <<>>
    BY <2>2 DEF Structure, NewStructure
  <2>5. structure' = [structure EXCEPT ![r] = q]
        /\ UNCHANGED <<files, projects, stories, trees, lock, upload, crashes>>
    BY <1>2 DEF ReadStory
  <2>6. override # NoText => text = override
    OBVIOUS
  <2> HIDE DEF text, q
  <2>7. Built(q) /\ ~Whole(q) /\ ~Writes(q)
    BY <2>1, <2>3, <2>4, <2>6 DEF Built, InHand, Whole, Writes
  <2> QED
    BY <1>2, <2>4, <2>5, <2>7, StayStep
<1> QED
  BY <1>1, <1>2

LEMMA ProposeKeeps ==
    ASSUME IInv, NEW r \in Structurings, Propose(r) PROVE IInv'
<1> DEFINE s == structure[r]
           n == Len(s.fills) + 1
           blocks == Pending(r)[n]
<1>1. /\ Built(s) /\ s \in Structure /\ s.pc = "build" /\ InHand(s) /\ ~Whole(s) /\ ~Writes(s)
      /\ stories[s.story] # NoStory
  BY DEF IInv, LockHeld, Built, Propose, InHand, Whole, Writes
<1>2. UNCHANGED <<files, projects, stories, trees, upload, crashes>>
  BY DEF Propose
<1>3. ASSUME NEW status \in {422, 500, 502}, EndStructure(r, status) PROVE IInv'
  BY <1>2, <1>3, EndStep
<1>4. ASSUME NEW proposal \in Proposals, Accepted(proposal, blocks), UNCHANGED lock,
             structure' = [structure EXCEPT ![r] = [s EXCEPT
                !.fills = Append(s.fills, ToOutline(proposal, blocks)), !.attempts = 0]]
      PROVE  IInv'
  <2> DEFINE f == ToOutline(proposal, blocks)
             q == [s EXCEPT !.fills = Append(s.fills, f), !.attempts = 0]
  <2>1. /\ s.fills \in Seq(Fill) /\ n \in Nat /\ s.mode \in Modes /\ s.text \in Texts
        /\ 0 \in 0..MaxRetries
    <3>1. s.fills \in Seq(Fill) /\ s.mode \in Modes
      BY <1>1 DEF Structure
    <3>2. Len(s.fills) \in Nat
      BY <3>1
    <3>3. s.text \in Texts
      BY <1>1 DEF Built
    <3>4. n \in Nat
      BY <3>2
    <3>5. 0 \in 0..MaxRetries
      BY StoriesAssumption DEF StoriesAssumption
    <3> QED
      BY <3>1, <3>3, <3>4, <3>5
  <2>2. f \in Fills(s.mode, s.text, n)
    BY <1>4 DEF Fills, Pending
  <2>3. f \in Fill
    <3>1. <<s.mode, s.text, n>> \in Modes \X Texts \X Nat
      BY <2>1
    <3> QED
      BY <2>2, <3>1 DEF Fill
  <2> HIDE DEF f
  <2>4. Append(s.fills, f) \in Seq(Fill)
    BY <2>1, <2>3
  <2>5. q \in Structure
    BY <1>1, <2>1, <2>4 DEF Structure
  <2>6. /\ q.pc = "build" /\ q.story = s.story /\ q.override = s.override
        /\ q.text = s.text /\ q.mode = s.mode /\ q.fills = Append(s.fills, f)
    BY <1>1 DEF Structure
  <2>7. structure' = [structure EXCEPT ![r] = q]
    BY <1>4 DEF f
  <2> HIDE DEF q
  <2>8. \A i \in 1..Len(q.fills) : q.fills[i] \in Fills(q.mode, q.text, i)
    <3>1. ASSUME NEW i \in 1..Len(s.fills) PROVE q.fills[i] \in Fills(s.mode, s.text, i)
      <4>1. s.fills[i] \in Fills(s.mode, s.text, i)
        BY <1>1 DEF Built
      <4>2. q.fills[i] = s.fills[i]
        BY <2>1, <2>3, <2>6
      <4> QED
        BY <4>1, <4>2
    <3>2. q.fills[n] = f /\ Len(q.fills) = n
      BY <2>1, <2>3, <2>6
    <3> QED
      BY <2>1, <2>2, <2>6, <3>1, <3>2
  <2>9. Built(q) /\ ~Whole(q) /\ ~Writes(q)
    BY <1>1, <2>5, <2>6, <2>8 DEF Built, InHand, Whole, Writes
  <2> QED
    BY <1>1, <1>2, <1>4, <2>6, <2>7, <2>9, StayStep
<1>5. ASSUME s.attempts # MaxRetries, UNCHANGED lock,
             structure' = [structure EXCEPT ![r].attempts = s.attempts + 1]
      PROVE  IInv'
  <2> DEFINE q == [s EXCEPT !.attempts = s.attempts + 1]
  <2>0. s.attempts \in 0..MaxRetries /\ MaxRetries \in Nat
    BY <1>1, StoriesAssumption DEF StoriesAssumption, Structure
  <2>1. s.attempts + 1 \in 0..MaxRetries
    BY <1>5, <2>0
  <2>2. q \in Structure
    BY <1>1, <2>1 DEF Structure
  <2>3. /\ q.pc = "build" /\ q.story = s.story /\ q.override = s.override
        /\ q.text = s.text /\ q.mode = s.mode /\ q.fills = s.fills
    BY <1>1 DEF Structure
  <2>4. structure' = [structure EXCEPT ![r] = q]
    BY <1>5
  <2> HIDE DEF q
  <2>5. Built(q) /\ ~Whole(q) /\ ~Writes(q)
    BY <1>1, <2>2, <2>3 DEF Built, InHand, Whole, Writes
  <2> QED
    BY <1>1, <1>2, <1>5, <2>3, <2>4, <2>5, StayStep
<1>6. ASSUME NEW proposal \in Proposals, TakeProposal(r, proposal, blocks) PROVE IInv'
  <2>1. CASE Accepted(proposal, blocks)
    BY <1>4, <1>6, <2>1 DEF TakeProposal
  <2>2. CASE ~Accepted(proposal, blocks) /\ s.attempts = MaxRetries
    BY <1>3, <1>6, <2>2 DEF TakeProposal
  <2>3. CASE ~Accepted(proposal, blocks) /\ s.attempts # MaxRetries
    BY <1>5, <1>6, <2>3 DEF TakeProposal
  <2> QED
    BY <2>1, <2>2, <2>3
<1> QED
  BY <1>3, <1>6 DEF Propose

LEMMA LockStoryKeeps ==
    ASSUME IInv, NEW r \in Structurings, LockStory(r) PROVE IInv'
<1> DEFINE s == structure[r]
           q == [s EXCEPT !.pc = "check"]
<1>1. /\ Built(s) /\ s \in Structure /\ s.pc = "build" /\ InHand(s)
      /\ stories[s.story] # NoStory /\ s.story \in Uploads
  BY DEF IInv, LockHeld, Built, LockStory, InHand
<1>2. /\ q \in Structure /\ q.pc = "check" /\ q.story = s.story /\ q.override = s.override
      /\ q.text = s.text /\ q.mode = s.mode /\ q.fills = s.fills
  BY <1>1 DEF Structure
<1>3. /\ structure' = [structure EXCEPT ![r] = q] /\ lock' = [lock EXCEPT ![s.story] = r]
      /\ lock[s.story] = NoLock /\ Len(s.fills) = Len(Pieces[s.mode, s.text])
      /\ UNCHANGED <<files, projects, stories, trees, upload, crashes>>
  BY DEF LockStory, Pending
<1> HIDE DEF q
<1>4. Built(q) /\ ~Writes(q)
  BY <1>1, <1>2, <1>3 DEF Built, InHand, Whole, Writes
<1>5. /\ lock' = [u \in Uploads |-> lock'[u]] /\ lock'[s.story] = r
      /\ \A t \in Structurings, u \in Uploads : t # r /\ lock[u] = t => lock'[u] = t
      /\ \A u \in Uploads : lock'[u] \in Structurings \cup {NoLock}
  <2>1. lock = [u \in Uploads |-> lock[u]] /\ \A u \in Uploads : lock[u] \in Structurings \cup {NoLock}
    BY DEF IInv, Functions, StoryOK
  <2>2. NoLock \notin Structurings
    BY StoriesAssumption DEF StoriesAssumption
  <2> QED
    BY <1>1, <1>3, <2>1, <2>2
<1>6. /\ stories = [u \in Uploads |-> stories[u]] /\ trees = [u \in Uploads |-> trees[u]]
      /\ \A u \in Uploads : stories[u] # NoStory => stories[u] \in StoryRow
  BY DEF IInv, Functions, StoryOK
<1> QED
  BY <1>1, <1>2, <1>3, <1>4, <1>5, <1>6, StructureStep, ZenonT(40)

LEMMA CheckKeeps ==
    ASSUME IInv, NEW r \in Structurings, CheckUnderLock(r) \/ AnswerStructure(r) PROVE IInv'
<1> DEFINE s == structure[r]
<1>1. /\ Built(s) /\ s \in Structure /\ InHand(s) /\ Whole(s) /\ s.pc \in {"check", "insert"}
      /\ stories[s.story] # NoStory /\ lock[s.story] = r
      /\ s.pc = "insert" => ~HasChapters(s.story)
      /\ UNCHANGED <<files, projects, stories, trees, upload, crashes>>
  <2>1. s.pc \in {"check", "insert"} /\ UNCHANGED <<files, projects, stories, trees, upload, crashes>>
    BY DEF CheckUnderLock, AnswerStructure
  <2>2. Built(s) /\ LockHeld(r)
    BY DEF IInv
  <2>3. InHand(s) /\ Whole(s) /\ (s.pc = "insert" => Writes(s))
    BY <2>1 DEF InHand, Whole, Writes
  <2> QED
    BY <2>1, <2>2, <2>3 DEF LockHeld, Built
<1>2. ASSUME NEW q, q \in Structure, q.pc \in {"insert", "answered"}, q.story = s.story,
             q.override = s.override, q.text = s.text, q.mode = s.mode, q.fills = s.fills,
             structure' = [structure EXCEPT ![r] = q], UNCHANGED lock, ~HasChapters(s.story)
      PROVE  IInv'
  <2>1. Built(q)
    BY <1>1, <1>2 DEF Built, InHand, Whole
  <2> QED
    BY <1>1, <1>2, <2>1, StayStep
<1>3. CASE CheckUnderLock(r) /\ HasChapters(s.story)
  BY <1>1, <1>3, EndStep DEF CheckUnderLock
<1>4. CASE CheckUnderLock(r) /\ ~HasChapters(s.story)
  <2> DEFINE q == [s EXCEPT !.pc = "insert"]
  <2>1. /\ q \in Structure /\ q.pc = "insert" /\ q.story = s.story /\ q.override = s.override
        /\ q.text = s.text /\ q.mode = s.mode /\ q.fills = s.fills
    BY <1>1 DEF Structure
  <2>2. structure' = [structure EXCEPT ![r] = q] /\ UNCHANGED lock
    BY <1>4 DEF CheckUnderLock
  <2> HIDE DEF q
  <2> QED
    BY <1>2, <1>4, <2>1, <2>2
<1>5. CASE AnswerStructure(r)
  <2> DEFINE q == [s EXCEPT !.pc = "answered", !.status = 201]
  <2>1. /\ q \in Structure /\ q.pc = "answered" /\ q.story = s.story /\ q.override = s.override
        /\ q.text = s.text /\ q.mode = s.mode /\ q.fills = s.fills
    <3>1. s \in Structure /\ 201 \in Nat
      BY <1>1
    <3> QED
      BY <3>1, ZenonT(40) DEF Structure
  <2>2. structure' = [structure EXCEPT ![r] = q] /\ UNCHANGED lock /\ s.pc = "insert"
    BY <1>5 DEF AnswerStructure
  <2> HIDE DEF q
  <2> QED
    BY <1>1, <1>2, <2>1, <2>2
<1> QED
  BY <1>3, <1>4, <1>5

LEMMA CommitKeeps ==
    ASSUME IInv, NEW r \in Structurings, CommitStructure(r) PROVE IInv'
<1> DEFINE s == structure[r]
           tree == [mode |-> s.mode, chapters |-> BuildOutline(s.mode, Parsed[s.text], s.fills)]
           q == [NewStructure EXCEPT !.pc = "ended", !.status = 201]
<1>1. /\ Built(s) /\ s \in Structure /\ InHand(s) /\ Whole(s)
      /\ s.story \in Uploads /\ stories[s.story] # NoStory /\ lock[s.story] = r
      /\ s.mode \in Modes /\ s.override \in Texts \cup {NoText}
  BY DEF IInv, LockHeld, CommitStructure, InHand, Whole, Built, Structure
<1>2. Built(q) /\ ~InHand(q) /\ ~Whole(q) /\ ~Writes(q)
  BY CreatedIsOK
<1>3. /\ structure' = [structure EXCEPT ![r] = q] /\ lock' = Release(r)
      /\ stories' = [stories EXCEPT ![s.story].text = NewText(s)]
      /\ trees' = [trees EXCEPT ![s.story] = tree]
      /\ UNCHANGED <<files, projects, upload, crashes>>
  BY DEF CommitStructure, EndStructure
<1>4. tree.mode \in Modes
  BY <1>1
<1> HIDE DEF q, tree
<1>5. /\ lock' = [u \in Uploads |-> lock'[u]]
      /\ \A t \in Structurings, u \in Uploads : t # r /\ lock[u] = t => lock'[u] = t
      /\ \A u \in Uploads : lock'[u] \in Structurings \cup {NoLock}
  BY <1>3 DEF Release, IInv, StoryOK
<1>6. /\ stories = [u \in Uploads |-> stories[u]] /\ trees = [u \in Uploads |-> trees[u]]
      /\ \A u \in Uploads : stories[u] # NoStory => stories[u] \in StoryRow
  BY DEF IInv, Functions, StoryOK
<1>7. NewText(s) \in Texts
  BY <1>1, <1>6 DEF NewText, StoryRow
<1>8. \A u \in Uploads : u # s.story => stories'[u] = stories[u] /\ trees'[u] = trees[u]
  BY <1>3, <1>6
<1>9. /\ stories'[s.story] \in StoryRow
      /\ stories'[s.story].project = stories[s.story].project
      /\ trees'[s.story] = tree
  <2>1. stories[s.story] \in StoryRow
    BY <1>1, <1>6
  <2>2. stories'[s.story] = [stories[s.story] EXCEPT !.text = NewText(s)]
    BY <1>1, <1>3, <1>6
  <2>3. trees'[s.story] = tree
    BY <1>1, <1>3, <1>6
  <2> QED
    BY <1>7, <2>1, <2>2, <2>3 DEF StoryRow
<1>10. stories' = [u \in Uploads |-> stories'[u]] /\ trees' = [u \in Uploads |-> trees'[u]]
  BY <1>3, <1>6
<1>11. \A u \in Uploads : lock[u] # r => u # s.story
  BY <1>1
<1>12. \A u \in Uploads :
         /\ stories[u] # NoStory =>
              stories'[u] \in StoryRow /\ stories'[u].project = stories[u].project
         /\ stories[u] = NoStory => stories'[u] = NoStory
         /\ trees'[u] # trees[u] => stories[u] # NoStory /\ trees'[u].mode \in Modes
  BY <1>1, <1>4, <1>6, <1>8, <1>9
<1>13. \A u \in Uploads : lock[u] # r => stories'[u] = stories[u] /\ trees'[u] = trees[u]
  BY <1>8, <1>11
<1> QED
  BY <1>2, <1>3, <1>5, <1>10, <1>12, <1>13, StructureStep, ZenonT(40)

LEMMA CrashKeeps ==
    ASSUME IInv, Crash PROVE IInv'
<1>1. UNCHANGED <<files, projects, stories, trees>> /\ lock' = [u \in Uploads |-> NoLock]
  BY DEF Crash
<1>2. \A u \in Uploads : \/ upload'[u] = upload[u] /\ upload[u].pc \in {"new", "ended"}
                         \/ upload'[u] \in Upload /\ upload'[u].pc = "ended"
  <2>1. NewUpload \in Upload
    BY NewIsOK
  <2>2. [NewUpload EXCEPT !.pc = "ended"] \in Upload /\ [NewUpload EXCEPT !.pc = "ended"].pc = "ended"
    BY <2>1 DEF Upload
  <2> QED
    BY <2>2, SMTT(30) DEF Crash
<1>3. \A r \in Structurings :
        /\ Built(structure'[r]) /\ structure'[r].pc \in {"new", "ended"}
  <2>1. NewStructure \in Structure
    BY NewIsOK DEF Built
  <2> DEFINE q == [NewStructure EXCEPT !.pc = "ended"]
  <2>2. q \in Structure /\ q.pc = "ended"
    BY <2>1 DEF Structure
  <2>3. \A r \in Structurings : structure'[r] = q \/ (structure'[r] = structure[r] /\ structure[r].pc \in {"new", "ended"})
    BY DEF Crash
  <2> HIDE DEF q
  <2> QED
    BY <2>2, <2>3, ZenonT(40) DEF Built, InHand, Whole, IInv
<1>4. Functions'
  BY <1>1, StoriesAssumption DEF Crash, IInv, Functions, StoriesAssumption
<1>5. ASSUME NEW u \in Uploads PROVE UploadOK(u)' /\ StoryOK(u)'
  <2>1. UploadOK(u)'
    BY <1>1, <1>2 DEF IInv, UploadOK
  <2>2. StoryOK(u)'
    BY <1>1 DEF IInv, StoryOK
  <2> QED
    BY <2>1, <2>2
<1>6. ASSUME NEW r \in Structurings PROVE Built(structure[r])' /\ LockHeld(r)'
  <2>1. LockHeld(r)'
    BY <1>3 DEF LockHeld, InHand, Whole, Writes
  <2> QED
    BY <1>3, <2>1 DEF Built
<1> QED
  BY <1>4, <1>5, <1>6 DEF IInv

LEMMA NextIInv == IInv /\ [Next]_vars => IInv'
<1> SUFFICES ASSUME IInv, [Next]_vars PROVE IInv'
  OBVIOUS
<1>1. CASE UNCHANGED vars
  <2>1. UNCHANGED <<files, projects, stories, trees, lock, upload, structure, crashes>>
    BY <1>1 DEF vars
  <2>2. \A u \in Uploads : UploadOK(u)' /\ StoryOK(u)'
    BY <2>1 DEF IInv, UploadOK, StoryOK
  <2>3. \A r \in Structurings : Built(structure[r])' /\ LockHeld(r)'
    BY <2>1 DEF IInv, LockHeld, HasChapters
  <2>4. Functions'
    BY <2>1 DEF IInv, Functions
  <2> QED
    BY <2>2, <2>3, <2>4 DEF IInv
<1>2. ASSUME NEW u \in Uploads,
             \/ RefuseUpload(u) \/ UploadWork(u)
             \/ \E text \in Texts, project \in Uploads \cup OldProjects \cup {NoProject} :
                  ReadUpload(u, text, project)
      PROVE  IInv'
  BY <1>2, UploadsKeep
<1>3. ASSUME NEW r \in Structurings, StructureWork(r) PROVE IInv'
  <2>1. CASE FailStructure(r)
    BY <2>1, EndStep DEF FailStructure
  <2> QED
    BY <1>3, <2>1, ProposeKeeps, LockStoryKeeps, CheckKeeps, CommitKeeps DEF StructureWork
<1>4. ASSUME NEW r \in Structurings, NEW u \in Uploads, NEW mode \in Modes,
             NEW override \in Texts \cup {NoText}, ReadStory(r, u, mode, override)
      PROVE  IInv'
  BY <1>4, ReadStoryKeeps
<1>5. CASE Crash
  BY <1>5, CrashKeeps
<1> QED
  BY <1>1, <1>2, <1>3, <1>4, <1>5 DEF Next

LEMMA AlwaysIInv == Spec => []IInv
<1> QED
  BY InitIInv, NextIInv, PTL DEF Spec

-----------------------------------------------------------------------------
(* What the store never loses *)

\* Who writes a story's row or its tree finds no chapters there.
LEMMA WrittenOnce ==
    ASSUME IInv, [Next]_vars, NEW u \in Uploads, HasChapters(u)
    PROVE  trees'[u] = trees[u] /\ stories'[u] = stories[u]
<1>1. Functions /\ StoryOK(u) /\ UploadOK(u) /\ trees[u] # NoTree
  BY DEF IInv, HasChapters
<1>2. CASE UNCHANGED <<stories, trees>>
  BY <1>2
<1>3. ASSUME NEW w \in Uploads, CommitUpload(w)
      PROVE  trees'[u] = trees[u] /\ stories'[u] = stories[u]
  <2>1. u # w
    <3>1. upload[w].pc = "answered"
      BY <1>3 DEF CommitUpload
    <3> QED
      BY <1>1, <3>1 DEF UploadOK, StoryOK
  <2>2. trees' = trees /\ \E row : stories' = [stories EXCEPT ![w] = row]
    BY <1>3 DEF CommitUpload
  <2> QED
    BY <1>1, <2>1, <2>2 DEF Functions
<1>4. ASSUME NEW r \in Structurings, CommitStructure(r)
      PROVE  trees'[u] = trees[u] /\ stories'[u] = stories[u]
  <2> DEFINE s == structure[r]
  <2>1. Writes(s) /\ LockHeld(r)
    BY <1>4 DEF CommitStructure, Writes, IInv
  <2>2. u # s.story
    BY <2>1 DEF LockHeld
  <2>3. /\ \E tree : trees' = [trees EXCEPT ![s.story] = tree]
        /\ \E row : stories' = [stories EXCEPT ![s.story] = row]
    BY <1>4 DEF CommitStructure
  <2> HIDE DEF s
  <2> QED
    BY <1>1, <2>2, <2>3 DEF Functions
<1>5. ASSUME NEW w \in Uploads,
             \/ RefuseUpload(w) \/ SaveUpload(w) \/ AnswerUpload(w) \/ FailUpload(w)
             \/ \E text \in Texts, project \in Uploads \cup OldProjects \cup {NoProject} :
                  ReadUpload(w, text, project)
      PROVE  UNCHANGED <<stories, trees>>
  BY <1>5 DEF RefuseUpload, SaveUpload, AnswerUpload, FailUpload, ReadUpload
<1>6. ASSUME NEW r \in Structurings,
             \/ Propose(r) \/ LockStory(r) \/ CheckUnderLock(r) \/ AnswerStructure(r)
             \/ FailStructure(r)
             \/ \E w \in Uploads, mode \in Modes, override \in Texts \cup {NoText} :
                  ReadStory(r, w, mode, override)
      PROVE  UNCHANGED <<stories, trees>>
  BY <1>6 DEF Propose, LockStory, CheckUnderLock, AnswerStructure, FailStructure, ReadStory
<1>7. CASE Crash \/ UNCHANGED vars
  BY <1>7 DEF Crash, vars
<1> QED
  BY <1>2, <1>3, <1>4, <1>5, <1>6, <1>7 DEF Next, UploadWork, StructureWork

\* Once a story has chapters, neither they nor the text they were made from are replaced,
\* however many structure requests race for it (the second list_chapters of structure_story,
\* under the row's lock).
THEOREM FinalStructure == Spec => StructureIsFinal
<1>1. IInv /\ [Next]_vars =>
        [\A u \in Uploads : HasChapters(u) => trees'[u] = trees[u] /\ stories'[u] = stories[u]]_vars
  BY WrittenOnce
<1> QED
  BY <1>1, AlwaysIInv, PTL DEF Spec, StructureIsFinal

\* A committed story has its original on disk and its project in the database, whatever
\* failed or was killed in between (upload_story saves the file before it inserts a row).
THEOREM BackedStories == Spec => [](TypeOK /\ StoryIsBacked)
<1>1. IInv => TypeOK /\ StoryIsBacked
  <2> SUFFICES ASSUME IInv PROVE TypeOK /\ StoryIsBacked
    OBVIOUS
  <2>1. ASSUME NEW u \in Uploads
        PROVE  /\ stories[u] = NoStory \/ stories[u] \in StoryRow
               /\ trees[u] = NoTree \/ trees[u].mode \in Modes
               /\ lock[u] \in Structurings \cup {NoLock}
               /\ upload[u] \in Upload
               /\ stories[u] # NoStory => u \in files /\ stories[u].project \in projects
    BY DEF IInv, StoryOK, UploadOK
  <2>2. \A u \in Uploads :
          /\ upload[u].pc \in {"new", "save", "insert", "answered", "ended"}
          /\ upload[u].text \in Texts \cup {NoText}
          /\ upload[u].project \in Uploads \cup OldProjects \cup {NoProject}
    BY <2>1 DEF Upload
  <2>3. \A r \in Structurings :
          /\ structure[r].pc \in {"new", "build", "check", "insert", "answered", "ended"}
          /\ structure[r].story \in Uploads \cup {NoStory}
          /\ structure[r].text \in Texts \cup {NoText}
          /\ structure[r].attempts \in 0..MaxRetries
    BY DEF IInv, Built, Structure
  <2> QED
    BY <2>1, <2>2, <2>3 DEF TypeOK, StoryIsBacked, StoryRow, IInv, Functions
<1> QED
  BY <1>1, AlwaysIInv, PTL

-----------------------------------------------------------------------------
(* The tree and the text that stay *)

\* A stored tree says its text; a request that brings no text of its own has read the one
\* that is still there when nobody has structured the story.
TreeOK(u) ==
    trees[u] # NoTree =>
        /\ trees[u].chapters # <<>>
        /\ TreeKeepsText(trees[u].chapters, stories[u].text, trees[u].mode)
        /\ KeepsAnchors(trees[u].chapters, stories[u].text, trees[u].mode)

TextRead(r) ==
    LET q == structure[r] IN
    InHand(q) /\ q.override = NoText /\ trees[q.story] = NoTree =>
        q.text = stories[q.story].text

WholeInv ==
    /\ \A u \in Uploads : TreeOK(u)
    /\ \A r \in Structurings : TextRead(r)

\* A request in hand stores an outline of the text that it read.
LEMMA StoredOutline ==
    ASSUME ChunkingIsFaithful, NEW s, Built(s), Whole(s)
    PROVE  BuildOutline(s.mode, Parsed[s.text], s.fills) \in OutlinesOf(s.mode, s.text)
<1> DEFINE pieces == Pieces[s.mode, s.text]
           fits(i, p) == Accepted(p, pieces[i]) /\ s.fills[i] = ToOutline(p, pieces[i])
           a == [i \in DOMAIN pieces |-> CHOOSE p \in Proposals : fits(i, p)]
<1>1. /\ s.mode \in Modes /\ s.text \in Texts /\ s.fills \in Seq(Fill)
      /\ Len(s.fills) = Len(pieces)
      /\ \A i \in 1..Len(s.fills) : s.fills[i] \in Fills(s.mode, s.text, i)
  BY DEF Built, Structure, Whole, InHand
<1>2. DOMAIN pieces = 1..Len(s.fills)
  BY <1>1 DEF ChunkingIsFaithful
<1>3. ASSUME NEW i \in DOMAIN pieces PROVE a[i] \in Proposals /\ fits(i, a[i])
  <2>1. s.fills[i] \in Fills(s.mode, s.text, i)
    BY <1>1, <1>2
  <2>2. \E p \in Proposals : fits(i, p)
    BY <2>1 DEF Fills
  <2>3. a[i] = CHOOSE p \in Proposals : fits(i, p)
    OBVIOUS
  <2> HIDE DEF fits, a
  <2> QED
    BY <2>2, <2>3
<1>4. a \in [DOMAIN pieces -> Proposals] /\ \A i \in DOMAIN pieces : Accepted(a[i], pieces[i])
  BY <1>3
<1>5. s.fills = [i \in DOMAIN pieces |-> ToOutline(a[i], pieces[i])]
  <2>1. s.fills = [i \in 1..Len(s.fills) |-> s.fills[i]]
    <3>1. \A f \in Seq(Fill) : f = [i \in 1..Len(f) |-> f[i]]
      OBVIOUS
    <3> QED
      BY <1>1, <3>1
  <2>2. \A i \in DOMAIN pieces : s.fills[i] = ToOutline(a[i], pieces[i])
    BY <1>3
  <2> HIDE DEF a, pieces
  <2> QED
    BY <1>2, <2>1, <2>2
<1> HIDE DEF a
<1> QED
  BY <1>4, <1>5 DEF OutlinesOf

\* A step that writes no story keeps the trees, and what was read.
LEMMA NothingWritten ==
    ASSUME IInv, WholeInv, UNCHANGED <<stories, trees>>,
           \A r \in Structurings :
             \/ ~InHand(structure'[r])
             \/ /\ InHand(structure[r]) /\ structure'[r].story = structure[r].story
                /\ structure'[r].override = structure[r].override
                /\ structure'[r].text = structure[r].text
             \/ /\ structure'[r].story \in Uploads
                /\ structure'[r].override # NoText
                     \/ structure'[r].text = stories[structure'[r].story].text
    PROVE  WholeInv'
<1>1. ASSUME NEW u \in Uploads PROVE TreeOK(u)'
  BY DEF WholeInv, TreeOK
<1>2. ASSUME NEW r \in Structurings PROVE TextRead(r)'
  BY DEF WholeInv, TextRead
<1> QED
  BY <1>1, <1>2 DEF WholeInv

LEMMA CommitStaysWhole ==
    ASSUME ChunkingIsFaithful, IInv, WholeInv, NEW r \in Structurings, CommitStructure(r)
    PROVE  WholeInv'
<1> DEFINE s == structure[r]
           outline == BuildOutline(s.mode, Parsed[s.text], s.fills)
           tree == [mode |-> s.mode, chapters |-> outline]
<1>1. /\ Functions /\ Built(s) /\ LockHeld(r) /\ InHand(s) /\ Whole(s) /\ Writes(s)
      /\ s.story \in Uploads /\ s.text \in Texts /\ s.mode \in Modes
      /\ s.override # NoText => s.text = s.override
  BY DEF IInv, CommitStructure, InHand, Whole, Writes, Built, Structure
<1>2. outline \in OutlinesOf(s.mode, s.text)
  BY <1>1, StoredOutline
<1> HIDE DEF outline
<1>3. /\ outline # <<>> /\ tree # NoTree
      /\ TreeKeepsText(outline, s.text, s.mode) /\ KeepsAnchors(outline, s.text, s.mode)
  BY <1>1, <1>2 DEF ChunkingIsFaithful
<1>4. trees[s.story] = NoTree
  BY <1>1 DEF LockHeld, HasChapters, WholeInv, TreeOK
<1>5. NewText(s) = s.text
  BY <1>1, <1>4 DEF NewText, WholeInv, TextRead
<1>6. stories[s.story] \in StoryRow
  BY <1>1 DEF IInv, StoryOK, LockHeld
<1>7. /\ trees' = [trees EXCEPT ![s.story] = tree]
      /\ stories' = [stories EXCEPT ![s.story].text = s.text]
  BY <1>5 DEF CommitStructure, outline
<1>8. /\ trees'[s.story] = tree /\ stories'[s.story].text = s.text
      /\ \A u \in Uploads : u # s.story => trees'[u] = trees[u] /\ stories'[u] = stories[u]
  BY <1>1, <1>6, <1>7 DEF Functions, StoryRow
<1>9. ASSUME NEW u \in Uploads PROVE TreeOK(u)'
  <2>1. CASE u = s.story
    <3>1. tree.mode = s.mode /\ tree.chapters = outline
      OBVIOUS
    <3> HIDE DEF tree
    <3> QED
      BY <1>3, <1>8, <2>1, <3>1 DEF TreeOK
  <2>2. CASE u # s.story
    BY <1>8, <2>2 DEF TreeOK, WholeInv
  <2> QED
    BY <2>1, <2>2
<1>10. ASSUME NEW t \in Structurings PROVE TextRead(t)'
  <2>1. CASE t = r
    <3> DEFINE q == [NewStructure EXCEPT !.pc = "ended", !.status = 201]
    <3>1. structure'[t] = q
      BY <1>1, <2>1 DEF CommitStructure, EndStructure, Functions
    <3>2. ~InHand(q)
      BY CreatedIsOK
    <3> HIDE DEF q
    <3> QED
      BY <3>1, <3>2 DEF TextRead
  <2>2. CASE t # r
    <3>1. structure'[t] = structure[t]
      BY <1>1, <2>2 DEF CommitStructure, EndStructure, Functions
    <3>2. InHand(structure[t]) => structure[t].story \in Uploads
      BY DEF IInv, Built
    <3> QED
      BY <1>3, <1>8, <3>1, <3>2 DEF TextRead, WholeInv
  <2> QED
    BY <2>1, <2>2
<1> QED
  BY <1>9, <1>10 DEF WholeInv

LEMMA UploadStaysWhole ==
    ASSUME IInv, WholeInv, NEW u \in Uploads, CommitUpload(u)
    PROVE  WholeInv'
<1>1. Functions /\ UploadOK(u) /\ StoryOK(u)
  BY DEF IInv
<1>2. /\ upload[u].pc = "answered" /\ UNCHANGED <<trees, structure>>
      /\ \E row : stories' = [stories EXCEPT ![u] = row]
  BY DEF CommitUpload
<1>3. /\ stories[u] = NoStory /\ trees[u] = NoTree
      /\ \A w \in Uploads : w # u => stories'[w] = stories[w]
  BY <1>1, <1>2 DEF UploadOK, StoryOK, Functions
<1>4. ASSUME NEW w \in Uploads PROVE TreeOK(w)'
  BY <1>2, <1>3 DEF WholeInv, TreeOK
<1>5. ASSUME NEW r \in Structurings PROVE TextRead(r)'
  <2>1. InHand(structure[r]) => structure[r].story \in Uploads /\ structure[r].story # u
    BY <1>3 DEF IInv, Built, LockHeld
  <2> QED
    BY <1>2, <1>3, <2>1 DEF WholeInv, TextRead
<1> QED
  BY <1>4, <1>5 DEF WholeInv

LEMMA NextWhole ==
    ASSUME ChunkingIsFaithful, IInv, WholeInv, [Next]_vars PROVE WholeInv'
<1> DEFINE Same(r) == structure'[r].story = structure[r].story
                      /\ structure'[r].override = structure[r].override
                      /\ structure'[r].text = structure[r].text
<1>1. /\ Functions
      /\ \A r \in Structurings : structure[r] \in Structure
      /\ NewStructure \in Structure /\ 201 \in Nat
  BY NewIsOK, ZenonT(40) DEF IInv, Built
<1>2. CASE UNCHANGED <<stories, trees, structure>>
  <2>1. \A r \in Structurings : structure'[r] = structure[r]
    BY <1>2
  <2> QED
    BY <1>2, <2>1, NothingWritten
<1>3. ASSUME NEW r \in Structurings, NEW q, structure' = [structure EXCEPT ![r] = q],
             UNCHANGED <<stories, trees>>,
             \/ ~InHand(q)
             \/ /\ InHand(structure[r]) /\ q.story = structure[r].story
                /\ q.override = structure[r].override /\ q.text = structure[r].text
             \/ q.story \in Uploads /\ (q.override # NoText \/ q.text = stories[q.story].text)
      PROVE  WholeInv'
  <2>1. structure'[r] = q /\ \A t \in Structurings : t # r => structure'[t] = structure[t]
    BY <1>1, <1>3 DEF Functions
  <2> QED
    BY <1>3, <2>1, NothingWritten
<1>4. ASSUME NEW r \in Structurings, NEW status \in Nat, EndStructure(r, status),
             UNCHANGED <<stories, trees>>
      PROVE  WholeInv'
  <2> DEFINE q == [NewStructure EXCEPT !.pc = "ended", !.status = status]
  <2>1. structure' = [structure EXCEPT ![r] = q] /\ ~InHand(q)
    BY <1>4, NewIsOK DEF EndStructure
  <2> HIDE DEF q
  <2> QED
    BY <1>3, <1>4, <2>1
<1>5. ASSUME NEW w \in Uploads,
             \/ RefuseUpload(w) \/ SaveUpload(w) \/ AnswerUpload(w) \/ FailUpload(w)
             \/ \E text \in Texts, project \in Uploads \cup OldProjects \cup {NoProject} :
                  ReadUpload(w, text, project)
      PROVE  UNCHANGED <<stories, trees, structure>>
  BY <1>5 DEF RefuseUpload, SaveUpload, AnswerUpload, FailUpload, ReadUpload
<1>6. ASSUME NEW r \in Structurings, NEW u \in Uploads, NEW mode \in Modes,
             NEW override \in Texts \cup {NoText}, ReadStory(r, u, mode, override)
      PROVE  WholeInv'
  <2>1. CASE stories[u] = NoStory
    BY <1>4, <1>6, <2>1 DEF ReadStory
  <2>2. CASE stories[u] # NoStory
    <3> DEFINE text == IF override # NoText THEN override ELSE stories[u].text
               q == [NewStructure EXCEPT !.pc = "build", !.story = u, !.mode = mode,
                                         !.override = override, !.text = text]
    <3>1. q.story = u /\ q.override = override /\ q.text = text
      BY DEF NewStructure
    <3>2. structure' = [structure EXCEPT ![r] = q] /\ UNCHANGED <<stories, trees>>
      BY <1>6, <2>2 DEF ReadStory
    <3>3. override # NoText \/ text = stories[u].text
      OBVIOUS
    <3> HIDE DEF q, text
    <3> QED
      BY <1>3, <3>1, <3>2, <3>3
  <2> QED
    BY <2>1, <2>2
<1>7. ASSUME NEW r \in Structurings, Propose(r) PROVE WholeInv'
  <2> DEFINE s == structure[r]
             blocks == Pending(r)[Len(s.fills) + 1]
  <2>1. InHand(s) /\ UNCHANGED <<stories, trees>>
    BY <1>7 DEF Propose, InHand
  <2>2. ASSUME NEW proposal \in Proposals, TakeProposal(r, proposal, blocks) PROVE WholeInv'
    <3>1. CASE Accepted(proposal, blocks)
      <4> DEFINE q == [s EXCEPT !.fills = Append(s.fills, ToOutline(proposal, blocks)),
                                !.attempts = 0]
      <4>1. q.story = s.story /\ q.override = s.override /\ q.text = s.text
        BY <1>1 DEF Structure
      <4>2. structure' = [structure EXCEPT ![r] = q]
        BY <2>2, <3>1 DEF TakeProposal
      <4> HIDE DEF q
      <4> QED
        BY <1>3, <2>1, <4>1, <4>2
    <3>2. CASE ~Accepted(proposal, blocks) /\ s.attempts = MaxRetries
      BY <1>4, <2>1, <2>2, <3>2 DEF TakeProposal
    <3>3. CASE ~Accepted(proposal, blocks) /\ s.attempts # MaxRetries
      <4> DEFINE q == [s EXCEPT !.attempts = s.attempts + 1]
      <4>1. q.story = s.story /\ q.override = s.override /\ q.text = s.text
        BY <1>1 DEF Structure
      <4>2. structure' = [structure EXCEPT ![r] = q]
        BY <2>2, <3>3 DEF TakeProposal
      <4> HIDE DEF q
      <4> QED
        BY <1>3, <2>1, <4>1, <4>2
    <3> QED
      BY <3>1, <3>2, <3>3
  <2>3. ASSUME NEW status \in {422, 500, 502}, EndStructure(r, status) PROVE WholeInv'
    BY <1>4, <2>1, <2>3
  <2> QED
    BY <1>7, <2>2, <2>3 DEF Propose
<1>8. ASSUME NEW r \in Structurings, NEW pc, NEW status,
             structure' = [structure EXCEPT ![r] = [structure[r] EXCEPT !.pc = pc, !.status = status]],
             InHand(structure[r]), UNCHANGED <<stories, trees>>
      PROVE  WholeInv'
  <2> DEFINE q == [structure[r] EXCEPT !.pc = pc, !.status = status]
  <2>1. /\ q.story = structure[r].story /\ q.override = structure[r].override
        /\ q.text = structure[r].text
    BY <1>1 DEF Structure
  <2>2. structure' = [structure EXCEPT ![r] = q]
    BY <1>8
  <2> HIDE DEF q
  <2> QED
    BY <1>3, <1>8, <2>1, <2>2
<1>9. ASSUME NEW r \in Structurings, NEW pc, InHand(structure[r]), UNCHANGED <<stories, trees>>,
             structure' = [structure EXCEPT ![r].pc = pc]
      PROVE  WholeInv'
  <2> DEFINE q == [structure[r] EXCEPT !.pc = pc]
  <2>1. /\ q.story = structure[r].story /\ q.override = structure[r].override
        /\ q.text = structure[r].text
    BY <1>1 DEF Structure
  <2>2. structure' = [structure EXCEPT ![r] = q]
    BY <1>9
  <2> HIDE DEF q
  <2> QED
    BY <1>3, <1>9, <2>1, <2>2
<1>10. ASSUME NEW r \in Structurings,
              \/ LockStory(r) \/ CheckUnderLock(r) \/ AnswerStructure(r) \/ FailStructure(r)
       PROVE  WholeInv'
  <2>1. InHand(structure[r]) /\ UNCHANGED <<stories, trees>>
    BY <1>10 DEF LockStory, CheckUnderLock, AnswerStructure, FailStructure, InHand
  <2>2. CASE LockStory(r)
    BY <1>9, <2>1, <2>2 DEF LockStory
  <2>3. CASE CheckUnderLock(r) /\ HasChapters(structure[r].story)
    BY <1>4, <2>1, <2>3 DEF CheckUnderLock
  <2>4. CASE CheckUnderLock(r) /\ ~HasChapters(structure[r].story)
    BY <1>9, <2>1, <2>4 DEF CheckUnderLock
  <2>5. CASE AnswerStructure(r)
    BY <1>8, <2>1, <2>5, ZenonT(40) DEF AnswerStructure
  <2>6. CASE FailStructure(r)
    BY <1>4, <2>1, <2>6 DEF FailStructure
  <2> QED
    BY <1>10, <2>2, <2>3, <2>4, <2>5, <2>6
<1>11. CASE Crash
  <2> DEFINE q == [NewStructure EXCEPT !.pc = "ended"]
  <2>1. \A r \in Structurings :
          structure'[r] = q \/ (structure'[r] = structure[r] /\ ~InHand(structure[r]))
    BY <1>11 DEF Crash, InHand
  <2>2. ~InHand(q)
    BY <1>1 DEF InHand, Structure
  <2> HIDE DEF q
  <2>3. UNCHANGED <<stories, trees>> /\ \A r \in Structurings : ~InHand(structure'[r])
    BY <1>11, <2>1, <2>2 DEF Crash
  <2> QED
    BY <2>3, NothingWritten
<1>12. CASE UNCHANGED vars
  BY <1>2, <1>12 DEF vars
<1> QED
  BY <1>2, <1>5, <1>6, <1>7, <1>10, <1>11, <1>12, CommitStaysWhole, UploadStaysWhole, SMTT(30)
     DEF Next, UploadWork, StructureWork

\* A committed story has its original, its project and a tree that says the text it is
\* stored with, whichever of the racing structure requests wrote it and whether or not it
\* brought a text of its own (update_story_raw_text and the inserts of structure_story, in
\* one transaction).  What the chunking functions make of one text is the hypothesis; what
\* the requests, the lock and the commits make of it is proved.
THEOREM StoriesAreWhole == ASSUME ChunkingIsFaithful PROVE Spec => []StoryIsWhole
<1>1. Init => WholeInv
  <2>1. ~InHand(NewStructure)
    BY NewIsOK
  <2> QED
    BY <2>1 DEF Init, WholeInv, TreeOK, TextRead
<1>2. IInv /\ WholeInv /\ [Next]_vars => WholeInv'
  BY NextWhole
<1>3. IInv /\ WholeInv => TreeKeepsStoredText /\ ChapterAnchorsKept
  BY DEF IInv, StoryOK, WholeInv, TreeOK, TreeKeepsStoredText, ChapterAnchorsKept
<1> QED
  BY <1>1, <1>2, <1>3, AlwaysIInv, BackedStories, PTL DEF Spec, StoryIsWhole
=============================================================================
