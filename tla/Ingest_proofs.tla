---------------------------- MODULE Ingest_proofs ----------------------------
(***************************************************************************)
(* Proofs about Ingest for any number of paragraphs, concurrent runs,      *)
(* names, retries and POSTs.  The inductive invariant IInv says what a run *)
(* in flight holds (RunOK), that no two POSTs share rows (PostsApart), and *)
(* the two properties themselves.                                          *)
(***************************************************************************)
EXTENDS Ingest, TLAPS

IsFirst(p, todo) == p \in todo /\ \A q \in todo : p <= q

NamesIn(batch) == {c.name : c \in batch}

(* The locals of a run are consistent with each other: the batch and the   *)
(* names still to match make up one reading of the paragraph in hand.      *)
RunOK(q) ==
  /\ q \in Run
  /\ q.pc # "idle" => q.post \in 1..MaxPosts /\ q.answer = "none"
  /\ q.pc = "start" => q.todo = Paragraph
  /\ q.pc \in {"cascade", "judge", "persist"} =>
       /\ \A p \in Paragraph : IsFirst(p, q.todo) =>
            /\ q.reading \in Readings[p]
            /\ \A c \in q.batch : c.post = q.post /\ c.para = p
       /\ NamesIn(q.batch) \cup q.left = q.reading.entities
  /\ q.pc = "persist" => q.left = {}
  /\ q.pc = "judge" => q.judged \in q.left /\ q.against \in Names

RunsOK == run \in [Runs -> Run] /\ \A r \in Runs : RunOK(run[r])

StoresOK ==
  /\ marker \subseteq Paragraph
  /\ rows \subseteq Candidate
  /\ relations \subseteq Paragraph \X Triples
  /\ graph \subseteq Names
  /\ posts \in 0..MaxPosts
  /\ rematch \subseteq graph

PostsApart ==
  /\ \A r \in Runs : run[r].post <= posts
  /\ \A r, s \in Runs : r # s /\ run[r].post # 0 => run[r].post # run[s].post
  /\ \A c \in rows : c.post <= posts
  /\ \A r \in Runs, c \in rows : c.post = run[r].post => c.para \notin run[r].todo

IInv == StoresOK /\ RunsOK /\ PostsApart /\ ProgressIsReal /\ StagedWhole

(* An answered request keeps its POST number and what was left to do.      *)
LEMMA AnsweredOK ==
  ASSUME NEW k \in 0..MaxPosts, NEW how \in {"none", "finished", "paused", "failed"},
         NEW t \in SUBSET Paragraph
  PROVE  /\ RunOK(Answered(k, how, t))
         /\ Answered(k, how, t).post = k
         /\ Answered(k, how, t).answer = how
         /\ Answered(k, how, t).todo = t
<1> DEFINE q == Answered(k, how, t)
<1>1. /\ q.pc = "idle" /\ q.post = k /\ q.answer = how /\ q.todo = t
      /\ q.snapshot = {} /\ q.tries = 0
      /\ q.reading = [entities |-> {}, relations |-> {}]
      /\ q.left = {} /\ q.judged = NoName /\ q.against = NoName /\ q.batch = {}
  BY DEF Idle, Answered
<1>2. Idle \in Run
  BY ConstantsAssumption DEF Idle, Run, Pc, Reading
<1>4. q \in Run
  BY <1>2 DEF Run, Answered
<1> QED
  BY <1>1, <1>4 DEF RunOK

(* A step of one run that leaves the stores alone.                         *)
LEMMA LocalStep ==
  ASSUME IInv, NEW r \in Runs, NEW q, RunOK(q),
         run' = [run EXCEPT ![r] = q],
         UNCHANGED <<stores, graph, posts, rematch>>,
         q.post = run[r].post, q.todo \subseteq run[r].todo,
         q.post > 0 => Paragraph \ q.todo \subseteq marker,
         q.answer = "finished" => marker = Paragraph
  PROVE  IInv'
<1>1. StoresOK'
  BY DEF IInv, StoresOK, stores
<1>2. q \in Run
  BY DEF RunOK
<1>3. /\ run' \in [Runs -> Run]
      /\ run'[r] = q
      /\ \A s \in Runs : s # r => run'[s] = run[s]
  BY <1>2 DEF IInv, RunsOK
<1>4. RunsOK'
  <2>1. \A s \in Runs : RunOK(run'[s])
    BY <1>3 DEF IInv, RunsOK
  <2> QED
    BY <1>3, <2>1 DEF RunsOK, RunOK, IsFirst, NamesIn
<1>5. PostsApart'
  BY <1>3 DEF IInv, PostsApart, stores
<1>6. ProgressIsReal'
  <2>1. \A p \in marker', x \in Paragraph : x <= p => x \in marker'
    BY DEF IInv, ProgressIsReal, stores
  <2>2. ASSUME NEW s \in Runs, run'[s].post > 0
        PROVE  /\ Paragraph \ run'[s].todo \subseteq marker'
               /\ run'[s].answer = "finished" => marker' = Paragraph
    <3>1. CASE s = r
      BY <2>2, <3>1, <1>3 DEF stores
    <3>2. CASE s # r
      BY <2>2, <3>2, <1>3 DEF IInv, ProgressIsReal, stores
    <3> QED
      BY <3>1, <3>2
  <2> QED
    BY <2>1, <2>2 DEF ProgressIsReal
<1>7. StagedWhole'
  BY DEF IInv, StagedWhole, StagedNames, stores
<1> QED
  BY <1>1, <1>4, <1>5, <1>6, <1>7 DEF IInv

(* The first paragraph still to do is unique.                              *)
LEMMA FirstUnique ==
  ASSUME NEW todo \in SUBSET Paragraph, NEW p \in Paragraph, NEW x \in Paragraph,
         IsFirst(p, todo), IsFirst(x, todo)
  PROVE  p = x
  BY ConstantsAssumption DEF IsFirst, Paragraph

LEMMA IdleOK == RunOK(Idle) /\ Idle.pc = "idle" /\ Idle.post = 0 /\ Idle.todo = {}
<1>1. Idle \in Run
  BY ConstantsAssumption DEF Idle, Run, Pc, Reading
<1>2. Idle.pc = "idle" /\ Idle.post = 0 /\ Idle.todo = {}
  BY DEF Idle
<1> QED
  BY <1>1, <1>2 DEF RunOK

LEMMA InitIInv == Init => IInv
<1> SUFFICES ASSUME Init PROVE IInv
  OBVIOUS
<1>2. \A r \in Runs : run[r] = Idle
  BY DEF Init
<1>3. RunsOK
  BY IdleOK, <1>2 DEF Init, RunsOK, RunOK
<1>4. StoresOK
  BY ConstantsAssumption DEF Init, StoresOK
<1>5. PostsApart /\ ProgressIsReal
  BY IdleOK, <1>2 DEF Init, PostsApart, ProgressIsReal
<1>6. StagedWhole
  BY DEF Init, StagedWhole, StagedNames
<1> QED
  BY <1>3, <1>4, <1>5, <1>6 DEF IInv

-----------------------------------------------------------------------------
(* The steps of a run that stay in memory. *)

LEMMA AnswerStep ==
  ASSUME IInv, NEW r \in Runs, run[r].pc # "idle",
         NEW how \in {"paused", "failed"}, Answer(r, how),
         UNCHANGED <<stores, graph, posts, rematch>>
  PROVE  IInv'
<1> DEFINE q == Answered(run[r].post, how, run[r].todo)
<1>1. run[r] \in Run
  BY DEF IInv, RunsOK
<1>2. run[r].post \in 0..MaxPosts /\ run[r].todo \in SUBSET Paragraph
  BY <1>1 DEF Run
<1>3. RunOK(q) /\ q.post = run[r].post /\ q.answer = how /\ q.todo = run[r].todo
  BY <1>2, AnsweredOK
<1>4. run' = [run EXCEPT ![r] = q]
  BY DEF Answer
<1> HIDE DEF q
<1>5. q.post > 0 => Paragraph \ q.todo \subseteq marker
  BY <1>3 DEF IInv, ProgressIsReal
<1> QED
  BY <1>3, <1>4, <1>5, LocalStep

LEMMA StageStep ==
  ASSUME IInv, NEW r \in Runs, run[r].pc \in {"cascade", "judge"},
         NEW name \in run[r].left, NEW proposal \in {"new", "merge"},
         NEW target \in Names \cup {NoName},
         StageRow(r, name, proposal, target),
         UNCHANGED <<stores, graph, posts, rematch>>
  PROVE  IInv'
<1>1. RunOK(run[r]) /\ run[r] \in Run /\ run[r].left \subseteq Names
  BY DEF IInv, RunsOK, RunOK, Run
<1>2. PICK p \in Paragraph :
        /\ IsFirst(p, run[r].todo)
        /\ run' = [run EXCEPT ![r] = [run[r] EXCEPT
                    !.pc = "cascade", !.left = @ \ {name},
                    !.judged = NoName, !.against = NoName,
                    !.batch = @ \cup {Staged(r, p, name, proposal, target)}]]
  BY DEF StageRow, IsCurrent, IsFirst
<1> DEFINE c == Staged(r, p, name, proposal, target)
<1> DEFINE q == [run[r] EXCEPT !.pc = "cascade", !.left = @ \ {name},
                               !.judged = NoName, !.against = NoName,
                               !.batch = @ \cup {c}]
<1>3. c \in Candidate /\ c.post = run[r].post /\ c.para = p /\ c.name = name
  BY <1>1 DEF Staged, Candidate, RunOK
<1> HIDE DEF c
<1>4. /\ q \in Run /\ q.pc = "cascade" /\ q.left = run[r].left \ {name}
      /\ q.batch = run[r].batch \cup {c} /\ q.post = run[r].post
      /\ q.todo = run[r].todo /\ q.reading = run[r].reading
      /\ q.answer = run[r].answer
  BY <1>1, <1>3 DEF Run, Pc
<1>5. run' = [run EXCEPT ![r] = q]
  BY <1>2 DEF c
<1> HIDE DEF q
<1>6. NamesIn(q.batch) \cup q.left = q.reading.entities
  <2>1. NamesIn(q.batch) = NamesIn(run[r].batch) \cup {name}
    BY <1>3, <1>4 DEF NamesIn
  <2> QED
    BY <2>1, <1>1, <1>4 DEF RunOK
<1>7. \A x \in Paragraph : IsFirst(x, q.todo) =>
        /\ q.reading \in Readings[x]
        /\ \A d \in q.batch : d.post = q.post /\ d.para = x
  <2> SUFFICES ASSUME NEW x \in Paragraph, IsFirst(x, q.todo)
               PROVE  /\ q.reading \in Readings[x]
                      /\ \A d \in q.batch : d.post = q.post /\ d.para = x
    OBVIOUS
  <2>1. x = p
    BY <1>1, <1>2, <1>4, FirstUnique DEF Run
  <2> QED
    BY <2>1, <1>1, <1>3, <1>4 DEF RunOK
<1>8. RunOK(q)
  BY <1>1, <1>4, <1>6, <1>7 DEF RunOK
<1>9. q.answer = "none"
  BY <1>1, <1>4 DEF RunOK
<1>10. q.post > 0 => Paragraph \ q.todo \subseteq marker
  BY <1>4 DEF IInv, ProgressIsReal
<1> QED
  BY <1>4, <1>5, <1>8, <1>9, <1>10, LocalStep

(* The steps that only move the program counter or fill other locals.      *)
LEMMA MoveStep ==
  ASSUME IInv, NEW r \in Runs, run[r].pc # "idle",
         NEW q, RunOK(q), q.pc # "idle",
         q.post = run[r].post, q.todo = run[r].todo,
         run' = [run EXCEPT ![r] = q],
         UNCHANGED <<stores, graph, posts, rematch>>
  PROVE  IInv'
<1>1. q.answer = "none"
  BY DEF RunOK
<1>2. q.post > 0 => Paragraph \ q.todo \subseteq marker
  BY DEF IInv, ProgressIsReal
<1> QED
  BY <1>1, <1>2, LocalStep

LEMMA ReadMarkersStep ==
  ASSUME IInv, NEW r \in Runs, ReadMarkers(r) PROVE IInv'
<1>1. RunOK(run[r]) /\ run[r] \in Run /\ run[r].pc = "start" /\ run[r].todo = Paragraph
  BY DEF IInv, RunsOK, RunOK, ReadMarkers
<1>2. run[r].post \in 0..MaxPosts /\ run[r].answer = "none"
  BY <1>1 DEF RunOK, Run
<1>3. marker \subseteq Paragraph
  BY DEF IInv, StoresOK
<1>4. UNCHANGED <<stores, graph, posts, rematch>>
  BY DEF ReadMarkers
<1>5. CASE Paragraph \ marker = {}
  <2> DEFINE q == Answered(run[r].post, "finished", {})
  <2>2. RunOK(q) /\ q.post = run[r].post /\ q.todo = {} /\ q.answer = "finished"
    BY <1>2, AnsweredOK
  <2>3. run' = [run EXCEPT ![r] = q]
    BY <1>5 DEF ReadMarkers
  <2> HIDE DEF q
  <2>4. marker = Paragraph
    BY <1>3, <1>5
  <2>5. q.todo \subseteq run[r].todo /\ Paragraph \ q.todo \subseteq marker
    BY <2>2, <2>4
  <2> QED
    BY <1>4, <2>2, <2>3, <2>4, <2>5, LocalStep
<1>6. CASE Paragraph \ marker # {}
  <2> DEFINE q == [run[r] EXCEPT !.pc = "load", !.todo = Paragraph \ marker]
  <2>1. /\ q \in Run /\ q.pc = "load" /\ q.todo = Paragraph \ marker
        /\ q.post = run[r].post /\ q.answer = run[r].answer
    BY <1>1 DEF Run, Pc
  <2>2. run' = [run EXCEPT ![r] = q]
    BY <1>6 DEF ReadMarkers
  <2> HIDE DEF q
  <2>3. RunOK(q)
    BY <1>1, <1>2, <2>1 DEF RunOK
  <2> QED
    BY <1>1, <1>2, <1>3, <1>4, <2>1, <2>2, <2>3, LocalStep
<1> QED
  BY <1>5, <1>6

LEMMA LoadAcceptedStep ==
  ASSUME IInv, NEW r \in Runs, LoadAccepted(r) PROVE IInv'
<1> DEFINE q == [run[r] EXCEPT !.pc = "extract", !.snapshot = graph]
<1>1. RunOK(run[r]) /\ run[r] \in Run /\ run[r].pc = "load" /\ graph \subseteq Names
  BY DEF IInv, RunsOK, RunOK, LoadAccepted, StoresOK
<1>2. /\ q \in Run /\ q.pc = "extract" /\ q.post = run[r].post
      /\ q.todo = run[r].todo /\ q.answer = run[r].answer
  BY <1>1 DEF Run, Pc
<1>3. run' = [run EXCEPT ![r] = q] /\ UNCHANGED <<stores, graph, posts, rematch>>
  BY DEF LoadAccepted
<1> HIDE DEF q
<1>4. RunOK(q)
  BY <1>1, <1>2 DEF RunOK
<1> QED
  BY <1>1, <1>2, <1>3, <1>4, MoveStep

LEMMA ExtractStep ==
  ASSUME IInv, NEW r \in Runs, Extract(r) PROVE IInv'
<1>1. RunOK(run[r]) /\ run[r] \in Run /\ run[r].pc = "extract"
  BY DEF IInv, RunsOK, RunOK, Extract
<1>2. PICK p \in Paragraph :
        \E reading \in Readings[p] :
          /\ IsFirst(p, run[r].todo)
          /\ run' = [run EXCEPT ![r] = [run[r] EXCEPT
                      !.pc = "cascade", !.tries = 0, !.reading = reading,
                      !.left = reading.entities, !.batch = {}]]
  BY DEF Extract, IsCurrent, IsFirst
<1>3. PICK reading \in Readings[p] :
          /\ IsFirst(p, run[r].todo)
          /\ run' = [run EXCEPT ![r] = [run[r] EXCEPT
                      !.pc = "cascade", !.tries = 0, !.reading = reading,
                      !.left = reading.entities, !.batch = {}]]
  BY <1>2
<1> DEFINE q == [run[r] EXCEPT !.pc = "cascade", !.tries = 0, !.reading = reading,
                               !.left = reading.entities, !.batch = {}]
<1>4. reading \in Reading /\ reading.entities \subseteq Names
  BY ConstantsAssumption DEF Reading
<1>5. /\ q \in Run /\ q.pc = "cascade" /\ q.reading = reading
      /\ q.left = reading.entities /\ q.batch = {} /\ q.post = run[r].post
      /\ q.todo = run[r].todo /\ q.answer = run[r].answer
  <2>1. 0 \in 0..MaxRetries /\ {} \in SUBSET Candidate /\ "cascade" \in Pc
    BY ConstantsAssumption DEF Pc
  <2>2. q \in Run
    BY <1>1, <1>4, <2>1 DEF Run
  <2>3. DOMAIN run[r] = {"pc", "post", "answer", "todo", "snapshot", "tries",
                         "reading", "left", "judged", "against", "batch"}
    BY <1>1 DEF Run
  <2> QED
    BY <2>2, <2>3
<1>6. run' = [run EXCEPT ![r] = q] /\ UNCHANGED <<stores, graph, posts, rematch>>
  BY <1>3 DEF Extract
<1> HIDE DEF q
<1>7. \A x \in Paragraph : IsFirst(x, q.todo) => x = p
  BY <1>1, <1>3, <1>5, FirstUnique DEF Run
<1>8. RunOK(q)
  BY <1>1, <1>5, <1>7 DEF RunOK, NamesIn
<1> QED
  BY <1>1, <1>5, <1>6, <1>8, MoveStep

LEMMA ExtractMalformedStep ==
  ASSUME IInv, NEW r \in Runs, ExtractMalformed(r) PROVE IInv'
<1>1. RunOK(run[r]) /\ run[r] \in Run /\ run[r].pc = "extract"
  BY DEF IInv, RunsOK, RunOK, ExtractMalformed
<1>2. UNCHANGED <<stores, graph, posts, rematch>>
  BY DEF ExtractMalformed
<1>3. CASE run[r].tries < MaxRetries
  <2> DEFINE q == [run[r] EXCEPT !.tries = @ + 1]
  <2>0. run[r].tries \in 0..MaxRetries
    BY <1>1 DEF Run
  <2>1. run[r].tries + 1 \in 0..MaxRetries
    BY <1>3, <2>0, ConstantsAssumption
  <2>2. /\ q \in Run /\ q.pc = "extract" /\ q.post = run[r].post
        /\ q.todo = run[r].todo /\ q.answer = run[r].answer
    BY <1>1, <2>1 DEF Run
  <2>3. run' = [run EXCEPT ![r] = q]
    BY <1>3 DEF ExtractMalformed
  <2> HIDE DEF q
  <2>4. RunOK(q)
    BY <1>1, <2>2 DEF RunOK
  <2> QED
    BY <1>1, <1>2, <2>2, <2>3, <2>4, MoveStep
<1>4. CASE ~(run[r].tries < MaxRetries)
  <2>1. Answer(r, "failed")
    BY <1>4 DEF ExtractMalformed
  <2> QED
    BY <1>1, <1>2, <2>1, AnswerStep
<1> QED
  BY <1>3, <1>4

LEMMA AskJudgeStep ==
  ASSUME IInv, NEW r \in Runs, AskJudge(r) PROVE IInv'
<1>1. /\ RunOK(run[r]) /\ run[r] \in Run /\ run[r].pc = "cascade"
      /\ run[r].left \subseteq Names /\ run[r].snapshot \subseteq Names
  BY DEF IInv, RunsOK, RunOK, AskJudge, Run
<1>2. PICK name \in run[r].left, e \in run[r].snapshot :
        run' = [run EXCEPT ![r] = [run[r] EXCEPT
                 !.pc = "judge", !.judged = name, !.against = e]]
  BY DEF AskJudge
<1> DEFINE q == [run[r] EXCEPT !.pc = "judge", !.judged = name, !.against = e]
<1>3. /\ q \in Run /\ q.pc = "judge" /\ q.judged = name /\ q.against = e
      /\ q.post = run[r].post /\ q.todo = run[r].todo
      /\ q.answer = run[r].answer /\ q.reading = run[r].reading
      /\ q.left = run[r].left /\ q.batch = run[r].batch
  BY <1>1 DEF Run, Pc
<1>4. run' = [run EXCEPT ![r] = q] /\ UNCHANGED <<stores, graph, posts, rematch>>
  BY <1>2 DEF AskJudge
<1> HIDE DEF q
<1>5. RunOK(q)
  BY <1>1, <1>3 DEF RunOK
<1> QED
  BY <1>1, <1>3, <1>4, <1>5, MoveStep

LEMMA CascadeDoneStep ==
  ASSUME IInv, NEW r \in Runs, CascadeDone(r) PROVE IInv'
<1> DEFINE q == [run[r] EXCEPT !.pc = "persist"]
<1>1. /\ RunOK(run[r]) /\ run[r] \in Run /\ run[r].pc = "cascade" /\ run[r].left = {}
  BY DEF IInv, RunsOK, RunOK, CascadeDone
<1>2. /\ q \in Run /\ q.pc = "persist"
      /\ q.post = run[r].post /\ q.todo = run[r].todo
      /\ q.answer = run[r].answer /\ q.reading = run[r].reading
      /\ q.left = run[r].left /\ q.batch = run[r].batch
  BY <1>1 DEF Run, Pc
<1>3. run' = [run EXCEPT ![r] = q] /\ UNCHANGED <<stores, graph, posts, rematch>>
  BY DEF CascadeDone
<1> HIDE DEF q
<1>4. RunOK(q)
  BY <1>1, <1>2 DEF RunOK
<1> QED
  BY <1>1, <1>2, <1>3, <1>4, MoveStep

(* The three ways a name leaves the cascade without the judge, and the two *)
(* ways it leaves the judge.                                               *)
LEMMA CascadeStep ==
  ASSUME IInv, NEW r \in Runs,
         \/ MatchStrong(r) \/ MatchNone(r) \/ MatchVector(r)
         \/ JudgeConfident(r) \/ JudgeUnsure(r)
  PROVE  IInv'
<1>1. RunOK(run[r]) /\ run[r].snapshot \subseteq Names
  BY DEF IInv, RunsOK, RunOK, Run
<1>2. CASE MatchStrong(r)
  BY <1>1, <1>2, StageStep DEF MatchStrong, InBand
<1>3. CASE MatchNone(r)
  BY <1>3, StageStep DEF MatchNone
<1>4. CASE MatchVector(r)
  BY <1>1, <1>4, StageStep DEF MatchVector
<1>5. CASE JudgeConfident(r)
  BY <1>1, <1>5, StageStep DEF JudgeConfident, RunOK
<1>6. CASE JudgeUnsure(r)
  BY <1>1, <1>6, StageStep DEF JudgeUnsure, RunOK
<1> QED
  BY <1>2, <1>3, <1>4, <1>5, <1>6

-----------------------------------------------------------------------------
(* The steps that write a store. *)

(* The reviewer changes the proposal or the status of rows, never whose    *)
(* they are.                                                               *)
LEMMA RowsKept ==
  ASSUME IInv, UNCHANGED <<marker, relations, run, posts>>,
         rows' \subseteq Candidate, graph' \subseteq Names, rematch' \subseteq graph',
         \A c \in rows' : \E d \in rows :
           c.post = d.post /\ c.para = d.para /\ c.name = d.name,
         \A d \in rows : \E c \in rows' :
           c.post = d.post /\ c.para = d.para /\ c.name = d.name
  PROVE  IInv'
<1>1. StoresOK' /\ RunsOK' /\ ProgressIsReal'
  BY DEF IInv, StoresOK, RunsOK, RunOK, IsFirst, NamesIn, ProgressIsReal
<1>2. PostsApart'
  BY DEF IInv, PostsApart
<1>3. \A k \in 1..MaxPosts, p \in Paragraph : StagedNames(k, p)' = StagedNames(k, p)
  BY DEF StagedNames
<1>4. StagedWhole'
  BY <1>3 DEF IInv, StagedWhole
<1> QED
  BY <1>1, <1>2, <1>4 DEF IInv

LEMMA AcceptStep ==
  ASSUME IInv, NEW c \in rows, Accept(c) PROVE IInv'
<1> DEFINE d == [c EXCEPT !.status = "decided"]
<1>1. c \in Candidate /\ rows \subseteq Candidate /\ rematch \subseteq graph /\ graph \subseteq Names
  BY DEF IInv, StoresOK
<1>2. d \in Candidate /\ d.post = c.post /\ d.para = c.para /\ d.name = c.name
  BY <1>1 DEF Candidate
<1>3. rows' = (rows \ {c}) \cup {d}
  BY DEF Accept
<1> HIDE DEF d
<1>4. c.name \in Names
  BY <1>1 DEF Candidate
<1>5. rows' \subseteq Candidate /\ graph' \subseteq Names /\ rematch' \subseteq graph'
  BY <1>1, <1>2, <1>3, <1>4 DEF Accept
<1>6. \A x \in rows' : \E y \in rows :
        x.post = y.post /\ x.para = y.para /\ x.name = y.name
  BY <1>2, <1>3
<1>7. \A y \in rows : \E x \in rows' :
        x.post = y.post /\ x.para = y.para /\ x.name = y.name
  BY <1>2, <1>3
<1>8. UNCHANGED <<marker, relations, run, posts>>
  BY DEF Accept
<1> QED
  BY <1>5, <1>6, <1>7, <1>8, RowsKept

LEMMA RematchedStep ==
  ASSUME IInv, NEW e \in rematch, Rematched(e) PROVE IInv'
<1> DEFINE flips == {c \in rows : /\ c.status = "pending"
                                  /\ c.proposal = "new"
                                  /\ Likeness[c.name][e] = "strong"}
           Flip(c) == [c EXCEPT !.proposal = "merge", !.target = e]
<1>1. rows \subseteq Candidate /\ rematch \subseteq graph /\ graph \subseteq Names
  BY DEF IInv, StoresOK
<1>2. \A c \in Candidate :
        /\ Flip(c) \in Candidate
        /\ Flip(c).post = c.post /\ Flip(c).para = c.para /\ Flip(c).name = c.name
  BY <1>1 DEF Candidate
<1>3. rows' = (rows \ flips) \cup {Flip(c) : c \in flips}
  BY DEF Rematched
<1>4. flips \subseteq rows
  OBVIOUS
<1> HIDE DEF flips, Flip
<1>5. rows' \subseteq Candidate
  BY <1>1, <1>2, <1>3, <1>4
<1>6. \A x \in rows' : \E y \in rows :
        x.post = y.post /\ x.para = y.para /\ x.name = y.name
  BY <1>1, <1>2, <1>3, <1>4
<1>7. \A y \in rows : \E x \in rows' :
        x.post = y.post /\ x.para = y.para /\ x.name = y.name
  BY <1>1, <1>2, <1>3, <1>4
<1>8. /\ UNCHANGED <<marker, relations, run, posts>>
      /\ graph' \subseteq Names /\ rematch' \subseteq graph'
  BY <1>1 DEF Rematched
<1> QED
  BY <1>5, <1>6, <1>7, <1>8, RowsKept

(* A new POST gets a number no row and no other request carries.           *)
LEMMA PostStep ==
  ASSUME IInv, NEW r \in Runs, Post(r) PROVE IInv'
<1> DEFINE q == [Idle EXCEPT !.pc = "start", !.post = posts + 1, !.todo = Paragraph]
<1>1. posts \in 0..MaxPosts /\ posts < MaxPosts /\ posts' = posts + 1 /\ MaxPosts \in Nat
  BY ConstantsAssumption DEF IInv, StoresOK, Post
<1>2. posts + 1 \in 1..MaxPosts /\ posts' \in 0..MaxPosts
  BY <1>1
<1>3. Idle \in Run /\ Idle.answer = "none"
  BY IdleOK DEF RunOK, Idle
<1>4. /\ q \in Run /\ q.pc = "start" /\ q.post = posts + 1
      /\ q.todo = Paragraph /\ q.answer = "none"
  <2>1. posts + 1 \in 0..MaxPosts /\ "start" \in Pc
    BY <1>1 DEF Pc
  <2>2. q \in Run
    BY <1>3, <2>1 DEF Run
  <2>3. DOMAIN Idle = {"pc", "post", "answer", "todo", "snapshot", "tries",
                       "reading", "left", "judged", "against", "batch"}
    BY DEF Idle
  <2>4. q.pc = "start" /\ q.post = posts + 1 /\ q.todo = Paragraph /\ q.answer = Idle.answer
    BY <2>3
  <2> QED
    BY <1>3, <2>2, <2>4
<1>5. run' = [run EXCEPT ![r] = q]
  BY DEF Post
<1> HIDE DEF q
<1>6. RunOK(q)
  BY <1>2, <1>4 DEF RunOK
<1>7. /\ run' \in [Runs -> Run] /\ run'[r] = q
      /\ \A s \in Runs : s # r => run'[s] = run[s]
  BY <1>4, <1>5 DEF IInv, RunsOK
<1>8. UNCHANGED <<marker, rows, relations, graph, rematch>>
  BY DEF Post, stores
<1>9. StoresOK'
  BY <1>2, <1>8 DEF IInv, StoresOK
<1>10. RunsOK'
  BY <1>6, <1>7 DEF IInv, RunsOK
<1>11. PostsApart'
  <2>1. \A s \in Runs : run[s].post \in Nat /\ run[s].post <= posts
    BY DEF IInv, RunsOK, Run, PostsApart
  <2>2. \A c \in rows : c.post \in Nat /\ c.post <= posts
    BY DEF IInv, StoresOK, Candidate, PostsApart
  <2>3. \A s \in Runs : run'[s].post <= posts'
    BY <1>1, <1>4, <1>7, <2>1
  <2>4. \A s, t \in Runs : s # t /\ run'[s].post # 0 => run'[s].post # run'[t].post
    BY <1>1, <1>4, <1>7, <2>1 DEF IInv, PostsApart
  <2>5. \A c \in rows' : c.post <= posts'
    BY <1>1, <1>8, <2>2
  <2>6. \A s \in Runs, c \in rows' : c.post = run'[s].post => c.para \notin run'[s].todo
    BY <1>1, <1>4, <1>7, <1>8, <2>2 DEF IInv, PostsApart
  <2> QED
    BY <2>3, <2>4, <2>5, <2>6 DEF PostsApart
<1>12. ProgressIsReal'
  <2>1. \A s \in Runs : run'[s].post > 0 =>
          /\ Paragraph \ run'[s].todo \subseteq marker
          /\ run'[s].answer = "finished" => marker = Paragraph
    <3>1. \A s \in Runs : s # r => run'[s] = run[s]
      BY <1>7
    <3>2. Paragraph \ run'[r].todo \subseteq marker /\ run'[r].answer # "finished"
      BY <1>4, <1>7
    <3> QED
      BY <3>1, <3>2 DEF IInv, ProgressIsReal
  <2> QED
    BY <1>8, <2>1 DEF IInv, ProgressIsReal
<1>13. StagedWhole'
  BY <1>8 DEF IInv, StagedWhole, StagedNames
<1> QED
  BY <1>9, <1>10, <1>11, <1>12, <1>13 DEF IInv

(* After its paragraph is persisted a run goes on to the next or answers.  *)
LEMMA PersistedRun ==
  ASSUME IInv, NEW r \in Runs, NEW p \in Paragraph, run[r].pc = "persist",
         IsFirst(p, run[r].todo), Persisted(r, p)
  PROVE  \E q \in Run :
           /\ run' = [run EXCEPT ![r] = q]
           /\ RunOK(q)
           /\ q.post = run[r].post
           /\ q.todo = run[r].todo \ {p}
           /\ q.answer = "finished" => run[r].todo = {p}
<1>1. RunOK(run[r]) /\ run[r] \in Run /\ run[r].answer = "none"
  BY DEF IInv, RunsOK, RunOK
<1>2. CASE run[r].todo = {p}
  <2> DEFINE q == Answered(run[r].post, "finished", {})
  <2>1. RunOK(q) /\ q.post = run[r].post /\ q.todo = {}
    BY <1>1, AnsweredOK DEF Run
  <2>2. run' = [run EXCEPT ![r] = q]
    BY <1>2 DEF Persisted
  <2> HIDE DEF q
  <2>3. q \in Run /\ q.todo = run[r].todo \ {p}
    BY <1>2, <2>1 DEF RunOK
  <2> QED
    BY <1>2, <2>1, <2>2, <2>3
<1>3. CASE run[r].todo # {p}
  <2> DEFINE q == [run[r] EXCEPT !.pc = "extract", !.todo = @ \ {p}, !.batch = {}]
  <2>1. /\ q \in Run /\ q.pc = "extract" /\ q.post = run[r].post
        /\ q.todo = run[r].todo \ {p} /\ q.answer = run[r].answer
    BY <1>1 DEF Run, Pc
  <2>2. run' = [run EXCEPT ![r] = q]
    BY <1>3 DEF Persisted
  <2> HIDE DEF q
  <2>3. RunOK(q)
    BY <1>1, <2>1 DEF RunOK
  <2> QED
    BY <1>1, <2>1, <2>2, <2>3
<1> QED
  BY <1>2, <1>3

LEMMA PersistStep ==
  ASSUME IInv, NEW r \in Runs, Persist(r) PROVE IInv'
<1>1. /\ RunOK(run[r]) /\ run[r] \in Run /\ run[r].pc = "persist"
      /\ run[r].post \in 1..MaxPosts
  BY DEF IInv, RunsOK, RunOK, Persist
<1>2. PICK p \in Paragraph :
        /\ IsFirst(p, run[r].todo)
        /\ rows' = rows \cup run[r].batch
        /\ relations' = relations \cup ({p} \X run[r].reading.relations)
        /\ marker' = marker \cup {p}
        /\ Persisted(r, p)
  BY DEF Persist, IsCurrent, IsFirst
<1>3. PICK q \in Run :
        /\ run' = [run EXCEPT ![r] = q]
        /\ RunOK(q)
        /\ q.post = run[r].post
        /\ q.todo = run[r].todo \ {p}
        /\ q.answer = "finished" => run[r].todo = {p}
  BY <1>1, <1>2, PersistedRun
<1>4. /\ run' \in [Runs -> Run] /\ run'[r] = q
      /\ \A s \in Runs : s # r => run'[s] = run[s]
  BY <1>3 DEF IInv, RunsOK
<1>5. /\ run[r].reading \in Readings[p]
      /\ \A c \in run[r].batch : c.post = run[r].post /\ c.para = p
      /\ NamesIn(run[r].batch) = run[r].reading.entities
  BY <1>1, <1>2 DEF RunOK
<1>6. UNCHANGED <<graph, posts, rematch>>
  BY DEF Persist
<1>7. p \in run[r].todo /\ \A x \in run[r].todo : p <= x
  BY <1>2 DEF IsFirst
<1>8. /\ run[r].batch \subseteq Candidate
      /\ run[r].reading.relations \subseteq Triples
      /\ run[r].todo \subseteq Paragraph
  BY <1>1 DEF Run, Reading
<1>9. StoresOK'
  BY <1>2, <1>6, <1>8 DEF IInv, StoresOK
<1>10. RunsOK'
  BY <1>3, <1>4 DEF IInv, RunsOK
<1>11. PostsApart'
  <2>1. \A s \in Runs : run'[s].post = run[s].post
    BY <1>3, <1>4
  <2>2. \A c \in rows' : c.post <= posts'
    BY <1>2, <1>5, <1>6 DEF IInv, PostsApart
  <2>3. ASSUME NEW s \in Runs, NEW c \in rows', c.post = run'[s].post
        PROVE  c.para \notin run'[s].todo
    <3>1. CASE c \in rows
      BY <1>3, <1>4, <2>1, <2>3, <3>1 DEF IInv, PostsApart
    <3>2. CASE c \in run[r].batch /\ s = r
      BY <1>3, <1>4, <1>5, <3>2
    <3>3. CASE c \in run[r].batch /\ s # r
      <4>1. run[r].post # 0
        BY <1>1
      <4>2. run[r].post # run[s].post
        BY <3>3, <4>1 DEF IInv, PostsApart
      <4> QED
        BY <1>5, <2>1, <2>3, <3>3, <4>2
    <3> QED
      BY <1>2, <3>1, <3>2, <3>3
  <2> QED
    BY <1>6, <2>1, <2>2, <2>3 DEF IInv, PostsApart
<1>12. ProgressIsReal'
  <2>1. Paragraph \ run[r].todo \subseteq marker
    BY <1>1 DEF IInv, ProgressIsReal
  <2>2. \A x \in marker', y \in Paragraph : y <= x => y \in marker'
    <3> SUFFICES ASSUME NEW x \in marker', NEW y \in Paragraph, y <= x, y # p
                 PROVE  y \in marker
      BY <1>2
    <3>1. CASE x \in marker
      BY <3>1 DEF IInv, ProgressIsReal
    <3>2. CASE x = p
      <4>1. y \notin run[r].todo
        BY <1>7, <3>2, ConstantsAssumption DEF Paragraph
      <4> QED
        BY <2>1, <4>1
    <3> QED
      BY <1>2, <3>1, <3>2
  <2>3. ASSUME NEW s \in Runs, run'[s].post > 0
        PROVE  /\ Paragraph \ run'[s].todo \subseteq marker'
               /\ run'[s].answer = "finished" => marker' = Paragraph
    <3>1. CASE s = r
      <4>1. Paragraph \ q.todo \subseteq marker'
        BY <1>2, <1>3, <2>1
      <4>2. marker' \subseteq Paragraph
        BY <1>9 DEF StoresOK
      <4>3. ASSUME q.answer = "finished" PROVE marker' = Paragraph
        BY <1>3, <4>1, <4>2, <4>3
      <4> QED
        BY <1>4, <3>1, <4>1, <4>3
    <3>2. CASE s # r
      <4>1. marker \subseteq marker' /\ marker' \subseteq Paragraph
        BY <1>2, <1>9 DEF StoresOK
      <4>2. run'[s] = run[s]
        BY <1>4, <3>2
      <4> QED
        BY <2>3, <4>1, <4>2 DEF IInv, ProgressIsReal
    <3> QED
      BY <3>1, <3>2
  <2> QED
    BY <2>2, <2>3 DEF ProgressIsReal
<1>13. StagedWhole'
  <2>1. ASSUME NEW x \in Paragraph, NEW k \in 1..MaxPosts, StagedNames(k, x)' # {}
        PROVE  /\ x \in marker'
               /\ \E reading \in Readings[x] : reading.entities = StagedNames(k, x)'
    <3>1. CASE k = run[r].post /\ x = p
      <4>1. ~ \E c \in rows : c.post = k /\ c.para = x
        BY <1>7, <3>1 DEF IInv, PostsApart
      <4>2. StagedNames(k, x)' = NamesIn(run[r].batch)
        BY <1>2, <1>5, <3>1, <4>1 DEF StagedNames, NamesIn
      <4> QED
        BY <1>2, <1>5, <3>1, <4>2
    <3>2. CASE ~(k = run[r].post /\ x = p)
      <4>1. StagedNames(k, x)' = StagedNames(k, x)
        BY <1>2, <1>5, <3>2 DEF StagedNames
      <4> QED
        BY <1>2, <2>1, <4>1 DEF IInv, StagedWhole
    <3> QED
      BY <3>1, <3>2
  <2>2. \A x \in relations' : x[1] \in marker'
    BY <1>2 DEF IInv, StagedWhole
  <2> QED
    BY <2>1, <2>2 DEF StagedWhole
<1> QED
  BY <1>9, <1>10, <1>11, <1>12, <1>13 DEF IInv

LEMMA NextIInv == IInv /\ [Next]_vars => IInv'
<1> SUFFICES ASSUME IInv, [Next]_vars PROVE IInv'
  OBVIOUS
<1>1. CASE UNCHANGED vars
  <2>1. UNCHANGED <<marker, rows, relations, graph, run, posts, rematch>>
    BY <1>1 DEF vars
  <2>2. StoresOK' /\ PostsApart'
    BY <2>1 DEF IInv, StoresOK, PostsApart
  <2>3. RunsOK'
    BY <2>1 DEF IInv, RunsOK
  <2>4. ProgressIsReal'
    BY <2>1 DEF IInv, ProgressIsReal
  <2>5. StagedWhole'
    BY <2>1 DEF IInv, StagedWhole, StagedNames
  <2> QED
    BY <2>2, <2>3, <2>4, <2>5 DEF IInv
<1>2. ASSUME NEW r \in Runs, Post(r) PROVE IInv'
  BY <1>2, PostStep
<1>3. ASSUME NEW r \in Runs, Handler(r) PROVE IInv'
  <2>1. CASE ReadMarkers(r)
    BY <2>1, ReadMarkersStep
  <2>2. CASE LoadAccepted(r)
    BY <2>2, LoadAcceptedStep
  <2>3. CASE Extract(r)
    BY <2>3, ExtractStep
  <2>4. CASE ExtractMalformed(r)
    BY <2>4, ExtractMalformedStep
  <2>5. CASE Pause(r)
    BY <2>5, AnswerStep DEF Pause
  <2>6. CASE \/ MatchStrong(r) \/ MatchNone(r) \/ MatchVector(r)
             \/ JudgeConfident(r) \/ JudgeUnsure(r)
    BY <2>6, CascadeStep
  <2>7. CASE AskJudge(r)
    BY <2>7, AskJudgeStep
  <2>8. CASE CascadeDone(r)
    BY <2>8, CascadeDoneStep
  <2>9. CASE Persist(r)
    BY <2>9, PersistStep
  <2> QED
    BY <1>3, <2>1, <2>2, <2>3, <2>4, <2>5, <2>6, <2>7, <2>8, <2>9 DEF Handler
<1>4. ASSUME NEW r \in Runs, Fail(r) PROVE IInv'
  BY <1>4, AnswerStep DEF Fail
<1>5. ASSUME NEW c \in rows, Accept(c) PROVE IInv'
  BY <1>5, AcceptStep
<1>6. ASSUME NEW e \in rematch, Rematched(e) PROVE IInv'
  BY <1>6, RematchedStep
<1> QED
  BY <1>1, <1>2, <1>3, <1>4, <1>5, <1>6 DEF Next

LEMMA AlwaysIInv == Spec => []IInv
<1> QED
  BY InitIInv, NextIInv, PTL DEF Spec

(* Every value of the state is one the program can hold, however many runs *)
(* and reviews interleave.                                                 *)
THEOREM TypeCorrect == Spec => []TypeOK
<1>1. IInv => TypeOK
  BY DEF IInv, StoresOK, RunsOK, TypeOK
<1> QED
  BY <1>1, AlwaysIInv, PTL

(* A paragraph is staged whole or not at all.                              *)
THEOREM WholeOrNothing == Spec => []StagedWhole
<1>1. IInv => StagedWhole
  BY DEF IInv
<1> QED
  BY <1>1, AlwaysIInv, PTL

(* A finished run has staged the whole story, and a paused or failed one   *)
(* reports as done only what is checkpointed.                              *)
THEOREM ProgressReported == Spec => []ProgressIsReal
<1>1. IInv => ProgressIsReal
  BY DEF IInv
<1> QED
  BY <1>1, AlwaysIInv, PTL

-----------------------------------------------------------------------------
(* The graph only grows while no run is in flight, so what a run compares  *)
(* its names with is the whole graph; what was staged before an accept     *)
(* waits for the re-match of that accept.                                  *)

InFlight == {"extract", "cascade", "judge", "persist"}

IsNew(c) == c.proposal = "new"
Strong(name, e) == Likeness[name][e] = "strong"

(* A run has compared every NEW row of its batch with the whole graph.     *)
ComparedWithAll(q) ==
  /\ q.pc \in InFlight => graph \subseteq q.snapshot
  /\ q.pc \in InFlight \ {"extract"} =>
       \A c \in q.batch, e \in q.snapshot : IsNew(c) => ~Strong(c.name, e)
  /\ q.pc = "judge" => \A e \in q.snapshot : ~Strong(q.judged, e)

MatchInv ==
  /\ \A c \in rows, e \in graph \ rematch :
       c.status = "pending" /\ IsNew(c) => ~Strong(c.name, e)
  /\ \A r \in Runs : ComparedWithAll(run[r])

(* A step of one run that stages nothing.                                  *)
LEMMA MatchLocal ==
  ASSUME MatchInv, run \in [Runs -> Run], NEW r \in Runs, NEW q,
         run' = [run EXCEPT ![r] = q], UNCHANGED <<rows, graph, rematch>>,
         ComparedWithAll(q)
  PROVE  MatchInv'
<1>1. /\ run'[r] = q
      /\ \A s \in Runs : s # r => run'[s] = run[s]
  OBVIOUS
<1>2. \A s \in Runs : ComparedWithAll(run'[s])
  BY <1>1 DEF MatchInv
<1>3. \A s \in Runs : ComparedWithAll(run[s])'
  BY <1>2 DEF ComparedWithAll
<1> QED
  BY <1>3 DEF MatchInv

LEMMA NotInFlight ==
  ASSUME NEW q, q.pc \in {"idle", "start", "load"} PROVE ComparedWithAll(q)
  BY DEF ComparedWithAll, InFlight

LEMMA AnsweredCompared == \A k, how, t : ComparedWithAll(Answered(k, how, t))
<1>1. \A k, how, t : Answered(k, how, t).pc = "idle"
  BY DEF Answered, Idle
<1> QED
  BY <1>1, NotInFlight

LEMMA MatchStage ==
  ASSUME IInv, MatchInv, NEW r \in Runs, run[r].pc \in {"cascade", "judge"},
         NEW name, NEW proposal, NEW target,
         StageRow(r, name, proposal, target),
         proposal = "new" => \A e \in run[r].snapshot : ~Strong(name, e),
         UNCHANGED <<rows, graph, rematch>>
  PROVE  MatchInv'
<1>1. run \in [Runs -> Run] /\ run[r] \in Run /\ ComparedWithAll(run[r])
  BY DEF IInv, RunsOK, MatchInv
<1>2. PICK p \in Paragraph :
        run' = [run EXCEPT ![r] = [run[r] EXCEPT
                    !.pc = "cascade", !.left = @ \ {name},
                    !.judged = NoName, !.against = NoName,
                    !.batch = @ \cup {Staged(r, p, name, proposal, target)}]]
  BY DEF StageRow
<1> DEFINE c == Staged(r, p, name, proposal, target)
           q == [run[r] EXCEPT !.pc = "cascade", !.left = @ \ {name},
                               !.judged = NoName, !.against = NoName,
                               !.batch = @ \cup {c}]
<1>3. c.name = name /\ c.proposal = proposal
  BY DEF Staged
<1> HIDE DEF c
<1>4. q.pc = "cascade" /\ q.batch = run[r].batch \cup {c} /\ q.snapshot = run[r].snapshot
  BY <1>1 DEF Run
<1>5. run' = [run EXCEPT ![r] = q]
  BY <1>2 DEF c
<1> HIDE DEF q
<1>6. ComparedWithAll(q)
  BY <1>1, <1>3, <1>4 DEF ComparedWithAll, InFlight, IsNew
<1> QED
  BY <1>1, <1>5, <1>6, MatchLocal

LEMMA MatchHandler ==
  ASSUME IInv, MatchInv, NEW r \in Runs, Handler(r) PROVE MatchInv'
<1>1. run \in [Runs -> Run] /\ run[r] \in Run /\ RunOK(run[r]) /\ ComparedWithAll(run[r])
  BY DEF IInv, RunsOK, MatchInv
<1>2. \A k, how, t : ComparedWithAll(Answered(k, how, t))
  BY AnsweredCompared
<1>3. ASSUME NEW how, Answer(r, how), UNCHANGED <<rows, graph, rematch>> PROVE MatchInv'
  BY <1>1, <1>2, <1>3, MatchLocal DEF Answer
<1>4. CASE ReadMarkers(r)
  <2>1. CASE Paragraph \ marker = {}
    BY <1>1, <1>2, <1>4, <2>1, MatchLocal DEF ReadMarkers, stores
  <2>2. CASE Paragraph \ marker # {}
    <3> DEFINE q == [run[r] EXCEPT !.pc = "load", !.todo = Paragraph \ marker]
    <3>1. q.pc = "load"
      BY <1>1 DEF Run
    <3>2. run' = [run EXCEPT ![r] = q]
      BY <1>4, <2>2 DEF ReadMarkers
    <3> HIDE DEF q
    <3>3. ComparedWithAll(q)
      BY <3>1, NotInFlight
    <3> QED
      BY <1>1, <1>4, <3>2, <3>3, MatchLocal DEF ReadMarkers, stores
  <2> QED
    BY <2>1, <2>2
<1>5. CASE LoadAccepted(r)
  <2> DEFINE q == [run[r] EXCEPT !.pc = "extract", !.snapshot = graph]
  <2>1. q.pc = "extract" /\ q.snapshot = graph
    BY <1>1 DEF Run
  <2>2. run' = [run EXCEPT ![r] = q]
    BY <1>5 DEF LoadAccepted
  <2> HIDE DEF q
  <2>3. ComparedWithAll(q)
    BY <2>1 DEF ComparedWithAll, InFlight
  <2> QED
    BY <1>1, <1>5, <2>2, <2>3, MatchLocal DEF LoadAccepted, stores
<1>6. CASE Extract(r)
  <2>1. PICK reading :
          run' = [run EXCEPT ![r] = [run[r] EXCEPT
                   !.pc = "cascade", !.tries = 0, !.reading = reading,
                   !.left = reading.entities, !.batch = {}]]
    BY <1>6 DEF Extract
  <2> DEFINE q == [run[r] EXCEPT !.pc = "cascade", !.tries = 0, !.reading = reading,
                                 !.left = reading.entities, !.batch = {}]
  <2>2. q.pc = "cascade" /\ q.batch = {} /\ q.snapshot = run[r].snapshot
    BY <1>1 DEF Run
  <2>3. run' = [run EXCEPT ![r] = q]
    BY <2>1
  <2> HIDE DEF q
  <2>4. ComparedWithAll(q)
    BY <1>1, <1>6, <2>2 DEF ComparedWithAll, InFlight, Extract
  <2> QED
    BY <1>1, <1>6, <2>3, <2>4, MatchLocal DEF Extract, stores
<1>7. CASE ExtractMalformed(r)
  <2>1. CASE run[r].tries < MaxRetries
    <3> DEFINE q == [run[r] EXCEPT !.tries = @ + 1]
    <3>1. q.pc = "extract" /\ q.snapshot = run[r].snapshot
      BY <1>1, <1>7 DEF Run, ExtractMalformed
    <3>2. run' = [run EXCEPT ![r] = q]
      BY <1>7, <2>1 DEF ExtractMalformed
    <3> HIDE DEF q
    <3>3. ComparedWithAll(q)
      BY <1>1, <1>7, <3>1 DEF ComparedWithAll, InFlight, ExtractMalformed
    <3> QED
      BY <1>1, <1>7, <3>2, <3>3, MatchLocal DEF ExtractMalformed, stores
  <2>2. CASE ~(run[r].tries < MaxRetries)
    BY <1>3, <1>7, <2>2 DEF ExtractMalformed, stores
  <2> QED
    BY <2>1, <2>2
<1>8. CASE Pause(r)
  BY <1>3, <1>8 DEF Pause, stores
<1>9. CASE MatchStrong(r) \/ MatchVector(r) \/ JudgeConfident(r)
  <2>1. \E name, target : StageRow(r, name, "merge", target)
    BY <1>9 DEF MatchStrong, MatchVector, JudgeConfident
  <2>2. run[r].pc \in {"cascade", "judge"} /\ UNCHANGED <<rows, graph, rematch>>
    BY <1>9 DEF MatchStrong, MatchVector, JudgeConfident, stores
  <2> QED
    BY <2>1, <2>2, MatchStage
<1>10. CASE MatchNone(r)
  <2>1. PICK name \in run[r].left :
          InBand(r, name, "strong") = {} /\ StageRow(r, name, "new", NoName)
    BY <1>10 DEF MatchNone
  <2>2. \A e \in run[r].snapshot : ~Strong(name, e)
    BY <2>1 DEF InBand, Strong
  <2> QED
    BY <1>10, <2>1, <2>2, MatchStage DEF MatchNone, stores
<1>11. CASE JudgeUnsure(r)
  <2>1. \A e \in run[r].snapshot : ~Strong(run[r].judged, e)
    BY <1>1, <1>11 DEF JudgeUnsure, ComparedWithAll
  <2> QED
    BY <1>11, <2>1, MatchStage DEF JudgeUnsure, stores
<1>12. CASE AskJudge(r)
  <2>1. PICK name \in run[r].left, e \in run[r].snapshot :
          /\ InBand(r, name, "strong") = {}
          /\ run' = [run EXCEPT ![r] = [run[r] EXCEPT
                      !.pc = "judge", !.judged = name, !.against = e]]
    BY <1>12 DEF AskJudge
  <2> DEFINE q == [run[r] EXCEPT !.pc = "judge", !.judged = name, !.against = e]
  <2>2. /\ q.pc = "judge" /\ q.judged = name
        /\ q.batch = run[r].batch /\ q.snapshot = run[r].snapshot
    BY <1>1 DEF Run
  <2>3. run' = [run EXCEPT ![r] = q]
    BY <2>1
  <2> HIDE DEF q
  <2>4. ComparedWithAll(q)
    BY <1>1, <1>12, <2>1, <2>2 DEF ComparedWithAll, InFlight, AskJudge, InBand, Strong
  <2> QED
    BY <1>1, <1>12, <2>3, <2>4, MatchLocal DEF AskJudge, stores
<1>13. CASE CascadeDone(r)
  <2> DEFINE q == [run[r] EXCEPT !.pc = "persist"]
  <2>1. q.pc = "persist" /\ q.batch = run[r].batch /\ q.snapshot = run[r].snapshot
    BY <1>1 DEF Run
  <2>2. run' = [run EXCEPT ![r] = q]
    BY <1>13 DEF CascadeDone
  <2> HIDE DEF q
  <2>3. ComparedWithAll(q)
    BY <1>1, <1>13, <2>1 DEF ComparedWithAll, InFlight, CascadeDone
  <2> QED
    BY <1>1, <1>13, <2>2, <2>3, MatchLocal DEF CascadeDone, stores
<1>14. CASE Persist(r)
  <2>1. PICK p \in Paragraph : rows' = rows \cup run[r].batch /\ Persisted(r, p)
    BY <1>14 DEF Persist
  <2>2. graph' = graph /\ rematch' = rematch /\ run[r].pc = "persist"
    BY <1>14 DEF Persist
  <2>3. graph \subseteq run[r].snapshot
    BY <1>1, <2>2 DEF ComparedWithAll, InFlight
  <2>4. \A c \in run[r].batch, e \in graph : IsNew(c) => ~Strong(c.name, e)
    BY <1>1, <2>2, <2>3 DEF ComparedWithAll, InFlight
  <2>5. PICK q : run' = [run EXCEPT ![r] = q] /\ ComparedWithAll(q)
    <3>1. CASE run[r].todo = {p}
      BY <1>2, <2>1, <3>1 DEF Persisted
    <3>2. CASE run[r].todo # {p}
      <4> DEFINE q == [run[r] EXCEPT !.pc = "extract", !.todo = @ \ {p}, !.batch = {}]
      <4>1. q.pc = "extract" /\ q.snapshot = run[r].snapshot
        BY <1>1 DEF Run
      <4>2. run' = [run EXCEPT ![r] = q]
        BY <2>1, <3>2 DEF Persisted
      <4> HIDE DEF q
      <4> QED
        BY <2>3, <4>1, <4>2 DEF ComparedWithAll, InFlight
    <3> QED
      BY <3>1, <3>2
  <2>6. \A s \in Runs : ComparedWithAll(run'[s])
    BY <1>1, <2>5 DEF MatchInv
  <2>7. \A s \in Runs : ComparedWithAll(run[s])'
    BY <2>2, <2>6 DEF ComparedWithAll
  <2>8. \A c \in rows', e \in graph' \ rematch' :
          c.status = "pending" /\ IsNew(c) => ~Strong(c.name, e)
    BY <2>1, <2>2, <2>4 DEF MatchInv
  <2> QED
    BY <2>7, <2>8 DEF MatchInv
<1> QED
  BY <1>4, <1>5, <1>6, <1>7, <1>8, <1>9, <1>10, <1>11, <1>12, <1>13, <1>14 DEF Handler

LEMMA MatchNext ==
  ASSUME ~ReviewDuringRuns, IInv, MatchInv, [Next]_vars PROVE MatchInv'
<1>1. run \in [Runs -> Run] /\ rows \subseteq Candidate
  BY DEF IInv, RunsOK, StoresOK
<1>2. CASE UNCHANGED vars
  BY <1>2 DEF vars, MatchInv, ComparedWithAll
<1>3. ASSUME NEW r \in Runs, Post(r) PROVE MatchInv'
  <2> DEFINE q == [Idle EXCEPT !.pc = "start", !.post = posts + 1, !.todo = Paragraph]
  <2>1. q.pc = "start"
    BY DEF Idle
  <2>2. run' = [run EXCEPT ![r] = q] /\ UNCHANGED <<rows, graph, rematch>>
    BY <1>3 DEF Post, stores
  <2> HIDE DEF q
  <2>3. ComparedWithAll(q)
    BY <2>1, NotInFlight
  <2> QED
    BY <1>1, <2>2, <2>3, MatchLocal
<1>4. ASSUME NEW r \in Runs, Fail(r) PROVE MatchInv'
  <2>1. ComparedWithAll(Answered(run[r].post, "failed", run[r].todo))
    BY AnsweredCompared
  <2> QED
    BY <1>1, <1>4, <2>1, MatchLocal DEF Fail, Answer, stores
<1>5. ASSUME NEW c \in rows, Accept(c) PROVE MatchInv'
  <2> DEFINE d == [c EXCEPT !.status = "decided"]
  <2>1. /\ rows' = (rows \ {c}) \cup {d}
        /\ graph' = graph \cup {c.name} /\ rematch' = rematch \cup {c.name}
        /\ run' = run /\ \A s \in Runs : run[s].pc = "idle"
    BY <1>5 DEF Accept
  <2>2. d.status = "decided"
    BY <1>1 DEF Candidate
  <2> HIDE DEF d
  <2>3. \A s \in Runs : ComparedWithAll(run[s])'
    BY <2>1 DEF ComparedWithAll, InFlight
  <2>4. \A x \in rows', e \in graph' \ rematch' :
          x.status = "pending" /\ IsNew(x) => ~Strong(x.name, e)
    BY <2>1, <2>2 DEF MatchInv
  <2> QED
    BY <2>3, <2>4 DEF MatchInv
<1>6. ASSUME NEW e \in rematch, Rematched(e) PROVE MatchInv'
  <2> DEFINE flips == {c \in rows : /\ c.status = "pending"
                                    /\ c.proposal = "new"
                                    /\ Likeness[c.name][e] = "strong"}
             Flip(c) == [c EXCEPT !.proposal = "merge", !.target = e]
  <2>1. \A c \in Candidate : ~IsNew(Flip(c))
    BY DEF Candidate, IsNew
  <2>2. /\ rows' = (rows \ flips) \cup {Flip(c) : c \in flips}
        /\ rematch' = rematch \ {e} /\ graph' = graph /\ run' = run
    BY <1>6 DEF Rematched
  <2>3. /\ flips \subseteq rows
        /\ \A c \in rows : c.status = "pending" /\ IsNew(c) /\ Strong(c.name, e) => c \in flips
    BY DEF IsNew, Strong
  <2> HIDE DEF flips, Flip
  <2>4. \A s \in Runs : ComparedWithAll(run[s])'
    BY <2>2 DEF MatchInv, ComparedWithAll
  <2>5. \A x \in rows', y \in graph' \ rematch' :
          x.status = "pending" /\ IsNew(x) => ~Strong(x.name, y)
    BY <1>1, <2>1, <2>2, <2>3 DEF MatchInv
  <2> QED
    BY <2>4, <2>5 DEF MatchInv
<1> QED
  BY <1>2, <1>3, <1>4, <1>5, <1>6, MatchHandler DEF Next

(* While reviews and runs alternate, no pending NEW row is a strong match  *)
(* of an accepted entity once every accept has had its re-match, however   *)
(* many runs are in flight together.                                       *)
THEOREM NothingMissed ==
  ASSUME ~ReviewDuringRuns PROVE Spec => []NoMissedMatch
<1>1. Init => MatchInv
  BY NotInFlight, IdleOK DEF Init, MatchInv
<1>2. IInv /\ MatchInv /\ [Next]_vars => MatchInv'
  BY MatchNext
<1>3. MatchInv => NoMissedMatch
  BY DEF MatchInv, NoMissedMatch, IsNew, Strong
<1> QED
  BY <1>1, <1>2, <1>3, AlwaysIInv, PTL DEF Spec

-----------------------------------------------------------------------------
(* While the runs of a story follow each other, ingestion implements the   *)
(* resumable ingest of StoryIngest: for any story, any number of POSTs,    *)
(* pauses, failures and crashes, and with the author reviewing meanwhile.  *)
(* The hypothesis is needed: two runs in flight stage a paragraph twice.   *)

(* What the only run relies on: nobody else moves the checkpoint, so what  *)
(* it has left to do is exactly what is not staged.                        *)
SerialInv ==
  /\ \E k \in 0..N : marker = 1..k
  /\ \A r \in Runs : run[r].pc \notin {"idle", "start"} =>
       run[r].todo = Paragraph \ marker
  /\ StagedOnce

(* Rows and relations exist for checkpointed paragraphs only.              *)
LEMMA NothingBeyond ==
  ASSUME IInv, NEW p \in Paragraph, p \notin marker
  PROVE  NamesStaged(p) = {} /\ RelationsOf(p) = {} /\ ~ \E c \in rows : c.para = p
<1>1. ASSUME NEW c \in rows, c.para = p PROVE FALSE
  <2>1. c \in Candidate /\ c.post \in 1..MaxPosts
    BY DEF IInv, StoresOK, Candidate
  <2>2. c.name \in StagedNames(c.post, p)
    BY <1>1 DEF StagedNames
  <2> QED
    BY <2>1, <2>2 DEF IInv, StagedWhole
<1>2. ASSUME NEW t \in Triples, <<p, t>> \in relations PROVE FALSE
  BY <1>2 DEF IInv, StagedWhole
<1> QED
  BY <1>1, <1>2 DEF NamesStaged, RelationsOf

LEMMA DoneIs ==
  ASSUME NEW k \in 0..N, marker = 1..k PROVE Done = k
<1>1. \A j \in 0..N : marker = 1..j => j = k
  BY ConstantsAssumption
<1> QED
  BY <1>1 DEF Done

(* Steps that neither move the checkpoint nor stage anything.              *)
Quiet == UNCHANGED <<marker, relations>> /\ \A p \in Paragraph : NamesStaged(p)' = NamesStaged(p)

LEMMA QuietStutters ==
  ASSUME Quiet PROVE UNCHANGED <<Done, StagedAs>>
<1>1. Done' = Done
  BY DEF Quiet, Done
<1>2. \A p \in Paragraph : RelationsOf(p)' = RelationsOf(p)
  BY DEF Quiet, RelationsOf
<1>3. StagedAs' = StagedAs
  BY <1>2 DEF Quiet, StagedAs
<1> QED
  BY <1>1, <1>3

LEMMA SerialStep ==
  ASSUME NEW r, Runs = {r}, IInv, IInv', SerialInv, [Next]_vars
  PROVE  SerialInv' /\ [Abstract!StageNext]_<<Done, StagedAs>>
<1> DEFINE Step == SerialInv' /\ [Abstract!StageNext]_<<Done, StagedAs>>
           Left == run'[r].pc \notin {"idle", "start"} => run'[r].todo = Paragraph \ marker'
<1>1. run \in [Runs -> Run] /\ RunOK(run[r]) /\ run[r] \in Run
  BY DEF IInv, RunsOK
<1>2. run[r].pc \notin {"idle", "start"} => run[r].todo = Paragraph \ marker
  BY DEF SerialInv
(* Steps that leave rows alone. *)
<1>3. ASSUME UNCHANGED stores, Left PROVE Step
  <2>1. Quiet
    BY <1>3 DEF Quiet, NamesStaged, stores
  <2>2. SerialInv'
    BY <1>3 DEF SerialInv, StagedOnce, stores
  <2> QED
    BY <2>1, <2>2, QuietStutters
<1>4. CASE UNCHANGED vars
  BY <1>2, <1>3, <1>4 DEF vars, stores
<1>5. CASE Post(r) \/ Pause(r) \/ Fail(r)
  <2>1. \A k, how, t : Answered(k, how, t).pc = "idle"
    BY DEF Answered, Idle
  <2>2. ASSUME NEW how, Answer(r, how) PROVE run'[r].pc = "idle"
    BY <1>1, <2>1, <2>2 DEF Answer
  <2>3. CASE Post(r)
    <3>1. run'[r].pc = "start"
      BY <1>1, <2>3 DEF Post, Idle
    <3> QED
      BY <1>3, <2>3, <3>1 DEF Post
  <2>4. CASE Pause(r) \/ Fail(r)
    BY <1>3, <2>2, <2>4 DEF Pause, Fail
  <2> QED
    BY <1>5, <2>3, <2>4
<1>6. CASE ReadMarkers(r)
  <2>1. \A k, how, t : Answered(k, how, t).pc = "idle"
    BY DEF Answered, Idle
  <2>2. CASE Paragraph \ marker = {}
    <3>1. run'[r].pc = "idle"
      BY <1>1, <1>6, <2>1, <2>2 DEF ReadMarkers
    <3> QED
      BY <1>3, <1>6, <3>1 DEF ReadMarkers
  <2>3. CASE Paragraph \ marker # {}
    <3>1. run'[r].todo = Paragraph \ marker
      BY <1>1, <1>6, <2>3 DEF ReadMarkers, Run
    <3> QED
      BY <1>3, <1>6, <3>1 DEF ReadMarkers, stores
  <2> QED
    BY <2>2, <2>3
<1>7. ASSUME UNCHANGED stores, run'[r].todo = run[r].todo,
             run[r].pc \notin {"idle", "start"}
      PROVE  Step
  BY <1>2, <1>3, <1>7 DEF stores
<1>8. CASE LoadAccepted(r) \/ AskJudge(r) \/ CascadeDone(r)
  <2>1. CASE LoadAccepted(r)
    BY <1>1, <1>7, <2>1 DEF LoadAccepted, Run
  <2>2. CASE AskJudge(r)
    <3>1. run'[r].todo = run[r].todo
      BY <1>1, <2>2 DEF AskJudge, Run
    <3> QED
      BY <1>7, <2>2, <3>1 DEF AskJudge
  <2>3. CASE CascadeDone(r)
    BY <1>1, <1>7, <2>3 DEF CascadeDone, Run
  <2> QED
    BY <1>8, <2>1, <2>2, <2>3
<1>9. CASE Extract(r)
  <2>1. run'[r].todo = run[r].todo
    BY <1>1, <1>9 DEF Extract, Run
  <2> QED
    BY <1>7, <1>9, <2>1 DEF Extract
<1>10. CASE ExtractMalformed(r)
  <2>1. CASE run[r].tries < MaxRetries
    BY <1>1, <1>7, <1>10, <2>1 DEF ExtractMalformed, Run
  <2>2. CASE ~(run[r].tries < MaxRetries)
    BY <1>1, <1>3, <1>10, <2>2, ZenonT(40) DEF ExtractMalformed, Answer, Answered, Idle
  <2> QED
    BY <2>1, <2>2
<1>11. ASSUME NEW name, NEW proposal, NEW target, StageRow(r, name, proposal, target)
       PROVE  run'[r].todo = run[r].todo
  BY <1>1, <1>11 DEF StageRow, Run
<1>12. CASE \/ MatchStrong(r) \/ MatchNone(r) \/ MatchVector(r)
            \/ JudgeConfident(r) \/ JudgeUnsure(r)
  <2>1. \E name, proposal, target : StageRow(r, name, proposal, target)
    BY <1>12 DEF MatchStrong, MatchNone, MatchVector, JudgeConfident, JudgeUnsure
  <2>2. UNCHANGED stores /\ run[r].pc \in {"cascade", "judge"}
    BY <1>12 DEF MatchStrong, MatchNone, MatchVector, JudgeConfident, JudgeUnsure
  <2> QED
    BY <1>7, <1>11, <2>1, <2>2
<1>13. CASE Persist(r)
  <2>1. PICK k \in 0..N : marker = 1..k
    BY DEF SerialInv
  <2>2. /\ run[r].todo = Paragraph \ marker
        /\ RunOK(run[r]) /\ run[r].pc = "persist"
    BY <1>1, <1>2, <1>13 DEF Persist
  <2>3. PICK p \in Paragraph :
          /\ IsFirst(p, run[r].todo)
          /\ rows' = rows \cup run[r].batch
          /\ relations' = relations \cup ({p} \X run[r].reading.relations)
          /\ marker' = marker \cup {p}
          /\ Persisted(r, p)
    BY <1>13 DEF Persist, IsCurrent, IsFirst
  <2>4. p = k + 1 /\ k < N
    <3>1. k + 1 \in Paragraph => k + 1 \in run[r].todo
      BY <2>1, <2>2, ConstantsAssumption DEF Paragraph
    <3>2. p \in Paragraph \ marker /\ \A x \in run[r].todo : p <= x
      BY <2>2, <2>3 DEF IsFirst
    <3> QED
      BY <2>1, <3>1, <3>2, ConstantsAssumption DEF Paragraph
  <2>5. marker' = 1..(k + 1) /\ k + 1 \in 0..N
    BY <2>1, <2>3, <2>4, ConstantsAssumption
  <2>6. Done = k /\ Done' = k + 1
    <3>1. Done = k
      BY <2>1, DoneIs
    <3>2. \A j \in 0..N : marker' = 1..j => j = k + 1
      BY <2>5, ConstantsAssumption
    <3>3. Done' = k + 1
      BY <2>5, <3>2 DEF Done
    <3> QED
      BY <3>1, <3>3
  <2>7. PICK q \in Run :
          /\ run' = [run EXCEPT ![r] = q]
          /\ q.todo = run[r].todo \ {p}
    BY <2>2, <2>3, PersistedRun
  <2>8. Left
    BY <1>1, <2>2, <2>3, <2>7
  <2>9. p \notin marker
    BY <2>2, <2>3 DEF IsFirst
  <2>10. /\ run[r].reading \in Readings[p]
         /\ \A c \in run[r].batch : c.post = run[r].post /\ c.para = p
         /\ NamesIn(run[r].batch) = run[r].reading.entities
    BY <2>2, <2>3 DEF RunOK
  <2>11. ~ \E c \in rows : c.para = p
    BY <2>9, NothingBeyond
  <2>12. StagedOnce'
    BY <2>3, <2>10, <2>11 DEF SerialInv, StagedOnce
  <2>13. SerialInv'
    BY <2>5, <2>8, <2>12 DEF SerialInv
  <2>14. NamesStaged(p)' = run[r].reading.entities
    BY <2>3, <2>10, <2>11 DEF NamesStaged, NamesIn
  <2>15. RelationsOf(p)' = run[r].reading.relations
    <3>1. run[r].reading.relations \subseteq Triples
      BY <2>2 DEF RunOK, Run, Reading
    <3>2. \A t \in Triples : <<p, t>> \notin relations
      BY <2>9, NothingBeyond DEF RelationsOf
    <3> QED
      BY <2>3, <3>1, <3>2 DEF RelationsOf
  <2>16. \A x \in Paragraph : x # p =>
           NamesStaged(x)' = NamesStaged(x) /\ RelationsOf(x)' = RelationsOf(x)
    BY <2>3, <2>10 DEF NamesStaged, RelationsOf
  <2>17. [entities |-> run[r].reading.entities, relations |-> run[r].reading.relations]
           = run[r].reading
    BY <2>2 DEF RunOK, Run, Reading
  <2>18. StagedAs' = [StagedAs EXCEPT ![k + 1] = run[r].reading]
    <3>1. StagedAs'[p] = run[r].reading
      BY <2>3, <2>14, <2>15, <2>17 DEF StagedAs
    <3>2. \A x \in Paragraph : x # p => StagedAs'[x] = StagedAs[x]
      BY <2>3, <2>16 DEF StagedAs
    <3> QED
      BY <2>4, <3>1, <3>2 DEF StagedAs
  <2>19. Abstract!StageNext
    BY <2>4, <2>6, <2>10, <2>18 DEF Abstract!StageNext
  <2> QED
    BY <2>13, <2>19
<1>14. CASE Handler(r)
  BY <1>5, <1>6, <1>8, <1>9, <1>10, <1>12, <1>13, <1>14 DEF Handler
(* The reviewer rewrites rows in place. *)
<1>15. ASSUME UNCHANGED <<marker, relations, run>>,
              \A c \in rows' : \E d \in rows :
                c.post = d.post /\ c.para = d.para /\ c.name = d.name,
              \A d \in rows : \E c \in rows' :
                c.post = d.post /\ c.para = d.para /\ c.name = d.name
       PROVE  Step
  <2>1. Quiet
    BY <1>15 DEF Quiet, NamesStaged
  <2>2. StagedOnce'
    BY <1>15 DEF SerialInv, StagedOnce
  <2>3. SerialInv'
    BY <1>15, <2>2 DEF SerialInv
  <2> QED
    BY <2>1, <2>3, QuietStutters
<1>16. rows \subseteq Candidate
  BY DEF IInv, StoresOK
<1>17. ASSUME NEW c \in rows, Accept(c) PROVE Step
  <2> DEFINE d == [c EXCEPT !.status = "decided"]
  <2>1. d.post = c.post /\ d.para = c.para /\ d.name = c.name
    BY <1>16 DEF Candidate
  <2>2. rows' = (rows \ {c}) \cup {d} /\ UNCHANGED <<marker, relations, run>>
    BY <1>17 DEF Accept
  <2> HIDE DEF d
  <2> QED
    BY <1>15, <2>1, <2>2
<1>18. ASSUME NEW e \in rematch, Rematched(e) PROVE Step
  <2> DEFINE flips == {c \in rows : /\ c.status = "pending"
                                    /\ c.proposal = "new"
                                    /\ Likeness[c.name][e] = "strong"}
             Flip(c) == [c EXCEPT !.proposal = "merge", !.target = e]
  <2>1. \A c \in Candidate :
          Flip(c).post = c.post /\ Flip(c).para = c.para /\ Flip(c).name = c.name
    BY DEF Candidate
  <2>2. /\ rows' = (rows \ flips) \cup {Flip(c) : c \in flips}
        /\ UNCHANGED <<marker, relations, run>>
    BY <1>18 DEF Rematched
  <2>3. flips \subseteq rows
    OBVIOUS
  <2> HIDE DEF flips, Flip
  <2> QED
    BY <1>15, <1>16, <2>1, <2>2, <2>3
<1> QED
  BY <1>4, <1>5, <1>14, <1>17, <1>18 DEF Next

LEMMA SerialInit == Init => SerialInv /\ Abstract!Init
<1> SUFFICES ASSUME Init PROVE SerialInv /\ Abstract!Init
  OBVIOUS
<1>1. marker = 1..0 /\ 0 \in 0..N
  BY ConstantsAssumption DEF Init
<1>2. Done = 0
  BY <1>1, DoneIs
<1>3. SerialInv
  BY <1>1, IdleOK DEF Init, SerialInv, StagedOnce
<1>4. StagedAs = [p \in 1..N |-> NotStaged]
  BY DEF Init, StagedAs, Paragraph
<1> QED
  BY <1>2, <1>3, <1>4 DEF Abstract!Init

(* One run at a time, every step of ingestion stages the next paragraph    *)
(* whole or changes nothing anyone can see.                                *)
THEOREM SerialIngest ==
  ASSUME NEW r, Runs = {r} PROVE Spec => ImplementsStoryIngest
<1>1. IInv /\ IInv' /\ SerialInv /\ [Next]_vars
        => SerialInv' /\ [Abstract!StageNext]_<<Done, StagedAs>>
  BY SerialStep
<1> QED
  BY <1>1, SerialInit, AlwaysIInv, PTL DEF Spec, ImplementsStoryIngest, Abstract!Spec

(* And no candidate is staged twice for a paragraph.                       *)
THEOREM SerialStagesOnce ==
  ASSUME NEW r, Runs = {r} PROVE Spec => []StagedOnce
<1>1. IInv /\ IInv' /\ SerialInv /\ [Next]_vars => SerialInv'
  BY SerialStep
<1>2. SerialInv => StagedOnce
  BY DEF SerialInv
<1> QED
  BY <1>1, <1>2, SerialInit, AlwaysIInv, PTL DEF Spec
=============================================================================
