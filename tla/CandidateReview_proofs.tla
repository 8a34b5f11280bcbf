------------------------ MODULE CandidateReview_proofs ------------------------
(***************************************************************************)
(* What holds of the review gate for any number of candidates, requests,   *)
(* failures and deletions; and, in the last two sections, when it keeps    *)
(* its documented promises.  One request at a time, it implements the      *)
(* candidate lifecycle: failures, retries, re-match and deletions          *)
(* included.  With any number of requests in flight, it does so, and the   *)
(* stores tell one story, if all requests for a candidate ask the same     *)
(* explicit thing.  Without either hypothesis the slower of two requests   *)
(* can overturn what the faster has decided.                               *)
(***************************************************************************)
EXTENDS CandidateReview, TLAPS

(* A request record that is well formed on its own. *)
GoodRequest(q) ==
  /\ q \in Request
  /\ q.pc # "idle" => q.cand \in Candidates
  /\ \/ q.pc \in {"check", "write", "mention", "list", "rematch"}
     \/ q.pc \in {"record", "flip"} /\ q.outcome # "rejected"
     => q.entity \in EntityId

(* The empty slot is well formed. *)
LEMMA IdleGood == Idle \in Request /\ Idle.pc = "idle"
  BY DEF Idle, Request, Pc, Ask, NewProposal, Proposal, Terminal, Status,
         OptEntity

(* Replacing one request by a well formed one keeps the type of req. *)
LEMMA RequestUpdate ==
  ASSUME req \in [Requests -> Request],
         \A r \in Requests : GoodRequest(req[r]),
         NEW r \in Requests, NEW q, GoodRequest(q),
         req' = [req EXCEPT ![r] = q]
  PROVE  /\ req' \in [Requests -> Request]
         /\ \A s \in Requests : GoodRequest(req'[s])
<1>1. req' \in [Requests -> Request]
  BY DEF GoodRequest
<1>2. ASSUME NEW s \in Requests PROVE GoodRequest(req'[s])
  <2>1. CASE s = r
    BY <2>1
  <2>2. CASE s # r
    BY <2>2
  <2>. QED
    BY <2>1, <2>2
<1>. QED
  BY <1>1, <1>2

(* What Loaded leaves in a request's slot is well formed. *)
LEMMA LoadedGood ==
  ASSUME TypeOK, NEW r \in Requests, req[r].cand \in Candidates,
         NEW pc \in {"check", "write", "record"}, NEW outcome \in Terminal,
         NEW entity \in OptEntity,
         outcome # "rejected" => entity \in EntityId,
         pc # "record" => entity \in EntityId,
         Loaded(r, pc, outcome, entity)
  PROVE  /\ req' \in [Requests -> Request]
         /\ \A s \in Requests : GoodRequest(req'[s])
<1>. DEFINE q == [Idle EXCEPT
           !.pc = pc, !.cand = req[r].cand, !.seen = req[r].seen,
           !.shown = ProposalOf(req[r].cand),
           !.outcome = outcome, !.entity = entity]
<1>0. ProposalOf(req[r].cand) \in Proposal
  BY DEF TypeOK, ProposalOf, Proposal, Row
<1>1. req[r].seen \in Proposal
  BY DEF TypeOK, Request
<1>2. pc \in Pc
  BY DEF Pc
<1>. HIDE DEF q
<1>3. /\ q \in Request
      /\ q.pc = pc /\ q.cand = req[r].cand /\ q.entity = entity
      /\ q.outcome = outcome
  BY <1>0, <1>1, <1>2, IdleGood DEF q, Request
<1>4. GoodRequest(q)
  BY <1>3 DEF GoodRequest
<1>5. \A s \in Requests : GoodRequest(req[s])
  BY DEF TypeOK, GoodRequest
<1>6. req' = [req EXCEPT ![r] = q]
  BY DEF Loaded, q
<1>. QED
  BY <1>4, <1>5, <1>6, RequestUpdate DEF TypeOK

(* Each action keeps every variable within its type. *)
THEOREM TypeCorrect == Spec => []TypeOK
<1>. USE ConstantsAssumption
<1>1. Init => TypeOK
  <2>. SUFFICES ASSUME Init PROVE TypeOK
    OBVIOUS
  <2>2. row \in [Candidates -> Row]
    BY DEF Init, Row, Status, OptEntity, EntityId
  <2>. QED
    BY <2>2, IdleGood DEF Init, TypeOK, OptEntity, EntityId
<1>2. TypeOK /\ [Next]_vars => TypeOK'
  <2>. SUFFICES ASSUME TypeOK, [Next]_vars PROVE TypeOK'
    OBVIOUS
  <2>. USE DEF TypeOK
  <2>i. Idle \in Request /\ Idle.pc = "idle" /\ Asks \in [Candidates -> SUBSET Ask]
    BY IdleGood, ConstantsAssumption DEF ConstantsAssumption
  <2>p. \A c \in Candidates : ProposalOf(c) \in Proposal
    BY DEF ProposalOf, Proposal, Row
  <2>e. \A c \in Candidates : AcceptedEntity(c) \in EntityId
    BY DEF EntityId
  <2>g. \A s \in Requests : GoodRequest(req[s])
    BY DEF GoodRequest
  <2>1. ASSUME NEW r \in Requests, Submit(r) PROVE TypeOK'
    <3>0. PICK c \in Candidates : \E a \in Asks[c] :
            req' = [req EXCEPT ![r] = [Idle EXCEPT !.pc = "load", !.cand = c,
                                                   !.ask = a, !.seen = ProposalOf(c)]]
      BY <2>1 DEF Submit
    <3>1. PICK a \in Asks[c] :
            req' = [req EXCEPT ![r] = [Idle EXCEPT !.pc = "load", !.cand = c,
                                                   !.ask = a, !.seen = ProposalOf(c)]]
      BY <3>0
    <3>. DEFINE q == [Idle EXCEPT !.pc = "load", !.cand = c,
                                  !.ask = a, !.seen = ProposalOf(c)]
    <3>2. a \in Ask
      BY <2>i
    <3>. HIDE DEF q
    <3>4. q \in Request /\ q.pc = "load" /\ q.cand = c
      BY <2>i, <2>p, <3>2, IdleGood DEF q, Request, Pc
    <3>5. GoodRequest(q)
      BY <3>4 DEF GoodRequest
    <3>6. /\ req' \in [Requests -> Request]
          /\ \A s \in Requests : GoodRequest(req'[s])
      BY <2>g, <3>1, <3>5, RequestUpdate DEF q
    <3>. QED
      BY <2>1, <3>6 DEF Submit, stores, GoodRequest
  <2>2. ASSUME NEW r \in Requests, LoadNothingToDo(r) PROVE TypeOK'
    BY <2>2, <2>i DEF LoadNothingToDo, Finish, stores
  <2>3. ASSUME NEW r \in Requests, LoadReject(r) PROVE TypeOK'
    <3>1. /\ req[r].cand \in Candidates
          /\ row[req[r].cand].target \in OptEntity
          /\ Loaded(r, "record", "rejected", row[req[r].cand].target)
      BY <2>3 DEF LoadReject, Row
    <3>2. "rejected" \in Terminal
      BY DEF Terminal, Status
    <3>3. /\ req' \in [Requests -> Request]
          /\ \A s \in Requests : GoodRequest(req'[s])
      BY <3>1, <3>2, LoadedGood
    <3>. QED
      BY <2>3, <3>3 DEF LoadReject, stores, GoodRequest
  <2>4. ASSUME NEW r \in Requests, LoadMerge(r) PROVE TypeOK'
    <3>. DEFINE e == MergeTarget(req[r].ask, req[r].cand)
    <3>1. /\ req[r].cand \in Candidates
          /\ e # NoEntity
          /\ Loaded(r, "check", "merged", e)
      BY <2>4 DEF LoadMerge
    <3>2. req[r] \in Request /\ row[req[r].cand] \in Row
      BY <3>1
    <3>3. e \in EntityId /\ e \in OptEntity
      BY <3>1, <3>2 DEF MergeTarget, Request, Ask, Row, OptEntity
    <3>4. "merged" \in Terminal
      BY DEF Terminal, Status
    <3>5. /\ req' \in [Requests -> Request]
          /\ \A s \in Requests : GoodRequest(req'[s])
      BY <3>1, <3>3, <3>4, LoadedGood
    <3>. QED
      BY <2>4, <3>5 DEF LoadMerge, stores, GoodRequest
  <2>5. ASSUME NEW r \in Requests, LoadCreate(r) PROVE TypeOK'
    <3>1. /\ req[r].cand \in Candidates
          /\ Loaded(r, "write", "created", AcceptedEntity(req[r].cand))
      BY <2>5 DEF LoadCreate
    <3>2. "created" \in Terminal
      BY DEF Terminal, Status
    <3>3. /\ req' \in [Requests -> Request]
          /\ \A s \in Requests : GoodRequest(req'[s])
      BY <2>e, <3>1, <3>2, LoadedGood DEF OptEntity
    <3>. QED
      BY <2>5, <3>3 DEF LoadCreate, stores, GoodRequest
  <2>6. ASSUME NEW r \in Requests, CheckTarget(r) PROVE TypeOK'
    <3>1. CASE Finish(r)
      BY <2>6, <2>i, <3>1 DEF CheckTarget, Finish, stores
    <3>2. CASE req' = [req EXCEPT ![r].pc = "write"]
      BY <2>6, <3>2, SMTT(30) DEF CheckTarget, Request, Pc, stores
    <3>. QED
      BY <2>6, <3>1, <3>2 DEF CheckTarget
  <2>7. ASSUME NEW r \in Requests, AddAlias(r) PROVE TypeOK'
    BY <2>7, SMTT(30) DEF AddAlias, Request, Pc
  <2>8. ASSUME NEW r \in Requests, CreateEntity(r) PROVE TypeOK'
    BY <2>8 DEF CreateEntity, Request, Pc
  <2>9. ASSUME NEW r \in Requests, AddMention(r) PROVE TypeOK'
    BY <2>9, SMTT(30) DEF AddMention, Request, Pc
  <2>10. ASSUME NEW r \in Requests, RecordDecision(r) PROVE TypeOK'
    <3>1. /\ req[r] \in Request
          /\ req[r].cand \in Candidates
      BY <2>10 DEF RecordDecision
    <3>2. [decision |-> req[r].outcome, target |-> req[r].entity,
           shown |-> req[r].shown] \in Decision
      BY <3>1 DEF Request, Decision
    <3>3. decision' \in [Candidates -> Decision \cup {NoDecision}]
      BY <2>10, <3>1, <3>2 DEF RecordDecision
    <3>4. /\ req' \in [Requests -> Request]
          /\ \A s \in Requests : GoodRequest(req'[s])
      BY <2>10, <2>g, <3>1, SMTT(30) DEF RecordDecision, GoodRequest, Request, Pc
    <3>. QED
      BY <2>10, <3>3, <3>4 DEF RecordDecision, GoodRequest
  <2>11. ASSUME NEW r \in Requests, SetStatus(r) PROVE TypeOK'
    <3>. DEFINE c == req[r].cand
                q == [Idle EXCEPT !.pc = "list", !.cand = c,
                                  !.entity = req[r].entity]
    <3>1. /\ req[r] \in Request
          /\ c \in Candidates
          /\ req[r].outcome \in Terminal
          /\ req[r].entity \in OptEntity
      BY <2>11 DEF SetStatus, Request
    <3>2. row' \in [Candidates -> Row]
      <4>1. row[c] \in Row /\ req[r].outcome \in Status
        BY <3>1 DEF Terminal
      <4>2. row' = [row EXCEPT ![c] = [@ EXCEPT !.status = req[r].outcome,
                      !.target = IF req[r].outcome = "merged"
                                   THEN req[r].entity ELSE row[c].target]]
        BY <2>11, <3>1 DEF SetStatus
      <4>. QED
        BY <3>1, <4>1, <4>2 DEF Row
    <3>3. CASE req[r].outcome = "rejected"
      BY <2>11, <2>i, <3>2, <3>3 DEF SetStatus, Finish
    <3>4. CASE req[r].outcome # "rejected"
      <4>. HIDE DEF q
      <4>2. q \in Request /\ q.pc = "list" /\ q.cand = c /\ q.entity = req[r].entity
        BY <3>1, IdleGood DEF q, Request, Pc
      <4>3. req[r].entity \in EntityId
        BY <2>11, <3>4 DEF SetStatus
      <4>4. /\ req' \in [Requests -> Request]
            /\ \A s \in Requests : GoodRequest(req'[s])
        <5>1. GoodRequest(q)
          BY <3>1, <4>2, <4>3 DEF GoodRequest
        <5>2. req' = [req EXCEPT ![r] = q]
          BY <2>11, <3>4 DEF SetStatus, q
        <5>. QED
          BY <2>g, <5>1, <5>2, RequestUpdate
      <4>. QED
        BY <2>11, <3>2, <4>4 DEF SetStatus, GoodRequest
    <3>. QED
      BY <3>3, <3>4
  <2>12. ASSUME NEW r \in Requests, ListPending(r) PROVE TypeOK'
    <3>. DEFINE P == {c \in Candidates : /\ row[c].status = "review-queued"
                                         /\ row[c].proposal = "new"
                                         /\ <<c, req[r].cand>> \in StrongMatch}
    <3>1. P \in SUBSET Candidates
      OBVIOUS
    <3>2. req' = [req EXCEPT ![r].pc = "rematch", ![r].pend = P]
      BY <2>12 DEF ListPending
    <3>. HIDE DEF P
    <3>. DEFINE q == [req[r] EXCEPT !.pc = "rematch", !.pend = P]
    <3>3. req' = [req EXCEPT ![r] = q]
      BY <3>2
    <3>4. req[r] \in Request /\ GoodRequest(req[r]) /\ req[r].pc = "list"
      BY <2>12, <2>g DEF ListPending
    <3>5. q \in Request /\ q.pc = "rematch" /\ q.cand = req[r].cand
          /\ q.entity = req[r].entity
      BY <3>1, <3>4 DEF Request, Pc
    <3>6. GoodRequest(q)
      BY <3>4, <3>5 DEF GoodRequest
    <3>. HIDE DEF q
    <3>7. /\ req' \in [Requests -> Request]
          /\ \A s \in Requests : GoodRequest(req'[s])
      BY <2>g, <3>3, <3>6, RequestUpdate
    <3>8. UNCHANGED <<row, decision, mention, nodes, aliases, editor, deleted, failures>>
      BY <2>12 DEF ListPending, stores
    <3>. QED
      BY <3>7, <3>8 DEF GoodRequest
  <2>13. ASSUME NEW r \in Requests, UpdateProposal(r) PROVE TypeOK'
    <3>1. PICK c \in req[r].pend :
            /\ row' = IF row[c].status = "review-queued"
                        THEN [row EXCEPT ![c].proposal = "merge",
                                         ![c].target = req[r].entity]
                        ELSE row
            /\ req' = [req EXCEPT ![r].pend = @ \ {c}]
      BY <2>13 DEF UpdateProposal
    <3>2. req[r] \in Request /\ req[r].pc = "rematch"
      BY <2>13 DEF UpdateProposal
    <3>3. c \in Candidates /\ req[r].entity \in OptEntity /\ row[c] \in Row
      BY <3>2 DEF Request
    <3>4. row' \in [Candidates -> Row]
      <4>. DEFINE new == [row[c] EXCEPT !.proposal = "merge", !.target = req[r].entity]
      <4>1. new \in Row
        BY <3>3 DEF Row
      <4>2. row' = row \/ row' = [row EXCEPT ![c] =
                                    [@ EXCEPT !.proposal = "merge",
                                              !.target = req[r].entity]]
        BY <3>1, <3>3
      <4>3. row' = row \/ row' = [row EXCEPT ![c] = new]
        BY <3>3, <4>2
      <4>. HIDE DEF new
      <4>. QED
        BY <3>3, <4>1, <4>3
    <3>5. /\ req' \in [Requests -> Request]
          /\ \A s \in Requests : GoodRequest(req'[s])
      BY <2>g, <3>1, <3>2, SMTT(30) DEF GoodRequest, Request, Pc
    <3>6. UNCHANGED <<decision, mention, nodes, aliases, editor, deleted, failures>>
      BY <2>13 DEF UpdateProposal
    <3>. QED
      BY <3>4, <3>5, <3>6 DEF GoodRequest
  <2>14. ASSUME NEW r \in Requests, RematchDone(r) PROVE TypeOK'
    BY <2>14, <2>i DEF RematchDone, Finish, stores
  <2>15. ASSUME NEW r \in Requests, Fail(r) PROVE TypeOK'
    BY <2>15, <2>i DEF Fail, Finish, stores
  <2>16. ASSUME NEW e \in Deletable, StartDelete(e) PROVE TypeOK'
    BY <2>16 DEF StartDelete, stores, OptEntity
  <2>17. CASE DropMentions
    BY <2>17 DEF DropMentions, OptEntity
  <2>18. CASE DropNode
    BY <2>18 DEF DropNode, OptEntity
  <2>19. CASE DeleteFails
    BY <2>19 DEF DeleteFails, stores, OptEntity
  <2>20. CASE UNCHANGED vars
    BY <2>20 DEF vars
  <2>. QED
    BY <2>1, <2>2, <2>3, <2>4, <2>5, <2>6, <2>7, <2>8, <2>9, <2>10, <2>11, <2>12,
       <2>13, <2>14, <2>15, <2>16, <2>17, <2>18, <2>19, <2>20 DEF Next, Handler
<1>. QED
  BY <1>1, <1>2, PTL DEF Spec

-----------------------------------------------------------------------------
(* Evidence first *)

(* A request that has reached the status flip has its evidence recorded,   *)
(* by itself or by a rival that was faster.                                *)
FlipIsRecorded ==
  \A r \in Requests : req[r].pc = "flip" => decision[req[r].cand] # NoDecision

(* Only RecordDecision enters "flip", and only SetStatus, leaving it,      *)
(* makes a row terminal.                                                   *)
EvidenceInv == EvidenceBeforeTerminal /\ FlipIsRecorded

(* What any step but those two leaves alone keeps EvidenceInv: no decision *)
(* is lost, no row becomes terminal, no request arrives at "flip".         *)
LEMMA EvidenceFrame ==
  ASSUME EvidenceInv,
         \A c \in Candidates : decision[c] # NoDecision => decision'[c] # NoDecision,
         \A c \in Candidates :
           row'[c].status \in Terminal => row[c].status \in Terminal,
         \A s \in Requests :
           req'[s].pc = "flip" => req[s].pc = "flip" /\ req'[s].cand = req[s].cand,
         \A s \in Requests : req[s].pc # "idle" => req[s].cand \in Candidates
  PROVE  EvidenceInv'
<1>1. EvidenceBeforeTerminal'
  BY DEF EvidenceInv, EvidenceBeforeTerminal
<1>2. FlipIsRecorded'
  BY DEF EvidenceInv, FlipIsRecorded
<1>. QED
  BY <1>1, <1>2 DEF EvidenceInv

(* A decided candidate has its evidence row, whatever the interleaving of  *)
(* decisions, crashes and deletions.                                       *)
THEOREM EvidenceFirst == Spec => []EvidenceBeforeTerminal
<1>1. Init => EvidenceInv
  <2>. SUFFICES ASSUME Init PROVE EvidenceInv
    OBVIOUS
  <2>1. ASSUME NEW c \in Candidates PROVE row[c].status = "review-queued"
    <3>1. \/ row[c] \in [status : {"review-queued"}, proposal : {"merge"},
                         target : Seeds]
          \/ row[c] = [status |-> "review-queued", proposal |-> "new",
                       target |-> NoEntity]
      BY DEF Init
    <3>. QED
      BY <3>1
  <2>2. \A r \in Requests : req[r].pc = "idle"
    BY IdleGood DEF Init
  <2>. QED
    BY <2>1, <2>2 DEF EvidenceInv, EvidenceBeforeTerminal, FlipIsRecorded, Terminal
<1>2. TypeOK /\ EvidenceInv /\ [Next]_vars => EvidenceInv'
  <2>. SUFFICES ASSUME TypeOK, EvidenceInv, [Next]_vars PROVE EvidenceInv'
    OBVIOUS
  <2>1. /\ req \in [Requests -> Request]
        /\ \A s \in Requests : req[s].pc # "idle" => req[s].cand \in Candidates
        /\ row \in [Candidates -> Row]
        /\ decision \in [Candidates -> Decision \cup {NoDecision}]
    BY DEF TypeOK
  <2>2. \A q \in Request : DOMAIN q = {"pc", "cand", "ask", "seen", "shown",
                                     "outcome", "entity", "pend"}
    BY DEF Request
  <2>3. Idle \in Request /\ Idle.pc = "idle"
    BY IdleGood
  <2>4. ASSUME NEW r \in Requests, Submit(r) PROVE EvidenceInv'
    <3>1. UNCHANGED <<row, decision>>
      BY <2>4 DEF Submit, stores
    <3>2. \A s \in Requests : req'[s] = req[s] \/ req'[s].pc = "load"
      BY <2>4, <2>1, <2>2, <2>3 DEF Submit
    <3>. QED
      BY <2>1, <3>1, <3>2, EvidenceFrame
  <2>5. ASSUME NEW r \in Requests,
               \/ LoadNothingToDo(r) \/ RematchDone(r) \/ Fail(r)
        PROVE  EvidenceInv'
    <3>1. UNCHANGED <<row, decision>> /\ Finish(r)
      BY <2>5 DEF LoadNothingToDo, RematchDone, Fail, stores
    <3>2. \A s \in Requests : req'[s] = req[s] \/ req'[s] = Idle
      BY <2>1, <3>1 DEF Finish
    <3>. QED
      BY <2>1, <2>3, <3>1, <3>2, EvidenceFrame
  <2>6. ASSUME NEW r \in Requests, LoadReject(r) \/ LoadMerge(r) \/ LoadCreate(r)
        PROVE  EvidenceInv'
    <3>1. UNCHANGED <<row, decision>>
      BY <2>6 DEF LoadReject, LoadMerge, LoadCreate, stores
    <3>2. PICK pc \in {"record", "check", "write"} :
            \E outcome, entity : Loaded(r, pc, outcome, entity)
      BY <2>6 DEF LoadReject, LoadMerge, LoadCreate
    <3>3. \A s \in Requests : req'[s] = req[s] \/ req'[s].pc = pc
      BY <2>1, <2>2, <2>3, <3>2 DEF Loaded
    <3>. QED
      BY <2>1, <3>1, <3>3, EvidenceFrame
  <2>7. ASSUME NEW r \in Requests,
               \/ CheckTarget(r) \/ AddAlias(r) \/ CreateEntity(r) \/ AddMention(r)
               \/ ListPending(r)
        PROVE  EvidenceInv'
    <3>1. UNCHANGED <<row, decision>>
      BY <2>7 DEF CheckTarget, AddAlias, CreateEntity, AddMention, ListPending, stores
    <3>2. \A s \in Requests : req'[s] = req[s] \/ req'[s].pc # "flip"
      BY <2>1, <2>3, <2>7 DEF Finish, CheckTarget, AddAlias, CreateEntity, AddMention,
           ListPending, Request
    <3>. QED
      BY <2>1, <3>1, <3>2, EvidenceFrame
  <2>8. ASSUME NEW r \in Requests, RecordDecision(r) PROVE EvidenceInv'
    <3>. DEFINE c == req[r].cand
    <3>1. c \in Candidates /\ UNCHANGED row
      BY <2>8, <2>1 DEF RecordDecision
    <3>2. [decision |-> req[r].outcome, target |-> req[r].entity,
           shown |-> req[r].shown] \in Decision
      BY <2>8, <2>1 DEF Request, Decision
    <3>3. /\ decision'[c] # NoDecision
          /\ \A d \in Candidates : decision[d] # NoDecision => decision'[d] # NoDecision
      BY <2>8, <2>1, <3>1, <3>2, ConstantsAssumption
         DEF RecordDecision, ConstantsAssumption
    <3>4. \A s \in Requests :
            \/ req'[s] = req[s]
            \/ s = r /\ req'[s].cand = c
      BY <2>8, <2>1 DEF RecordDecision, Request
    <3>. QED
      BY <2>1, <3>1, <3>3, <3>4
         DEF EvidenceInv, EvidenceBeforeTerminal, FlipIsRecorded
  <2>9. ASSUME NEW r \in Requests, SetStatus(r) PROVE EvidenceInv'
    <3>. DEFINE c == req[r].cand
    <3>1. c \in Candidates /\ UNCHANGED decision /\ decision[c] # NoDecision
      BY <2>9, <2>1 DEF SetStatus, EvidenceInv, FlipIsRecorded
    <3>2. \A d \in Candidates : d # c => row'[d] = row[d]
      BY <2>9, <2>1 DEF SetStatus
    <3>3. \A s \in Requests : req'[s] = req[s] \/ req'[s].pc # "flip"
      BY <2>9, <2>1, <2>2, <2>3, ZenonT(40) DEF SetStatus, Finish
    <3>. QED
      BY <2>1, <3>1, <3>2, <3>3
         DEF EvidenceInv, EvidenceBeforeTerminal, FlipIsRecorded
  <2>10. ASSUME NEW r \in Requests, UpdateProposal(r) PROVE EvidenceInv'
    <3>1. UNCHANGED decision /\ req[r].pc = "rematch"
      BY <2>10 DEF UpdateProposal
    <3>2. \A d \in Candidates : row'[d].status = row[d].status
      BY <2>10, <2>1 DEF UpdateProposal, Row
    <3>3. \A s \in Requests : req'[s].pc = req[s].pc /\ req'[s].cand = req[s].cand
      BY <2>10, <2>1 DEF UpdateProposal, Request
    <3>. QED
      BY <2>1, <3>1, <3>2, <3>3, EvidenceFrame
  <2>11. ASSUME UNCHANGED <<row, decision, req>> PROVE EvidenceInv'
    BY <2>11 DEF EvidenceInv, EvidenceBeforeTerminal, FlipIsRecorded
  <2>. QED
    BY <2>4, <2>5, <2>6, <2>7, <2>8, <2>9, <2>10, <2>11
       DEF Next, Handler, StartDelete, DropMentions, DropNode, DeleteFails, stores, vars
<1>. QED
  BY <1>1, <1>2, TypeCorrect, PTL DEF Spec, EvidenceInv

-----------------------------------------------------------------------------
(* The graph half *)

InGraph(e) == e \in nodes \cup deleted

(* The entity carries the candidate's surface form, or the author deleted it. *)
Carries(e, c) == e \in deleted \/ (e \in nodes /\ c \in aliases[e])

(* What a request may rely on: past its write, its entity is in the graph  *)
(* and, for a merge, carries the alias; before it, a create knows its id   *)
(* and a merge has seen its target.                                        *)
RequestInGraph(q) ==
  /\ q.pc = "check" => q.outcome = "merged"
  /\ q.pc \in {"write", "mention"} => q.outcome \in Committed
  /\ q.pc \in {"write", "mention", "record", "flip"} /\ q.outcome = "created"
       => q.entity = AcceptedEntity(q.cand)
  /\ q.pc = "write" /\ q.outcome = "merged" => InGraph(q.entity)
  /\ q.pc \in {"mention", "record", "flip"} =>
       /\ q.outcome = "created" => InGraph(q.entity)
       /\ q.outcome = "merged" => Carries(q.entity, q.cand)

GraphInv ==
  /\ CommittedIsInGraph
  /\ \A r \in Requests : RequestInGraph(req[r])
  /\ editor.pc = "node" => editor.entity \in deleted

(* Nothing leaves the graph but by a deletion, which "deleted" remembers.  *)
LEMMA GraphGrows ==
  ASSUME TypeOK, GraphInv, [Next]_vars
  PROVE  /\ \A e : InGraph(e) => InGraph(e)'
         /\ \A e, c : Carries(e, c) => Carries(e, c)'
<1>. USE DEF InGraph, Carries
<1>1. nodes \subseteq EntityId /\ aliases \in [EntityId -> SUBSET Candidates]
      /\ req \in [Requests -> Request] /\ editor.pc # "idle" => editor.entity \in EntityId
  BY DEF TypeOK
<1>2. CASE UNCHANGED <<nodes, aliases, deleted>>
  BY <1>2
<1>3. ASSUME NEW r \in Requests, AddAlias(r)
      PROVE  /\ UNCHANGED <<nodes, deleted>>
             /\ \A e \in nodes : aliases[e] \subseteq aliases'[e]
  BY <1>1, <1>3 DEF AddAlias
<1>4. ASSUME NEW r \in Requests, CreateEntity(r)
      PROVE  nodes \subseteq nodes' /\ UNCHANGED <<aliases, deleted>>
  BY <1>4 DEF CreateEntity
<1>5. CASE DropMentions
  BY <1>5 DEF DropMentions
<1>6. CASE DropNode
  <2>1. editor.entity \in deleted
    BY <1>6 DEF DropNode, GraphInv
  <2>2. \A e \in EntityId : e # editor.entity => aliases'[e] = aliases[e]
    BY <1>1, <1>6 DEF DropNode
  <2>. QED
    BY <1>1, <1>6, <2>1, <2>2 DEF DropNode
<1>7. \/ UNCHANGED <<nodes, aliases, deleted>>
      \/ \E r \in Requests : AddAlias(r) \/ CreateEntity(r)
      \/ DropMentions \/ DropNode
  BY ZenonT(40) DEF Next, Handler, Submit, LoadNothingToDo, LoadReject, LoadMerge, LoadCreate,
         CheckTarget, AddMention, RecordDecision, SetStatus, ListPending, UpdateProposal,
         RematchDone, Fail, StartDelete, DeleteFails, stores, vars
<1>. QED
  BY <1>2, <1>3, <1>4, <1>5, <1>6, <1>7

(* A request that does not move keeps what it relies on.                   *)
LEMMA RequestKept ==
  ASSUME \A e : InGraph(e) => InGraph(e)',
         \A e, c : Carries(e, c) => Carries(e, c)',
         NEW q, RequestInGraph(q)
  PROVE  RequestInGraph(q)'
  BY DEF RequestInGraph

(* A row that does not change, or is not committed, keeps its graph half.  *)
LEMMA RowsKept ==
  ASSUME CommittedIsInGraph,
         \A e : InGraph(e) => InGraph(e)',
         \A e, c : Carries(e, c) => Carries(e, c)',
         \A c \in Candidates :
           row'[c].status \in Committed =>
             row'[c].status = row[c].status /\ row'[c].target = row[c].target
  PROVE  CommittedIsInGraph'
  BY DEF CommittedIsInGraph, InGraph, Carries, Committed

(* Each half of a commit finds the other: a created row has its node, a    *)
(* merged row a target that carries the alias, unless the author deleted   *)
(* the entity; two tabs, a crash or a retry cannot separate them.          *)
THEOREM CommittedInGraph == Spec => []CommittedIsInGraph
<1>1. Init => GraphInv
  <2>. SUFFICES ASSUME Init PROVE GraphInv
    OBVIOUS
  <2>1. ASSUME NEW c \in Candidates PROVE row[c].status = "review-queued"
    <3>1. \/ row[c] \in [status : {"review-queued"}, proposal : {"merge"},
                         target : Seeds]
          \/ row[c] = [status |-> "review-queued", proposal |-> "new",
                       target |-> NoEntity]
      BY DEF Init
    <3>. QED
      BY <3>1
  <2>2. \A r \in Requests : req[r].pc = "idle"
    BY IdleGood DEF Init
  <2>3. editor.pc = "idle"
    BY DEF Init
  <2>. QED
    BY <2>1, <2>2, <2>3 DEF GraphInv, CommittedIsInGraph, RequestInGraph
<1>2. TypeOK /\ GraphInv /\ [Next]_vars => GraphInv'
  <2>. SUFFICES ASSUME TypeOK, GraphInv, [Next]_vars PROVE GraphInv'
    OBVIOUS
  <2>0. /\ req \in [Requests -> Request]
        /\ \A s \in Requests : req[s].pc # "idle" => req[s].cand \in Candidates
        /\ row \in [Candidates -> Row]
        /\ aliases \in [EntityId -> SUBSET Candidates]
    BY DEF TypeOK
  <2>1. \A q \in Request : DOMAIN q = {"pc", "cand", "ask", "seen", "shown",
                                     "outcome", "entity", "pend"}
    BY DEF Request
  <2>2. Idle \in Request /\ Idle.pc = "idle"
    BY IdleGood
  <2>3. /\ \A e : InGraph(e) => InGraph(e)'
        /\ \A e, c : Carries(e, c) => Carries(e, c)'
    BY GraphGrows
  <2>4. /\ CommittedIsInGraph
        /\ \A s \in Requests : RequestInGraph(req[s])
        /\ editor.pc = "node" => editor.entity \in deleted
    BY DEF GraphInv
  <2>5. \A s \in Requests : RequestInGraph(req[s])
                            /\ (req'[s] = req[s] => RequestInGraph(req[s])')
    <3>1. \A s \in Requests : LET q == req[s] IN RequestInGraph(q)
      BY <2>4
    <3>. QED
      BY <2>3, <2>4 DEF RequestInGraph
  <2>6. ASSUME NEW s \in Requests,
               req'[s].pc \notin {"check", "write", "mention", "record", "flip"}
        PROVE  RequestInGraph(req[s])'
    BY <2>6 DEF RequestInGraph
  <2>7. (editor.pc = "node" => editor.entity \in deleted)'
    <3>0. DropNode \/ DeleteFails \/ (\E e \in Deletable : StartDelete(e))
            => editor'.pc # "node"
      BY DEF DropNode, DeleteFails, StartDelete
    <3>1. \/ UNCHANGED <<editor, deleted>>
          \/ DropMentions
          \/ DropNode \/ DeleteFails \/ \E e \in Deletable : StartDelete(e)
      BY ZenonT(40) DEF Next, Handler, Submit, LoadNothingToDo, LoadReject, LoadMerge,
         LoadCreate, CheckTarget, AddAlias, CreateEntity, AddMention, RecordDecision,
         SetStatus, ListPending, UpdateProposal, RematchDone, Fail, vars
    <3>2. DropMentions => editor'.entity = editor.entity /\ editor.entity \in deleted'
      BY DEF DropMentions, TypeOK
    <3>. QED
      BY <2>4, <3>0, <3>1, <3>2
  <2>. SUFFICES CommittedIsInGraph' /\ \A s \in Requests : RequestInGraph(req[s])'
    BY <2>7 DEF GraphInv
  <2>. DEFINE Goal == CommittedIsInGraph' /\ \A s \in Requests : RequestInGraph(req[s])'
  <2>8. ASSUME NEW r \in Requests,
               \/ Submit(r) \/ LoadNothingToDo(r) \/ ListPending(r) \/ RematchDone(r)
               \/ Fail(r)
        PROVE  Goal
    <3>1. UNCHANGED row
      BY <2>8 DEF Submit, LoadNothingToDo, ListPending, RematchDone, Fail, stores
    <3>2. \A s \in Requests :
            \/ req'[s] = req[s]
            \/ req'[s].pc \in {"load", "idle", "rematch"}
      <4>1. CASE Submit(r)
        BY <4>1, <2>0, <2>1, <2>2 DEF Submit
      <4>2. CASE Finish(r)
        BY <4>2, <2>0, <2>2 DEF Finish
      <4>3. CASE ListPending(r)
        BY <4>3, <2>0, <2>1 DEF ListPending
      <4>. QED
        BY <2>8, <4>1, <4>2, <4>3 DEF LoadNothingToDo, RematchDone, Fail
    <3>. QED
      BY <2>3, <2>4, <2>5, <2>6, <3>1, <3>2, RowsKept
  <2>9. ASSUME NEW r \in Requests, LoadReject(r) \/ LoadMerge(r) \/ LoadCreate(r)
        PROVE  Goal
    <3>1. UNCHANGED row
      BY <2>9 DEF LoadReject, LoadMerge, LoadCreate, stores
    <3>2. PICK pc, outcome, entity :
            /\ Loaded(r, pc, outcome, entity)
            /\ \/ pc = "record" /\ outcome = "rejected"
               \/ pc = "check" /\ outcome = "merged"
               \/ pc = "write" /\ outcome = "created"
                    /\ entity = AcceptedEntity(req[r].cand)
      BY <2>9 DEF LoadReject, LoadMerge, LoadCreate
    <3>3. \A s \in Requests :
            \/ req'[s] = req[s]
            \/ /\ req'[s].pc = pc /\ req'[s].outcome = outcome
               /\ req'[s].entity = entity /\ req'[s].cand = req[r].cand
      BY <2>0, <2>1, <2>2, <3>2 DEF Loaded
    <3>4. \A s \in Requests : req'[s] # req[s] => RequestInGraph(req[s])'
      BY <3>2, <3>3 DEF RequestInGraph, Committed
    <3>. QED
      BY <2>3, <2>4, <2>5, <3>1, <3>4, RowsKept
  <2>10. ASSUME NEW r \in Requests, CheckTarget(r) PROVE Goal
    <3>1. UNCHANGED <<row, nodes, deleted>> /\ req[r].pc = "check"
      BY <2>10 DEF CheckTarget, stores
    <3>2. \A s \in Requests :
            \/ req'[s] = req[s]
            \/ req'[s].pc = "idle"
            \/ /\ s = r /\ req'[s].pc = "write" /\ req'[s].outcome = req[r].outcome
               /\ req'[s].entity = req[r].entity /\ req[r].entity \in nodes
      BY <2>10, <2>0, <2>1, <2>2 DEF CheckTarget, Finish
    <3>3. req[r].outcome = "merged"
      BY <2>4, <3>1 DEF RequestInGraph
    <3>4. \A s \in Requests : req'[s] # req[s] => RequestInGraph(req[s])'
      BY <3>1, <3>2, <3>3 DEF RequestInGraph, InGraph, Committed
    <3>. QED
      BY <2>3, <2>4, <2>5, <3>1, <3>4, RowsKept
  <2>11. ASSUME NEW r \in Requests, AddAlias(r) PROVE Goal
    <3>1. /\ UNCHANGED <<row, nodes, deleted>>
          /\ req[r].pc = "write" /\ req[r].outcome = "merged"
          /\ req[r].cand \in Candidates
      BY <2>11, <2>0 DEF AddAlias
    <3>2. InGraph(req[r].entity)
      BY <2>4, <3>1 DEF RequestInGraph
    <3>3. Carries(req[r].entity, req[r].cand)'
      <4>1. req'[r].entity = req[r].entity /\ req'[r].cand = req[r].cand
        BY <2>11, <2>0, <2>1 DEF AddAlias
      <4>2. req[r].entity \in nodes =>
              req[r].entity \in EntityId /\ req[r].cand \in aliases'[req[r].entity]
        BY <2>11, <2>0 DEF AddAlias, TypeOK
      <4>. QED
        BY <3>1, <3>2, <4>1, <4>2 DEF InGraph, Carries
    <3>4. \A s \in Requests :
            \/ req'[s] = req[s]
            \/ /\ s = r /\ req'[s].pc = "mention" /\ req'[s].outcome = "merged"
               /\ req'[s].entity = req[r].entity /\ req'[s].cand = req[r].cand
      BY <2>11, <2>0, <2>1 DEF AddAlias
    <3>5. \A s \in Requests : req'[s] # req[s] => RequestInGraph(req[s])'
      BY <3>3, <3>4 DEF RequestInGraph, Committed
    <3>. QED
      BY <2>3, <2>4, <2>5, <3>1, <3>5, RowsKept
  <2>12. ASSUME NEW r \in Requests, CreateEntity(r) PROVE Goal
    <3>1. /\ UNCHANGED row /\ nodes' = nodes \cup {req[r].entity}
          /\ req[r].pc = "write" /\ req[r].outcome = "created"
      BY <2>12 DEF CreateEntity
    <3>2. req[r].entity = AcceptedEntity(req[r].cand)
      BY <2>4, <3>1 DEF RequestInGraph
    <3>3. \A s \in Requests :
            \/ req'[s] = req[s]
            \/ /\ s = r /\ req'[s].pc = "mention" /\ req'[s].outcome = "created"
               /\ req'[s].entity = req[r].entity /\ req'[s].cand = req[r].cand
      BY <2>12, <2>0, <2>1 DEF CreateEntity
    <3>4. \A s \in Requests : req'[s] # req[s] => RequestInGraph(req[s])'
      BY <3>1, <3>2, <3>3 DEF RequestInGraph, Committed, InGraph
    <3>. QED
      BY <2>3, <2>4, <2>5, <3>1, <3>4, RowsKept
  <2>13. ASSUME NEW r \in Requests, AddMention(r) \/ RecordDecision(r) PROVE Goal
    <3>1. UNCHANGED <<row, nodes, aliases, deleted>> /\ req[r].pc \in {"mention", "record"}
      BY <2>13 DEF AddMention, RecordDecision
    <3>2. \A s \in Requests :
            \/ req'[s] = req[s]
            \/ /\ s = r /\ req'[s].pc \in {"record", "flip"}
               /\ req'[s].outcome = req[r].outcome
               /\ req'[s].entity = req[r].entity /\ req'[s].cand = req[r].cand
      BY <2>13, <2>0, <2>1 DEF AddMention, RecordDecision
    <3>3. \A s \in Requests : req'[s] # req[s] => RequestInGraph(req[s])'
      BY <2>4, <3>1, <3>2 DEF RequestInGraph, Committed, InGraph, Carries
    <3>. QED
      BY <2>3, <2>4, <2>5, <3>1, <3>3, RowsKept
  <2>14. ASSUME NEW r \in Requests, SetStatus(r) PROVE Goal
    <3>. DEFINE c == req[r].cand
    <3>1. /\ UNCHANGED <<nodes, aliases, deleted>>
          /\ req[r].pc = "flip" /\ c \in Candidates
          /\ req[r].outcome \in Terminal
      BY <2>14, <2>0 DEF SetStatus, Request
    <3>2. /\ \A d \in Candidates : d # c => row'[d] = row[d]
          /\ row'[c].status = req[r].outcome
          /\ req[r].outcome = "merged" => row'[c].target = req[r].entity
      <4>1. row[c] \in Row
        BY <2>0, <3>1
      <4>2. row' = [row EXCEPT ![c] = [@ EXCEPT !.status = req[r].outcome,
                      !.target = IF req[r].outcome = "merged"
                                   THEN req[r].entity ELSE row[c].target]]
        BY <2>14, <2>0, <3>1 DEF SetStatus
      <4>. QED
        BY <2>0, <3>1, <4>1, <4>2 DEF Row
    <3>3. \A s \in Requests : req'[s] = req[s] \/ req'[s].pc \in {"idle", "list"}
      BY <2>14, <2>0, <2>1, <2>2, ZenonT(40) DEF SetStatus, Finish
    <3>4. /\ req[r].outcome = "created" =>
               req[r].entity = AcceptedEntity(c) /\ InGraph(req[r].entity)
          /\ req[r].outcome = "merged" => Carries(req[r].entity, c)
      BY <2>4, <3>1 DEF RequestInGraph
    <3>5. CommittedIsInGraph'
      BY <2>4, <3>1, <3>2, <3>4 DEF CommittedIsInGraph, InGraph, Carries
    <3>. QED
      BY <2>5, <2>6, <3>3, <3>5
  <2>15. ASSUME NEW r \in Requests, UpdateProposal(r) PROVE Goal
    <3>1. PICK c \in req[r].pend :
            /\ row' = IF row[c].status = "review-queued"
                        THEN [row EXCEPT ![c].proposal = "merge",
                                         ![c].target = req[r].entity]
                        ELSE row
            /\ req' = [req EXCEPT ![r].pend = @ \ {c}]
      BY <2>15 DEF UpdateProposal
    <3>2. \A d \in Candidates :
            \/ row'[d] = row[d]
            \/ row'[d].status = "review-queued"
      BY <2>0, <3>1 DEF Row
    <3>3. \A s \in Requests : req'[s] = req[s] \/ req'[s].pc = "rematch"
      BY <2>15, <2>0, <2>1, <3>1 DEF UpdateProposal
    <3>4. CommittedIsInGraph'
      BY <2>3, <2>4, <3>2, RowsKept DEF Committed
    <3>. QED
      BY <2>5, <2>6, <3>3, <3>4
  <2>16. ASSUME UNCHANGED <<row, req>> PROVE Goal
    BY <2>3, <2>4, <2>5, <2>16, RowsKept
  <2>. QED
    BY <2>8, <2>9, <2>10, <2>11, <2>12, <2>13, <2>14, <2>15, <2>16
       DEF Next, Handler, StartDelete, DropMentions, DropNode, DeleteFails, stores, vars
<1>. QED
  BY <1>1, <1>2, TypeCorrect, PTL DEF Spec, GraphInv

-----------------------------------------------------------------------------
(* The mention *)

(* While nothing has been deleted, a request past its mention has one in   *)
(* the store: its own, or that of a request that was faster.               *)
PastMention ==
  \A r \in Requests :
    req[r].pc \in {"record", "flip"} /\ req[r].outcome # "rejected" /\ deleted = {}
      => mention[req[r].cand] # NoEntity

MentionInv == CommittedIsMentioned /\ PastMention

(* What a step may do that neither arrives past the mention, nor commits a *)
(* row, nor loses a mention before the first deletion.                     *)
LEMMA MentionFrame ==
  ASSUME MentionInv,
         deleted' = {} => deleted = {},
         \A c \in Candidates :
           deleted' = {} /\ mention[c] # NoEntity => mention'[c] # NoEntity,
         \A c \in Candidates :
           row'[c].status \in Committed => row[c].status \in Committed,
         \A s \in Requests :
           \/ req'[s].pc \notin {"record", "flip"} \/ req'[s].outcome = "rejected"
           \/ /\ req[s].pc \in {"record", "flip"}
              /\ req'[s].outcome = req[s].outcome /\ req'[s].cand = req[s].cand
              /\ req[s].cand \in Candidates
  PROVE  MentionInv'
<1>1. CommittedIsMentioned'
  BY DEF MentionInv, CommittedIsMentioned
<1>2. PastMention'
  BY DEF MentionInv, PastMention
<1>. QED
  BY <1>1, <1>2 DEF MentionInv

(* A committed candidate keeps its occurrence in the text until the author *)
(* deletes an entity: the mention is written before the status, and no     *)
(* retry or rival takes it back.                                           *)
THEOREM CommittedMentioned == Spec => []CommittedIsMentioned
<1>1. Init => MentionInv
  <2>. SUFFICES ASSUME Init PROVE MentionInv
    OBVIOUS
  <2>1. ASSUME NEW c \in Candidates PROVE row[c].status = "review-queued"
    <3>1. \/ row[c] \in [status : {"review-queued"}, proposal : {"merge"},
                         target : Seeds]
          \/ row[c] = [status |-> "review-queued", proposal |-> "new",
                       target |-> NoEntity]
      BY DEF Init
    <3>. QED
      BY <3>1
  <2>2. \A r \in Requests : req[r].pc = "idle"
    BY IdleGood DEF Init
  <2>. QED
    BY <2>1, <2>2 DEF MentionInv, CommittedIsMentioned, PastMention, Committed
<1>2. TypeOK /\ MentionInv /\ [Next]_vars => MentionInv'
  <2>. SUFFICES ASSUME TypeOK, MentionInv, [Next]_vars PROVE MentionInv'
    OBVIOUS
  <2>0. /\ req \in [Requests -> Request]
        /\ \A s \in Requests : req[s].pc # "idle" => req[s].cand \in Candidates
        /\ row \in [Candidates -> Row]
        /\ mention \in [Candidates -> OptEntity]
    BY DEF TypeOK
  <2>1. Idle \in Request /\ Idle.pc = "idle"
    BY IdleGood
  <2>2. ASSUME NEW r \in Requests,
               \/ Submit(r) \/ LoadNothingToDo(r) \/ LoadReject(r) \/ LoadMerge(r)
               \/ LoadCreate(r) \/ CheckTarget(r) \/ AddAlias(r) \/ CreateEntity(r)
               \/ ListPending(r) \/ RematchDone(r) \/ Fail(r)
        PROVE  MentionInv'
    <3>1. UNCHANGED <<row, mention, deleted>>
      BY <2>2 DEF Submit, LoadNothingToDo, LoadReject, LoadMerge, LoadCreate, CheckTarget,
         AddAlias, CreateEntity, ListPending, RematchDone, Fail, stores
    <3>2. \A s \in Requests :
            \/ req'[s] = req[s]
            \/ req'[s].pc \notin {"record", "flip"}
            \/ req'[s].outcome = "rejected"
      <4>1. CASE Submit(r)
        BY <4>1, <2>0, <2>1 DEF Submit, Request
      <4>2. CASE Finish(r)
        BY <4>2, <2>0, <2>1 DEF Finish
      <4>3. CASE LoadReject(r) \/ LoadMerge(r) \/ LoadCreate(r)
        <5>1. PICK pc, outcome, entity :
                /\ Loaded(r, pc, outcome, entity)
                /\ pc \in {"check", "write"} \/ outcome = "rejected"
          BY <4>3 DEF LoadReject, LoadMerge, LoadCreate
        <5>. QED
          BY <5>1, <2>0, <2>1 DEF Loaded, Request
      <4>4. CASE CheckTarget(r)
        BY <4>4, <2>0, <2>1 DEF CheckTarget, Finish, Request
      <4>5. CASE AddAlias(r) \/ CreateEntity(r) \/ ListPending(r)
        BY <4>5, <2>0 DEF AddAlias, CreateEntity, ListPending, Request
      <4>. QED
        BY <2>2, <4>1, <4>2, <4>3, <4>4, <4>5 DEF LoadNothingToDo, RematchDone, Fail
    <3>. QED
      BY <2>0, <3>1, <3>2, MentionFrame, SMTT(30)
  <2>3. ASSUME NEW r \in Requests, AddMention(r) PROVE MentionInv'
    <3>. DEFINE c == req[r].cand
    <3>1. /\ UNCHANGED <<row, deleted>> /\ c \in Candidates
          /\ req[r].entity # NoEntity
      BY <2>3, <2>0, ConstantsAssumption DEF AddMention, TypeOK, ConstantsAssumption
    <3>2. /\ mention'[c] # NoEntity
          /\ \A d \in Candidates : mention[d] # NoEntity => mention'[d] # NoEntity
      BY <2>0, <2>3, <3>1 DEF AddMention
    <3>3. \A s \in Requests : req'[s] = req[s] \/ req'[s].cand = c
      BY <2>0, <2>3 DEF AddMention, Request
    <3>4. CommittedIsMentioned'
      BY <3>1, <3>2 DEF MentionInv, CommittedIsMentioned
    <3>5. PastMention'
      BY <2>0, <3>1, <3>2, <3>3 DEF MentionInv, PastMention
    <3>. QED
      BY <3>4, <3>5 DEF MentionInv
  <2>4. ASSUME NEW r \in Requests, RecordDecision(r) PROVE MentionInv'
    <3>1. UNCHANGED <<row, mention, deleted>> /\ req[r].pc = "record"
      BY <2>4 DEF RecordDecision
    <3>2. \A s \in Requests :
            \/ req'[s] = req[s]
            \/ s = r /\ req'[s].outcome = req[r].outcome /\ req'[s].cand = req[r].cand
      BY <2>0, <2>4 DEF RecordDecision, Request
    <3>. QED
      BY <2>0, <3>1, <3>2, MentionFrame
  <2>5. ASSUME NEW r \in Requests, SetStatus(r) PROVE MentionInv'
    <3>. DEFINE c == req[r].cand
    <3>1. /\ UNCHANGED <<mention, deleted>> /\ c \in Candidates /\ req[r].pc = "flip"
      BY <2>0, <2>5 DEF SetStatus
    <3>2. /\ \A d \in Candidates : d # c => row'[d] = row[d]
          /\ row'[c].status = req[r].outcome
      BY <2>0, <2>5, <3>1 DEF SetStatus, Row
    <3>3. \A s \in Requests : req'[s] = req[s] \/ req'[s].pc \notin {"record", "flip"}
      BY <2>0, <2>1, <2>5, ZenonT(40) DEF SetStatus, Finish, Request
    <3>4. CommittedIsMentioned'
      BY <3>1, <3>2 DEF MentionInv, CommittedIsMentioned, PastMention, Committed
    <3>5. PastMention'
      BY <3>1, <3>3 DEF MentionInv, PastMention
    <3>. QED
      BY <3>4, <3>5 DEF MentionInv
  <2>6. ASSUME NEW r \in Requests, UpdateProposal(r) PROVE MentionInv'
    <3>1. UNCHANGED <<mention, deleted>>
      BY <2>6 DEF UpdateProposal
    <3>2. \A d \in Candidates : row'[d].status = row[d].status
      BY <2>0, <2>6 DEF UpdateProposal, Row
    <3>3. \A s \in Requests : req'[s] = req[s] \/ req'[s].pc = "rematch"
      BY <2>0, <2>6 DEF UpdateProposal, Request
    <3>. QED
      BY <2>0, <3>1, <3>2, <3>3, MentionFrame
  <2>7. CASE DropMentions
    <3>1. deleted' # {} /\ UNCHANGED <<row, req>>
      BY <2>7 DEF DropMentions
    <3>. QED
      BY <3>1 DEF MentionInv, CommittedIsMentioned, PastMention
  <2>8. ASSUME UNCHANGED <<row, mention, req, deleted>> PROVE MentionInv'
    BY <2>8 DEF MentionInv, CommittedIsMentioned, PastMention
  <2>. QED
    BY <2>2, <2>3, <2>4, <2>5, <2>6, <2>7, <2>8
       DEF Next, Handler, StartDelete, DropNode, DeleteFails, stores, vars
<1>. QED
  BY <1>1, <1>2, TypeCorrect, PTL DEF Spec, MentionInv

-----------------------------------------------------------------------------
(* Step properties *)

(* The first decision recorded for a candidate stays its evidence.         *)
THEOREM FirstDecisionStands == Spec => DecisionsStand
<1>. DEFINE Stands == \A c \in Candidates :
                        decision[c] # NoDecision => decision'[c] = decision[c]
<1>1. TypeOK /\ [Next]_vars => [Stands]_vars
  <2>. SUFFICES ASSUME TypeOK, [Next]_vars PROVE Stands
    OBVIOUS
  <2>1. decision \in [Candidates -> Decision \cup {NoDecision}]
    BY DEF TypeOK
  <2>2. ASSUME NEW r \in Requests, RecordDecision(r) PROVE Stands
    BY <2>1, <2>2 DEF RecordDecision
  <2>3. CASE UNCHANGED decision
    BY <2>3
  <2>4. UNCHANGED decision \/ \E r \in Requests : RecordDecision(r)
    BY ZenonT(40) DEF Next, Handler, Submit, LoadNothingToDo, LoadReject, LoadMerge, LoadCreate,
       CheckTarget, AddAlias, CreateEntity, AddMention, SetStatus, ListPending,
       UpdateProposal, RematchDone, Fail, StartDelete, DropMentions, DropNode,
       DeleteFails, stores, vars
  <2>. QED
    BY <2>2, <2>3, <2>4
<1>. QED
  BY <1>1, TypeCorrect, PTL DEF Spec, DecisionsStand

(* The request that takes a step is the only one whose record changes; so  *)
(* a request that moves out of, or within, "rematch" takes UpdateProposal, *)
(* RematchDone or Fail, and of these only the first writes a row.          *)
THEOREM RematchSpares == Spec => RematchSparesDecided
<1>. DEFINE Spares == \A r \in Requests, c \in Candidates :
              req[r].pc = "rematch" /\ req'[r] # req[r] /\ row[c].status \in Terminal
                => row'[c] = row[c]
<1>1. TypeOK /\ [Next]_vars => [Spares]_vars
  <2>. SUFFICES ASSUME TypeOK, [Next]_vars,
                       NEW r \in Requests, NEW c \in Candidates,
                       req[r].pc = "rematch", req'[r] # req[r],
                       row[c].status \in Terminal
                PROVE  row'[c] = row[c]
    OBVIOUS
  <2>1. req \in [Requests -> Request] /\ row \in [Candidates -> Row]
    BY DEF TypeOK
  <2>2. CASE UNCHANGED row
    BY <2>2
  <2>3. ASSUME NEW s \in Requests, SetStatus(s) PROVE FALSE
    <3>1. req[s].pc = "flip"
      BY <2>3 DEF SetStatus
    <3>2. s # r
      BY <3>1
    <3>. QED
      BY <2>1, <2>3, <3>2 DEF SetStatus, Finish
  <2>4. ASSUME NEW s \in Requests, UpdateProposal(s) PROVE row'[c] = row[c]
    BY <2>1, <2>4 DEF UpdateProposal, Terminal
  <2>5. \/ UNCHANGED row
        \/ \E s \in Requests : SetStatus(s) \/ UpdateProposal(s)
    BY ZenonT(40) DEF Next, Handler, Submit, LoadNothingToDo, LoadReject, LoadMerge, LoadCreate,
       CheckTarget, AddAlias, CreateEntity, AddMention, RecordDecision, ListPending,
       RematchDone, Fail, StartDelete, DropMentions, DropNode, DeleteFails, stores, vars
  <2>. QED
    BY <2>2, <2>3, <2>4, <2>5
<1>. QED
  BY <1>1, TypeCorrect, PTL DEF Spec, RematchSparesDecided

-----------------------------------------------------------------------------
(* One request at a time *)

(* What the only request relies on: between its read and its flip nobody   *)
(* decides its row, and the rows it has yet to flip are still NEW.         *)
Alone(q) ==
  /\ q.pc \in {"check", "write", "mention", "record", "flip"}
       => row[q.cand].status = "review-queued"
  /\ q.pc = "flip" => decision[q.cand] # NoDecision
  /\ q.pc = "rematch" =>
       \A c \in q.pend : row[c].status = "review-queued" /\ row[c].proposal = "new"

SerialInv == \A r \in Requests : Alone(req[r])

LEMMA InitQueued ==
  ASSUME Init, NEW c \in Candidates
  PROVE  row[c] \in [status : {"review-queued"}, proposal : {"new", "merge"},
                     target : OptEntity]
<1>1. \/ row[c] \in [status : {"review-queued"}, proposal : {"merge"},
                     target : Seeds]
      \/ row[c] = [status |-> "review-queued", proposal |-> "new",
                   target |-> NoEntity]
  BY DEF Init
<1>. QED
  BY <1>1 DEF OptEntity, EntityId

(* Each step of the only request is a lifecycle step or a stutter.         *)
THEOREM SerialReview ==
  ASSUME NEW r, Requests = {r}
  PROVE  Spec => ImplementsLifecycle
<1>. DEFINE Evidence == {c \in Candidates : decision[c] # NoDecision}
<1>1. Init => SerialInv /\ Lifecycle!LifecycleInit
  <2>. SUFFICES ASSUME Init PROVE SerialInv /\ Lifecycle!LifecycleInit
    OBVIOUS
  <2>1. SerialInv
    BY IdleGood DEF Init, SerialInv, Alone
  <2>2. row \in [Candidates -> [status : {"review-queued"},
                                proposal : {"new", "merge"},
                                target : EntityId \cup {NoEntity}]]
    <3>1. \A c \in Candidates : row[c] \in [status : {"review-queued"},
                                proposal : {"new", "merge"}, target : OptEntity]
      BY InitQueued
    <3>2. DOMAIN row = Candidates /\ row = [c \in Candidates |-> row[c]]
      BY DEF Init
    <3>. QED
      BY <3>1, <3>2 DEF OptEntity
  <2>3. Evidence = {}
    BY DEF Init
  <2>. QED
    BY <2>1, <2>2, <2>3 DEF Lifecycle!LifecycleInit
<1>2. TypeOK /\ TypeOK' /\ SerialInv /\ [Next]_vars
        => SerialInv' /\ [Lifecycle!LifecycleNext]_(Lifecycle!lifecycleVars)
  <2>. SUFFICES ASSUME TypeOK, TypeOK', SerialInv, [Next]_vars
                PROVE  SerialInv' /\ [Lifecycle!LifecycleNext]_(Lifecycle!lifecycleVars)
    OBVIOUS
  <2>. DEFINE q == req[r]
              c == q.cand
              Same == UNCHANGED <<row, decision>>
  <2>1. /\ req \in [Requests -> Request] /\ q \in Request
        /\ q.pc # "idle" => c \in Candidates
        /\ row \in [Candidates -> Row]
        /\ decision \in [Candidates -> Decision \cup {NoDecision}]
        /\ req' \in [Requests -> Request]
    BY DEF TypeOK
  <2>2. Alone(q)
    BY DEF SerialInv
  <2>3. ASSUME Alone(req[r])' PROVE SerialInv'
    BY <2>3 DEF SerialInv
  <2>4. Same => UNCHANGED Lifecycle!lifecycleVars
    BY DEF Lifecycle!lifecycleVars
  <2>. DEFINE Step == SerialInv' /\ [Lifecycle!LifecycleNext]_(Lifecycle!lifecycleVars)
  <2>5. ASSUME Same, req'[r].pc \in {"idle", "load", "list"} PROVE Step
    BY <2>3, <2>4, <2>5 DEF Alone
  <2>6. CASE Submit(r)
    <3>1. req'[r].pc = "load"
      BY <2>1, <2>6, IdleGood DEF Submit, Request
    <3>. QED
      BY <2>5, <2>6, <3>1 DEF Submit, stores
  <2>7. CASE LoadNothingToDo(r) \/ RematchDone(r) \/ Fail(r)
    <3>1. Same /\ Finish(r)
      BY <2>7 DEF LoadNothingToDo, RematchDone, Fail, stores
    <3>. QED
      BY <2>1, <2>5, <3>1, IdleGood DEF Finish
  <2>8. CASE LoadReject(r) \/ LoadMerge(r) \/ LoadCreate(r)
    <3>1. /\ Same /\ row[c].status = "review-queued"
          /\ \E pc \in {"record", "check", "write"} :
               \E outcome, entity : Loaded(r, pc, outcome, entity)
      BY <2>8 DEF LoadReject, LoadMerge, LoadCreate, stores
    <3>2. req'[r].pc \in {"record", "check", "write"} /\ req'[r].cand = c
      BY <2>1, <3>1, IdleGood DEF Loaded, Request
    <3>. QED
      BY <2>3, <2>4, <3>1, <3>2 DEF Alone
  <2>9. CASE CheckTarget(r) \/ AddAlias(r) \/ CreateEntity(r) \/ AddMention(r)
    <3>1. Same /\ row[c].status = "review-queued"
      BY <2>2, <2>9 DEF CheckTarget, AddAlias, CreateEntity, AddMention, stores, Alone
    <3>2. \/ req'[r].pc \in {"write", "mention", "record"} /\ req'[r].cand = c
          \/ req'[r].pc = "idle"
      BY <2>1, <2>9, IdleGood
         DEF CheckTarget, AddAlias, CreateEntity, AddMention, Finish, Request
    <3>. QED
      BY <2>3, <2>4, <2>5, <3>1, <3>2 DEF Alone
  <2>10. CASE RecordDecision(r)
    <3>1. UNCHANGED row /\ c \in Candidates /\ row[c].status = "review-queued"
      BY <2>1, <2>2, <2>10 DEF RecordDecision, Alone
    <3>2. [decision |-> q.outcome, target |-> q.entity, shown |-> q.shown] \in Decision
      BY <2>1 DEF Request, Decision
    <3>3. /\ decision'[c] # NoDecision
          /\ \A d \in Candidates : d # c => decision'[d] = decision[d]
      BY <2>1, <2>10, <3>1, <3>2, ConstantsAssumption
         DEF RecordDecision, ConstantsAssumption
    <3>4. Evidence' = Evidence \cup {c}
      BY <3>1, <3>3
    <3>5. Lifecycle!Record(c)
      BY <3>1, <3>4 DEF Lifecycle!Record, Lifecycle!Queued
    <3>6. req'[r].pc = "flip" /\ req'[r].cand = c
      BY <2>1, <2>10 DEF RecordDecision, Request
    <3>7. Alone(req[r])'
      BY <3>1, <3>3, <3>6 DEF Alone
    <3>8. Lifecycle!LifecycleNext
      BY <3>1, <3>5 DEF Lifecycle!LifecycleNext, Lifecycle!Record
    <3>. QED
      BY <2>3, <3>7, <3>8
  <2>11. CASE SetStatus(r)
    <3>1. /\ UNCHANGED decision /\ c \in Candidates
          /\ row[c].status = "review-queued" /\ decision[c] # NoDecision
          /\ q.outcome \in Terminal
      BY <2>1, <2>2, <2>11 DEF SetStatus, Alone, Request
    <3>2. q.outcome = "merged" => q.entity \in EntityId
      BY <2>11 DEF SetStatus, TypeOK
    <3>3. req'[r].pc \in {"idle", "list"}
      <4>1. DOMAIN Idle = {"pc", "cand", "ask", "seen", "shown",
                           "outcome", "entity", "pend"}
        BY IdleGood DEF Request
      <4>. QED
        BY <2>1, <2>11, <4>1, IdleGood, ZenonT(40) DEF SetStatus, Finish
    <3>4. Lifecycle!Decide(c)
      <4>1. CASE q.outcome = "merged"
        <5>1. row' = [row EXCEPT ![c].status = "merged", ![c].target = q.entity]
          BY <2>11, <4>1 DEF SetStatus
        <5>. QED
          BY <3>1, <3>2, <4>1, <5>1 DEF Lifecycle!Decide, Lifecycle!Queued
      <4>2. CASE q.outcome \in {"created", "rejected"}
        <5>1. row' = [row EXCEPT ![c].status = q.outcome]
          BY <2>1, <2>11, <3>1, <4>2 DEF SetStatus, Row
        <5>. QED
          BY <3>1, <4>2, <5>1 DEF Lifecycle!Decide, Lifecycle!Queued
      <4>. QED
        BY <3>1, <4>1, <4>2 DEF Terminal, Status
    <3>. QED
      BY <2>3, <3>1, <3>3, <3>4 DEF Alone, Lifecycle!LifecycleNext
  <2>12. CASE ListPending(r)
    <3>1. Same
      BY <2>12 DEF ListPending, stores
    <3>2. /\ req'[r].pc = "rematch"
          /\ req'[r].pend \subseteq {d \in Candidates : /\ row[d].status = "review-queued"
                                                       /\ row[d].proposal = "new"}
      BY <2>1, <2>12 DEF ListPending, Request
    <3>. QED
      BY <2>3, <2>4, <3>1, <3>2 DEF Alone
  <2>13. CASE UpdateProposal(r)
    <3>1. PICK d \in q.pend :
            /\ row' = IF row[d].status = "review-queued"
                        THEN [row EXCEPT ![d].proposal = "merge",
                                         ![d].target = q.entity]
                        ELSE row
            /\ req' = [req EXCEPT ![r].pend = @ \ {d}]
      BY <2>13 DEF UpdateProposal
    <3>2. /\ UNCHANGED decision /\ q.pc = "rematch" /\ q.entity \in EntityId
          /\ d \in Candidates /\ q.pend \subseteq Candidates
      BY <2>1, <2>13 DEF UpdateProposal, Request, TypeOK
    <3>3. row[d].status = "review-queued" /\ row[d].proposal = "new"
      BY <2>2, <3>2 DEF Alone
    <3>4. Lifecycle!Suggest(d)
      BY <3>1, <3>2, <3>3 DEF Lifecycle!Suggest, Lifecycle!Queued
    <3>5. \A x \in Candidates : x # d => row'[x] = row[x]
      BY <2>1, <3>1
    <3>6. req'[r].pc = "rematch" /\ req'[r].pend = q.pend \ {d}
      BY <2>1, <3>1, <3>2 DEF Request
    <3>. QED
      BY <2>2, <2>3, <3>2, <3>4, <3>5, <3>6 DEF Alone, Lifecycle!LifecycleNext
  <2>14. ASSUME Same, UNCHANGED req PROVE Step
    BY <2>2, <2>3, <2>4, <2>14 DEF Alone
  <2>. QED
    BY <2>6, <2>7, <2>8, <2>9, <2>10, <2>11, <2>12, <2>13, <2>14
       DEF Next, Handler, StartDelete, DropMentions, DropNode, DeleteFails, stores, vars
<1>. QED
  BY <1>1, <1>2, TypeCorrect, PTL
     DEF Spec, ImplementsLifecycle, Lifecycle!LifecycleSpec

-----------------------------------------------------------------------------
(* Requests that agree *)

Explicit(a) ==
  \/ a.act \in {"create", "reject"}
  \/ a.act = "merge" /\ a.target # NoEntity

(* A double submit, or a retry: all the requests for a candidate ask the   *)
(* same explicit thing, and no entity is deleted meanwhile.                *)
RequestsAgree ==
  /\ \A c \in Candidates : \E a : Asks[c] = {a} /\ Explicit(a)
  /\ Deletable = {}

(* What the requests for a candidate ask, and what that makes of it.       *)
Wanted(c) == CHOOSE a : Asks[c] = {a}
Outcome(c) ==
  CASE Wanted(c).act = "create" -> "created"
    [] Wanted(c).act = "merge"  -> "merged"
    [] OTHER                    -> "rejected"
Target(c) == IF Wanted(c).act = "create" THEN AcceptedEntity(c) ELSE Wanted(c).target

LEMMA WantedIsAsked ==
  ASSUME RequestsAgree, NEW c \in Candidates
  PROVE  /\ Asks[c] = {Wanted(c)} /\ Explicit(Wanted(c)) /\ Wanted(c) \in Ask
         /\ Outcome(c) \in Terminal
         /\ Outcome(c) # "rejected" => Target(c) \in EntityId /\ Target(c) # NoEntity
<1>1. \E a : Asks[c] = {a} /\ Explicit(a)
  BY DEF RequestsAgree
<1>2. Asks[c] = {Wanted(c)}
  BY <1>1 DEF Wanted
<1>3. Explicit(Wanted(c))
  BY <1>1, <1>2
<1>4. Wanted(c) \in Ask
  BY <1>2, ConstantsAssumption DEF ConstantsAssumption
<1>5. Outcome(c) \in Terminal
  BY DEF Outcome, Terminal, Status
<1>6. Outcome(c) # "rejected" => Target(c) \in EntityId
  BY <1>3, <1>4 DEF Outcome, Target, Explicit, Ask, OptEntity, EntityId
<1>. QED
  BY <1>2, <1>3, <1>4, <1>5, <1>6, ConstantsAssumption DEF ConstantsAssumption

(* What is in the stores says what was asked.                              *)
DecisionAgrees(c) ==
  decision[c] # NoDecision =>
    /\ decision[c].decision = Outcome(c)
    /\ Outcome(c) # "rejected" => decision[c].target = Target(c)
MentionAgrees(c) ==
  mention[c] # NoEntity => Outcome(c) # "rejected" /\ mention[c] = Target(c)
RowAgrees(c) ==
  row[c].status \in Terminal =>
    /\ row[c].status = Outcome(c)
    /\ decision[c] # NoDecision
    /\ Outcome(c) = "merged" => row[c].target = Target(c)
    /\ Outcome(c) # "rejected" => mention[c] # NoEntity
NodeAgrees(c) == Outcome(c) # "created" => AcceptedEntity(c) \notin nodes

(* What a request has in mind is what was asked, and what it has passed is *)
(* in the stores.                                                          *)
RequestAgrees(q) ==
  /\ q.pc = "load" => q.ask = Wanted(q.cand)
  /\ q.pc \in {"check", "write", "mention", "record", "flip"} =>
       /\ q.outcome = Outcome(q.cand)
       /\ Outcome(q.cand) # "rejected" => q.entity = Target(q.cand)
       /\ Outcome(q.cand) = "created" => q.entity = AcceptedEntity(q.cand)
  /\ q.pc \in {"check", "write", "mention"} => Outcome(q.cand) # "rejected"
  /\ q.pc \in {"record", "flip"} /\ Outcome(q.cand) # "rejected" =>
       mention[q.cand] # NoEntity
  /\ q.pc = "flip" => decision[q.cand] # NoDecision
  /\ q.pc \in {"list", "rematch"} =>
       Outcome(q.cand) # "rejected" /\ q.entity = Target(q.cand)

AgreeInv ==
  /\ \A c \in Candidates :
       DecisionAgrees(c) /\ MentionAgrees(c) /\ RowAgrees(c) /\ NodeAgrees(c)
  /\ \A r \in Requests : req[r].pc # "idle" => RequestAgrees(req[r])
  /\ editor.pc = "idle"

(* What agrees one by one agrees together.                                 *)
LEMMA AgreeInvGivesStoresAgree ==
  ASSUME AgreeInv, RequestsAgree
  PROVE  StoresAgree
<1>. SUFFICES ASSUME NEW c \in Candidates
              PROVE  /\ row[c].status \in Terminal => decision[c].decision = row[c].status
                     /\ row[c].status \in Committed =>
                          /\ decision[c].target = CommittedEntity(c)
                          /\ mention[c] = CommittedEntity(c)
                     /\ row[c].status \in {"merged", "rejected"}
                          => AcceptedEntity(c) \notin nodes
  BY DEF StoresAgree
<1>1. DecisionAgrees(c) /\ MentionAgrees(c) /\ RowAgrees(c) /\ NodeAgrees(c)
  BY DEF AgreeInv
<1>2. row[c].status \in Terminal => decision[c].decision = row[c].status
  BY <1>1 DEF DecisionAgrees, RowAgrees
<1>3. ASSUME row[c].status \in Committed
      PROVE  decision[c].target = CommittedEntity(c) /\ mention[c] = CommittedEntity(c)
  <2>1. row[c].status = Outcome(c) /\ Outcome(c) # "rejected"
    BY <1>1, <1>3 DEF RowAgrees, Committed, Terminal, Status
  <2>2. decision[c].target = Target(c) /\ mention[c] = Target(c)
    BY <1>1, <1>3, <2>1 DEF RowAgrees, DecisionAgrees, MentionAgrees, Committed, Terminal, Status
  <2>3. CommittedEntity(c) = Target(c)
    BY <1>1, <1>3, <2>1, WantedIsAsked
       DEF RowAgrees, CommittedEntity, Committed, Terminal, Status, Outcome, Target, Explicit
  <2>. QED
    BY <2>2, <2>3
<1>4. row[c].status \in {"merged", "rejected"} => AcceptedEntity(c) \notin nodes
  BY <1>1 DEF RowAgrees, NodeAgrees, Terminal, Status
<1>. QED
  BY <1>2, <1>3, <1>4

(* A step after which a candidate's stores say no less and nothing else    *)
(* than before keeps what every request relies on.                         *)
LEMMA RequestAgreesKept ==
  ASSUME NEW q, q.cand \in Candidates, RequestAgrees(q),
         \A c \in Candidates : mention[c] # NoEntity => mention'[c] # NoEntity,
         \A c \in Candidates : decision[c] # NoDecision => decision'[c] # NoDecision
  PROVE  RequestAgrees(q)'
  BY DEF RequestAgrees

LEMMA AgreeInit ==
  ASSUME Init
  PROVE  AgreeInv
<1>1. \A c \in Candidates : row[c].status = "review-queued"
  BY InitQueued
<1>2. \A c \in Candidates : AcceptedEntity(c) \notin nodes
  BY ConstantsAssumption DEF Init, ConstantsAssumption
<1>3. \A r \in Requests : req[r].pc = "idle"
  BY IdleGood DEF Init
<1>4. \A c \in Candidates : RowAgrees(c)
  BY <1>1 DEF RowAgrees, Terminal
<1>. QED
  BY <1>2, <1>3, <1>4 DEF Init, AgreeInv, DecisionAgrees, MentionAgrees, NodeAgrees

(* One request moves; the others keep what they rely on.                   *)
LEMMA AgreeStep ==
  ASSUME TypeOK, AgreeInv, NEW r \in Requests,
         \A s \in Requests : s # r => req'[s] = req[s],
         \A c \in Candidates : mention[c] # NoEntity => mention'[c] # NoEntity,
         \A c \in Candidates : decision[c] # NoDecision => decision'[c] # NoDecision,
         req'[r].pc # "idle" => RequestAgrees(req[r])',
         \A c \in Candidates :
           (DecisionAgrees(c) /\ MentionAgrees(c) /\ RowAgrees(c) /\ NodeAgrees(c))',
         UNCHANGED editor
  PROVE  AgreeInv'
<1>1. ASSUME NEW s \in Requests, s # r, req'[s].pc # "idle" PROVE RequestAgrees(req[s])'
  <2>1. req[s].cand \in Candidates /\ RequestAgrees(req[s])
    BY <1>1 DEF TypeOK, AgreeInv
  <2>2. RequestAgrees(req[s])' <=> \E q : q = req[s] /\ RequestAgrees(q)'
    BY <1>1 DEF RequestAgrees
  <2>. QED
    BY <2>1, <2>2, RequestAgreesKept
<1>. QED
  BY <1>1 DEF AgreeInv

(* Each step of requests that agree keeps them in agreement.               *)
LEMMA AgreeNext ==
  ASSUME RequestsAgree, TypeOK, TypeOK', AgreeInv, [Next]_vars
  PROVE  AgreeInv'
<1>0. /\ req \in [Requests -> Request] /\ req' \in [Requests -> Request]
      /\ \A s \in Requests : req[s].pc # "idle" => req[s].cand \in Candidates
      /\ row \in [Candidates -> Row] /\ mention \in [Candidates -> OptEntity]
      /\ decision \in [Candidates -> Decision \cup {NoDecision}]
      /\ Idle \in Request /\ Idle.pc = "idle" /\ editor.pc = "idle"
  BY IdleGood DEF TypeOK, AgreeInv
<1>1. \A c \in Candidates :
        DecisionAgrees(c) /\ MentionAgrees(c) /\ RowAgrees(c) /\ NodeAgrees(c)
  BY DEF AgreeInv
<1>2. UNCHANGED <<row, decision, mention, nodes>> =>
        \A c \in Candidates :
          (DecisionAgrees(c) /\ MentionAgrees(c) /\ RowAgrees(c) /\ NodeAgrees(c))'
  BY <1>1 DEF DecisionAgrees, MentionAgrees, RowAgrees, NodeAgrees
<1>3. ASSUME NEW r \in Requests, Submit(r) PROVE AgreeInv'
  <2>1. UNCHANGED <<row, decision, mention, nodes, editor>>
    BY <1>3 DEF Submit, stores
  <2>2. PICK c \in Candidates : \E a \in Asks[c] :
          req' = [req EXCEPT ![r] = [Idle EXCEPT !.pc = "load", !.cand = c,
                                                 !.ask = a, !.seen = ProposalOf(c)]]
    BY <1>3 DEF Submit
  <2>3. PICK a \in Asks[c] :
          req' = [req EXCEPT ![r] = [Idle EXCEPT !.pc = "load", !.cand = c,
                                                 !.ask = a, !.seen = ProposalOf(c)]]
    BY <2>2
  <2>4. a = Wanted(c)
    BY <2>3, WantedIsAsked
  <2>5. req'[r].pc = "load" /\ req'[r].cand = c /\ req'[r].ask = Wanted(c)
    BY <1>0, <2>3, <2>4 DEF Request
  <2>6. RequestAgrees(req[r])'
    BY <2>5 DEF RequestAgrees
  <2>. QED
    BY <1>0, <1>2, <2>1, <2>3, <2>6, AgreeStep
<1>4. ASSUME NEW r \in Requests, LoadNothingToDo(r) \/ RematchDone(r) \/ Fail(r)
      PROVE  AgreeInv'
  <2>1. UNCHANGED <<row, decision, mention, nodes, editor>> /\ Finish(r)
    BY <1>4 DEF LoadNothingToDo, RematchDone, Fail, stores
  <2>. QED
    BY <1>0, <1>2, <2>1, AgreeStep DEF Finish
<1>5. ASSUME NEW r \in Requests, LoadReject(r) \/ LoadMerge(r) \/ LoadCreate(r)
      PROVE  AgreeInv'
  <2>. DEFINE c == req[r].cand
              a == req[r].ask
  <2>1. /\ UNCHANGED <<row, decision, mention, nodes, editor>>
        /\ c \in Candidates /\ a = Wanted(c) /\ Explicit(a)
    BY <1>0, <1>5, WantedIsAsked DEF LoadReject, LoadMerge, LoadCreate, stores,
       AgreeInv, RequestAgrees
  <2>2. PICK pc, outcome, entity :
          /\ Loaded(r, pc, outcome, entity)
          /\ \/ pc = "record" /\ outcome = "rejected" /\ a.act = "reject"
             \/ pc = "check" /\ outcome = "merged" /\ a.act = "merge" /\ entity = a.target
             \/ pc = "write" /\ outcome = "created" /\ a.act = "create"
                  /\ entity = AcceptedEntity(c)
    BY <1>5, <2>1 DEF LoadReject, LoadMerge, LoadCreate, ResolvesToMerge, MergeTarget,
       Explicit
  <2>3. /\ req'[r].pc = pc /\ req'[r].cand = c /\ req'[r].outcome = outcome
        /\ req'[r].entity = entity
        /\ \A s \in Requests : s # r => req'[s] = req[s]
    BY <1>0, <2>2 DEF Loaded, Request
  <2>4. RequestAgrees(req[r])'
    BY <2>1, <2>2, <2>3 DEF RequestAgrees, Outcome, Target
  <2>. QED
    BY <1>0, <1>2, <2>1, <2>3, <2>4, AgreeStep
<1>6. ASSUME NEW r \in Requests, CheckTarget(r) \/ AddAlias(r) PROVE AgreeInv'
  <2>1. /\ UNCHANGED <<row, decision, mention, nodes, editor>>
        /\ req[r].pc \in {"check", "write"} /\ RequestAgrees(req[r])
    BY <1>6 DEF CheckTarget, AddAlias, stores, AgreeInv
  <2>2. /\ \/ req'[r].pc = "idle"
           \/ /\ req'[r].pc \in {"write", "mention"} /\ req'[r].cand = req[r].cand
              /\ req'[r].outcome = req[r].outcome /\ req'[r].entity = req[r].entity
        /\ \A s \in Requests : s # r => req'[s] = req[s]
    BY <1>0, <1>6 DEF CheckTarget, AddAlias, Finish, Request
  <2>3. req'[r].pc # "idle" => RequestAgrees(req[r])'
    BY <2>1, <2>2 DEF RequestAgrees
  <2>. QED
    BY <1>0, <1>2, <2>1, <2>2, <2>3, AgreeStep
<1>7. ASSUME NEW r \in Requests, CreateEntity(r) PROVE AgreeInv'
  <2>. DEFINE c == req[r].cand
  <2>1. /\ UNCHANGED <<row, decision, mention, editor>> /\ c \in Candidates
        /\ req[r].pc = "write" /\ req[r].outcome = "created" /\ RequestAgrees(req[r])
        /\ nodes' = nodes \cup {req[r].entity}
    BY <1>0, <1>7 DEF CreateEntity, AgreeInv
  <2>2. Outcome(c) = "created" /\ req[r].entity = AcceptedEntity(c)
    BY <2>1 DEF RequestAgrees
  <2>3. /\ req'[r].pc = "mention" /\ req'[r].cand = c
        /\ req'[r].outcome = req[r].outcome /\ req'[r].entity = req[r].entity
        /\ \A s \in Requests : s # r => req'[s] = req[s]
    BY <1>0, <1>7 DEF CreateEntity, Request
  <2>4. RequestAgrees(req[r])'
    BY <2>1, <2>2, <2>3 DEF RequestAgrees
  <2>5. \A d \in Candidates : NodeAgrees(d)'
    <3>1. ASSUME NEW d \in Candidates, Outcome(d) # "created"
          PROVE  AcceptedEntity(d) \notin nodes'
      BY <1>1, <2>1, <2>2, <3>1 DEF NodeAgrees, AcceptedEntity
    <3>. QED
      BY <3>1 DEF NodeAgrees
  <2>6. \A d \in Candidates : (DecisionAgrees(d) /\ MentionAgrees(d) /\ RowAgrees(d))'
    BY <1>1, <2>1 DEF DecisionAgrees, MentionAgrees, RowAgrees
  <2>. QED
    BY <2>1, <2>3, <2>4, <2>5, <2>6, AgreeStep
<1>8. ASSUME NEW r \in Requests, AddMention(r) PROVE AgreeInv'
  <2>. DEFINE c == req[r].cand
  <2>1. /\ UNCHANGED <<row, decision, nodes, editor>> /\ c \in Candidates
        /\ req[r].pc = "mention" /\ RequestAgrees(req[r])
        /\ mention' = IF mention[c] = NoEntity
                        THEN [mention EXCEPT ![c] = req[r].entity] ELSE mention
    BY <1>0, <1>8 DEF AddMention, AgreeInv
  <2>2. Outcome(c) # "rejected" /\ req[r].entity = Target(c) /\ Target(c) # NoEntity
    BY <2>1, WantedIsAsked DEF RequestAgrees
  <2>3. /\ req'[r].pc = "record" /\ req'[r].cand = c
        /\ req'[r].outcome = req[r].outcome /\ req'[r].entity = req[r].entity
        /\ \A s \in Requests : s # r => req'[s] = req[s]
    BY <1>0, <1>8 DEF AddMention, Request
  <2>4. /\ mention'[c] # NoEntity
        /\ \A d \in Candidates : mention'[d] = mention[d] \/ (d = c /\ mention'[d] = Target(c))
        /\ \A d \in Candidates : mention[d] # NoEntity => mention'[d] # NoEntity
    BY <1>0, <2>1, <2>2
  <2>5. RequestAgrees(req[r])'
    BY <2>1, <2>2, <2>3, <2>4 DEF RequestAgrees
  <2>6. \A d \in Candidates :
          (DecisionAgrees(d) /\ MentionAgrees(d) /\ RowAgrees(d) /\ NodeAgrees(d))'
    BY <1>1, <2>1, <2>2, <2>4 DEF DecisionAgrees, MentionAgrees, RowAgrees, NodeAgrees
  <2>. QED
    BY <2>1, <2>3, <2>4, <2>5, <2>6, AgreeStep
<1>9. ASSUME NEW r \in Requests, RecordDecision(r) PROVE AgreeInv'
  <2>. DEFINE c == req[r].cand
              d0 == [decision |-> req[r].outcome, target |-> req[r].entity,
                     shown |-> req[r].shown]
  <2>1. /\ UNCHANGED <<row, mention, nodes, editor>> /\ c \in Candidates
        /\ req[r].pc = "record" /\ RequestAgrees(req[r])
        /\ decision' = IF decision[c] = NoDecision
                         THEN [decision EXCEPT ![c] = d0] ELSE decision
    BY <1>0, <1>9 DEF RecordDecision, AgreeInv
  <2>2. d0 \in Decision
    BY <1>0, <1>9 DEF RecordDecision, Request, Decision
  <2>3. /\ d0 # NoDecision
        /\ d0.decision = Outcome(c)
        /\ Outcome(c) # "rejected" => d0.target = Target(c)
    BY <2>1, <2>2, ConstantsAssumption DEF RequestAgrees, ConstantsAssumption
  <2>. HIDE DEF d0
  <2>4. /\ req'[r].pc = "flip" /\ req'[r].cand = c
        /\ req'[r].outcome = req[r].outcome /\ req'[r].entity = req[r].entity
        /\ \A s \in Requests : s # r => req'[s] = req[s]
    BY <1>0, <1>9 DEF RecordDecision, Request
  <2>5. /\ decision'[c] # NoDecision
        /\ \A d \in Candidates : decision'[d] = decision[d] \/ (d = c /\ decision'[d] = d0)
        /\ \A d \in Candidates : decision[d] # NoDecision => decision'[d] # NoDecision
    BY <1>0, <2>1, <2>3
  <2>6. RequestAgrees(req[r])'
    BY <2>1, <2>4, <2>5 DEF RequestAgrees
  <2>7. \A d \in Candidates : DecisionAgrees(d)'
    BY <1>1, <2>3, <2>5 DEF DecisionAgrees
  <2>8. \A d \in Candidates : (MentionAgrees(d) /\ RowAgrees(d) /\ NodeAgrees(d))'
    BY <1>1, <2>1, <2>5 DEF MentionAgrees, RowAgrees, NodeAgrees
  <2>. QED
    BY <2>1, <2>4, <2>5, <2>6, <2>7, <2>8, AgreeStep
<1>10. ASSUME NEW r \in Requests, SetStatus(r) PROVE AgreeInv'
  <2>. DEFINE c == req[r].cand
  <2>1. /\ UNCHANGED <<decision, mention, nodes, editor>> /\ c \in Candidates
        /\ req[r].pc = "flip" /\ RequestAgrees(req[r])
    BY <1>0, <1>10 DEF SetStatus, AgreeInv
  <2>2. /\ \A d \in Candidates : d # c => row'[d] = row[d]
        /\ row'[c].status = req[r].outcome
        /\ req[r].outcome = "merged" => row'[c].target = req[r].entity
    <3>1. row[c] \in Row
      BY <1>0, <2>1
    <3>2. row' = [row EXCEPT ![c] = [@ EXCEPT !.status = req[r].outcome,
                    !.target = IF req[r].outcome = "merged"
                                 THEN req[r].entity ELSE row[c].target]]
      BY <1>0, <1>10, <2>1 DEF SetStatus
    <3>. QED
      BY <1>0, <2>1, <3>1, <3>2 DEF Row
  <2>3. /\ \A s \in Requests : s # r => req'[s] = req[s]
        /\ \/ req'[r].pc = "idle"
           \/ /\ req[r].outcome # "rejected" /\ req'[r].pc = "list"
              /\ req'[r].cand = c /\ req'[r].entity = req[r].entity
    <3>1. CASE Finish(r)
      BY <1>0, <3>1 DEF Finish
    <3>2. CASE /\ req[r].outcome # "rejected"
               /\ req' = [req EXCEPT ![r] = [Idle EXCEPT
                          !.pc = "list", !.cand = c, !.entity = req[r].entity]]
      BY <1>0, <3>2 DEF Request
    <3>. QED
      BY <1>10, <3>1, <3>2 DEF SetStatus
  <2>4. req'[r].pc # "idle" => RequestAgrees(req[r])'
    BY <2>1, <2>3 DEF RequestAgrees
  <2>5. ASSUME NEW d \in Candidates, d = c PROVE RowAgrees(d)'
    BY <2>1, <2>2, <2>5 DEF RowAgrees, RequestAgrees
  <2>6. \A d \in Candidates : RowAgrees(d)'
    BY <1>1, <2>1, <2>2, <2>5 DEF RowAgrees
  <2>7. \A d \in Candidates : (DecisionAgrees(d) /\ MentionAgrees(d) /\ NodeAgrees(d))'
    BY <1>1, <2>1 DEF DecisionAgrees, MentionAgrees, NodeAgrees
  <2>. QED
    BY <2>1, <2>3, <2>4, <2>6, <2>7, AgreeStep
<1>11. ASSUME NEW r \in Requests, ListPending(r) \/ UpdateProposal(r) PROVE AgreeInv'
  <2>1. /\ UNCHANGED <<decision, mention, nodes, editor>>
        /\ req[r].pc \in {"list", "rematch"} /\ RequestAgrees(req[r])
    BY <1>11 DEF ListPending, UpdateProposal, stores, AgreeInv
  <2>2. /\ req'[r].pc = "rematch" /\ req'[r].cand = req[r].cand
        /\ req'[r].entity = req[r].entity
        /\ \A s \in Requests : s # r => req'[s] = req[s]
    <3>1. CASE ListPending(r)
      BY <1>0, <3>1 DEF ListPending, Request
    <3>2. CASE UpdateProposal(r)
      BY <1>0, <3>2 DEF UpdateProposal, Request
    <3>. QED
      BY <1>11, <3>1, <3>2
  <2>3. \A d \in Candidates : row'[d] = row[d] \/ row'[d].status = "review-queued"
    <3>1. CASE ListPending(r)
      BY <3>1 DEF ListPending, stores
    <3>2. CASE UpdateProposal(r)
      BY <1>0, <3>2 DEF UpdateProposal, Row
    <3>. QED
      BY <1>11, <3>1, <3>2
  <2>4. RequestAgrees(req[r])'
    BY <2>1, <2>2 DEF RequestAgrees
  <2>5. \A d \in Candidates : RowAgrees(d)'
    BY <1>1, <2>1, <2>3 DEF RowAgrees, Terminal
  <2>6. \A d \in Candidates : (DecisionAgrees(d) /\ MentionAgrees(d) /\ NodeAgrees(d))'
    BY <1>1, <2>1 DEF DecisionAgrees, MentionAgrees, NodeAgrees
  <2>. QED
    BY <2>1, <2>2, <2>4, <2>5, <2>6, AgreeStep
<1>12. CASE UNCHANGED vars
  BY <1>12 DEF vars, AgreeInv, DecisionAgrees, MentionAgrees, RowAgrees, NodeAgrees,
     RequestAgrees
<1>13. ~(DropMentions \/ DropNode \/ DeleteFails \/ \E e \in Deletable : StartDelete(e))
  BY <1>0 DEF DropMentions, DropNode, DeleteFails, RequestsAgree
<1>. QED
  BY <1>3, <1>4, <1>5, <1>6, <1>7, <1>8, <1>9, <1>10, <1>11, <1>12, <1>13
     DEF Next, Handler

(* Status, evidence, mention and graph tell one story, however many        *)
(* requests are in flight and wherever they die, if they agree on what     *)
(* they ask.                                                               *)
THEOREM AgreeingStores ==
  ASSUME RequestsAgree
  PROVE  Spec => []StoresAgree
<1>1. Init => AgreeInv
  BY AgreeInit
<1>2. TypeOK /\ TypeOK' /\ AgreeInv /\ [Next]_vars => AgreeInv'
  BY AgreeNext
<1>3. AgreeInv => StoresAgree
  BY AgreeInvGivesStoresAgree
<1>. QED
  BY <1>1, <1>2, <1>3, TypeCorrect, PTL DEF Spec

-----------------------------------------------------------------------------
(* The lifecycle, when requests agree *)

(* A pending card re-matches one accepted candidate at most: two would     *)
(* re-point its suggestion (NeverRepoints).                                *)
OneMatch ==
  \A c, a, b \in Candidates :
    <<c, a>> \in StrongMatch /\ <<c, b>> \in StrongMatch => a = b

(* A row still to be flipped is as it was listed, or has been flipped to   *)
(* the same entity by a twin, or has been decided.                         *)
ToFlip(q, c) ==
  /\ c \in Candidates /\ q.cand \in Candidates /\ <<c, q.cand>> \in StrongMatch
  /\ row[c].status = "review-queued" /\ row[c].proposal = "merge"
       => row[c].target = Target(q.cand)

RematchAgrees ==
  \A r \in Requests : req[r].pc = "rematch" => \A c \in req[r].pend : ToFlip(req[r], c)

(* Only ListPending fills a list, only UpdateProposal flips.               *)
LEMMA RematchAgreesNext ==
  ASSUME RequestsAgree, OneMatch, TypeOK, AgreeInv, RematchAgrees, [Next]_vars
  PROVE  RematchAgrees'
<1>0. /\ req \in [Requests -> Request] /\ row \in [Candidates -> Row]
      /\ \A s \in Requests : req[s].pc # "idle" => req[s].cand \in Candidates
      /\ Idle \in Request /\ Idle.pc = "idle"
  BY IdleGood DEF TypeOK
<1>. SUFFICES ASSUME NEW s \in Requests, req'[s].pc = "rematch", NEW c \in req'[s].pend
              PROVE  ToFlip(req[s], c)'
  BY DEF RematchAgrees
<1>1. ASSUME NEW r \in Requests, ListPending(r) PROVE ToFlip(req[s], c)'
  <2>1. UNCHANGED row /\ req[r].cand \in Candidates
    BY <1>0, <1>1 DEF ListPending, stores
  <2>2. CASE s = r
    <3>1. /\ req'[s].cand = req[s].cand
          /\ req'[s].pend = {d \in Candidates : /\ row[d].status = "review-queued"
                                                 /\ row[d].proposal = "new"
                                                 /\ <<d, req[s].cand>> \in StrongMatch}
      BY <1>0, <1>1, <2>2 DEF ListPending, Request
    <3>. QED
      BY <2>1, <2>2, <3>1 DEF ToFlip
  <2>3. CASE s # r
    BY <1>0, <1>1, <2>1, <2>3 DEF ListPending, RematchAgrees, ToFlip
  <2>. QED
    BY <2>2, <2>3
<1>2. ASSUME NEW r \in Requests, UpdateProposal(r) PROVE ToFlip(req[s], c)'
  <2>1. PICK d \in req[r].pend :
          /\ row' = IF row[d].status = "review-queued"
                      THEN [row EXCEPT ![d].proposal = "merge",
                                       ![d].target = req[r].entity]
                      ELSE row
          /\ req' = [req EXCEPT ![r].pend = @ \ {d}]
    BY <1>2 DEF UpdateProposal
  <2>2. /\ req[s].pc = "rematch" /\ req'[s].cand = req[s].cand /\ c \in req[s].pend
        /\ req[r].pc = "rematch"
    BY <1>0, <1>2, <2>1 DEF UpdateProposal, Request
  <2>3. ToFlip(req[s], c) /\ ToFlip(req[r], d) /\ req[r].entity = Target(req[r].cand)
    BY <2>1, <2>2 DEF RematchAgrees, AgreeInv, RequestAgrees
  <2>4. CASE c = d
    <3>1. req[r].cand = req[s].cand
      BY <2>3, <2>4 DEF ToFlip, OneMatch
    <3>2. row'[c] = row[c] \/ row'[c].target = Target(req[s].cand)
      BY <1>0, <2>1, <2>3, <2>4, <3>1 DEF Row, ToFlip
    <3>. QED
      BY <2>2, <2>3, <3>2 DEF ToFlip
  <2>5. CASE c # d
    <3>1. row'[c] = row[c]
      BY <1>0, <2>1, <2>3, <2>5 DEF ToFlip
    <3>. QED
      BY <2>2, <2>3, <3>1 DEF ToFlip
  <2>. QED
    BY <2>4, <2>5
<1>3. ASSUME NEW r \in Requests, SetStatus(r) PROVE ToFlip(req[s], c)'
  <2>1. req[r].pc = "flip" /\ req[r].cand \in Candidates /\ req[r].outcome \in Terminal
    BY <1>0, <1>3 DEF SetStatus, Request
  <2>2. /\ \A d \in Candidates : d # req[r].cand => row'[d] = row[d]
        /\ row'[req[r].cand].status \in Terminal
    BY <1>0, <1>3, <2>1 DEF SetStatus, Row
  <2>3. s # r
    <3>1. CASE Finish(r)
      BY <1>0, <3>1 DEF Finish
    <3>2. CASE req' = [req EXCEPT ![r] = [Idle EXCEPT
                         !.pc = "list", !.cand = req[r].cand, !.entity = req[r].entity]]
      BY <1>0, <3>2 DEF Request
    <3>. QED
      BY <1>3, <3>1, <3>2 DEF SetStatus
  <2>4. req'[s] = req[s]
    BY <1>0, <1>3, <2>3 DEF SetStatus, Finish
  <2>5. ToFlip(req[s], c)
    BY <2>4 DEF RematchAgrees
  <2>. QED
    BY <2>1, <2>2, <2>4, <2>5 DEF ToFlip, Terminal
<1>4. ASSUME UNCHANGED row, req'[s] = req[s] PROVE ToFlip(req[s], c)'
  BY <1>4 DEF RematchAgrees, ToFlip
<1>5. ASSUME NEW r \in Requests,
             \/ Submit(r) \/ LoadNothingToDo(r) \/ LoadReject(r) \/ LoadMerge(r)
             \/ LoadCreate(r) \/ CheckTarget(r) \/ AddAlias(r) \/ CreateEntity(r)
             \/ AddMention(r) \/ RecordDecision(r) \/ RematchDone(r) \/ Fail(r)
      PROVE  ToFlip(req[s], c)'
  <2>1. UNCHANGED row
    BY <1>5 DEF Submit, LoadNothingToDo, LoadReject, LoadMerge, LoadCreate, CheckTarget,
       AddAlias, CreateEntity, AddMention, RecordDecision, RematchDone, Fail, stores
  <2>2. req'[s] = req[s] \/ req'[s].pc # "rematch"
    <3>1. CASE Submit(r)
      BY <1>0, <3>1 DEF Submit, Request
    <3>2. CASE Finish(r)
      BY <1>0, <3>2 DEF Finish
    <3>3. CASE LoadReject(r) \/ LoadMerge(r) \/ LoadCreate(r)
      <4>1. \E pc \in {"record", "check", "write"} :
              \E outcome, entity : Loaded(r, pc, outcome, entity)
        BY <3>3 DEF LoadReject, LoadMerge, LoadCreate
      <4>. QED
        BY <1>0, <4>1 DEF Loaded, Request
    <3>4. CASE CheckTarget(r) \/ AddAlias(r) \/ CreateEntity(r)
      BY <1>0, <3>4 DEF CheckTarget, AddAlias, CreateEntity, Finish, Request
    <3>5. CASE AddMention(r) \/ RecordDecision(r)
      BY <1>0, <3>5 DEF AddMention, RecordDecision, Request
    <3>. QED
      BY <1>5, <3>1, <3>2, <3>3, <3>4, <3>5 DEF LoadNothingToDo, RematchDone, Fail
  <2>. QED
    BY <1>4, <2>1, <2>2, SMTT(30)
<1>. QED
  BY <1>1, <1>2, <1>3, <1>4, <1>5
     DEF Next, Handler, StartDelete, DropMentions, DropNode, DeleteFails, stores, vars

(* With any number of requests in flight that agree, every step is a       *)
(* lifecycle step or a stutter: the slower of two twins writes what is     *)
(* there already.                                                          *)
THEOREM AgreeingReview ==
  ASSUME RequestsAgree, OneMatch
  PROVE  Spec => ImplementsLifecycle
<1>. DEFINE Evidence == {c \in Candidates : decision[c] # NoDecision}
            Step == [Lifecycle!LifecycleNext]_(Lifecycle!lifecycleVars)
<1>1. Init => AgreeInv /\ RematchAgrees /\ Lifecycle!LifecycleInit
  <2>. SUFFICES ASSUME Init PROVE AgreeInv /\ RematchAgrees /\ Lifecycle!LifecycleInit
    OBVIOUS
  <2>1. RematchAgrees
    BY IdleGood DEF Init, RematchAgrees
  <2>2. row \in [Candidates -> [status : {"review-queued"},
                                proposal : {"new", "merge"},
                                target : EntityId \cup {NoEntity}]]
    <3>1. \A c \in Candidates : row[c] \in [status : {"review-queued"},
                                proposal : {"new", "merge"}, target : OptEntity]
      BY InitQueued
    <3>2. DOMAIN row = Candidates /\ row = [c \in Candidates |-> row[c]]
      BY DEF Init
    <3>. QED
      BY <3>1, <3>2 DEF OptEntity
  <2>3. Evidence = {}
    BY DEF Init
  <2>. QED
    BY <2>1, <2>2, <2>3, AgreeInit DEF Lifecycle!LifecycleInit
<1>2. TypeOK /\ TypeOK' /\ AgreeInv /\ RematchAgrees /\ [Next]_vars
        => AgreeInv' /\ RematchAgrees' /\ Step
  <2>. SUFFICES ASSUME TypeOK, TypeOK', AgreeInv, RematchAgrees, [Next]_vars PROVE Step
    BY AgreeNext, RematchAgreesNext
  <2>0. /\ req \in [Requests -> Request] /\ row \in [Candidates -> Row]
        /\ decision \in [Candidates -> Decision \cup {NoDecision}]
        /\ \A s \in Requests : req[s].pc # "idle" =>
             req[s].cand \in Candidates /\ RequestAgrees(req[s])
        /\ \A c \in Candidates : RowAgrees(c)
    BY DEF TypeOK, AgreeInv
  <2>1. UNCHANGED <<row, decision>> => Step
    BY DEF Lifecycle!lifecycleVars
  <2>2. ASSUME NEW r \in Requests, RecordDecision(r) PROVE Step
    <3>. DEFINE c == req[r].cand
    <3>1. UNCHANGED row /\ c \in Candidates /\ req[r] \in Request
      BY <2>0, <2>2 DEF RecordDecision
    <3>2. [decision |-> req[r].outcome, target |-> req[r].entity,
           shown |-> req[r].shown] \in Decision
      BY <3>1 DEF Request, Decision
    <3>3. CASE decision[c] # NoDecision
      BY <2>1, <2>2, <3>1, <3>3 DEF RecordDecision
    <3>4. CASE decision[c] = NoDecision
      <4>1. /\ decision'[c] # NoDecision
            /\ \A d \in Candidates : d # c => decision'[d] = decision[d]
        BY <2>0, <2>2, <3>1, <3>2, <3>4, ConstantsAssumption
           DEF RecordDecision, ConstantsAssumption
      <4>2. Evidence' = Evidence \cup {c}
        BY <3>1, <4>1
      <4>3. row[c].status = "review-queued"
        BY <2>0, <3>1, <3>4 DEF RowAgrees, Row, Terminal
      <4>4. Lifecycle!Record(c)
        BY <3>1, <4>2, <4>3 DEF Lifecycle!Record, Lifecycle!Queued
      <4>. QED
        BY <3>1, <4>4 DEF Lifecycle!LifecycleNext, Lifecycle!Record
    <3>. QED
      BY <3>3, <3>4
  <2>3. ASSUME NEW r \in Requests, SetStatus(r) PROVE Step
    <3>. DEFINE c == req[r].cand
    <3>1. /\ UNCHANGED decision /\ c \in Candidates /\ row[c] \in Row
          /\ decision[c] # NoDecision /\ req[r].outcome = Outcome(c)
          /\ Outcome(c) # "rejected" => req[r].entity = Target(c) /\ Target(c) \in EntityId
          /\ Outcome(c) \in Terminal
      BY <2>0, <2>3, WantedIsAsked DEF SetStatus, RequestAgrees
    <3>2. row' = [row EXCEPT ![c] = [@ EXCEPT !.status = Outcome(c),
                    !.target = IF Outcome(c) = "merged" THEN Target(c) ELSE row[c].target]]
      BY <2>0, <2>3, <3>1 DEF SetStatus
    <3>3. CASE row[c].status \in Terminal
      <4>1. /\ row[c].status = Outcome(c)
            /\ Outcome(c) = "merged" => row[c].target = Target(c)
        BY <2>0, <3>1, <3>3 DEF RowAgrees
      <4>2. [row[c] EXCEPT !.status = Outcome(c),
                           !.target = IF Outcome(c) = "merged" THEN Target(c)
                                      ELSE row[c].target] = row[c]
        BY <3>1, <4>1 DEF Row
      <4>3. row' = [row EXCEPT ![c] = row[c]]
        BY <3>2, <4>2
      <4>4. row' = row
        BY <2>0, <4>3
      <4>. QED
        BY <2>1, <3>1, <4>4
    <3>4. CASE row[c].status = "review-queued"
      <4>1. Lifecycle!Decide(c)
        <5>1. CASE Outcome(c) = "merged"
          <6>1. row' = [row EXCEPT ![c].status = "merged", ![c].target = Target(c)]
            BY <2>0, <3>1, <3>2, <5>1
          <6>. QED
            BY <3>1, <3>4, <5>1, <6>1 DEF Lifecycle!Decide, Lifecycle!Queued
        <5>2. CASE Outcome(c) \in {"created", "rejected"}
          <6>1. row' = [row EXCEPT ![c].status = Outcome(c)]
            BY <2>0, <3>1, <3>2, <5>2 DEF Row
          <6>. QED
            BY <3>1, <3>4, <5>2, <6>1 DEF Lifecycle!Decide, Lifecycle!Queued
        <5>. QED
          BY <3>1, <5>1, <5>2, SMTT(30) DEF Terminal, Status
      <4>. QED
        BY <3>1, <4>1 DEF Lifecycle!LifecycleNext
    <3>. QED
      BY <3>1, <3>3, <3>4 DEF Row, Terminal
  <2>4. ASSUME NEW r \in Requests, UpdateProposal(r) PROVE Step
    <3>1. PICK d \in req[r].pend :
            row' = IF row[d].status = "review-queued"
                     THEN [row EXCEPT ![d].proposal = "merge",
                                      ![d].target = req[r].entity]
                     ELSE row
      BY <2>4 DEF UpdateProposal
    <3>2. /\ UNCHANGED decision /\ req[r].entity = Target(req[r].cand)
          /\ req[r].entity \in EntityId /\ ToFlip(req[r], d)
      BY <2>0, <2>4, <3>1 DEF UpdateProposal, RequestAgrees, RematchAgrees, TypeOK
    <3>3. d \in Candidates /\ row[d] \in Row
      BY <2>0, <3>2 DEF ToFlip
    <3>4. CASE row[d].status = "review-queued" /\ row[d].proposal = "new"
      <4>1. Lifecycle!Suggest(d)
        BY <3>1, <3>2, <3>4 DEF Lifecycle!Suggest, Lifecycle!Queued
      <4>. QED
        BY <3>3, <4>1 DEF Lifecycle!LifecycleNext
    <3>5. CASE ~(row[d].status = "review-queued" /\ row[d].proposal = "new")
      <4>1. row' = row
        BY <2>0, <3>1, <3>2, <3>3, <3>5 DEF Row, ToFlip
      <4>. QED
        BY <2>1, <3>2, <4>1
    <3>. QED
      BY <3>4, <3>5
  <2>5. \/ UNCHANGED <<row, decision>>
        \/ \E r \in Requests : RecordDecision(r) \/ SetStatus(r) \/ UpdateProposal(r)
    BY ZenonT(40) DEF Next, Handler, Submit, LoadNothingToDo, LoadReject, LoadMerge, LoadCreate,
       CheckTarget, AddAlias, CreateEntity, AddMention, ListPending, RematchDone, Fail,
       StartDelete, DropMentions, DropNode, DeleteFails, stores, vars
  <2>. QED
    BY <2>1, <2>2, <2>3, <2>4, <2>5
<1>. QED
  BY <1>1, <1>2, TypeCorrect, PTL
     DEF Spec, ImplementsLifecycle, Lifecycle!LifecycleSpec
=============================================================================
