--------------------------- MODULE GraphEdit_proofs ---------------------------
(***************************************************************************)
(* Proofs about GraphEdit for any graph, any set of asks, any number of    *)
(* operations, undos and failures.  Whatever is in flight beside what, the *)
(* log only grows and the graph stays well formed; and with one request at *)
(* a time an operation that is done again after its undo is logged again,  *)
(* no mention comes to dangle and no re-keyed edge is lost.                *)
(*                                                                         *)
(* The third rests on how ids are given out: a generation is below the     *)
(* number of ids so far, so a free one is always in reach, and an id that  *)
(* has been given to a request has no undone rows until the request has    *)
(* logged it.  The second rests on what is pending and what is logged: the *)
(* calls a request has yet to make and the rows of the log fit the stores, *)
(* so that undo, which makes its calls from the rows, only writes what the *)
(* stores take; and the rows of one operation are told apart by their seq, *)
(* so that they can be put in order.                                       *)
(***************************************************************************)
EXTENDS GraphEdit, FiniteSetTheorems, WellFoundedInduction, TLAPS

(* The two shapes of a request in flight.                                  *)
Edit(calls, seed, rows, op, at, before) ==
  [kind |-> "edit", calls |-> calls, seed |-> seed, rows |-> rows,
   op |-> op, at |-> at, before |-> before]
IsEdit(q) ==
  \E calls, seed, rows, op, at, before : q = Edit(calls, seed, rows, op, at, before)
IsUndo(q) == \E calls, op : q = [kind |-> "undo", calls |-> calls, op |-> op]

ReqShape ==
  /\ req = [r \in Requests |-> req[r]]
  /\ \A r \in Requests : req[r] = Idle \/ IsEdit(req[r]) \/ IsUndo(req[r])

LogShape ==
  \A l \in log :
    /\ l = [op |-> l.op, seq |-> l.seq, at |-> l.at, undone |-> l.undone, row |-> l.row]
    /\ l.undone \in BOOLEAN

(* The seed of a singleton's id is a time, of which there are n so far; a  *)
(* grouped operation's seed is never of that form.                         *)
IsTime(x) == \E k \in Nat : x = <<"single", k>>
SeedOK(seed) == seed = Single \/ ~IsTime(seed)
OpOK(op, n) ==
  /\ op = <<op[1], op[2]>>
  /\ op[2] \in Nat /\ op[2] < n
  /\ \A k \in Nat : op[1] = <<"single", k>> => k < n

IdsOK ==
  /\ clock \in Nat
  /\ \A l \in log : OpOK(l.op, clock)
  /\ \A r \in Requests : req[r].kind = "edit" =>
       SeedOK(req[r].seed) /\ (req[r].op # NoOp => OpOK(req[r].op, clock))

(* The id of an edit that is about to be logged is not that of an undone   *)
(* operation.                                                              *)
PendingIsFresh ==
  \A r \in Requests : req[r].kind = "edit" /\ req[r].op # NoOp =>
    \A l \in log : l.op = req[r].op => ~l.undone

-----------------------------------------------------------------------------
(* What the steps do to the requests and to the log *)

(* A store call leaves a request what it is, or ends it.                   *)
Continues(r) ==
  /\ req' = [req EXCEPT ![r] = req'[r]]
  /\ \/ req'[r] = Idle
     \/ /\ IsEdit(req[r]) /\ IsEdit(req'[r])
        /\ req'[r].seed = req[r].seed /\ req'[r].op = req[r].op
     \/ IsUndo(req[r]) /\ IsUndo(req'[r])

(* The shape of a request outlives an update of its calls or of its rows.  *)
LEMMA CallsSet ==
  ASSUME NEW q, NEW calls, IsEdit(q)
  PROVE  LET n == [q EXCEPT !.calls = calls]
         IN  IsEdit(n) /\ n.seed = q.seed /\ n.op = q.op
<1>1. PICK c, seed, w, op, at, before : q = Edit(c, seed, w, op, at, before)
  BY DEF IsEdit
<1>2. [q EXCEPT !.calls = calls] = Edit(calls, seed, w, op, at, before)
  BY <1>1 DEF Edit
<1>3. \A x, y : Edit(x, seed, y, op, at, before).seed = seed /\ Edit(x, seed, y, op, at, before).op = op
  BY DEF Edit
<1> QED
  BY <1>1, <1>2, <1>3 DEF IsEdit

LEMMA RowsSet ==
  ASSUME NEW q, NEW rows, IsEdit(q)
  PROVE  LET n == [q EXCEPT !.rows = rows]
         IN  IsEdit(n) /\ n.seed = q.seed /\ n.op = q.op
<1>1. PICK c, seed, w, op, at, before : q = Edit(c, seed, w, op, at, before)
  BY DEF IsEdit
<1>2. [q EXCEPT !.rows = rows] = Edit(c, seed, rows, op, at, before)
  BY <1>1 DEF Edit
<1>3. \A x, y : Edit(x, seed, y, op, at, before).seed = seed /\ Edit(x, seed, y, op, at, before).op = op
  BY DEF Edit
<1> QED
  BY <1>1, <1>2, <1>3 DEF IsEdit

LEMMA UndoSet ==
  ASSUME NEW q, NEW calls, NEW rows, IsUndo(q)
  PROVE  IsUndo([q EXCEPT !.calls = calls]) /\ IsUndo([q EXCEPT !.rows = rows])
<1>1. PICK c, op : q = [kind |-> "undo", calls |-> c, op |-> op]
  BY DEF IsUndo
<1>2. [q EXCEPT !.calls = calls] = [kind |-> "undo", calls |-> calls, op |-> op]
  BY <1>1
<1>3. [q EXCEPT !.rows = rows] = q
  BY <1>1
<1> QED
  BY <1>2, <1>3 DEF IsUndo

(* Every store call takes itself off the list, and two fill in the rows.   *)
LEMMA ReturnContinues ==
  ASSUME ReqShape, NEW r \in Requests, req[r] # Idle, Return(r)
  PROVE  Continues(r)
<1> DEFINE n == [req[r] EXCEPT !.calls = Tail(req[r].calls)]
<1>1. req' = [req EXCEPT ![r] = n]
  BY DEF Return
<1>2. req'[r] = n
  BY <1>1 DEF ReqShape
<1>3. req' = [req EXCEPT ![r] = req'[r]]
  BY <1>1, <1>2
<1>4. CASE IsEdit(req[r])
  <2>1. IsEdit(n) /\ n.seed = req[r].seed /\ n.op = req[r].op
    BY <1>4, CallsSet
  <2> HIDE DEF n
  <2> QED
    BY <1>2, <1>3, <1>4, <2>1 DEF Continues
<1>5. CASE IsUndo(req[r])
  <2>1. IsUndo(n)
    BY <1>5, UndoSet
  <2> HIDE DEF n
  <2> QED
    BY <1>2, <1>3, <1>5, <2>1 DEF Continues
<1> QED
  BY <1>4, <1>5 DEF ReqShape

LEMMA ReturnRowsContinues ==
  ASSUME ReqShape, NEW r \in Requests, req[r] # Idle, NEW rows, ReturnRows(r, rows)
  PROVE  Continues(r)
<1> DEFINE n == [req[r] EXCEPT !.calls = Tail(req[r].calls)]
           m == [n EXCEPT !.rows = rows]
           k == [req[r] EXCEPT !.calls = Tail(req[r].calls), !.rows = rows]
<1>0. k = m
  OBVIOUS
<1>1. req' = [req EXCEPT ![r] = k]
  BY DEF ReturnRows
<1>2. req'[r] = m
  <2>1. req'[r] = k
    BY <1>1 DEF ReqShape
  <2> QED
    BY <2>1, <1>0
<1>3. req' = [req EXCEPT ![r] = req'[r]]
  BY <1>0, <1>1, <1>2
<1>4. CASE IsEdit(req[r])
  <2>1. IsEdit(n) /\ n.seed = req[r].seed /\ n.op = req[r].op
    BY <1>4, CallsSet
  <2> HIDE DEF n
  <2>2. IsEdit(m) /\ m.seed = n.seed /\ m.op = n.op
    BY <2>1, RowsSet
  <2> QED
    BY <1>2, <1>3, <1>4, <2>1, <2>2 DEF Continues
<1>5. CASE IsUndo(req[r])
  <2>1. IsUndo(n)
    BY <1>5, UndoSet
  <2> HIDE DEF n
  <2>2. IsUndo(m)
    BY <2>1, UndoSet
  <2> QED
    BY <1>2, <1>3, <1>5, <2>2 DEF Continues
<1> QED
  BY <1>4, <1>5 DEF ReqShape

(* No store call touches the log or the clock.                             *)
LEMMA StoreCallKeeps ==
  ASSUME ReqShape, NEW r \in Requests, StoreCall(r)
  PROVE  Continues(r) /\ log' = log /\ clock' = clock
<1>1. req[r] # Idle
  BY DEF StoreCall, CreateEntity, UpdateEntity, RestoreFields, DeleteNode, RelabelType,
         CreateRelation, DeleteRelation, AddMention, DeleteMention, UpdateMentionSpan,
         DeleteMentionsOf, ReassignMentions, RepointMentions, AddSuppression,
         DeleteSuppression, Calls
<1>2. log' = log /\ clock' = clock
  BY DEF StoreCall, CreateEntity, UpdateEntity, RestoreFields, DeleteNode, RelabelType,
         CreateRelation, DeleteRelation, AddMention, DeleteMention, UpdateMentionSpan,
         DeleteMentionsOf, ReassignMentions, RepointMentions, AddSuppression,
         DeleteSuppression, Bookkeeping
<1>3. CASE \E rows : ReturnRows(r, rows)
  BY <1>1, <1>2, <1>3, ReturnRowsContinues
<1>4. CASE req' = [req EXCEPT ![r] = Idle]
  BY <1>2, <1>4 DEF ReqShape, Continues
<1>5. CASE Return(r)
  BY <1>1, <1>2, <1>5, ReturnContinues
<1>6. RepointMentions(r) => \E rows : ReturnRows(r, rows)
  BY DEF RepointMentions
<1>7. RelabelType(r) => req' = [req EXCEPT ![r] = Idle] \/ \E rows : ReturnRows(r, rows)
  BY DEF RelabelType
<1>8. RepointMentions(r) \/ RelabelType(r) \/ Return(r)
  BY DEF StoreCall, CreateEntity, UpdateEntity, RestoreFields, DeleteNode,
         CreateRelation, DeleteRelation, AddMention, DeleteMention, UpdateMentionSpan,
         DeleteMentionsOf, ReassignMentions, AddSuppression, DeleteSuppression
<1> QED
  BY <1>3, <1>4, <1>5, <1>6, <1>7, <1>8

(* What each kind of step does to the log.                                 *)
Logs(r) ==
  /\ req[r].kind = "edit" /\ req[r].op # NoOp
  /\ log' = log \cup {n \in NewRows(r) : \A l \in RowsOf(n.op) : l.seq # n.seq}
  /\ req' = [req EXCEPT ![r] = Idle]
  /\ clock' = clock

MarksIt(r) ==
  /\ req[r].kind = "undo"
  /\ log' = {[l EXCEPT !.undone = @ \/ l.op = req[r].op] : l \in log}
  /\ req' = [req EXCEPT ![r] = Idle]
  /\ clock' = clock

Begins(r) ==
  /\ \E calls, seed, rows, before :
       /\ SeedOK(seed)
       /\ req' = [req EXCEPT ![r] = Edit(calls, seed, rows, NoOp, 0, before)]
  /\ UNCHANGED <<log, clock>>

Plans(r) ==
  /\ \E calls, op : req' = [req EXCEPT ![r] = [kind |-> "undo", calls |-> calls, op |-> op]]
  /\ UNCHANGED <<log, clock>>

Keeps(r) == Continues(r) /\ log' = log /\ clock' = clock

(* The seeds of the code are not times.                                    *)
LEMMA Seeds ==
  ASSUME NEW x, NEW y, NEW z
  PROVE  /\ SeedOK(Single)
         /\ SeedOK(<<"retarget", x, y>>) /\ SeedOK(<<"rename", x, y>>)
         /\ SeedOK(<<"relabel", x, y>>) /\ SeedOK(<<"merge", x, y>>)
         /\ SeedOK(<<"delete", x>>) /\ SeedOK(<<"tagnew", x>>)
         /\ SeedOK(<<"retag", x, y>>) /\ SeedOK(<<"materialize", x, y>>)
  BY DEF SeedOK, IsTime

LEMMA BeginBegins ==
  ASSUME NEW r \in Requests, NEW calls, NEW seed, NEW rows, SeedOK(seed),
         Begin(r, calls, seed, rows)
  PROVE  Begins(r)
  BY DEF Begin, Begins, Edit

LEMMA OperationBegins ==
  ASSUME NEW r \in Requests, Operation(r)
  PROVE  Begins(r)
<1>1. ASSUME NEW e, NEW patch, EditEntity(r, e, patch) PROVE Begins(r)
  BY <1>1, Seeds, BeginBegins DEF EditEntity
<1>2. ASSUME NEW t, AddRelation(r, t) \/ RemoveRelation(r, t) PROVE Begins(r)
  BY <1>2, Seeds, BeginBegins DEF AddRelation, RemoveRelation
<1>3. ASSUME NEW old, NEW new, RetargetRelation(r, old, new) PROVE Begins(r)
  BY <1>3, Seeds, BeginBegins DEF RetargetRelation
<1>4. ASSUME NEW p, NEW q, RenamePredicate(r, p, q) PROVE Begins(r)
  BY <1>4, Seeds, BeginBegins DEF RenamePredicate
<1>5. ASSUME NEW from, NEW to, RelabelEntityType(r, from, to) PROVE Begins(r)
  BY <1>5, Seeds, BeginBegins DEF RelabelEntityType
<1>6. ASSUME NEW b, NEW a, NEW kept, MergeEntities(r, b, a, kept) PROVE Begins(r)
  BY <1>6, Seeds, BeginBegins DEF MergeEntities
<1>7. ASSUME NEW e, DeleteEntity(r, e) PROVE Begins(r)
  BY <1>7, Seeds, BeginBegins DEF DeleteEntity
<1>8. ASSUME NEW e, NEW s, TagExisting(r, e, s) PROVE Begins(r)
  BY <1>8, Seeds, BeginBegins DEF TagExisting
<1>9. ASSUME NEW s, NEW type, TagNewEntity(r, s, type) PROVE Begins(r)
  BY <1>9, Seeds, BeginBegins DEF TagNewEntity
<1>10. ASSUME NEW s, NEW who, SuppressOccurrence(r, s, who) PROVE Begins(r)
  BY <1>10, Seeds, BeginBegins DEF SuppressOccurrence
<1>11. ASSUME NEW s, NEW from, NEW to, RetagOccurrence(r, s, from, to) PROVE Begins(r)
  BY <1>11, Seeds, BeginBegins DEF RetagOccurrence
<1>12. ASSUME NEW id, NEW s, MoveBoundaries(r, id, s) PROVE Begins(r)
  BY <1>12, Seeds, BeginBegins DEF MoveBoundaries
<1>13. ASSUME NEW e, NEW old, NEW new, MaterializeBoundaries(r, e, old, new) PROVE Begins(r)
  BY <1>13, Seeds, BeginBegins DEF MaterializeBoundaries
<1> QED
  BY <1>1, <1>2, <1>3, <1>4, <1>5, <1>6, <1>7, <1>8, <1>9, <1>10, <1>11, <1>12, <1>13
     DEF Operation

(* Every step is one of six kinds  .                                       *)
LEMMA StepKinds ==
  ASSUME ReqShape, Next
  PROVE  \E r \in Requests :
           \/ Begins(r) \/ Keeps(r) \/ Stamp(r) \/ Logs(r) \/ Plans(r) \/ MarksIt(r)
<1>1. PICK r \in Requests :
        \/ Operation(r) \/ StoreCall(r) \/ Stamp(r) \/ Record(r)
        \/ UndoLast(r) \/ MarkUndone(r) \/ Fail(r)
  BY DEF Next
<1>2. CASE Operation(r)
  BY <1>2, OperationBegins
<1>3. CASE StoreCall(r)
  BY <1>3, StoreCallKeeps DEF Keeps
<1>4. CASE Record(r)
  BY <1>4 DEF Record, Logs
<1>5. CASE UndoLast(r)
  BY <1>5 DEF UndoLast, Plans
<1>6. CASE MarkUndone(r)
  BY <1>6 DEF MarkUndone, MarksIt
<1>7. CASE Fail(r)
  BY <1>7 DEF Fail, Keeps, Continues, ReqShape
<1> QED
  BY <1>1, <1>2, <1>3, <1>4, <1>5, <1>6, <1>7

-----------------------------------------------------------------------------
(* Ids *)

(* There is a least unused generation, and it is at most the number of ids *)
(* given out so far.                                                       *)
LEMMA GenerationIsUnused ==
  ASSUME IdsOK, NEW seed
  PROVE  /\ NextGeneration(seed) \in Nat
         /\ NextGeneration(seed) <= clock
         /\ ~IsUndone(<<seed, NextGeneration(seed)>>)
<1>1. clock \in Unused(seed)
  BY DEF IdsOK, Unused, IsUndone, RowsOf, OpOK
<1> DEFINE Less == {p \in Nat \X Nat : p[1] < p[2]}
<1>2. PICK g \in Unused(seed) : \A h \in Unused(seed) : ~(<<h, g>> \in Less)
  <2>1. Unused(seed) \subseteq Nat /\ Unused(seed) # {}
    BY <1>1 DEF Unused, IdsOK
  <2>2. IsWellFoundedOn(Less, Nat)
    BY NatLessThanWellFounded DEF OpToRel
  <2> QED
    BY <2>1, <2>2, WFMin
<1>3. ASSUME NEW h \in Unused(seed)
      PROVE  g <= h
  <2>1. g \in Nat /\ h \in Nat
    BY DEF Unused, IdsOK
  <2>2. h < g => <<h, g>> \in Less
    BY <2>1
  <2> QED
    BY <1>2, <2>1, <2>2
<1>4. NextGeneration(seed) \in Unused(seed)
  BY <1>2, <1>3 DEF NextGeneration
<1> QED
  BY <1>4 DEF Unused, IdsOK

(* The id that a stamp gives is new, or that of a live operation.          *)
StampedOp(r) ==
  IF req[r].seed = Single THEN <<<<"single", clock>>, 0>>
  ELSE <<req[r].seed, NextGeneration(req[r].seed)>>

LEMMA StampIsFresh ==
  ASSUME IdsOK, NEW r \in Requests, req[r].kind = "edit"
  PROVE  OpOK(StampedOp(r), clock + 1) /\ ~IsUndone(StampedOp(r))
<1>1. clock \in Nat /\ SeedOK(req[r].seed)
  BY DEF IdsOK
<1>2. CASE req[r].seed = Single
  <2>1. OpOK(StampedOp(r), clock + 1)
    BY <1>1, <1>2 DEF StampedOp, OpOK
  <2>2. ~IsUndone(StampedOp(r))
    BY <1>1, <1>2 DEF StampedOp, IsUndone, RowsOf, OpOK, IdsOK
  <2> QED
    BY <2>1, <2>2
<1>3. CASE req[r].seed # Single
  <2>1. ~IsTime(req[r].seed)
    BY <1>1, <1>3 DEF SeedOK
  <2>2. OpOK(StampedOp(r), clock + 1)
    BY <1>1, <1>3, <2>1, GenerationIsUnused DEF StampedOp, OpOK, IsTime
  <2> QED
    BY <1>3, <2>2, GenerationIsUnused DEF StampedOp
<1> QED
  BY <1>2, <1>3

LEMMA StampStamps ==
  ASSUME ReqShape, NEW r \in Requests, Stamp(r)
  PROVE  /\ req' = [req EXCEPT ![r] = req'[r]]
         /\ req[r].kind = "edit" /\ IsEdit(req'[r])
         /\ req'[r].seed = req[r].seed /\ req'[r].op = StampedOp(r)
         /\ log' = log /\ clock' = clock + 1
<1> DEFINE op == StampedOp(r)
           n == [req[r] EXCEPT !.op = op]
           m == [n EXCEPT !.at = clock + 1]
           k == [req[r] EXCEPT !.op = op, !.at = clock + 1]
<1>0. k = m
  OBVIOUS
<1>1. req[r].kind = "edit" /\ req' = [req EXCEPT ![r] = k] /\ log' = log /\ clock' = clock + 1
  BY DEF Stamp, StampedOp
<1>2. req'[r] = k
  BY <1>1 DEF ReqShape
<1>3. IsEdit(req[r])
  BY <1>1 DEF ReqShape, Idle, IsUndo
<1>4. PICK calls, seed, rows, op0, at, before : req[r] = Edit(calls, seed, rows, op0, at, before)
  BY <1>3 DEF IsEdit
<1> HIDE DEF op
<1>5. n = Edit(calls, seed, rows, op, at, before)
  BY <1>4 DEF Edit
<1>6. [Edit(calls, seed, rows, op, at, before) EXCEPT !.at = clock + 1]
        = Edit(calls, seed, rows, op, clock + 1, before)
  BY DEF Edit
<1>7. req'[r] = Edit(calls, seed, rows, op, clock + 1, before)
  BY <1>0, <1>2, <1>5, <1>6
<1>8. IsEdit(req'[r])
  BY <1>7 DEF IsEdit
<1>10. req'[r].seed = seed /\ req'[r].op = op
  BY <1>7 DEF Edit
<1>9. req[r].seed = seed
  BY <1>4 DEF Edit
<1> QED
  BY <1>1, <1>2, <1>8, <1>9, <1>10 DEF op

-----------------------------------------------------------------------------
(* The inductive invariant *)

Inv == ReqShape /\ LogShape /\ IdsOK

LEMMA InvInit ==
  ASSUME ConstantsAssumption, Init
  PROVE  Inv /\ PendingIsFresh
  BY DEF Init, Inv, ReqShape, LogShape, IdsOK, PendingIsFresh, Idle

(* A request becomes idle, an edit or an undo.                             *)
LEMMA ShapeStep ==
  ASSUME ReqShape, Next
  PROVE  ReqShape'
<1>1. PICK r \in Requests :
        Begins(r) \/ Keeps(r) \/ Stamp(r) \/ Logs(r) \/ Plans(r) \/ MarksIt(r)
  BY StepKinds
<1>2. req' = [req EXCEPT ![r] = req'[r]]
      /\ (req'[r] = Idle \/ IsEdit(req'[r]) \/ IsUndo(req'[r]))
  <2>1. CASE Begins(r)
    BY <2>1 DEF Begins, ReqShape, IsEdit
  <2>2. CASE Keeps(r)
    BY <2>2 DEF Keeps, Continues
  <2>3. CASE Stamp(r)
    BY <2>3, StampStamps
  <2>4. CASE Logs(r)
    BY <2>4 DEF Logs, ReqShape
  <2>5. CASE Plans(r)
    BY <2>5, ZenonT(40) DEF Plans, ReqShape, IsUndo
  <2>6. CASE MarksIt(r)
    BY <2>6 DEF MarksIt, ReqShape
  <2> QED
    BY <1>1, <2>1, <2>2, <2>3, <2>4, <2>5, <2>6
<1> QED
  BY <1>2 DEF ReqShape

(* New rows have the id of the request and are live.                       *)
LEMMA RowShape ==
  ASSUME NEW r \in Requests, NEW n \in NewRows(r)
  PROVE  /\ n = [op |-> n.op, seq |-> n.seq, at |-> n.at, undone |-> n.undone, row |-> n.row]
         /\ n.undone = FALSE /\ n.op = req[r].op
  BY DEF NewRows

(* A row is marked, or stays as it is.                                     *)
LEMMA MarkedRow ==
  ASSUME NEW l, NEW c, l.undone \in BOOLEAN,
         l = [op |-> l.op, seq |-> l.seq, at |-> l.at, undone |-> l.undone, row |-> l.row]
  PROVE  LET m == [l EXCEPT !.undone = l.undone \/ c]
         IN  /\ m = [op |-> m.op, seq |-> m.seq, at |-> m.at, undone |-> m.undone, row |-> m.row]
             /\ m.undone \in BOOLEAN
             /\ m.op = l.op
             /\ m = l \/ m = [l EXCEPT !.undone = TRUE]
<1> DEFINE m == [l EXCEPT !.undone = l.undone \/ c]
           t == [l EXCEPT !.undone = TRUE]
<1>1. PICK op, seq, at, u, row :
        l = [op |-> op, seq |-> seq, at |-> at, undone |-> u, row |-> row]
  OBVIOUS
<1>2. \A v : [l EXCEPT !.undone = v] = [op |-> op, seq |-> seq, at |-> at, undone |-> v, row |-> row]
  <2>1. \A v : [[op |-> op, seq |-> seq, at |-> at, undone |-> u, row |-> row] EXCEPT !.undone = v]
                 = [op |-> op, seq |-> seq, at |-> at, undone |-> v, row |-> row]
    OBVIOUS
  <2> QED
    BY <1>1, <2>1
<1>3. CASE (l.undone \/ c) = TRUE
  <2>1. m = t
    BY <1>3
  <2>2. t = [op |-> op, seq |-> seq, at |-> at, undone |-> TRUE, row |-> row]
    BY <1>1, <1>2
  <2>3. t.op = op /\ t.seq = seq /\ t.at = at /\ t.undone = TRUE /\ t.row = row /\ l.op = op
    BY <1>1, <2>2
  <2> HIDE DEF m, t
  <2>4. t = [op |-> t.op, seq |-> t.seq, at |-> t.at, undone |-> t.undone, row |-> t.row]
    BY <2>2, <2>3
  <2> QED
    BY <2>1, <2>3, <2>4, ZenonT(40) DEF t
<1>4. CASE (l.undone \/ c) = FALSE
  <2>1. l.undone = FALSE
    BY <1>4
  <2>2. m = l
    BY <1>4, <2>1
  <2> QED
    BY <2>2
<1> QED
  BY <1>3, <1>4

(* Rows are added live, or marked; nothing else happens to the log.        *)
LEMMA LogStep ==
  ASSUME Inv, Next
  PROVE  /\ LogShape'
         /\ \A l \in log : l \in log' \/ [l EXCEPT !.undone = TRUE] \in log'
<1>1. PICK r \in Requests :
        Begins(r) \/ Keeps(r) \/ Stamp(r) \/ Logs(r) \/ Plans(r) \/ MarksIt(r)
  BY StepKinds DEF Inv
<1>2. CASE log' = log
  BY <1>2 DEF Inv, LogShape
<1>3. CASE Logs(r)
  <2>1. ASSUME NEW l \in log', l \notin log
        PROVE  /\ l = [op |-> l.op, seq |-> l.seq, at |-> l.at, undone |-> l.undone, row |-> l.row]
               /\ l.undone \in BOOLEAN
    <3>1. l \in NewRows(r)
      BY <1>3, <2>1 DEF Logs
    <3> QED
      BY <3>1, RowShape
  <2>2. log \subseteq log'
    BY <1>3 DEF Logs
  <2> QED
    BY <2>1, <2>2 DEF Inv, LogShape
<1>4. CASE MarksIt(r)
  <2> DEFINE Marked(l) == [l EXCEPT !.undone = l.undone \/ l.op = req[r].op]
  <2>1. log' = {Marked(l) : l \in log}
    BY <1>4 DEF MarksIt
  <2>2. ASSUME NEW l \in log
        PROVE  LET m == Marked(l)
               IN  /\ m = [op |-> m.op, seq |-> m.seq, at |-> m.at, undone |-> m.undone, row |-> m.row]
                   /\ m.undone \in BOOLEAN
                   /\ m = l \/ m = [l EXCEPT !.undone = TRUE]
    BY MarkedRow DEF Inv, LogShape
  <2> HIDE DEF Marked
  <2> QED
    BY <2>1, <2>2 DEF LogShape
<1>5. Begins(r) \/ Keeps(r) \/ Stamp(r) \/ Plans(r) => log' = log
  BY StampStamps DEF Begins, Keeps, Plans, Inv
<1> QED
  BY <1>1, <1>2, <1>3, <1>4, <1>5

(* Time only passes.                                                       *)
LEMMA ClockPasses ==
  ASSUME NEW op, NEW m \in Nat, NEW n \in Nat, m <= n, OpOK(op, m)
  PROVE  OpOK(op, n)
  BY DEF OpOK

LEMMA EditIsEdit == ASSUME NEW q, IsEdit(q) PROVE q.kind = "edit"
  BY DEF IsEdit, Edit

LEMMA IdleIsNoEdit == Idle.kind # "edit"
  BY DEF Idle

LEMMA UndoIsNoEdit == ASSUME NEW q, IsUndo(q) PROVE q.kind # "edit"
  BY DEF IsUndo

LEMMA IdsStep ==
  ASSUME Inv, Next
  PROVE  IdsOK'
<1>1. PICK r \in Requests :
        Begins(r) \/ Keeps(r) \/ Stamp(r) \/ Logs(r) \/ Plans(r) \/ MarksIt(r)
  BY StepKinds DEF Inv
<1>2. clock \in Nat /\ clock' \in Nat /\ clock <= clock'
  BY <1>1, StampStamps DEF Inv, IdsOK, Begins, Keeps, Logs, Plans, MarksIt
<1>3. \A l \in log' : OpOK(l.op, clock')
  <2>1. CASE log' = log
    BY <2>1, <1>2, ClockPasses DEF Inv, IdsOK
  <2>2. CASE Logs(r)
    <3>1. OpOK(req[r].op, clock) /\ clock' = clock
      BY <2>2 DEF Logs, Inv, IdsOK
    <3>2. \A l \in log' : l \in log \/ l \in NewRows(r)
      BY <2>2 DEF Logs
    <3> QED
      BY <3>1, <3>2, RowShape DEF Inv, IdsOK
  <2>3. CASE MarksIt(r)
    <3> DEFINE Marked(l) == [l EXCEPT !.undone = l.undone \/ l.op = req[r].op]
    <3>1. log' = {Marked(l) : l \in log} /\ clock' = clock
      BY <2>3 DEF MarksIt
    <3>2. \A l \in log : Marked(l).op = l.op
      BY MarkedRow DEF Inv, LogShape
    <3> HIDE DEF Marked
    <3> QED
      BY <3>1, <3>2 DEF Inv, IdsOK
  <2>4. Begins(r) \/ Keeps(r) \/ Stamp(r) \/ Plans(r) => log' = log
    BY StampStamps DEF Begins, Keeps, Plans, Inv
  <2> QED
    BY <1>1, <2>1, <2>2, <2>3, <2>4
<1>4. ASSUME NEW q \in Requests, req'[q].kind = "edit"
      PROVE  SeedOK(req'[q].seed) /\ (req'[q].op # NoOp => OpOK(req'[q].op, clock'))
  <2>1. CASE req'[q] = req[q]
    BY <2>1, <1>2, <1>4, ClockPasses DEF Inv, IdsOK
  <2>2. CASE Begins(r) /\ q = r
    BY <2>2 DEF Begins, Inv, ReqShape, Edit
  <2>3. CASE Keeps(r) /\ q = r
    <3>1. IsEdit(req[r]) /\ req'[r].seed = req[r].seed /\ req'[r].op = req[r].op
      BY <1>4, <2>3, IdleIsNoEdit, UndoIsNoEdit DEF Keeps, Continues
    <3>2. req[r].kind = "edit"
      BY <3>1, EditIsEdit
    <3> QED
      BY <3>1, <3>2, <2>3, <1>2 DEF Inv, IdsOK, Keeps
  <2>4. CASE Stamp(r) /\ q = r
    BY <2>4, StampStamps, StampIsFresh DEF Inv, IdsOK
  <2>5. CASE (Logs(r) \/ Plans(r) \/ MarksIt(r)) /\ q = r
    BY <2>5, <1>4 DEF Logs, Plans, MarksIt, Inv, ReqShape, Idle
  <2>6. q # r => req'[q] = req[q]
    BY <1>1, StampStamps DEF Begins, Keeps, Continues, Logs, Plans, MarksIt, Inv, ReqShape
  <2> QED
    BY <1>1, <2>1, <2>2, <2>3, <2>4, <2>5, <2>6
<1> QED
  BY <1>2, <1>3, <1>4 DEF IdsOK

LEMMA InvStep == Inv /\ [Next]_vars => Inv'
<1> SUFFICES ASSUME Inv, [Next]_vars PROVE Inv'
  OBVIOUS
<1>1. CASE Next
  BY <1>1, ShapeStep, LogStep, IdsStep DEF Inv
<1>2. CASE UNCHANGED vars
  BY <1>2 DEF vars, Inv, ReqShape, LogShape, IdsOK
<1> QED
  BY <1>1, <1>2

(* With one request nobody undoes an operation between its stamp and its   *)
(* record.                                                                 *)
LEMMA FreshStep ==
  ASSUME NEW slot, Requests = {slot}, Inv, PendingIsFresh, [Next]_vars
  PROVE  PendingIsFresh'
<1> SUFFICES ASSUME req'[slot].kind = "edit", req'[slot].op # NoOp,
                    NEW l \in log', l.op = req'[slot].op
             PROVE  ~l.undone
  BY DEF PendingIsFresh
<1>1. CASE UNCHANGED vars
  BY <1>1 DEF vars, PendingIsFresh
<1>2. CASE Next
  <2>1. Begins(slot) \/ Keeps(slot) \/ Stamp(slot) \/ Logs(slot) \/ Plans(slot) \/ MarksIt(slot)
    BY <1>2, StepKinds DEF Inv
  <2>2. CASE Stamp(slot)
    <3>1. l \in log /\ l.op = StampedOp(slot) /\ req[slot].kind = "edit"
      BY <2>2, StampStamps DEF Inv
    <3> QED
      BY <3>1, StampIsFresh DEF Inv, IsUndone, RowsOf
  <2>3. CASE Keeps(slot)
    <3>1. IsEdit(req[slot]) /\ req'[slot].op = req[slot].op
      BY <2>3, IdleIsNoEdit, UndoIsNoEdit DEF Keeps, Continues
    <3> QED
      BY <2>3, <3>1, EditIsEdit DEF PendingIsFresh, Keeps
  <2>4. ~Begins(slot)
    BY DEF Begins, Inv, ReqShape, Edit
  <2>5. ~Logs(slot) /\ ~MarksIt(slot)
    BY IdleIsNoEdit DEF Logs, MarksIt, Inv, ReqShape
  <2>6. ~Plans(slot)
    BY DEF Plans, Inv, ReqShape
  <2> QED
    BY <2>1, <2>2, <2>3, <2>4, <2>5, <2>6
<1> QED
  BY <1>1, <1>2

-----------------------------------------------------------------------------
(* What SetToSeq, FlattenSeq and HighestFirst return *)

(* A set of naturals has a least element.                                  *)
LEMMA LeastNat ==
  ASSUME NEW S, S \subseteq Nat, S # {}
  PROVE  \E m \in S : \A k \in S : m <= k
<1> DEFINE Less == {p \in Nat \X Nat : p[1] < p[2]}
<1>1. IsWellFoundedOn(Less, Nat)
  BY NatLessThanWellFounded DEF OpToRel
<1>2. PICK m \in S : \A k \in S : ~(<<k, m>> \in Less)
  BY <1>1, WFMin
<1>3. ASSUME NEW k \in S PROVE m <= k
  <2>1. m \in Nat /\ k \in Nat
    OBVIOUS
  <2>2. k < m => <<k, m>> \in Less
    BY <2>1
  <2> QED
    BY <1>2, <2>1, <2>2
<1> QED
  BY <1>3

Flattens(seqs, f, n) ==
  f = [i \in 1 .. n |-> IF i = 1 THEN seqs[i] ELSE f[i - 1] \o seqs[i]]

(* FlattenSeq is the last of the running concatenations, which exist.      *)
LEMMA FlattenExists ==
  ASSUME NEW seqs, NEW n \in Nat
  PROVE  \E f : Flattens(seqs, f, n)
<1> DEFINE Bad == {k \in Nat : ~\E f : Flattens(seqs, f, k)}
<1>1. SUFFICES ASSUME Bad # {} PROVE FALSE
  OBVIOUS
<1>2. PICK m \in Bad : \A k \in Bad : m <= k
  BY <1>1, LeastNat
<1>3. m # 0
  <2>1. Flattens(seqs, [i \in 1 .. 0 |-> 0], 0)
    BY DEF Flattens
  <2> QED
    BY <2>1
<1>4. m - 1 \in Nat /\ m - 1 \notin Bad
  BY <1>2, <1>3
<1>5. PICK f : Flattens(seqs, f, m - 1)
  BY <1>4
<1> DEFINE g == [i \in 1 .. m |-> IF i = m THEN (IF i = 1 THEN seqs[i] ELSE f[m - 1] \o seqs[i]) ELSE f[i]]
<1>6. \A i \in 1 .. m : g[i] = IF i = 1 THEN seqs[i] ELSE g[i - 1] \o seqs[i]
  <2> SUFFICES ASSUME NEW i \in 1 .. m PROVE g[i] = IF i = 1 THEN seqs[i] ELSE g[i - 1] \o seqs[i]
    OBVIOUS
  <2>1. CASE i = m
    BY <1>4, <2>1
  <2>2. CASE i # m
    <3>1. i \in 1 .. m - 1 /\ i - 1 # m /\ g[i] = f[i] /\ (i # 1 => i - 1 \in 1 .. m /\ g[i - 1] = f[i - 1])
      BY <1>4, <2>2, SMTT(30)
    <3>2. f[i] = IF i = 1 THEN seqs[i] ELSE f[i - 1] \o seqs[i]
      BY <1>5, <3>1 DEF Flattens
    <3> QED
      BY <3>1, <3>2
  <2> QED
    BY <2>1, <2>2
<1>7. Flattens(seqs, g, m)
  <2>1. g = [i \in 1 .. m |-> g[i]]
    OBVIOUS
  <2> HIDE DEF g
  <2> QED
    BY <1>6, <2>1 DEF Flattens
<1> QED
  BY <1>2, <1>7

LEMMA FlattenIs ==
  ASSUME NEW seqs, Len(seqs) \in Nat, Len(seqs) # 0
  PROVE  \E f : Flattens(seqs, f, Len(seqs)) /\ FlattenSeq(seqs) = f[Len(seqs)]
<1> DEFINE f == CHOOSE f : Flattens(seqs, f, Len(seqs))
<1>1. Flattens(seqs, f, Len(seqs))
  BY FlattenExists
<1>2. FlattenSeq(seqs) = f[Len(seqs)]
  BY DEF FlattenSeq, Flattens
<1> QED
  BY <1>1, <1>2

(* A sequence of sequences over S in one: over S, its head the first's head. *)
LEMMA FlattenType ==
  ASSUME NEW S, NEW seqs \in Seq(Seq(S))
  PROVE  /\ FlattenSeq(seqs) \in Seq(S)
         /\ seqs # <<>> /\ seqs[1] # <<>> =>
              FlattenSeq(seqs) # <<>> /\ FlattenSeq(seqs)[1] = seqs[1][1]
<1>1. CASE Len(seqs) = 0
  BY <1>1 DEF FlattenSeq
<1>2. CASE Len(seqs) # 0
  <2> DEFINE n == Len(seqs)
  <2>1. n \in Nat /\ n # 0
    BY <1>2
  <2>2. PICK f : Flattens(seqs, f, n) /\ FlattenSeq(seqs) = f[n]
    BY <2>1, FlattenIs
  <2> DEFINE OK(s) == /\ s \in Seq(S)
                      /\ seqs[1] # <<>> => s # <<>> /\ s[1] = seqs[1][1]
             Bad == {k \in 1 .. n : ~OK(f[k])}
  <2>3. SUFFICES ASSUME Bad # {} PROVE FALSE
    BY <2>1, <2>2, SMTT(30)
  <2>4. PICK m \in Bad : \A k \in Bad : m <= k
    <3>1. Bad \subseteq Nat
      BY <2>1
    <3> HIDE DEF Bad
    <3> QED
      BY <2>3, <3>1, LeastNat
  <2>5. m \in 1 .. n /\ f[m] = IF m = 1 THEN seqs[m] ELSE f[m - 1] \o seqs[m]
    BY <2>2, <2>4 DEF Flattens
  <2>6. seqs[m] \in Seq(S) /\ seqs[1] \in Seq(S)
    BY <2>1, <2>5
  <2>7. CASE m = 1
    BY <2>4, <2>5, <2>6, <2>7
  <2>8. CASE m # 1
    <3>1. m - 1 \in 1 .. n /\ m - 1 \notin Bad
      BY <2>1, <2>4, <2>5, <2>8
    <3>2. OK(f[m - 1])
      BY <3>1
    <3>3. \A s, u \in Seq(S) : s \o u \in Seq(S) /\ (s # <<>> => s \o u # <<>> /\ (s \o u)[1] = s[1])
      OBVIOUS
    <3>4. f[m] = f[m - 1] \o seqs[m] /\ f[m - 1] \in Seq(S)
      BY <2>5, <2>8, <3>2
    <3>5. f[m - 1] \o seqs[m] \in Seq(S)
          /\ (f[m - 1] # <<>> => f[m - 1] \o seqs[m] # <<>>
                                  /\ (f[m - 1] \o seqs[m])[1] = f[m - 1][1])
      BY <2>6, <3>3, <3>4
    <3>6. OK(f[m])
      BY <3>2, <3>4, <3>5
    <3> QED
      BY <2>4, <3>6
  <2> QED
    BY <2>7, <2>8
<1> QED
  BY <1>1, <1>2

(* SetToSeq lists every element of a finite set once.                      *)
LEMMA SetToSeqIs ==
  ASSUME NEW S, IsFiniteSet(S)
  PROVE  /\ SetToSeq(S) \in Seq(S)
         /\ Len(SetToSeq(S)) = Cardinality(S) /\ Cardinality(S) \in Nat
         /\ DOMAIN SetToSeq(S) = 1 .. Cardinality(S)
         /\ \A x \in S : \E i \in 1 .. Cardinality(S) : SetToSeq(S)[i] = x
         /\ \A i, j \in 1 .. Cardinality(S) : SetToSeq(S)[i] = SetToSeq(S)[j] => i = j
<1> DEFINE n == Cardinality(S)
<1>1. n \in Nat /\ ExistsBijection(1 .. n, S)
  BY FS_CardinalityType
<1>2. PICK g \in Bijection(1 .. n, S) : TRUE
  BY <1>1 DEF ExistsBijection
<1>3. g \in [1 .. n -> S] /\ IsInjective(g)
  BY <1>2 DEF Bijection, Injection, IsInjective
<1> DEFINE f == SetToSeq(S)
<1>4. f \in [1 .. n -> S] /\ IsInjective(f)
  BY <1>3 DEF SetToSeq
<1>5. f \in Injection(1 .. n, S)
  BY <1>4 DEF Injection, IsInjective
<1>6. IsFiniteSet(1 .. n) /\ Cardinality(1 .. n) = n
  BY <1>1, FS_Interval
<1>7. f \in Surjection(1 .. n, S)
  BY <1>1, <1>5, <1>6, FS_Injection
<1> HIDE DEF f
<1> QED
  BY <1>1, <1>4, <1>7 DEF Surjection, IsInjective, f

(* R puts the members of S one before the other.                           *)
Orders(R, S) ==
  /\ \A x \in S : <<x, x>> \notin R
  /\ \A x, y \in S : x = y \/ <<x, y>> \in R \/ <<y, x>> \in R
  /\ \A x, y, z \in S : <<x, y>> \in R /\ <<y, z>> \in R => <<x, z>> \in R

InOrderOf(R, S) == InOrder(S, LAMBDA x, y : <<x, y>> \in R)

(* How many come before each tells its place, so InOrder lists them all,   *)
(* each once and in their order.                                           *)
LEMMA InOrderIs ==
  ASSUME NEW S, IsFiniteSet(S), NEW R, Orders(R, S)
  PROVE  LET s == InOrderOf(R, S)
             n == Cardinality(S)
         IN  /\ n \in Nat /\ s \in [1 .. n -> S] /\ s \in Seq(S) /\ Len(s) = n
             /\ \A i, j \in 1 .. n : i < j <=> <<s[i], s[j]>> \in R
             /\ \A i, j \in 1 .. n : s[i] = s[j] => i = j
             /\ \A x \in S : \E i \in 1 .. n : s[i] = x
<1> DEFINE n == Cardinality(S)
           s == InOrderOf(R, S)
           Before(x) == {y \in S : <<y, x>> \in R}
           place == [x \in S |-> Cardinality(Before(x)) + 1]
<1>1. n \in Nat
  BY FS_CardinalityType
<1>2. \A x \in S : IsFiniteSet(Before(x)) /\ Cardinality(Before(x)) \in Nat
  BY FS_Subset, FS_CardinalityType
<1>3. \A x, y \in S : <<x, y>> \in R => Cardinality(Before(x)) < Cardinality(Before(y))
  <2> SUFFICES ASSUME NEW x \in S, NEW y \in S, <<x, y>> \in R
               PROVE  Cardinality(Before(x)) < Cardinality(Before(y))
    OBVIOUS
  <2>1. Before(x) \subseteq Before(y) /\ x \in Before(y) /\ x \notin Before(x)
    BY DEF Orders
  <2> HIDE DEF Before
  <2>2. Cardinality(Before(x)) <= Cardinality(Before(y))
        /\ Cardinality(Before(x)) # Cardinality(Before(y))
    BY <1>2, <2>1, FS_Subset
  <2> QED
    BY <1>2, <2>2
<1>4. \A x \in S : Cardinality(Before(x)) < n
  <2> SUFFICES ASSUME NEW x \in S PROVE Cardinality(Before(x)) < n
    OBVIOUS
  <2>1. Before(x) \subseteq S /\ x \notin Before(x)
    BY DEF Orders
  <2> HIDE DEF Before
  <2>2. Cardinality(Before(x)) <= n /\ Cardinality(Before(x)) # n
    BY <2>1, FS_Subset
  <2> QED
    BY <1>1, <1>2, <2>2
<1>5. place \in [S -> 1 .. n]
  <2> HIDE DEF Before
  <2> QED
    BY <1>1, <1>2, <1>4
<1>6. \A x, y \in S : <<x, y>> \in R <=> place[x] < place[y]
  <2> HIDE DEF Before
  <2>1. \A x, y \in S : <<x, y>> \in R => place[x] < place[y]
    BY <1>2, <1>3
  <2>2. \A x, y \in S : place[x] < place[y] => x # y /\ <<y, x>> \notin R
    BY <1>1, <1>5, <2>1
  <2> HIDE DEF place
  <2> QED
    BY <2>1, <2>2 DEF Orders
<1>7. \A x, y \in S : place[x] = place[y] => x = y
  <2> HIDE DEF place
  <2> QED
    BY <1>1, <1>5, <1>6 DEF Orders
<1>8. \A i \in 1 .. n : \E x \in S : place[x] = i
  <2>1. place \in Injection(S, 1 .. n)
    BY <1>5, <1>7 DEF Injection, IsInjective
  <2>2. IsFiniteSet(1 .. n) /\ Cardinality(1 .. n) = n
    BY <1>1, FS_Interval
  <2>3. place \in Surjection(S, 1 .. n)
    BY <2>1, <2>2, FS_Injection
  <2> QED
    BY <2>3 DEF Surjection
<1> DEFINE Chosen(i) == CHOOSE x \in S : Cardinality(Before(x)) = i - 1
<1>9. s = [i \in 1 .. n |-> Chosen(i)]
  BY DEF InOrderOf, InOrder
<1> HIDE DEF Chosen
<1> HIDE DEF s
<1>10. \A i \in 1 .. n : s[i] \in S /\ place[s[i]] = i
  <2> SUFFICES ASSUME NEW i \in 1 .. n PROVE s[i] \in S /\ place[s[i]] = i
    OBVIOUS
  <2> HIDE DEF Before
  <2>1. s[i] = Chosen(i)
    BY <1>9
  <2>2. PICK x \in S : place[x] = i
    BY <1>8
  <2>3. Cardinality(Before(x)) = i - 1
    BY <1>1, <1>2, <2>2
  <2>4. s[i] \in S /\ Cardinality(Before(s[i])) = i - 1
    BY <2>1, <2>3 DEF Chosen
  <2> QED
    BY <1>1, <2>4
<1>11. s \in [1 .. n -> S]
  <2>1. s = [i \in 1 .. n |-> s[i]]
    BY <1>9
  <2> HIDE DEF place
  <2> QED
    BY <1>10, <2>1
<1>12. \A x \in S : \E i \in 1 .. n : s[i] = x
  <2> HIDE DEF place
  <2> QED
    BY <1>5, <1>7, <1>10
<1>13. \A i, j \in 1 .. n : i < j <=> <<s[i], s[j]>> \in R
  <2> HIDE DEF place
  <2> QED
    BY <1>6, <1>10
<1>14. \A i, j \in 1 .. n : s[i] = s[j] => i = j
  <2> HIDE DEF place
  <2> QED
    BY <1>10
<1>15. s \in Seq(S) /\ Len(s) = n
  BY <1>1, <1>11
<1> HIDE DEF n
<1> QED
  BY <1>1, <1>11, <1>12, <1>13, <1>14, <1>15 DEF n, s

(* HighestFirst is the list from the highest row down.                     *)
LEMMA HighestFirstSorts ==
  ASSUME NEW S, IsFiniteSet(S), \A x \in S : x.seq \in Nat,
         NEW n, n = Cardinality(S),
         NEW g \in [1 .. n -> S], \A i, j \in 1 .. n : i < j => g[i].seq > g[j].seq
  PROVE  HighestFirst(S) = g /\ \A x \in S : \E i \in 1 .. n : g[i] = x
<1> DEFINE Above(l) == {k \in S : k.seq > l.seq}
<1>1. n \in Nat
  BY FS_CardinalityType
<1>2. \A i, j \in 1 .. n : i < j => g[i].seq > g[j].seq
  OBVIOUS
<1>3. \A i, j \in 1 .. n : g[i] = g[j] => i = j
  <2> SUFFICES ASSUME NEW i \in 1 .. n, NEW j \in 1 .. n, i < j, g[i] = g[j] PROVE FALSE
    BY <1>1
  <2>1. g[i].seq \in Nat /\ g[i].seq > g[i].seq
    BY <1>2
  <2> QED
    BY <2>1
<1>4. \A x \in S : \E i \in 1 .. n : g[i] = x
  <2>1. g \in Injection(1 .. n, S)
    BY <1>3 DEF Injection, IsInjective
  <2>2. Cardinality(1 .. n) = n
    BY <1>1, FS_Interval
  <2>3. g \in Surjection(1 .. n, S)
    BY <2>1, <2>2, FS_Injection
  <2> QED
    BY <2>3 DEF Surjection
<1>5. \A i, j \in 1 .. n : g[j].seq > g[i].seq <=> j < i
  <2> SUFFICES ASSUME NEW i \in 1 .. n, NEW j \in 1 .. n PROVE g[j].seq > g[i].seq <=> j < i
    OBVIOUS
  <2>1. g[i].seq \in Nat /\ g[j].seq \in Nat
    OBVIOUS
  <2>2. CASE i < j
    <3>1. g[i].seq > g[j].seq
      BY <1>2, <2>2
    <3> QED
      BY <1>1, <2>1, <2>2, <3>1
  <2>3. CASE j < i
    BY <1>2, <2>3
  <2>4. CASE i = j
    BY <1>1, <2>1, <2>4
  <2> QED
    BY <1>1, <2>2, <2>3, <2>4
<1>6. ASSUME NEW i \in 1 .. n PROVE Cardinality(Above(g[i])) = i - 1
  <2> DEFINE f == [j \in 1 .. i - 1 |-> g[j]]
  <2>1. \A j \in 1 .. i - 1 : j \in 1 .. n /\ j < i
    BY <1>1
  <2>2. f \in [1 .. i - 1 -> Above(g[i])]
    BY <1>5, <2>1
  <2>3. \A j, k \in 1 .. i - 1 : f[j] = f[k] => j = k
    BY <1>3, <2>1
  <2>4. \A x \in Above(g[i]) : \E j \in 1 .. i - 1 : f[j] = x
    <3> SUFFICES ASSUME NEW x \in Above(g[i]) PROVE \E j \in 1 .. i - 1 : f[j] = x
      OBVIOUS
    <3>1. PICK j \in 1 .. n : g[j] = x
      BY <1>4
    <3>2. j < i
      BY <1>5, <3>1
    <3> QED
      BY <1>1, <3>1, <3>2
  <2> HIDE DEF f, Above
  <2>5. f \in Bijection(1 .. i - 1, Above(g[i]))
    BY <2>2, <2>3, <2>4 DEF Bijection, Injection, Surjection, IsInjective
  <2>6. i - 1 \in Nat
    BY <1>1
  <2>7. IsFiniteSet(1 .. i - 1) /\ Cardinality(1 .. i - 1) = i - 1
    BY <2>6, FS_Interval
  <2> QED
    BY <2>5, <2>7, FS_Bijection DEF ExistsBijection
<1>7. ASSUME NEW i \in 1 .. n
      PROVE  (CHOOSE l \in S : Cardinality(Above(l)) = i - 1) = g[i]
  <2>1. g[i] \in S /\ Cardinality(Above(g[i])) = i - 1
    BY <1>6
  <2>2. ASSUME NEW l \in S, Cardinality(Above(l)) = i - 1 PROVE l = g[i]
    <3>1. PICK j \in 1 .. n : g[j] = l
      BY <1>4
    <3>2. Cardinality(Above(g[j])) = j - 1
      BY <1>6
    <3>3. j = i
      BY <1>1, <2>2, <3>1, <3>2
    <3> QED
      BY <3>1, <3>3
  <2> HIDE DEF Above
  <2> QED
    BY <2>1, <2>2
<1> DEFINE s == HighestFirst(S)
<1>8. s = [i \in 1 .. n |-> CHOOSE l \in S : Cardinality(Above(l)) = i - 1]
  BY DEF HighestFirst, InOrder
<1>9. s = g
  <2>1. \A i \in 1 .. n : s[i] = g[i]
    BY <1>7, <1>8
  <2>2. g = [i \in 1 .. n |-> g[i]] /\ s = [i \in 1 .. n |-> s[i]]
    BY <1>8
  <2> HIDE DEF s
  <2> QED
    BY <2>1, <2>2
<1> QED
  BY <1>4, <1>9

(* HighestFirst has them all, the highest first.                           *)
LEMMA HighestFirstIs ==
  ASSUME NEW S, IsFiniteSet(S), \A x \in S : x.seq \in Nat,
         \A x, y \in S : x.seq = y.seq => x = y
  PROVE  LET s == HighestFirst(S)
             n == Cardinality(S)
         IN  /\ n \in Nat /\ s \in [1 .. n -> S] /\ s \in Seq(S) /\ Len(s) = n
             /\ \A i, j \in 1 .. n : i < j => s[i].seq > s[j].seq
             /\ \A x \in S : \E i \in 1 .. n : s[i] = x
<1> DEFINE n == Cardinality(S)
           R == {p \in S \X S : p[1].seq > p[2].seq}
           s == InOrderOf(R, S)
<1>1. Orders(R, S)
  BY DEF Orders
<1>2. HighestFirst(S) = s
  <2>1. \A x \in S : {y \in S : y.seq > x.seq} = {y \in S : <<y, x>> \in R}
    OBVIOUS
  <2> HIDE DEF R
  <2>2. HighestFirst(S) = [i \in 1 .. n |-> CHOOSE x \in S : Cardinality({y \in S : y.seq > x.seq}) = i - 1]
    BY DEF HighestFirst, InOrder
  <2>3. s = [i \in 1 .. n |-> CHOOSE x \in S : Cardinality({y \in S : <<y, x>> \in R}) = i - 1]
    BY DEF InOrderOf, InOrder
  <2> HIDE DEF s, n
  <2> QED
    BY <2>1, <2>2, <2>3, ZenonT(40)
<1>3. \A x, y : <<x, y>> \in R => x.seq > y.seq
  OBVIOUS
<1> HIDE DEF s, R
<1>4. /\ n \in Nat /\ s \in [1 .. n -> S] /\ s \in Seq(S) /\ Len(s) = n
      /\ \A i, j \in 1 .. n : i < j <=> <<s[i], s[j]>> \in R
      /\ \A x \in S : \E i \in 1 .. n : s[i] = x
  BY <1>1, InOrderIs DEF s
<1> HIDE DEF n
<1> QED
  BY <1>2, <1>3, <1>4 DEF n

-----------------------------------------------------------------------------
(* The calls that are made and the rows that are logged *)

Partial(S, T) == UNION {[D -> T] : D \in SUBSET S}

(* A mention made by hand has its place in the text, wherever it is moved. *)
Placed(i, span) == i[2] # NoSpan => span \in Spans
PlacesKept(mentions) == \A i \in DOMAIN mentions : mentions[i] # NoMention => Placed(i, mentions[i].span)

Snapshots == {m \in Partial(MentionIds, Mention) : PlacesKept(m)}

GoodCalls ==
       [do : {"create_entity", "update_entity"}, on : Entities, with : Node]
  \cup [do : {"restore_fields"}, on : Entities, with : Fields]
  \cup [do : {"delete_entity", "delete_mentions_for_entity"}, on : Entities, with : {NoImage}]
  \cup [do : {"relabel_entity_type"}, on : Types, with : Types]
  \cup [do : {"create_relation"}, on : Triples, with : Handles]
  \cup [do : {"delete_relation"}, on : Triples, with : {NoImage}]
  \cup {c \in [do : {"add_mention"}, on : MentionIds, with : Mention] : Placed(c.on, c.with.span)}
  \cup [do : {"delete_mention"}, on : MentionIds, with : {NoImage}]
  \cup {c \in [do : {"update_mention_span"}, on : MentionIds, with : Spans \cup {NoSpan}] : Placed(c.on, c.with)}
  \cup [do : {"reassign_mentions"}, on : SUBSET MentionIds, with : Entities]
  \cup [do : {"repoint_mentions"}, on : Entities, with : Entities]
  \cup [do : {"add_suppression", "delete_suppression"}, on : Suppressions, with : {NoImage}]

GoodRows ==
       [op : {"delete_absorbed", "delete_entity"}, target : Entities, before : Node, after : {NoImage}]
  \cup [op : {"delete_relations"}, target : Entities, before : Partial(Triples, Handles), after : {NoImage}]
  \cup [op : {"delete_mentions"}, target : Entities, before : Snapshots, after : {NoImage}]
  \cup [op : {"edit_fields", "merge_consolidate"}, target : Entities, before : Fields, after : Fields]
  \cup [op : {"repoint_relation", "fold_relation"}, target : Triples, before : Handles, after : Triples]
  \cup [op : {"discard_self_loop_relation", "remove_relation"}, target : Triples, before : Handles,
        after : {NoImage}]
  \cup [op : {"add_relation"}, target : Triples, before : {NoImage}, after : BOOLEAN]
  \cup [op : {"repoint_mentions"}, target : Entities, before : SUBSET MentionIds, after : {NoImage}]
  \cup [op : {"add_mention"}, target : MentionIds, before : {NoImage}, after : {NoImage}]
  \cup [op : {"create_entity_from_tag"}, target : Entities, before : {NoImage}, after : Node]
  \cup [op : {"suppress_span"}, target : Suppressions, before : {NoImage}, after : {NoImage}]
  \cup {w \in [op : {"edit_mention_span"}, target : MentionIds, before : Spans \cup {NoSpan}, after : Spans] :
          Placed(w.target, w.before)}

(* What a call of a kind is made on, and with what.                        *)
LEMMA CallFacts ==
  ASSUME NEW c \in GoodCalls
  PROVE  /\ c.do \in {"create_entity", "update_entity"} => c.on \in Entities /\ c.with \in Node
         /\ c.do = "restore_fields" => c.on \in Entities /\ c.with \in Fields
         /\ c.do \in {"delete_entity", "delete_mentions_for_entity"} => c.on \in Entities
         /\ c.do = "relabel_entity_type" => c.on \in Types /\ c.with \in Types
         /\ c.do = "create_relation" => c.on \in Triples /\ c.with \in Handles
         /\ c.do = "delete_relation" => c.on \in Triples
         /\ c.do = "add_mention" => c.on \in MentionIds /\ c.with \in Mention /\ Placed(c.on, c.with.span)
         /\ c.do = "delete_mention" => c.on \in MentionIds
         /\ c.do = "update_mention_span" =>
              c.on \in MentionIds /\ c.with \in Spans \cup {NoSpan} /\ Placed(c.on, c.with)
         /\ c.do = "reassign_mentions" => c.on \in SUBSET MentionIds /\ c.with \in Entities
         /\ c.do = "repoint_mentions" => c.on \in Entities /\ c.with \in Entities
         /\ c.do \in {"add_suppression", "delete_suppression"} => c.on \in Suppressions
  BY DEF GoodCalls

LEMMA MakeCall ==
  ASSUME NEW on, NEW with
  PROVE  /\ on \in Entities /\ with \in Node =>
              Call("create_entity", on, with) \in GoodCalls /\ Call("update_entity", on, with) \in GoodCalls
         /\ on \in Entities /\ with \in Fields => Call("restore_fields", on, with) \in GoodCalls
         /\ on \in Entities =>
              /\ Call("delete_entity", on, NoImage) \in GoodCalls
              /\ Call("delete_mentions_for_entity", on, NoImage) \in GoodCalls
         /\ on \in Types /\ with \in Types => Call("relabel_entity_type", on, with) \in GoodCalls
         /\ on \in Triples /\ with \in Handles => Call("create_relation", on, with) \in GoodCalls
         /\ on \in Triples => Call("delete_relation", on, NoImage) \in GoodCalls
         /\ on \in MentionIds /\ with \in Mention /\ Placed(on, with.span) =>
              Call("add_mention", on, with) \in GoodCalls
         /\ on \in MentionIds => Call("delete_mention", on, NoImage) \in GoodCalls
         /\ on \in MentionIds /\ with \in Spans \cup {NoSpan} /\ Placed(on, with) =>
              Call("update_mention_span", on, with) \in GoodCalls
         /\ on \in SUBSET MentionIds /\ with \in Entities => Call("reassign_mentions", on, with) \in GoodCalls
         /\ on \in Entities /\ with \in Entities => Call("repoint_mentions", on, with) \in GoodCalls
         /\ on \in Suppressions =>
              /\ Call("add_suppression", on, NoImage) \in GoodCalls
              /\ Call("delete_suppression", on, NoImage) \in GoodCalls
  BY DEF GoodCalls, Call

LEMMA RowFacts ==
  ASSUME NEW w \in GoodRows
  PROVE  /\ w.op \in {"delete_absorbed", "delete_entity"} => w.target \in Entities /\ w.before \in Node
         /\ w.op = "delete_relations" => w.target \in Entities /\ w.before \in Partial(Triples, Handles)
         /\ w.op = "delete_mentions" => w.target \in Entities /\ w.before \in Snapshots
         /\ w.op \in {"edit_fields", "merge_consolidate"} => w.target \in Entities /\ w.before \in Fields
         /\ w.op \in {"repoint_relation", "fold_relation"} =>
              w.target \in Triples /\ w.before \in Handles /\ w.after \in Triples
         /\ w.op \in {"discard_self_loop_relation", "remove_relation"} =>
              w.target \in Triples /\ w.before \in Handles
         /\ w.op = "add_relation" => w.target \in Triples
         /\ w.op = "repoint_mentions" => w.target \in Entities /\ w.before \in SUBSET MentionIds
         /\ w.op = "add_mention" => w.target \in MentionIds
         /\ w.op = "create_entity_from_tag" => w.target \in Entities
         /\ w.op = "suppress_span" => w.target \in Suppressions
         /\ w.op = "edit_mention_span" =>
              w.target \in MentionIds /\ w.before \in Spans \cup {NoSpan} /\ Placed(w.target, w.before)
  BY DEF GoodRows

LEMMA MakeRow ==
  ASSUME NEW target, NEW before, NEW after
  PROVE  /\ target \in Entities /\ before \in Node =>
              /\ Row("delete_absorbed", target, before, NoImage) \in GoodRows
              /\ Row("delete_entity", target, before, NoImage) \in GoodRows
         /\ target \in Entities /\ before \in Partial(Triples, Handles) =>
              Row("delete_relations", target, before, NoImage) \in GoodRows
         /\ target \in Entities /\ before \in Snapshots =>
              Row("delete_mentions", target, before, NoImage) \in GoodRows
         /\ target \in Entities /\ before \in Fields /\ after \in Fields =>
              /\ Row("edit_fields", target, before, after) \in GoodRows
              /\ Row("merge_consolidate", target, before, after) \in GoodRows
         /\ target \in Triples /\ before \in Handles /\ after \in Triples =>
              /\ Row("repoint_relation", target, before, after) \in GoodRows
              /\ Row("fold_relation", target, before, after) \in GoodRows
         /\ target \in Triples /\ before \in Handles =>
              /\ Row("discard_self_loop_relation", target, before, NoImage) \in GoodRows
              /\ Row("remove_relation", target, before, NoImage) \in GoodRows
         /\ target \in Triples /\ after \in BOOLEAN => Row("add_relation", target, NoImage, after) \in GoodRows
         /\ target \in Entities /\ before \in SUBSET MentionIds =>
              Row("repoint_mentions", target, before, NoImage) \in GoodRows
         /\ target \in MentionIds => Row("add_mention", target, NoImage, NoImage) \in GoodRows
         /\ target \in Entities /\ after \in Node =>
              Row("create_entity_from_tag", target, NoImage, after) \in GoodRows
         /\ target \in Suppressions => Row("suppress_span", target, NoImage, NoImage) \in GoodRows
         /\ target \in MentionIds /\ before \in Spans \cup {NoSpan} /\ Placed(target, before)
              /\ after \in Spans =>
              Row("edit_mention_span", target, before, after) \in GoodRows
  BY DEF GoodRows, Row

LEMMA FiniteStores ==
  /\ IsFiniteSet(Entities) /\ IsFiniteSet(Triples) /\ IsFiniteSet(MentionIds)
<1>1. IsFiniteSet(Entities) /\ IsFiniteSet(Predicates) /\ IsFiniteSet(Spans)
  BY ConstantsAssumption DEF ConstantsAssumption
<1>2. IsFiniteSet(Spans \cup {NoSpan})
  BY <1>1, FS_AddElement
<1>3. IsFiniteSet(MentionIds)
  BY <1>1, <1>2, FS_Product DEF MentionIds
<1> DEFINE Nested == (Entities \X Predicates) \X Entities
           f == [x \in Nested |-> <<x[1][1], x[1][2], x[2]>>]
<1>4. IsFiniteSet(Entities \X Predicates)
  BY <1>1, FS_Product
<1>5. IsFiniteSet(Nested)
  BY <1>1, <1>4, FS_Product
<1>6. ASSUME NEW t \in Triples PROVE \E x \in Nested : f[x] = t
  <2> DEFINE x == <<<<t[1], t[2]>>, t[3]>>
  <2>1. x \in Nested /\ f[x] = t
    BY DEF Triples
  <2> QED
    BY <2>1
<1>7. f \in [Nested -> Triples]
  BY DEF Triples
<1>8. f \in Surjection(Nested, Triples)
  <2> HIDE DEF f, Nested
  <2> QED
    BY <1>6, <1>7 DEF Surjection
<1>9. IsFiniteSet(Triples)
  BY <1>5, <1>8, FS_Surjection
<1> QED
  BY <1>1, <1>3, <1>9

-----------------------------------------------------------------------------
(* Nodes and fields *)

FieldNames == {"type", "name", "aliases", "prop"}
Typed(f) ==
  CASE f = "type" -> Types [] f = "name" -> Names [] f = "aliases" -> SUBSET Names
    [] f = "prop" -> Values \cup {NoValue}

LEMMA NodeIs ==
  ASSUME NEW n
  PROVE  n \in Node <=> n = [f \in FieldNames |-> n[f]] /\ \A f \in FieldNames : n[f] \in Typed(f)
<1>1. ASSUME n \in Node PROVE n = [f \in FieldNames |-> n[f]] /\ \A f \in FieldNames : n[f] \in Typed(f)
  <2>1. n = [f \in FieldNames |-> n[f]]
    BY <1>1 DEF Node, FieldNames
  <2>2. n["type"] \in Typed("type") /\ n["name"] \in Typed("name")
    BY <1>1 DEF Node, Typed
  <2>3. n["aliases"] \in Typed("aliases") /\ n["prop"] \in Typed("prop")
    BY <1>1 DEF Node, Typed
  <2> QED
    BY <2>1, <2>2, <2>3 DEF FieldNames
<1>2. ASSUME n = [f \in FieldNames |-> n[f]], \A f \in FieldNames : n[f] \in Typed(f) PROVE n \in Node
  <2>1. n["type"] \in Types /\ n["name"] \in Names /\ n["aliases"] \in SUBSET Names
        /\ n["prop"] \in Values \cup {NoValue}
    BY <1>2 DEF FieldNames, Typed
  <2>2. n = [type |-> n["type"], name |-> n["name"], aliases |-> n["aliases"], prop |-> n["prop"]]
    BY <1>2 DEF FieldNames
  <2> QED
    BY <2>1, <2>2 DEF Node
<1> QED
  BY <1>1, <1>2

(* A partial node, each field of its type.                                 *)
LEMMA MakeFields ==
  ASSUME NEW C \in SUBSET FieldNames, NEW p, p = [f \in C |-> p[f]], \A f \in C : p[f] \in Typed(f)
  PROVE  p \in Fields
<1> DEFINE U == Types \cup Names \cup (SUBSET Names) \cup Values \cup {NoValue}
<1>1. \A f \in FieldNames : Typed(f) \subseteq U
  <2>1. Typed("type") \subseteq U /\ Typed("name") \subseteq U
    BY DEF Typed
  <2>2. Typed("aliases") = SUBSET Names /\ Typed("prop") = Values \cup {NoValue}
    BY DEF Typed
  <2>3. SUBSET Names \subseteq U /\ Values \cup {NoValue} \subseteq U
    BY Zenon
  <2> HIDE DEF U
  <2> QED
    BY <2>1, <2>2, <2>3 DEF FieldNames
<1>2. p \in [C -> U]
  BY <1>1
<1>3. ASSUME NEW m \in Node PROVE Over(p, m) \in Node
  <2>1. DOMAIN p = C /\ DOMAIN m = FieldNames
    BY NodeIs
  <2>2. \A f \in FieldNames : Over(p, m)[f] = IF f \in C THEN p[f] ELSE m[f]
    BY <2>1 DEF Over
  <2>3. Over(p, m) = [f \in FieldNames |-> Over(p, m)[f]]
    BY <2>1 DEF Over
  <2>4. \A f \in FieldNames : m[f] \in Typed(f)
    BY NodeIs
  <2>5. \A f \in FieldNames : Over(p, m)[f] \in Typed(f)
    BY <2>2, <2>4
  <2> QED
    BY <2>3, <2>5, NodeIs
<1>4. C \in SUBSET {"type", "name", "aliases", "prop"}
  BY DEF FieldNames
<1> QED
  BY <1>2, <1>3, <1>4 DEF Fields

(* What a node or an edit has in some fields is what an edit may write.    *)
LEMMA FieldsOfNode ==
  ASSUME NEW n \in Node, NEW C \in SUBSET FieldNames
  PROVE  [f \in C |-> n[f]] \in Fields
<1>1. \A f \in C : n[f] \in Typed(f)
  BY NodeIs
<1> DEFINE p == [f \in C |-> n[f]]
<1>2. p = [f \in C |-> p[f]] /\ \A f \in C : p[f] \in Typed(f)
  BY <1>1
<1> HIDE DEF p
<1>3. p \in Fields
  BY <1>2, MakeFields
<1> QED
  BY <1>3 DEF p

LEMMA FieldsOfPatch ==
  ASSUME NEW n \in Node, NEW p \in Fields, NEW C \in SUBSET DOMAIN p
  PROVE  [f \in C |-> p[f]] \in Fields /\ DOMAIN p \subseteq FieldNames /\ Over(p, n) \in Node
<1>1. DOMAIN p \subseteq FieldNames /\ Over(p, n) \in Node
  BY DEF Fields, FieldNames
<1>2. DOMAIN n = FieldNames
  BY NodeIs
<1>3. \A f \in C : p[f] = Over(p, n)[f]
  BY <1>1, <1>2 DEF Over
<1>4. [f \in C |-> p[f]] = [f \in C |-> Over(p, n)[f]]
  BY <1>3
<1>5. [f \in C |-> Over(p, n)[f]] \in Fields
  BY <1>1, FieldsOfNode
<1> QED
  BY <1>1, <1>4, <1>5

-----------------------------------------------------------------------------
(* Store calls *)

GraphTyped ==
  /\ node \in [Entities -> Node \cup {NoNode}]
  /\ edge \in [Triples -> Handles \cup {NoEdge}]
  /\ mention \in [MentionIds -> Mention \cup {NoMention}]
  /\ PlacesKept(mention)
  /\ hidden \subseteq Suppressions
  /\ minted \in Nat
EndsExist == \A t \in Triples : HasEdge(t) => Exists(t[1]) /\ Exists(t[3])

LogTyped ==
  /\ IsFiniteSet(log)
  /\ \A l \in log : l.row \in GoodRows /\ l.seq \in Nat \ {0} /\ l.at \in 1 .. clock
  /\ \A l, m \in log : l.op = m.op /\ l.seq = m.seq => l = m

GoodReq(q, n) ==
  /\ q # Idle => q.calls \in Seq(GoodCalls)
  /\ q.kind = "edit" => /\ q.rows \in Seq(GoodRows)
                        /\ q.at \in 0 .. n
                        /\ q.op # NoOp => q.at # 0

ReqTyped == \A r \in Requests : GoodReq(req[r], clock)

(* A call that is made is a good one.                                      *)
LEMMA HeadGood ==
  ASSUME ReqTyped, NEW r \in Requests, NEW do, Calls(r, do)
  PROVE  Head(req[r].calls) \in GoodCalls /\ Head(req[r].calls).do = do
  BY DEF ReqTyped, GoodReq, Calls

(* Every store call leaves the graph well formed.                          *)
LEMMA NodeCalls ==
  ASSUME GraphTyped, EndsExist, ReqTyped, NEW r \in Requests,
         CreateEntity(r) \/ UpdateEntity(r) \/ RestoreFields(r)
  PROVE  GraphTyped' /\ EndsExist'
<1> DEFINE c == Head(req[r].calls)
<1>1. UNCHANGED <<edge, mention, hidden, minted>>
  BY DEF CreateEntity, UpdateEntity, RestoreFields, Bookkeeping
<1>2. NoNode \notin Node
  BY ConstantsAssumption DEF ConstantsAssumption
<1>3. ASSUME NEW n \in Node, NEW e \in Entities, node' = [node EXCEPT ![e] = n] \/ node' = node
      PROVE  GraphTyped' /\ EndsExist'
  <2>1. node' \in [Entities -> Node \cup {NoNode}]
    BY <1>3 DEF GraphTyped
  <2>2. \A x \in Entities : Exists(x) => Exists(x)'
    BY <1>2, <1>3 DEF GraphTyped, Exists
  <2>3. GraphTyped'
    BY <1>1, <2>1 DEF GraphTyped
  <2>4. \A t \in Triples : HasEdge(t)' => HasEdge(t)
    BY <1>1 DEF HasEdge
  <2>5. \A t \in Triples : t[1] \in Entities /\ t[3] \in Entities
    BY DEF Triples
  <2> QED
    BY <2>2, <2>3, <2>4, <2>5 DEF EndsExist
<1>4. CASE CreateEntity(r)
  <2>1. c \in GoodCalls /\ c.do = "create_entity"
    BY <1>4, HeadGood DEF CreateEntity
  <2>2. c.on \in Entities /\ c.with \in Node
    BY <2>1, CallFacts
  <2>3. node' = [node EXCEPT ![c.on] = c.with] \/ node' = node
    BY <1>4 DEF CreateEntity, On, With
  <2> QED
    BY <1>3, <2>2, <2>3
<1>5. CASE UpdateEntity(r)
  <2>1. c \in GoodCalls /\ c.do = "update_entity"
    BY <1>5, HeadGood DEF UpdateEntity
  <2>2. c.on \in Entities /\ c.with \in Node
    BY <2>1, CallFacts
  <2>3. node' = [node EXCEPT ![c.on] = c.with] \/ node' = node
    BY <1>5 DEF UpdateEntity, On, With
  <2> QED
    BY <1>3, <2>2, <2>3
<1>6. CASE RestoreFields(r)
  <2>1. c \in GoodCalls /\ c.do = "restore_fields"
    BY <1>6, HeadGood DEF RestoreFields
  <2>2. c.on \in Entities /\ c.with \in Fields
    BY <2>1, CallFacts
  <2>3. CASE Exists(c.on)
    <3>1. node[c.on] \in Node
      BY <2>2, <2>3 DEF GraphTyped, Exists
    <3>2. Over(c.with, node[c.on]) \in Node
      BY <2>2, <3>1, FieldsOfPatch
    <3>3. node' = [node EXCEPT ![c.on] = Over(c.with, node[c.on])]
      BY <1>6, <2>3 DEF RestoreFields, On, With
    <3> QED
      BY <1>3, <2>2, <3>2, <3>3
  <2>4. CASE ~Exists(c.on)
    <3>1. node' = node
      BY <1>6, <2>4 DEF RestoreFields, On
    <3> QED
      BY <1>1, <3>1 DEF GraphTyped, EndsExist, HasEdge, Exists
  <2> QED
    BY <2>3, <2>4
<1> QED
  BY <1>4, <1>5, <1>6

LEMMA RelabelCall ==
  ASSUME GraphTyped, EndsExist, ReqTyped, NEW r \in Requests, RelabelType(r)
  PROVE  GraphTyped' /\ EndsExist'
<1> DEFINE c == Head(req[r].calls)
           ids == {e \in Entities : Exists(e) /\ node[e].type = On(r)}
<1>1. UNCHANGED <<edge, mention, hidden, minted>>
  BY DEF RelabelType, Bookkeeping, ReturnRows
<1>2. NoNode \notin Node
  BY ConstantsAssumption DEF ConstantsAssumption
<1>3. c \in GoodCalls /\ c.do = "relabel_entity_type"
  BY HeadGood DEF RelabelType
<1>4. c.with \in Types /\ With(r) = c.with
  BY <1>3, CallFacts DEF With
<1>5. node' = [e \in Entities |-> IF e \in ids THEN [node[e] EXCEPT !.type = With(r)] ELSE node[e]]
  BY DEF RelabelType
<1>6. \A e \in ids : node[e] \in Node
  BY DEF GraphTyped, Exists
<1>7. \A n \in Node : [n EXCEPT !.type = With(r)] \in Node
  BY <1>4 DEF Node
<1> HIDE DEF ids
<1>8. node' \in [Entities -> Node \cup {NoNode}] /\ \A e \in Entities : Exists(e) => Exists(e)'
  BY <1>2, <1>5, <1>6, <1>7 DEF GraphTyped, Exists
<1>9. GraphTyped'
  BY <1>1, <1>8 DEF GraphTyped
<1>10. \A t \in Triples : (HasEdge(t)' => HasEdge(t)) /\ t[1] \in Entities /\ t[3] \in Entities
  BY <1>1 DEF HasEdge, Triples
<1> QED
  BY <1>8, <1>9, <1>10 DEF EndsExist

LEMMA EdgeCalls ==
  ASSUME GraphTyped, EndsExist, ReqTyped, NEW r \in Requests,
         DeleteNode(r) \/ CreateRelation(r) \/ DeleteRelation(r)
  PROVE  GraphTyped' /\ EndsExist'
<1> DEFINE c == Head(req[r].calls)
<1>1. UNCHANGED <<mention, hidden, minted>>
  BY DEF DeleteNode, CreateRelation, DeleteRelation, Bookkeeping
<1>2. NoEdge \notin Handles
  BY ConstantsAssumption DEF ConstantsAssumption
<1>3. CASE DeleteNode(r)
  <2>1. c \in GoodCalls /\ c.do = "delete_entity"
    BY <1>3, HeadGood DEF DeleteNode
  <2>2. c.on \in Entities
    BY <2>1, CallFacts
  <2>3. /\ node' = [node EXCEPT ![c.on] = NoNode]
        /\ edge' = [t \in Triples |-> IF c.on \in {t[1], t[3]} THEN NoEdge ELSE edge[t]]
    BY <1>3 DEF DeleteNode, On
  <2>4. GraphTyped'
    BY <1>1, <2>2, <2>3 DEF GraphTyped
  <2>5. ASSUME NEW t \in Triples, HasEdge(t)' PROVE Exists(t[1])' /\ Exists(t[3])'
    <3>1. c.on \notin {t[1], t[3]} /\ HasEdge(t)
      BY <2>3, <2>5 DEF HasEdge
    <3>2. Exists(t[1]) /\ Exists(t[3])
      BY <3>1 DEF EndsExist
    <3>3. t[1] \in Entities /\ t[3] \in Entities
      BY DEF Triples
    <3> QED
      BY <2>3, <3>1, <3>2, <3>3 DEF Exists, GraphTyped
  <2> QED
    BY <2>4, <2>5 DEF EndsExist
<1>4. CASE CreateRelation(r)
  <2>1. c \in GoodCalls /\ c.do = "create_relation"
    BY <1>4, HeadGood DEF CreateRelation
  <2>2. c.on \in Triples /\ c.with \in Handles
    BY <2>1, CallFacts
  <2>3. /\ node' = node
        /\ edge' = IF Exists(c.on[1]) /\ Exists(c.on[3]) /\ ~HasEdge(c.on)
                     THEN [edge EXCEPT ![c.on] = c.with] ELSE edge
    BY <1>4 DEF CreateRelation, On, With
  <2>4. GraphTyped'
    BY <1>1, <2>2, <2>3 DEF GraphTyped
  <2>5. EndsExist'
    BY <2>2, <2>3 DEF EndsExist, HasEdge, Exists, GraphTyped
  <2> QED
    BY <2>4, <2>5
<1>5. CASE DeleteRelation(r)
  <2>1. c \in GoodCalls /\ c.do = "delete_relation"
    BY <1>5, HeadGood DEF DeleteRelation
  <2>2. c.on \in Triples
    BY <2>1, CallFacts
  <2>3. node' = node /\ edge' = [edge EXCEPT ![c.on] = NoEdge]
    BY <1>5 DEF DeleteRelation, On
  <2>4. GraphTyped'
    BY <1>1, <2>2, <2>3 DEF GraphTyped
  <2>5. EndsExist'
    BY <2>2, <2>3 DEF EndsExist, HasEdge, Exists, GraphTyped
  <2> QED
    BY <2>4, <2>5
<1> QED
  BY <1>3, <1>4, <1>5

LEMMA ReassignedTyped ==
  ASSUME GraphTyped, NEW ids, NEW e \in Entities
  PROVE  /\ Reassigned(ids, e) \in [MentionIds -> Mention \cup {NoMention}]
         /\ PlacesKept(Reassigned(ids, e))
<1>1. \A m \in Mention : [m EXCEPT !.entity = e] \in Mention /\ [m EXCEPT !.entity = e].span = m.span
  BY DEF Mention
<1>2. ASSUME NEW i \in MentionIds
      PROVE  /\ Reassigned(ids, e)[i] \in Mention \cup {NoMention}
             /\ Reassigned(ids, e)[i] # NoMention =>
                  mention[i] # NoMention /\ Reassigned(ids, e)[i].span = mention[i].span
  <2>1. Reassigned(ids, e)[i] = IF i \in ids /\ mention[i] # NoMention
                                  THEN [mention[i] EXCEPT !.entity = e] ELSE mention[i]
    BY DEF Reassigned
  <2>2. mention[i] \in Mention \cup {NoMention}
    BY DEF GraphTyped
  <2> QED
    BY <1>1, <2>1, <2>2
<1>3. Reassigned(ids, e) = [i \in MentionIds |-> Reassigned(ids, e)[i]]
  BY DEF Reassigned
<1>4. DOMAIN Reassigned(ids, e) = MentionIds /\ DOMAIN mention = MentionIds
  BY DEF Reassigned, GraphTyped
<1>5. PlacesKept(Reassigned(ids, e))
  BY <1>2, <1>4 DEF PlacesKept, GraphTyped
<1> QED
  BY <1>2, <1>3, <1>5

LEMMA MentionCalls ==
  ASSUME GraphTyped, EndsExist, ReqTyped, NEW r \in Requests,
         AddMention(r) \/ DeleteMention(r) \/ UpdateMentionSpan(r) \/ DeleteMentionsOf(r)
           \/ ReassignMentions(r) \/ RepointMentions(r)
  PROVE  GraphTyped' /\ EndsExist'
<1> DEFINE c == Head(req[r].calls)
           M == [MentionIds -> Mention \cup {NoMention}]
<1>1. UNCHANGED <<node, edge, hidden, minted>>
  BY DEF AddMention, DeleteMention, UpdateMentionSpan, DeleteMentionsOf, ReassignMentions,
         RepointMentions, Bookkeeping
<1>2. SUFFICES mention' \in M /\ PlacesKept(mention')
  BY <1>1 DEF GraphTyped, EndsExist, HasEdge, Exists
<1>3. mention \in M /\ PlacesKept(mention)
  BY SMTT(30) DEF GraphTyped
<1>4. CASE AddMention(r)
  <2>1. c \in GoodCalls /\ c.do = "add_mention"
    BY <1>4, HeadGood DEF AddMention
  <2>2. c.on \in MentionIds /\ c.with \in Mention /\ Placed(c.on, c.with.span)
    BY <2>1, CallFacts
  <2> QED
    BY <1>3, <1>4, <2>2 DEF AddMention, On, With, PlacesKept
<1>5. CASE DeleteMention(r)
  <2>1. c \in GoodCalls /\ c.do = "delete_mention"
    BY <1>5, HeadGood DEF DeleteMention
  <2>2. c.on \in MentionIds
    BY <2>1, CallFacts, SMTT(30)
  <2> QED
    BY <1>3, <1>5, <2>2 DEF DeleteMention, On, PlacesKept
<1>6. CASE UpdateMentionSpan(r)
  <2>1. c \in GoodCalls /\ c.do = "update_mention_span"
    BY <1>6, HeadGood DEF UpdateMentionSpan
  <2>2. c.on \in MentionIds /\ c.with \in Spans \cup {NoSpan} /\ Placed(c.on, c.with)
    BY <2>1, CallFacts
  <2>3. \A m \in Mention : [m EXCEPT !.span = c.with] \in Mention /\ [m EXCEPT !.span = c.with].span = c.with
    BY <2>2 DEF Mention
  <2>4. mention' = IF mention[c.on] = NoMention THEN mention
                   ELSE [mention EXCEPT ![c.on] = [mention[c.on] EXCEPT !.span = c.with]]
    BY <1>6 DEF UpdateMentionSpan, On, With
  <2>5. mention[c.on] # NoMention =>
          /\ [mention[c.on] EXCEPT !.span = c.with] \in Mention
          /\ [mention[c.on] EXCEPT !.span = c.with].span = c.with
    BY <1>3, <2>2, <2>3, SMTT(30)
  <2>6. \A i \in MentionIds : mention'[i] = mention[i] \/ (i = c.on /\ mention'[i].span = c.with)
    BY <1>3, <2>2, <2>4, <2>5, SMTT(30)
  <2>7. mention' \in M
    BY <1>3, <2>2, <2>4, <2>5
  <2> QED
    BY <1>3, <2>2, <2>6, <2>7 DEF PlacesKept
<1>7. CASE DeleteMentionsOf(r)
  BY <1>3, <1>7 DEF DeleteMentionsOf, PlacesKept
<1>8. CASE ReassignMentions(r)
  <2>1. c \in GoodCalls /\ c.do = "reassign_mentions"
    BY <1>8, HeadGood DEF ReassignMentions
  <2>2. c.with \in Entities
    BY <2>1, CallFacts, SMTT(30)
  <2> QED
    BY <1>8, <2>2, ReassignedTyped DEF ReassignMentions, On, With
<1>9. CASE RepointMentions(r)
  <2>1. c \in GoodCalls /\ c.do = "repoint_mentions"
    BY <1>9, HeadGood DEF RepointMentions
  <2>2. c.with \in Entities
    BY <2>1, CallFacts
  <2> QED
    BY <1>9, <2>2, ReassignedTyped DEF RepointMentions, On, With
<1> QED
  BY <1>4, <1>5, <1>6, <1>7, <1>8, <1>9

LEMMA SuppressionCalls ==
  ASSUME GraphTyped, EndsExist, ReqTyped, NEW r \in Requests, AddSuppression(r) \/ DeleteSuppression(r)
  PROVE  GraphTyped' /\ EndsExist'
<1> DEFINE c == Head(req[r].calls)
<1>1. UNCHANGED <<node, edge, mention, minted>>
  BY DEF AddSuppression, DeleteSuppression, Bookkeeping
<1>2. SUFFICES hidden' \subseteq Suppressions
  BY <1>1 DEF GraphTyped, EndsExist, HasEdge, Exists
<1>3. CASE AddSuppression(r)
  <2>1. c \in GoodCalls /\ c.do = "add_suppression"
    BY <1>3, HeadGood DEF AddSuppression
  <2>2. c.on \in Suppressions
    BY <2>1, CallFacts
  <2> QED
    BY <1>3, <2>2 DEF AddSuppression, On, GraphTyped
<1>4. CASE DeleteSuppression(r)
  BY <1>4 DEF DeleteSuppression, GraphTyped
<1> QED
  BY <1>3, <1>4

LEMMA CallKeepsGraph ==
  ASSUME GraphTyped, EndsExist, ReqTyped, NEW r \in Requests, StoreCall(r)
  PROVE  GraphTyped' /\ EndsExist'
  BY NodeCalls, RelabelCall, EdgeCalls, MentionCalls, SuppressionCalls DEF StoreCall

(* A request of one shape or the other, with its calls or rows replaced.   *)
LEMMA GoodCallsSet ==
  ASSUME NEW q, NEW n \in Nat, IsEdit(q) \/ IsUndo(q), GoodReq(q, n), NEW calls \in Seq(GoodCalls)
  PROVE  GoodReq([q EXCEPT !.calls = calls], n)
<1> DEFINE m == [q EXCEPT !.calls = calls]
<1>1. CASE IsEdit(q)
  <2>1. PICK c, seed, w, op, at, before : q = Edit(c, seed, w, op, at, before)
    BY <1>1 DEF IsEdit
  <2>2. m = Edit(calls, seed, w, op, at, before)
    BY <2>1 DEF Edit
  <2>3. q.kind = "edit" /\ q.rows = w /\ q.at = at /\ q.op = op
    BY <2>1 DEF Edit
  <2>4. m.kind = "edit" /\ m.rows = w /\ m.at = at /\ m.op = op /\ m.calls = calls
    BY <2>2 DEF Edit
  <2> QED
    BY <2>3, <2>4 DEF GoodReq
<1>2. CASE IsUndo(q)
  <2>1. PICK c, op : q = [kind |-> "undo", calls |-> c, op |-> op]
    BY <1>2 DEF IsUndo
  <2>2. m = [kind |-> "undo", calls |-> calls, op |-> op]
    BY <2>1
  <2> QED
    BY <2>2 DEF GoodReq
<1> QED
  BY <1>1, <1>2

LEMMA GoodRowsSet ==
  ASSUME NEW q, NEW n \in Nat, IsEdit(q) \/ IsUndo(q), GoodReq(q, n), NEW rows,
         IsEdit(q) => rows \in Seq(GoodRows)
  PROVE  GoodReq([q EXCEPT !.rows = rows], n)
<1> DEFINE m == [q EXCEPT !.rows = rows]
<1>1. CASE IsEdit(q)
  <2>1. PICK c, seed, w, op, at, before : q = Edit(c, seed, w, op, at, before)
    BY <1>1 DEF IsEdit
  <2>2. m = Edit(c, seed, rows, op, at, before)
    BY <2>1 DEF Edit
  <2>3. q.kind = "edit" /\ q.calls = c /\ q.at = at /\ q.op = op /\ q # Idle
    BY <2>1 DEF Edit, Idle
  <2>4. m.kind = "edit" /\ m.rows = rows /\ m.at = at /\ m.op = op /\ m.calls = c
    BY <2>2 DEF Edit
  <2> QED
    BY <1>1, <2>3, <2>4 DEF GoodReq
<1>2. CASE IsUndo(q)
  <2>1. PICK c, op : q = [kind |-> "undo", calls |-> c, op |-> op]
    BY <1>2 DEF IsUndo
  <2>2. m = q
    BY <2>1
  <2> QED
    BY <2>2
<1> QED
  BY <1>1, <1>2

(* A request is replaced, the others stay as they are.                     *)
LEMMA GoodReqStep ==
  ASSUME ReqShape, ReqTyped, NEW r \in Requests, NEW q, req' = [req EXCEPT ![r] = q],
         clock \in Nat, clock' \in Nat, clock <= clock', GoodReq(q, clock')
  PROVE  ReqTyped'
<1>1. ASSUME NEW s \in Requests PROVE GoodReq(req'[s], clock')
  <2>1. CASE s = r
    <3>1. req'[s] = q
      BY <2>1 DEF ReqShape
    <3> QED
      BY <3>1
  <2>2. CASE s # r
    <3>1. req'[s] = req[s]
      BY <2>2 DEF ReqShape
    <3>2. GoodReq(req[s], clock)
      BY DEF ReqTyped
    <3> QED
      BY <3>1, <3>2 DEF GoodReq
  <2> QED
    BY <2>1, <2>2
<1> QED
  BY <1>1 DEF ReqTyped

(* What remains of the calls is as good as they were.                      *)
LEMMA TailGood ==
  ASSUME ReqTyped, NEW r \in Requests, req[r] # Idle, req[r].calls # <<>>
  PROVE  Tail(req[r].calls) \in Seq(GoodCalls)
  BY DEF ReqTyped, GoodReq

LEMMA ReturnTyped ==
  ASSUME ReqShape, ReqTyped, NEW r \in Requests, req[r] # Idle, req[r].calls # <<>>, Return(r),
         clock \in Nat, clock' = clock
  PROVE  ReqTyped'
<1> DEFINE n == [req[r] EXCEPT !.calls = Tail(req[r].calls)]
<1>1. req' = [req EXCEPT ![r] = n]
  BY DEF Return
<1>2. Tail(req[r].calls) \in Seq(GoodCalls)
  BY TailGood
<1>3. GoodReq(req[r], clock) /\ (IsEdit(req[r]) \/ IsUndo(req[r]))
  BY DEF ReqTyped, ReqShape
<1>4. GoodReq(n, clock)
  BY <1>2, <1>3, GoodCallsSet
<1> HIDE DEF n
<1>5. clock' \in Nat /\ clock <= clock' /\ GoodReq(n, clock')
  BY <1>4
<1> QED
  BY <1>1, <1>5, GoodReqStep

LEMMA ReturnRowsTyped ==
  ASSUME ReqShape, ReqTyped, NEW r \in Requests, req[r] # Idle, req[r].calls # <<>>, NEW rows,
         ReturnRows(r, rows), IsEdit(req[r]) => rows \in Seq(GoodRows),
         clock \in Nat, clock' = clock
  PROVE  ReqTyped'
<1> DEFINE n == [req[r] EXCEPT !.calls = Tail(req[r].calls)]
           m == [n EXCEPT !.rows = rows]
           k == [req[r] EXCEPT !.calls = Tail(req[r].calls), !.rows = rows]
<1>0. k = m
  OBVIOUS
<1>1. req' = [req EXCEPT ![r] = k]
  BY DEF ReturnRows
<1>2. Tail(req[r].calls) \in Seq(GoodCalls)
  BY TailGood
<1>3. GoodReq(req[r], clock) /\ (IsEdit(req[r]) \/ IsUndo(req[r]))
  BY DEF ReqTyped, ReqShape
<1>4. GoodReq(n, clock) /\ (IsEdit(req[r]) => IsEdit(n)) /\ (IsUndo(req[r]) => IsUndo(n))
  BY <1>2, <1>3, GoodCallsSet, CallsSet, UndoSet
<1>5. IsEdit(n) => IsEdit(req[r])
  BY <1>3, <1>4 DEF IsEdit, IsUndo, Edit
<1> HIDE DEF n
<1>6. GoodReq(m, clock)
  BY <1>3, <1>4, <1>5, GoodRowsSet
<1> HIDE DEF m, k
<1>7. clock' \in Nat /\ clock <= clock' /\ GoodReq(m, clock')
  BY <1>6
<1> QED
  BY <1>0, <1>1, <1>7, GoodReqStep

LEMMA RepointTyped ==
  ASSUME ReqShape, ReqTyped, NEW r \in Requests, RepointMentions(r), clock \in Nat
  PROVE  ReqTyped'
<1> DEFINE moved == MentionsOf(On(r))
           Told(row) == IF row.op = "repoint_mentions" THEN [row EXCEPT !.before = moved] ELSE row
           rows == [i \in DOMAIN req[r].rows |-> Told(req[r].rows[i])]
<1>1. ReturnRows(r, rows) /\ req[r] # Idle /\ req[r].calls # <<>> /\ clock' = clock
  BY DEF RepointMentions, Calls, Bookkeeping
<1>2. moved \in SUBSET MentionIds
  BY DEF MentionsOf
<1>3. ASSUME NEW row \in GoodRows PROVE Told(row) \in GoodRows
  <2>1. CASE row.op = "repoint_mentions"
    <3>1. row \in [op : {"repoint_mentions"}, target : Entities, before : SUBSET MentionIds, after : {NoImage}]
      BY <2>1 DEF GoodRows
    <3> HIDE DEF moved
    <3>2. [row EXCEPT !.before = moved]
            \in [op : {"repoint_mentions"}, target : Entities, before : SUBSET MentionIds, after : {NoImage}]
      BY <1>2, <3>1
    <3> QED
      BY <2>1, <3>2 DEF GoodRows
  <2> QED
    BY <2>1
<1>4. ASSUME IsEdit(req[r]) PROVE rows \in Seq(GoodRows)
  <2>1. req[r].rows \in Seq(GoodRows)
    BY <1>4, EditIsEdit DEF ReqTyped, GoodReq
  <2> HIDE DEF Told
  <2> QED
    BY <1>3, <2>1
<1> HIDE DEF rows
<1> QED
  BY <1>1, <1>4, ReturnRowsTyped

LEMMA RelabelTyped ==
  ASSUME GraphTyped, ReqShape, ReqTyped, NEW r \in Requests, RelabelType(r), clock \in Nat
  PROVE  ReqTyped'
<1> DEFINE ids == {e \in Entities : Exists(e) /\ node[e].type = On(r)}
           rows == [i \in DOMAIN SetToSeq(ids) |->
                     Row("edit_fields", SetToSeq(ids)[i], [type |-> On(r)], [type |-> With(r)])]
           c == Head(req[r].calls)
<1>1. req' = [req EXCEPT ![r] = Idle] \/ ReturnRows(r, rows)
  BY DEF RelabelType
<1>2. req[r] # Idle /\ req[r].calls # <<>> /\ clock' = clock
  BY DEF RelabelType, Calls, Bookkeeping
<1>3. c \in GoodCalls /\ c.do = "relabel_entity_type"
  BY HeadGood DEF RelabelType
<1>4. On(r) \in Types /\ With(r) \in Types
  BY <1>3, CallFacts DEF On, With
<1>5. ASSUME NEW x \in Types PROVE [type |-> x] \in Fields
  <2> DEFINE p == [type |-> x]
  <2>1. p = [f \in {"type"} |-> p[f]] /\ p["type"] = x
    OBVIOUS
  <2> HIDE DEF p
  <2>2. \A f \in {"type"} : p[f] \in Typed(f)
    BY <2>1 DEF Typed
  <2>3. {"type"} \in SUBSET FieldNames
    BY DEF FieldNames
  <2>4. p \in Fields
    BY <2>1, <2>2, <2>3, MakeFields
  <2> QED
    BY <2>4 DEF p
<1>6. [type |-> On(r)] \in Fields /\ [type |-> With(r)] \in Fields
  BY <1>4, <1>5
<1>7. ids \subseteq Entities /\ IsFiniteSet(ids)
  BY FiniteStores, FS_Subset
<1> HIDE DEF ids
<1>8. SetToSeq(ids) \in Seq(ids)
  BY <1>7, SetToSeqIs
<1> DEFINE S == SetToSeq(ids)
<1>9. \A i \in DOMAIN S : S[i] \in Entities
  BY <1>7, <1>8
<1>10. \A i \in DOMAIN S : Row("edit_fields", S[i], [type |-> On(r)], [type |-> With(r)]) \in GoodRows
  BY <1>6, <1>9, MakeRow
<1> HIDE DEF S
<1>11. rows \in Seq(GoodRows)
  BY <1>8, <1>10 DEF S
<1> HIDE DEF rows
<1>12. CASE ReturnRows(r, rows)
  BY <1>2, <1>11, <1>12, ReturnRowsTyped
<1>13. CASE req' = [req EXCEPT ![r] = Idle]
  <2>1. GoodReq(Idle, clock')
    BY DEF GoodReq, Idle
  <2>2. clock' \in Nat /\ clock <= clock'
    BY <1>2
  <2> QED
    BY <1>13, <2>1, <2>2, GoodReqStep
<1> QED
  BY <1>1, <1>12, <1>13

(* A store call leaves every request well formed.                          *)
LEMMA CallKeepsReq ==
  ASSUME GraphTyped, ReqShape, ReqTyped, NEW r \in Requests, StoreCall(r), clock \in Nat
  PROVE  ReqTyped'
<1>1. CASE RepointMentions(r)
  BY <1>1, RepointTyped
<1>2. CASE RelabelType(r)
  BY <1>2, RelabelTyped
<1>3. CASE Return(r)
  <2>1. req[r] # Idle /\ req[r].calls # <<>> /\ clock' = clock
    BY DEF StoreCall, CreateEntity, UpdateEntity, RestoreFields, DeleteNode, RelabelType,
         CreateRelation, DeleteRelation, AddMention, DeleteMention, UpdateMentionSpan,
         DeleteMentionsOf, ReassignMentions, RepointMentions, AddSuppression,
         DeleteSuppression, Calls, Bookkeeping
  <2> QED
    BY <1>3, <2>1, ReturnTyped, SMTT(30)
<1>4. RepointMentions(r) \/ RelabelType(r) \/ Return(r)
  BY DEF StoreCall, CreateEntity, UpdateEntity, RestoreFields, DeleteNode,
         CreateRelation, DeleteRelation, AddMention, DeleteMention, UpdateMentionSpan,
         DeleteMentionsOf, ReassignMentions, AddSuppression, DeleteSuppression
<1> QED
  BY <1>1, <1>2, <1>3, <1>4

-----------------------------------------------------------------------------
(* Operations *)

(* Short sequences.                                                        *)
LEMMA Tuples ==
  ASSUME NEW S, NEW x \in S
  PROVE  /\ <<x>> \in Seq(S)
         /\ \A y \in S : <<x, y>> \in Seq(S)
         /\ \A y, z \in S : <<x, y, z>> \in Seq(S)
  OBVIOUS

(* An operation begins with good calls and good rows.                      *)
LEMMA BeginTyped ==
  ASSUME ReqShape, ReqTyped, NEW r \in Requests, NEW calls \in Seq(GoodCalls), NEW seed,
         NEW rows \in Seq(GoodRows), Begin(r, calls, seed, rows), clock \in Nat
  PROVE  ReqTyped'
<1> DEFINE q == Edit(calls, seed, rows, NoOp, 0, Graph)
<1>1. req' = [req EXCEPT ![r] = q] /\ clock' = clock
  BY DEF Begin, Edit
<1>2. q.kind = "edit" /\ q.calls = calls /\ q.rows = rows /\ q.op = NoOp /\ q.at = 0
  BY DEF Edit
<1> HIDE DEF q
<1>3. GoodReq(q, clock') /\ clock' \in Nat /\ clock <= clock'
  BY <1>1, <1>2 DEF GoodReq
<1> QED
  BY <1>1, <1>3, GoodReqStep

Sound == GraphTyped /\ ReqShape /\ ReqTyped /\ clock \in Nat

LEMMA EditEntityTyped ==
  ASSUME Sound, NEW r \in Requests, NEW e \in Entities, NEW patch \in Patches, EditEntity(r, e, patch)
  PROVE  ReqTyped' /\ minted' \in Nat
<1> DEFINE changed == {f \in DOMAIN patch : patch[f] # node[e][f]}
           was == [f \in changed |-> node[e][f]]
           is == [f \in changed |-> patch[f]]
<1>1. node[e] \in Node /\ patch \in Fields
  BY PatchesAssumption DEF PatchesAssumption, EditEntity, Exists, Sound, GraphTyped
<1>2. changed \in SUBSET DOMAIN patch
  OBVIOUS
<1>3. Begin(r, <<Call("update_entity", e, Over(patch, node[e]))>>, Single, <<Row("edit_fields", e, was, is)>>)
      /\ minted' = minted
  BY DEF EditEntity
<1> HIDE DEF changed
<1>4. is \in Fields /\ DOMAIN patch \subseteq FieldNames /\ Over(patch, node[e]) \in Node
  BY <1>1, <1>2, FieldsOfPatch
<1>5. was \in Fields
  <2>1. changed \in SUBSET FieldNames
    BY <1>2, <1>4
  <2> QED
    BY <1>1, <2>1, FieldsOfNode
<1> HIDE DEF was, is
<1>6. Call("update_entity", e, Over(patch, node[e])) \in GoodCalls /\ Row("edit_fields", e, was, is) \in GoodRows
  BY <1>4, <1>5, MakeCall, MakeRow
<1>7. <<Call("update_entity", e, Over(patch, node[e]))>> \in Seq(GoodCalls)
      /\ <<Row("edit_fields", e, was, is)>> \in Seq(GoodRows)
  BY <1>6, Tuples
<1> QED
  BY <1>3, <1>7, BeginTyped DEF Sound, GraphTyped

LEMMA RelationTyped ==
  ASSUME Sound, NEW r \in Requests, NEW t \in Triples, AddRelation(r, t) \/ RemoveRelation(r, t)
  PROVE  ReqTyped' /\ minted' \in Nat
<1>1. minted \in Nat /\ (HasEdge(t) => edge[t] \in Handles)
  BY DEF Sound, GraphTyped, HasEdge
<1>2. CASE AddRelation(r, t)
  <2>1. HasEdge(t) \in BOOLEAN /\ minted + 1 \in Handles
    BY <1>1 DEF HasEdge, Handles
  <2>2. Call("create_relation", t, minted + 1) \in GoodCalls
        /\ Row("add_relation", t, NoImage, HasEdge(t)) \in GoodRows
    BY <2>1, MakeCall, MakeRow
  <2>3. <<Call("create_relation", t, minted + 1)>> \in Seq(GoodCalls)
        /\ <<Row("add_relation", t, NoImage, HasEdge(t))>> \in Seq(GoodRows)
    BY <2>2, Tuples
  <2>4. Begin(r, <<Call("create_relation", t, minted + 1)>>, Single, <<Row("add_relation", t, NoImage, HasEdge(t))>>)
        /\ minted' = minted + 1
    BY <1>2 DEF AddRelation
  <2>5. minted' \in Nat
    BY <1>1, <2>4
  <2> QED
    BY <2>3, <2>4, <2>5, BeginTyped DEF Sound
<1>3. CASE RemoveRelation(r, t)
  <2>1. Begin(r, <<Call("delete_relation", t, NoImage)>>, Single, <<Row("remove_relation", t, edge[t], NoImage)>>)
        /\ minted' = minted /\ HasEdge(t)
    BY <1>3 DEF RemoveRelation
  <2>2. Call("delete_relation", t, NoImage) \in GoodCalls
        /\ Row("remove_relation", t, edge[t], NoImage) \in GoodRows
    BY <1>1, <2>1, MakeCall, MakeRow
  <2>3. <<Call("delete_relation", t, NoImage)>> \in Seq(GoodCalls)
        /\ <<Row("remove_relation", t, edge[t], NoImage)>> \in Seq(GoodRows)
    BY <2>2, Tuples
  <2> QED
    BY <1>1, <2>1, <2>3, BeginTyped DEF Sound
<1> QED
  BY <1>2, <1>3

(* A re-key of an edge that is there.                                      *)
LEMMA RekeyTyped ==
  ASSUME GraphTyped, NEW old \in Triples, NEW new \in Triples, HasEdge(old), NEW i \in Nat
  PROVE  Rekey(old, new, i) \in Seq(GoodCalls) /\ RekeyRow(old, new) \in GoodRows
<1>1. edge[old] \in Handles /\ minted + i \in Handles
  BY DEF GraphTyped, HasEdge, Handles
<1>2. Handle(old, i) \in Handles
  BY <1>1 DEF Handle
<1>3. Call("create_relation", new, Handle(old, i)) \in GoodCalls
      /\ Call("delete_relation", old, NoImage) \in GoodCalls
  BY <1>2, MakeCall
<1>4. Rekey(old, new, i) \in Seq(GoodCalls)
  BY <1>3, Tuples DEF Rekey
<1>5. RekeyRow(old, new) \in GoodRows
  BY <1>1, MakeRow DEF RekeyRow
<1> QED
  BY <1>4, <1>5

LEMMA RetargetTyped ==
  ASSUME Sound, NEW r \in Requests, NEW old \in Triples, NEW new \in Triples, RetargetRelation(r, old, new)
  PROVE  ReqTyped' /\ minted' \in Nat
<1>1. Rekey(old, new, 1) \in Seq(GoodCalls) /\ RekeyRow(old, new) \in GoodRows
  BY RekeyTyped DEF RetargetRelation, Sound
<1>2. <<RekeyRow(old, new)>> \in Seq(GoodRows)
  BY <1>1, Tuples
<1>3. Begin(r, Rekey(old, new, 1), <<"retarget", old, new>>, <<RekeyRow(old, new)>>)
  BY DEF RetargetRelation
<1>4. minted' \in Nat
  BY DEF RetargetRelation, Sound, GraphTyped
<1> QED
  BY <1>1, <1>2, <1>3, <1>4, BeginTyped DEF Sound

LEMMA RenameTyped ==
  ASSUME Sound, NEW r \in Requests, NEW p \in Predicates, NEW q \in Predicates, RenamePredicate(r, p, q)
  PROVE  ReqTyped' /\ minted' \in Nat
<1> DEFINE B == {t \in Triples : HasEdge(t) /\ t[2] = p}
           S == SetToSeq(B)
           Renamed(t) == <<t[1], q, t[3]>>
           parts == [i \in DOMAIN S |-> Rekey(S[i], Renamed(S[i]), i)]
           rows == [i \in DOMAIN S |-> RekeyRow(S[i], Renamed(S[i]))]
<1>1. Begin(r, FlattenSeq(parts), <<"rename", p, q>>, rows) /\ minted' = minted + Len(S)
  BY DEF RenamePredicate
<1>2. B \subseteq Triples /\ IsFiniteSet(B) /\ \A t \in B : HasEdge(t)
  BY FiniteStores, FS_Subset
<1>3. \A t \in Triples : Renamed(t) \in Triples
  BY DEF Triples
<1> HIDE DEF B
<1>4. S \in Seq(B) /\ Len(S) \in Nat /\ DOMAIN S = 1 .. Len(S)
  BY <1>2, SetToSeqIs
<1> HIDE DEF S
<1>5. ASSUME NEW i \in DOMAIN S
      PROVE  Rekey(S[i], Renamed(S[i]), i) \in Seq(GoodCalls) /\ RekeyRow(S[i], Renamed(S[i])) \in GoodRows
  <2>1. S[i] \in B /\ i \in Nat
    BY <1>4
  <2>2. S[i] \in Triples /\ HasEdge(S[i]) /\ Renamed(S[i]) \in Triples
    BY <1>2, <1>3, <2>1
  <2> HIDE DEF Renamed
  <2> QED
    BY <2>1, <2>2, RekeyTyped DEF Sound
<1> HIDE DEF Renamed
<1>6. parts \in Seq(Seq(GoodCalls)) /\ rows \in Seq(GoodRows)
  BY <1>4, <1>5
<1> HIDE DEF parts, rows
<1>7. FlattenSeq(parts) \in Seq(GoodCalls)
  BY <1>6, FlattenType
<1>8. ReqTyped'
  BY <1>1, <1>6, <1>7, BeginTyped DEF Sound
<1>9. minted' \in Nat
  BY <1>1, <1>4 DEF Sound, GraphTyped
<1> QED
  BY <1>8, <1>9

LEMMA RelabelBeginTyped ==
  ASSUME Sound, NEW r \in Requests, NEW from \in Types, NEW to \in Types, RelabelEntityType(r, from, to)
  PROVE  ReqTyped' /\ minted' \in Nat
<1>1. <<Call("relabel_entity_type", from, to)>> \in Seq(GoodCalls)
  BY MakeCall, Tuples
<1>2. <<>> \in Seq(GoodRows)
  OBVIOUS
<1>3. Begin(r, <<Call("relabel_entity_type", from, to)>>, <<"relabel", from, to>>, <<>>) /\ minted' = minted
  BY DEF RelabelEntityType
<1> QED
  BY <1>1, <1>2, <1>3, BeginTyped DEF Sound, GraphTyped

(* A step of a merge: the edge re-keyed, folded or dropped.                *)
LEMMA MergeStepTyped ==
  ASSUME GraphTyped, NEW old \in Triples, NEW new \in Triples, HasEdge(old)
  PROVE  MergeStepCalls(old, new) \in Seq(GoodCalls) /\ MergeStepRow(old, new) \in GoodRows
<1>1. edge[old] \in Handles
  BY DEF GraphTyped, HasEdge
<1>2. Call("delete_relation", old, NoImage) \in GoodCalls /\ Call("create_relation", new, edge[old]) \in GoodCalls
  BY <1>1, MakeCall
<1>3. <<Call("delete_relation", old, NoImage)>> \in Seq(GoodCalls)
      /\ <<Call("create_relation", new, edge[old])>> \in Seq(GoodCalls) /\ <<>> \in Seq(GoodCalls)
  BY <1>2, Tuples
<1>4. \A s, u \in Seq(GoodCalls) : s \o u \in Seq(GoodCalls)
  OBVIOUS
<1>5. MergeStepCalls(old, new) \in Seq(GoodCalls)
  BY <1>3, <1>4 DEF MergeStepCalls
<1>6. Row("discard_self_loop_relation", old, edge[old], NoImage) \in GoodRows
  BY <1>1, MakeRow
<1>7. RekeyRow(old, new) \in GoodRows
  BY RekeyTyped
<1> QED
  BY <1>5, <1>6, <1>7 DEF MergeStepRow

(* The images of a merge are fields of a node.                             *)
LEMMA ImagesTyped ==
  ASSUME NEW n \in Node
  PROVE  Images(n) \in Fields
<1> DEFINE C == {"aliases", "prop"}
<1>1. C \in SUBSET FieldNames
  BY DEF FieldNames
<1>2. Images(n) = [f \in C |-> n[f]]
  BY DEF Images
<1> QED
  BY <1>1, <1>2, FieldsOfNode

LEMMA ConsolidatedTyped ==
  ASSUME GraphTyped, NEW a \in Entities, NEW b \in Entities, Exists(a), Exists(b),
         NEW kept \in Values \cup {NoValue}
  PROVE  Consolidated(a, b, kept) \in Node
<1>1. node[a] \in Node /\ node[b] \in Node
  BY DEF GraphTyped, Exists
<1> DEFINE as == (node[a].aliases \cup node[b].aliases \cup {node[b].name}) \ {node[a].name}
           p == IF Conflict(a, b) THEN kept ELSE IF node[a].prop # NoValue THEN node[a].prop ELSE node[b].prop
<1>2. as \in SUBSET Names /\ p \in Values \cup {NoValue}
  <2>1. node[a].aliases \subseteq Names /\ node[b].aliases \subseteq Names /\ node[b].name \in Names
    BY <1>1 DEF Node
  <2>2. node[a].prop \in Values \cup {NoValue} /\ node[b].prop \in Values \cup {NoValue}
    BY <1>1 DEF Node
  <2> QED
    BY <2>1, <2>2
<1>3. Consolidated(a, b, kept) = [node[a] EXCEPT !.aliases = as, !.prop = p]
  BY DEF Consolidated
<1> HIDE DEF as, p
<1>4. \A n \in Node : [n EXCEPT !.aliases = as, !.prop = p] \in Node
  BY <1>2 DEF Node
<1> QED
  BY <1>1, <1>3, <1>4

LEMMA MergeTyped ==
  ASSUME Sound, NEW r \in Requests, NEW b \in Entities, NEW a \in Entities,
         NEW kept \in Values \cup {NoValue}, MergeEntities(r, b, a, kept)
  PROVE  ReqTyped' /\ minted' \in Nat
<1> DEFINE S == SetToSeq(Incident(b))
           survivor == Consolidated(a, b, kept)
           parts == [i \in DOMAIN S |-> MergeStepCalls(S[i], Swapped(S[i], a, b))]
           steps == [i \in DOMAIN S |-> MergeStepRow(S[i], Swapped(S[i], a, b))]
           calls == <<Call("update_entity", a, survivor)>> \o FlattenSeq(parts)
                      \o <<Call("repoint_mentions", b, a), Call("delete_entity", b, NoImage)>>
           rows == <<Row("merge_consolidate", a, Images(node[a]), Images(survivor))>> \o steps
                     \o <<Row("repoint_mentions", b, {}, NoImage), Row("delete_absorbed", b, node[b], NoImage)>>
<1>1. Begin(r, calls, <<"merge", b, a>>, rows) /\ minted' = minted /\ Exists(a) /\ Exists(b)
  BY DEF MergeEntities
<1>2. node[a] \in Node /\ node[b] \in Node /\ survivor \in Node
  BY <1>1, ConsolidatedTyped DEF Sound, GraphTyped, Exists
<1>3. Incident(b) \subseteq Triples /\ IsFiniteSet(Incident(b)) /\ \A t \in Incident(b) : HasEdge(t)
  <2>1. Incident(b) \subseteq Triples /\ \A t \in Incident(b) : HasEdge(t)
    BY DEF Incident
  <2> QED
    BY <2>1, FiniteStores, FS_Subset
<1>4. S \in Seq(Incident(b)) /\ Len(S) \in Nat /\ DOMAIN S = 1 .. Len(S)
  BY <1>3, SetToSeqIs
<1> HIDE DEF S
<1>5. ASSUME NEW i \in DOMAIN S
      PROVE  MergeStepCalls(S[i], Swapped(S[i], a, b)) \in Seq(GoodCalls)
             /\ MergeStepRow(S[i], Swapped(S[i], a, b)) \in GoodRows
  <2>1. S[i] \in Triples /\ HasEdge(S[i])
    BY <1>3, <1>4
  <2>2. Swapped(S[i], a, b) \in Triples
    BY <2>1 DEF Swapped, Triples
  <2> QED
    BY <2>1, <2>2, MergeStepTyped DEF Sound
<1>6. parts \in Seq(Seq(GoodCalls)) /\ steps \in Seq(GoodRows)
  BY <1>4, <1>5
<1> HIDE DEF parts, steps, survivor
<1>7. FlattenSeq(parts) \in Seq(GoodCalls)
  BY <1>6, FlattenType
<1>8. calls \in Seq(GoodCalls)
  <2>1. Call("update_entity", a, survivor) \in GoodCalls /\ Call("repoint_mentions", b, a) \in GoodCalls
        /\ Call("delete_entity", b, NoImage) \in GoodCalls
    BY <1>2, MakeCall
  <2>2. <<Call("update_entity", a, survivor)>> \in Seq(GoodCalls)
        /\ <<Call("repoint_mentions", b, a), Call("delete_entity", b, NoImage)>> \in Seq(GoodCalls)
    BY <2>1, Tuples
  <2>3. \A x, y, z \in Seq(GoodCalls) : x \o y \o z \in Seq(GoodCalls)
    OBVIOUS
  <2> QED
    BY <1>7, <2>2, <2>3
<1>9. rows \in Seq(GoodRows)
  <2>1. Images(node[a]) \in Fields /\ Images(survivor) \in Fields
    BY <1>2, ImagesTyped
  <2>2. {} \in SUBSET MentionIds
    OBVIOUS
  <2>3. Row("merge_consolidate", a, Images(node[a]), Images(survivor)) \in GoodRows
        /\ Row("repoint_mentions", b, {}, NoImage) \in GoodRows
        /\ Row("delete_absorbed", b, node[b], NoImage) \in GoodRows
    BY <1>2, <2>1, <2>2, MakeRow
  <2>4. <<Row("merge_consolidate", a, Images(node[a]), Images(survivor))>> \in Seq(GoodRows)
        /\ <<Row("repoint_mentions", b, {}, NoImage), Row("delete_absorbed", b, node[b], NoImage)>> \in Seq(GoodRows)
    BY <2>3, Tuples
  <2>5. \A x, y, z \in Seq(GoodRows) : x \o y \o z \in Seq(GoodRows)
    OBVIOUS
  <2> QED
    BY <1>6, <2>4, <2>5
<1> HIDE DEF calls, rows
<1> QED
  BY <1>1, <1>8, <1>9, BeginTyped DEF Sound, GraphTyped

LEMMA DeleteTyped ==
  ASSUME Sound, NEW r \in Requests, NEW e \in Entities, DeleteEntity(r, e)
  PROVE  ReqTyped' /\ minted' \in Nat
<1> DEFINE ms == Restrict(mention, MentionsOf(e))
           es == Restrict(edge, Incident(e))
           calls == <<Call("delete_mentions_for_entity", e, NoImage), Call("delete_entity", e, NoImage)>>
           rows == <<Row("delete_mentions", e, ms, NoImage), Row("delete_relations", e, es, NoImage),
                     Row("delete_entity", e, node[e], NoImage)>>
<1>1. Begin(r, calls, <<"delete", e>>, rows) /\ minted' = minted /\ Exists(e)
  BY DEF DeleteEntity
<1>2. node[e] \in Node
  BY <1>1 DEF Sound, GraphTyped, Exists
<1>3. ms \in Snapshots
  <2>1. MentionsOf(e) \in SUBSET MentionIds /\ \A i \in MentionsOf(e) : mention[i] \in Mention
    BY DEF MentionsOf, Sound, GraphTyped
  <2>2. ms \in [MentionsOf(e) -> Mention] /\ \A i \in MentionsOf(e) : ms[i] = mention[i]
    BY <2>1 DEF Restrict
  <2> HIDE DEF ms
  <2>3. PlacesKept(ms)
    BY <2>1, <2>2 DEF PlacesKept, Sound, GraphTyped
  <2> QED
    BY <2>1, <2>2, <2>3 DEF Partial, Snapshots
<1>4. es \in Partial(Triples, Handles)
  <2>1. Incident(e) \in SUBSET Triples /\ \A t \in Incident(e) : edge[t] \in Handles
    BY DEF Incident, Sound, GraphTyped, HasEdge
  <2>2. es \in [Incident(e) -> Handles]
    BY <2>1 DEF Restrict
  <2> HIDE DEF es
  <2> QED
    BY <2>1, <2>2 DEF Partial
<1> HIDE DEF ms, es
<1>5. calls \in Seq(GoodCalls)
  <2>1. Call("delete_mentions_for_entity", e, NoImage) \in GoodCalls /\ Call("delete_entity", e, NoImage) \in GoodCalls
    BY MakeCall
  <2> QED
    BY <2>1, Tuples
<1>6. rows \in Seq(GoodRows)
  <2>1. Row("delete_mentions", e, ms, NoImage) \in GoodRows /\ Row("delete_relations", e, es, NoImage) \in GoodRows
        /\ Row("delete_entity", e, node[e], NoImage) \in GoodRows
    BY <1>2, <1>3, <1>4, MakeRow
  <2> QED
    BY <2>1, Tuples
<1> HIDE DEF calls, rows
<1> QED
  BY <1>1, <1>5, <1>6, BeginTyped DEF Sound, GraphTyped

LEMMA ManualTyped ==
  ASSUME NEW e \in Entities, NEW s \in Spans
  PROVE  /\ AddManual(e, s) \in GoodCalls
         /\ Row("add_mention", <<e, s>>, NoImage, NoImage) \in GoodRows
<1>1. /\ <<e, s>> \in MentionIds /\ [entity |-> e, span |-> s] \in Mention
      /\ Placed(<<e, s>>, [entity |-> e, span |-> s].span)
  BY DEF MentionIds, Mention, Placed
<1> QED
  BY <1>1, MakeCall, MakeRow DEF AddManual

LEMMA HideTyped ==
  ASSUME NEW s \in Spans, NEW who \in Entities \cup {Everyone}
  PROVE  /\ Call("add_suppression", <<s, who>>, NoImage) \in GoodCalls
         /\ Row("suppress_span", <<s, who>>, NoImage, NoImage) \in GoodRows
<1>1. <<s, who>> \in Suppressions
  BY DEF Suppressions
<1> QED
  BY <1>1, MakeCall, MakeRow

LEMMA TextTyped ==
  ASSUME Sound, NEW r \in Requests,
         \/ \E e \in Entities, s \in Spans : TagExisting(r, e, s)
         \/ \E s \in Spans, who \in Entities \cup {Everyone} : SuppressOccurrence(r, s, who)
         \/ \E s \in Spans, from, to \in Entities : RetagOccurrence(r, s, from, to)
         \/ \E e \in Entities, old, new \in Spans : MaterializeBoundaries(r, e, old, new)
  PROVE  ReqTyped' /\ minted' \in Nat
<1>1. minted' \in Nat
  BY DEF TagExisting, SuppressOccurrence, RetagOccurrence, MaterializeBoundaries, Sound, GraphTyped
<1>2. ASSUME NEW e \in Entities, NEW s \in Spans, TagExisting(r, e, s) PROVE ReqTyped'
  <2>1. <<AddManual(e, s)>> \in Seq(GoodCalls)
        /\ <<Row("add_mention", <<e, s>>, NoImage, NoImage)>> \in Seq(GoodRows)
    BY ManualTyped, Tuples
  <2> QED
    BY <1>2, <2>1, BeginTyped DEF TagExisting, Sound
<1>3. ASSUME NEW s \in Spans, NEW who \in Entities \cup {Everyone}, SuppressOccurrence(r, s, who)
      PROVE  ReqTyped'
  <2>1. <<Call("add_suppression", <<s, who>>, NoImage)>> \in Seq(GoodCalls)
        /\ <<Row("suppress_span", <<s, who>>, NoImage, NoImage)>> \in Seq(GoodRows)
    BY HideTyped, Tuples
  <2> QED
    BY <1>3, <2>1, BeginTyped DEF SuppressOccurrence, Sound
<1>4. ASSUME NEW s \in Spans, NEW from \in Entities, NEW to \in Entities, RetagOccurrence(r, s, from, to)
      PROVE  ReqTyped'
  <2>1. from \in Entities \cup {Everyone}
    OBVIOUS
  <2>2. <<Call("add_suppression", <<s, from>>, NoImage), AddManual(to, s)>> \in Seq(GoodCalls)
    BY <2>1, ManualTyped, HideTyped, Tuples
  <2>3. <<Row("suppress_span", <<s, from>>, NoImage, NoImage),
          Row("add_mention", <<to, s>>, NoImage, NoImage)>> \in Seq(GoodRows)
    BY <2>1, ManualTyped, HideTyped, Tuples
  <2> QED
    BY <1>4, <2>2, <2>3, BeginTyped DEF RetagOccurrence, Sound
<1>5. ASSUME NEW e \in Entities, NEW old \in Spans, NEW new \in Spans, MaterializeBoundaries(r, e, old, new)
      PROVE  ReqTyped'
  <2>1. e \in Entities \cup {Everyone}
    OBVIOUS
  <2>2. <<AddManual(e, new), Call("add_suppression", <<old, e>>, NoImage)>> \in Seq(GoodCalls)
    BY <2>1, ManualTyped, HideTyped, Tuples
  <2>3. <<Row("add_mention", <<e, new>>, NoImage, NoImage),
          Row("suppress_span", <<old, e>>, NoImage, NoImage)>> \in Seq(GoodRows)
    BY <2>1, ManualTyped, HideTyped, Tuples
  <2> QED
    BY <1>5, <2>2, <2>3, BeginTyped DEF MaterializeBoundaries, Sound
<1> QED
  BY <1>1, <1>2, <1>3, <1>4, <1>5

LEMMA TagNewTyped ==
  ASSUME Sound, NEW r \in Requests, NEW s \in Spans, NEW type \in Types, TagNewEntity(r, s, type)
  PROVE  ReqTyped' /\ minted' \in Nat
<1> DEFINE e == TagEntity[s]
           entity == [type |-> type, name |-> Named[s], aliases |-> {}, prop |-> NoValue]
<1>1. Begin(r, <<Call("create_entity", e, entity), AddManual(e, s)>>, <<"tagnew", s>>,
            <<Row("create_entity_from_tag", e, NoImage, entity), Row("add_mention", <<e, s>>, NoImage, NoImage)>>)
      /\ minted' = minted
  BY DEF TagNewEntity
<1>2. e \in Entities /\ Named[s] \in Names
  BY ConstantsAssumption DEF ConstantsAssumption
<1>3. entity \in Node
  BY <1>2 DEF Node
<1> HIDE DEF e, entity
<1>4. Call("create_entity", e, entity) \in GoodCalls /\ Row("create_entity_from_tag", e, NoImage, entity) \in GoodRows
  BY <1>2, <1>3, MakeCall, MakeRow
<1>5. <<Call("create_entity", e, entity), AddManual(e, s)>> \in Seq(GoodCalls)
  BY <1>2, <1>4, ManualTyped, Tuples
<1>6. <<Row("create_entity_from_tag", e, NoImage, entity), Row("add_mention", <<e, s>>, NoImage, NoImage)>>
        \in Seq(GoodRows)
  BY <1>2, <1>4, ManualTyped, Tuples
<1> QED
  BY <1>1, <1>5, <1>6, BeginTyped DEF Sound, GraphTyped

LEMMA MoveTyped ==
  ASSUME Sound, NEW r \in Requests, NEW id \in MentionIds, NEW s \in Spans, MoveBoundaries(r, id, s)
  PROVE  ReqTyped' /\ minted' \in Nat
<1>1. /\ mention[id].span \in Spans \cup {NoSpan}
      /\ Placed(id, mention[id].span) /\ Placed(id, s)
  BY DEF MoveBoundaries, Sound, GraphTyped, Mention, PlacesKept, Placed
<1>2. Call("update_mention_span", id, s) \in GoodCalls
      /\ Row("edit_mention_span", id, mention[id].span, s) \in GoodRows
  BY <1>1, MakeCall, MakeRow
<1>3. <<Call("update_mention_span", id, s)>> \in Seq(GoodCalls)
      /\ <<Row("edit_mention_span", id, mention[id].span, s)>> \in Seq(GoodRows)
  BY <1>2, Tuples
<1>4. Begin(r, <<Call("update_mention_span", id, s)>>, Single,
            <<Row("edit_mention_span", id, mention[id].span, s)>>) /\ minted' = minted
  BY DEF MoveBoundaries
<1> QED
  BY <1>3, <1>4, BeginTyped DEF Sound, GraphTyped

(* Every operation plans good calls and good rows.                         *)
LEMMA OperationTyped ==
  ASSUME Sound, NEW r \in Requests, Operation(r)
  PROVE  ReqTyped' /\ minted' \in Nat
  BY EditEntityTyped, RelationTyped, RetargetTyped, RenameTyped, RelabelBeginTyped, MergeTyped,
     DeleteTyped, TextTyped, TagNewTyped, MoveTyped DEF Operation

-----------------------------------------------------------------------------
(* Undo and the log *)

(* What puts a snapshot back is good.                                      *)
LEMMA PutBackTyped ==
  ASSUME NEW do, NEW S, IsFiniteSet(S), NEW T, NEW snapshot \in Partial(S, T),
         \A x \in DOMAIN snapshot : Call(do, x, snapshot[x]) \in GoodCalls
  PROVE  PutBack(do, snapshot) \in Seq(GoodCalls)
<1> DEFINE D == DOMAIN snapshot
           s == SetToSeq(D)
           p == [i \in DOMAIN s |-> Call(do, s[i], snapshot[s[i]])]
<1>1. D \subseteq S /\ \A x \in D : snapshot[x] \in T
  BY DEF Partial
<1>2. IsFiniteSet(D)
  BY <1>1, FS_Subset
<1> HIDE DEF D
<1>3. s \in Seq(D)
  BY <1>2, SetToSeqIs
<1> HIDE DEF s
<1>4. \A i \in DOMAIN s : s[i] \in D
  BY <1>3
<1>5. \A i \in DOMAIN s : Call(do, s[i], snapshot[s[i]]) \in GoodCalls
  BY <1>4 DEF D
<1>6. p \in Seq(GoodCalls)
  BY <1>3, <1>5
<1> QED
  BY <1>6 DEF PutBack, s, D

(* The inverse of a row of the log is a list of good calls.                *)
LEMMA InverseTyped ==
  ASSUME NEW row \in GoodRows
  PROVE  InverseOf(row) \in Seq(GoodCalls)
<1>1. <<>> \in Seq(GoodCalls)
  OBVIOUS
<1>2. CASE row.op \in {"delete_absorbed", "delete_entity"}
  <2>1. InverseOf(row) = <<Call("create_entity", row.target, row.before)>>
    BY <1>2 DEF InverseOf
  <2>2. row.target \in Entities /\ row.before \in Node
    BY <1>2, RowFacts
  <2> QED
    BY <2>1, <2>2, MakeCall, Tuples
<1>3. CASE row.op = "delete_relations"
  <2>1. InverseOf(row) = PutBack("create_relation", row.before)
    BY <1>3 DEF InverseOf
  <2>2. row.before \in Partial(Triples, Handles)
    BY <1>3, RowFacts
  <2>3. \A x \in DOMAIN row.before : x \in Triples /\ row.before[x] \in Handles
    BY <2>2 DEF Partial
  <2>4. \A x \in DOMAIN row.before : Call("create_relation", x, row.before[x]) \in GoodCalls
    BY <2>3, MakeCall
  <2> QED
    BY <2>1, <2>2, <2>4, FiniteStores, PutBackTyped
<1>4. CASE row.op = "delete_mentions"
  <2>1. InverseOf(row) = PutBack("add_mention", row.before)
    BY <1>4 DEF InverseOf
  <2>2. row.before \in Partial(MentionIds, Mention) /\ PlacesKept(row.before)
    BY <1>4, RowFacts DEF Snapshots
  <2>3. \A x \in DOMAIN row.before :
          /\ x \in MentionIds /\ row.before[x] \in Mention
          /\ Placed(x, row.before[x].span)
    <3>1. NoMention \notin Mention
      BY ConstantsAssumption DEF ConstantsAssumption
    <3> QED
      BY <2>2, <3>1 DEF Partial, PlacesKept
  <2>4. \A x \in DOMAIN row.before : Call("add_mention", x, row.before[x]) \in GoodCalls
    BY <2>3, MakeCall
  <2> QED
    BY <2>1, <2>2, <2>4, FiniteStores, PutBackTyped
<1>5. CASE row.op \in {"edit_fields", "merge_consolidate"}
  <2>1. InverseOf(row) = <<Call("restore_fields", row.target, row.before)>>
    BY <1>5 DEF InverseOf
  <2>2. row.target \in Entities /\ row.before \in Fields
    BY <1>5, RowFacts
  <2> QED
    BY <2>1, <2>2, MakeCall, Tuples
<1>6. CASE row.op = "repoint_relation"
  <2>1. InverseOf(row) = <<Call("delete_relation", row.after, NoImage),
                           Call("create_relation", row.target, row.before)>>
    BY <1>6 DEF InverseOf
  <2>2. row.target \in Triples /\ row.before \in Handles /\ row.after \in Triples
    BY <1>6, RowFacts
  <2>3. Call("delete_relation", row.after, NoImage) \in GoodCalls
        /\ Call("create_relation", row.target, row.before) \in GoodCalls
    BY <2>2, MakeCall
  <2> QED
    BY <2>1, <2>3, Tuples
<1>7. CASE row.op \in {"fold_relation", "discard_self_loop_relation", "remove_relation"}
  <2>1. InverseOf(row) = <<Call("create_relation", row.target, row.before)>>
    BY <1>7 DEF InverseOf
  <2>2. row.target \in Triples /\ row.before \in Handles
    BY <1>7, RowFacts
  <2> QED
    BY <2>1, <2>2, MakeCall, Tuples
<1>8. CASE row.op = "add_relation"
  <2>1. InverseOf(row) = IF row.after THEN <<>> ELSE <<Call("delete_relation", row.target, NoImage)>>
    BY <1>8 DEF InverseOf
  <2>2. row.target \in Triples
    BY <1>8, RowFacts
  <2>3. <<Call("delete_relation", row.target, NoImage)>> \in Seq(GoodCalls)
    BY <2>2, MakeCall, Tuples
  <2> QED
    BY <1>1, <2>1, <2>3
<1>9. CASE row.op = "repoint_mentions"
  <2>1. InverseOf(row) = <<Call("reassign_mentions", row.before, row.target)>>
    BY <1>9 DEF InverseOf
  <2>2. row.target \in Entities /\ row.before \in SUBSET MentionIds
    BY <1>9, RowFacts
  <2> QED
    BY <2>1, <2>2, MakeCall, Tuples
<1>10. CASE row.op = "add_mention"
  <2>1. InverseOf(row) = <<Call("delete_mention", row.target, NoImage)>>
    BY <1>10 DEF InverseOf
  <2>2. row.target \in MentionIds
    BY <1>10, RowFacts
  <2> QED
    BY <2>1, <2>2, MakeCall, Tuples
<1>11. CASE row.op = "create_entity_from_tag"
  <2>1. InverseOf(row) = <<Call("delete_entity", row.target, NoImage)>>
    BY <1>11 DEF InverseOf
  <2>2. row.target \in Entities
    BY <1>11, RowFacts
  <2> QED
    BY <2>1, <2>2, MakeCall, Tuples
<1>12. CASE row.op = "suppress_span"
  <2>1. InverseOf(row) = <<Call("delete_suppression", row.target, NoImage)>>
    BY <1>12 DEF InverseOf
  <2>2. row.target \in Suppressions
    BY <1>12, RowFacts
  <2> QED
    BY <2>1, <2>2, MakeCall, Tuples
<1>13. CASE row.op = "edit_mention_span"
  <2>1. InverseOf(row) = <<Call("update_mention_span", row.target, row.before)>>
    BY <1>13 DEF InverseOf
  <2>2. row.target \in MentionIds /\ row.before \in Spans \cup {NoSpan} /\ Placed(row.target, row.before)
    BY <1>13, RowFacts
  <2> QED
    BY <2>1, <2>2, MakeCall, Tuples
<1> QED
  BY <1>2, <1>3, <1>4, <1>5, <1>6, <1>7, <1>8, <1>9, <1>10, <1>11, <1>12, <1>13 DEF GoodRows

(* Rows of one operation, all told apart by seq.                           *)
OneOperation(rows) ==
  /\ IsFiniteSet(rows)
  /\ \A l \in rows : l.row \in GoodRows /\ l.seq \in Nat
  /\ \A l, m \in rows : l.seq = m.seq => l = m

(* The inverse of an operation is good.                                    *)
LEMMA PlanTyped ==
  ASSUME NEW rows, OneOperation(rows)
  PROVE  InversePlan(rows) \in Seq(GoodCalls)
<1> DEFINE H == HighestFirst(rows)
           parts == [i \in DOMAIN H |-> InverseOf(H[i].row)]
<1>1. H \in Seq(rows)
  BY HighestFirstIs DEF OneOperation
<1> HIDE DEF H
<1>2. \A i \in DOMAIN H : InverseOf(H[i].row) \in Seq(GoodCalls)
  BY <1>1, InverseTyped DEF OneOperation
<1>3. parts \in Seq(Seq(GoodCalls))
  BY <1>1, <1>2
<1> HIDE DEF parts
<1>4. FlattenSeq(parts) \in Seq(GoodCalls)
  BY <1>3, FlattenType
<1> QED
  BY <1>4 DEF InversePlan, parts, H

(* The rows that an undo inverts are those of one operation.               *)
LEMMA LatestTyped ==
  ASSUME LogTyped
  PROVE  OneOperation(LatestRows)
<1>1. LatestRows \subseteq log
  BY DEF LatestRows, Live
<1>2. \A l \in LatestRows : l.op = Latest
  BY DEF LatestRows
<1>3. IsFiniteSet(LatestRows)
  BY <1>1, FS_Subset DEF LogTyped
<1> QED
  BY <1>1, <1>2, <1>3 DEF LogTyped, OneOperation

LEMMA UndoTyped ==
  ASSUME ReqShape, ReqTyped, LogTyped, NEW r \in Requests, UndoLast(r), clock \in Nat
  PROVE  ReqTyped'
<1> DEFINE plan == InversePlan(LatestRows)
           q == [kind |-> "undo", calls |-> plan, op |-> Latest]
<1>1. plan \in Seq(GoodCalls)
  BY PlanTyped, LatestTyped
<1>2. req' = [req EXCEPT ![r] = q] /\ clock' = clock
  BY DEF UndoLast
<1> HIDE DEF plan
<1>3. GoodReq(q, clock') /\ clock' \in Nat /\ clock <= clock'
  BY <1>1, <1>2 DEF GoodReq
<1> HIDE DEF q
<1> QED
  BY <1>2, <1>3, GoodReqStep

LEMMA StampTyped ==
  ASSUME ReqShape, ReqTyped, NEW r \in Requests, Stamp(r), clock \in Nat
  PROVE  ReqTyped' /\ clock' = clock + 1
<1> DEFINE op == StampedOp(r)
           n == [req[r] EXCEPT !.op = op]
           m == [n EXCEPT !.at = clock + 1]
           k == [req[r] EXCEPT !.op = op, !.at = clock + 1]
<1>0. k = m
  OBVIOUS
<1>1. req[r].kind = "edit" /\ req' = [req EXCEPT ![r] = k] /\ clock' = clock + 1
  BY DEF Stamp, StampedOp
<1>3. IsEdit(req[r]) /\ GoodReq(req[r], clock) /\ req[r] # Idle
  BY <1>1 DEF ReqShape, Idle, IsUndo, ReqTyped
<1>4. PICK calls, seed, rows, op0, at, before : req[r] = Edit(calls, seed, rows, op0, at, before)
  BY <1>3 DEF IsEdit
<1>5. req[r].calls = calls /\ req[r].rows = rows
  BY <1>4 DEF Edit
<1> HIDE DEF op
<1>6. n = Edit(calls, seed, rows, op, at, before)
  BY <1>4 DEF Edit
<1>7. [Edit(calls, seed, rows, op, at, before) EXCEPT !.at = clock + 1]
        = Edit(calls, seed, rows, op, clock + 1, before)
  BY DEF Edit
<1> DEFINE x == Edit(calls, seed, rows, op, clock + 1, before)
<1>8. req' = [req EXCEPT ![r] = x]
  BY <1>0, <1>1, <1>6, <1>7
<1>9. x.kind = "edit" /\ x.calls = calls /\ x.rows = rows /\ x.at = clock + 1
  BY DEF Edit
<1> HIDE DEF x
<1>10. GoodReq(x, clock') /\ clock' \in Nat /\ clock <= clock'
  BY <1>1, <1>3, <1>5, <1>9 DEF GoodReq
<1> QED
  BY <1>1, <1>8, <1>10, GoodReqStep

LEMMA IdleTyped ==
  ASSUME ReqShape, ReqTyped, NEW r \in Requests, req' = [req EXCEPT ![r] = Idle], clock \in Nat, clock' = clock
  PROVE  ReqTyped'
<1>1. GoodReq(Idle, clock') /\ clock' \in Nat /\ clock <= clock'
  BY DEF GoodReq, Idle
<1> QED
  BY <1>1, GoodReqStep

(* What an edit logs is good, and told apart by seq.                       *)
LEMMA RecordTyped ==
  ASSUME ReqTyped, LogTyped, NEW r \in Requests, Record(r), clock \in Nat
  PROVE  LogTyped'
<1> DEFINE rows == req[r].rows
           Made(i) == [op |-> req[r].op, seq |-> i, at |-> req[r].at, undone |-> FALSE, row |-> rows[i]]
           f == [i \in DOMAIN rows |-> Made(i)]
           new == {n \in NewRows(r) : \A l \in RowsOf(n.op) : l.seq # n.seq}
<1>1. rows \in Seq(GoodRows) /\ req[r].at \in 1 .. clock
  BY DEF ReqTyped, GoodReq, Record
<1>2. NewRows(r) = {Made(i) : i \in DOMAIN rows}
  BY DEF NewRows
<1>3. log' = log \cup new /\ clock' = clock
  BY DEF Record
<1>4. IsFiniteSet(NewRows(r))
  <2>1. IsFiniteSet(DOMAIN rows)
    <3>1. DOMAIN rows = 1 .. Len(rows) /\ Len(rows) \in Nat
      BY <1>1
    <3> QED
      BY <3>1, FS_Interval
  <2>2. f \in [DOMAIN rows -> NewRows(r)] /\ \A n \in NewRows(r) : \E i \in DOMAIN rows : f[i] = n
    BY <1>2
  <2>3. f \in Surjection(DOMAIN rows, NewRows(r))
    <3> HIDE DEF f
    <3> QED
      BY <2>2 DEF Surjection
  <2> QED
    BY <2>1, <2>3, FS_Surjection
<1>5. \A n \in NewRows(r) : n.row \in GoodRows /\ n.seq \in Nat \ {0} /\ n.at \in 1 .. clock
  BY <1>1, <1>2
<1>6. ASSUME NEW n \in NewRows(r), NEW m \in NewRows(r), n.seq = m.seq PROVE n = m
  <2>1. PICK i, j \in DOMAIN rows : n = Made(i) /\ m = Made(j)
    BY <1>2
  <2>2. Made(i).seq = i /\ Made(j).seq = j
    OBVIOUS
  <2>3. i = j
    BY <1>6, <2>1, <2>2
  <2> QED
    BY <2>1, <2>3
<1>7. new \subseteq NewRows(r) /\ \A n \in new : \A l \in log : l.op = n.op => l.seq # n.seq
  BY DEF RowsOf
<1>8. IsFiniteSet(log')
  <2>1. IsFiniteSet(new)
    BY <1>4, <1>7, FS_Subset
  <2> QED
    BY <1>3, <2>1, FS_Union DEF LogTyped
<1> HIDE DEF new
<1>9. \A l \in log' : l.row \in GoodRows /\ l.seq \in Nat \ {0} /\ l.at \in 1 .. clock'
  BY <1>3, <1>5, <1>7 DEF LogTyped
<1>10. \A l, m \in log' : l.op = m.op /\ l.seq = m.seq => l = m
  BY <1>3, <1>6, <1>7 DEF LogTyped
<1> QED
  BY <1>8, <1>9, <1>10 DEF LogTyped

(* A mark changes nothing but the mark.                                    *)
LEMMA MarkKeepsRow ==
  ASSUME NEW l, NEW c,
         l = [op |-> l.op, seq |-> l.seq, at |-> l.at, undone |-> l.undone, row |-> l.row]
  PROVE  LET m == [l EXCEPT !.undone = c]
         IN  m.op = l.op /\ m.seq = l.seq /\ m.at = l.at /\ m.row = l.row /\ m.undone = c
  OBVIOUS

LEMMA MarkTyped ==
  ASSUME LogShape, LogTyped, NEW r \in Requests, MarkUndone(r), clock \in Nat
  PROVE  LogTyped'
<1> DEFINE Marked(l) == [l EXCEPT !.undone = @ \/ l.op = req[r].op]
           f == [l \in log |-> Marked(l)]
<1>1. log' = {Marked(l) : l \in log} /\ clock' = clock
  BY DEF MarkUndone
<1>2. \A l \in log : Marked(l).op = l.op /\ Marked(l).seq = l.seq /\ Marked(l).at = l.at /\ Marked(l).row = l.row
  BY MarkKeepsRow DEF LogShape
<1> HIDE DEF Marked
<1>3. f \in [log -> log'] /\ \A n \in log' : \E l \in log : f[l] = n
  BY <1>1
<1>4. f \in Surjection(log, log')
  <2> HIDE DEF f
  <2> QED
    BY <1>3 DEF Surjection
<1>5. IsFiniteSet(log')
  BY <1>4, FS_Surjection DEF LogTyped
<1>6. \A l \in log' : l.row \in GoodRows /\ l.seq \in Nat \ {0} /\ l.at \in 1 .. clock'
  BY <1>1, <1>2 DEF LogTyped
<1>7. ASSUME NEW l \in log', NEW m \in log', l.op = m.op, l.seq = m.seq PROVE l = m
  <2>1. PICK k, n \in log : l = Marked(k) /\ m = Marked(n)
    BY <1>1
  <2>2. k = n
    BY <1>2, <1>7, <2>1 DEF LogTyped
  <2> QED
    BY <2>1, <2>2
<1> QED
  BY <1>5, <1>6, <1>7 DEF LogTyped

LEMMA LaterTyped ==
  ASSUME LogTyped, log' = log, clock \in Nat, clock' \in Nat, clock <= clock'
  PROVE  LogTyped'
  BY DEF LogTyped

-----------------------------------------------------------------------------
(* The graph is well formed *)

Counted == begun \in Nat /\ failures \in [{"edit", "undo"} -> Nat]
TypeInv == GraphTyped /\ EndsExist /\ LogTyped /\ ReqTyped /\ Counted

(* The whole invariant.                                                    *)
LEMMA TypedInit == Init => TypeInv
<1> SUFFICES ASSUME Init PROVE TypeInv
  OBVIOUS
<1>1. ConstantsAssumption
  BY ConstantsAssumption
<1>2. GraphTyped /\ EndsExist
  <2>1. PlacesKept(InitialMentions)
    BY <1>1 DEF ConstantsAssumption, PlacesKept, Placed
  <2> QED
    BY <1>1, <2>1 DEF Init, ConstantsAssumption, GraphTyped, EndsExist, HasEdge, Exists
<1>3. LogTyped
  <2>1. IsFiniteSet({})
    BY FS_EmptySet
  <2> QED
    BY <2>1 DEF Init, LogTyped
<1>4. ReqTyped /\ Counted
  BY DEF Init, ReqTyped, GoodReq, Idle, Counted
<1> QED
  BY <1>2, <1>3, <1>4 DEF TypeInv

(* An operation that goes ahead is counted once; it asks for calls, and     *)
(* until they come nothing of the graph, the log or the clock moves.       *)
LEMMA OperationOnlyAsks ==
  ASSUME NEW r \in Requests, Operation(r)
  PROVE  /\ begun' = begun + 1
         /\ UNCHANGED <<node, edge, mention, hidden, log, clock, failures>>
<1> DEFINE Begun ==
      /\ begun' = begun + 1
      /\ UNCHANGED <<node, edge, mention, hidden, log, clock, failures>>
<1>1. ASSUME NEW calls, NEW seed, NEW rows, Begin(r, calls, seed, rows) PROVE Begun
  BY <1>1 DEF Begin
<1>2. ASSUME NEW e, NEW patch, EditEntity(r, e, patch) PROVE Begun
  BY <1>1, <1>2 DEF EditEntity
<1>3. ASSUME NEW t, AddRelation(r, t) \/ RemoveRelation(r, t) PROVE Begun
  BY <1>1, <1>3 DEF AddRelation, RemoveRelation
<1>4. ASSUME NEW x, NEW y, RetargetRelation(r, x, y) \/ RenamePredicate(r, x, y) \/ RelabelEntityType(r, x, y)
      PROVE  Begun
  BY <1>1, <1>4 DEF RetargetRelation, RenamePredicate, RelabelEntityType
<1>5. ASSUME NEW b, NEW a, NEW kept, MergeEntities(r, b, a, kept) PROVE Begun
  BY <1>1, <1>5 DEF MergeEntities
<1>6. ASSUME NEW e, DeleteEntity(r, e) PROVE Begun
  BY <1>1, <1>6 DEF DeleteEntity
<1>7. ASSUME NEW x, NEW y, TagExisting(r, x, y) \/ TagNewEntity(r, x, y) \/ SuppressOccurrence(r, x, y)
                           \/ MoveBoundaries(r, x, y)
      PROVE  Begun
  BY <1>1, <1>7 DEF TagExisting, TagNewEntity, SuppressOccurrence, MoveBoundaries
<1>8. ASSUME NEW x, NEW y, NEW z, RetagOccurrence(r, x, y, z) \/ MaterializeBoundaries(r, x, y, z)
      PROVE  Begun
  BY <1>1, <1>8 DEF RetagOccurrence, MaterializeBoundaries
<1> QED
  BY <1>2, <1>3, <1>4, <1>5, <1>6, <1>7, <1>8 DEF Operation

LEMMA CountedStep ==
  ASSUME Counted, Next
  PROVE  Counted'
<1>1. PICK r \in Requests :
        \/ Operation(r) \/ StoreCall(r) \/ Stamp(r) \/ Record(r)
        \/ UndoLast(r) \/ MarkUndone(r) \/ Fail(r)
  BY DEF Next
<1>2. CASE Operation(r)
  <2>1. begun' = begun + 1 /\ failures' = failures
    BY <1>2, OperationOnlyAsks
  <2> QED
    BY <2>1 DEF Counted
<1>3. CASE StoreCall(r)
  BY <1>3 DEF StoreCall, CreateEntity, UpdateEntity, RestoreFields, DeleteNode, RelabelType,
         CreateRelation, DeleteRelation, AddMention, DeleteMention, UpdateMentionSpan,
         DeleteMentionsOf, ReassignMentions, RepointMentions, AddSuppression,
         DeleteSuppression, Bookkeeping, Counted
<1>4. CASE Stamp(r) \/ Record(r) \/ UndoLast(r) \/ MarkUndone(r)
  BY <1>4 DEF Stamp, Record, UndoLast, MarkUndone, Counted
<1>5. CASE Fail(r)
  <2>1. begun' = begun /\ failures' = [failures EXCEPT ![req[r].kind] = failures[req[r].kind] + 1]
    BY <1>5 DEF Fail
  <2>2. \A k \in {"edit", "undo"} : failures[k] + 1 \in Nat
    BY DEF Counted
  <2>3. failures' \in [{"edit", "undo"} -> Nat]
    BY <2>1, <2>2 DEF Counted
  <2> QED
    BY <2>1, <2>3 DEF Counted
<1> QED
  BY <1>1, <1>2, <1>3, <1>4, <1>5

LEMMA TypedStep ==
  ASSUME Inv, TypeInv, [Next]_vars
  PROVE  TypeInv'
<1>0. clock \in Nat /\ ReqShape /\ LogShape
  BY DEF Inv, IdsOK
<1>1. CASE UNCHANGED vars
  BY <1>1 DEF vars, TypeInv, GraphTyped, EndsExist, HasEdge, Exists, LogTyped, ReqTyped, Counted
<1>2. CASE Next
  <2>1. PICK r \in Requests :
          \/ Operation(r) \/ StoreCall(r) \/ Stamp(r) \/ Record(r)
          \/ UndoLast(r) \/ MarkUndone(r) \/ Fail(r)
    BY <1>2 DEF Next
  <2>2. Counted'
    BY <1>2, CountedStep DEF TypeInv
  <2>3. ASSUME UNCHANGED <<node, edge, mention, hidden>>, minted' \in Nat PROVE GraphTyped' /\ EndsExist'
    BY <2>3 DEF TypeInv, GraphTyped, EndsExist, HasEdge, Exists
  <2>4. minted \in Nat
    BY DEF TypeInv, GraphTyped
  <2>5. CASE Operation(r)
    <3>1. ReqTyped' /\ minted' \in Nat
      BY <1>0, <2>5, OperationTyped DEF TypeInv, Sound
    <3>2. UNCHANGED <<node, edge, mention, hidden, log, clock>>
      BY <2>5, OperationOnlyAsks
    <3>3. LogTyped'
      BY <1>0, <3>2, LaterTyped DEF TypeInv
    <3> QED
      BY <2>2, <2>3, <3>1, <3>2, <3>3 DEF TypeInv
  <2>6. CASE StoreCall(r)
    <3>1. log' = log /\ clock' = clock
      BY <1>0, <2>6, StoreCallKeeps
    <3>2. LogTyped'
      BY <1>0, <3>1, LaterTyped DEF TypeInv
    <3> QED
      BY <1>0, <2>2, <2>6, <3>2, CallKeepsGraph, CallKeepsReq DEF TypeInv
  <2>7. CASE Stamp(r)
    <3>1. ReqTyped' /\ clock' = clock + 1
      BY <1>0, <2>7, StampTyped DEF TypeInv
    <3>2. UNCHANGED <<node, edge, mention, hidden, log, minted>>
      BY <2>7 DEF Stamp
    <3>3. LogTyped'
      BY <1>0, <3>1, <3>2, LaterTyped DEF TypeInv
    <3> QED
      BY <2>2, <2>3, <2>4, <3>1, <3>2, <3>3 DEF TypeInv
  <2>8. CASE Record(r)
    <3>1. LogTyped'
      BY <1>0, <2>8, RecordTyped DEF TypeInv
    <3>2. UNCHANGED <<node, edge, mention, hidden, minted, clock>> /\ req' = [req EXCEPT ![r] = Idle]
      BY <2>8 DEF Record
    <3>3. ReqTyped'
      BY <1>0, <3>2, IdleTyped DEF TypeInv
    <3> QED
      BY <2>2, <2>3, <2>4, <3>1, <3>2, <3>3 DEF TypeInv
  <2>9. CASE UndoLast(r)
    <3>1. ReqTyped'
      BY <1>0, <2>9, UndoTyped DEF TypeInv
    <3>2. UNCHANGED <<node, edge, mention, hidden, log, minted, clock>>
      BY <2>9 DEF UndoLast
    <3>3. LogTyped'
      BY <1>0, <3>2, LaterTyped DEF TypeInv
    <3> QED
      BY <2>2, <2>3, <2>4, <3>1, <3>2, <3>3 DEF TypeInv
  <2>10. CASE MarkUndone(r)
    <3>1. LogTyped'
      BY <1>0, <2>10, MarkTyped DEF TypeInv
    <3>2. UNCHANGED <<node, edge, mention, hidden, minted, clock>> /\ req' = [req EXCEPT ![r] = Idle]
      BY <2>10 DEF MarkUndone
    <3>3. ReqTyped'
      BY <1>0, <3>2, IdleTyped DEF TypeInv
    <3> QED
      BY <2>2, <2>3, <2>4, <3>1, <3>2, <3>3 DEF TypeInv
  <2>11. CASE Fail(r)
    <3>1. UNCHANGED <<node, edge, mention, hidden, log, minted, clock>> /\ req' = [req EXCEPT ![r] = Idle]
      BY <2>11 DEF Fail
    <3>2. ReqTyped'
      BY <1>0, <3>1, IdleTyped DEF TypeInv
    <3>3. LogTyped'
      BY <1>0, <3>1, LaterTyped DEF TypeInv
    <3> QED
      BY <2>2, <2>3, <2>4, <3>1, <3>2, <3>3 DEF TypeInv
  <2> QED
    BY <2>1, <2>5, <2>6, <2>7, <2>8, <2>9, <2>10, <2>11
<1> QED
  BY <1>1, <1>2

LEMMA TypedIsOK ==
  ASSUME Inv, TypeInv
  PROVE  TypeOK
<1>1. DOMAIN req = Requests
  BY DEF Inv, ReqShape
<1>2. \A r \in Requests : req[r].kind \in {"idle", "edit", "undo"}
  BY DEF Inv, ReqShape, IsEdit, IsUndo, Edit, Idle
<1>3. \A l \in log : l.at \in 1 .. clock /\ l.undone \in BOOLEAN
  BY DEF Inv, LogShape, TypeInv, LogTyped
<1> QED
  BY <1>1, <1>2, <1>3 DEF TypeOK, Inv, IdsOK, TypeInv, GraphTyped, EndsExist, Counted

-----------------------------------------------------------------------------
(* Theorems *)

(* ON CONFLICT DO NOTHING and the undone_at guard: whatever is in flight,  *)
(* a row of the log stays as it was recorded, but for the mark of its undo,*)
(* which is never taken back.                                              *)
THEOREM LogIsKept == Spec => EvidenceIsKept
<1>1. ConstantsAssumption
  BY ConstantsAssumption
<1>2. Init => Inv
  BY <1>1, InvInit
<1>3. Inv /\ [Next]_vars
        => [\A l \in log : l \in log' \/ [l EXCEPT !.undone = TRUE] \in log']_vars
  <2>1. Inv /\ Next => \A l \in log : l \in log' \/ [l EXCEPT !.undone = TRUE] \in log'
    BY LogStep
  <2> QED
    BY <2>1
<1> QED
  BY <1>2, <1>3, InvStep, PTL DEF Spec, EvidenceIsKept

(* One request at a time: the generations of _next_generation keep what is *)
(* done again after an undo apart from what was undone, so its evidence is *)
(* not dropped, however often.                                             *)
THEOREM RedoneIsLogged ==
  ASSUME NEW slot, Requests = {slot} PROVE Spec => RedoIsLogged
<1>1. ConstantsAssumption
  BY ConstantsAssumption
<1>2. Init => Inv /\ PendingIsFresh
  BY <1>1, InvInit
<1>3. Inv /\ PendingIsFresh /\ [Next]_vars => PendingIsFresh'
  BY FreshStep
<1>4. Inv /\ PendingIsFresh /\ [Next]_vars
        => [\A r \in Requests :
              /\ Record(r)
              /\ \A l \in log : l.op[1] = req[r].op[1] => l.undone
              => NewRows(r) \subseteq log']_vars
  <2> SUFFICES ASSUME PendingIsFresh, NEW r \in Requests, Record(r),
                      \A l \in log : l.op[1] = req[r].op[1] => l.undone
               PROVE  NewRows(r) \subseteq log'
    OBVIOUS
  <2>1. \A l \in RowsOf(req[r].op) : ~l.undone
    BY DEF PendingIsFresh, Record, RowsOf
  <2>2. RowsOf(req[r].op) = {}
    BY <2>1 DEF RowsOf
  <2>3. \A n \in NewRows(r) : RowsOf(n.op) = {}
    BY <2>2, RowShape
  <2> QED
    BY <2>3 DEF Record
<1> QED
  BY <1>2, <1>3, <1>4, InvStep, PTL DEF Spec, RedoIsLogged

(* Whatever is in flight beside what, a store call that comes late or an   *)
(* inverse that is made twice included: the stores hold what they may, and *)
(* an edge has both its ends (MATCH of both before MERGE, DETACH DELETE).  *)
THEOREM GraphIsWellFormed == Spec => []TypeOK
<1>1. ConstantsAssumption
  BY ConstantsAssumption
<1>2. Init => Inv /\ TypeInv
  BY <1>1, InvInit, TypedInit
<1>3. Inv /\ TypeInv /\ [Next]_vars => Inv' /\ TypeInv'
  BY InvStep, TypedStep
<1>4. Inv /\ TypeInv => TypeOK
  BY TypedIsOK
<1> QED
  BY <1>2, <1>3, <1>4, PTL DEF Spec

-----------------------------------------------------------------------------
(***************************************************************************)
(* One request at a time, any number of deaths half way.  No mention comes *)
(* to name an entity that is gone, but by the undo of a tag; and no edge   *)
(* is lost that is re-keyed.  Both are read off the calls that a request   *)
(* has yet to make: whatever they are to name is there, or is made by the  *)
(* first of them; and an edge is dropped behind the call that makes its    *)
(* new one.  The undo of a merge or of a deletion is of that kind because  *)
(* the log holds, with the highest seq, the row of the entity it took.     *)
(***************************************************************************)

(* What a request has yet to do *)

(* What a request is after one of its calls.                               *)
LEMMA ReturnEffect ==
  ASSUME ReqShape, NEW r \in Requests, req[r] # Idle, Return(r)
  PROVE  /\ req'[r].kind = req[r].kind /\ req'[r].calls = Tail(req[r].calls) /\ req'[r].op = req[r].op
         /\ IsEdit(req[r]) => /\ req'[r].seed = req[r].seed /\ req'[r].rows = req[r].rows
                              /\ req'[r].before = req[r].before
<1> DEFINE cs == Tail(req[r].calls)
           n == [req[r] EXCEPT !.calls = cs]
<1>1. req'[r] = n
  BY DEF Return, ReqShape
<1> HIDE DEF cs
<1>2. CASE IsEdit(req[r])
  <2>1. PICK c, seed, w, op, at, before : req[r] = Edit(c, seed, w, op, at, before)
    BY <1>2 DEF IsEdit
  <2>2. n = Edit(cs, seed, w, op, at, before)
    BY <2>1 DEF Edit
  <2> QED
    BY <1>1, <2>1, <2>2 DEF Edit, cs
<1>3. CASE IsUndo(req[r])
  <2>1. PICK c, op : req[r] = [kind |-> "undo", calls |-> c, op |-> op]
    BY <1>3 DEF IsUndo
  <2>2. n = [kind |-> "undo", calls |-> cs, op |-> op]
    BY <2>1
  <2>3. ~IsEdit(req[r])
    BY <1>3, EditIsEdit, UndoIsNoEdit
  <2> QED
    BY <1>1, <2>1, <2>2, <2>3 DEF cs
<1> QED
  BY <1>2, <1>3 DEF ReqShape

LEMMA ReturnRowsEffect ==
  ASSUME ReqShape, NEW r \in Requests, req[r] # Idle, NEW rows, ReturnRows(r, rows)
  PROVE  /\ req'[r].kind = req[r].kind /\ req'[r].calls = Tail(req[r].calls) /\ req'[r].op = req[r].op
         /\ IsEdit(req[r]) => /\ req'[r].seed = req[r].seed /\ req'[r].rows = rows
                              /\ req'[r].before = req[r].before
<1> DEFINE cs == Tail(req[r].calls)
           n == [req[r] EXCEPT !.calls = cs]
           m == [n EXCEPT !.rows = rows]
           k == [req[r] EXCEPT !.calls = cs, !.rows = rows]
<1>0. k = m
  OBVIOUS
<1>1. req'[r] = k
  BY DEF ReturnRows, ReqShape
<1> HIDE DEF cs
<1>2. CASE IsEdit(req[r])
  <2>1. PICK c, seed, w, op, at, before : req[r] = Edit(c, seed, w, op, at, before)
    BY <1>2 DEF IsEdit
  <2>2. n = Edit(cs, seed, w, op, at, before)
    BY <2>1 DEF Edit
  <2>3. [Edit(cs, seed, w, op, at, before) EXCEPT !.rows = rows] = Edit(cs, seed, rows, op, at, before)
    BY DEF Edit
  <2>4. req'[r] = Edit(cs, seed, rows, op, at, before)
    BY <1>0, <1>1, <2>2, <2>3
  <2> QED
    BY <2>1, <2>4 DEF Edit, cs
<1>3. CASE IsUndo(req[r])
  <2>1. PICK c, op : req[r] = [kind |-> "undo", calls |-> c, op |-> op]
    BY <1>3 DEF IsUndo
  <2>2. n = [kind |-> "undo", calls |-> cs, op |-> op]
    BY <2>1
  <2>3. m = n
    BY <2>2
  <2>4. ~IsEdit(req[r])
    BY <1>3, EditIsEdit, UndoIsNoEdit
  <2> QED
    BY <1>0, <1>1, <2>1, <2>2, <2>3, <2>4 DEF cs
<1> QED
  BY <1>2, <1>3 DEF ReqShape

-----------------------------------------------------------------------------
(* A call that makes or moves a mention to an entity.                      *)
NamesEntity(c, e) ==
  \/ (c.do = "add_mention" /\ c.with.entity = e)
  \/ (c.do = "reassign_mentions" /\ c.with = e)

Plain ==
  {c \in GoodCalls : c.do \notin {"add_mention", "reassign_mentions", "repoint_mentions",
                                  "delete_entity", "relabel_entity_type"}}

Frees(c, e) == c.do \in {"repoint_mentions", "delete_mentions_for_entity"} /\ c.on = e

SafeCall(cs, k) ==
  /\ \A e : NamesEntity(cs[k], e) =>
       Exists(e) \/ (k # 1 /\ cs[1].do = "create_entity" /\ cs[1].on = e)
  /\ cs[k].do = "repoint_mentions" => Exists(cs[k].with) /\ cs[k].with # cs[k].on
  /\ cs[k].do = "delete_entity" =>
       /\ k = Len(cs)
       /\ IF k = 1 THEN MentionsOf(cs[k].on) = {} ELSE Frees(cs[k - 1], cs[k].on)
SafeCalls(cs) == \A k \in 1 .. Len(cs) : SafeCall(cs, k)

Takes(w) == w.op \in {"delete_absorbed", "delete_entity"}
SafeRow(w, seed) ==
  /\ w.op = "create_entity_from_tag" => seed[1] = "tagnew"
  /\ Takes(w) \/ w.op \in {"repoint_mentions", "delete_mentions"} =>
       seed[1] \in {"merge", "delete"} /\ w.target = seed[2]
  /\ w.op = "delete_mentions" => \A x \in DOMAIN w.before : w.before[x].entity = w.target
SafeRows(rows, seed) ==
  /\ \A i \in DOMAIN rows : SafeRow(rows[i], seed)
  /\ seed[1] \in {"merge", "delete"} => rows # <<>> /\ Takes(rows[Len(rows)])

OfSeed(op, seed) == op[1] = seed \/ (seed = Single /\ op[1][1] = "single")

ReqSafe(r) ==
  /\ req[r].kind = "edit" =>
       /\ SafeCalls(req[r].calls)
       /\ SafeRows(req[r].rows, req[r].seed)
       /\ \A k \in 1 .. Len(req[r].calls) :
            req[r].calls[k].do = "relabel_entity_type" => req[r].seed[1] = "relabel"
       /\ req[r].op # NoOp => OfSeed(req[r].op, req[r].seed)
  /\ (req[r].kind = "undo" /\ ~TakesBackTag(r)) => SafeCalls(req[r].calls)

LogSafe ==
  /\ \A l \in log : SafeRow(l.row, l.op[1])
  /\ \A l \in log : l.op[1][1] \in {"merge", "delete"} =>
       Takes(l.row) \/ \E m \in log : m.op = l.op /\ m.seq > l.seq
  /\ \A l, m \in log : l.op = m.op => l.undone = m.undone

-----------------------------------------------------------------------------
(* The graph changes under the calls that remain.                          *)

LEMMA TailSafe ==
  ASSUME NEW cs \in Seq(GoodCalls), cs # <<>>, SafeCalls(cs),
         \A e \in Entities : Exists(e) => Exists(e)',
         Head(cs).do = "create_entity" => Exists(Head(cs).on)',
         \A e \in Entities : Frees(Head(cs), e) => MentionsOf(e)' = {}
  PROVE  SafeCalls(Tail(cs))'
<1>0. PICK ts : ts = Tail(cs)
  OBVIOUS
<1>1. ts \in Seq(GoodCalls) /\ Len(cs) \in Nat /\ Len(cs) # 0 /\ Len(ts) = Len(cs) - 1
      /\ \A k \in 1 .. Len(ts) : ts[k] = cs[k + 1]
  BY <1>0
<1>2. Head(cs) = cs[1]
  OBVIOUS
<1>3. ASSUME NEW k \in 1 .. Len(ts) PROVE SafeCall(ts, k)'
  <2>1. k + 1 \in 1 .. Len(cs) /\ k + 1 # 1 /\ ts[k] = cs[k + 1] /\ k \in Nat
    BY <1>1
  <2>2. SafeCall(cs, k + 1)
    BY <2>1 DEF SafeCalls
  <2>7. ts[k] \in GoodCalls
    BY <1>1
  <2>3. ASSUME NEW e, NamesEntity(ts[k], e) PROVE Exists(e)'
    <3>1. Exists(e) \/ (cs[1].do = "create_entity" /\ cs[1].on = e)
      BY <2>1, <2>2, <2>3 DEF SafeCall
    <3>2. e \in Entities
      BY <2>3, <2>7, CallFacts DEF NamesEntity, Mention
    <3> QED
      BY <1>2, <3>1, <3>2
  <2>4. ts[k].do = "repoint_mentions" => Exists(ts[k].with)' /\ ts[k].with # ts[k].on
    BY <2>1, <2>2, <2>7, CallFacts DEF SafeCall
  <2>5. ASSUME ts[k].do = "delete_entity"
        PROVE  k = Len(ts) /\ IF k = 1 THEN MentionsOf(ts[k].on)' = {} ELSE Frees(ts[k - 1], ts[k].on)
    <3>1. k + 1 = Len(cs) /\ Frees(cs[k], cs[k + 1].on)
      <4>1. k + 1 = Len(cs) /\ Frees(cs[(k + 1) - 1], cs[k + 1].on)
        BY <2>1, <2>2, <2>5 DEF SafeCall
      <4>2. (k + 1) - 1 = k
        BY <2>1
      <4> QED
        BY <4>1, <4>2
    <3>5. ts[k].on \in Entities
      BY <2>5, <2>7, CallFacts
    <3>2. k = Len(ts)
      BY <1>1, <2>1, <3>1
    <3>3. CASE k = 1
      BY <1>2, <2>1, <3>1, <3>2, <3>3, <3>5
    <3>4. CASE k # 1
      <4>1. k - 1 \in 1 .. Len(ts) /\ (k - 1) + 1 = k
        BY <2>1, <3>4
      <4>2. ts[k - 1] = cs[k]
        BY <1>1, <4>1
      <4> QED
        BY <2>1, <3>1, <3>2, <3>4, <4>2
    <3> QED
      BY <3>3, <3>4
  <2>6. \A e : NamesEntity(ts[k], e) =>
          Exists(e)' \/ (k # 1 /\ ts[1].do = "create_entity" /\ ts[1].on = e)
    BY <2>3
  <2> QED
    BY <2>4, <2>5, <2>6 DEF SafeCall
<1>4. SafeCalls(ts)'
  BY <1>3 DEF SafeCalls
<1> QED
  BY <1>0, <1>4

-----------------------------------------------------------------------------
(* Store calls *)

(* What a call does to entities and their mentions.                        *)
Spares(c) ==
  /\ c.do # "delete_entity" => \A e \in Entities : Exists(e) => Exists(e)'
  /\ c.do = "create_entity" => node'[c.on] # NoNode
  /\ \A e \in Entities : Frees(c, e) => MentionsOf(e)' = {}
  /\ \A i \in MentionIds : Dangling(i)' => Dangling(i)

(* Each store call does so, if it is made when it may be.                  *)
LEMMA SparesNode ==
  ASSUME GraphTyped, ReqTyped, NEW r \in Requests,
         CreateEntity(r) \/ UpdateEntity(r) \/ RestoreFields(r) \/ RelabelType(r)
  PROVE  Spares(Head(req[r].calls))
<1> DEFINE c == Head(req[r].calls)
<1>1. mention' = mention
  BY DEF CreateEntity, UpdateEntity, RestoreFields, RelabelType, Bookkeeping
<1>2. NoNode \notin Node
  BY ConstantsAssumption DEF ConstantsAssumption
<1>3. SUFFICES /\ \A e \in Entities : Exists(e) => Exists(e)'
               /\ c.do = "create_entity" => node'[c.on] # NoNode
               /\ c.do \notin {"delete_entity", "repoint_mentions", "delete_mentions_for_entity"}
  <2>1. \A i \in MentionIds : mention[i] # NoMention => mention[i].entity \in Entities
    BY DEF GraphTyped, Mention
  <2>2. \A i \in MentionIds : Dangling(i)' => Dangling(i)
    BY <1>1, <1>3, <2>1 DEF Dangling
  <2> QED
    BY <1>3, <2>2 DEF Spares, Frees
<1>4. ASSUME NEW n \in Node, NEW e \in Entities, node' = [node EXCEPT ![e] = n]
      PROVE  node'[e] # NoNode /\ \A x \in Entities : Exists(x) => Exists(x)'
  BY <1>2, <1>4 DEF GraphTyped, Exists
<1>5. CASE CreateEntity(r)
  <2>1. c \in GoodCalls /\ c.do = "create_entity"
    BY <1>5, HeadGood DEF CreateEntity
  <2>2. c.on \in Entities /\ c.with \in Node
    BY <2>1, CallFacts
  <2>3. node' = IF Exists(c.on) THEN node ELSE [node EXCEPT ![c.on] = c.with]
    BY <1>5 DEF CreateEntity, On, With
  <2>4. CASE Exists(c.on)
    BY <2>1, <2>3, <2>4 DEF Exists
  <2>5. CASE ~Exists(c.on)
    BY <1>4, <2>1, <2>2, <2>3, <2>5
  <2> QED
    BY <2>4, <2>5
<1>6. CASE UpdateEntity(r)
  <2>1. c \in GoodCalls /\ c.do = "update_entity"
    BY <1>6, HeadGood DEF UpdateEntity
  <2>2. c.on \in Entities /\ c.with \in Node
    BY <2>1, CallFacts
  <2>3. node' = node \/ node' = [node EXCEPT ![c.on] = c.with]
    BY <1>6 DEF UpdateEntity, On, With
  <2>4. node' = node => \A e \in Entities : Exists(e) => Exists(e)'
    BY DEF Exists
  <2> QED
    BY <1>4, <2>1, <2>2, <2>3, <2>4
<1>7. CASE RestoreFields(r)
  <2>1. c \in GoodCalls /\ c.do = "restore_fields"
    BY <1>7, HeadGood DEF RestoreFields
  <2>2. c.on \in Entities /\ c.with \in Fields
    BY <2>1, CallFacts, SMTT(30)
  <2>3. CASE Exists(c.on)
    <3>1. node[c.on] \in Node
      BY <2>2, <2>3 DEF GraphTyped, Exists
    <3>2. Over(c.with, node[c.on]) \in Node
      BY <2>2, <3>1, FieldsOfPatch
    <3>3. node' = [node EXCEPT ![c.on] = Over(c.with, node[c.on])]
      BY <1>7, <2>3 DEF RestoreFields, On, With
    <3> QED
      BY <1>4, <2>1, <2>2, <3>2, <3>3
  <2>4. CASE ~Exists(c.on)
    <3>1. node' = node
      BY <1>7, <2>4 DEF RestoreFields, On
    <3> QED
      BY <2>1, <3>1 DEF Exists
  <2> QED
    BY <2>3, <2>4
<1>8. CASE RelabelType(r)
  <2> DEFINE ids == {e \in Entities : Exists(e) /\ node[e].type = On(r)}
  <2>1. c \in GoodCalls /\ c.do = "relabel_entity_type"
    BY <1>8, HeadGood DEF RelabelType
  <2>2. With(r) \in Types
    BY <2>1, CallFacts DEF With
  <2>3. node' = [e \in Entities |-> IF e \in ids THEN [node[e] EXCEPT !.type = With(r)] ELSE node[e]]
    BY <1>8 DEF RelabelType
  <2>4. \A e \in ids : node[e] \in Node
    BY DEF GraphTyped, Exists
  <2>5. \A n \in Node : [n EXCEPT !.type = With(r)] \in Node
    BY <2>2 DEF Node
  <2> HIDE DEF ids
  <2>6. \A e \in Entities : Exists(e) => Exists(e)'
    BY <1>2, <2>3, <2>4, <2>5 DEF Exists
  <2> QED
    BY <2>1, <2>6
<1> QED
  BY <1>5, <1>6, <1>7, <1>8

LEMMA SparesOther ==
  ASSUME ReqTyped, NEW r \in Requests,
         \/ CreateRelation(r) \/ DeleteRelation(r) \/ AddSuppression(r) \/ DeleteSuppression(r)
  PROVE  Spares(Head(req[r].calls))
<1>1. node' = node /\ mention' = mention
  BY DEF CreateRelation, DeleteRelation, AddSuppression, DeleteSuppression
<1>2. Head(req[r].calls).do \in {"create_relation", "delete_relation", "add_suppression", "delete_suppression"}
  BY DEF CreateRelation, DeleteRelation, AddSuppression, DeleteSuppression, Calls
<1> QED
  BY <1>1, <1>2 DEF Spares, Frees, Exists, Dangling

(* Mentions moved to an entity that is there do not dangle.                *)
LEMMA ReassignedDangles ==
  ASSUME GraphTyped, NEW ids, NEW e \in Entities, Exists(e), mention' = Reassigned(ids, e), node' = node
  PROVE  \A i \in MentionIds : Dangling(i)' => Dangling(i)
<1> SUFFICES ASSUME NEW i \in MentionIds, Dangling(i)' PROVE Dangling(i)
  OBVIOUS
<1>1. CASE i \in ids /\ mention[i] # NoMention
  <2>1. mention[i] \in Mention
    BY <1>1 DEF GraphTyped
  <2>2. [mention[i] EXCEPT !.entity = e].entity = e
    BY <2>1 DEF Mention
  <2>3. mention'[i] = [mention[i] EXCEPT !.entity = e]
    BY <1>1 DEF Reassigned
  <2> QED
    BY <2>2, <2>3 DEF Dangling, Exists
<1>2. CASE ~(i \in ids /\ mention[i] # NoMention)
  <2>1. mention'[i] = mention[i]
    BY <1>2 DEF Reassigned
  <2> QED
    BY <2>1 DEF Dangling, Exists
<1> QED
  BY <1>1, <1>2

LEMMA SparesMention ==
  ASSUME GraphTyped, ReqTyped, NEW r \in Requests, SafeCalls(req[r].calls),
         \/ AddMention(r) \/ DeleteMention(r) \/ UpdateMentionSpan(r) \/ DeleteMentionsOf(r)
         \/ ReassignMentions(r) \/ RepointMentions(r)
  PROVE  Spares(Head(req[r].calls))
<1> DEFINE c == Head(req[r].calls)
           cs == req[r].calls
<1>1. node' = node
  BY DEF AddMention, DeleteMention, UpdateMentionSpan, DeleteMentionsOf, ReassignMentions,
         RepointMentions
<1>2. c = cs[1] /\ 1 \in 1 .. Len(cs) /\ c \in GoodCalls
  <2>1. req[r] # Idle /\ cs # <<>>
    BY DEF AddMention, DeleteMention, UpdateMentionSpan, DeleteMentionsOf, ReassignMentions,
           RepointMentions, Calls
  <2>2. cs \in Seq(GoodCalls)
    BY <2>1 DEF ReqTyped, GoodReq
  <2> HIDE DEF cs
  <2> QED
    BY <2>1, <2>2 DEF cs
<1>3. SafeCall(cs, 1)
  BY <1>2 DEF SafeCalls
<1>4. \A e : NamesEntity(c, e) => Exists(e)
  BY <1>2, <1>3 DEF SafeCall
<1>5. c.do \in {"add_mention", "delete_mention", "update_mention_span", "delete_mentions_for_entity",
                "reassign_mentions", "repoint_mentions"}
  BY DEF AddMention, DeleteMention, UpdateMentionSpan, DeleteMentionsOf, ReassignMentions,
         RepointMentions, Calls
<1>6. SUFFICES /\ \A e \in Entities : Frees(c, e) => MentionsOf(e)' = {}
               /\ \A i \in MentionIds : Dangling(i)' => Dangling(i)
  BY <1>1, <1>5 DEF Spares, Exists
<1>7. CASE AddMention(r)
  <2>1. c.do = "add_mention"
    BY <1>7 DEF AddMention, Calls
  <2>2. c.on \in MentionIds /\ c.with \in Mention
    BY <1>2, <2>1, CallFacts
  <2>3. Exists(c.with.entity)
    BY <1>4, <2>1 DEF NamesEntity
  <2>4. mention' = IF mention[c.on] = NoMention THEN [mention EXCEPT ![c.on] = c.with] ELSE mention
    BY <1>7 DEF AddMention, On, With
  <2> HIDE DEF c
  <2> QED
    BY <1>1, <2>1, <2>2, <2>3, <2>4 DEF Dangling, Exists, Frees, GraphTyped
<1>8. CASE DeleteMention(r)
  <2>1. c.do = "delete_mention"
    BY <1>8 DEF DeleteMention, Calls
  <2>2. mention' = [mention EXCEPT ![c.on] = NoMention]
    BY <1>8 DEF DeleteMention, On
  <2> HIDE DEF c
  <2> QED
    BY <1>1, <2>1, <2>2 DEF Dangling, Exists, Frees, GraphTyped
<1>9. CASE UpdateMentionSpan(r)
  <2>1. c.do = "update_mention_span"
    BY <1>9 DEF UpdateMentionSpan, Calls
  <2>2. mention' = IF mention[c.on] = NoMention THEN mention
                   ELSE [mention EXCEPT ![c.on] = [mention[c.on] EXCEPT !.span = c.with]]
    BY <1>9 DEF UpdateMentionSpan, On, With
  <2>3. \A m \in Mention : [m EXCEPT !.span = c.with].entity = m.entity
    BY DEF Mention
  <2>4. \A i \in MentionIds : mention[i] # NoMention => mention[i] \in Mention
    BY DEF GraphTyped
  <2> HIDE DEF c
  <2>5. \A i \in MentionIds : mention'[i] = mention[i]
          \/ (mention[i] # NoMention /\ mention'[i] = [mention[i] EXCEPT !.span = c.with])
    BY <2>2 DEF GraphTyped
  <2>6. \A i \in MentionIds : mention[i] # NoMention /\ mention'[i] # mention[i]
          => mention'[i].entity = mention[i].entity
    BY <2>3, <2>4, <2>5
  <2> QED
    BY <1>1, <2>1, <2>5, <2>6 DEF Dangling, Exists, Frees
<1>10. CASE DeleteMentionsOf(r)
  <2>1. c.do = "delete_mentions_for_entity"
    BY <1>10 DEF DeleteMentionsOf, Calls
  <2>2. mention' = [i \in MentionIds |-> IF i \in MentionsOf(c.on) THEN NoMention ELSE mention[i]]
    BY <1>10 DEF DeleteMentionsOf, On
  <2> HIDE DEF c
  <2>4. \A e \in Entities : Frees(c, e) => e = c.on
    BY DEF Frees
  <2>5. \A i \in MentionIds : Dangling(i)' => Dangling(i)
    BY <1>1, <2>2 DEF Dangling, Exists
  <2>6. \A e : MentionsOf(e)' = {i \in MentionIds : mention'[i] # NoMention /\ mention'[i].entity = e}
    BY DEF MentionsOf
  <2>7. \A e \in Entities : Frees(c, e) => MentionsOf(e)' = {}
    BY <2>2, <2>4, <2>6 DEF MentionsOf
  <2> QED
    BY <2>5, <2>7
<1>11. CASE ReassignMentions(r)
  <2>1. c.do = "reassign_mentions"
    BY <1>11 DEF ReassignMentions, Calls
  <2>2. c.with \in Entities
    BY <1>2, <2>1, CallFacts
  <2>3. Exists(c.with)
    BY <1>4, <2>1 DEF NamesEntity
  <2>4. mention' = Reassigned(c.on, c.with)
    BY <1>11 DEF ReassignMentions, On, With
  <2> HIDE DEF c
  <2>5. \A i \in MentionIds : Dangling(i)' => Dangling(i)
    BY <1>1, <2>2, <2>3, <2>4, ReassignedDangles
  <2> QED
    BY <2>1, <2>5 DEF Frees
<1>12. CASE RepointMentions(r)
  <2>1. c.do = "repoint_mentions"
    BY <1>12 DEF RepointMentions, Calls
  <2>2. c.with \in Entities /\ c.on \in Entities
    BY <1>2, <2>1, CallFacts
  <2>3. Exists(c.with) /\ c.with # c.on
    BY <1>2, <1>3, <2>1 DEF SafeCall
  <2>4. mention' = Reassigned(MentionsOf(c.on), c.with)
    BY <1>12 DEF RepointMentions, On, With
  <2> HIDE DEF c
  <2>5. \A i \in MentionIds : Dangling(i)' => Dangling(i)
    BY <1>1, <2>2, <2>3, <2>4, ReassignedDangles
  <2>6. ASSUME NEW i \in MentionIds, mention'[i] # NoMention PROVE mention'[i].entity # c.on
    <3>1. CASE i \in MentionsOf(c.on)
      <4>1. mention[i] \in Mention
        BY <3>1 DEF MentionsOf, GraphTyped
      <4>2. [mention[i] EXCEPT !.entity = c.with].entity = c.with
        BY <4>1 DEF Mention
      <4>3. mention'[i] = [mention[i] EXCEPT !.entity = c.with]
        BY <2>4, <3>1 DEF Reassigned, MentionsOf
      <4> QED
        BY <2>3, <4>2, <4>3
    <3>2. CASE i \notin MentionsOf(c.on)
      <4>1. mention'[i] = mention[i]
        BY <2>4, <3>2 DEF Reassigned
      <4> QED
        BY <2>6, <3>2, <4>1 DEF MentionsOf
    <3> QED
      BY <3>1, <3>2
  <2>7. \A e : MentionsOf(e)' = {i \in MentionIds : mention'[i] # NoMention /\ mention'[i].entity = e}
    BY DEF MentionsOf
  <2>8. \A e \in Entities : Frees(c, e) => MentionsOf(e)' = {}
    BY <2>6, <2>7 DEF Frees
  <2> QED
    BY <2>5, <2>8
<1> QED
  BY <1>7, <1>8, <1>9, <1>10, <1>11, <1>12

LEMMA SparesDelete ==
  ASSUME GraphTyped, ReqTyped, NEW r \in Requests, SafeCalls(req[r].calls), DeleteNode(r)
  PROVE  Spares(Head(req[r].calls)) /\ Tail(req[r].calls) = <<>>
<1>1. PICK cs \in Seq(GoodCalls) : cs = req[r].calls
  BY DEF DeleteNode, Calls, ReqTyped, GoodReq
<1>2. cs # <<>> /\ Head(cs).do = "delete_entity" /\ Head(cs) = cs[1] /\ 1 \in 1 .. Len(cs)
  BY <1>1 DEF DeleteNode, Calls
<1>3. SafeCall(cs, 1)
  BY <1>1, <1>2 DEF SafeCalls
<1>4. Len(cs) = 1 /\ MentionsOf(cs[1].on) = {}
  BY <1>2, <1>3 DEF SafeCall
<1>5. Tail(cs) = <<>>
  <2>1. cs = <<cs[1]>>
    BY <1>4
  <2>2. Tail(<<cs[1]>>) = <<>>
    OBVIOUS
  <2> QED
    BY <2>1, <2>2
<1>6. mention' = mention /\ node' = [node EXCEPT ![cs[1].on] = NoNode]
  BY <1>1, <1>2 DEF DeleteNode, On
<1>7. ASSUME NEW i \in MentionIds, Dangling(i)' PROVE Dangling(i)
  <2>1. mention[i] # NoMention /\ mention[i].entity # cs[1].on /\ mention[i].entity \in Entities
    BY <1>4, <1>6, <1>7 DEF MentionsOf, Dangling, GraphTyped, Mention
  <2> QED
    BY <1>6, <1>7, <2>1 DEF Dangling, Exists, GraphTyped
<1> QED
  BY <1>1, <1>2, <1>5, <1>7 DEF Spares, Frees

(* A safe call spares.                                                     *)
LEMMA CallSpares ==
  ASSUME GraphTyped, ReqTyped, NEW r \in Requests, SafeCalls(req[r].calls), StoreCall(r)
  PROVE  /\ Spares(Head(req[r].calls))
         /\ DeleteNode(r) => Tail(req[r].calls) = <<>>
         /\ ~DeleteNode(r) => Head(req[r].calls).do # "delete_entity"
<1>1. Spares(Head(req[r].calls)) /\ (DeleteNode(r) => Tail(req[r].calls) = <<>>)
  BY SparesNode, SparesOther, SparesMention, SparesDelete, SMTT(30) DEF StoreCall
<1>2. ~DeleteNode(r) => Head(req[r].calls).do # "delete_entity"
  BY DEF StoreCall, CreateEntity, UpdateEntity, RestoreFields, RelabelType,
         CreateRelation, DeleteRelation, AddMention, DeleteMention, UpdateMentionSpan,
         DeleteMentionsOf, ReassignMentions, RepointMentions, AddSuppression,
         DeleteSuppression, Calls
<1> QED
  BY <1>1, <1>2

LEMMA NothingSafe == SafeCalls(<<>>) /\ SafeCalls(<<>>)'
<1>1. \A k \in 1 .. Len(<<>>) : FALSE
  OBVIOUS
<1> QED
  BY <1>1 DEF SafeCalls

(* What a store call leaves to be done is safe to do.                      *)
LEMMA CallsStaySafe ==
  ASSUME GraphTyped, ReqTyped, NEW r \in Requests, SafeCalls(req[r].calls), StoreCall(r),
         NEW ts, ts = Tail(req[r].calls)
  PROVE  SafeCalls(ts)'
<1>1. PICK cs \in Seq(GoodCalls) : cs = req[r].calls /\ cs # <<>>
  BY DEF StoreCall, CreateEntity, UpdateEntity, RestoreFields, DeleteNode, RelabelType,
         CreateRelation, DeleteRelation, AddMention, DeleteMention, UpdateMentionSpan,
         DeleteMentionsOf, ReassignMentions, RepointMentions, AddSuppression,
         DeleteSuppression, Calls, ReqTyped, GoodReq
<1>2. CASE DeleteNode(r)
  <2>1. ts = <<>>
    BY <1>2, CallSpares
  <2> QED
    BY <2>1, NothingSafe
<1>3. CASE ~DeleteNode(r)
  <2>1. Spares(Head(cs)) /\ Head(cs).do # "delete_entity"
    BY <1>1, <1>3, CallSpares
  <2>2. \A e \in Entities : Exists(e) => Exists(e)'
    BY <2>1 DEF Spares
  <2>3. Head(cs).do = "create_entity" => Exists(Head(cs).on)'
    BY <2>1 DEF Spares, Exists
  <2>4. \A e \in Entities : Frees(Head(cs), e) => MentionsOf(e)' = {}
    BY <2>1 DEF Spares
  <2>5. SafeCalls(cs)
    BY <1>1
  <2>6. SafeCalls(Tail(cs))'
    BY <1>1, <2>2, <2>3, <2>4, <2>5, TailSafe
  <2>7. ts = Tail(cs)
    BY <1>1
  <2> QED
    BY <2>6, <2>7
<1> QED
  BY <1>2, <1>3, SMTT(30)

(* The rows that a call returns go where they belong.                      *)
LEMMA ToldSafe ==
  ASSUME NEW rows \in Seq(GoodRows), NEW seed, SafeRows(rows, seed), NEW moved, NEW told,
         told = [i \in DOMAIN rows |-> IF rows[i].op = "repoint_mentions"
                                         THEN [rows[i] EXCEPT !.before = moved] ELSE rows[i]]
  PROVE  SafeRows(told, seed)
<1>1. ASSUME NEW i \in DOMAIN rows
      PROVE  /\ told[i].op = rows[i].op /\ told[i].target = rows[i].target
             /\ told[i].op = "delete_mentions" => told[i].before = rows[i].before
  <2>1. rows[i] \in GoodRows
    OBVIOUS
  <2>2. CASE rows[i].op = "repoint_mentions"
    <3>1. rows[i] \in [op : {"repoint_mentions"}, target : Entities, before : SUBSET MentionIds, after : {NoImage}]
      BY <2>1, <2>2 DEF GoodRows
    <3>2. told[i] = [rows[i] EXCEPT !.before = moved]
      BY <2>2
    <3> QED
      BY <3>1, <3>2
  <2>3. CASE rows[i].op # "repoint_mentions"
    BY <2>3
  <2> QED
    BY <2>2, <2>3
<1>2. DOMAIN told = DOMAIN rows /\ Len(told) = Len(rows) /\ DOMAIN rows = 1 .. Len(rows) /\ Len(rows) \in Nat
  OBVIOUS
<1>3. ASSUME NEW i \in DOMAIN told PROVE SafeRow(told[i], seed)
  <2>1. SafeRow(rows[i], seed)
    BY <1>2 DEF SafeRows
  <2> QED
    BY <1>1, <1>2, <2>1 DEF SafeRow, Takes
<1>4. ASSUME seed[1] \in {"merge", "delete"} PROVE told # <<>> /\ Takes(told[Len(told)])
  <2>1. rows # <<>> /\ Takes(rows[Len(rows)])
    BY <1>4 DEF SafeRows
  <2>2. Len(rows) \in DOMAIN rows
    BY <1>2, <2>1
  <2> QED
    BY <1>1, <1>2, <2>1, <2>2 DEF Takes
<1> QED
  BY <1>3, <1>4 DEF SafeRows

(* Rows of a relabelling are safe.                                         *)
LEMMA RelabelledSafe ==
  ASSUME NEW rows, NEW seed, seed[1] = "relabel", \A i \in DOMAIN rows : rows[i].op = "edit_fields"
  PROVE  SafeRows(rows, seed)
  BY DEF SafeRows, SafeRow, Takes

LEMMA IdleSafe ==
  ASSUME ReqShape, NEW r \in Requests, req' = [req EXCEPT ![r] = Idle]
  PROVE  ReqSafe(r)'
<1>1. req'[r] = Idle
  BY DEF ReqShape
<1> QED
  BY <1>1 DEF ReqSafe, Idle

(* What a call does to the rows of an edit.                                *)
LEMMA RowsAfterCall ==
  ASSUME GraphTyped, ReqShape, ReqTyped, NEW r \in Requests, StoreCall(r), req'[r] # Idle
  PROVE  /\ req'[r].kind = req[r].kind /\ req'[r].calls = Tail(req[r].calls) /\ req'[r].op = req[r].op
         /\ IsEdit(req[r]) =>
              /\ req'[r].seed = req[r].seed /\ req'[r].before = req[r].before
              /\ \/ req'[r].rows = req[r].rows
                 \/ /\ req[r].calls[1].do = "relabel_entity_type"
                    /\ \A i \in DOMAIN req'[r].rows : req'[r].rows[i].op = "edit_fields"
                 \/ \E moved : req'[r].rows = [i \in DOMAIN req[r].rows |->
                       IF req[r].rows[i].op = "repoint_mentions"
                         THEN [req[r].rows[i] EXCEPT !.before = moved] ELSE req[r].rows[i]]
<1>1. req[r] # Idle /\ req[r].calls # <<>>
  BY DEF StoreCall, CreateEntity, UpdateEntity, RestoreFields, DeleteNode, RelabelType,
         CreateRelation, DeleteRelation, AddMention, DeleteMention, UpdateMentionSpan,
         DeleteMentionsOf, ReassignMentions, RepointMentions, AddSuppression,
         DeleteSuppression, Calls
<1>2. CASE Return(r)
  BY <1>1, <1>2, ReturnEffect
<1>3. CASE RepointMentions(r)
  <2> DEFINE moved == MentionsOf(On(r))
             Told(row) == IF row.op = "repoint_mentions" THEN [row EXCEPT !.before = moved] ELSE row
             rows == [i \in DOMAIN req[r].rows |-> Told(req[r].rows[i])]
  <2>1. ReturnRows(r, rows)
    BY <1>3 DEF RepointMentions
  <2>2. \E m : rows = [i \in DOMAIN req[r].rows |->
                       IF req[r].rows[i].op = "repoint_mentions"
                         THEN [req[r].rows[i] EXCEPT !.before = m] ELSE req[r].rows[i]]
    OBVIOUS
  <2> HIDE DEF rows
  <2>3. /\ req'[r].kind = req[r].kind /\ req'[r].calls = Tail(req[r].calls) /\ req'[r].op = req[r].op
        /\ IsEdit(req[r]) => /\ req'[r].seed = req[r].seed /\ req'[r].rows = rows
                             /\ req'[r].before = req[r].before
    BY <1>1, <2>1, ReturnRowsEffect
  <2> QED
    BY <2>2, <2>3, ZenonT(40)
<1>4. CASE RelabelType(r)
  <2> DEFINE ids == {e \in Entities : Exists(e) /\ node[e].type = On(r)}
             rows == [i \in DOMAIN SetToSeq(ids) |->
                     Row("edit_fields", SetToSeq(ids)[i], [type |-> On(r)], [type |-> With(r)])]
  <2>1. req' = [req EXCEPT ![r] = Idle] \/ ReturnRows(r, rows)
    BY <1>4 DEF RelabelType
  <2>2. ReturnRows(r, rows)
    BY <2>1 DEF ReqShape
  <2>3. \A i \in DOMAIN rows : rows[i].op = "edit_fields"
    <3> HIDE DEF ids
    <3> QED
      BY DEF Row
  <2>4. Head(req[r].calls).do = "relabel_entity_type" /\ Head(req[r].calls) = req[r].calls[1]
    <3>1. req[r].calls \in Seq(GoodCalls)
      BY <1>1 DEF ReqTyped, GoodReq
    <3> QED
      BY <1>1, <1>4, <3>1 DEF RelabelType, Calls
  <2> HIDE DEF rows
  <2> QED
    BY <1>1, <2>2, <2>3, <2>4, ReturnRowsEffect
<1>5. RepointMentions(r) \/ RelabelType(r) \/ Return(r)
  BY DEF StoreCall, CreateEntity, UpdateEntity, RestoreFields, DeleteNode,
         CreateRelation, DeleteRelation, AddMention, DeleteMention, UpdateMentionSpan,
         DeleteMentionsOf, ReassignMentions, AddSuppression, DeleteSuppression
<1> QED
  BY <1>2, <1>3, <1>4, <1>5

(* A store call leaves its request safe.                                   *)
LEMMA CallSafe ==
  ASSUME GraphTyped, ReqShape, ReqTyped, NEW r \in Requests, ReqSafe(r), StoreCall(r)
  PROVE  ReqSafe(r)'
<1>1. req[r] # Idle /\ req[r].calls # <<>>
  BY DEF StoreCall, CreateEntity, UpdateEntity, RestoreFields, DeleteNode, RelabelType,
         CreateRelation, DeleteRelation, AddMention, DeleteMention, UpdateMentionSpan,
         DeleteMentionsOf, ReassignMentions, RepointMentions, AddSuppression,
         DeleteSuppression, Calls
<1>2. CASE req'[r] = Idle
  BY <1>2 DEF ReqSafe, Idle
<1>3. CASE req'[r] # Idle
  <2>1. /\ req'[r].kind = req[r].kind /\ req'[r].calls = Tail(req[r].calls) /\ req'[r].op = req[r].op
        /\ IsEdit(req[r]) =>
              /\ req'[r].seed = req[r].seed
              /\ \/ req'[r].rows = req[r].rows
                 \/ /\ req[r].calls[1].do = "relabel_entity_type"
                    /\ \A i \in DOMAIN req'[r].rows : req'[r].rows[i].op = "edit_fields"
                 \/ \E moved : req'[r].rows = [i \in DOMAIN req[r].rows |->
                       IF req[r].rows[i].op = "repoint_mentions"
                         THEN [req[r].rows[i] EXCEPT !.before = moved] ELSE req[r].rows[i]]
    BY <1>3, RowsAfterCall
  <2>2. SafeCalls(req[r].calls) => SafeCalls(req[r].calls)'
    <3>1. PICK ts : ts = Tail(req[r].calls)
      OBVIOUS
    <3>2. SafeCalls(req[r].calls) => SafeCalls(ts)'
      BY <3>1, CallsStaySafe
    <3> QED
      BY <2>1, <3>1, <3>2
  <2>3. PICK cs \in Seq(GoodCalls) : cs = req[r].calls
    BY <1>1 DEF ReqTyped, GoodReq
  <2>4. \A k \in 1 .. Len(Tail(cs)) : k + 1 \in 1 .. Len(cs) /\ Tail(cs)[k] = cs[k + 1]
    BY <1>1, <2>3
  <2>5. 1 \in 1 .. Len(cs)
    BY <1>1, <2>3
  <2>6. CASE req[r].kind = "edit"
    <3>1. IsEdit(req[r])
      BY <1>1, <2>6, UndoIsNoEdit DEF ReqShape
    <3>2. SafeCalls(req[r].calls)'
      BY <2>2, <2>6 DEF ReqSafe
    <3>3. \A k \in 1 .. Len(cs) : cs[k].do = "relabel_entity_type" => req[r].seed[1] = "relabel"
      BY <2>3, <2>6 DEF ReqSafe
    <3>4. SafeRows(req[r].rows, req[r].seed) /\ req[r].rows \in Seq(GoodRows)
      BY <2>6 DEF ReqSafe, ReqTyped, GoodReq
    <3>5. SafeRows(req'[r].rows, req'[r].seed)
      <4>1. CASE req'[r].rows = req[r].rows
        BY <2>1, <3>1, <3>4, <4>1
      <4>2. CASE cs[1].do = "relabel_entity_type"
                 /\ \A i \in DOMAIN req'[r].rows : req'[r].rows[i].op = "edit_fields"
        BY <2>1, <2>5, <3>1, <3>3, <4>2, RelabelledSafe
      <4>3. ASSUME NEW moved, req'[r].rows = [i \in DOMAIN req[r].rows |->
                       IF req[r].rows[i].op = "repoint_mentions"
                         THEN [req[r].rows[i] EXCEPT !.before = moved] ELSE req[r].rows[i]]
            PROVE  SafeRows(req'[r].rows, req'[r].seed)
        <5>1. SafeRows(req'[r].rows, req[r].seed)
          BY <3>4, <4>3, ToldSafe
        <5> QED
          BY <2>1, <3>1, <5>1
      <4> QED
        BY <2>1, <2>3, <3>1, <4>1, <4>2, <4>3
    <3>6. \A k \in 1 .. Len(req'[r].calls) :
            req'[r].calls[k].do = "relabel_entity_type" => req'[r].seed[1] = "relabel"
      BY <2>1, <2>3, <2>4, <3>1, <3>3
    <3>7. req'[r].op # NoOp => OfSeed(req'[r].op, req'[r].seed)
      BY <2>1, <2>6, <3>1 DEF ReqSafe
    <3>8. req'[r].kind = "edit"
      BY <2>1, <2>6
    <3> QED
      BY <3>2, <3>5, <3>6, <3>7, <3>8 DEF ReqSafe
  <2>7. CASE req[r].kind # "edit"
    <3>1. TakesBackTag(r)' <=> TakesBackTag(r)
      BY <2>1 DEF TakesBackTag
    <3> QED
      BY <2>1, <2>2, <2>7, <3>1 DEF ReqSafe
  <2> QED
    BY <2>6, <2>7
<1> QED
  BY <1>2, <1>3, SMTT(30)

-----------------------------------------------------------------------------
(* Operations *)

(* Most operations make plain calls and log modest rows.                   *)
LEMMA MakePlain ==
  ASSUME NEW do, NEW on, NEW with, Call(do, on, with) \in GoodCalls,
         do \notin {"add_mention", "reassign_mentions", "repoint_mentions",
                    "delete_entity", "relabel_entity_type"}
  PROVE  Call(do, on, with) \in Plain
  BY DEF Plain, Call

LEMMA PlainIsSafe ==
  ASSUME NEW cs \in Seq(Plain)
  PROVE  SafeCalls(cs) /\ \A k \in 1 .. Len(cs) : cs[k].do # "relabel_entity_type"
  BY DEF SafeCalls, SafeCall, Plain, NamesEntity

(* An operation that begins with safe calls and rows.                      *)
LEMMA BeginSafe ==
  ASSUME ReqShape, NEW r \in Requests, NEW calls, NEW seed, NEW rows, Begin(r, calls, seed, rows),
         SafeCalls(calls), SafeRows(rows, seed),
         \A k \in 1 .. Len(calls) : calls[k].do = "relabel_entity_type" => seed[1] = "relabel"
  PROVE  ReqSafe(r)'
<1> DEFINE q == Edit(calls, seed, rows, NoOp, 0, Graph)
<1>1. req'[r] = q /\ node' = node /\ mention' = mention
  BY DEF Begin, Edit, ReqShape
<1>2. q.kind = "edit" /\ q.calls = calls /\ q.rows = rows /\ q.op = NoOp /\ q.seed = seed
  BY DEF Edit
<1> HIDE DEF q
<1>3. SafeCalls(calls)'
  BY <1>1 DEF SafeCalls, SafeCall, Exists, MentionsOf
<1> QED
  BY <1>1, <1>2, <1>3 DEF ReqSafe

(* Rows that undo nothing but themselves.                                  *)
Modest == {w \in GoodRows : ~Takes(w) /\ w.op \notin
            {"create_entity_from_tag", "repoint_mentions", "delete_mentions"}}

LEMMA MakeModest ==
  ASSUME NEW op, NEW target, NEW before, NEW after, Row(op, target, before, after) \in GoodRows,
         op \notin {"delete_absorbed", "delete_entity", "create_entity_from_tag", "repoint_mentions",
                    "delete_mentions"}
  PROVE  Row(op, target, before, after) \in Modest
  BY DEF Modest, Row, Takes

LEMMA ModestIsSafe ==
  ASSUME NEW rows \in Seq(Modest), NEW seed, seed[1] \notin {"merge", "delete"}
  PROVE  SafeRows(rows, seed)
  BY DEF SafeRows, SafeRow, Modest

(* An operation of plain calls and modest rows.                            *)
LEMMA PlainBegin ==
  ASSUME ReqShape, NEW r \in Requests, NEW calls \in Seq(Plain), NEW seed, NEW rows \in Seq(Modest),
         Begin(r, calls, seed, rows), seed[1] \notin {"merge", "delete"}
  PROVE  ReqSafe(r)'
<1>1. SafeCalls(calls) /\ \A k \in 1 .. Len(calls) : calls[k].do # "relabel_entity_type"
  BY PlainIsSafe
<1>2. SafeRows(rows, seed)
  BY ModestIsSafe
<1> QED
  BY <1>1, <1>2, BeginSafe

LEMMA EditEntitySafe ==
  ASSUME Sound, NEW r \in Requests, NEW e \in Entities, NEW patch \in Patches, EditEntity(r, e, patch)
  PROVE  ReqSafe(r)'
<1> DEFINE changed == {f \in DOMAIN patch : patch[f] # node[e][f]}
           was == [f \in changed |-> node[e][f]]
           is == [f \in changed |-> patch[f]]
<1>1. node[e] \in Node /\ patch \in Fields
  BY PatchesAssumption DEF PatchesAssumption, EditEntity, Exists, Sound, GraphTyped
<1>2. changed \in SUBSET DOMAIN patch
  OBVIOUS
<1>3. Begin(r, <<Call("update_entity", e, Over(patch, node[e]))>>, Single, <<Row("edit_fields", e, was, is)>>)
  BY DEF EditEntity
<1> HIDE DEF changed
<1>4. is \in Fields /\ DOMAIN patch \subseteq FieldNames /\ Over(patch, node[e]) \in Node
  BY <1>1, <1>2, FieldsOfPatch
<1>5. was \in Fields
  <2>1. changed \in SUBSET FieldNames
    BY <1>2, <1>4
  <2> QED
    BY <1>1, <2>1, FieldsOfNode
<1> HIDE DEF was, is
<1>6. Call("update_entity", e, Over(patch, node[e])) \in Plain /\ Row("edit_fields", e, was, is) \in Modest
  BY <1>4, <1>5, MakeCall, MakeRow, MakePlain, MakeModest
<1>7. <<Call("update_entity", e, Over(patch, node[e]))>> \in Seq(Plain)
      /\ <<Row("edit_fields", e, was, is)>> \in Seq(Modest)
  BY <1>6, Tuples
<1>8. Single[1] \notin {"merge", "delete"}
  BY DEF Single
<1> QED
  BY <1>3, <1>7, <1>8, PlainBegin DEF Sound

LEMMA RelationSafe ==
  ASSUME Sound, NEW r \in Requests, NEW t \in Triples, AddRelation(r, t) \/ RemoveRelation(r, t)
  PROVE  ReqSafe(r)'
<1>1. minted + 1 \in Handles /\ (HasEdge(t) => edge[t] \in Handles) /\ HasEdge(t) \in BOOLEAN
  BY DEF Sound, GraphTyped, HasEdge, Handles
<1>4. Single[1] \notin {"merge", "delete"}
  BY DEF Single
<1>2. CASE AddRelation(r, t)
  <2>1. Call("create_relation", t, minted + 1) \in Plain
        /\ Row("add_relation", t, NoImage, HasEdge(t)) \in Modest
    BY <1>1, MakeCall, MakeRow, MakePlain, MakeModest
  <2>2. <<Call("create_relation", t, minted + 1)>> \in Seq(Plain)
        /\ <<Row("add_relation", t, NoImage, HasEdge(t))>> \in Seq(Modest)
    BY <2>1, Tuples
  <2> QED
    BY <1>2, <1>4, <2>2, PlainBegin DEF Sound, AddRelation
<1>3. CASE RemoveRelation(r, t)
  <2>1. Call("delete_relation", t, NoImage) \in Plain
        /\ Row("remove_relation", t, edge[t], NoImage) \in Modest
    BY <1>1, <1>3, MakeCall, MakeRow, MakePlain, MakeModest DEF RemoveRelation
  <2>2. <<Call("delete_relation", t, NoImage)>> \in Seq(Plain)
        /\ <<Row("remove_relation", t, edge[t], NoImage)>> \in Seq(Modest)
    BY <2>1, Tuples
  <2> QED
    BY <1>3, <1>4, <2>2, PlainBegin DEF Sound, RemoveRelation
<1> QED
  BY <1>2, <1>3

LEMMA RekeySafe ==
  ASSUME GraphTyped, NEW old \in Triples, NEW new \in Triples, HasEdge(old), NEW i \in Nat
  PROVE  Rekey(old, new, i) \in Seq(Plain) /\ RekeyRow(old, new) \in Modest
<1>1. edge[old] \in Handles /\ minted + i \in Handles
  BY DEF GraphTyped, HasEdge, Handles
<1>2. Handle(old, i) \in Handles
  BY <1>1 DEF Handle
<1>3. Call("create_relation", new, Handle(old, i)) \in Plain /\ Call("delete_relation", old, NoImage) \in Plain
  BY <1>2, MakeCall, MakePlain
<1>4. Rekey(old, new, i) \in Seq(Plain)
  BY <1>3, Tuples DEF Rekey
<1>5. RekeyRow(old, new) \in Modest
  BY <1>1, MakeRow, MakeModest DEF RekeyRow
<1> QED
  BY <1>4, <1>5

LEMMA RetargetSafe ==
  ASSUME Sound, NEW r \in Requests, NEW old \in Triples, NEW new \in Triples, RetargetRelation(r, old, new)
  PROVE  ReqSafe(r)'
<1>1. Rekey(old, new, 1) \in Seq(Plain) /\ RekeyRow(old, new) \in Modest
  BY RekeySafe DEF RetargetRelation, Sound
<1>2. <<RekeyRow(old, new)>> \in Seq(Modest)
  BY <1>1, Tuples
<1>3. Begin(r, Rekey(old, new, 1), <<"retarget", old, new>>, <<RekeyRow(old, new)>>)
  BY DEF RetargetRelation
<1>4. <<"retarget", old, new>>[1] \notin {"merge", "delete"}
  OBVIOUS
<1> QED
  BY <1>1, <1>2, <1>3, <1>4, PlainBegin DEF Sound

LEMMA RenameSafe ==
  ASSUME Sound, NEW r \in Requests, NEW p \in Predicates, NEW q \in Predicates, RenamePredicate(r, p, q)
  PROVE  ReqSafe(r)'
<1> DEFINE B == {t \in Triples : HasEdge(t) /\ t[2] = p}
           S == SetToSeq(B)
           Renamed(t) == <<t[1], q, t[3]>>
           parts == [i \in DOMAIN S |-> Rekey(S[i], Renamed(S[i]), i)]
           rows == [i \in DOMAIN S |-> RekeyRow(S[i], Renamed(S[i]))]
<1>1. Begin(r, FlattenSeq(parts), <<"rename", p, q>>, rows)
  BY DEF RenamePredicate
<1>2. B \subseteq Triples /\ IsFiniteSet(B) /\ \A t \in B : HasEdge(t)
  BY FiniteStores, FS_Subset
<1>3. \A t \in Triples : Renamed(t) \in Triples
  BY DEF Triples
<1> HIDE DEF B
<1>4. S \in Seq(B) /\ Len(S) \in Nat /\ DOMAIN S = 1 .. Len(S)
  BY <1>2, SetToSeqIs
<1> HIDE DEF S
<1>5. ASSUME NEW i \in DOMAIN S
      PROVE  Rekey(S[i], Renamed(S[i]), i) \in Seq(Plain) /\ RekeyRow(S[i], Renamed(S[i])) \in Modest
  <2>1. S[i] \in B /\ i \in Nat
    BY <1>4
  <2>2. S[i] \in Triples /\ HasEdge(S[i]) /\ Renamed(S[i]) \in Triples
    BY <1>2, <1>3, <2>1
  <2> HIDE DEF Renamed
  <2> QED
    BY <2>1, <2>2, RekeySafe DEF Sound
<1> HIDE DEF Renamed
<1>6. parts \in Seq(Seq(Plain)) /\ rows \in Seq(Modest)
  BY <1>4, <1>5
<1> HIDE DEF parts, rows
<1>7. FlattenSeq(parts) \in Seq(Plain)
  BY <1>6, FlattenType
<1>8. <<"rename", p, q>>[1] \notin {"merge", "delete"}
  OBVIOUS
<1> QED
  BY <1>1, <1>6, <1>7, <1>8, PlainBegin DEF Sound

LEMMA RelabelSafe ==
  ASSUME Sound, NEW r \in Requests, NEW from, NEW to, RelabelEntityType(r, from, to)
  PROVE  ReqSafe(r)'
<1> DEFINE cs == <<Call("relabel_entity_type", from, to)>>
           seed == <<"relabel", from, to>>
<1>1. Begin(r, cs, seed, <<>>)
  BY DEF RelabelEntityType
<1>2. SafeCalls(cs)
  BY DEF SafeCalls, SafeCall, Call, NamesEntity
<1>3. seed[1] = "relabel" /\ SafeRows(<<>>, seed)
  BY DEF SafeRows
<1> HIDE DEF cs, seed
<1> QED
  BY <1>1, <1>2, <1>3, BeginSafe DEF Sound

LEMMA DeleteSafe ==
  ASSUME Sound, NEW r \in Requests, NEW e \in Entities, DeleteEntity(r, e)
  PROVE  ReqSafe(r)'
<1> DEFINE ms == Restrict(mention, MentionsOf(e))
           es == Restrict(edge, Incident(e))
           cs == <<Call("delete_mentions_for_entity", e, NoImage), Call("delete_entity", e, NoImage)>>
           rows == <<Row("delete_mentions", e, ms, NoImage), Row("delete_relations", e, es, NoImage),
                     Row("delete_entity", e, node[e], NoImage)>>
           seed == <<"delete", e>>
<1>1. Begin(r, cs, seed, rows)
  BY DEF DeleteEntity
<1>2. SafeCalls(cs)
  <2>1. Len(cs) = 2 /\ cs[1].do = "delete_mentions_for_entity" /\ cs[1].on = e
        /\ cs[2].do = "delete_entity" /\ cs[2].on = e
    BY DEF Call
  <2> HIDE DEF cs
  <2>2. SafeCall(cs, 1) /\ SafeCall(cs, 2)
    BY <2>1 DEF SafeCall, NamesEntity, Frees
  <2>3. \A k \in 1 .. Len(cs) : k = 1 \/ k = 2
    BY <2>1
  <2> QED
    BY <2>2, <2>3 DEF SafeCalls
<1>3. SafeRows(rows, seed)
  <2>1. \A x \in DOMAIN ms : ms[x].entity = e
    BY DEF Restrict, MentionsOf
  <2> HIDE DEF ms, es
  <2>2. Len(rows) = 3 /\ DOMAIN rows = 1 .. 3 /\ rows # <<>>
    OBVIOUS
  <2>3. /\ rows[1].op = "delete_mentions" /\ rows[1].target = e /\ rows[1].before = ms
        /\ rows[2].op = "delete_relations"
        /\ rows[3].op = "delete_entity" /\ rows[3].target = e
    BY DEF Row
  <2>4. seed[1] = "delete" /\ seed[2] = e
    OBVIOUS
  <2> HIDE DEF rows, seed
  <2>5. SafeRow(rows[1], seed) /\ SafeRow(rows[2], seed) /\ SafeRow(rows[3], seed)
    BY <2>1, <2>3, <2>4 DEF SafeRow, Takes
  <2> QED
    BY <2>2, <2>3, <2>4, <2>5 DEF SafeRows, Takes
<1>4. \A k \in 1 .. Len(cs) : cs[k].do # "relabel_entity_type"
  BY DEF Call
<1> HIDE DEF cs, rows, seed
<1> QED
  BY <1>1, <1>2, <1>3, <1>4, BeginSafe DEF Sound

(* Calls of tags: what they name is there, or the first of them makes it.  *)
LEMMA TextSafe ==
  ASSUME Sound, NEW r \in Requests,
         \/ \E e \in Entities, s \in Spans : TagExisting(r, e, s)
         \/ \E s \in Spans, who \in Entities \cup {Everyone} : SuppressOccurrence(r, s, who)
         \/ \E s \in Spans, from, to \in Entities : RetagOccurrence(r, s, from, to)
         \/ \E e \in Entities, old, new \in Spans : MaterializeBoundaries(r, e, old, new)
         \/ \E s \in Spans, type \in Types : TagNewEntity(r, s, type)
         \/ \E id \in MentionIds, s \in Spans : MoveBoundaries(r, id, s)
  PROVE  ReqSafe(r)'
<1>1. ASSUME NEW e, NEW s, Exists(e)
      PROVE  SafeCalls(<<AddManual(e, s)>>)
             /\ \A on : /\ SafeCalls(<<AddManual(e, s), Call("add_suppression", on, NoImage)>>)
                        /\ SafeCalls(<<Call("add_suppression", on, NoImage), AddManual(e, s)>>)
  BY <1>1 DEF SafeCalls, SafeCall, AddManual, Call, NamesEntity
<1>2. ASSUME NEW e, NEW s, NEW n
      PROVE  SafeCalls(<<Call("create_entity", e, n), AddManual(e, s)>>)
  BY DEF SafeCalls, SafeCall, AddManual, Call, NamesEntity
<1>3. ASSUME NEW on, NEW with
      PROVE  SafeCalls(<<Call("add_suppression", on, with)>>)
             /\ SafeCalls(<<Call("update_mention_span", on, with)>>)
  BY DEF SafeCalls, SafeCall, Call, NamesEntity
<1>4. ASSUME NEW seed, seed[1] \notin {"merge", "delete"}, NEW x, NEW y, NEW z
      PROVE  /\ SafeRows(<<Row("add_mention", x, NoImage, NoImage)>>, seed)
             /\ SafeRows(<<Row("suppress_span", x, NoImage, NoImage)>>, seed)
             /\ SafeRows(<<Row("edit_mention_span", x, y, z)>>, seed)
             /\ SafeRows(<<Row("add_mention", x, NoImage, NoImage),
                           Row("suppress_span", y, NoImage, NoImage)>>, seed)
             /\ SafeRows(<<Row("suppress_span", x, NoImage, NoImage),
                           Row("add_mention", y, NoImage, NoImage)>>, seed)
             /\ seed[1] = "tagnew" => SafeRows(<<Row("create_entity_from_tag", x, NoImage, y),
                                                 Row("add_mention", z, NoImage, NoImage)>>, seed)
  BY <1>4 DEF SafeRows, SafeRow, Row, Takes
<1>5. ASSUME NEW calls, NEW seed, NEW rows, Begin(r, calls, seed, rows), SafeCalls(calls),
             SafeRows(rows, seed), \A k \in 1 .. Len(calls) : calls[k].do # "relabel_entity_type"
      PROVE  ReqSafe(r)'
  BY <1>5, BeginSafe DEF Sound
<1>6. ASSUME NEW e \in Entities, NEW s \in Spans, TagExisting(r, e, s) PROVE ReqSafe(r)'
  <2>1. SafeCalls(<<AddManual(e, s)>>) /\ SafeRows(<<Row("add_mention", <<e, s>>, NoImage, NoImage)>>, Single)
    BY <1>1, <1>4, <1>6 DEF TagExisting, Single
  <2>2. \A k \in 1 .. Len(<<AddManual(e, s)>>) : <<AddManual(e, s)>>[k].do # "relabel_entity_type"
    BY DEF AddManual, Call
  <2> QED
    BY <1>5, <1>6, <2>1, <2>2 DEF TagExisting
<1>7. ASSUME NEW s \in Spans, NEW who, SuppressOccurrence(r, s, who) PROVE ReqSafe(r)'
  <2> DEFINE cs == <<Call("add_suppression", <<s, who>>, NoImage)>>
             rows == <<Row("suppress_span", <<s, who>>, NoImage, NoImage)>>
  <2>1. SafeCalls(cs) /\ SafeRows(rows, Single)
    BY <1>3, <1>4 DEF Single
  <2>2. \A k \in 1 .. Len(cs) : cs[k].do # "relabel_entity_type"
    BY DEF Call
  <2>3. Begin(r, cs, Single, rows)
    BY <1>7 DEF SuppressOccurrence
  <2> HIDE DEF cs, rows
  <2> QED
    BY <1>5, <2>1, <2>2, <2>3
<1>8. ASSUME NEW s \in Spans, NEW from, NEW to, RetagOccurrence(r, s, from, to) PROVE ReqSafe(r)'
  <2> DEFINE cs == <<Call("add_suppression", <<s, from>>, NoImage), AddManual(to, s)>>
             rows == <<Row("suppress_span", <<s, from>>, NoImage, NoImage),
                       Row("add_mention", <<to, s>>, NoImage, NoImage)>>
             seed == <<"retag", s, to>>
  <2>1. SafeCalls(cs)
    BY <1>1, <1>8 DEF RetagOccurrence
  <2>2. SafeRows(rows, seed)
    <3>1. seed[1] \notin {"merge", "delete"}
      OBVIOUS
    <3> HIDE DEF seed
    <3> QED
      BY <1>4, <3>1
  <2>3. \A k \in 1 .. Len(cs) : cs[k].do # "relabel_entity_type"
    BY DEF Call, AddManual
  <2>4. Begin(r, cs, seed, rows)
    BY <1>8 DEF RetagOccurrence
  <2> HIDE DEF cs, rows, seed
  <2> QED
    BY <1>5, <2>1, <2>2, <2>3, <2>4
<1>9. ASSUME NEW e, NEW old, NEW new, MaterializeBoundaries(r, e, old, new) PROVE ReqSafe(r)'
  <2> DEFINE cs == <<AddManual(e, new), Call("add_suppression", <<old, e>>, NoImage)>>
             rows == <<Row("add_mention", <<e, new>>, NoImage, NoImage),
                       Row("suppress_span", <<old, e>>, NoImage, NoImage)>>
             seed == <<"materialize", old, e>>
  <2>1. SafeCalls(cs)
    BY <1>1, <1>9 DEF MaterializeBoundaries
  <2>2. SafeRows(rows, seed)
    <3>1. seed[1] \notin {"merge", "delete"}
      OBVIOUS
    <3> HIDE DEF seed
    <3> QED
      BY <1>4, <3>1
  <2>3. \A k \in 1 .. Len(cs) : cs[k].do # "relabel_entity_type"
    BY DEF Call, AddManual
  <2>4. Begin(r, cs, seed, rows)
    BY <1>9 DEF MaterializeBoundaries
  <2> HIDE DEF cs, rows, seed
  <2> QED
    BY <1>5, <2>1, <2>2, <2>3, <2>4
<1>10. ASSUME NEW s \in Spans, NEW type \in Types, TagNewEntity(r, s, type) PROVE ReqSafe(r)'
  <2> DEFINE e == TagEntity[s]
             entity == [type |-> type, name |-> Named[s], aliases |-> {}, prop |-> NoValue]
             cs == <<Call("create_entity", e, entity), AddManual(e, s)>>
             rows == <<Row("create_entity_from_tag", e, NoImage, entity),
                       Row("add_mention", <<e, s>>, NoImage, NoImage)>>
             seed == <<"tagnew", s>>
  <2>1. SafeCalls(cs)
    BY <1>2
  <2>2. SafeRows(rows, seed)
    <3>1. seed[1] \notin {"merge", "delete"} /\ seed[1] = "tagnew"
      OBVIOUS
    <3> HIDE DEF seed, entity, e
    <3> QED
      BY <1>4, <3>1
  <2>3. \A k \in 1 .. Len(cs) : cs[k].do # "relabel_entity_type"
    BY DEF Call, AddManual
  <2>4. Begin(r, cs, seed, rows)
    BY <1>10 DEF TagNewEntity
  <2> HIDE DEF cs, rows, seed
  <2> QED
    BY <1>5, <2>1, <2>2, <2>3, <2>4
<1>11. ASSUME NEW id, NEW s, MoveBoundaries(r, id, s) PROVE ReqSafe(r)'
  <2> DEFINE cs == <<Call("update_mention_span", id, s)>>
             rows == <<Row("edit_mention_span", id, mention[id].span, s)>>
  <2>1. SafeCalls(cs) /\ SafeRows(rows, Single)
    BY <1>3, <1>4 DEF Single
  <2>2. \A k \in 1 .. Len(cs) : cs[k].do # "relabel_entity_type"
    BY DEF Call
  <2>3. Begin(r, cs, Single, rows)
    BY <1>11 DEF MoveBoundaries
  <2> HIDE DEF cs, rows
  <2> QED
    BY <1>5, <2>1, <2>2, <2>3
<1> QED
  BY <1>6, <1>7, <1>8, <1>9, <1>10, <1>11

(* Plain calls between two others.                                         *)
LEMMA Sandwich ==
  ASSUME NEW S, NEW f \in Seq(S), NEW x, NEW y, NEW z, NEW s, s = <<x>> \o f \o <<y, z>>
  PROVE  /\ Len(f) \in Nat /\ Len(s) = Len(f) + 3 /\ DOMAIN s = 1 .. Len(s)
         /\ s[1] = x /\ s[Len(f) + 2] = y /\ s[Len(f) + 3] = z
         /\ \A k \in 2 .. Len(f) + 1 : s[k] = f[k - 1] /\ s[k] \in S
<1>1. PICK T : x \in T /\ y \in T /\ z \in T /\ S \subseteq T
  <2>1. LET T == S \cup {x, y, z} IN x \in T /\ y \in T /\ z \in T /\ S \subseteq T
    OBVIOUS
  <2> QED
    BY <2>1
<1>2. <<x>> \in Seq(T) /\ <<y, z>> \in Seq(T) /\ f \in Seq(T)
  BY <1>1
<1> DEFINE h == <<x>> \o f
<1>3. h \in Seq(T) /\ Len(h) = Len(f) + 1 /\ h[1] = x /\ \A k \in 2 .. Len(f) + 1 : h[k] = f[k - 1]
  BY <1>2
<1>4. s = h \o <<y, z>>
  OBVIOUS
<1> HIDE DEF h
<1>5. Len(f) \in Nat /\ Len(<<y, z>>) = 2 /\ <<y, z>>[1] = y /\ <<y, z>>[2] = z
  OBVIOUS
<1>6. s \in Seq(T) /\ Len(s) = Len(f) + 3
  BY <1>2, <1>3, <1>4, <1>5
<1>7. \A k \in 1 .. Len(f) + 1 : s[k] = h[k]
  BY <1>2, <1>3, <1>4, <1>5
<1>8. s[Len(f) + 2] = y /\ s[Len(f) + 3] = z
  BY <1>2, <1>3, <1>4, <1>5
<1>9. \A k \in 2 .. Len(f) + 1 : s[k] = f[k - 1] /\ s[k] \in S
  <2> SUFFICES ASSUME NEW k \in 2 .. Len(f) + 1 PROVE s[k] = f[k - 1] /\ s[k] \in S
    OBVIOUS
  <2>1. s[k] = f[k - 1] /\ k - 1 \in 1 .. Len(f)
    BY <1>3, <1>5, <1>7
  <2> QED
    BY <2>1
<1> QED
  BY <1>3, <1>5, <1>6, <1>7, <1>8, <1>9

(* The calls of a merge: its mentions move before its node goes.           *)
LEMMA MergeCallsSafe ==
  ASSUME NEW a, NEW b, a # b, Exists(a), NEW f \in Seq(Plain), NEW n, NEW cs,
         cs = <<Call("update_entity", a, n)>> \o f
                \o <<Call("repoint_mentions", b, a), Call("delete_entity", b, NoImage)>>
  PROVE  SafeCalls(cs) /\ \A k \in 1 .. Len(cs) : cs[k].do # "relabel_entity_type"
<1> DEFINE m == Len(f)
<1>1. /\ m \in Nat /\ Len(cs) = m + 3
      /\ cs[1] = Call("update_entity", a, n) /\ cs[m + 2] = Call("repoint_mentions", b, a)
      /\ cs[m + 3] = Call("delete_entity", b, NoImage)
      /\ \A k \in 2 .. m + 1 : cs[k] \in Plain
  BY Sandwich
<1>2. /\ cs[1].do = "update_entity"
      /\ cs[m + 2].do = "repoint_mentions" /\ cs[m + 2].on = b /\ cs[m + 2].with = a
      /\ cs[m + 3].do = "delete_entity" /\ cs[m + 3].on = b
  BY <1>1 DEF Call
<1> HIDE DEF m
<1>3. SafeCall(cs, 1) /\ SafeCall(cs, m + 2)
  BY <1>2, <1>1 DEF SafeCall, NamesEntity
<1>4. SafeCall(cs, m + 3)
  <2>1. (m + 3) - 1 = m + 2 /\ m + 3 # 1
    BY <1>1
  <2>2. Frees(cs[(m + 3) - 1], cs[m + 3].on)
    BY <1>2, <2>1 DEF Frees
  <2> QED
    BY <1>1, <1>2, <2>1, <2>2 DEF SafeCall, NamesEntity
<1>5. \A k \in 2 .. m + 1 : SafeCall(cs, k) /\ cs[k].do # "relabel_entity_type"
  BY <1>1 DEF SafeCall, NamesEntity, Plain
<1>6. \A k \in 1 .. Len(cs) : k = 1 \/ k \in 2 .. m + 1 \/ k = m + 2 \/ k = m + 3
  BY <1>1
<1> QED
  BY <1>2, <1>3, <1>4, <1>5, <1>6 DEF SafeCalls

LEMMA MergeStepSafe ==
  ASSUME GraphTyped, NEW old \in Triples, NEW new \in Triples, HasEdge(old)
  PROVE  MergeStepCalls(old, new) \in Seq(Plain) /\ MergeStepRow(old, new) \in Modest
<1>1. edge[old] \in Handles
  BY DEF GraphTyped, HasEdge
<1>2. Call("delete_relation", old, NoImage) \in Plain /\ Call("create_relation", new, edge[old]) \in Plain
  BY <1>1, MakeCall, MakePlain
<1>3. <<Call("delete_relation", old, NoImage)>> \in Seq(Plain)
      /\ <<Call("create_relation", new, edge[old])>> \in Seq(Plain) /\ <<>> \in Seq(Plain)
  BY <1>2, Tuples
<1>4. \A s, u \in Seq(Plain) : s \o u \in Seq(Plain)
  OBVIOUS
<1>5. MergeStepCalls(old, new) \in Seq(Plain)
  BY <1>3, <1>4 DEF MergeStepCalls
<1>6. Row("discard_self_loop_relation", old, edge[old], NoImage) \in Modest
  BY <1>1, MakeRow, MakeModest
<1>7. RekeyRow(old, new) \in Modest
  BY RekeySafe
<1> QED
  BY <1>5, <1>6, <1>7 DEF MergeStepRow

LEMMA MergeSafe ==
  ASSUME Sound, NEW r \in Requests, NEW b \in Entities, NEW a \in Entities,
         NEW kept \in Values \cup {NoValue}, MergeEntities(r, b, a, kept)
  PROVE  ReqSafe(r)'
<1> DEFINE S == SetToSeq(Incident(b))
           survivor == Consolidated(a, b, kept)
           parts == [i \in DOMAIN S |-> MergeStepCalls(S[i], Swapped(S[i], a, b))]
           steps == [i \in DOMAIN S |-> MergeStepRow(S[i], Swapped(S[i], a, b))]
           calls == <<Call("update_entity", a, survivor)>> \o FlattenSeq(parts)
                      \o <<Call("repoint_mentions", b, a), Call("delete_entity", b, NoImage)>>
           first == Row("merge_consolidate", a, Images(node[a]), Images(survivor))
           rows == <<first>> \o steps
                     \o <<Row("repoint_mentions", b, {}, NoImage), Row("delete_absorbed", b, node[b], NoImage)>>
           seed == <<"merge", b, a>>
<1>1. Begin(r, calls, seed, rows) /\ Exists(a) /\ a # b
  BY DEF MergeEntities
<1>3. Incident(b) \subseteq Triples /\ IsFiniteSet(Incident(b)) /\ \A t \in Incident(b) : HasEdge(t)
  <2>1. Incident(b) \subseteq Triples /\ \A t \in Incident(b) : HasEdge(t)
    BY DEF Incident
  <2> QED
    BY <2>1, FiniteStores, FS_Subset
<1>4. S \in Seq(Incident(b)) /\ Len(S) \in Nat /\ DOMAIN S = 1 .. Len(S)
  BY <1>3, SetToSeqIs
<1> HIDE DEF S
<1>5. ASSUME NEW i \in DOMAIN S
      PROVE  MergeStepCalls(S[i], Swapped(S[i], a, b)) \in Seq(Plain)
             /\ MergeStepRow(S[i], Swapped(S[i], a, b)) \in Modest
  <2>1. S[i] \in Triples /\ HasEdge(S[i])
    BY <1>3, <1>4
  <2>2. Swapped(S[i], a, b) \in Triples
    BY <2>1 DEF Swapped, Triples
  <2> QED
    BY <2>1, <2>2, MergeStepSafe DEF Sound
<1>6. parts \in Seq(Seq(Plain)) /\ steps \in Seq(Modest)
  BY <1>4, <1>5
<1> HIDE DEF parts, steps, survivor
<1>7. FlattenSeq(parts) \in Seq(Plain)
  BY <1>6, FlattenType
<1>8. SafeCalls(calls) /\ \A k \in 1 .. Len(calls) : calls[k].do # "relabel_entity_type"
  BY <1>1, <1>7, MergeCallsSafe
<1>9. SafeRows(rows, seed)
  <2> DEFINE m == Len(steps)
  <2>1. first.op = "merge_consolidate"
    BY DEF Row
  <2> HIDE DEF first
  <2>2. /\ m \in Nat /\ Len(rows) = m + 3 /\ DOMAIN rows = 1 .. Len(rows)
        /\ rows[1] = first /\ rows[m + 2] = Row("repoint_mentions", b, {}, NoImage)
        /\ rows[m + 3] = Row("delete_absorbed", b, node[b], NoImage)
        /\ \A k \in 2 .. m + 1 : rows[k] \in Modest
    BY <1>6, Sandwich
  <2> HIDE DEF m
  <2>3. /\ rows[m + 2].op = "repoint_mentions" /\ rows[m + 2].target = b
        /\ rows[m + 3].op = "delete_absorbed" /\ rows[m + 3].target = b
    BY <2>2 DEF Row
  <2>4. seed[1] = "merge" /\ seed[2] = b
    OBVIOUS
  <2> HIDE DEF rows, seed
  <2>5. SafeRow(rows[1], seed) /\ SafeRow(rows[m + 2], seed) /\ SafeRow(rows[m + 3], seed)
    BY <2>1, <2>2, <2>3, <2>4 DEF SafeRow, Takes
  <2>6. \A k \in 2 .. m + 1 : SafeRow(rows[k], seed)
    BY <2>2 DEF SafeRow, Modest
  <2>7. \A k \in DOMAIN rows : k = 1 \/ k \in 2 .. m + 1 \/ k = m + 2 \/ k = m + 3
    BY <2>2
  <2>8. rows # <<>> /\ Takes(rows[Len(rows)])
    <3>1. m + 3 # 0
      BY <2>2
    <3>2. rows # <<>>
      BY <2>2, <3>1
    <3> QED
      BY <2>2, <2>3, <3>2 DEF Takes
  <2> QED
    BY <2>5, <2>6, <2>7, <2>8 DEF SafeRows
<1> HIDE DEF calls, rows, seed
<1> QED
  BY <1>1, <1>8, <1>9, BeginSafe DEF Sound

(* Every operation begins safe.                                            *)
LEMMA OperationSafe ==
  ASSUME Sound, NEW r \in Requests, Operation(r)
  PROVE  ReqSafe(r)'
  BY EditEntitySafe, RelationSafe, RetargetSafe, RenameSafe, RelabelSafe, MergeSafe,
     DeleteSafe, TextSafe DEF Operation

-----------------------------------------------------------------------------
(* The inverse calls *)

(* What the inverse of a row may name, and what it may not do.             *)
LEMMA InverseNames ==
  ASSUME NEW row \in GoodRows, NEW k \in 1 .. Len(InverseOf(row))
  PROVE  LET c == InverseOf(row)[k]
         IN  /\ c.do \notin {"repoint_mentions", "relabel_entity_type"}
             /\ c.do = "delete_entity" => row.op = "create_entity_from_tag"
             /\ \A e : NamesEntity(c, e) =>
                  \/ row.op = "repoint_mentions" /\ e = row.target
                  \/ row.op = "delete_mentions" /\ \E x \in DOMAIN row.before : row.before[x].entity = e
<1>1. CASE row.op = "delete_relations"
  <2> DEFINE s == SetToSeq(DOMAIN row.before)
  <2>1. InverseOf(row) = [i \in DOMAIN s |-> Call("create_relation", s[i], row.before[s[i]])]
    BY <1>1 DEF InverseOf, PutBack
  <2>2. k \in DOMAIN InverseOf(row)
    BY InverseTyped
  <2> HIDE DEF s
  <2>3. InverseOf(row)[k] = Call("create_relation", s[k], row.before[s[k]])
    BY <2>1, <2>2
  <2> QED
    BY <2>3 DEF Call, NamesEntity
<1>2. CASE row.op = "delete_mentions"
  <2> DEFINE s == SetToSeq(DOMAIN row.before)
  <2>1. InverseOf(row) = [i \in DOMAIN s |-> Call("add_mention", s[i], row.before[s[i]])]
    BY <1>2 DEF InverseOf, PutBack
  <2>2. k \in DOMAIN InverseOf(row)
    BY InverseTyped
  <2>3. s[k] \in DOMAIN row.before
    <3>1. row.before \in Partial(MentionIds, Mention)
      BY <1>2, RowFacts DEF Snapshots
    <3>2. DOMAIN row.before \subseteq MentionIds
      BY <3>1 DEF Partial
    <3>3. IsFiniteSet(DOMAIN row.before)
      BY <3>2, FiniteStores, FS_Subset
    <3>4. s \in Seq(DOMAIN row.before)
      BY <3>3, SetToSeqIs
    <3> HIDE DEF s
    <3>5. k \in DOMAIN s
      BY <2>1, <2>2
    <3> QED
      BY <3>4, <3>5
  <2> HIDE DEF s
  <2>4. InverseOf(row)[k] = Call("add_mention", s[k], row.before[s[k]])
    BY <2>1, <2>2
  <2> QED
    BY <1>2, <2>3, <2>4 DEF Call, NamesEntity
<1>3. CASE row.op = "repoint_mentions"
  <2>1. InverseOf(row) = <<Call("reassign_mentions", row.before, row.target)>>
    BY <1>3 DEF InverseOf
  <2>2. InverseOf(row)[k] = Call("reassign_mentions", row.before, row.target)
    BY <2>1
  <2> QED
    BY <1>3, <2>2 DEF Call, NamesEntity
<1>4. CASE row.op = "create_entity_from_tag"
  <2>1. InverseOf(row) = <<Call("delete_entity", row.target, NoImage)>>
    BY <1>4 DEF InverseOf
  <2>2. InverseOf(row)[k] = Call("delete_entity", row.target, NoImage)
    BY <2>1
  <2> QED
    BY <1>4, <2>2 DEF Call, NamesEntity
<1>5. CASE row.op = "repoint_relation"
  <2>1. InverseOf(row) = <<Call("delete_relation", row.after, NoImage),
                           Call("create_relation", row.target, row.before)>>
    BY <1>5 DEF InverseOf
  <2>2. InverseOf(row)[k] \in {Call("delete_relation", row.after, NoImage),
                               Call("create_relation", row.target, row.before)}
    BY <2>1
  <2> QED
    BY <2>2 DEF Call, NamesEntity
<1>6. CASE row.op = "add_relation"
  <2>1. InverseOf(row) = IF row.after THEN <<>> ELSE <<Call("delete_relation", row.target, NoImage)>>
    BY <1>6 DEF InverseOf
  <2>2. InverseOf(row)[k] = Call("delete_relation", row.target, NoImage)
    BY <2>1
  <2> QED
    BY <2>2 DEF Call, NamesEntity
<1>7. CASE row.op \in {"delete_absorbed", "delete_entity", "edit_fields", "merge_consolidate", "fold_relation",
                       "discard_self_loop_relation", "remove_relation", "add_mention", "suppress_span",
                       "edit_mention_span"}
  <2>1. \E do, with :
          /\ do \in {"create_entity", "restore_fields", "create_relation", "delete_mention",
                    "delete_suppression", "update_mention_span"}
          /\ InverseOf(row) = <<Call(do, row.target, with)>>
    BY <1>7 DEF InverseOf
  <2>2. PICK do, with :
          /\ do \in {"create_entity", "restore_fields", "create_relation", "delete_mention",
                    "delete_suppression", "update_mention_span"}
          /\ InverseOf(row) = <<Call(do, row.target, with)>>
    BY <2>1
  <2>3. InverseOf(row)[k] = Call(do, row.target, with)
    BY <2>2
  <2> QED
    BY <2>2, <2>3 DEF Call, NamesEntity
<1> QED
  BY <1>1, <1>2, <1>3, <1>4, <1>5, <1>6, <1>7 DEF GoodRows

-----------------------------------------------------------------------------
(* Undo and the log *)

(* The operation that is undone is that of some live rows.                 *)
LEMMA LatestIsLive ==
  ASSUME LogTyped, Live # {}, clock \in Nat
  PROVE  \E l \in LatestRows : TRUE
<1> DEFINE ats == {clock - l.at : l \in Live}
<1>1. \A l \in Live : l \in log /\ l.at \in Nat /\ l.at <= clock
  BY DEF Live, LogTyped
<1>2. ats \subseteq Nat /\ ats # {}
  BY <1>1
<1>3. PICK m \in ats : \A k \in ats : m <= k
  <2> HIDE DEF ats
  <2> QED
    BY <1>2, LeastNat
<1>4. PICK l \in Live : m = clock - l.at
  BY <1>3
<1>5. ASSUME NEW k \in Live PROVE k.at <= l.at
  <2>1. clock - l.at <= clock - k.at
    BY <1>3, <1>4
  <2> QED
    BY <1>1, <2>1
<1>6. \E x \in Live : \A k \in Live : k.at <= x.at
  BY <1>5
<1>7. (CHOOSE x \in Live : \A k \in Live : k.at <= x.at) \in Live
  BY <1>6
<1> QED
  BY <1>7 DEF LatestRows, Latest

(* The calls of an undo but for that of a tag: what they name is there, or *)
(* is made first.                                                          *)
Undoing(op) ==
  {c \in GoodCalls :
    /\ c.do \notin {"repoint_mentions", "delete_entity", "relabel_entity_type"}
    /\ \A e : NamesEntity(c, e) => e = op[1][2] /\ op[1][1] \in {"merge", "delete"}}

(* Each row inverts to such calls.                                         *)
LEMMA InverseUndoing ==
  ASSUME NEW op, op[1][1] # "tagnew", NEW row \in GoodRows, SafeRow(row, op[1])
  PROVE  InverseOf(row) \in Seq(Undoing(op))
<1> DEFINE inv == InverseOf(row)
<1>1. inv \in Seq(GoodCalls)
  BY InverseTyped
<1>2. ASSUME NEW k \in 1 .. Len(inv) PROVE inv[k] \in Undoing(op)
  <2>1. PICK c \in GoodCalls : c = inv[k]
    BY <1>1
  <2>2. /\ c.do \notin {"repoint_mentions", "relabel_entity_type"}
        /\ c.do = "delete_entity" => row.op = "create_entity_from_tag"
        /\ \A e : NamesEntity(c, e) =>
             \/ row.op = "repoint_mentions" /\ e = row.target
             \/ row.op = "delete_mentions" /\ \E x \in DOMAIN row.before : row.before[x].entity = e
    BY <2>1, InverseNames
  <2>3. c.do # "delete_entity"
    BY <2>2 DEF SafeRow
  <2>4. ASSUME NEW e, NamesEntity(c, e) PROVE e = op[1][2] /\ op[1][1] \in {"merge", "delete"}
    <3>1. row.op \in {"repoint_mentions", "delete_mentions"}
      BY <2>2, <2>4
    <3>2. op[1][1] \in {"merge", "delete"} /\ row.target = op[1][2]
      BY <3>1 DEF SafeRow
    <3>3. e = row.target
      BY <2>2, <2>4 DEF SafeRow
    <3> QED
      BY <3>2, <3>3
  <2> QED
    BY <2>1, <2>2, <2>3, <2>4 DEF Undoing
<1> HIDE DEF inv
<1>3. inv \in Seq(Undoing(op))
  BY <1>1, <1>2
<1> QED
  BY <1>3 DEF inv

(* The whole inverse is safe: what a merge or a delete took is back first. *)
LEMMA PlanSafe ==
  ASSUME LogTyped, LogSafe, Live # {}, clock \in Nat, Latest[1][1] # "tagnew"
  PROVE  SafeCalls(InversePlan(LatestRows))
<1> DEFINE rows == LatestRows
           H == HighestFirst(rows)
           parts == [i \in DOMAIN H |-> InverseOf(H[i].row)]
           cs == FlattenSeq(parts)
<1>0. PICK op : op = Latest
  OBVIOUS
<1>1. rows # {} /\ rows \subseteq log /\ \A l \in rows : l.op = op /\ ~l.undone
  BY <1>0, LatestIsLive DEF LatestRows, Live
<1>2. \A l \in log : l.op = op => l \in rows
  <2> SUFFICES ASSUME NEW l \in log, l.op = op PROVE ~l.undone
    BY <1>0 DEF LatestRows, Live
  <2>1. PICK k \in rows : TRUE
    BY <1>1
  <2> QED
    BY <1>1, <2>1 DEF LogSafe
<1>3. OneOperation(rows)
  BY LatestTyped
<1>4. /\ Cardinality(rows) \in Nat /\ H \in [1 .. Cardinality(rows) -> rows] /\ H \in Seq(rows)
      /\ Len(H) = Cardinality(rows)
      /\ \A i, j \in 1 .. Cardinality(rows) : i < j => H[i].seq > H[j].seq
      /\ \A x \in rows : \E i \in 1 .. Cardinality(rows) : H[i] = x
  BY <1>3, HighestFirstIs DEF OneOperation
<1> HIDE DEF rows, H
<1>5. \A l \in rows : l.row \in GoodRows /\ SafeRow(l.row, op[1]) /\ l.seq \in Nat
  BY <1>1, <1>3 DEF LogSafe, OneOperation
<1>6. \A i \in DOMAIN H : InverseOf(H[i].row) \in Seq(Undoing(op))
  <2>1. op[1][1] # "tagnew"
    BY <1>0
  <2>2. \A l \in rows : InverseOf(l.row) \in Seq(Undoing(op))
    BY <1>5, <2>1, InverseUndoing
  <2> QED
    BY <1>4, <2>2
<1>7. parts \in Seq(Seq(Undoing(op)))
  <2>1. H \in Seq(rows)
    BY <1>4
  <2> QED
    BY <1>6, <2>1
<1>8. 1 \in 1 .. Len(H) /\ parts # <<>> /\ parts[1] = InverseOf(H[1].row)
  <2>1. Cardinality(rows) # 0
    BY <1>1, <1>4
  <2>2. 1 \in DOMAIN H
    BY <1>4, <2>1
  <2>3. Len(parts) = Len(H)
    BY <1>4
  <2> QED
    BY <1>4, <2>1, <2>2, <2>3
<1> HIDE DEF parts
<1>9. cs \in Seq(Undoing(op)) /\ (parts[1] # <<>> => cs # <<>> /\ cs[1] = parts[1][1])
  BY <1>7, <1>8, FlattenType
<1>10. ASSUME op[1][1] \in {"merge", "delete"}
       PROVE  cs # <<>> /\ cs[1].do = "create_entity" /\ cs[1].on = op[1][2]
  <2>1. PICK l \in rows : l = H[1]
    BY <1>4, <1>8
  <2>2. Takes(l.row)
    <3> SUFFICES ASSUME ~Takes(l.row) PROVE FALSE
      OBVIOUS
    <3>1. PICK m \in log : m.op = l.op /\ m.seq > l.seq
      BY <1>1, <1>10 DEF LogSafe
    <3>2. m \in rows
      BY <1>1, <1>2, <3>1
    <3>3. PICK i \in 1 .. Cardinality(rows) : H[i] = m
      BY <1>4, <3>2
    <3>4. i = 1 \/ 1 < i
      BY <1>4, <3>3
    <3>5. CASE i = 1
      BY <1>5, <2>1, <3>1, <3>2, <3>3, <3>5
    <3>6. CASE 1 < i
      <4>1. 1 \in 1 .. Cardinality(rows)
        BY <1>4, <1>8
      <4>2. l.seq > m.seq
        BY <1>4, <2>1, <3>3, <3>6, <4>1
      <4> QED
        BY <1>5, <3>1, <3>2, <4>2
    <3> QED
      BY <3>4, <3>5, <3>6
  <2>3. InverseOf(l.row) = <<Call("create_entity", l.row.target, l.row.before)>>
    BY <2>2 DEF InverseOf, Takes
  <2>4. l.row.target = op[1][2]
    BY <1>5, <2>2 DEF SafeRow
  <2>5. parts[1] = <<Call("create_entity", op[1][2], l.row.before)>>
    BY <1>8, <2>1, <2>3, <2>4
  <2>6. parts[1] # <<>> /\ parts[1][1] = Call("create_entity", op[1][2], l.row.before)
    BY <2>5
  <2> QED
    BY <1>9, <2>6 DEF Call
<1> HIDE DEF cs
<1>11. ASSUME NEW k \in 1 .. Len(cs) PROVE SafeCall(cs, k)
  <2>1. PICK c \in Undoing(op) : c = cs[k]
    BY <1>9
  <2>2. c.do \notin {"repoint_mentions", "delete_entity"}
    BY <2>1 DEF Undoing
  <2>3. ASSUME NEW e, NamesEntity(cs[k], e) PROVE k # 1 /\ cs[1].do = "create_entity" /\ cs[1].on = e
    <3>1. e = op[1][2] /\ op[1][1] \in {"merge", "delete"}
      BY <2>1, <2>3 DEF Undoing
    <3>2. cs[1].do = "create_entity" /\ cs[1].on = e
      BY <1>10, <3>1
    <3> QED
      BY <2>3, <3>2 DEF NamesEntity
  <2> QED
    BY <2>1, <2>2, <2>3 DEF SafeCall
<1>12. SafeCalls(cs)
  BY <1>11 DEF SafeCalls
<1> QED
  BY <1>12 DEF cs, parts, H, rows, InversePlan

(* The whole of an undo begins safe.                                       *)
LEMMA UndoSafe ==
  ASSUME ReqShape, LogTyped, LogSafe, clock \in Nat, NEW r \in Requests, UndoLast(r)
  PROVE  ReqSafe(r)'
<1> DEFINE q == [kind |-> "undo", calls |-> InversePlan(LatestRows), op |-> Latest]
<1>0. PICK cs, op : cs = InversePlan(LatestRows) /\ op = Latest
  OBVIOUS
<1>1. req'[r] = [kind |-> "undo", calls |-> cs, op |-> op] /\ node' = node /\ mention' = mention
  BY <1>0 DEF UndoLast, ReqShape
<1>2. Live # {}
  BY DEF UndoLast
<1>3. req'[r].kind = "undo" /\ req'[r].calls = cs /\ req'[r].op = op
  BY <1>1
<1>4. op[1][1] # "tagnew" => SafeCalls(cs)
  BY <1>0, <1>2, PlanSafe
<1>5. SafeCalls(cs) => SafeCalls(cs)'
  BY <1>1 DEF SafeCalls, SafeCall, Exists, MentionsOf
<1>6. op[1][1] # "tagnew" => SafeCalls(req[r].calls)'
  BY <1>1, <1>3, <1>4, <1>5 DEF SafeCalls, SafeCall, Exists, MentionsOf
<1> QED
  BY <1>3, <1>6 DEF ReqSafe, TakesBackTag

(* The request is stamped.                                                 *)
LEMMA StampSafe ==
  ASSUME ReqShape, NEW r \in Requests, ReqSafe(r), Stamp(r)
  PROVE  ReqSafe(r)'
<1> DEFINE op == StampedOp(r)
           n == [req[r] EXCEPT !.op = op]
           m == [n EXCEPT !.at = clock + 1]
           k == [req[r] EXCEPT !.op = op, !.at = clock + 1]
<1>0. k = m
  OBVIOUS
<1>1. req[r].kind = "edit" /\ req[r].calls = <<>> /\ req' = [req EXCEPT ![r] = k] /\ UNCHANGED <<node, mention>>
  BY DEF Stamp, StampedOp
<1>2. req'[r] = k
  BY <1>1 DEF ReqShape
<1>3. IsEdit(req[r])
  BY <1>1 DEF ReqShape, Idle, IsUndo
<1>4. PICK calls, seed, rows, op0, at, before : req[r] = Edit(calls, seed, rows, op0, at, before)
  BY <1>3 DEF IsEdit
<1>5. PICK o : o = op
  OBVIOUS
<1> HIDE DEF op
<1>6. n = Edit(calls, seed, rows, o, at, before)
  BY <1>4, <1>5 DEF Edit
<1>7. [Edit(calls, seed, rows, o, at, before) EXCEPT !.at = clock + 1]
        = Edit(calls, seed, rows, o, clock + 1, before)
  BY DEF Edit
<1>8. req'[r] = Edit(calls, seed, rows, o, clock + 1, before)
  BY <1>0, <1>2, <1>6, <1>7
<1>9. /\ req'[r].kind = "edit" /\ req'[r].calls = <<>> /\ req'[r].rows = rows
      /\ req'[r].seed = seed /\ req'[r].op = o /\ req[r].seed = seed /\ req[r].rows = rows
  <2>1. /\ req'[r].kind = "edit" /\ req'[r].calls = calls /\ req'[r].rows = rows
        /\ req'[r].seed = seed /\ req'[r].op = o
    BY <1>8 DEF Edit
  <2>2. req[r].calls = calls /\ req[r].seed = seed /\ req[r].rows = rows
    BY <1>4 DEF Edit
  <2> QED
    BY <1>1, <2>1, <2>2
<1>10. SafeRows(rows, seed)
  BY <1>1, <1>9 DEF ReqSafe
<1>11. OfSeed(o, seed)
  <2>1. o = IF seed = Single THEN <<<<"single", clock>>, 0>> ELSE <<seed, NextGeneration(seed)>>
    BY <1>5, <1>9 DEF op, StampedOp
  <2> QED
    BY <2>1 DEF OfSeed
<1>12. SafeCalls(req[r].calls)'
  BY <1>9, NothingSafe
<1>13. \A j \in 1 .. Len(req'[r].calls) : FALSE
  BY <1>9
<1> QED
  BY <1>9, <1>10, <1>11, <1>12, <1>13 DEF ReqSafe, SafeRows, SafeRow

(* The id of an operation tells as much as its seed.                       *)
LEMMA SeedRows ==
  ASSUME NEW rows, NEW op, NEW seed, SafeRows(rows, seed), OfSeed(op, seed)
  PROVE  SafeRows(rows, op[1])
<1>1. CASE op[1] = seed
  BY <1>1
<1>2. CASE seed = Single /\ op[1][1] = "single"
  BY <1>2 DEF SafeRows, SafeRow, Single
<1> QED
  BY <1>1, <1>2 DEF OfSeed

(* What is logged is safe, and not split by a mark.                        *)
LEMMA RecordSafe ==
  ASSUME ReqTyped, LogTyped, LogSafe, PendingIsFresh, NEW r \in Requests, ReqSafe(r), Record(r)
  PROVE  LogSafe'
<1>1. PICK rows, op, at :
        /\ rows \in Seq(GoodRows)
        /\ rows = req[r].rows /\ op = req[r].op /\ at = req[r].at
  BY DEF ReqTyped, GoodReq, Record
<1> DEFINE Made(i) == [op |-> op, seq |-> i, at |-> at, undone |-> FALSE, row |-> rows[i]]
<1>2. /\ log \subseteq log'
      /\ \A l \in log' : l \in log \/ \E i \in DOMAIN rows : l = Made(i)
      /\ \A i \in DOMAIN rows : Made(i) \in log' \/ \E l \in log : l.op = op /\ l.seq = i
  BY <1>1 DEF Record, NewRows, RowsOf
<1>3. SafeRows(rows, op[1])
  BY <1>1, SeedRows DEF ReqSafe, Record
<1>4. \A l \in log : l.op = op => l.undone = FALSE
  <2>1. \A l \in log : l.op = op => ~l.undone
    BY <1>1 DEF PendingIsFresh, Record
  <2>2. \A l, m \in log : l.op = m.op => l.undone = m.undone
    BY DEF LogSafe
  <2> QED
    BY <2>1
<1>5. \A i \in DOMAIN rows :
        /\ Made(i).op = op /\ Made(i).seq = i /\ Made(i).undone = FALSE /\ Made(i).row = rows[i]
  OBVIOUS
<1> HIDE DEF Made
<1>6. \A l \in log' : SafeRow(l.row, l.op[1])
  <2>1. \A l \in log : SafeRow(l.row, l.op[1])
    BY DEF LogSafe
  <2>2. \A i \in DOMAIN rows : SafeRow(Made(i).row, Made(i).op[1])
    BY <1>3, <1>5 DEF SafeRows
  <2> QED
    BY <1>2, <2>1, <2>2
<1>7. ASSUME NEW l \in log', l.op[1][1] \in {"merge", "delete"}
      PROVE  Takes(l.row) \/ \E m \in log' : m.op = l.op /\ m.seq > l.seq
  <2>1. CASE l \in log
    BY <1>2, <1>7, <2>1 DEF LogSafe
  <2>2. ASSUME NEW i \in DOMAIN rows, l = Made(i) PROVE Takes(l.row) \/ \E m \in log' : m.op = l.op /\ m.seq > l.seq
    <3>1. rows # <<>> /\ Takes(rows[Len(rows)])
      BY <1>3, <1>5, <1>7, <2>2 DEF SafeRows
    <3>2. CASE i = Len(rows)
      BY <1>5, <2>2, <3>1, <3>2
    <3>3. CASE i # Len(rows)
      <4>1. Len(rows) \in DOMAIN rows /\ Len(rows) > i
        BY <3>1, <3>3
      <4>2. Made(Len(rows)) \in log' \/ \E m \in log : m.op = op /\ m.seq = Len(rows)
        BY <1>2, <4>1
      <4>3. \E m \in log' : m.op = op /\ m.seq = Len(rows)
        BY <1>2, <1>5, <4>1, <4>2
      <4> QED
        BY <1>5, <2>2, <4>1, <4>3
    <3> QED
      BY <3>2, <3>3
  <2> QED
    BY <1>2, <2>1, <2>2
<1>8. ASSUME NEW l \in log', NEW m \in log', l.op = m.op PROVE l.undone = m.undone
  <2>1. \A x \in log' : x \in log \/ (x.op = op /\ x.undone = FALSE)
    BY <1>2, <1>5
  <2>2. \A x, y \in log : x.op = y.op => x.undone = y.undone
    BY DEF LogSafe
  <2> QED
    BY <1>4, <1>8, <2>1, <2>2
<1> QED
  BY <1>6, <1>7, <1>8 DEF LogSafe

(* A mark falls on all rows of an operation.                               *)
LEMMA MarkSafe ==
  ASSUME LogShape, LogSafe, NEW r \in Requests, MarkUndone(r)
  PROVE  LogSafe'
<1> DEFINE Marked(l) == [l EXCEPT !.undone = @ \/ l.op = req[r].op]
<1>1. log' = {Marked(l) : l \in log}
  BY DEF MarkUndone
<1>2. \A l \in log : /\ Marked(l).op = l.op /\ Marked(l).seq = l.seq /\ Marked(l).row = l.row
                     /\ Marked(l).undone = (l.undone \/ l.op = req[r].op)
  BY MarkKeepsRow DEF LogShape
<1> HIDE DEF Marked
<1>3. \A l \in log' : SafeRow(l.row, l.op[1])
  BY <1>1, <1>2 DEF LogSafe
<1>4. ASSUME NEW l \in log', l.op[1][1] \in {"merge", "delete"}
      PROVE  Takes(l.row) \/ \E m \in log' : m.op = l.op /\ m.seq > l.seq
  <2>1. PICK k \in log : l = Marked(k)
    BY <1>1
  <2>2. k.op[1][1] \in {"merge", "delete"}
    BY <1>2, <1>4, <2>1
  <2>3. CASE Takes(k.row)
    BY <1>2, <2>1, <2>3
  <2>4. CASE \E n \in log : n.op = k.op /\ n.seq > k.seq
    <3>1. PICK n \in log : n.op = k.op /\ n.seq > k.seq
      BY <2>4
    <3>2. Marked(n) \in log' /\ Marked(n).op = l.op /\ Marked(n).seq > l.seq
      BY <1>1, <1>2, <2>1, <3>1
    <3> QED
      BY <3>2
  <2> QED
    BY <2>2, <2>3, <2>4 DEF LogSafe
<1>5. ASSUME NEW l \in log', NEW m \in log', l.op = m.op PROVE l.undone = m.undone
  <2>1. PICK k, n \in log : l = Marked(k) /\ m = Marked(n)
    BY <1>1
  <2>2. k.op = n.op
    BY <1>2, <1>5, <2>1
  <2>3. k.undone = n.undone
    BY <2>2 DEF LogSafe
  <2> QED
    BY <1>2, <2>1, <2>2, <2>3
<1> QED
  BY <1>3, <1>4, <1>5 DEF LogSafe

-----------------------------------------------------------------------------
(* Whoever is alone: what it does next is safe, and so is what it logged.  *)
Alone(r) == Inv /\ TypeInv /\ PendingIsFresh /\ ReqSafe(r) /\ LogSafe

(* The whole invariant.                                                    *)
LEMMA SafeInit ==
  ASSUME NEW slot, Requests = {slot}, Init
  PROVE  ReqSafe(slot) /\ LogSafe
<1>1. req[slot] = Idle /\ log = {}
  BY DEF Init
<1> QED
  BY <1>1 DEF ReqSafe, LogSafe, Idle

LEMMA SafeStep ==
  ASSUME NEW slot, Requests = {slot}, Alone(slot), [Next]_vars
  PROVE  ReqSafe(slot)' /\ LogSafe'
<1>0. /\ clock \in Nat /\ ReqShape /\ LogShape /\ GraphTyped /\ LogTyped /\ ReqTyped /\ Sound
      /\ ReqSafe(slot) /\ LogSafe /\ PendingIsFresh
  BY DEF Alone, Inv, IdsOK, TypeInv, Sound
<1>1. CASE UNCHANGED vars
  <2>1. UNCHANGED <<node, mention, req, log>>
    BY <1>1 DEF vars
  <2> QED
    BY <1>0, <2>1 DEF ReqSafe, LogSafe, SafeCalls, SafeCall, Exists, MentionsOf, TakesBackTag
<1>2. log' = log => LogSafe'
  BY <1>0 DEF LogSafe
<1>3. CASE Operation(slot)
  <2>1. log' = log
    BY <1>0, <1>3, OperationBegins DEF Begins
  <2> QED
    BY <1>0, <1>2, <1>3, <2>1, OperationSafe
<1>4. CASE StoreCall(slot)
  <2>1. log' = log
    BY <1>0, <1>4, StoreCallKeeps
  <2> QED
    BY <1>0, <1>2, <1>4, <2>1, CallSafe
<1>5. CASE Stamp(slot)
  <2>1. log' = log
    BY <1>5 DEF Stamp
  <2> QED
    BY <1>0, <1>2, <1>5, <2>1, StampSafe
<1>6. CASE Record(slot)
  <2>1. req' = [req EXCEPT ![slot] = Idle]
    BY <1>6 DEF Record
  <2> QED
    BY <1>0, <1>6, <2>1, RecordSafe, IdleSafe
<1>7. CASE UndoLast(slot)
  <2>1. log' = log
    BY <1>7 DEF UndoLast
  <2> QED
    BY <1>0, <1>2, <1>7, <2>1, UndoSafe
<1>8. CASE MarkUndone(slot)
  <2>1. req' = [req EXCEPT ![slot] = Idle]
    BY <1>8 DEF MarkUndone
  <2> QED
    BY <1>0, <1>8, <2>1, MarkSafe, IdleSafe
<1>9. CASE Fail(slot)
  <2>1. req' = [req EXCEPT ![slot] = Idle] /\ log' = log
    BY <1>9 DEF Fail
  <2> QED
    BY <1>0, <1>2, <2>1, IdleSafe
<1> QED
  BY <1>1, <1>3, <1>4, <1>5, <1>6, <1>7, <1>8, <1>9 DEF Next

(* The graph is untouched until the first call.                            *)
LEMMA OperationTouches ==
  ASSUME NEW r \in Requests, Operation(r)
  PROVE  UNCHANGED <<node, edge, mention, hidden>>
BY OperationOnlyAsks

(* So a mention that comes to dangle is the doing of such an undo.         *)
LEMMA NothingDanglesStep ==
  ASSUME NEW slot, Requests = {slot}, Alone(slot), Next, NEW i \in MentionIds, Dangling(i)'
  PROVE  Dangling(i) \/ \E r \in Requests : TakesBackTag(r)
<1>0. GraphTyped /\ ReqTyped /\ ReqShape /\ ReqSafe(slot)
  BY DEF Alone, Inv, TypeInv
<1>1. CASE StoreCall(slot) /\ ~TakesBackTag(slot)
  <2>1. req[slot] # Idle /\ req[slot].calls # <<>>
    BY <1>1 DEF StoreCall, CreateEntity, UpdateEntity, RestoreFields, DeleteNode, RelabelType,
         CreateRelation, DeleteRelation, AddMention, DeleteMention, UpdateMentionSpan,
         DeleteMentionsOf, ReassignMentions, RepointMentions, AddSuppression,
         DeleteSuppression, Calls
  <2>2. SafeCalls(req[slot].calls)
    <3>1. req[slot].kind \in {"edit", "undo"}
      BY <1>0, <2>1 DEF ReqShape, IsEdit, IsUndo, Edit
    <3> QED
      BY <1>0, <1>1, <3>1 DEF ReqSafe
  <2>3. Spares(Head(req[slot].calls))
    BY <1>0, <1>1, <2>2, CallSpares
  <2> QED
    BY <2>3, SMTT(30) DEF Spares
<1>2. CASE ~StoreCall(slot)
  <2>1. UNCHANGED <<node, mention>>
    <3>1. Operation(slot) => UNCHANGED <<node, mention>>
      BY OperationTouches
    <3> QED
      BY <1>2, <3>1 DEF Next, Stamp, Record, UndoLast, MarkUndone, Fail
  <2> QED
    BY <2>1 DEF Dangling, Exists
<1> QED
  BY <1>1, <1>2

(* One request at a time: whatever dies half way, no mention comes to name *)
(* an entity that is not there, but by the undo of a tag.                  *)
THEOREM NothingDangles ==
  ASSUME NEW slot, Requests = {slot} PROVE Spec => NoDanglingMention
<1>1. ConstantsAssumption
  BY ConstantsAssumption
<1>2. Init => Alone(slot)
  BY <1>1, InvInit, TypedInit, SafeInit DEF Alone
<1>3. Alone(slot) /\ [Next]_vars => Alone(slot)'
  BY InvStep, TypedStep, FreshStep, SafeStep DEF Alone
<1>4. Alone(slot) /\ [Next]_vars
        => [\A i \in MentionIds :
              Dangling(i)' => Dangling(i) \/ \E r \in Requests : TakesBackTag(r)]_vars
  BY NothingDanglesStep
<1> QED
  BY <1>2, <1>3, <1>4, PTL DEF Spec, NoDanglingMention

-----------------------------------------------------------------------------
(* Re-keying edges *)

(* The calls that re-key an edge, as its row tells it.                     *)
Makes(c, row) ==
  /\ c.do = "create_relation" /\ c.on = row.after
  /\ row.before # Legacy => c.with = row.before
Drops(c, row) == c.do = "delete_relation" /\ c.on = row.target

Landed(row) ==
  /\ HasEdge(row.after)
  /\ row.op = "repoint_relation" /\ row.before # Legacy => edge[row.after] = row.before
Leaving(cs, row) ==
  /\ edge[row.target] = row.before
  /\ row.op = "repoint_relation" => ~HasEdge(row.after)
  /\ \A k \in 1 .. Len(cs) : Drops(cs[k], row) => \E j \in 1 .. k - 1 : Makes(cs[j], row)

(* Rows that re-key different edges onto different ones.                   *)
RekeyRows(rows) ==
  /\ \A i \in DOMAIN rows :
       /\ rows[i].target \in Triples /\ rows[i].after \in Triples
       /\ Exists(rows[i].after[1]) /\ Exists(rows[i].after[3])
  /\ \A i, j \in DOMAIN rows :
       /\ rows[i].after # rows[j].target
       /\ rows[i].after = rows[j].after \/ rows[i].target = rows[j].target => i = j

RekeyPlan(cs, rows) ==
  /\ RekeyRows(rows)
  /\ \A k \in 1 .. Len(cs) : \E i \in DOMAIN rows : Makes(cs[k], rows[i]) \/ Drops(cs[k], rows[i])
  /\ \A i \in DOMAIN rows : Landed(rows[i]) \/ Leaving(cs, rows[i])

RekeySound(r) == IsRekey(r) => RekeyPlan(req[r].calls, req[r].rows)

(* A call of the plan keeps it: an edge goes when its new one is there.    *)
LEMMA PlanShrinks ==
  ASSUME GraphTyped, NEW cs \in Seq(GoodCalls), cs # <<>>, NEW rows, RekeyPlan(cs, rows),
         NEW c, c = cs[1], node' = node,
         c.do = "create_relation" =>
           edge' = IF Exists(c.on[1]) /\ Exists(c.on[3]) /\ ~HasEdge(c.on)
                     THEN [edge EXCEPT ![c.on] = c.with] ELSE edge,
         c.do = "delete_relation" => edge' = [edge EXCEPT ![c.on] = NoEdge]
  PROVE  RekeyPlan(Tail(cs), rows)'
<1>0. PICK ts : ts = Tail(cs)
  OBVIOUS
<1>1. /\ ts \in Seq(GoodCalls) /\ Len(cs) \in Nat /\ Len(cs) # 0 /\ Len(ts) = Len(cs) - 1
      /\ \A k \in 1 .. Len(ts) : ts[k] = cs[k + 1]
  BY <1>0
<1>2. c \in GoodCalls /\ NoEdge \notin Handles
  BY ConstantsAssumption DEF ConstantsAssumption
<1>3. RekeyRows(rows)
  BY DEF RekeyPlan
<1>4. RekeyRows(rows)'
  BY <1>3 DEF RekeyRows, Exists
<1>5. \A k \in 1 .. Len(ts) : \E i \in DOMAIN rows : Makes(ts[k], rows[i]) \/ Drops(ts[k], rows[i])
  <2>1. \A k \in 1 .. Len(ts) : k + 1 \in 1 .. Len(cs)
    BY <1>1
  <2> QED
    BY <1>1, <2>1 DEF RekeyPlan
<1>6. PICK h \in DOMAIN rows : Makes(c, rows[h]) \/ Drops(c, rows[h])
  <2>1. 1 \in 1 .. Len(cs)
    BY <1>1
  <2> QED
    BY <2>1 DEF RekeyPlan
<1>7. /\ rows[h].target \in Triples /\ rows[h].after \in Triples
      /\ Exists(rows[h].after[1]) /\ Exists(rows[h].after[3])
  BY <1>3 DEF RekeyRows
<1>8. ASSUME NEW i \in DOMAIN rows, edge[rows[i].target] = rows[i].before,
             rows[i].op = "repoint_relation" => ~HasEdge(rows[i].after), Leaving(cs, rows[i]),
             ~Makes(c, rows[i])
      PROVE  \A k \in 1 .. Len(ts) : Drops(ts[k], rows[i]) => \E j \in 1 .. k - 1 : Makes(ts[j], rows[i])
  <2> SUFFICES ASSUME NEW k \in 1 .. Len(ts), Drops(ts[k], rows[i]) PROVE \E j \in 1 .. k - 1 : Makes(ts[j], rows[i])
    OBVIOUS
  <2>1. k + 1 \in 1 .. Len(cs) /\ cs[k + 1] = ts[k]
    BY <1>1
  <2>2. PICK j \in 1 .. (k + 1) - 1 : Makes(cs[j], rows[i])
    BY <1>8, <2>1 DEF Leaving
  <2>3. j # 1
    BY <1>8, <2>2
  <2>4. j - 1 \in 1 .. k - 1 /\ j - 1 \in 1 .. Len(ts) /\ (j - 1) + 1 = j
    BY <1>1, <2>1, <2>3
  <2>5. ts[j - 1] = cs[j]
    BY <1>1, <2>4
  <2> QED
    BY <2>2, <2>4, <2>5
<1>9. ASSUME NEW i \in DOMAIN rows PROVE Landed(rows[i])' \/ Leaving(ts, rows[i])'
  <2>0. /\ rows[i].target \in Triples /\ rows[i].after \in Triples
        /\ rows[i].after # rows[h].target /\ rows[h].after # rows[i].target
        /\ rows[i].after = rows[h].after \/ rows[i].target = rows[h].target => i = h
    BY <1>3 DEF RekeyRows
  <2>1. CASE Makes(c, rows[h])
    <3>1. c.do = "create_relation" /\ c.on = rows[h].after /\ c.with \in Handles
      BY <1>2, <2>1, CallFacts DEF Makes
    <3>2. edge' = IF HasEdge(c.on) THEN edge ELSE [edge EXCEPT ![c.on] = c.with]
      BY <1>7, <3>1
    <3>3. \A t \in Triples : t # c.on \/ HasEdge(t) => edge'[t] = edge[t]
      BY <3>1, <3>2 DEF GraphTyped
    <3>4. CASE Landed(rows[i])
      BY <2>0, <3>3, <3>4 DEF Landed, HasEdge
    <3>5. CASE ~Landed(rows[i]) /\ i = h
      <4>1. CASE HasEdge(c.on)
        <5>1. rows[i].op # "repoint_relation"
          BY <3>1, <3>5, <4>1 DEF RekeyPlan, Leaving
        <5> QED
          BY <3>1, <3>5, <4>1, <5>1 DEF Landed
      <4>2. CASE ~HasEdge(c.on)
        <5>1. edge'[c.on] = c.with /\ c.with # NoEdge
          BY <1>2, <1>7, <3>1, <3>2, <4>2 DEF GraphTyped
        <5>2. rows[i].before # Legacy => c.with = rows[i].before
          BY <2>1, <3>5 DEF Makes
        <5> QED
          BY <3>1, <3>5, <5>1, <5>2 DEF Landed, HasEdge
      <4> QED
        BY <4>1, <4>2
    <3>6. CASE ~Landed(rows[i]) /\ i # h
      <4>1. Leaving(cs, rows[i])
        BY <3>6 DEF RekeyPlan
      <4>2. ~Makes(c, rows[i])
        BY <2>0, <3>1, <3>6 DEF Makes
      <4>3. \A k \in 1 .. Len(ts) : Drops(ts[k], rows[i]) => \E j \in 1 .. k - 1 : Makes(ts[j], rows[i])
        BY <1>8, <4>1, <4>2 DEF Leaving
      <4>4. edge'[rows[i].target] = edge[rows[i].target] /\ edge'[rows[i].after] = edge[rows[i].after]
        BY <2>0, <3>1, <3>3, <3>6
      <4> QED
        BY <4>1, <4>3, <4>4 DEF Leaving, HasEdge
    <3> QED
      BY <3>4, <3>5, <3>6
  <2>2. CASE Drops(c, rows[h])
    <3>1. c.do = "delete_relation" /\ c.on = rows[h].target
      BY <2>2 DEF Drops
    <3>2. \A t \in Triples : t # c.on => edge'[t] = edge[t]
      BY <1>7, <3>1 DEF GraphTyped
    <3>3. edge'[rows[i].after] = edge[rows[i].after]
      BY <2>0, <3>1, <3>2
    <3>4. CASE Landed(rows[i])
      BY <3>3, <3>4 DEF Landed, HasEdge
    <3>5. CASE ~Landed(rows[i])
      <4>1. Leaving(cs, rows[i])
        BY <3>5 DEF RekeyPlan
      <4>2. i # h
        <5> SUFFICES ASSUME i = h PROVE FALSE
          OBVIOUS
        <5>1. 1 \in 1 .. Len(cs) /\ Drops(cs[1], rows[i])
          BY <1>1, <2>2
        <5>2. PICK j \in 1 .. 1 - 1 : Makes(cs[j], rows[i])
          BY <4>1, <5>1 DEF Leaving
        <5> QED
          BY <5>2
      <4>3. ~Makes(c, rows[i])
        BY <3>1 DEF Makes
      <4>4. \A k \in 1 .. Len(ts) : Drops(ts[k], rows[i]) => \E j \in 1 .. k - 1 : Makes(ts[j], rows[i])
        BY <1>8, <4>1, <4>3 DEF Leaving
      <4>5. edge'[rows[i].target] = edge[rows[i].target]
        BY <2>0, <3>1, <3>2, <4>2
      <4> QED
        BY <3>3, <4>1, <4>4, <4>5 DEF Leaving, HasEdge
    <3> QED
      BY <3>4, <3>5
  <2> QED
    BY <1>6, <2>1, <2>2
<1>10. RekeyPlan(ts, rows)'
  BY <1>4, <1>5, <1>9 DEF RekeyPlan, Makes, Drops
<1> QED
  BY <1>0, <1>10

(* A sequence of pairs in one: each element is a first one, or a second    *)
(* one right behind its first.                                             *)
InPairs(s, A, n, x, y) ==
  /\ s \in Seq(A)
  /\ \A k \in 1 .. Len(s) :
       \E i \in 1 .. n : s[k] = x[i] \/ (s[k] = y[i] /\ k - 1 \in 1 .. Len(s) /\ s[k - 1] = x[i])

LEMMA FlattenPairs ==
  ASSUME NEW n \in Nat \ {0}, NEW A, NEW x \in [1 .. n -> A], NEW y \in [1 .. n -> A],
         NEW parts, Len(parts) = n, \A i \in 1 .. n : parts[i] = <<x[i], y[i]>>,
         NEW all, all = FlattenSeq(parts)
  PROVE  InPairs(all, A, n, x, y)
<1> DEFINE Paired(s) ==
             /\ s \in Seq(A)
             /\ \A k \in 1 .. Len(s) :
                  \E i \in 1 .. n : s[k] = x[i] \/ (s[k] = y[i] /\ k - 1 \in 1 .. Len(s) /\ s[k - 1] = x[i])
<1>2. PICK f : Flattens(parts, f, n) /\ FlattenSeq(parts) = f[n]
  BY FlattenIs
<1>3. ASSUME NEW i \in 1 .. n PROVE Paired(<<x[i], y[i]>>)
  <2>1. \A k \in 1 .. 2 : k = 1 \/ k = 2
    OBVIOUS
  <2> QED
    BY <2>1
<1>4. ASSUME NEW s, NEW t, Paired(s), Paired(t) PROVE Paired(s \o t)
  <2>1. s \o t \in Seq(A) /\ Len(s \o t) = Len(s) + Len(t) /\ Len(s) \in Nat /\ Len(t) \in Nat
    BY <1>4
  <2>2. /\ \A k \in 1 .. Len(s) : (s \o t)[k] = s[k]
        /\ \A k \in 1 .. Len(t) : (s \o t)[Len(s) + k] = t[k]
    BY <1>4
  <2>3. ASSUME NEW k \in 1 .. Len(s \o t)
        PROVE  \E i \in 1 .. n : \/ (s \o t)[k] = x[i]
                                 \/ ((s \o t)[k] = y[i] /\ k - 1 \in 1 .. Len(s \o t) /\ (s \o t)[k - 1] = x[i])
    <3>1. CASE k <= Len(s)
      <4>1. k \in 1 .. Len(s)
        BY <2>1, <3>1
      <4>2. PICK i \in 1 .. n : s[k] = x[i] \/ (s[k] = y[i] /\ k - 1 \in 1 .. Len(s) /\ s[k - 1] = x[i])
        BY <1>4, <4>1
      <4>3. (s \o t)[k] = s[k]
        BY <2>2, <4>1
      <4>4. k - 1 \in 1 .. Len(s) => k - 1 \in 1 .. Len(s \o t) /\ (s \o t)[k - 1] = s[k - 1]
        BY <2>1, <2>2
      <4> QED
        BY <4>2, <4>3, <4>4
    <3>2. CASE k > Len(s)
      <4>1. PICK m \in 1 .. Len(t) : k = Len(s) + m
        <5>1. k - Len(s) \in 1 .. Len(t) /\ k = Len(s) + (k - Len(s))
          BY <2>1, <3>2
        <5> QED
          BY <5>1
      <4>2. PICK i \in 1 .. n : t[m] = x[i] \/ (t[m] = y[i] /\ m - 1 \in 1 .. Len(t) /\ t[m - 1] = x[i])
        BY <1>4, <4>1
      <4>3. (s \o t)[k] = t[m]
        BY <2>2, <4>1
      <4>4. ASSUME m - 1 \in 1 .. Len(t) PROVE k - 1 \in 1 .. Len(s \o t) /\ (s \o t)[k - 1] = t[m - 1]
        <5>1. k - 1 = Len(s) + (m - 1)
          BY <2>1, <4>1
        <5> QED
          BY <2>1, <2>2, <4>4, <5>1
      <4> QED
        BY <4>2, <4>3, <4>4
    <3>3. k <= Len(s) \/ k > Len(s)
      BY <2>1
    <3> QED
      BY <3>1, <3>2, <3>3
  <2> QED
    BY <2>1, <2>3
<1>5. ASSUME NEW i \in 1 .. n
      PROVE  f[i] = IF i = 1 THEN <<x[i], y[i]>> ELSE f[i - 1] \o <<x[i], y[i]>>
  <2>1. f = [j \in 1 .. n |-> IF j = 1 THEN parts[j] ELSE f[j - 1] \o parts[j]]
    BY <1>2 DEF Flattens
  <2>2. f[i] = IF i = 1 THEN parts[i] ELSE f[i - 1] \o parts[i]
    BY <2>1
  <2>3. parts[i] = <<x[i], y[i]>>
    OBVIOUS
  <2> QED
    BY <2>2, <2>3
<1> HIDE DEF Paired
<1> DEFINE Bad == {k \in 1 .. n : ~Paired(f[k])}
<1>6. Bad = {}
  <2> SUFFICES ASSUME Bad # {} PROVE FALSE
    OBVIOUS
  <2>1. Bad \subseteq Nat
    OBVIOUS
  <2>2. PICK m \in Bad : \A k \in Bad : m <= k
    <3> HIDE DEF Bad
    <3> QED
      BY <2>1, LeastNat
  <2>3. m \in 1 .. n /\ ~Paired(f[m])
    BY <2>2
  <2>4. CASE m = 1
    BY <1>3, <1>5, <2>3, <2>4
  <2>5. CASE m # 1
    <3>1. m - 1 \in 1 .. n /\ m - 1 < m
      BY <2>3, <2>5
    <3>2. Paired(f[m - 1])
      BY <2>2, <3>1
    <3>3. Paired(f[m - 1] \o <<x[m], y[m]>>)
      BY <1>3, <1>4, <2>3, <3>2
    <3> QED
      BY <1>5, <2>3, <2>5, <3>3
  <2> QED
    BY <2>4, <2>5
<1>7. Paired(f[n])
  BY <1>6
<1>8. Paired(all)
  BY <1>2, <1>7
<1> QED
  BY <1>8 DEF Paired, InPairs

(* An operation that is no re-key has nothing to show.                     *)
LEMMA BeginPlans ==
  ASSUME ReqShape, NEW r \in Requests, NEW calls, NEW seed, NEW rows, Begin(r, calls, seed, rows),
         seed[1] \in {"retarget", "rename"} => RekeyPlan(calls, rows)
  PROVE  RekeySound(r)'
<1>1. req'[r] = Edit(calls, seed, rows, NoOp, 0, Graph) /\ UNCHANGED <<node, edge>>
  BY DEF Begin, Edit, ReqShape
<1>2. req'[r].calls = calls /\ req'[r].seed = seed /\ req'[r].rows = rows
  BY <1>1 DEF Edit
<1>3. RekeyPlan(calls, rows) => RekeyPlan(calls, rows)'
  BY <1>1 DEF RekeyPlan, RekeyRows, Landed, Leaving, HasEdge, Exists, Makes, Drops
<1>4. IsRekey(r)' => RekeyPlan(calls, rows)'
  BY <1>2, <1>3 DEF IsRekey
<1> QED
  BY <1>2, <1>4 DEF RekeySound, RekeyPlan, RekeyRows, Landed, Leaving, HasEdge, Exists, Makes, Drops

(* A plan that has not been begun.                                         *)
LEMMA RekeyIsPlanned ==
  ASSUME GraphTyped, EndsExist, NEW old \in Triples, NEW new \in Triples, HasEdge(old), NEW i \in Nat,
         NEW row, row = RekeyRow(old, new)
  PROVE  /\ row.target = old /\ row.after = new /\ edge[row.target] = row.before
         /\ row.op = "repoint_relation" => ~HasEdge(new)
         /\ Makes(Call("create_relation", new, Handle(old, i)), row)
         /\ Drops(Call("delete_relation", old, NoImage), row)
  BY DEF RekeyRow, Row, Makes, Drops, Call, Handle

(* A retarget and a rename begin with such a plan.                         *)
LEMMA RetargetPlans ==
  ASSUME Sound, EndsExist, NEW r \in Requests, NEW old \in Triples, NEW new \in Triples,
         RetargetRelation(r, old, new)
  PROVE  RekeySound(r)'
<1> DEFINE make == Call("create_relation", new, Handle(old, 1))
           drop == Call("delete_relation", old, NoImage)
           row == RekeyRow(old, new)
<1>0. old # new /\ HasEdge(old) /\ Exists(new[1]) /\ Exists(new[3])
      /\ Begin(r, <<make, drop>>, <<"retarget", old, new>>, <<row>>)
  BY DEF RetargetRelation, Rekey
<1>1. /\ row.target = old /\ row.after = new /\ edge[row.target] = row.before
      /\ row.op = "repoint_relation" => ~HasEdge(new)
      /\ Makes(make, row) /\ Drops(drop, row) /\ ~Drops(make, row)
  <2>1. ~Drops(make, row)
    BY DEF Drops, Call
  <2> QED
    BY <1>0, <2>1, RekeyIsPlanned DEF Sound
<1> HIDE DEF make, drop, row
<1>2. RekeyPlan(<<make, drop>>, <<row>>)
  <2>1. RekeyRows(<<row>>)
    BY <1>0, <1>1 DEF RekeyRows
  <2>2. \A k \in 1 .. Len(<<make, drop>>) : k = 1 \/ k = 2
    OBVIOUS
  <2>3. \A k \in 1 .. Len(<<make, drop>>) : \E i \in DOMAIN <<row>> :
          Makes(<<make, drop>>[k], <<row>>[i]) \/ Drops(<<make, drop>>[k], <<row>>[i])
    BY <1>1, <2>2
  <2>4. Leaving(<<make, drop>>, row)
    <3> SUFFICES ASSUME NEW k \in 1 .. Len(<<make, drop>>), Drops(<<make, drop>>[k], row)
                 PROVE  \E j \in 1 .. k - 1 : Makes(<<make, drop>>[j], row)
      BY <1>1 DEF Leaving
    <3>1. k = 2
      BY <1>1, <2>2
    <3> QED
      BY <1>1, <3>1
  <2> QED
    BY <2>1, <2>3, <2>4 DEF RekeyPlan
<1> QED
  BY <1>0, <1>2, BeginPlans DEF Sound

LEMMA RenamePlans ==
  ASSUME Sound, EndsExist, NEW r \in Requests, NEW p \in Predicates, NEW q \in Predicates,
         RenamePredicate(r, p, q)
  PROVE  RekeySound(r)'
<1> DEFINE B == {t \in Triples : HasEdge(t) /\ t[2] = p}
           S == SetToSeq(B)
           Renamed(t) == <<t[1], q, t[3]>>
           parts == [i \in DOMAIN S |-> Rekey(S[i], Renamed(S[i]), i)]
           rows == [i \in DOMAIN S |-> RekeyRow(S[i], Renamed(S[i]))]
           cs == FlattenSeq(parts)
<1>1. p # q /\ S # <<>> /\ Begin(r, cs, <<"rename", p, q>>, rows)
  BY DEF RenamePredicate
<1>2. B \subseteq Triples /\ IsFiniteSet(B) /\ \A t \in B : HasEdge(t) /\ t[2] = p
  BY FiniteStores, FS_Subset
<1>3. /\ \A t \in Triples : Renamed(t) \in Triples /\ Renamed(t)[2] = q
                            /\ Renamed(t)[1] = t[1] /\ Renamed(t)[3] = t[3]
      /\ \A t, u \in B : Renamed(t) = Renamed(u) => t = u
  <2>1. \A t \in Triples : t = <<t[1], t[2], t[3]>> /\ t[1] \in Entities /\ t[3] \in Entities
    BY DEF Triples
  <2>2. \A t, u \in B : Renamed(t) = Renamed(u) => t[1] = u[1] /\ t[3] = u[3]
    OBVIOUS
  <2> QED
    BY <1>2, <2>1, <2>2 DEF Triples
<1> HIDE DEF B
<1>4. S \in Seq(B) /\ DOMAIN S = 1 .. Cardinality(B) /\ Cardinality(B) \in Nat
      /\ \A i, j \in 1 .. Cardinality(B) : S[i] = S[j] => i = j
  BY <1>2, SetToSeqIs
<1> DEFINE n == Cardinality(B)
<1>5. PICK m \in Nat \ {0} : m = n
  <2>1. n # 0
    BY <1>1, <1>4
  <2> QED
    BY <1>4, <2>1
<1> HIDE DEF S, n
<1>6. ASSUME NEW i \in 1 .. m
      PROVE  S[i] \in B /\ S[i] \in Triples /\ HasEdge(S[i]) /\ S[i][2] = p
             /\ Renamed(S[i]) \in Triples /\ Renamed(S[i])[2] = q
             /\ Renamed(S[i])[1] = S[i][1] /\ Renamed(S[i])[3] = S[i][3] /\ i \in Nat
  <2>1. S[i] \in B
    BY <1>4, <1>5 DEF n
  <2> QED
    BY <1>2, <1>3, <2>1
<1>7. \A i, j \in 1 .. m : Renamed(S[i]) = Renamed(S[j]) \/ S[i] = S[j] => i = j
  BY <1>3, <1>4, <1>5, <1>6 DEF n
<1> HIDE DEF Renamed
<1> DEFINE make(i) == Call("create_relation", Renamed(S[i]), Handle(S[i], i))
           drop(i) == Call("delete_relation", S[i], NoImage)
           A == {make(i) : i \in 1 .. m} \cup {drop(i) : i \in 1 .. m}
           x == [i \in 1 .. m |-> make(i)]
           y == [i \in 1 .. m |-> drop(i)]
<1>8. x \in [1 .. m -> A] /\ y \in [1 .. m -> A]
  OBVIOUS
<1>9. parts = [i \in 1 .. m |-> <<x[i], y[i]>>]
  BY <1>4, <1>5 DEF Rekey, n
<1>10. /\ cs \in Seq(A)
       /\ \A k \in 1 .. Len(cs) :
            \E i \in 1 .. m : cs[k] = x[i] \/ (cs[k] = y[i] /\ k - 1 \in 1 .. Len(cs) /\ cs[k - 1] = x[i])
  <2> HIDE DEF parts, A, x, y
  <2>1. PICK a, u, v, w : a = A /\ u = x /\ v = y /\ w = parts
    OBVIOUS
  <2>2. u \in [1 .. m -> a] /\ v \in [1 .. m -> a]
        /\ Len(w) = m /\ \A i \in 1 .. m : w[i] = <<u[i], v[i]>>
    BY <1>8, <1>9, <2>1
  <2>3. PICK c : c = FlattenSeq(w)
    OBVIOUS
  <2>4. InPairs(c, a, m, u, v)
    BY <2>2, <2>3, FlattenPairs
  <2> QED
    BY <2>1, <2>3, <2>4 DEF InPairs
<1>11. \A i \in 1 .. m : rows[i] = RekeyRow(S[i], Renamed(S[i])) /\ x[i] = make(i) /\ y[i] = drop(i)
  BY <1>4, <1>5 DEF n
<1>12. DOMAIN rows = 1 .. m
  BY <1>4, <1>5 DEF n
<1> HIDE DEF rows, cs, x, y, A, parts
<1>13. ASSUME NEW i \in 1 .. m
       PROVE  /\ rows[i].target = S[i] /\ rows[i].after = Renamed(S[i]) /\ edge[rows[i].target] = rows[i].before
              /\ rows[i].op = "repoint_relation" => ~HasEdge(rows[i].after)
              /\ Makes(x[i], rows[i]) /\ Drops(y[i], rows[i])
  BY <1>6, <1>11, RekeyIsPlanned DEF Sound
<1>14. RekeyRows(rows)
  <2>1. \A i \in 1 .. m : Exists(Renamed(S[i])[1]) /\ Exists(Renamed(S[i])[3])
    BY <1>6 DEF EndsExist
  <2>2. \A i, j \in 1 .. m : Renamed(S[i]) # S[j]
    BY <1>1, <1>6
  <2> QED
    BY <1>6, <1>7, <1>12, <1>13, <2>1, <2>2, SMTT(30) DEF RekeyRows
<1>15. \A k \in 1 .. Len(cs) : \E i \in DOMAIN rows : Makes(cs[k], rows[i]) \/ Drops(cs[k], rows[i])
  BY <1>10, <1>12, <1>13
<1>16. ASSUME NEW i \in 1 .. m PROVE Leaving(cs, rows[i])
  <2> SUFFICES ASSUME NEW k \in 1 .. Len(cs), Drops(cs[k], rows[i])
               PROVE  \E j \in 1 .. k - 1 : Makes(cs[j], rows[i])
    BY <1>13 DEF Leaving
  <2>1. PICK h \in 1 .. m : cs[k] = x[h] \/ (cs[k] = y[h] /\ k - 1 \in 1 .. Len(cs) /\ cs[k - 1] = x[h])
    BY <1>10
  <2>2. cs[k] # x[h]
    BY <1>13 DEF Makes, Drops
  <2>3. h = i
    <3>1. cs[k].on = rows[h].target /\ cs[k].on = rows[i].target
      BY <1>13, <2>1, <2>2 DEF Drops
    <3> QED
      <4>1. S[h] = S[i]
        BY <1>13, <3>1
      <4> QED
        BY <1>7, <4>1
  <2>4. k - 1 \in 1 .. k - 1 /\ Makes(cs[k - 1], rows[i])
    BY <1>13, <2>1, <2>2, <2>3
  <2> QED
    BY <2>4
<1>17. RekeyPlan(cs, rows)
  BY <1>12, <1>14, <1>15, <1>16 DEF RekeyPlan
<1> QED
  BY <1>1, <1>17, BeginPlans DEF Sound

(* Every operation does.                                                   *)
LEMMA OperationPlans ==
  ASSUME Sound, EndsExist, NEW r \in Requests, Operation(r)
  PROVE  RekeySound(r)'
<1>0. ASSUME NEW calls, NEW seed, NEW rows, Begin(r, calls, seed, rows), seed[1] \notin {"retarget", "rename"}
      PROVE  RekeySound(r)'
  BY <1>0, BeginPlans DEF Sound
<1>1. ASSUME NEW e, NEW patch, EditEntity(r, e, patch) PROVE RekeySound(r)'
  BY <1>0, <1>1 DEF EditEntity, Single
<1>2. ASSUME NEW t, AddRelation(r, t) \/ RemoveRelation(r, t) PROVE RekeySound(r)'
  BY <1>0, <1>2 DEF AddRelation, RemoveRelation, Single
<1>3. ASSUME NEW from, NEW to, RelabelEntityType(r, from, to) PROVE RekeySound(r)'
  BY <1>0, <1>3 DEF RelabelEntityType
<1>4. ASSUME NEW b, NEW a, NEW kept, MergeEntities(r, b, a, kept) PROVE RekeySound(r)'
  <2>1. \E calls, rows : Begin(r, calls, <<"merge", b, a>>, rows)
    BY <1>4 DEF MergeEntities
  <2>2. <<"merge", b, a>>[1] \notin {"retarget", "rename"}
    OBVIOUS
  <2> QED
    BY <1>0, <2>1, <2>2
<1>5. ASSUME NEW e, DeleteEntity(r, e) PROVE RekeySound(r)'
  BY <1>0, <1>5 DEF DeleteEntity
<1>6. ASSUME NEW x, NEW y, TagExisting(r, x, y) \/ TagNewEntity(r, x, y) \/ SuppressOccurrence(r, x, y)
                           \/ MoveBoundaries(r, x, y)
      PROVE  RekeySound(r)'
  BY <1>0, <1>6 DEF TagExisting, TagNewEntity, SuppressOccurrence, MoveBoundaries, Single
<1>7. ASSUME NEW x, NEW y, NEW z, RetagOccurrence(r, x, y, z) \/ MaterializeBoundaries(r, x, y, z)
      PROVE  RekeySound(r)'
  BY <1>0, <1>7 DEF RetagOccurrence, MaterializeBoundaries
<1>8. ASSUME NEW old \in Triples, NEW new \in Triples, RetargetRelation(r, old, new) PROVE RekeySound(r)'
  BY <1>8, RetargetPlans
<1>9. ASSUME NEW p \in Predicates, NEW q \in Predicates, RenamePredicate(r, p, q) PROVE RekeySound(r)'
  BY <1>9, RenamePlans
<1> QED
  BY <1>1, <1>2, <1>3, <1>4, <1>5, <1>6, <1>7, <1>8, <1>9 DEF Operation

(* Every step keeps the plan.                                              *)
LEMMA CallPlans ==
  ASSUME GraphTyped, ReqShape, ReqTyped, NEW r \in Requests, RekeySound(r), StoreCall(r)
  PROVE  RekeySound(r)'
<1> SUFFICES ASSUME IsRekey(r)' PROVE RekeyPlan(req[r].calls, req[r].rows)'
  BY SMTT(30) DEF RekeySound
<1>1. req[r] # Idle /\ req[r].calls # <<>>
  BY DEF StoreCall, CreateEntity, UpdateEntity, RestoreFields, DeleteNode, RelabelType,
         CreateRelation, DeleteRelation, AddMention, DeleteMention, UpdateMentionSpan,
         DeleteMentionsOf, ReassignMentions, RepointMentions, AddSuppression,
         DeleteSuppression, Calls
<1>2. req'[r].kind = "edit" /\ req'[r] # Idle
  BY DEF IsRekey, Idle
<1>3. IsEdit(req[r]) /\ req'[r].seed = req[r].seed
  <2>1. req'[r].kind = req[r].kind
    BY <1>2, RowsAfterCall
  <2>2. IsEdit(req[r])
    BY <1>1, <1>2, <2>1, UndoIsNoEdit DEF ReqShape
  <2> QED
    BY <1>2, <2>2, RowsAfterCall
<1>4. IsRekey(r)
  BY <1>3, EditIsEdit DEF IsRekey
<1>5. PICK cs, rows :
        cs \in Seq(GoodCalls) /\ cs = req[r].calls /\ rows = req[r].rows
  BY <1>1 DEF ReqTyped, GoodReq
<1>6. RekeyPlan(cs, rows) /\ cs # <<>>
  BY <1>1, <1>4, <1>5 DEF RekeySound
<1>7. PICK c : c = cs[1] /\ c = Head(req[r].calls)
  BY <1>5
<1>8. c.do \in {"create_relation", "delete_relation"}
  <2>1. 1 \in 1 .. Len(cs)
    BY <1>6
  <2>2. \E i \in DOMAIN rows : Makes(cs[1], rows[i]) \/ Drops(cs[1], rows[i])
    BY <1>6, <2>1, SMTT(30) DEF RekeyPlan
  <2> QED
    BY <1>7, <2>2 DEF Makes, Drops
<1>9. CreateRelation(r) \/ DeleteRelation(r)
  BY <1>7, <1>8 DEF StoreCall, CreateEntity, UpdateEntity, RestoreFields, DeleteNode, RelabelType,
         AddMention, DeleteMention, UpdateMentionSpan, DeleteMentionsOf, ReassignMentions,
         RepointMentions, AddSuppression, DeleteSuppression, Calls
<1>10. /\ node' = node /\ Return(r)
       /\ c.do = "create_relation" =>
            edge' = IF Exists(c.on[1]) /\ Exists(c.on[3]) /\ ~HasEdge(c.on)
                      THEN [edge EXCEPT ![c.on] = c.with] ELSE edge
       /\ c.do = "delete_relation" => edge' = [edge EXCEPT ![c.on] = NoEdge]
  <2>1. CASE CreateRelation(r)
    <3>1. c.do = "create_relation"
      BY <1>7, <2>1 DEF CreateRelation, Calls
    <3> QED
      BY <1>7, <2>1, <3>1 DEF CreateRelation, On, With
  <2>2. CASE DeleteRelation(r)
    <3>1. c.do = "delete_relation"
      BY <1>7, <2>2 DEF DeleteRelation, Calls
    <3> QED
      BY <1>7, <2>2, <3>1 DEF DeleteRelation, On
  <2> QED
    BY <1>9, <2>1, <2>2
<1>11. RekeyPlan(Tail(cs), rows)'
  <2>1. cs \in Seq(GoodCalls)
    BY <1>5
  <2> QED
    BY <1>6, <1>7, <1>10, <2>1, PlanShrinks
<1>12. req'[r].calls = Tail(cs) /\ req'[r].rows = rows
  BY <1>1, <1>3, <1>5, <1>10, ReturnEffect
<1>13. PICK ts : ts = Tail(cs)
  OBVIOUS
<1>14. RekeyPlan(ts, rows)' /\ req'[r].calls = ts /\ req'[r].rows = rows
  BY <1>11, <1>12, <1>13
<1> QED
  BY <1>14 DEF RekeyPlan, RekeyRows, Landed, Leaving, HasEdge, Exists, Makes, Drops

LEMMA StampPlans ==
  ASSUME ReqShape, NEW r \in Requests, RekeySound(r), Stamp(r)
  PROVE  RekeySound(r)'
<1> DEFINE op == StampedOp(r)
           n == [req[r] EXCEPT !.op = op]
           m == [n EXCEPT !.at = clock + 1]
           k == [req[r] EXCEPT !.op = op, !.at = clock + 1]
<1>0. k = m
  OBVIOUS
<1>1. req[r].kind = "edit" /\ req' = [req EXCEPT ![r] = k] /\ UNCHANGED <<node, edge>>
  BY DEF Stamp, StampedOp
<1>2. req'[r] = k
  BY <1>1 DEF ReqShape
<1>3. IsEdit(req[r])
  BY <1>1 DEF ReqShape, Idle, IsUndo
<1>4. PICK calls, seed, rows, op0, at, before : req[r] = Edit(calls, seed, rows, op0, at, before)
  BY <1>3 DEF IsEdit
<1> HIDE DEF op
<1>6. n = Edit(calls, seed, rows, op, at, before)
  BY <1>4 DEF Edit
<1>7. [Edit(calls, seed, rows, op, at, before) EXCEPT !.at = clock + 1]
        = Edit(calls, seed, rows, op, clock + 1, before)
  BY DEF Edit
<1>8. req'[r] = Edit(calls, seed, rows, op, clock + 1, before)
  BY <1>0, <1>2, <1>6, <1>7
<1>9. req'[r].calls = calls /\ req'[r].rows = rows /\ req'[r].seed = seed
  BY <1>8 DEF Edit
<1>10. req[r].calls = calls /\ req[r].rows = rows /\ req[r].seed = seed
  BY <1>4 DEF Edit
<1>11. RekeyPlan(calls, rows) => RekeyPlan(calls, rows)'
  BY <1>1 DEF RekeyPlan, RekeyRows, Landed, Leaving, HasEdge, Exists, Makes, Drops
<1>12. IsRekey(r)' => RekeyPlan(calls, rows)'
  BY <1>1, <1>9, <1>10, <1>11 DEF RekeySound, IsRekey
<1> QED
  BY <1>9, <1>12 DEF RekeySound, RekeyPlan, RekeyRows, Landed, Leaving, HasEdge, Exists, Makes, Drops

LEMMA PlansStep ==
  ASSUME NEW slot, Requests = {slot}, Inv, TypeInv, RekeySound(slot), [Next]_vars
  PROVE  RekeySound(slot)'
<1>0. ReqShape /\ GraphTyped /\ EndsExist /\ ReqTyped /\ Sound
  BY SMTT(30) DEF Inv, IdsOK, TypeInv, Sound
<1>1. CASE UNCHANGED vars
  <2>1. UNCHANGED <<node, edge, req>>
    BY <1>1 DEF vars
  <2> QED
    BY <2>1 DEF RekeySound, IsRekey, RekeyPlan, RekeyRows, Landed, Leaving, HasEdge, Exists, Makes, Drops
<1>2. ASSUME req'[slot] = Idle \/ req'[slot].kind = "undo" PROVE RekeySound(slot)'
  BY <1>2 DEF RekeySound, IsRekey, Idle
<1>3. CASE Operation(slot)
  BY <1>0, <1>3, OperationPlans
<1>4. CASE StoreCall(slot)
  BY <1>0, <1>4, CallPlans
<1>5. CASE Stamp(slot)
  BY <1>0, <1>5, StampPlans
<1>6. CASE Record(slot) \/ MarkUndone(slot) \/ Fail(slot)
  <2>1. req' = [req EXCEPT ![slot] = Idle]
    BY <1>6 DEF Record, MarkUndone, Fail
  <2> QED
    BY <1>0, <1>2, <2>1 DEF ReqShape
<1>7. CASE UndoLast(slot)
  <2>1. req'[slot].kind = "undo"
    BY <1>0, <1>7 DEF UndoLast, ReqShape
  <2> QED
    BY <1>2, <2>1
<1> QED
  BY <1>1, <1>3, <1>4, <1>5, <1>6, <1>7 DEF Next

(* One request at a time, at every point of it: an edge that is re-keyed   *)
(* is where it was, or where it goes, with its handle.                     *)
THEOREM RekeyedIsKept ==
  ASSUME NEW slot, Requests = {slot} PROVE Spec => []RekeyNeverLoses
<1>1. ConstantsAssumption
  BY ConstantsAssumption
<1>2. Init => Inv /\ TypeInv /\ RekeySound(slot)
  <2>1. Init => RekeySound(slot)
    BY DEF Init, RekeySound, IsRekey, Idle
  <2> QED
    BY <1>1, <2>1, InvInit, TypedInit
<1>3. Inv /\ TypeInv /\ RekeySound(slot) /\ [Next]_vars => (Inv /\ TypeInv /\ RekeySound(slot))'
  BY InvStep, TypedStep, PlansStep
<1>4. RekeySound(slot) => RekeyNeverLoses
  BY DEF RekeySound, RekeyNeverLoses, RekeyPlan, Landed, Leaving
<1> QED
  BY <1>2, <1>3, <1>4, PTL DEF Spec
=============================================================================
