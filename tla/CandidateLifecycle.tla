-------------------------- MODULE CandidateLifecycle --------------------------
(***************************************************************************)
(* What the lifecycle of an entity candidate promises: the state machine   *)
(* the review queue is documented to implement, with its guards and its    *)
(* mandatory evidence, and nothing of how requests and stores do it.       *)
(***************************************************************************)
CONSTANTS Candidates, Entities, NoEntity

VARIABLES
  card,     \* status, proposal and target of each candidate
  evidence  \* candidates with a decision on record

lifecycleVars == <<card, evidence>>

Queued(c) == card[c].status = "review-queued"

LifecycleInit ==
  /\ card \in [Candidates -> [status : {"review-queued"},
                              proposal : {"new", "merge"},
                              target : Entities \cup {NoEntity}]]
  /\ evidence = {}

(* On-accept re-match: monotone, new -> merge only, pending rows only.     *)
Suggest(c) ==
  /\ Queued(c)
  /\ card[c].proposal = "new"
  /\ \E e \in Entities :
       card' = [card EXCEPT ![c].proposal = "merge", ![c].target = e]
  /\ UNCHANGED evidence

(* The effect every terminal edge owes, before the edge is taken.          *)
Record(c) ==
  /\ Queued(c)
  /\ evidence' = evidence \cup {c}
  /\ UNCHANGED card

(* The human decides: create, merge into an entity, or reject.             *)
Decide(c) ==
  /\ Queued(c)
  /\ c \in evidence
  /\ \/ \E s \in {"created", "rejected"} : card' = [card EXCEPT ![c].status = s]
     \/ \E e \in Entities :
          card' = [card EXCEPT ![c].status = "merged", ![c].target = e]
  /\ UNCHANGED evidence

LifecycleNext == \E c \in Candidates : Suggest(c) \/ Record(c) \/ Decide(c)

LifecycleSpec == LifecycleInit /\ [][LifecycleNext]_lifecycleVars
=============================================================================
