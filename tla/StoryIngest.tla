----------------------------- MODULE StoryIngest -----------------------------
(***************************************************************************)
(* What a resumable ingest promises: the paragraphs of a story are staged  *)
(* in order, each exactly once and each with the whole of one reading,     *)
(* however often the run stops and is asked for again.                     *)
(***************************************************************************)
EXTENDS Naturals

CONSTANTS N, Readings, NotStaged

VARIABLES
  done,     \* paragraphs 1 .. done are staged
  staged    \* the reading each paragraph was staged with

Init ==
  /\ done = 0
  /\ staged = [p \in 1..N |-> NotStaged]

StageNext ==
  /\ done < N
  /\ done' = done + 1
  /\ \E reading \in Readings[done + 1] :
       staged' = [staged EXCEPT ![done + 1] = reading]

Spec == Init /\ [][StageNext]_<<done, staged>>
=============================================================================
