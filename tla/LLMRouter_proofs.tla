-------------------------- MODULE LLMRouter_proofs --------------------------
(***************************************************************************)
(* The router keeps its ledger and tells quota from failure, for any       *)
(* number of callers, tiers, providers, prices and days.                   *)
(***************************************************************************)
EXTENDS LLMRouter, FiniteSetTheorems, TLAPS

-----------------------------------------------------------------------------
(* The inductive invariant *)

\* The first m answers of a call all failed over, and nonQuota says what they were.
Heard(k, m) ==
    /\ \A i \in 1..m : FailsOver(k.heard[i])
    /\ (k.nonQuota = TRUE) <=> (\E i \in 1..m : k.heard[i] = "fault")

ChainOf(k) == Providers[TierOf(k.weight)]

\* The call has asked as many providers as it heard answers of; while it is recorded, one
\* row is due for the last of them.
InTurn(k) ==
    /\ Len(k.heard) <= Len(ChainOf(k))
    /\ k.pc \in {"gate", "refuse"} =>
         /\ ChainOf(k) # <<>>
         /\ k.heard = <<>> /\ k.rows = 0 /\ k.next = 1 /\ k.nonQuota = FALSE
    /\ k.pc = "ask" =>
         /\ Len(k.heard) < Len(ChainOf(k))
         /\ k.next = Len(k.heard) + 1 /\ k.rows = Len(k.heard)
         /\ Heard(k, Len(k.heard))
    /\ k.pc = "record" =>
         /\ Len(k.heard) > 0
         /\ k.next = Len(k.heard) /\ k.rows = Len(k.heard) - 1
         /\ k.heard[Len(k.heard)] = k.answer
         /\ Heard(k, Len(k.heard) - 1)

\* Only a text of a paid tier costs anything, until its row is written.
Priced(k) ==
    k.cost # 0 => k.pc = "record" /\ k.answer = "text" /\ TierIsPaid(TierOf(k.weight))

RowsDue(k) ==
    /\ k.pc \in {"returned", "budget", "quota", "error"} => k.rows = RowsOwed(k)
    /\ k.pc \in {"escaped", "unrecorded"} => k.rows = RowsOwed(k) - 1

QuotaIsQuota(k) ==
    k.pc \in Ends \ {"unrecorded", "misconfigured"} =>
        (k.pc = "quota" <=> /\ TierOf(k.weight) = "cloud_free"
                            /\ Len(k.heard) = Len(ChainOf(k))
                            /\ \A i \in DOMAIN k.heard : k.heard[i] = "rate_limited")

CallOK(k) == InTurn(k) /\ Priced(k) /\ RowsDue(k) /\ QuotaIsQuota(k)

CallsOK == \A c \in Callers : CallOK(call[c])

IInv == TypeOK /\ CallsOK /\ OvershootBounded

-----------------------------------------------------------------------------
(* Money *)

\* What one call more may cost.
LEMMA OneMore ==
    ASSUME NEW m \in Nat, NEW n \in Nat
    PROVE  m * n \in Nat /\ m * (n + 1) = m * n + m
OBVIOUS

\* More calls never cost less.
LEMMA Monotone ==
    ASSUME NEW m \in Nat, NEW a \in Nat, NEW b \in Nat, a <= b
    PROVE  m * a <= m * b
OBVIOUS

\* There are at most as many calls past the gate as there are callers.
LEMMA PastGateFinite ==
    /\ IsFiniteSet(PaidPastGate)
    /\ Cardinality(Callers) \in Nat
    /\ Cardinality(PaidPastGate) \in Nat
    /\ Cardinality(PaidPastGate) <= Cardinality(Callers)
<1>1. PaidPastGate \subseteq Callers
  BY DEF PaidPastGate, PastGate
<1>2. IsFiniteSet(Callers)
  BY RouterAssumption DEF RouterAssumption
<1> QED
  BY <1>1, <1>2, FS_Subset, FS_CardinalityType

-----------------------------------------------------------------------------
(* What each step makes of its call *)

\* One call moves, to a sound state.
Moves(c) ==
    /\ call' = [call EXCEPT ![c] = call'[c]]
    /\ call'[c] \in Calls
    /\ CallOK(call'[c])

\* The chain of a call is a sequence of providers.
LEMMA ChainType ==
    ASSUME NEW k \in Calls
    PROVE  /\ TierOf(k.weight) \in Tiers
           /\ ChainOf(k) \in Seq(Provider)
BY RouterAssumption DEF RouterAssumption, Calls, TierOf, ChainOf, Tiers

\* A call that starts has heard nothing and owes nothing.
LEMMA StartMoves ==
    ASSUME TypeOK, NEW c \in Callers, NEW w \in Weights[c], Start(c, w)
    PROVE  Moves(c)
<1> DEFINE pc == CASE Providers[TierOf(w)] = <<>> -> "misconfigured"
                   [] TierIsPaid(TierOf(w))       -> "gate"
                   [] OTHER                       -> "ask"
           k == [NoCall EXCEPT !.weight = w, !.pc = pc]
<1>1. call' = [call EXCEPT ![c] = k] /\ call'[c] = k
  BY DEF Start, TypeOK
<1>2. w \in {"light", "medium", "heavy"}
  BY RouterAssumption DEF RouterAssumption
<1>3. /\ pc \in {"misconfigured", "gate", "ask"}
      /\ pc # "misconfigured" => Providers[TierOf(w)] # <<>>
  <2>1. CASE Providers[TierOf(w)] = <<>>
    <3>1. ~TierIsPaid(TierOf(w))
      BY <2>1 DEF TierIsPaid
    <3> QED
      BY <2>1, <3>1, Zenon
  <2>2. CASE Providers[TierOf(w)] # <<>> /\ TierIsPaid(TierOf(w))
    BY <2>2, Zenon
  <2>3. CASE Providers[TierOf(w)] # <<>> /\ ~TierIsPaid(TierOf(w))
    BY <2>3, Zenon
  <2> QED
    BY <2>1, <2>2, <2>3
<1> HIDE DEF pc
<1>4. NoCall \in Calls
  BY RouterAssumption DEF NoCall, Calls, Answers, Ends, RouterAssumption
<1>5. k \in Calls
  <2>1. pc \in {"idle", "gate", "refuse", "ask", "record"} \cup Ends
    BY <1>3 DEF Ends
  <2> QED
    BY <1>2, <1>4, <2>1 DEF Calls
<1>6. /\ k.pc = pc /\ k.weight = w /\ k.heard = <<>> /\ k.rows = 0 /\ k.next = 1
      /\ k.nonQuota = FALSE /\ k.cost = 0
  BY DEF NoCall
<1>7. ChainOf(k) \in Seq(Provider) /\ ChainOf(k) = Providers[TierOf(w)]
  BY <1>5, <1>6, ChainType DEF ChainOf
<1> HIDE DEF k
<1>8. k.pc # "misconfigured" => Len(ChainOf(k)) > 0
  BY <1>3, <1>6, <1>7
<1>9. InTurn(k)
  BY <1>3, <1>6, <1>7, <1>8 DEF InTurn, Heard
<1>10. Priced(k) /\ RowsDue(k) /\ QuotaIsQuota(k)
  BY <1>3, <1>6 DEF Priced, RowsDue, RowsOwed, QuotaIsQuota, Ends
<1> QED
  BY <1>1, <1>5, <1>9, <1>10 DEF Moves, CallOK

\* The gate lets a call ask its first provider or sends it to the refusal.
LEMMA GateMoves ==
    ASSUME TypeOK, NEW c \in Callers, CallOK(call[c]), Gate(c)
    PROVE  Moves(c)
<1> DEFINE k == call[c]
           j == [k EXCEPT !.pc = IF spent >= Cap THEN "refuse" ELSE "ask"]
<1>1. k \in Calls /\ k.pc = "gate"
  BY DEF TypeOK, Gate
<1>2. call' = [call EXCEPT ![c] = j] /\ call'[c] = j
  BY DEF Gate, TypeOK
<1>3. j \in Calls /\ j.pc \in {"refuse", "ask"}
  BY <1>1 DEF Calls
<1>4. /\ j.weight = k.weight /\ j.heard = k.heard /\ j.rows = k.rows
      /\ j.next = k.next /\ j.nonQuota = k.nonQuota /\ j.cost = k.cost
  BY <1>1 DEF Calls
<1>5. ChainOf(j) = ChainOf(k) /\ ChainOf(j) \in Seq(Provider)
  BY <1>1, <1>4, ChainType DEF ChainOf
<1>6. ChainOf(k) # <<>> /\ k.heard = <<>> /\ k.rows = 0 /\ k.next = 1 /\ k.nonQuota = FALSE
  BY <1>1 DEF CallOK, InTurn
<1>7. InTurn(j)
  BY <1>3, <1>4, <1>5, <1>6 DEF InTurn, Heard
<1>8. k.cost = 0
  BY <1>1 DEF CallOK, Priced
<1>9. Priced(j) /\ RowsDue(j) /\ QuotaIsQuota(j)
  BY <1>3, <1>4, <1>8 DEF Priced, RowsDue, RowsOwed, QuotaIsQuota, Ends
<1> QED
  BY <1>2, <1>3, <1>7, <1>9 DEF Moves, CallOK

\* A refused call leaves the one row it owes, and adds nothing to the sum.
LEMMA RefuseMoves ==
    ASSUME TypeOK, NEW c \in Callers, CallOK(call[c]), Refuse(c)
    PROVE  Moves(c)
<1> DEFINE k == call[c]
           j == [k EXCEPT !.pc = "budget", !.rows = k.rows + 1]
<1>1. k \in Calls /\ k.pc = "refuse"
  BY DEF TypeOK, Refuse
<1>2. call' = [call EXCEPT ![c] = j] /\ call'[c] = j
  BY DEF Refuse, TypeOK
<1>3. j \in Calls /\ j.pc = "budget" /\ j.rows = k.rows + 1
  <2>1. k.rows + 1 \in Nat /\ "budget" \in Ends
    BY <1>1 DEF Calls, Ends
  <2> QED
    BY <1>1, <2>1 DEF Calls
<1>4. j.weight = k.weight /\ j.heard = k.heard /\ j.cost = k.cost
  BY <1>1 DEF Calls
<1>5. ChainOf(j) = ChainOf(k) /\ ChainOf(j) \in Seq(Provider)
  BY <1>1, <1>4, ChainType DEF ChainOf
<1>6. ChainOf(k) # <<>> /\ k.heard = <<>> /\ k.rows = 0 /\ k.cost = 0
  BY <1>1 DEF CallOK, InTurn, Priced
<1>7. InTurn(j) /\ Priced(j) /\ RowsDue(j)
  BY <1>3, <1>4, <1>5, <1>6 DEF InTurn, Priced, RowsDue, RowsOwed
<1>8. Len(j.heard) = 0 /\ Len(ChainOf(j)) > 0
  BY <1>4, <1>5, <1>6
<1>9. QuotaIsQuota(j)
  BY <1>3, <1>8 DEF QuotaIsQuota
<1> QED
  BY <1>2, <1>3, <1>7, <1>9 DEF Moves, CallOK

\* An answer is one more heard, with its row due; only a text has a cost.
LEMMA AnswerMoves ==
    ASSUME TypeOK, NEW c \in Callers, CallOK(call[c]), Answer(c)
    PROVE  Moves(c)
<1> DEFINE k == call[c]
           p == Chain(c)[k.next]
<1>1. k \in Calls /\ k.pc = "ask"
  BY DEF TypeOK, Answer
<1>2. PICK a \in AnswersOf(p) : \E cost \in (IF a = "text" THEN CostsOf(p) ELSE {0}) :
          call' = [call EXCEPT ![c] = [k EXCEPT
                     !.pc = "record", !.answer = a, !.cost = cost,
                     !.heard = Append(k.heard, a)]]
  BY DEF Answer
<1>3. PICK cost \in (IF a = "text" THEN CostsOf(p) ELSE {0}) :
          call' = [call EXCEPT ![c] = [k EXCEPT
                     !.pc = "record", !.answer = a, !.cost = cost,
                     !.heard = Append(k.heard, a)]]
  BY <1>2
<1> DEFINE j == [k EXCEPT !.pc = "record", !.answer = a, !.cost = cost,
                          !.heard = Append(k.heard, a)]
           n == Len(k.heard)
<1>4. a \in Answers /\ cost \in 0..MaxCost /\ k.heard \in Seq(Answers \cup {IllTyped})
  BY <1>1, RouterAssumption DEF AnswersOf, CostsOf, RouterAssumption, Answers, Calls
<1>5. call' = [call EXCEPT ![c] = j] /\ call'[c] = j
  BY <1>3 DEF TypeOK
<1>6. j \in Calls /\ j.pc = "record"
  <2>1. Append(k.heard, a) \in Seq(Answers \cup {IllTyped})
    BY <1>4
  <2> QED
    BY <1>1, <1>4, <2>1 DEF Calls
<1>7. /\ j.weight = k.weight /\ j.rows = k.rows /\ j.next = k.next
      /\ j.nonQuota = k.nonQuota /\ j.answer = a /\ j.cost = cost
      /\ j.heard = Append(k.heard, a)
  BY <1>1 DEF Calls
<1>8. /\ n \in Nat /\ Len(j.heard) = n + 1 /\ j.heard[n + 1] = a
      /\ \A i \in 1..n : j.heard[i] = k.heard[i]
  BY <1>4, <1>7
<1>9. ChainOf(j) = ChainOf(k) /\ ChainOf(k) \in Seq(Provider) /\ Chain(c) = ChainOf(k)
  BY <1>1, <1>7, ChainType DEF ChainOf, Chain, TierOfCall
<1>10. n < Len(ChainOf(k)) /\ k.next = n + 1 /\ k.rows = n /\ Heard(k, n)
  BY <1>1 DEF CallOK, InTurn
<1>11. Heard(j, n)
  BY <1>7, <1>8, <1>10 DEF Heard
<1>12. InTurn(j)
  BY <1>6, <1>7, <1>8, <1>9, <1>10, <1>11 DEF InTurn
<1>13. Priced(j)
  <2>1. SUFFICES ASSUME cost # 0
                 PROVE  a = "text" /\ TierIsPaid(TierOf(k.weight))
    BY <1>6, <1>7 DEF Priced
  <2>2. a = "text" /\ p \in Paid
    BY <2>1, <1>3 DEF CostsOf
  <2>3. k.next \in DOMAIN ChainOf(k) /\ p = ChainOf(k)[k.next]
    BY <1>8, <1>9, <1>10
  <2> QED
    BY <2>2, <2>3 DEF TierIsPaid, ChainOf
<1>14. RowsDue(j) /\ QuotaIsQuota(j)
  BY <1>6 DEF RowsDue, QuotaIsQuota, Ends
<1> QED
  BY <1>5, <1>6, <1>12, <1>13, <1>14 DEF Moves, CallOK

\* An answer that escapes is one more heard, and its row is the one that is missing.
LEMMA AnswerEscapesMoves ==
    ASSUME TypeOK, NEW c \in Callers, CallOK(call[c]), AnswerEscapes(c)
    PROVE  Moves(c)
<1> DEFINE k == call[c]
           n == Len(k.heard)
           j == [k EXCEPT !.pc = "escaped", !.heard = Append(k.heard, IllTyped)]
<1>1. k \in Calls /\ k.pc = "ask"
  BY DEF TypeOK, AnswerEscapes
<1>2. call' = [call EXCEPT ![c] = j] /\ call'[c] = j
  BY DEF AnswerEscapes, TypeOK
<1>3. k.heard \in Seq(Answers \cup {IllTyped})
  BY <1>1 DEF Calls
<1>4. j \in Calls
  <2>1. Append(k.heard, IllTyped) \in Seq(Answers \cup {IllTyped}) /\ "escaped" \in Ends
    BY <1>3 DEF Ends
  <2> QED
    BY <1>1, <2>1 DEF Calls
<1>5. /\ j.pc = "escaped" /\ j.weight = k.weight /\ j.rows = k.rows /\ j.cost = k.cost
      /\ j.heard = Append(k.heard, IllTyped)
  BY <1>1 DEF Calls
<1>6. /\ n \in Nat /\ Len(j.heard) = n + 1 /\ j.heard # <<>>
      /\ DOMAIN j.heard = 1..(n + 1) /\ j.heard[n + 1] = IllTyped
  BY <1>3, <1>5
<1>7. ChainOf(j) = ChainOf(k) /\ ChainOf(k) \in Seq(Provider)
  BY <1>1, <1>5, ChainType DEF ChainOf
<1>8. n < Len(ChainOf(k)) /\ k.rows = n /\ k.cost = 0
  BY <1>1 DEF CallOK, InTurn, Priced
<1> HIDE DEF j
<1>9. InTurn(j) /\ Priced(j)
  BY <1>5, <1>6, <1>7, <1>8 DEF InTurn, Priced
<1>10. RowsDue(j)
  BY <1>5, <1>6, <1>8 DEF RowsDue, RowsOwed
<1>11. QuotaIsQuota(j)
  BY <1>5, <1>6 DEF QuotaIsQuota, IllTyped
<1> QED
  BY <1>2, <1>4, <1>9, <1>10, <1>11 DEF Moves, CallOK

\* The row is written: the call goes on with all answers failed over, or ends as they say.
LEMMA RecordMoves ==
    ASSUME TypeOK, NEW c \in Callers, CallOK(call[c]), Record(c)
    PROVE  Moves(c)
<1> DEFINE k == call[c]
           n == Len(k.heard)
           pc == After(c, k)
           nonQuota == NonQuota(k)
           next == IF FailsOver(k.answer) THEN k.next + 1 ELSE k.next
           j == [k EXCEPT !.pc = pc, !.cost = 0, !.rows = k.rows + 1,
                          !.nonQuota = nonQuota, !.next = next]
<1>1. k \in Calls /\ k.pc = "record"
  BY DEF TypeOK, Record
<1>2. call' = [call EXCEPT ![c] = j] /\ call'[c] = j
  BY DEF Record, TypeOK
<1>3. /\ n \in Nat /\ k.heard \in Seq(Answers \cup {IllTyped}) /\ k.answer \in Answers
      /\ k.rows \in Nat /\ k.next \in Nat \ {0}
  BY <1>1 DEF Calls
<1>4. ChainOf(k) \in Seq(Provider) /\ Chain(c) = ChainOf(k) /\ TierOfCall(c) = TierOf(k.weight)
  BY <1>1, ChainType DEF ChainOf, Chain, TierOfCall
<1>5. /\ n > 0 /\ n <= Len(ChainOf(k)) /\ k.next = n /\ k.rows = n - 1
      /\ k.heard[n] = k.answer /\ Heard(k, n - 1)
  BY <1>1 DEF CallOK, InTurn
<1>6. nonQuota \in BOOLEAN
  BY DEF NonQuota
<1>7. (nonQuota = TRUE) <=> (\E i \in 1..n : k.heard[i] = "fault")
  <2>1. nonQuota <=> ((k.nonQuota = TRUE) \/ k.answer = "fault")
    BY <1>1 DEF NonQuota, Calls
  <2> QED
    BY <1>3, <1>5, <1>6, <2>1 DEF Heard
<1>8. /\ pc \in {"returned", "budget", "error", "quota", "ask"}
      /\ pc = "ask" => FailsOver(k.answer) /\ n < Len(ChainOf(k))
      /\ pc = "quota" <=> /\ FailsOver(k.answer) /\ n = Len(ChainOf(k))
                          /\ TierOf(k.weight) = "cloud_free" /\ ~nonQuota
  <2>1. CASE k.answer \in {"text", "no_credit", "rejected"}
    BY <2>1 DEF After, FailsOver
  <2>2. CASE k.answer \in {"rate_limited", "fault"}
    BY <2>2, <1>3, <1>4, <1>5 DEF After, FailsOver
  <2> QED
    BY <1>3, <2>1, <2>2 DEF Answers
<1>9. k.rows + 1 = n /\ next \in Nat \ {0} /\ (FailsOver(k.answer) => next = n + 1)
  BY <1>3, <1>5
<1>10. j \in Calls
  <2>1. pc \in {"idle", "gate", "refuse", "ask", "record"} \cup Ends /\ k.rows + 1 \in Nat
    BY <1>3, <1>8 DEF Ends
  <2>2. 0 \in 0..MaxCost
    BY RouterAssumption DEF RouterAssumption
  <2> HIDE DEF pc, nonQuota, next
  <2> QED
    BY <1>1, <1>6, <1>9, <2>1, <2>2 DEF Calls
<1> HIDE DEF pc, nonQuota, next
<1>11. /\ j.pc = pc /\ j.weight = k.weight /\ j.heard = k.heard /\ j.rows = n
       /\ j.next = next /\ j.nonQuota = nonQuota /\ j.cost = 0
  BY <1>1, <1>9 DEF Calls
<1>12. ChainOf(j) = ChainOf(k)
  BY <1>11 DEF ChainOf
<1> HIDE DEF j
<1>13. InTurn(j)
  <2>1. pc = "ask" => Heard(j, n)
    BY <1>3, <1>5, <1>6, <1>7, <1>8, <1>11 DEF Heard
  <2> QED
    BY <1>3, <1>5, <1>8, <1>9, <1>11, <1>12, <2>1 DEF InTurn
<1>14. Priced(j) /\ RowsDue(j)
  BY <1>3, <1>5, <1>8, <1>11 DEF Priced, RowsDue, RowsOwed
<1>15. QuotaIsQuota(j)
  <2>1. DOMAIN j.heard = 1..n /\ Len(j.heard) = n
    BY <1>3, <1>11
  <2>2. ASSUME pc = "quota", NEW i \in 1..n
        PROVE  j.heard[i] = "rate_limited"
    <3>1. k.heard[i] # "fault"
      BY <1>6, <1>7, <1>8, <2>2
    <3>2. FailsOver(k.heard[i])
      BY <1>3, <1>5, <1>8, <2>2 DEF Heard
    <3> QED
      BY <1>11, <3>1, <3>2 DEF FailsOver
  <2>3. ASSUME TierOf(k.weight) = "cloud_free", n = Len(ChainOf(k)),
               \A i \in 1..n : j.heard[i] = "rate_limited"
        PROVE  pc = "quota"
    <3>1. \A i \in 1..n : k.heard[i] = "rate_limited"
      BY <1>11, <2>3
    <3>2. ~nonQuota
      BY <1>6, <1>7, <3>1
    <3>3. FailsOver(k.answer)
      BY <1>3, <1>5, <3>1 DEF FailsOver
    <3> QED
      BY <1>8, <2>3, <3>2, <3>3
  <2> QED
    BY <1>8, <1>11, <1>12, <2>1, <2>2, <2>3 DEF QuotaIsQuota, Ends
<1> QED
  BY <1>2, <1>10, <1>13, <1>14, <1>15 DEF Moves, CallOK

\* A call that the ledger fails, at the gate or at a row, ends one row short.
LEMMA LedgerFailsMoves ==
    ASSUME TypeOK, NEW c \in Callers, CallOK(call[c]), LedgerFails(c)
    PROVE  Moves(c)
<1> DEFINE k == call[c]
           j == [k EXCEPT !.pc = "unrecorded", !.cost = 0]
<1>1. k \in Calls /\ k.pc \in {"gate", "refuse", "record"}
  BY DEF TypeOK, LedgerFails
<1>2. call' = [call EXCEPT ![c] = j] /\ call'[c] = j
  BY DEF LedgerFails, TypeOK
<1>3. j \in Calls
  <2>1. "unrecorded" \in Ends /\ 0 \in 0..MaxCost
    BY RouterAssumption DEF Ends, RouterAssumption
  <2> QED
    BY <1>1, <2>1 DEF Calls
<1>4. /\ j.pc = "unrecorded" /\ j.weight = k.weight /\ j.heard = k.heard
      /\ j.rows = k.rows /\ j.cost = 0
  BY <1>1 DEF Calls
<1>5. ChainOf(j) = ChainOf(k)
  BY <1>4 DEF ChainOf
<1>6. k.heard \in Seq(Answers \cup {IllTyped})
  BY <1>1 DEF Calls
<1> HIDE DEF j
<1>7. InTurn(j) /\ Priced(j) /\ QuotaIsQuota(j)
  BY <1>4, <1>5 DEF CallOK, InTurn, Priced, QuotaIsQuota
<1>8. RowsDue(j)
  BY <1>1, <1>4, <1>6 DEF CallOK, InTurn, RowsDue, RowsOwed
<1> QED
  BY <1>2, <1>3, <1>7, <1>8 DEF Moves, CallOK

-----------------------------------------------------------------------------
(* The invariant is kept *)

\* A step that moves one call to a sound state leaves all calls sound.
LEMMA MovesKeepCalls ==
    ASSUME TypeOK, CallsOK, NEW c \in Callers, Moves(c)
    PROVE  call' \in [Callers -> Calls] /\ CallsOK'
<1>1. call' \in [Callers -> Calls]
  BY DEF TypeOK, Moves
<1>2. ASSUME NEW d \in Callers
      PROVE  CallOK(call'[d])
  <2>1. CASE d = c
    BY <2>1 DEF Moves
  <2>2. CASE d # c
    <3>1. call'[d] = call[d]
      BY <2>2 DEF Moves, TypeOK
    <3> QED
      BY <3>1 DEF CallsOK
  <2> QED
    BY <2>1, <2>2
<1> QED
  BY <1>1, <1>2 DEF CallsOK

\* A call that leaves the gate is one more past it; one whose row is written, one less.
LEMMA OnlyCMoves ==
    ASSUME TypeOK, NEW c \in Callers, Moves(c)
    PROVE  /\ c \notin PaidPastGate' => PaidPastGate' = PaidPastGate \ {c}
           /\ c \in PaidPastGate' => PaidPastGate' = PaidPastGate \cup {c}
<1>1. \A d \in Callers : d # c => call'[d] = call[d]
  BY DEF Moves, TypeOK
<1>2. \A d \in Callers : d # c => (d \in PaidPastGate' <=> d \in PaidPastGate)
  BY <1>1 DEF PaidPastGate, PastGate, TierOfCall
<1>3. PaidPastGate' \subseteq Callers /\ PaidPastGate \subseteq Callers
  BY DEF PaidPastGate, PastGate
<1> QED
  BY <1>2, <1>3

\* What the calls past the gate may still add leaves the sum below the bound.
Below == spent + MaxCost * Cardinality(PaidPastGate) < Cap + MaxCost * Cardinality(Callers)

\* A step that adds to the sum at most what a call may cost, and adds anything only when it
\* takes a paid call from past the gate, keeps the sum below the bound.
LEMMA BelowKept ==
    ASSUME TypeOK, Below, NEW c \in Callers, Moves(c),
           NEW cost \in 0..MaxCost, spent' = spent + cost,
           cost # 0 => c \in PaidPastGate /\ c \notin PaidPastGate',
           c \in PaidPastGate' => c \in PaidPastGate \/ spent < Cap
    PROVE  Below'
<1> DEFINE N == Cardinality(Callers)
           n == Cardinality(PaidPastGate)
           m == Cardinality(PaidPastGate')
<1>1. /\ IsFiniteSet(PaidPastGate)
      /\ N \in Nat /\ n \in Nat /\ n <= N
  BY PastGateFinite
<1>2. MaxCost \in Nat /\ Cap \in Nat /\ spent \in Nat
  BY RouterAssumption DEF RouterAssumption, TypeOK
<1>3. spent + MaxCost * n < Cap + MaxCost * N
  BY DEF Below
<1>4. MaxCost * n \in Nat /\ MaxCost * N \in Nat
  BY <1>1, <1>2, OneMore
<1> SUFFICES spent' + MaxCost * m < Cap + MaxCost * N
  BY DEF Below
<1>5. CASE c \notin PaidPastGate'
  <2>1. PaidPastGate' = PaidPastGate \ {c}
    BY <1>5, OnlyCMoves
  <2>2. CASE c \in PaidPastGate
    <3>1. m = n - 1
      BY <1>1, <2>1, <2>2, FS_RemoveElement
    <3>2. n - 1 \in Nat
      BY <1>1, <2>1, <3>1, FS_RemoveElement, FS_CardinalityType, SMTT(30)
    <3>3. MaxCost * n = MaxCost * (n - 1) + MaxCost /\ MaxCost * (n - 1) \in Nat
      <4>1. (n - 1) + 1 = n
        BY <1>1
      <4> QED
        BY <1>2, <3>2, <4>1, OneMore
    <3> HIDE DEF n, m, N
    <3> QED
      BY <1>2, <1>3, <1>4, <3>1, <3>3
  <2>3. CASE c \notin PaidPastGate
    <3>1. PaidPastGate' = PaidPastGate /\ cost = 0
      BY <2>1, <2>3
    <3> QED
      BY <1>2, <1>3, <3>1
  <2> QED
    BY <2>2, <2>3
<1>6. CASE c \in PaidPastGate' /\ c \in PaidPastGate
  <2>1. PaidPastGate' = PaidPastGate /\ cost = 0
    BY <1>6, OnlyCMoves
  <2> QED
    BY <1>2, <1>3, <2>1
<1>7. CASE c \in PaidPastGate' /\ c \notin PaidPastGate
  <2>1. cost = 0 /\ spent < Cap
    BY <1>7
  <2>2. PaidPastGate' \subseteq Callers /\ IsFiniteSet(Callers)
    BY RouterAssumption DEF RouterAssumption, PaidPastGate, PastGate
  <2>3. m \in Nat /\ m <= N
    BY <2>2, FS_Subset, FS_CardinalityType
  <2>4. MaxCost * m <= MaxCost * N /\ MaxCost * m \in Nat
    BY <1>1, <1>2, <2>3, Monotone, OneMore
  <2> HIDE DEF n, m, N
  <2> QED
    BY <1>2, <1>4, <2>1, <2>4
<1> QED
  BY <1>5, <1>6, <1>7

\* With a cap of 0 nothing passes the gate; with any other, nothing spent is below the bound.
LEMMA BoundKept ==
    ASSUME TypeOK, OvershootBounded, NEW c \in Callers, Moves(c),
           NEW cost \in 0..MaxCost, spent' = spent + cost,
           cost # 0 => c \in PaidPastGate /\ c \notin PaidPastGate',
           c \in PaidPastGate' => c \in PaidPastGate \/ spent < Cap
    PROVE  OvershootBounded'
<1>1. CASE Below
  BY <1>1, BelowKept DEF OvershootBounded, Below
<1>2. CASE spent = 0 /\ PaidPastGate = {} /\ Cap > 0
  <2> DEFINE N == Cardinality(Callers)
  <2>1. MaxCost \in Nat /\ Cap \in Nat /\ N \in Nat
    BY PastGateFinite, RouterAssumption DEF RouterAssumption
  <2>2. MaxCost * N \in Nat /\ MaxCost * 0 = 0
    BY <2>1, OneMore
  <2>3. 0 + MaxCost * 0 < Cap + MaxCost * N
    <3> HIDE DEF N
    <3> QED
      BY <1>2, <2>1, <2>2
  <2>4. Below
    BY <1>2, <2>3, FS_EmptySet DEF Below
  <2> QED
    BY <2>4, BelowKept DEF OvershootBounded, Below
<1>3. CASE spent = 0 /\ PaidPastGate = {} /\ ~(Cap > 0)
  <2>1. Cap \in Nat /\ MaxCost \in Nat
    BY RouterAssumption DEF RouterAssumption
  <2>2. cost = 0 /\ c \notin PaidPastGate'
    BY <1>3, <2>1
  <2>3. spent' = 0 /\ PaidPastGate' = {}
    BY <1>3, <2>2, OnlyCMoves
  <2> QED
    BY <2>3 DEF OvershootBounded
<1> QED
  BY <1>1, <1>2, <1>3 DEF OvershootBounded, Below

\* A step of a call keeps the invariant.
LEMMA CallStep ==
    ASSUME IInv, NEW c \in Callers, Work(c) \/ \E w \in Weights[c] : Start(c, w)
    PROVE  IInv'
<1> DEFINE k == call[c]
<1> USE DEF IInv
<1>0. /\ CallOK(k) /\ k \in Calls /\ call \in [Callers -> Calls]
      /\ spent \in Nat /\ logged \in Nat /\ day \in Nat /\ panel \in Panels /\ ever \in BOOLEAN
      /\ 0 \in 0..MaxCost /\ Cap \in Nat
  BY RouterAssumption DEF CallsOK, TypeOK, RouterAssumption
<1>1. ASSUME Moves(c), NEW cost \in 0..MaxCost, spent' = spent + cost,
             cost # 0 => c \in PaidPastGate /\ c \notin PaidPastGate',
             c \in PaidPastGate' => c \in PaidPastGate \/ spent < Cap,
             logged' \in Nat, ever' \in BOOLEAN, day' = day, panel' = panel
      PROVE  IInv'
  <2>1. call' \in [Callers -> Calls] /\ CallsOK'
    BY <1>1, MovesKeepCalls
  <2>2. OvershootBounded'
    BY <1>1, BoundKept
  <2>3. spent' \in Nat
    BY <1>0, <1>1
  <2> QED
    BY <1>0, <1>1, <2>1, <2>2, <2>3 DEF TypeOK
<1>2. ASSUME NEW w \in Weights[c], Start(c, w)
      PROVE  IInv'
  <2>1. Moves(c)
    BY <1>2, StartMoves
  <2>2. call'[c].pc = "ask" => ~TierIsPaid(TierOf(call'[c].weight))
    <3> DEFINE pc == CASE Providers[TierOf(w)] = <<>> -> "misconfigured"
                       [] TierIsPaid(TierOf(w))       -> "gate"
                       [] OTHER                       -> "ask"
    <3>1. call'[c] = [NoCall EXCEPT !.weight = w, !.pc = pc]
      BY <1>0, <1>2 DEF Start
    <3>2. call'[c].pc = pc /\ call'[c].weight = w
      BY <3>1 DEF NoCall
    <3>3. ASSUME TierIsPaid(TierOf(w))
          PROVE  pc # "ask"
      BY <3>3, Zenon
    <3> HIDE DEF pc
    <3> QED
      BY <3>2, <3>3
  <2>3. call'[c].pc # "record"
    <3> DEFINE pc == CASE Providers[TierOf(w)] = <<>> -> "misconfigured"
                       [] TierIsPaid(TierOf(w))       -> "gate"
                       [] OTHER                       -> "ask"
    <3>1. call'[c] = [NoCall EXCEPT !.weight = w, !.pc = pc]
      BY <1>0, <1>2 DEF Start
    <3> QED
      BY <3>1 DEF NoCall
  <2>4. c \notin PaidPastGate'
    BY <2>2, <2>3 DEF PaidPastGate, PastGate, TierOfCall
  <2>5. UNCHANGED <<spent, logged, ever, day, panel>>
    BY <1>2, Zenon DEF Start
  <2> QED
    BY <1>0, <1>1, <2>1, <2>4, <2>5
<1>3. ASSUME Gate(c)
      PROVE  IInv'
  <2>1. Moves(c)
    BY <1>0, <1>3, GateMoves
  <2>2. spent' = spent + 0 /\ UNCHANGED <<logged, ever, day, panel>>
    BY <1>0, <1>3 DEF Gate
  <2>3. call'[c].pc = IF spent >= Cap THEN "refuse" ELSE "ask"
    BY <1>0, <1>3 DEF Gate, Calls
  <2>4. c \in PaidPastGate' => spent < Cap
    BY <1>0, <2>3 DEF PaidPastGate, PastGate
  <2> QED
    BY <1>0, <1>1, <2>1, <2>2, <2>4
<1>4. ASSUME Refuse(c)
      PROVE  IInv'
  <2>1. Moves(c)
    BY <1>0, <1>4, RefuseMoves
  <2>2. spent' = spent + 0 /\ logged' \in Nat /\ ever' \in BOOLEAN /\ UNCHANGED <<day, panel>>
    BY <1>0, <1>4 DEF Refuse, AddRow
  <2>3. call'[c].pc = "budget"
    BY <1>0, <1>4 DEF Refuse, Calls
  <2>4. c \notin PaidPastGate'
    BY <2>3 DEF PaidPastGate, PastGate
  <2> QED
    BY <1>0, <1>1, <2>1, <2>2, <2>4
<1>5. ASSUME Answer(c)
      PROVE  IInv'
  <2>1. Moves(c)
    BY <1>0, <1>5, AnswerMoves
  <2>2. spent' = spent + 0 /\ UNCHANGED <<logged, ever, day, panel>>
    BY <1>0, <1>5 DEF Answer
  <2>3. k.pc = "ask" /\ call'[c].weight = k.weight
    BY <1>0, <1>5 DEF Answer, Calls
  <2>4. c \in PaidPastGate' => c \in PaidPastGate
    BY <2>3 DEF PaidPastGate, PastGate, TierOfCall
  <2> QED
    BY <1>0, <1>1, <2>1, <2>2, <2>4
<1>6. ASSUME AnswerEscapes(c)
      PROVE  IInv'
  <2>1. Moves(c)
    BY <1>0, <1>6, AnswerEscapesMoves
  <2>2. spent' = spent + 0 /\ UNCHANGED <<logged, ever, day, panel>>
    BY <1>0, <1>6 DEF AnswerEscapes
  <2>3. call'[c].pc = "escaped"
    BY <1>0, <1>6 DEF AnswerEscapes, Calls
  <2>4. c \notin PaidPastGate'
    BY <2>3 DEF PaidPastGate, PastGate
  <2> QED
    BY <1>0, <1>1, <2>1, <2>2, <2>4
<1>7. ASSUME Record(c)
      PROVE  IInv'
  <2>1. Moves(c)
    BY <1>0, <1>7, RecordMoves
  <2>2. /\ spent' = spent + k.cost /\ k.cost \in 0..MaxCost
        /\ logged' \in Nat /\ ever' \in BOOLEAN /\ UNCHANGED <<day, panel>>
    BY <1>0, <1>7 DEF Record, AddRow, Calls
  <2>3. k.pc = "record" /\ call'[c].weight = k.weight /\ call'[c].pc = After(c, k)
    BY <1>0, <1>7 DEF Record, Calls
  <2>4. c \in PaidPastGate' => c \in PaidPastGate
    BY <2>3 DEF PaidPastGate, PastGate, TierOfCall
  <2>5. ASSUME k.cost # 0
        PROVE  c \in PaidPastGate /\ c \notin PaidPastGate'
    <3>1. k.answer = "text" /\ TierIsPaid(TierOf(k.weight))
      BY <1>0, <2>5 DEF CallOK, Priced
    <3>2. After(c, k) = "returned"
      BY <3>1 DEF After, FailsOver
    <3> QED
      BY <2>3, <3>1, <3>2 DEF PaidPastGate, PastGate, TierOfCall
  <2> QED
    BY <1>1, <2>1, <2>2, <2>4, <2>5
<1>8. ASSUME LedgerFails(c)
      PROVE  IInv'
  <2>1. Moves(c)
    BY <1>0, <1>8, LedgerFailsMoves
  <2>2. spent' = spent + 0 /\ UNCHANGED <<logged, ever, day, panel>>
    BY <1>0, <1>8 DEF LedgerFails
  <2>3. call'[c].pc = "unrecorded"
    BY <1>0, <1>8 DEF LedgerFails, Calls
  <2>4. c \notin PaidPastGate'
    BY <2>3 DEF PaidPastGate, PastGate
  <2> QED
    BY <1>0, <1>1, <2>1, <2>2, <2>4
<1> QED
  BY <1>2, <1>3, <1>4, <1>5, <1>6, <1>7, <1>8 DEF Work, Serve

\* A step that moves no call keeps it: the day turns, or the panel is read.
LEMMA QuietStep ==
    ASSUME IInv, UNCHANGED call,
           spent' = spent \/ spent' = 0,
           logged' \in Nat, ever' \in BOOLEAN, day' \in Nat, panel' \in Panels
    PROVE  IInv'
<1> USE DEF IInv
<1>1. PaidPastGate' = PaidPastGate
  BY DEF PaidPastGate, PastGate, TierOfCall
<1>2. CallsOK' /\ call' \in [Callers -> Calls] /\ spent' \in Nat
  BY DEF CallsOK, TypeOK
<1>3. OvershootBounded'
  <2> DEFINE N == Cardinality(Callers)
             n == Cardinality(PaidPastGate)
  <2>1. MaxCost * n \in Nat /\ Cap + MaxCost * N \in Nat
    <3>1. MaxCost \in Nat /\ Cap \in Nat
      BY RouterAssumption DEF RouterAssumption
    <3>2. MaxCost * n \in Nat /\ MaxCost * N \in Nat
      BY <3>1, PastGateFinite, OneMore
    <3> HIDE DEF n, N
    <3> QED
      BY <3>1, <3>2
  <2>2. spent \in Nat
    BY DEF TypeOK
  <2>3. spent + MaxCost * n < Cap + MaxCost * N => spent' + MaxCost * n < Cap + MaxCost * N
    <3> HIDE DEF n, N
    <3> QED
      BY <2>1, <2>2
  <2> QED
    BY <1>1, <2>3 DEF OvershootBounded
<1> QED
  BY <1>2, <1>3 DEF TypeOK

\* No call has begun and nothing is spent.
LEMMA InitIInv ==
    ASSUME Init
    PROVE  IInv
<1>1. NoCall \in Calls
  BY RouterAssumption DEF NoCall, Calls, Answers, Ends, RouterAssumption
<1>2. TypeOK
  BY <1>1 DEF Init, TypeOK, NoPanel, Panels
<1>3. ASSUME NEW c \in Callers
      PROVE  CallOK(call[c])
  <2>1. call[c] = NoCall
    BY DEF Init
  <2>2. NoCall.pc = "idle" /\ NoCall.heard = <<>> /\ NoCall.cost = 0
    BY DEF NoCall
  <2>3. ChainOf(NoCall) \in Seq(Provider)
    BY <1>1, ChainType
  <2> QED
    BY <2>1, <2>2, <2>3 DEF CallOK, InTurn, Priced, RowsDue, QuotaIsQuota, Ends
<1>4. PaidPastGate = {}
  BY DEF Init, PaidPastGate, PastGate, NoCall
<1>5. OvershootBounded
  BY <1>4 DEF OvershootBounded, Init
<1> QED
  BY <1>2, <1>3, <1>5 DEF IInv, CallsOK

\* Every step keeps the invariant.
LEMMA NextIInv ==
    ASSUME IInv, [Next]_vars
    PROVE  IInv'
<1>0. spent \in Nat /\ logged \in Nat /\ ever \in BOOLEAN /\ day \in Nat /\ panel \in Panels
  BY DEF IInv, TypeOK
<1>1. CASE \E c \in Callers : Work(c) \/ \E w \in Weights[c] : Start(c, w)
  BY <1>1, CallStep
<1>2. CASE Midnight
  BY <1>0, <1>2, QuietStep DEF Midnight
<1>3. CASE StatusTotals
  <2>1. panel' \in Panels
    BY <1>0, <1>3 DEF StatusTotals, NoPanel, Panels
  <2> QED
    BY <1>0, <1>3, <2>1, QuietStep DEF StatusTotals
<1>4. CASE StatusByType
  <2>1. panel' \in Panels
    BY <1>0, <1>4 DEF StatusByType, Panels
  <2> QED
    BY <1>0, <1>4, <2>1, QuietStep DEF StatusByType
<1>5. CASE StatusLast
  <2>1. panel' \in Panels
    BY <1>0, <1>5 DEF StatusLast, NoPanel, Panels
  <2> QED
    BY <1>0, <1>5, <2>1, QuietStep DEF StatusLast
<1>6. CASE UNCHANGED vars
  BY <1>0, <1>6, QuietStep DEF vars
<1> QED
  BY <1>1, <1>2, <1>3, <1>4, <1>5, <1>6 DEF Next

\* The invariant holds in every state.
LEMMA Invariance == Spec => []IInv
<1>1. Init => IInv
  BY InitIInv
<1>2. IInv /\ [Next]_vars => IInv'
  BY NextIInv
<1> QED
  BY <1>1, <1>2, PTL DEF Spec

-----------------------------------------------------------------------------
(* What the router promises *)

\* However many calls run together, over any tiers and providers and however often they fail
\* over: the day's recorded spend exceeds the cap by less than one call's cost for each of
\* them; and a call that ends by one of the router's branches leaves a row for every answer it
\* got, where one that an ill-typed answer or the ledger itself breaks off (openrouter.py:133,
\* postgres_cost_store.py) is short of its last row and of no other.
THEOREM LedgerSound == Spec => []LedgerIsSound
<1>1. IInv => RowPerAnswer
  <2>1. SUFFICES ASSUME IInv, NEW c \in Callers
                 PROVE  InTurn(call[c]) /\ RowsDue(call[c])
    BY DEF RowPerAnswer, InTurn, RowsDue, ChainOf, Chain, TierOfCall
  <2> QED
    BY <2>1 DEF IInv, CallsOK, CallOK
<1>2. IInv => LedgerIsSound
  BY <1>1 DEF IInv, LedgerIsSound
<1> QED
  BY <1>2, Invariance, PTL

\* The run pauses for quota exactly when every provider of the free tier, however many
\* there are, answered this call with a rate limit (LLMQuotaExhaustedError in router.py).
THEOREM PauseMeansQuota == Spec => []PauseOnlyOnQuota
<1>1. IInv => PauseOnlyOnQuota
  <2>1. SUFFICES ASSUME IInv, NEW c \in Callers
                 PROVE  QuotaIsQuota(call[c])
    BY DEF PauseOnlyOnQuota, QuotaIsQuota, ChainOf, Chain, TierOfCall
  <2> QED
    BY <2>1 DEF IInv, CallsOK, CallOK
<1> QED
  BY <1>1, Invariance, PTL
-----------------------------------------------------------------------------
(* The status panel *)

\* What a status request has read is not outrun by the ledger: rows are only added within
\* the day it read, and a later day is not the one it read.
PanelInv ==
    /\ panel.day <= day
    /\ logged > 0 => ever
    /\ panel.calls > 0 => ever
    /\ panel.pc # "idle" /\ panel.day = day => panel.calls <= logged
    /\ panel.pc = "last" /\ panel.day = day => panel.calls <= panel.types

\* Rows are only ever added within the day.
LEMMA PanelKept ==
    ASSUME TypeOK, PanelInv, UNCHANGED <<day, panel>>,
           \/ UNCHANGED <<logged, ever>>
           \/ logged' = logged + 1 /\ ever' = TRUE
    PROVE  PanelInv'
<1>1. /\ panel.day \in Nat /\ panel.calls \in Nat /\ panel.types \in Nat
      /\ logged \in Nat /\ day \in Nat
  BY DEF TypeOK, Panels
<1>2. CASE UNCHANGED <<logged, ever>>
  BY <1>2 DEF PanelInv
<1>3. CASE logged' = logged + 1 /\ ever' = TRUE
  BY <1>1, <1>3 DEF PanelInv
<1> QED
  BY <1>2, <1>3

\* Every step keeps it.
LEMMA PanelNext ==
    ASSUME TypeOK, PanelInv, [Next]_vars
    PROVE  PanelInv'
<1>0. /\ panel \in Panels /\ logged \in Nat /\ day \in Nat
      /\ panel.day \in Nat /\ panel.calls \in Nat /\ panel.types \in Nat
  BY DEF TypeOK, Panels
<1>1. ASSUME NEW c \in Callers, Work(c) \/ \E w \in Weights[c] : Start(c, w)
      PROVE  PanelInv'
  <2>1. CASE Refuse(c) \/ Record(c)
    BY <2>1, PanelKept DEF Refuse, Record, AddRow
  <2>2. CASE Gate(c) \/ Answer(c) \/ AnswerEscapes(c) \/ LedgerFails(c)
    BY <2>2, PanelKept DEF Gate, Answer, AnswerEscapes, LedgerFails
  <2>3. ASSUME NEW w \in Weights[c], Start(c, w)
        PROVE  PanelInv'
    <3>1. UNCHANGED <<logged, ever, day, panel>>
      BY <2>3, Zenon DEF Start
    <3> QED
      BY <3>1, PanelKept
  <2> QED
    BY <1>1, <2>1, <2>2, <2>3 DEF Work, Serve
<1>2. CASE Midnight
  <2>1. day' = day + 1 /\ logged' = 0 /\ ever' = ever /\ panel' = panel
    BY <1>2 DEF Midnight
  <2> QED
    BY <1>0, <2>1 DEF PanelInv
<1>3. CASE StatusTotals
  <2>1. /\ panel'.pc = "types" /\ panel'.calls = logged /\ panel'.day = day
        /\ UNCHANGED <<logged, ever, day>>
    BY <1>3 DEF StatusTotals, NoPanel
  <2> QED
    BY <1>0, <2>1 DEF PanelInv
<1>4. CASE StatusByType
  <2>1. /\ panel.pc = "types" /\ panel'.pc = "last"
        /\ panel'.types = logged /\ panel'.calls = panel.calls /\ panel'.day = panel.day
        /\ UNCHANGED <<logged, ever, day>>
    BY <1>0, <1>4 DEF StatusByType, Panels
  <2> QED
    BY <1>0, <2>1 DEF PanelInv
<1>5. CASE StatusLast
  <2>1. panel'.pc = "idle" /\ panel'.calls = 0 /\ panel'.day = 0 /\ UNCHANGED <<logged, ever, day>>
    BY <1>5 DEF StatusLast, NoPanel
  <2> QED
    BY <1>0, <2>1 DEF PanelInv
<1>6. CASE UNCHANGED vars
  BY <1>6, PanelKept DEF vars
<1> QED
  BY <1>1, <1>2, <1>3, <1>4, <1>5, <1>6 DEF Next

\* Whatever is recorded between the three statements of a status request, and over a
\* midnight: within one day the breakdown accounts for every call of the total, and calls
\* are never shown without a last call (summary_today of the cost store reads the totals first,
\* then the breakdown, and llm_status reads the last call after both).
THEOREM PanelAccounts == Spec => PanelAccountsForTotal
<1>1. Init => PanelInv
  BY DEF Init, PanelInv, NoPanel
<1>2. IInv /\ PanelInv /\ [Next]_vars => PanelInv'
  BY PanelNext DEF IInv
<1>3. ASSUME PanelInv, [Next]_vars, panel.pc = "last", panel'.pc = "idle"
      PROVE  /\ day = panel.day => panel.calls <= panel.types
             /\ panel.calls > 0 => ever
  BY <1>3 DEF PanelInv
<1>4. PanelInv /\ [Next]_vars
        => [panel.pc = "last" /\ panel'.pc = "idle" =>
              /\ day = panel.day => panel.calls <= panel.types
              /\ panel.calls > 0 => ever]_vars
  BY <1>3
<1> QED
  BY <1>1, <1>2, <1>4, Invariance, PTL DEF Spec, PanelAccountsForTotal
=============================================================================
