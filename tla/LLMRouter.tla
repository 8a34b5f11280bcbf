------------------------------ MODULE LLMRouter ------------------------------
(***************************************************************************)
(* The router every agent's model call goes through, and the llm_calls     *)
(* ledger it keeps (adapters/llm/router.py, postgres_cost_store.py, the    *)
(* two provider adapters, and the status route that reads the ledger).     *)
(*                                                                         *)
(* A call picks a tier, asks the ledger for today's spend when the tier    *)
(* costs money, then asks the tier's providers one after the other until   *)
(* one answers.  Each await is a step: other calls run between the read of *)
(* the spend, the answer of a provider and the write of its row.           *)
(*                                                                         *)
(* The ledger's rows are only read through aggregates, so the state keeps  *)
(* those: the day's USD sum and the day's number of rows (of all task      *)
(* types: the panel's breakdown is read for its sum).                      *)
(***************************************************************************)
EXTENDS Naturals, Sequences, FiniteSets

CONSTANTS
    Callers,        \* requests that may have a call in flight (one at a time each)
    Weights,        \* caller -> the task weights it asks with (fixed in each agent)
    GpuAvailable,   \* LLMRouter(gpu_available=...)
    Provider,       \* provider adapters
    Paid,           \* the adapters with a price (OpenRouterProvider)
    Providers,      \* tier -> sequence of adapters, LLMRouter(providers=...)
    Cap,            \* daily_budget_usd, in units of money
    MaxCost,        \* bound: the dearest single call, in the same units
    MaxRows,        \* bound: rows of a day after which no call starts, for model checking
    MaxDays         \* bound: midnights passed, for model checking

Tiers == {"local_small", "cloud_free", "cloud_strong"}

ASSUME RouterAssumption ==
    /\ IsFiniteSet(Callers)
    /\ Weights \in [Callers -> SUBSET {"light", "medium", "heavy"}]
    /\ GpuAvailable \in BOOLEAN
    /\ Paid \subseteq Provider
    /\ Providers \in [Tiers -> Seq(Provider)]
    /\ Cap \in Nat /\ MaxCost \in Nat
    /\ MaxRows \in Nat /\ MaxDays \in Nat

VARIABLES
    spent,      \* SUM(cost_estimate) over today's rows
    logged,     \* COUNT(*) of today's rows
    ever,       \* TRUE once the ledger has a row of any day
    day,        \* midnights passed
    call,       \* caller -> its call in flight, or the last one it ended
    panel       \* the status request in flight

vars == <<spent, logged, ever, day, call, panel>>

-----------------------------------------------------------------------------
(* What a provider's complete() does to the router *)

\* The ways it ends that complete() of the router has a branch for: the text; HTTP 402 of a
\* paid account; HTTP 429; a 401, a 5xx, a transport error, a 200 that does not parse, lacks
\* its fields or has no text; any other status that is not a success.
Answers == {"text", "no_credit", "rate_limited", "fault", "rejected"}

\* Only OpenRouter turns a 402 into BudgetExceededError; Ollama's is one more rejection.
AnswersOf(p) == IF p \in Paid THEN Answers ELSE Answers \ {"no_credit"}

\* estimate_cost: no figure (0 to the sum) when the provider is free or a token count is
\* missing from the response.
CostsOf(p) == IF p \in Paid THEN 0..MaxCost ELSE {0}

\* tier_for_weight
TierOf(weight) ==
    CASE weight = "light"  -> IF GpuAvailable THEN "local_small" ELSE "cloud_free"
      [] weight = "medium" -> "cloud_free"
      [] OTHER             -> "cloud_strong"

\* _tier_is_paid
TierIsPaid(tier) == \E i \in DOMAIN Providers[tier] : Providers[tier][i] \in Paid

\* A 200 whose fields have other types than the adapters take for granted: a content that is
\* no string, a usage that is no object, token counts that are no numbers.  It raises an
\* AttributeError, TypeError or ValidationError, none of which the router catches.
IllTyped == "ill_typed"

-----------------------------------------------------------------------------
(* A call: the weight names its task type too; heard is the history of answers in order *)

Ends == {"returned", "misconfigured", "budget", "quota", "error", "escaped", "unrecorded"}

NoCall == [pc |-> "idle", weight |-> "medium", next |-> 1, nonQuota |-> FALSE,
           answer |-> "text", cost |-> 0, rows |-> 0, heard |-> <<>>]

NoPanel == [pc |-> "idle", calls |-> 0, types |-> 0, day |-> 0]

Calls ==
    [pc : {"idle", "gate", "refuse", "ask", "record"} \cup Ends,
     weight : {"light", "medium", "heavy"}, next : Nat \ {0}, nonQuota : BOOLEAN,
     answer : Answers, cost : 0..MaxCost, rows : Nat,
     heard : Seq(Answers \cup {IllTyped})]

Panels == [pc : {"idle", "types", "last"}, calls : Nat, types : Nat, day : Nat]

Init ==
    /\ spent = 0
    /\ logged = 0
    /\ ever = FALSE
    /\ day = 0
    /\ call = [c \in Callers |-> NoCall]
    /\ panel = NoPanel

TierOfCall(c) == TierOf(call[c].weight)
Chain(c) == Providers[TierOfCall(c)]

\* complete() up to its first await: the tier, and whether the budget gate applies.
Start(c, w) ==
    /\ call[c].pc \in {"idle"} \cup Ends
    /\ logged < MaxRows
    /\ call' = [call EXCEPT ![c] = [NoCall EXCEPT !.weight = w, !.pc =
                 CASE Providers[TierOf(w)] = <<>> -> "misconfigured"
                   [] TierIsPaid(TierOf(w))       -> "gate"
                   [] OTHER                       -> "ask"]]
    /\ UNCHANGED <<spent, logged, ever, day, panel>>

GateLoose(c) ==   \* mutant: the call that reaches the cap is let through once more
    /\ call[c].pc = "gate"
    /\ call' = [call EXCEPT ![c].pc = IF spent > Cap THEN "refuse" ELSE "ask"]
    /\ UNCHANGED <<spent, logged, ever, day, panel>>

GateWaits(c) ==   \* mutant: a call over the budget waits for the next day
    /\ call[c].pc = "gate" /\ spent < Cap
    /\ call' = [call EXCEPT ![c].pc = "ask"]
    /\ UNCHANGED <<spent, logged, ever, day, panel>>

\* The gate reads the day's spend; what it decides holds for the rest of the call.
Gate(c) ==
    /\ call[c].pc = "gate"
    /\ call' = [call EXCEPT ![c].pc = IF spent >= Cap THEN "refuse" ELSE "ask"]
    /\ UNCHANGED <<spent, logged, ever, day, panel>>

\* One row, in a transaction of its own.
AddRow(cost) ==
    /\ logged' = logged + 1
    /\ spent' = spent + cost
    /\ ever' = TRUE

\* The refusal before dispatch leaves a row, then raises BudgetExceededError.
Refuse(c) ==
    LET k == call[c] IN
    /\ k.pc = "refuse"
    /\ AddRow(0)
    /\ call' = [call EXCEPT ![c] = [k EXCEPT !.pc = "budget", !.rows = k.rows + 1]]
    /\ UNCHANGED <<day, panel>>

\* The provider in turn answers in one of the ways the router knows.
Answer(c) ==
    LET k == call[c]
        p == Chain(c)[k.next] IN
    /\ k.pc = "ask"
    /\ \E a \in AnswersOf(p) : \E cost \in (IF a = "text" THEN CostsOf(p) ELSE {0}) :
          call' = [call EXCEPT ![c] = [k EXCEPT
                     !.pc = "record", !.answer = a, !.cost = cost,
                     !.heard = Append(k.heard, a)]]
    /\ UNCHANGED <<spent, logged, ever, day, panel>>

\* The provider in turn answers 200 with fields of other types: the exception leaves the
\* router at once, with no row and no failover, whatever the answer cost.
AnswerEscapes(c) ==
    LET k == call[c] IN
    /\ k.pc = "ask"
    /\ call' = [call EXCEPT ![c] = [k EXCEPT
                 !.pc = "escaped", !.heard = Append(k.heard, IllTyped)]]
    /\ UNCHANGED <<spent, logged, ever, day, panel>>

\* A rate limit or a fault fails over; anything else but text is raised as it is.
FailsOver(a) == a \in {"rate_limited", "fault"}

NonQuotaLast(k) == k.answer = "fault"   \* mutant: an earlier fault is forgotten

\* saw_non_quota_failure after this answer
NonQuota(k) == k.nonQuota \/ k.answer = "fault"

\* Where the call goes once the row of its last answer is written.
After(c, k) ==
    CASE k.answer = "text"           -> "returned"
      [] k.answer = "no_credit"      -> "budget"
      [] k.answer = "rejected"       -> "error"
      [] FailsOver(k.answer)         ->
           IF k.next < Len(Chain(c)) THEN "ask"
           ELSE IF TierOfCall(c) = "cloud_free" /\ ~NonQuota(k) THEN "quota"
           ELSE "error"

\* The row of the answer is written, then the call returns, raises or asks the next one.
Record(c) ==
    LET k == call[c] IN
    /\ k.pc = "record"
    /\ AddRow(k.cost)
    /\ call' = [call EXCEPT ![c] = [k EXCEPT
               !.pc = After(c, k), !.cost = 0, !.rows = k.rows + 1, !.nonQuota = NonQuota(k),
               !.next = IF FailsOver(k.answer) THEN k.next + 1 ELSE k.next]]
    /\ UNCHANGED <<day, panel>>

\* The database fails: spend_today_usd() or record() raises out of the router, before
\* anything was asked or whatever was answered.
LedgerFails(c) ==
    /\ call[c].pc \in {"gate", "refuse", "record"}
    /\ call' = [call EXCEPT ![c] = [call[c] EXCEPT !.pc = "unrecorded", !.cost = 0]]
    /\ UNCHANGED <<spent, logged, ever, day, panel>>

MidnightPurges ==   \* mutant: the rows of the day before are dropped
    /\ day < MaxDays
    /\ day' = day + 1
    /\ spent' = 0
    /\ logged' = 0
    /\ ever' = FALSE
    /\ UNCHANGED <<call, panel>>

\* "Today" starts again at the database server's midnight.
Midnight ==
    /\ day < MaxDays
    /\ day' = day + 1
    /\ spent' = 0
    /\ logged' = 0
    /\ UNCHANGED <<ever, call, panel>>

(* GET /llm/status: three statements, each with a snapshot of its own *)

StatusTotals ==
    /\ panel.pc = "idle"
    /\ panel' = [NoPanel EXCEPT !.pc = "types", !.calls = logged, !.day = day]
    /\ UNCHANGED <<spent, logged, ever, day, call>>

StatusByType ==
    /\ panel.pc = "types"
    /\ panel' = [panel EXCEPT !.pc = "last", !.types = logged]
    /\ UNCHANGED <<spent, logged, ever, day, call>>

StatusLast ==
    /\ panel.pc = "last"
    /\ panel' = NoPanel
    /\ UNCHANGED <<spent, logged, ever, day, call>>

\* What the server does for a call it has taken.
Serve(c) == Gate(c) \/ Refuse(c) \/ Answer(c) \/ AnswerEscapes(c) \/ Record(c)

Work(c) == Serve(c) \/ LedgerFails(c)

Next ==
    \/ \E c \in Callers : Work(c) \/ \E w \in Weights[c] : Start(c, w)
    \/ Midnight
    \/ StatusTotals \/ StatusByType \/ StatusLast

\* A provider answers or times out (timeout=120.0) and so does the database: a call in
\* flight never waits for ever.  Nobody has to start one, and nothing has to fail.
Spec == Init /\ [][Next]_vars /\ \A c \in Callers : WF_vars(Serve(c))

-----------------------------------------------------------------------------
(* Properties *)

TypeOK ==
    /\ spent \in Nat
    /\ logged \in Nat
    /\ ever \in BOOLEAN
    /\ day \in Nat
    /\ call \in [Callers -> Calls]
    /\ panel \in Panels

\* Calls that have read the spend (or need not) and whose row may still add to it.
PastGate == {c \in Callers : call[c].pc \in {"ask", "record"}}
PaidPastGate == {c \in PastGate : TierIsPaid(TierOfCall(c))}

\* However many calls run together, the recorded spend stays below the cap plus one call's
\* cost for each of them: a call adds to the sum at most once after it has read it below
\* the cap, also over a midnight and when it fails over from provider to provider.  A cap of
\* 0 lets nothing through.
OvershootBounded ==
    \/ spent = 0 /\ PaidPastGate = {}
    \/ spent + MaxCost * Cardinality(PaidPastGate) < Cap + MaxCost * Cardinality(Callers)

\* The router's own words: "Bounded one-call overshoot is accepted".  False: every call in
\* flight reads the spend before the others have recorded theirs.
OneCallOvershoot == spent < Cap + MaxCost

\* The run pauses to ask the user about quota exactly when every provider of the free tier
\* answered this call with a rate limit; a bad key, an outage or a malformed answer among
\* them surfaces as an error instead.
PauseOnlyOnQuota ==
    \A c \in Callers :
        LET k == call[c]
            allLimited == /\ Len(k.heard) = Len(Chain(c))
                          /\ \A i \in DOMAIN k.heard : k.heard[i] = "rate_limited" IN
        k.pc \in Ends \ {"unrecorded", "misconfigured"} =>
            (k.pc = "quota" <=> TierOfCall(c) = "cloud_free" /\ allLimited)

\* The rows a call owes: one for each answer it heard, or one for a refusal before dispatch.
RowsOwed(k) == IF k.heard = <<>> THEN 1 ELSE Len(k.heard)

\* A call that ended by a branch of the router left the rows it owes, whatever it heard and
\* however often it failed over.  One that ended by an ill-typed answer or by a failure of the
\* ledger is short of exactly its last row.  No provider is asked twice in a call.
RowPerAnswer ==
    \A c \in Callers :
        LET k == call[c] IN
        /\ Len(k.heard) <= Len(Chain(c))
        /\ k.pc \in {"returned", "budget", "quota", "error"} => k.rows = RowsOwed(k)
        /\ k.pc \in {"escaped", "unrecorded"} => k.rows = RowsOwed(k) - 1

\* The router's own words: it "writes one ledger row per call (success, refusal, or
\* failure)".  False even while the database answers: an ill-typed answer raises past every
\* except clause, so a provider was asked, and perhaps paid, and no row says so.
EveryAnswerHasRow ==
    \A c \in Callers :
        call[c].pc \in Ends \ {"misconfigured", "unrecorded"} => call[c].rows = RowsOwed(call[c])

\* What the ledger can be trusted for, with any number of calls in flight: how far the sum
\* may run over the cap, and which rows may be missing.
LedgerIsSound == TypeOK /\ OvershootBounded /\ RowPerAnswer

\* The status answer reads the totals first, so within one day its breakdown accounts for
\* every call of its total, and it never shows calls without a last call.
PanelAccountsForTotal ==
    [][panel.pc = "last" /\ panel'.pc = "idle" =>
         /\ day = panel.day => panel.calls <= panel.types
         /\ panel.calls > 0 => ever]_vars

\* Every call ends: it returns or raises, however its providers fail and whatever was spent.
CallsEnd ==
    \A c \in Callers : call[c].pc \in {"gate", "ask"} ~> call[c].pc \in Ends
=============================================================================
