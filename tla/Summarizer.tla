----------------------------- MODULE Summarizer -----------------------------
(***************************************************************************)
(* summarizer/batch_summarize.py: the batches of symbols that a run of the *)
(* AI summarizer sends, from a pool of worker threads, and the circuit     *)
(* breaker they share.  A batch looks at the breaker, without its lock,    *)
(* when a worker starts it, and not again; a batch that fails, that comes  *)
(* after the breaker has tripped, or whose answer leaves symbols out, has  *)
(* its symbols summarised by their signature.                              *)
(***************************************************************************)
EXTENDS Naturals, FiniteSets

CONSTANTS Batches,      \* the batches of one run
          Workers,      \* summarizer_concurrency
          MaxFailures   \* summarizer_max_failures; 0 for no breaker

ASSUME SummarizerAssumption ==
    /\ IsFiniteSet(Batches)
    /\ Workers \in Nat \ {0} /\ MaxFailures \in Nat

VARIABLES batch,     \* what happens to each batch
          summary,   \* how its symbols are summarised
          failures,  \* _consecutive_failures
          broken,    \* _circuit_broken
          sentLate   \* history: requests sent after the breaker had tripped

summaryVars == <<batch, summary, failures, broken, sentLate>>

Running == {"looked", "sent", "answered", "failed"}

SummaryTypeOK ==
    /\ batch \in [Batches -> Running \cup {"queued", "done"}]
    /\ summary \in [Batches -> {"none", "model", "mixed", "signature"}]
    /\ failures \in Nat
    /\ broken \in BOOLEAN
    /\ sentLate \in Nat
    /\ Cardinality({b \in Batches : batch[b] \in Running}) <= Workers

SummaryInit ==
    /\ batch = [b \in Batches |-> "queued"]
    /\ summary = [b \in Batches |-> "none"]
    /\ failures = 0
    /\ broken = FALSE
    /\ sentLate = 0

Move(b, from, to) == batch[b] = from /\ batch' = [batch EXCEPT ![b] = to]

Summarised(b, how) == summary' = [summary EXCEPT ![b] = how]

----------------------------------------------------------------------------
\* A wrong pool, which has a thread for every batch.
RunBatchUnpooled(b) ==
    /\ IF broken
       THEN Move(b, "queued", "done") /\ Summarised(b, "signature")
       ELSE Move(b, "queued", "looked") /\ summary' = summary
    /\ UNCHANGED <<failures, broken, sentLate>>

\* A wrong _run_batch, which does not look at the breaker.
RunBatchUnlooked(b) ==
    /\ Cardinality({c \in Batches : batch[c] \in Running}) < Workers
    /\ Move(b, "queued", "looked")
    /\ UNCHANGED <<summary, failures, broken, sentLate>>

\* _run_batch: a free worker takes the batch and looks at the breaker.
RunBatch(b) ==
    /\ Cardinality({c \in Batches : batch[c] \in Running}) < Workers
    /\ IF broken
       THEN Move(b, "queued", "done") /\ Summarised(b, "signature")
       ELSE Move(b, "queued", "looked") /\ summary' = summary
    /\ UNCHANGED <<failures, broken, sentLate>>

\* _summarize_one_batch: the request goes out.
SendPrompt(b) ==
    /\ Move(b, "looked", "sent")
    /\ sentLate' = IF broken THEN sentLate + 1 ELSE sentLate
    /\ UNCHANGED <<summary, failures, broken>>

\* _apply_summaries: a summary for each symbol, or its signature if it has none.
ApplySummaries(b) ==
    /\ Move(b, "sent", "answered")
    /\ \E how \in {"model", "mixed", "signature"} : Summarised(b, how)
    /\ UNCHANGED <<failures, broken, sentLate>>

RecordSuccess(b) ==
    /\ Move(b, "answered", "done")
    /\ failures' = 0
    /\ UNCHANGED <<summary, broken, sentLate>>

Trips(n) == MaxFailures > 0 /\ n >= MaxFailures

\* _record_failure, on an error, a refusal or the client's timeout.
RecordFailure(b) ==
    /\ Move(b, "sent", "failed")
    /\ failures' = failures + 1
    /\ broken' = (broken \/ Trips(failures + 1))
    /\ UNCHANGED <<summary, sentLate>>

\* A wrong handler, which leaves the symbols of a failed batch alone.
ForgetFailed(b) ==
    /\ Move(b, "failed", "done")
    /\ UNCHANGED <<summary, failures, broken, sentLate>>

\* ... and then the signatures.
FallBack(b) ==
    /\ Move(b, "failed", "done")
    /\ Summarised(b, "signature")
    /\ UNCHANGED <<failures, broken, sentLate>>

----------------------------------------------------------------------------
WorkerStep(b) == \/ RunBatch(b) \/ SendPrompt(b) \/ ApplySummaries(b)
                 \/ RecordSuccess(b) \/ RecordFailure(b) \/ FallBack(b)

SummaryNext == \E b \in Batches : WorkerStep(b)

SummarySpec == SummaryInit /\ [][SummaryNext]_summaryVars

----------------------------------------------------------------------------
(* Properties *)

\* Once the breaker trips, no more requests go out than the other workers had
\* begun: each of them has looked before, and none looks again ("disabling for
\* remaining symbols").
FewSentAfterTrip == sentLate < Workers

\* Once a run has begun every batch is dealt with, by the model or by signature,
\* tripped breaker or not: "Always produces something" (signature_fallback, 106).
SummariesEnd ==
    (\E b \in Batches : batch[b] # "queued")
      ~> (\A b \in Batches : batch[b] = "done" /\ summary[b] # "none")
=============================================================================
