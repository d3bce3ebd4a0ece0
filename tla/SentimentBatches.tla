--------------------------- MODULE SentimentBatches ---------------------------
(***************************************************************************)
(* classify_and_store_reviews() of src/backend/src/ai/sentiment/pipeline.py*)
(* as the API, the import's background task and the analysis worker run it *)
(* at once.  A batch picks reviews, reserves one record of the allowance   *)
(* for each that has no label yet, classifies them, stores the labels and  *)
(* settles to the labels it stored, in one transaction.  While the text    *)
(* model is away a review's star rating stands in for its label; the model *)
(* replaces the stand-in later, uncounted.                                 *)
(*                                                                         *)
(* The reservation updates the counter's row and so keeps it locked up to  *)
(* the commit; what a batch wrote is seen by others from then on.          *)
(***************************************************************************)
EXTENDS UsageCounters

CONSTANTS
    Reviews,     \* a set of numbers, in the order of the review dates
    Rated,       \* the reviews that carry a star rating
    BatchSize,   \* reviews picked at once
    Batches      \* callers of classify_and_store_reviews()

ASSUME BatchesAssumption ==
    /\ Reviews \subseteq Nat /\ IsFiniteSet(Reviews)
    /\ Rated \subseteq Reviews /\ BatchSize \in Nat

VARIABLES
    label,     \* sentiment_results: who made each review's label
    paid,      \* how many records were charged for each review
    batch,     \* what each batch has read and reserved
    overtaken  \* reviews labelled by their stars while another batch held them for new

sentimentVars == <<label, paid, batch, overtaken>>

Idle == [at |-> "idle", left |-> 0, seen |-> {}, new |-> {}, period |-> 0]

SentimentTypeOK ==
    /\ label \in [Reviews -> {"none", "rating", "model"}]
    /\ paid \in [Reviews -> Nat]
    /\ batch \in [Batches ->
        [at : {"idle", "hinted", "loaded", "reserved", "predicted", "rated"}, left : Nat,
         seen : SUBSET Reviews, new : SUBSET Reviews, period : Periods]]
    /\ overtaken \subseteq Reviews

SentimentInit ==
    /\ label = [r \in Reviews |-> "none"]
    /\ paid = [r \in Reviews |-> 0]
    /\ batch = [b \in Batches |-> Idle]
    /\ overtaken = {}

-----------------------------------------------------------------------------
Is(b, step) == batch[b].at = step
Becomes(b, row) == batch' = [batch EXCEPT ![b] = row]
Same == UNCHANGED <<usageVars, label, paid, overtaken>>

\* ORDER BY sr.sentiment_id IS NOT NULL, r.review_date LIMIT n
Sooner(r, s) ==
    IF (label[r] = "none") = (label[s] = "none") THEN r < s ELSE label[r] = "none"
First(set, n) == {r \in set : Cardinality({s \in set : Sooner(s, r)}) < n}

\* remaining() bounds the batch
Hint(b) ==
    LET left == Left("sentiment_analysis") IN
    /\ Is(b, "idle") /\ left > 0
    /\ Becomes(b, [Idle EXCEPT !.at = "hinted", !.left = IF left < BatchSize THEN left ELSE BatchSize])
    /\ Same

\* load_unanalyzed_reviews(include_rating_fallbacks=True)
Load(b) ==
    LET seen == First({r \in Reviews : label[r] # "model"}, batch[b].left) IN
    /\ Is(b, "hinted")
    /\ Becomes(b, IF seen = {} THEN Idle
                  ELSE [Idle EXCEPT !.at = "loaded", !.seen = seen,
                                   !.new = {r \in seen : label[r] = "none"}])
    /\ Same

\* The row of this period's counter, locked by an uncommitted reservation
Holding(b) == batch[b].new # {} /\ batch[b].at \in {"reserved", "predicted", "rated"}
Held(p) == \E b \in Batches : Holding(b) /\ batch[b].period = p

\* mutant: the hint is taken for a reservation
ReserveByHint(b) ==
    /\ Is(b, "loaded")
    /\ Becomes(b, [batch[b] EXCEPT !.at = "reserved", !.period = period])
    /\ Same

\* reserve(); a batch of stand-ins only reserves nothing
Reserve(b) ==
    /\ Is(b, "loaded")
    /\ batch[b].new # {} => ~Held(period) /\ Room("sentiment_analysis", Cardinality(batch[b].new))
    /\ Becomes(b, [batch[b] EXCEPT !.at = "reserved", !.period = period])
    /\ Same

\* QUOTA_EXHAUSTED, an inactive plan, an error or the end of the process
GiveUp(b) ==
    /\ ~Is(b, "idle")
    /\ Becomes(b, Idle)
    /\ Same

\* The text model answers
Predict(b) ==
    /\ Is(b, "reserved")
    /\ Becomes(b, [batch[b] EXCEPT !.at = "predicted"])
    /\ Same

\* The model is away: load_unanalyzed_reviews(limit=new_count, rated_only=True)
\* looks again for reviews without a label.  If there are none, or the batch
\* had stand-ins only, nothing is stored and nothing charged.
Rate(b) ==
    LET again == First({r \in Rated : label[r] = "none"}, Cardinality(batch[b].new)) IN
    /\ Is(b, "reserved")
    /\ Becomes(b, IF again = {} THEN Idle
                  ELSE [batch[b] EXCEPT !.at = "rated", !.seen = again, !.new = again])
    /\ Same

\* ON CONFLICT (review_id) DO UPDATE ... WHERE model_version = RATING_MODEL_VERSION
Overwritable(r) == label[r] # "model"

\* analyzed_count: the stored labels of reviews that were loaded without one
Charged(b, stored) == stored \cap batch[b].new

\* model_version of the labels
LabelOf(b) == IF Is(b, "rated") THEN "rating" ELSE "model"

\* Each label in a savepoint of its own: one that fails is left for a later
\* batch, one the model made for another batch meanwhile is not overwritten.
\* Then settle() to the labels stored, and the commit.
Store(b) ==
    /\ batch[b].at \in {"predicted", "rated"}
    /\ \E failed \in SUBSET batch[b].seen :
        LET stored == {r \in batch[b].seen \ failed : Overwritable(r)}
            charged == Charged(b, stored)
        IN  /\ label' = [r \in Reviews |-> IF r \in stored THEN LabelOf(b) ELSE label[r]]
            /\ paid' = [r \in Reviews |-> IF r \in charged THEN paid[r] + 1 ELSE paid[r]]
            /\ used' = Counted("sentiment_analysis", batch[b].period, Cardinality(charged))
            /\ overtaken' = IF Is(b, "predicted") THEN overtaken
                            ELSE overtaken \cup {r \in stored : \E c \in Batches \ {b} : r \in batch[c].new}
            /\ Becomes(b, Idle)
            /\ UNCHANGED period

SentimentStep ==
    \E b \in Batches :
        \/ Hint(b) \/ Load(b) \/ Reserve(b) \/ Predict(b) \/ Rate(b) \/ Store(b) \/ GiveUp(b)

-----------------------------------------------------------------------------
\* What f counts over a set, unit by unit
Units(set, f) == UNION {{x} \X (1 .. f[x]) : x \in set}

\* The counter holds what was charged for labels, and no batch takes a company
\* past its limit, though it was picked by a remaining() that others used up.
RecordsCounted ==
    /\ Cardinality(Units(Periods, used["sentiment_analysis"])) = Cardinality(Units(Reviews, paid))
    /\ \A p \in Periods : used["sentiment_analysis"][p] <= Limit["sentiment_analysis"]

\* "Re-reading a review the plan already paid for is not counted again", and a
\* label is never free.  "overtaken" is the hole: a review labelled by its
\* stars while another batch, which had read it as new, waits for the counter.
LabelPaidOnce ==
    \A r \in Reviews :
        /\ label[r] # "none" <=> paid[r] > 0
        /\ r \notin overtaken => paid[r] <= 1
=============================================================================
