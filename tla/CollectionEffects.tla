-------------------------- MODULE CollectionEffects --------------------------
(* CollectionDelivery uses its receipts as ProviderEffects allows.  Nothing *)
(* in the code counts crawls, so a history variable does; it is read by no  *)
(* action.  What a crawl commits while it runs is OperationReceipts'.       *)
EXTENDS CollectionDelivery

VARIABLE crawls  \* history: how often the provider of a receipt was reached

\* A worker comes from begin_provider() to the crawl.
StartsCrawl(r) == \E w \in Workers : At(w, "started")' /\ ~At(w, "started") /\ Of(w)' = r

CrawlInit == Init /\ crawls = [r \in Receipts |-> 0]

CrawlNext == Next /\ crawls' = [r \in Receipts |-> crawls[r] + IF StartsCrawl(r) THEN 1 ELSE 0]

CrawlSpec == CrawlInit /\ [][CrawlNext]_<<vars, crawls>>

CrawlFairSpec == CrawlSpec /\ Fairness

\* A receipt that waits for its signal, a worker or another attempt has not
\* reached its provider; a parked one may have, and nothing settles it.
PhaseOf(state) ==
  CASE state = "none" -> "none"
    [] state \in Sent \cup {"queued", "authorized"} -> "intended"
    [] state = "provider_started" -> "running"
    [] state = "reconciliation_required" -> "stopped"
    [] state \in Terminal \ {"reconciliation_required"} -> "closed"

Effects == INSTANCE ProviderEffects WITH
  phase  <- [r \in Receipts |-> PhaseOf(receipts[r].state)],
  safe   <- [r \in Receipts |-> FALSE],
  runs   <- [r \in Receipts |-> 1..crawls[r]],
  landed <- [r \in Receipts |-> {}]

\* Deliveries that overlap, late marks, recoveries, buried messages and dead
\* workers come to nothing but one operation: intended, crawled at most once,
\* and stopped or closed for good.
KeepsTheContract == Effects!Spec
=============================================================================
