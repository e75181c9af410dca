----------------------------- MODULE CrawlSlots -----------------------------
(***************************************************************************)
(* What the crawl queue promises, without its locks, channel and threads:  *)
(* every domain has one slot.  A free slot is claimed by one submitter,    *)
(* queued, crawled (one domain at a time) and freed; a claim may be given  *)
(* back, and a failure may lose whatever is not free.                      *)
(***************************************************************************)
CONSTANT Domains
VARIABLE slot

States == {"free", "claimed", "queued", "crawling", "lost"}

Init == slot = [d \in Domains |-> "free"]

Move(d, from, to) == slot[d] = from /\ slot' = [slot EXCEPT ![d] = to]

Claim(d) == Move(d, "free", "claimed")
Enter(d) == Move(d, "claimed", "queued")
Withdraw(d) == Move(d, "claimed", "free")
Crawl(d) == Move(d, "queued", "crawling") /\ \A e \in Domains : slot[e] # "crawling"
Done(d) == Move(d, "crawling", "free")

\* A failure loses the domains D at one stroke.
Lose(D) ==
    /\ \A d \in D : slot[d] # "free"
    /\ slot' = [d \in Domains |-> IF d \in D THEN "lost" ELSE slot[d]]

Progress(d) == Enter(d) \/ Withdraw(d) \/ Crawl(d) \/ Done(d)

Next == (\E d \in Domains : Claim(d) \/ Progress(d)) \/ \E D \in SUBSET Domains : Lose(D)

Spec == Init /\ [][Next]_slot

\* A slot that is not free moves on unless it is lost; Crawl needs strong
\* fairness because another domain may be crawled in between.
FairSpec ==
    /\ Spec
    /\ \A d \in Domains : WF_slot(Enter(d) \/ Withdraw(d)) /\ WF_slot(Done(d)) /\ SF_slot(Crawl(d))
=============================================================================
