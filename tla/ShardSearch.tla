---------------------------- MODULE ShardSearch ----------------------------
(***************************************************************************)
(* The pure parts of a search over several shards (gurtd/src/search/mod.rs):*)
(* gather_with_timeout, as a function of when the shards' tasks end, and   *)
(* merge_topk, which every search ends with.                               *)
(***************************************************************************)
EXTENDS Naturals, Sequences, FiniteSets

-----------------------------------------------------------------------------
(* merge_topk.  lists[s] holds the scores of shard s, best first, as       *)
(* rescore_and_convert leaves them.  An item is known by its list and its  *)
(* place in it.                                                            *)

Score(lists, item) == lists[item[1]][item[2]]
Items(lists) == UNION {{<<s, i>> : i \in DOMAIN lists[s]} : s \in DOMAIN lists}

\* The first items left of the lists when those of out are removed.
Heads(lists, out) ==
    LET Next1(s) == <<s, Cardinality({i \in DOMAIN out : out[i][1] = s}) + 1>> IN
    {Next1(s) : s \in DOMAIN lists} \cap Items(lists)

\* Mutant: a later list replaces an earlier one by the same score, too.
WinsLast(lists, a, b) ==
    Score(lists, a) > Score(lists, b) \/ (Score(lists, a) = Score(lists, b) /\ a[1] > b[1])

\* A later list replaces an earlier one only by a higher score.
Wins(lists, a, b) ==
    Score(lists, a) > Score(lists, b) \/ (Score(lists, a) = Score(lists, b) /\ a[1] < b[1])

Best(lists, heads) == CHOOSE a \in heads : \A b \in heads \ {a} : Wins(lists, a, b)

MergeTopK(lists, k) ==
    LET Round(out) ==
            IF Heads(lists, out) = {} THEN out ELSE Append(out, Best(lists, Heads(lists, out)))
        after[n \in 0..k] == IF n = 0 THEN <<>> ELSE Round(after[n - 1])
    IN after[k]

\* The order a merge should produce: by score, then by list, then by place.
Before(lists, a, b) ==
    \/ Score(lists, a) > Score(lists, b)
    \/ Score(lists, a) = Score(lists, b) /\ a[1] < b[1]
    \/ Score(lists, a) = Score(lists, b) /\ a[1] = b[1] /\ a[2] < b[2]

\* out is the front of all items in that order, with k of them if there are k.
IsTopK(lists, k, out) ==
    /\ \A m, n \in DOMAIN out : m < n => Before(lists, out[m], out[n])
    /\ \A n \in DOMAIN out : \A item \in Items(lists) :
          Before(lists, item, out[n]) => \E m \in DOMAIN out : out[m] = item
    /\ Len(out) = IF k < Cardinality(Items(lists)) THEN k ELSE Cardinality(Items(lists))

-----------------------------------------------------------------------------
(* gather_with_timeout.  The task of shard s ends delay[s] ticks after all *)
(* were spawned; those of panics end in a panic.  The handles are awaited  *)
(* in turn, each with a timeout that starts with its await.                *)

\* Mutants: the clock is looked at before the handle, or a tick too late.
DroppedFirst(ends, since, timeout) == ends >= since + timeout
DroppedLater(ends, since, timeout) == ends > since + timeout + 1

\* timeout() polls the handle before it looks at the clock.
Dropped(ends, since, timeout) == ends > since + timeout

\* When the gathering ends, and the shards whose results are kept.
Gather(delay, panics, timeout) ==
    LET after[n \in 0..Len(delay)] ==
            IF n = 0 THEN [clock |-> 0, kept |-> {}]
            ELSE LET since == after[n - 1].clock
                     kept == after[n - 1].kept
                 IN
                 IF Dropped(delay[n], since, timeout)
                 THEN [clock |-> since + timeout, kept |-> kept]
                 ELSE [clock |-> IF delay[n] > since THEN delay[n] ELSE since,
                       kept |-> IF n \in panics THEN kept ELSE kept \cup {n}]
    IN after[Len(delay)]
=============================================================================
