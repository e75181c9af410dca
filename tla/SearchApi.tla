----------------------------- MODULE SearchApi -----------------------------
(***************************************************************************)
(* GET /api/search (gurtd/src/router/api.rs) and its hot query cache       *)
(* (gurtd/src/search/mod.rs), for one normalised key: handlers run         *)
(* concurrently, and each looks into the cache, searches the index and     *)
(* puts the result, with the cache's lock released in between.  Crawls     *)
(* change what the index answers meanwhile.                                *)
(***************************************************************************)
EXTENDS Naturals

CONSTANTS Handlers,
          NoEntry,
          Ttl,      \* the 20 s of HOT_CACHE, in ticks
          Latency,  \* bound: ticks from a handler's search to its put
          MaxTime   \* bound: the last tick

ASSUME SearchAssumption ==
    /\ Ttl \in Nat /\ Latency \in Nat /\ MaxTime \in Nat
    /\ NoEntry \notin [asOf : Nat, content : Nat, inserted : Nat]

VARIABLES clock,
          index,    \* the time of the last refresh: what a search answers
          at,       \* where each handler is
          found,    \* the result it holds: when it searched and what it found
          entry,    \* the cache's entry
          answer    \* history: the last answer, and when it was given

vars == <<clock, index, at, found, entry, answer>>

Times == 0..MaxTime

\* What an engine error leaves (unwrap_or_default): the empty result.  Content
\* 0 stands for it, and content n + 1 for what the index holds since time n.
Empty == 0
Results == [asOf : Times, content : 0..MaxTime + 1]

TypeOK ==
    /\ clock \in Times /\ index \in Times
    /\ at \in [Handlers -> {"idle", "missed", "searched"}]
    /\ found \in [Handlers -> Results]
    /\ entry \in [asOf : Times, content : 0..MaxTime + 1, inserted : Times] \cup {NoEntry}
    /\ entry # NoEntry => entry.asOf <= entry.inserted
    /\ answer \in Results

Init ==
    /\ clock = 0 /\ index = 0
    /\ found = [h \in Handlers |-> [asOf |-> 0, content |-> Empty]]
    /\ at = [h \in Handlers |-> "idle"]
    /\ entry = NoEntry
    /\ answer = [asOf |-> 0, content |-> Empty]

-----------------------------------------------------------------------------
\* Elapsed is at most the TTL.
Live == entry # NoEntry /\ clock - entry.inserted <= Ttl

\* Mutant: a hit renews the entry.
HitRenews(h) ==
    /\ at[h] = "idle"
    /\ Live
    /\ answer' = [asOf |-> entry.asOf, content |-> entry.content]
    /\ entry' = [entry EXCEPT !.inserted = clock]
    /\ UNCHANGED <<clock, index, at, found>>

\* A live entry is answered as it is.
Hit(h) ==
    /\ at[h] = "idle"
    /\ Live
    /\ answer' = [asOf |-> entry.asOf, content |-> entry.content]
    /\ UNCHANGED <<clock, index, at, found, entry>>

\* An entry past its TTL is removed.
Miss(h) ==
    /\ at[h] = "idle"
    /\ ~Live
    /\ entry' = NoEntry
    /\ at' = [at EXCEPT ![h] = "missed"]
    /\ UNCHANGED <<clock, index, found, answer>>

\* The engine searches what the last refresh made visible, or fails.
Search(h) ==
    /\ at[h] = "missed"
    /\ at' = [at EXCEPT ![h] = "searched"]
    /\ \E content \in {index + 1, Empty} :
          found' = [found EXCEPT ![h] = [asOf |-> clock, content |-> content]]
    /\ UNCHANGED <<clock, index, entry, answer>>

\* The result replaces whatever another handler put meanwhile, and is answered.
Put(h) ==
    /\ at[h] = "searched"
    /\ at' = [at EXCEPT ![h] = "idle"]
    /\ entry' = [asOf |-> found[h].asOf, content |-> found[h].content, inserted |-> clock]
    /\ answer' = found[h]
    /\ UNCHANGED <<clock, index, found>>

\* A crawl commits and refreshes the index.
Refresh ==
    /\ index # clock
    /\ index' = clock
    /\ UNCHANGED <<clock, at, found, entry, answer>>

Tick ==
    /\ clock < MaxTime
    /\ \A h \in Handlers : at[h] = "searched" => clock < found[h].asOf + Latency
    /\ clock' = clock + 1
    /\ UNCHANGED <<index, at, found, entry, answer>>

Next == (\E h \in Handlers : Hit(h) \/ Miss(h) \/ Search(h) \/ Put(h)) \/ Refresh \/ Tick

Spec == Init /\ [][Next]_vars

-----------------------------------------------------------------------------
\* Every answer, from the cache or not, was searched at most Ttl + Latency ticks
\* ago: Ttl counts from the put, and a slow handler may put a result over a
\* newer one.  So a refresh older than that shows in every answer, and an engine
\* error, whose empty result is cached like any other, is not repeated longer.
AnswerIsRecent ==
    [][\A h \in Handlers : Hit(h) \/ Put(h) =>
          /\ clock <= answer'.asOf + Ttl + Latency
          /\ \/ answer'.content \in {Empty, index + 1}
             \/ clock <= index + Ttl + Latency]_vars
=============================================================================
