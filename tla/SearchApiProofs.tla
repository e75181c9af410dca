-------------------------- MODULE SearchApiProofs --------------------------
(***************************************************************************)
(* Theorems about SearchApi for every set of handlers, TTL and latency.    *)
(***************************************************************************)
EXTENDS SearchApi, TLAPS

\* A result in anybody's hands is as new as its time says: it is empty, or what
\* the index answers now, or the index was refreshed since.
Faithful(r) == r.content \in {Empty, index + 1} \/ r.asOf <= index

(***************************************************************************)
(* The inductive invariant.  The entry's age at its put is bounded because *)
(* the age of what a handler holds between its search and its put is.      *)
(***************************************************************************)
IInv ==
    /\ TypeOK
    /\ index <= clock
    /\ \A h \in Handlers : at[h] = "searched" =>
          found[h].asOf <= clock /\ clock <= found[h].asOf + Latency /\ Faithful(found[h])
    /\ entry # NoEntry =>
          /\ entry.inserted <= clock /\ entry.asOf <= entry.inserted
          /\ entry.inserted <= entry.asOf + Latency
          /\ Faithful(entry)

LEMMA InitIInv == Init => IInv
BY SearchAssumption DEF Init, IInv, TypeOK, Times, Results, Empty

LEMMA NextIInv == IInv /\ [Next]_vars => IInv'
<1> SUFFICES ASSUME IInv, [Next]_vars
             PROVE  IInv'
    OBVIOUS
<1> USE SearchAssumption DEF IInv, TypeOK, Times, Results, Empty, Faithful
<1>1. ASSUME NEW h \in Handlers, Hit(h)
      PROVE  IInv'
    BY <1>1 DEF Hit, Live
<1>2. ASSUME NEW h \in Handlers, Miss(h)
      PROVE  IInv'
    BY <1>2 DEF Miss
<1>3. ASSUME NEW h \in Handlers, Search(h)
      PROVE  IInv'
    BY <1>3 DEF Search
<1>4. ASSUME NEW h \in Handlers, Put(h)
      PROVE  IInv'
    BY <1>4 DEF Put
<1>5. CASE Refresh
    BY <1>5 DEF Refresh
<1>6. CASE Tick
    BY <1>6 DEF Tick
<1>7. CASE UNCHANGED vars
    BY <1>7 DEF vars
<1>. QED  BY <1>1, <1>2, <1>3, <1>4, <1>5, <1>6, <1>7 DEF Next

\* The cache's entry and the handlers' results always have their types.
THEOREM SearchTypes == Spec => []TypeOK
<1>1. IInv => TypeOK
    BY DEF IInv
<1>. QED  BY InitIInv, NextIInv, <1>1, PTL DEF Spec

\* No answer is older than Ttl + Latency, for every number of handlers and any
\* interleaving of their gets, searches and puts with the refreshes.
THEOREM AnswersAreRecent == Spec => AnswerIsRecent
<1>1. ASSUME IInv, NEW h \in Handlers, Hit(h)
      PROVE  /\ clock <= answer'.asOf + Ttl + Latency
             /\ \/ answer'.content \in {Empty, index + 1}
                \/ clock <= index + Ttl + Latency
    BY <1>1, SearchAssumption DEF IInv, TypeOK, Times, Results, Empty, Faithful, Hit, Live
<1>2. ASSUME IInv, NEW h \in Handlers, Put(h)
      PROVE  /\ clock <= answer'.asOf + Ttl + Latency
             /\ \/ answer'.content \in {Empty, index + 1}
                \/ clock <= index + Ttl + Latency
    BY <1>2, SearchAssumption DEF IInv, TypeOK, Times, Results, Empty, Faithful, Put
<1>3. IInv /\ [Next]_vars =>
        [\A h \in Handlers : Hit(h) \/ Put(h) =>
            /\ clock <= answer'.asOf + Ttl + Latency
            /\ \/ answer'.content \in {Empty, index + 1}
               \/ clock <= index + Ttl + Latency]_vars
    BY <1>1, <1>2
<1>. QED  BY InitIInv, NextIInv, <1>3, PTL DEF Spec, AnswerIsRecent
=============================================================================
