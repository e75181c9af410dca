-------------------------- MODULE AlgorithmsProofs --------------------------
(***************************************************************************)
(* Theorems about the pure functions that MCAlgorithms runs, for inputs of *)
(* any size.                                                               *)
(***************************************************************************)
EXTENDS MCAlgorithms, FiniteSetTheorems, WellFoundedInduction, SequenceTheorems, TLAPS

(***************************************************************************)
(* Induction.  A property is a set of numbers, so that neither theorem has *)
(* an operator for a parameter.                                            *)
(***************************************************************************)

LEMMA LeastOf ==
    ASSUME NEW T \in SUBSET Nat, T # {}
    PROVE  \E m \in T : \A n \in T : m <= n
<1> DEFINE Less == {p \in Nat \X Nat : p[1] < p[2]}
<1>1. IsWellFoundedOn(Less, Nat)
  BY NatLessThanWellFounded DEF OpToRel
<1>2. PICK m \in T : \A n \in T : <<n, m>> \notin Less
  <2> HIDE DEF Less
  <2>. QED  BY <1>1, WFMin
<1>3. ASSUME NEW n \in T, n < m
      PROVE  FALSE
  <2>1. <<n, m>> \in Less
    BY <1>3
  <2> HIDE DEF Less
  <2>. QED  BY <1>2, <2>1
<1>4. \A n \in T : m \in Nat /\ n \in Nat
  OBVIOUS
<1>. QED  BY <1>3, <1>4

LEMMA UpTo ==
    ASSUME NEW N \in Nat, NEW T, 0 \in T, \A n \in 0..N : n \in T /\ n < N => n + 1 \in T
    PROVE  \A n \in 0..N : n \in T
<1> DEFINE Others == {n \in 0..N : n \notin T}
<1>1. ASSUME Others # {}
      PROVE  FALSE
  <2>1. Others \in SUBSET Nat
    OBVIOUS
  <2>2. PICK m \in Others : \A n \in Others : m <= n
    <3> HIDE DEF Others
    <3>. QED  BY <1>1, <2>1, LeastOf
  <2>3. m \in 0..N /\ m # 0
    OBVIOUS
  <2>4. m - 1 \in 0..N /\ m - 1 < N /\ (m - 1) + 1 = m /\ ~(m <= m - 1)
    BY <2>3
  <2>5. m - 1 \in T
    BY <2>2, <2>4
  <2>. QED  BY <2>2, <2>4, <2>5
<1>. QED  BY <1>1

(***************************************************************************)
(* A function may be defined by its first value and a step from each value *)
(* to the next.                                                            *)
(***************************************************************************)
StepsOn(N, X) == [1..N -> [X -> X]]
Follows(f, N, X, first, step) ==
    f \in [0..N -> X] /\ f[0] = first /\ \A n \in 1..N : f[n] = step[n][f[n - 1]]

LEMMA RecursionExists ==
    ASSUME NEW N \in Nat, NEW X, NEW first \in X, NEW step \in StepsOn(N, X)
    PROVE  \E f : Follows(f, N, X, first, step)
<1> USE DEF StepsOn
<1> DEFINE Good(m, f) == f[0] = first /\ \A n \in 1..m : f[n] = step[n][f[n - 1]]
           T == {m \in 0..N : \E f \in [0..m -> X] : Good(m, f)}
<1>1. 0 \in T
  <2> DEFINE f == [n \in 0..0 |-> first]
  <2>1. f \in [0..0 -> X] /\ Good(0, f)
    OBVIOUS
  <2>2. 0 \in 0..N
    OBVIOUS
  <2> HIDE DEF Good, f
  <2>. QED  BY <2>1, <2>2
<1>2. ASSUME NEW m \in 0..N, m \in T, m < N
      PROVE  m + 1 \in T
  <2>1. PICK f \in [0..m -> X] : Good(m, f)
    BY <1>2
  <2> DEFINE g == [n \in 0..m + 1 |-> IF n <= m THEN f[n] ELSE step[m + 1][f[m]]]
  <2>2. m + 1 \in 1..N /\ m \in 0..m /\ m \in Nat
    BY <1>2
  <2>3. f[m] \in X /\ step[m + 1] \in [X -> X]
    BY <2>2
  <2>4. step[m + 1][f[m]] \in X
    BY <2>3
  <2>5. g \in [0..m + 1 -> X]
    BY <2>2, <2>4
  <2>6. g[0] = first
    BY <2>1, <2>2
  <2>7. \A n \in 1..m + 1 : g[n] = step[n][g[n - 1]]
    <3>1. ASSUME NEW n \in 1..m + 1
          PROVE  g[n] = step[n][g[n - 1]]
      <4>1. n - 1 \in 0..m + 1 /\ n - 1 <= m /\ n - 1 \in 0..m
        BY <2>2
      <4>2. g[n - 1] = f[n - 1]
        BY <4>1
      <4>3. CASE n <= m
        <5>1. n \in 1..m /\ n \in 0..m + 1
          BY <2>2, <4>3
        <5>2. g[n] = f[n]
          BY <4>3, <5>1
        <5>. QED  BY <2>1, <4>2, <5>1, <5>2
      <4>4. CASE ~(n <= m)
        <5>1. n = m + 1 /\ n \in 0..m + 1 /\ n - 1 = m
          BY <2>2, <4>4
        <5>2. g[n] = step[m + 1][f[m]]
          BY <4>4, <5>1
        <5>. QED  BY <4>2, <5>1, <5>2
      <4>. QED  BY <4>3, <4>4
    <3>. QED  BY <3>1
  <2>8. m + 1 \in 0..N
    BY <2>2
  <2> HIDE DEF g
  <2>. QED  BY <2>5, <2>6, <2>7, <2>8
<1>3. \A m \in 0..N : m \in T
  <2> HIDE DEF T
  <2>. QED  BY <1>1, <1>2, UpTo
<1>4. N \in T
  BY <1>3
<1>. QED  BY <1>4 DEF Follows

-----------------------------------------------------------------------------
(* gather_with_timeout, for any number of shards, delays and panics.       *)

Clocked == [clock : Nat, kept : SUBSET Nat]

\* What one await makes of the clock and the shards kept.
Awaited(delay, panics, timeout, n, st) ==
    IF Dropped(delay[n], st.clock, timeout)
    THEN [clock |-> st.clock + timeout, kept |-> st.kept]
    ELSE [clock |-> IF delay[n] > st.clock THEN delay[n] ELSE st.clock,
          kept |-> IF n \in panics THEN st.kept ELSE st.kept \cup {n}]

LEMMA AwaitedIs ==
    ASSUME NEW delay \in Seq(Nat), NEW panics, NEW timeout \in Nat
    PROVE  \E after \in [0..Len(delay) -> Clocked] :
              /\ after[0] = [clock |-> 0, kept |-> {}]
              /\ \A n \in 1..Len(delay) : after[n] = Awaited(delay, panics, timeout, n, after[n - 1])
              /\ Gather(delay, panics, timeout) = after[Len(delay)]
<1> DEFINE N == Len(delay)
           first == [clock |-> 0, kept |-> {}]
           After(f) == [n \in 0..Len(delay) |->
                            IF n = 0 THEN [clock |-> 0, kept |-> {}]
                            ELSE LET since == f[n - 1].clock
                                     kept == f[n - 1].kept
                                 IN
                                 IF Dropped(delay[n], since, timeout)
                                 THEN [clock |-> since + timeout, kept |-> kept]
                                 ELSE [clock |-> IF delay[n] > since THEN delay[n] ELSE since,
                                       kept |-> IF n \in panics THEN kept ELSE kept \cup {n}]]
           step == [n \in 1..N |-> [st \in Clocked |-> Awaited(delay, panics, timeout, n, st)]]
<1>1. Gather(delay, panics, timeout) = (CHOOSE f : f = After(f))[N]
  BY DEF Gather
<1>2. N \in Nat /\ first \in Clocked
  BY DEF Clocked
<1>3. \A n \in 1..N, st \in Clocked : Awaited(delay, panics, timeout, n, st) \in Clocked
  <2> SUFFICES ASSUME NEW n \in 1..N, NEW st \in Clocked
               PROVE  Awaited(delay, panics, timeout, n, st) \in Clocked
    OBVIOUS
  <2>1. delay[n] \in Nat /\ n \in Nat
    BY ElementOfSeq
  <2>2. st.clock \in Nat /\ st.kept \in SUBSET Nat
    BY DEF Clocked
  <2>. QED  BY <2>1, <2>2 DEF Awaited, Clocked
<1>4. step \in [1..N -> [Clocked -> Clocked]]
  BY <1>3
<1>5. PICK g \in [0..N -> Clocked] : g[0] = first /\ \A n \in 1..N : g[n] = step[n][g[n - 1]]
  <2>1. N \in Nat
    BY <1>2
  <2>2. first \in Clocked
    BY <1>2
  <2>3. step \in StepsOn(N, Clocked)
    BY <1>4 DEF StepsOn
  <2> HIDE DEF step, first, N
  <2>4. \E f : Follows(f, N, Clocked, first, step)
    BY <2>1, <2>2, <2>3, RecursionExists
  <2>. QED  BY <2>4 DEF Follows
\* A solution of the equation and a function by first value and step are one.
<1>6. \A n \in 1..N : g[n] = Awaited(delay, panics, timeout, n, g[n - 1])
  <2> SUFFICES ASSUME NEW n \in 1..N
               PROVE  g[n] = Awaited(delay, panics, timeout, n, g[n - 1])
    OBVIOUS
  <2>1. g[n - 1] \in Clocked
    <3>1. n - 1 \in 0..N
      BY <1>2
    <3>. QED  BY <3>1
  <2>. QED  BY <1>5, <2>1
<1>7. g = After(g)
  <2>1. \A n \in 0..N : g[n] = After(g)[n]
    <3> SUFFICES ASSUME NEW n \in 0..N
                 PROVE  g[n] = After(g)[n]
      OBVIOUS
    <3>1. CASE n = 0
      BY <1>5, <3>1
    <3>2. CASE n # 0
      <4>1. n \in 1..N
        BY <1>2, <3>2
      <4>. QED  BY <1>6, <3>2, <4>1 DEF Awaited
    <3>. QED  BY <3>1, <3>2
  <2>. QED  BY <2>1
<1> DEFINE after == CHOOSE f : f = After(f)
<1>8. after = After(after)
  <2>1. \E f : f = After(f)
    BY <1>7
  <2> HIDE DEF After
  <2>. QED  BY <2>1
<1> HIDE DEF after
<1>9. after[0] = first
  <2>1. 0 \in 0..N
    BY <1>2
  <2>. QED  BY <1>8, <2>1
<1>10. \A n \in 1..N : after[n] = Awaited(delay, panics, timeout, n, after[n - 1])
  <2> SUFFICES ASSUME NEW n \in 1..N
               PROVE  after[n] = Awaited(delay, panics, timeout, n, after[n - 1])
    OBVIOUS
  <2>1. n \in 0..N /\ n # 0
    BY <1>2
  <2>2. after[n] = After(after)[n]
    BY <1>8
  <2>. QED  BY <2>1, <2>2 DEF Awaited
<1>11. \A n \in 0..N : after[n] \in Clocked
  <2> DEFINE T == {n \in 0..N : after[n] \in Clocked}
  <2>1. 0 \in T
    BY <1>2, <1>9
  <2>2. ASSUME NEW n \in 0..N, n \in T, n < N
        PROVE  n + 1 \in T
    <3>1. n + 1 \in 1..N /\ (n + 1) - 1 = n
      BY <1>2, <2>2
    <3>. QED  BY <1>3, <1>10, <2>2, <3>1
  <2>3. \A n \in 0..N : n \in T
    <3> HIDE DEF T, N
    <3>. QED  BY <1>2, <2>1, <2>2, UpTo
  <2>. QED  BY <2>3
<1>12. after \in [0..N -> Clocked]
  BY <1>8, <1>11
<1>. QED  BY <1>1, <1>9, <1>10, <1>12 DEF after

\* However many shards there are and whenever they end.
LEMMA GatherKeepsPrompt ==
    ASSUME NEW delay \in Seq(Nat), NEW panics, NEW timeout \in Nat
    PROVE  /\ Gather(delay, panics, timeout).clock <= Len(delay) * timeout
           /\ \A s \in 1..Len(delay) :
                delay[s] <= timeout /\ s \notin panics => s \in Gather(delay, panics, timeout).kept
<1> DEFINE N == Len(delay)
<1>1. PICK after \in [0..N -> Clocked] :
          /\ after[0] = [clock |-> 0, kept |-> {}]
          /\ \A n \in 1..N : after[n] = Awaited(delay, panics, timeout, n, after[n - 1])
          /\ Gather(delay, panics, timeout) = after[N]
  BY AwaitedIs
<1> DEFINE Prompt(n) == \A s \in 1..n : delay[s] <= timeout /\ s \notin panics => s \in after[n].kept
           T == {n \in 0..N : after[n].clock <= n * timeout /\ Prompt(n)}
<1>2. N \in Nat
  OBVIOUS
<1>3. 0 \in T
  <2>1. 0 * timeout = 0 /\ 0 \in 0..N
    BY <1>2
  <2>. QED  BY <1>1, <2>1
<1>4. ASSUME NEW n \in 0..N, n \in T, n < N
      PROVE  n + 1 \in T
  <2> DEFINE st == after[n]
             m == n + 1
  <2>1. m \in 1..N /\ m - 1 = n /\ m \in 0..N /\ n \in Nat
    BY <1>2, <1>4
  <2>2. after[m] = Awaited(delay, panics, timeout, m, st)
    BY <1>1, <2>1
  <2>3. st.clock \in Nat /\ delay[m] \in Nat
    <3>1. st \in Clocked
      BY <1>1
    <3>. QED  BY <2>1, <3>1, ElementOfSeq DEF Clocked
  <2>4. st.clock <= n * timeout /\ Prompt(n)
    BY <1>4
  <2>5. m * timeout = n * timeout + timeout /\ n * timeout \in Nat
    BY <2>1
  <2> DEFINE before == n * timeout
             now == m * timeout
  <2>6. after[m].clock <= now
    <3>1. now = before + timeout /\ before \in Nat /\ st.clock <= before
      BY <2>4, <2>5
    <3> HIDE DEF before, now, st, m
    <3>. QED  BY <2>2, <2>3, <3>1 DEF Awaited, Dropped
  <2>7. Prompt(m)
    <3> SUFFICES ASSUME NEW s \in 1..m, delay[s] <= timeout, s \notin panics
                 PROVE  s \in after[m].kept
      OBVIOUS
    <3>1. CASE s = m
      <4>1. ~Dropped(delay[m], st.clock, timeout)
        BY <2>3, <3>1 DEF Dropped
      <4> HIDE DEF m, st
      <4>. QED  BY <2>2, <3>1, <4>1 DEF Awaited
    <3>2. CASE s # m
      <4>1. s \in 1..n
        BY <2>1, <3>2
      <4>2. s \in st.kept
        BY <2>4, <4>1
      <4> HIDE DEF m, st
      <4>. QED  BY <2>2, <4>2 DEF Awaited
    <3>. QED  BY <3>1, <3>2
  <2> HIDE DEF Prompt
  <2>. QED  BY <2>1, <2>6, <2>7
<1>5. \A n \in 0..N : n \in T
  <2> HIDE DEF T, N
  <2>. QED  BY <1>2, <1>3, <1>4, UpTo
<1>6. N \in T
  BY <1>2, <1>5
<1>. QED  BY <1>1, <1>6

-----------------------------------------------------------------------------
(* fetch_with_retries, for any number of retries.                          *)

IsScript(script) == \A n \in DOMAIN Steps : script[Steps[n]] \in Outcomes(Steps[n])

GoesThrough(script, n) == \A m \in 1..n - 1 : script[Steps[m]] \in {"ok", "error"}
FailsWith(script, outcomes) ==
    \E n \in DOMAIN Steps : GoesThrough(script, n) /\ script[Steps[n]] \in outcomes
Silent(script) ==
    \E n \in DOMAIN Steps : /\ GoesThrough(script, n) /\ script[Steps[n]] = "stuck"
                            /\ Steps[n] \in {"handshake", "answer"}

LEMMA StepsAre ==
    /\ DOMAIN Steps = 1..5 /\ Len(Steps) = 5
    /\ Steps[1] = "connect" /\ Steps[2] = "hello" /\ Steps[3] = "handshake"
    /\ Steps[4] = "request" /\ Steps[5] = "answer"
BY DEF Steps

LEMMA OutcomesAre ==
    ASSUME NEW n \in DOMAIN Steps
    PROVE  Outcomes(Steps[n]) \subseteq
               {"ok", "error", "stuck", "other code", "Connection", "InvalidMessage", "Io"}
<1>1. n = 1 \/ n = 2 \/ n = 3 \/ n = 4 \/ n = 5
  BY StepsAre
<1>. QED  BY <1>1, StepsAre DEF Outcomes, ReadErrors

LEMMA LeastIs ==
    ASSUME NEW T \in SUBSET Nat, T # {}
    PROVE  Min(T) \in T /\ \A n \in T : Min(T) <= n
<1>1. \E m \in T : \A n \in T : m <= n
  BY LeastOf
<1>. QED  BY <1>1 DEF Min

\* What an attempt comes to, from its script alone.
LEMMA AttemptIs ==
    ASSUME NEW script, IsScript(script)
    PROVE  /\ FetchOnce(script) = "ok" <=> GoesThrough(script, 6)
           /\ FetchOnce(script) = Never <=> Silent(script)
           /\ FetchOnce(script) \in Retried => FailsWith(script, {"Connection", "Io", "stuck"})
<1> DEFINE At(n) == script[Steps[n]]
           R(n) == StepResult(Steps[n], At(n))
           ended == {n \in DOMAIN Steps : R(n) # "ok"}
           m == Min(ended)
<1>1. FetchOnce(script) = IF ended = {} THEN "ok" ELSE R(m)
  BY DEF FetchOnce
<1>2. \A n \in DOMAIN Steps : R(n) = "ok" <=> At(n) \in {"ok", "error"}
  <2> SUFFICES ASSUME NEW n \in DOMAIN Steps
               PROVE  R(n) = "ok" <=> At(n) \in {"ok", "error"}
    OBVIOUS
  <2>1. Never # "ok"
    BY DEF Never
  <2> HIDE DEF At
  <2>. QED  BY <2>1 DEF StepResult
<1>3. \A n \in DOMAIN Steps : n \in Nat /\ n \in 1..5
  BY StepsAre
<1>4. CASE ended = {}
  <2>1. \A n \in 1..5 : At(n) \in {"ok", "error"}
    BY <1>2, <1>4, StepsAre
  <2>2. FetchOnce(script) = "ok"
    BY <1>1, <1>4
  <2>3. GoesThrough(script, 6)
    <3>1. 6 - 1 = 5
      OBVIOUS
    <3>. QED  BY <2>1, <3>1 DEF GoesThrough
  <2>4. ~Silent(script)
    BY <2>1, StepsAre DEF Silent
  <2>5. "ok" # Never /\ "ok" \notin Retried
    BY DEF Never, Retried
  <2>. QED  BY <2>2, <2>3, <2>4, <2>5
<1>5. CASE ended # {}
  <2>1. m \in ended /\ \A n \in ended : m <= n
    <3>1. ended \in SUBSET Nat
      BY <1>3
    <3> HIDE DEF ended
    <3>. QED  BY <1>5, <3>1, LeastIs
  <2> HIDE DEF m
  <2>2. m \in DOMAIN Steps /\ m \in 1..5 /\ R(m) # "ok" /\ At(m) \notin {"ok", "error"}
    BY <1>2, <1>3, <2>1
  <2>3. GoesThrough(script, m)
    <3> SUFFICES ASSUME NEW k \in 1..m - 1
                 PROVE  At(k) \in {"ok", "error"}
      BY DEF GoesThrough
    <3>1. k \in DOMAIN Steps /\ ~(m <= k)
      BY <2>2, StepsAre
    <3>. QED  BY <1>2, <2>1, <3>1
  <2>4. ~GoesThrough(script, 6)
    <3>1. m \in 1..6 - 1
      BY <2>2
    <3>. QED  BY <2>2, <3>1 DEF GoesThrough
  <2>5. \A n \in DOMAIN Steps : GoesThrough(script, n) /\ At(n) \notin {"ok", "error"} => n = m
    <3> SUFFICES ASSUME NEW n \in DOMAIN Steps, GoesThrough(script, n), At(n) \notin {"ok", "error"}
                 PROVE  n = m
      OBVIOUS
    <3>1. n \in 1..5 /\ m <= n
      BY <1>2, <1>3, <2>1
    <3>2. ~(m < n)
      <4>1. m < n => m \in 1..n - 1
        BY <2>2, <3>1
      <4>. QED  BY <2>2, <4>1 DEF GoesThrough
    <3>. QED  BY <2>2, <3>1, <3>2
  <2>6. FetchOnce(script) = R(m)
    BY <1>1, <1>5
  <2>7. At(m) \in {"stuck", "other code", "Connection", "InvalidMessage", "Io"}
    <3>1. At(m) \in Outcomes(Steps[m])
      BY <2>2 DEF IsScript
    <3>. QED  BY <2>2, <3>1, OutcomesAre
  <2> HIDE DEF At
  <2>8. R(m) = Never <=> At(m) = "stuck" /\ Steps[m] \in {"handshake", "answer"}
    BY <2>7 DEF StepResult, Never
  <2>9. R(m) \in Retried => At(m) \in {"Connection", "Io", "stuck"}
    BY <2>7 DEF StepResult, Never, Retried
  <2>10. Silent(script) <=> At(m) = "stuck" /\ Steps[m] \in {"handshake", "answer"}
    <3>1. ASSUME Silent(script)
          PROVE  At(m) = "stuck" /\ Steps[m] \in {"handshake", "answer"}
      <4>1. PICK n \in DOMAIN Steps : GoesThrough(script, n) /\ At(n) = "stuck"
                                      /\ Steps[n] \in {"handshake", "answer"}
        BY <3>1 DEF Silent, At
      <4>. QED  BY <2>5, <4>1
    <3>. QED  BY <2>2, <2>3, <3>1 DEF Silent, At
  <2>11. At(m) \in {"Connection", "Io", "stuck"} => FailsWith(script, {"Connection", "Io", "stuck"})
    BY <2>2, <2>3 DEF FailsWith, At
  <2> HIDE DEF R
  <2>. QED  BY <2>2, <2>4, <2>6, <2>8, <2>9, <2>10, <2>11
<1>. QED  BY <1>4, <1>5

\* Which attempt decides: the first that is not retried, for lack of a reason or
\* of retries left.
LEMMA DecidingAttempt ==
    ASSUME NEW scripts, NEW retries \in Nat
    PROVE  LET outcome == FetchWithRetries(scripts, retries)
           IN  /\ outcome.made \in 1..retries + 1
               /\ outcome.result = FetchOnce(scripts[outcome.made])
               /\ \A n \in 1..outcome.made - 1 : FetchOnce(scripts[n]) \in Retried
               /\ outcome.result \in Retried => outcome.made = retries + 1
<1> DEFINE R == retries + 1
           F(n) == FetchOnce(scripts[n])
           Stops(n) == {m \in n..R : ~(F(m) \in Retried /\ m <= retries)}
           Result(m) == [result |-> F(m), made |-> m]
           From1(f) == [n \in 1..retries + 1 |->
                            LET res == FetchOnce(scripts[n]) IN
                            IF res \in Retried /\ n <= retries THEN f[n + 1]
                            ELSE [result |-> res, made |-> n]]
           g == [n \in 1..R |-> Result(Min(Stops(n)))]
           from == CHOOSE f : f = From1(f)
<1>1. FetchWithRetries(scripts, retries) = from[1]
  BY DEF FetchWithRetries
<1>2. R \in Nat /\ R >= 1 /\ retries < R
  OBVIOUS
<1>3. \A n \in 1..R : Min(Stops(n)) \in Stops(n) /\ \A m \in Stops(n) : Min(Stops(n)) <= m
  <2> SUFFICES ASSUME NEW n \in 1..R
               PROVE  Min(Stops(n)) \in Stops(n) /\ \A m \in Stops(n) : Min(Stops(n)) <= m
    OBVIOUS
  <2>1. R \in Stops(n) /\ Stops(n) \in SUBSET Nat
    BY <1>2
  <2> HIDE DEF Stops
  <2>. QED  BY <2>1, LeastIs
<1>4. g = From1(g)
  <2> SUFFICES ASSUME NEW n \in 1..R
               PROVE  g[n] = From1(g)[n]
    OBVIOUS
  <2>1. CASE F(n) \in Retried /\ n <= retries
    <3>1. Stops(n + 1) = Stops(n) /\ n + 1 \in 1..R
      BY <1>2, <2>1
    <3>2. g[n + 1] = g[n]
      BY <3>1
    <3>. QED  BY <2>1, <3>2
  <2>2. CASE ~(F(n) \in Retried /\ n <= retries)
    <3>1. n \in Stops(n) /\ \A m \in Stops(n) : n <= m /\ m \in Nat
      BY <2>2
    <3>2. Min(Stops(n)) = n
      <4>1. Min(Stops(n)) \in Stops(n) /\ Min(Stops(n)) <= n
        BY <1>3, <3>1
      <4> DEFINE k == Min(Stops(n))
      <4>2. n <= k /\ k <= n /\ k \in Nat
        BY <3>1, <4>1
      <4> HIDE DEF k
      <4>3. k = n
        BY <4>2
      <4>. QED  BY <4>3 DEF k
    <3>. QED  BY <2>2, <3>2
  <2>. QED  BY <2>1, <2>2
<1>5. from = From1(from)
  <2>1. \E f : f = From1(f)
    BY <1>4
  <2> HIDE DEF From1
  <2>. QED  BY <2>1
<1> HIDE DEF from, g
\* From the last attempt to the first.
<1> DEFINE Decides(n, o) ==
               /\ o.made \in n..R
               /\ o.result = F(o.made)
               /\ \A m \in n..o.made - 1 : F(m) \in Retried
               /\ o.result \in Retried => o.made = R
           T == {k \in 0..retries : Decides(R - k, from[R - k])}
<1>6. \A n \in 1..R : from[n] = IF F(n) \in Retried /\ n <= retries THEN from[n + 1] ELSE Result(n)
  <2>1. \A n \in 1..R : from[n] = From1(from)[n]
    BY <1>5
  <2>. QED  BY <2>1
<1>7. \A n \in 1..R : ~(F(n) \in Retried /\ n <= retries) => Decides(n, from[n])
  <2> SUFFICES ASSUME NEW n \in 1..R, ~(F(n) \in Retried /\ n <= retries)
               PROVE  Decides(n, from[n])
    OBVIOUS
  <2>1. from[n] = Result(n) /\ n - 1 < n
    BY <1>6
  <2>2. F(n) \in Retried => n = R
    BY <1>2
  <2> HIDE DEF F
  <2>. QED  BY <2>1, <2>2
<1>8. 0 \in T
  <2>1. R - 0 = R /\ R \in 1..R /\ ~(R <= retries) /\ 0 \in 0..retries
    BY <1>2
  <2> HIDE DEF F, Decides
  <2>. QED  BY <1>7, <2>1
<1>9. ASSUME NEW k \in 0..retries, k \in T, k < retries
      PROVE  k + 1 \in T
  <2> DEFINE n == R - (k + 1)
  <2>1. n \in 1..R /\ n + 1 = R - k /\ n + 1 \in 1..R /\ k + 1 \in 0..retries /\ n \in Nat /\ n <= retries
    BY <1>2, <1>9
  <2>2. Decides(n + 1, from[n + 1])
    BY <1>9, <2>1
  <2> HIDE DEF n
  <2>3. Decides(n, from[n])
    <3>1. CASE F(n) \in Retried
      <4>1. from[n] = from[n + 1]
        BY <1>6, <2>1, <3>1
      <4> DEFINE o == from[n + 1]
      <4>2. o.made \in n + 1..R /\ o.made \in n..R
        BY <2>1, <2>2
      <4>3. \A m \in n..o.made - 1 : F(m) \in Retried
        <5>1. \A m \in n..o.made - 1 : m = n \/ m \in n + 1..o.made - 1
          BY <2>1, <4>2
        <5>. QED  BY <2>2, <3>1, <5>1
      <4> HIDE DEF F
      <4>. QED  BY <2>2, <4>1, <4>2, <4>3
    <3>2. CASE F(n) \notin Retried
      BY <1>7, <2>1, <3>2
    <3>. QED  BY <3>1, <3>2
  <2> HIDE DEF Decides
  <2>. QED  BY <2>1, <2>3 DEF n
<1>10. \A k \in 0..retries : k \in T
  <2> HIDE DEF T
  <2>. QED  BY <1>8, <1>9, UpTo
<1>11. Decides(1, from[1])
  <2>1. retries \in 0..retries /\ R - retries = 1
    OBVIOUS
  <2>2. retries \in T
    BY <1>10, <2>1
  <2> HIDE DEF Decides, R
  <2>. QED  BY <2>1, <2>2
<1>. QED  BY <1>1, <1>11

\* The attempts before the deciding one are retried, the deciding one is the last
\* one allowed or is not, for any number of retries.
LEMMA FetchesSettle ==
    ASSUME NEW scripts, NEW N \in Nat \ {0}, DOMAIN scripts = 1..N, Len(scripts) = N,
           \A n \in 1..N : IsScript(scripts[n])
    PROVE  Settles(scripts, FetchWithRetries(scripts, Len(scripts) - 1))
<1> DEFINE retries == N - 1
           outcome == FetchWithRetries(scripts, retries)
           F(n) == FetchOnce(scripts[n])
<1>1. retries \in Nat /\ retries + 1 = N
  OBVIOUS
<1>2. /\ outcome.made \in 1..N
      /\ outcome.result = F(outcome.made)
      /\ \A n \in 1..outcome.made - 1 : F(n) \in Retried
      /\ outcome.result \in Retried => outcome.made = N
  <2> HIDE DEF retries
  <2>. QED  BY <1>1, DecidingAttempt
<1> HIDE DEF outcome
<1>3. \A n \in 1..outcome.made - 1 : n \in 1..N
  BY <1>2
<1>4. \A n \in 1..N : /\ F(n) = "ok" <=> GoesThrough(scripts[n], 6)
                      /\ F(n) = Never <=> Silent(scripts[n])
                      /\ F(n) \in Retried => FailsWith(scripts[n], {"Connection", "Io", "stuck"})
  BY AttemptIs
<1>5. Never \notin Retried /\ Retried = {"Connection", "Io", "Timeout"}
  BY DEF Never, Retried
<1> DEFINE last == scripts[outcome.made]
<1>6. outcome.result = "ok" <=> GoesThrough(last, 6)
  BY <1>2, <1>4
<1>7. outcome.result = Never <=> Silent(last)
  BY <1>2, <1>4
<1>8. \A n \in 1..outcome.made - 1 :
          FailsWith(scripts[n], {"Connection", "Io", "stuck"}) /\ ~Silent(scripts[n])
  BY <1>2, <1>3, <1>4, <1>5
<1>9. outcome.result \in {"Connection", "Io", "Timeout"} => outcome.made = Len(scripts)
  BY <1>2, <1>5
<1>10. Len(Steps) + 1 = 6
  BY StepsAre
<1>11. Settles(scripts, outcome)
  <2> HIDE DEF F
  <2>. QED  BY <1>6, <1>7, <1>8, <1>9, <1>10 DEF Settles, GoesThrough, FailsWith, Silent
<1>. QED  BY <1>11 DEF outcome

-----------------------------------------------------------------------------
(* merge_topk, for any lists, any scores and any number of items.          *)

Ranked(lists) ==
    /\ lists \in Seq(Seq(Nat))
    /\ \A s \in DOMAIN lists : Sorted(lists[s])

LEMMA ItemsAre ==
    ASSUME NEW lists, Ranked(lists)
    PROVE  /\ \A item \in Items(lists) :
                /\ item = <<item[1], item[2]>>
                /\ item[1] \in DOMAIN lists /\ item[2] \in DOMAIN lists[item[1]]
                /\ item[1] \in Nat \ {0} /\ item[2] \in Nat \ {0} /\ Score(lists, item) \in Nat
           /\ \A s \in DOMAIN lists : \A i \in DOMAIN lists[s] : <<s, i>> \in Items(lists)
<1>1. ASSUME NEW s \in DOMAIN lists, NEW i \in DOMAIN lists[s]
      PROVE  s \in Nat \ {0} /\ i \in Nat \ {0} /\ lists[s][i] \in Nat
  <2>1. s \in 1..Len(lists) /\ lists[s] \in Seq(Nat)
    BY ElementOfSeq DEF Ranked
  <2>2. i \in 1..Len(lists[s])
    BY <2>1
  <2>. QED  BY <2>1, <2>2, ElementOfSeq
<1>2. ASSUME NEW item \in Items(lists)
      PROVE  \E s \in DOMAIN lists : \E i \in DOMAIN lists[s] : item = <<s, i>>
  BY DEF Items
<1>. QED  BY <1>1, <1>2 DEF Items, Score

\* Before is a strict order of the items, and a winner comes before.
LEMMA BeforeOrders ==
    ASSUME NEW lists, Ranked(lists), NEW a \in Items(lists), NEW b \in Items(lists)
    PROVE  /\ a = b \/ Before(lists, a, b) \/ Before(lists, b, a)
           /\ ~(Before(lists, a, b) /\ Before(lists, b, a)) /\ ~Before(lists, a, a)
           /\ \A c \in Items(lists) : Before(lists, a, b) /\ Before(lists, b, c) => Before(lists, a, c)
           /\ Wins(lists, a, b) => Before(lists, a, b)
<1>1. \A c \in Items(lists) : c = <<c[1], c[2]>> /\ c[1] \in Nat /\ c[2] \in Nat /\ Score(lists, c) \in Nat
  BY ItemsAre
<1>2. a = b \/ a[1] # b[1] \/ a[2] # b[2]
  BY <1>1
<1>3. a = b \/ Before(lists, a, b) \/ Before(lists, b, a)
  BY <1>1, <1>2 DEF Before
<1>4. \A c \in Items(lists) : Before(lists, a, b) /\ Before(lists, b, c) => Before(lists, a, c)
  <2> TAKE c \in Items(lists)
  <2>. QED  BY <1>1 DEF Before
<1>5. ~(Before(lists, a, b) /\ Before(lists, b, a)) /\ ~Before(lists, a, a)
  BY <1>1 DEF Before
<1>. QED  BY <1>3, <1>4, <1>5 DEF Before, Wins

\* Of one list, a lower place comes first.
LEMMA PlacesOrder ==
    ASSUME NEW lists, Ranked(lists), NEW s \in DOMAIN lists, NEW i \in DOMAIN lists[s],
           NEW j \in DOMAIN lists[s], i < j
    PROVE  Before(lists, <<s, i>>, <<s, j>>)
<1>1. <<s, i>> \in Items(lists) /\ <<s, j>> \in Items(lists)
  BY ItemsAre
<1>2. Score(lists, <<s, i>>) \in Nat /\ Score(lists, <<s, j>>) \in Nat
  BY <1>1, ItemsAre
<1>3. Score(lists, <<s, i>>) >= Score(lists, <<s, j>>)
  BY DEF Ranked, Sorted, Score
<1>. QED  BY <1>2, <1>3 DEF Before

\* One item of each list at most: one of them wins.
LEMMA BestIs ==
    ASSUME NEW lists, Ranked(lists), NEW heads \in SUBSET Items(lists), heads # {},
           \A a, b \in heads : a[1] = b[1] => a = b
    PROVE  /\ Best(lists, heads) \in heads
           /\ \A b \in heads \ {Best(lists, heads)} : Wins(lists, Best(lists, heads), b)
<1> DEFINE N == Len(lists)
           Upto(n) == {a \in heads : a[1] <= n}
           WinsAll(w, n) == \A b \in Upto(n) \ {w} : Wins(lists, w, b)
           T == {n \in 0..N : Upto(n) = {} \/ \E w \in Upto(n) : WinsAll(w, n)}
<1>1. N \in Nat
  BY DEF Ranked
<1>2. \A a \in heads : a[1] \in 1..N /\ a[1] \in Nat /\ Score(lists, a) \in Nat
  <2>1. DOMAIN lists = 1..N
    BY DEF Ranked
  <2> HIDE DEF N
  <2>. QED  BY <2>1, ItemsAre
<1>3. 0 \in T
  <2>1. Upto(0) = {}
    BY <1>1, <1>2
  <2>. QED  BY <1>1, <2>1
<1>4. ASSUME NEW n \in 0..N, n \in T, n < N
      PROVE  n + 1 \in T
  <2>1. n + 1 \in 0..N /\ n \in Nat
    BY <1>1, <1>4
  <2>2. CASE \E a \in heads : a[1] = n + 1
    <3>1. PICK a \in heads : a[1] = n + 1
      BY <2>2
    <3>2. Upto(n + 1) = Upto(n) \cup {a} /\ a \notin Upto(n)
      BY <1>2, <2>1, <3>1
    <3>3. CASE Upto(n) = {}
      <4>1. WinsAll(a, n + 1) /\ a \in Upto(n + 1)
        BY <3>2, <3>3
      <4>. QED  BY <2>1, <4>1
    <3>4. CASE \E w \in Upto(n) : WinsAll(w, n)
      <4>1. PICK w \in Upto(n) : WinsAll(w, n)
        BY <3>4
      <4>2. w \in heads /\ w[1] < a[1]
        BY <1>2, <2>1, <3>1
      <4>3. CASE Score(lists, a) > Score(lists, w)
        <5>1. \A b \in Upto(n) : Wins(lists, a, b)
          BY <1>2, <4>1, <4>2, <4>3 DEF Wins
        <5>2. WinsAll(a, n + 1) /\ a \in Upto(n + 1)
          BY <3>2, <5>1
        <5>. QED  BY <2>1, <5>2
      <4>4. CASE ~(Score(lists, a) > Score(lists, w))
        <5>1. Wins(lists, w, a)
          BY <1>2, <4>2, <4>4 DEF Wins
        <5>2. WinsAll(w, n + 1) /\ w \in Upto(n + 1)
          <6> HIDE DEF Upto
          <6>. QED  BY <3>2, <4>1, <5>1
        <5> HIDE DEF WinsAll, Upto
        <5>. QED  BY <2>1, <5>2
      <4>. QED  BY <4>3, <4>4
    <3>. QED  BY <1>4, <3>3, <3>4
  <2>3. CASE ~\E a \in heads : a[1] = n + 1
    <3>1. Upto(n + 1) = Upto(n)
      BY <1>2, <2>1, <2>3
    <3> HIDE DEF Upto
    <3>. QED  BY <1>4, <2>1, <3>1
  <2>. QED  BY <2>2, <2>3
<1>5. \A n \in 0..N : n \in T
  <2> HIDE DEF T, N
  <2>. QED  BY <1>1, <1>3, <1>4, UpTo
<1>6. N \in T /\ Upto(N) = heads
  <2>1. N \in T
    <3> HIDE DEF T, N
    <3>. QED  BY <1>1, <1>5
  <2>2. Upto(N) = heads
    BY <1>2
  <2>. QED  BY <2>1, <2>2
<1>7. \E w \in heads : \A b \in heads \ {w} : Wins(lists, w, b)
  <2> HIDE DEF Upto
  <2>. QED  BY <1>6
<1>. QED  BY <1>7 DEF Best

\* The state of a merge: what is in out is the front of the order, and of each
\* list the places up to as many as were taken of it.
Taken(out, s) == Cardinality({n \in DOMAIN out : out[n][1] = s})
IsIn(out, item) == \E n \in DOMAIN out : out[n] = item
InOrder(lists, out) == \A m, n \in DOMAIN out : m < n => Before(lists, out[m], out[n])
IsFront(lists, out) ==
    \A n \in DOMAIN out : \A item \in Items(lists) : Before(lists, item, out[n]) => IsIn(out, item)
Places(lists, out) == \A item \in Items(lists) : IsIn(out, item) <=> item[2] <= Taken(out, item[1])
Merged(lists, out) ==
    out \in Seq(Items(lists)) /\ InOrder(lists, out) /\ IsFront(lists, out) /\ Places(lists, out)

LEMMA TakenIs ==
    ASSUME NEW X, NEW out \in Seq(X), NEW s
    PROVE  /\ IsFiniteSet({n \in DOMAIN out : out[n][1] = s}) /\ Taken(out, s) \in Nat
           /\ \A item \in X : Taken(Append(out, item), s) = IF item[1] = s THEN Taken(out, s) + 1 ELSE Taken(out, s)
<1> DEFINE N == Len(out)
           At(o) == {n \in DOMAIN o : o[n][1] = s}
<1>1. N \in Nat /\ DOMAIN out = 1..N
  BY LenProperties
<1>2. IsFiniteSet(1..N)
  BY <1>1, FS_Interval
<1>3. IsFiniteSet(At(out))
  <2>1. At(out) \in SUBSET (1..N)
    BY <1>1
  <2> HIDE DEF N, At
  <2>. QED  BY <1>2, <2>1, FS_Subset
<1>4. Taken(out, s) \in Nat
  BY <1>3, FS_CardinalityType DEF Taken
<1>5. ASSUME NEW item \in X
      PROVE  Taken(Append(out, item), s) = IF item[1] = s THEN Taken(out, s) + 1 ELSE Taken(out, s)
  <2>1. /\ DOMAIN Append(out, item) = 1..N + 1 /\ N + 1 \notin At(out)
        /\ \A n \in 1..N : Append(out, item)[n] = out[n]
        /\ Append(out, item)[N + 1] = item
    BY <1>1, AppendProperties
  <2>2. CASE item[1] = s
    <3>1. At(Append(out, item)) = At(out) \cup {N + 1}
      BY <1>1, <2>1, <2>2
    <3> HIDE DEF N, At
    <3>2. Cardinality(At(Append(out, item))) = Cardinality(At(out)) + 1
      BY <1>3, <2>1, <3>1, FS_AddElement
    <3>. QED  BY <2>2, <3>2 DEF Taken, At
  <2>3. CASE item[1] # s
    <3>1. At(Append(out, item)) = At(out)
      BY <1>1, <2>1, <2>3
    <3>. QED  BY <2>3, <3>1 DEF Taken
  <2>. QED  BY <2>2, <2>3
<1>. QED  BY <1>3, <1>4, <1>5

\* The heads are the first items left.
LEMMA HeadsAre ==
    ASSUME NEW lists, Ranked(lists), NEW out, Merged(lists, out)
    PROVE  /\ Heads(lists, out) \in SUBSET Items(lists)
           /\ \A a, b \in Heads(lists, out) : a[1] = b[1] => a = b
           /\ \A a \in Heads(lists, out) : a[2] = Taken(out, a[1]) + 1 /\ ~IsIn(out, a)
           /\ \A item \in Items(lists) : ~IsIn(out, item) =>
                 \E a \in Heads(lists, out) : a = item \/ Before(lists, a, item)
<1>1. out \in Seq(Items(lists))
  BY DEF Merged
<1>2. Heads(lists, out) = {<<s, Taken(out, s) + 1>> : s \in DOMAIN lists} \cap Items(lists)
  BY DEF Heads, Taken
<1>3. \A s : Taken(out, s) \in Nat
  BY <1>1, TakenIs
<1>4. \A a \in Heads(lists, out) : a = <<a[1], Taken(out, a[1]) + 1>> /\ a \in Items(lists)
  BY <1>2
<1>5. \A a \in Heads(lists, out) : a[2] = Taken(out, a[1]) + 1 /\ ~IsIn(out, a)
  <2> TAKE a \in Heads(lists, out)
  <2>1. a[2] = Taken(out, a[1]) + 1 /\ a \in Items(lists)
    BY <1>4
  <2>2. ~(a[2] <= Taken(out, a[1]))
    BY <1>3, <2>1
  <2>. QED  BY <2>1, <2>2 DEF Merged, Places
<1>6. ASSUME NEW item \in Items(lists), ~IsIn(out, item)
      PROVE  \E a \in Heads(lists, out) : a = item \/ Before(lists, a, item)
  <2> DEFINE s == item[1]
             i == item[2]
             c == Taken(out, s) + 1
  <2>1. item = <<s, i>> /\ s \in DOMAIN lists /\ i \in DOMAIN lists[s] /\ i \in Nat \ {0} /\ c \in Nat \ {0}
    BY <1>3, ItemsAre
  <2>2. c <= i
    <3>1. ~(i <= Taken(out, s))
      BY <1>6 DEF Merged, Places
    <3>. QED  BY <1>3, <2>1, <3>1
  <2>3. DOMAIN lists[s] = 1..Len(lists[s]) /\ Len(lists[s]) \in Nat
    <3>1. lists[s] \in Seq(Nat)
      BY <2>1, ElementOfSeq DEF Ranked
    <3>. QED  BY <3>1, LenProperties
  <2>4. c \in DOMAIN lists[s]
    <3> HIDE DEF c, i, s
    <3>. QED  BY <2>1, <2>2, <2>3
  <2>5. <<s, c>> \in Heads(lists, out)
    <3>1. <<s, c>> \in Items(lists)
      <4> HIDE DEF c, i, s
      <4>. QED  BY <2>1, <2>4, ItemsAre
    <3>. QED  BY <1>2, <2>1, <3>1
  <2>6. <<s, c>> = item \/ Before(lists, <<s, c>>, item)
    <3> HIDE DEF c, i, s
    <3>1. c = i \/ c < i
      BY <2>1, <2>2
    <3>. QED  BY <2>1, <2>4, <3>1, PlacesOrder
  <2>. QED  BY <2>5, <2>6
<1>. QED  BY <1>2, <1>4, <1>5, <1>6

\* A round puts the best of the items left at the end.
LEMMA RoundKeepsMerged ==
    ASSUME NEW lists, Ranked(lists), NEW out, Merged(lists, out), Heads(lists, out) # {}
    PROVE  Merged(lists, Append(out, Best(lists, Heads(lists, out))))
<1> DEFINE best == Best(lists, Heads(lists, out))
           new == Append(out, best)
           N == Len(out)
<1>1. best \in Heads(lists, out) /\ \A b \in Heads(lists, out) \ {best} : Wins(lists, best, b)
  BY HeadsAre, BestIs
<1>2. best \in Items(lists) /\ best[2] = Taken(out, best[1]) + 1 /\ ~IsIn(out, best)
  BY <1>1, HeadsAre
<1>3. out \in Seq(Items(lists)) /\ N \in Nat /\ DOMAIN out = 1..N /\ \A n \in 1..N : out[n] \in Items(lists)
  BY LenProperties, ElementOfSeq DEF Merged
<1>4. /\ new \in Seq(Items(lists)) /\ DOMAIN new = 1..N + 1
      /\ \A n \in 1..N : new[n] = out[n]
      /\ new[N + 1] = best
  BY <1>2, <1>3, AppendProperties
<1> HIDE DEF best, new, N
<1>5. \A n \in 1..N + 1 : n \in 1..N \/ n = N + 1
  BY <1>3
<1>6. \A item : IsIn(new, item) <=> IsIn(out, item) \/ item = best
  <2>1. N + 1 \in 1..N + 1 /\ \A n \in 1..N : n \in 1..N + 1
    BY <1>3
  <2>. QED  BY <1>3, <1>4, <1>5, <2>1 DEF IsIn
<1>7. \A n \in 1..N : Before(lists, out[n], best)
  <2> TAKE n \in 1..N
  <2>1. out[n] # best
    BY <1>2, <1>3 DEF IsIn
  <2>2. ~Before(lists, best, out[n])
    BY <1>2, <1>3 DEF Merged, IsFront
  <2>. QED  BY <1>2, <1>3, <2>1, <2>2, BeforeOrders
<1>8. InOrder(lists, new)
  <2> SUFFICES ASSUME NEW m \in 1..N + 1, NEW n \in 1..N + 1, m < n
               PROVE  Before(lists, new[m], new[n])
    BY <1>4 DEF InOrder
  <2>1. m \in 1..N /\ (n \in 1..N \/ n = N + 1)
    BY <1>3
  <2>2. CASE n \in 1..N
    BY <1>3, <1>4, <2>1, <2>2 DEF Merged, InOrder
  <2>3. CASE n = N + 1
    BY <1>4, <1>7, <2>1, <2>3
  <2>. QED  BY <2>1, <2>2, <2>3
<1>9. IsFront(lists, new)
  <2>1. ASSUME NEW n \in 1..N, NEW item \in Items(lists), Before(lists, item, new[n])
        PROVE  IsIn(new, item)
    BY <1>3, <1>4, <1>6, <2>1 DEF Merged, IsFront
  <2>2. ASSUME NEW item \in Items(lists), Before(lists, item, best), ~IsIn(out, item)
        PROVE  FALSE
    <3>1. PICK a \in Heads(lists, out) : a = item \/ Before(lists, a, item)
      BY <2>2, HeadsAre
    <3>2. a \in Items(lists) /\ (a = best \/ Before(lists, best, a))
      BY <1>1, <1>2, HeadsAre, BeforeOrders
    <3>3. best = item \/ Before(lists, best, item)
      BY <1>2, <3>1, <3>2, BeforeOrders
    <3>. QED  BY <1>2, <2>2, <3>3, BeforeOrders
  <2>. QED  BY <1>4, <1>5, <1>6, <2>1, <2>2 DEF IsFront
<1>10. Places(lists, new)
  <2> SUFFICES ASSUME NEW item \in Items(lists)
               PROVE  IsIn(new, item) <=> item[2] <= Taken(new, item[1])
    BY DEF Places
  <2>1. IsIn(out, item) <=> item[2] <= Taken(out, item[1])
    BY DEF Merged, Places
  <2>2. Taken(out, item[1]) \in Nat
    BY <1>3, TakenIs
  <2>3. Taken(new, item[1]) = IF best[1] = item[1] THEN Taken(out, item[1]) + 1 ELSE Taken(out, item[1])
    BY <1>2, <1>3, TakenIs DEF new
  <2>4. item[2] \in Nat /\ item = <<item[1], item[2]>> /\ best = <<best[1], best[2]>>
    BY <1>2, ItemsAre
  <2>5. CASE best[1] = item[1]
    <3>1. item = best <=> item[2] = Taken(out, item[1]) + 1
      BY <1>2, <2>4, <2>5
    <3> DEFINE t == Taken(out, item[1])
               i == item[2]
    <3>2. i <= t + 1 <=> i <= t \/ i = t + 1
      <4>1. i \in Nat /\ t \in Nat
        BY <2>2, <2>4
      <4> HIDE DEF i, t
      <4>. QED  BY <4>1
    <3>. QED  BY <1>6, <2>1, <2>3, <2>5, <3>1, <3>2
  <2>6. CASE best[1] # item[1]
    BY <1>6, <2>1, <2>3, <2>6
  <2>. QED  BY <2>5, <2>6
<1>. QED  BY <1>4, <1>8, <1>9, <1>10 DEF Merged, new, best

LEMMA ItemsAreFinite == ASSUME NEW lists, Ranked(lists) PROVE IsFiniteSet(Items(lists))
<1> DEFINE Of(s) == {<<s, i>> : i \in DOMAIN lists[s]}
           N == Len(lists)
           f == [s \in 1..N |-> Of(s)]
           all == {Of(s) : s \in DOMAIN lists}
<1>1. N \in Nat /\ DOMAIN lists = 1..N
  BY LenProperties DEF Ranked
<1>2. ASSUME NEW s \in DOMAIN lists
      PROVE  IsFiniteSet(Of(s))
  <2> DEFINE M == Len(lists[s])
             g == [i \in 1..M |-> <<s, i>>]
  <2>1. M \in Nat /\ DOMAIN lists[s] = 1..M
    <3>1. lists[s] \in Seq(Nat)
      BY <1>1, ElementOfSeq DEF Ranked
    <3>. QED  BY <3>1, LenProperties
  <2>2. IsFiniteSet(1..M)
    BY <2>1, FS_Interval
  <2>3. g \in Surjection(1..M, Of(s))
    BY <2>1 DEF Surjection
  <2> HIDE DEF g, M, Of
  <2>. QED  BY <2>2, <2>3, FS_Surjection
<1>3. IsFiniteSet(1..N)
  BY <1>1, FS_Interval
<1>4. f \in Surjection(1..N, all)
  BY <1>1 DEF Surjection
<1>5. IsFiniteSet(all)
  <2> HIDE DEF f, all, N
  <2>. QED  BY <1>3, <1>4, FS_Surjection
<1>6. \A T \in all : IsFiniteSet(T)
  BY <1>2
<1>7. IsFiniteSet(UNION all)
  <2> HIDE DEF all
  <2>. QED  BY <1>5, <1>6, FS_UNION
<1>. QED  BY <1>7 DEF Items

\* As long as an item is left, out is shorter than the number of items.
LEMMA MergedIsPart ==
    ASSUME NEW lists, Ranked(lists), NEW out, Merged(lists, out)
    PROVE  /\ Cardinality(Items(lists)) \in Nat
           /\ IF Heads(lists, out) = {} THEN Len(out) = Cardinality(Items(lists))
              ELSE Len(out) < Cardinality(Items(lists))
<1> DEFINE N == Len(out)
           all == Items(lists)
<1>1. out \in Seq(all) /\ N \in Nat /\ DOMAIN out = 1..N /\ out \in [1..N -> all]
  BY LenProperties DEF Merged
<1>2. IsFiniteSet(all) /\ Cardinality(all) \in Nat
  BY ItemsAreFinite, FS_CardinalityType
<1>3. IsFiniteSet(1..N) /\ Cardinality(1..N) = N
  BY <1>1, FS_Interval
<1>4. \A m, n \in 1..N : out[m] = out[n] => m = n
  <2> SUFFICES ASSUME NEW m \in 1..N, NEW n \in 1..N, out[m] = out[n]
               PROVE  m = n
    OBVIOUS
  <2>1. out[m] \in all /\ out[n] \in all
    BY <1>1
  <2>2. ~Before(lists, out[m], out[n]) /\ ~Before(lists, out[n], out[m])
    BY <2>1, BeforeOrders
  <2>3. ~(m < n) /\ ~(n < m)
    BY <1>1, <2>2 DEF Merged, InOrder
  <2>. QED  BY <1>1, <2>3
<1> HIDE DEF N
<1>5. CASE Heads(lists, out) = {}
  <2>1. \A item \in all : IsIn(out, item)
    BY <1>5, HeadsAre
  <2>2. out \in Surjection(1..N, all)
    BY <1>1, <2>1 DEF Surjection, IsIn
  <2>3. out \in Injection(1..N, all)
    BY <1>1, <1>4 DEF Injection, IsInjective
  <2> HIDE DEF all
  <2>4. Cardinality(1..N) = Cardinality(all)
    BY <1>2, <2>2, <2>3, FS_Injection
  <2>. QED  BY <1>2, <1>3, <1>5, <2>4 DEF N, all
<1>6. CASE Heads(lists, out) # {}
  <2>1. PICK a \in all : ~IsIn(out, a)
    BY <1>6, HeadsAre
  <2>2. out \in [1..N -> all \ {a}]
    BY <1>1, <2>1 DEF IsIn
  <2>3. out \in Injection(1..N, all \ {a})
    BY <1>4, <2>2 DEF Injection, IsInjective
  <2> HIDE DEF all
  <2>4. IsFiniteSet(all \ {a}) /\ Cardinality(all \ {a}) = Cardinality(all) - 1
    BY <1>2, <2>1, FS_RemoveElement
  <2>5. Cardinality(1..N) <= Cardinality(all \ {a})
    BY <2>3, <2>4, FS_Injection
  <2>6. N < Cardinality(all)
    BY <1>1, <1>2, <1>3, <2>4, <2>5
  <2>. QED  BY <1>2, <1>6, <2>6 DEF N, all
<1>. QED  BY <1>5, <1>6

LEMMA NothingIsMerged == ASSUME NEW lists, Ranked(lists) PROVE Merged(lists, <<>>)
<1>1. <<>> \in Seq(Items(lists)) /\ DOMAIN <<>> = {}
  OBVIOUS
<1>2. \A s : Taken(<<>>, s) = 0
  BY <1>1, FS_EmptySet DEF Taken
<1>3. \A item \in Items(lists) : ~(item[2] <= 0)
  BY ItemsAre
<1>. QED  BY <1>1, <1>2, <1>3 DEF Merged, InOrder, IsFront, Places, IsIn

\* What a round makes of what was taken before.
Round(lists, out) ==
    IF Heads(lists, out) = {} THEN out ELSE Append(out, Best(lists, Heads(lists, out)))

LEMMA RoundsAre ==
    ASSUME NEW lists, Ranked(lists), NEW k \in Nat
    PROVE  \E after : /\ after[0] = <<>>
                      /\ \A n \in 1..k : after[n] = Round(lists, after[n - 1])
                      /\ MergeTopK(lists, k) = after[k]
<1> DEFINE X == {out \in Seq(Items(lists)) : Merged(lists, out)}
           step == [n \in 1..k |-> [out \in X |-> Round(lists, out)]]
           After(f) == [n \in 0..k |->
                            IF n = 0 THEN <<>>
                            ELSE IF Heads(lists, f[n - 1]) = {} THEN f[n - 1]
                                 ELSE Append(f[n - 1], Best(lists, Heads(lists, f[n - 1])))]
<1>1. MergeTopK(lists, k) = (CHOOSE f : f = After(f))[k]
  BY DEF MergeTopK
<1>2. \A out : out \in X <=> Merged(lists, out)
  BY DEF Merged
<1> HIDE DEF X
<1>3. <<>> \in X
  BY <1>2, NothingIsMerged
<1>4. \A out \in X : Round(lists, out) \in X
  BY <1>2, RoundKeepsMerged DEF Round
<1>5. step \in StepsOn(k, X)
  BY <1>4 DEF StepsOn
<1>6. PICK g : Follows(g, k, X, <<>>, step)
  <2> HIDE DEF step
  <2>. QED  BY <1>3, <1>5, RecursionExists
<1>7. \A n \in 1..k : g[n] = Round(lists, g[n - 1])
  <2> TAKE n \in 1..k
  <2>1. n - 1 \in 0..k
    OBVIOUS
  <2>2. g[n - 1] \in X
    BY <1>6, <2>1 DEF Follows
  <2>. QED  BY <1>6, <2>2 DEF Follows
<1>8. g = After(g)
  <2>1. \A n \in 0..k : g[n] = After(g)[n]
    <3> SUFFICES ASSUME NEW n \in 0..k
                 PROVE  g[n] = After(g)[n]
      OBVIOUS
    <3>1. CASE n = 0
      BY <1>6, <3>1 DEF Follows
    <3>2. CASE n # 0
      <4>1. n \in 1..k
        BY <3>2
      <4>. QED  BY <1>7, <3>2, <4>1 DEF Round
    <3>. QED  BY <3>1, <3>2
  <2>2. DOMAIN g = 0..k /\ g = [n \in 0..k |-> g[n]]
    BY <1>6 DEF Follows
  <2>. QED  BY <2>1, <2>2
<1> DEFINE after == CHOOSE f : f = After(f)
<1>9. after = After(after)
  <2>1. \E f : f = After(f)
    BY <1>8
  <2> HIDE DEF After
  <2>. QED  BY <2>1
<1> HIDE DEF after
<1>10. after[0] = <<>>
  BY <1>9
<1>11. \A n \in 1..k : after[n] = Round(lists, after[n - 1])
  <2> SUFFICES ASSUME NEW n \in 1..k
               PROVE  after[n] = Round(lists, after[n - 1])
    OBVIOUS
  <2>1. n \in 0..k /\ n # 0
    OBVIOUS
  <2>2. after[n] = After(after)[n]
    BY <1>9
  <2>. QED  BY <2>1, <2>2 DEF Round
<1>. QED  BY <1>1, <1>10, <1>11 DEF after

\* The merge of any ranked lists is the front of all their items in order.
LEMMA MergesBest ==
    ASSUME NEW lists, Ranked(lists), NEW k \in Nat
    PROVE  IsTopK(lists, k, MergeTopK(lists, k))
<1>1. PICK after : /\ after[0] = <<>>
                   /\ \A n \in 1..k : after[n] = Round(lists, after[n - 1])
                   /\ MergeTopK(lists, k) = after[k]
  BY RoundsAre
<1> DEFINE Full(out, n) == Len(out) = n \/ (Len(out) < n /\ Heads(lists, out) = {})
           T == {n \in 0..k : Merged(lists, after[n]) /\ Full(after[n], n)}
<1>2. 0 \in T
  <2>1. Len(<<>>) = 0 /\ 0 \in 0..k
    OBVIOUS
  <2>. QED  BY <1>1, <2>1, NothingIsMerged
<1>3. ASSUME NEW n \in 0..k, n \in T, n < k
      PROVE  n + 1 \in T
  <2> DEFINE out == after[n]
  <2>1. n + 1 \in 1..k /\ (n + 1) - 1 = n /\ n \in Nat /\ n + 1 \in 0..k
    BY <1>3
  <2>2. after[n + 1] = Round(lists, out)
    BY <1>1, <2>1
  <2>3. Merged(lists, out) /\ Full(out, n) /\ Len(out) \in Nat /\ out \in Seq(Items(lists))
    BY <1>3, LenProperties DEF Merged
  <2>4. CASE Heads(lists, out) = {}
    <3>1. after[n + 1] = out
      BY <2>2, <2>4 DEF Round
    <3>2. Full(out, n + 1)
      BY <2>1, <2>3, <2>4
    <3> HIDE DEF Full
    <3>. QED  BY <2>1, <2>3, <3>1, <3>2
  <2>5. CASE Heads(lists, out) # {}
    <3> DEFINE new == Append(out, Best(lists, Heads(lists, out)))
    <3>1. after[n + 1] = new
      BY <2>2, <2>5 DEF Round
    <3>2. Merged(lists, new)
      BY <2>3, <2>5, RoundKeepsMerged
    <3>3. Len(new) = Len(out) + 1 /\ Len(out) = n
      BY <2>3, <2>5
    <3> HIDE DEF new
    <3>4. Full(new, n + 1)
      BY <3>3
    <3> HIDE DEF Full
    <3>. QED  BY <2>1, <3>1, <3>2, <3>4
  <2>. QED  BY <2>4, <2>5
<1>4. \A n \in 0..k : n \in T
  <2> HIDE DEF T
  <2>. QED  BY <1>2, <1>3, UpTo
<1> DEFINE out == MergeTopK(lists, k)
<1>5. Merged(lists, out) /\ Full(out, k)
  <2>1. k \in T
    BY <1>4
  <2>. QED  BY <1>1, <2>1
<1> HIDE DEF out
<1>6. Len(out) = IF k < Cardinality(Items(lists)) THEN k ELSE Cardinality(Items(lists))
  <2>1. Len(out) \in Nat
    BY <1>5, LenProperties DEF Merged
  <2>. QED  BY <1>5, <2>1, MergedIsPart
<1>7. IsTopK(lists, k, out)
  BY <1>5, <1>6 DEF IsTopK, Merged, InOrder, IsFront, IsIn
<1>. QED  BY <1>7 DEF out

-----------------------------------------------------------------------------
(* Search strings, for any words and any number of tokens of any length.   *)

Symbols == Words \cup AllWords \cup {"site", "filetype", "-", ":", "=", "dquote", "quote", "U+001F"}

\* What is kept of a sequence.
LEMMA OnlyIs ==
    ASSUME NEW X, NEW s \in Seq(X), NEW set
    PROVE  /\ Only(s, set) \in Seq(X)
           /\ \A x : IsIn(Only(s, set), x) <=> x \in set /\ IsIn(s, x)
<1> DEFINE N == Len(s)
           After(f) == [n \in 0..Len(s) |->
                            IF n = 0 THEN <<>> ELSE IF s[n] \in set THEN Append(f[n - 1], s[n]) ELSE f[n - 1]]
           step == [n \in 1..N |-> [t \in Seq(X) |-> IF s[n] \in set THEN Append(t, s[n]) ELSE t]]
           upTo == CHOOSE f : f = After(f)
<1>1. Only(s, set) = upTo[N]
  BY DEF Only
<1>2. N \in Nat /\ DOMAIN s = 1..N /\ \A n \in 1..N : s[n] \in X
  BY LenProperties, ElementOfSeq
<1>3. \E g : g \in [0..N -> Seq(X)] /\ g = After(g)
  <2>1. step \in StepsOn(N, Seq(X))
    BY <1>2, AppendProperties DEF StepsOn
  <2>2. <<>> \in Seq(X) /\ N \in Nat
    BY <1>2
  <2>3. PICK g : Follows(g, N, Seq(X), <<>>, step)
    <3> HIDE DEF step, N
    <3>. QED  BY <2>1, <2>2, RecursionExists
  <2>4. \A n \in 0..N : g[n] = After(g)[n]
    <3> SUFFICES ASSUME NEW n \in 0..N
                 PROVE  g[n] = After(g)[n]
      OBVIOUS
    <3>1. CASE n = 0
      BY <2>3, <3>1 DEF Follows
    <3>2. CASE n # 0
      <4>1. n \in 1..N /\ n - 1 \in 0..N
        BY <1>2, <3>2
      <4>2. g[n - 1] \in Seq(X)
        BY <2>3, <4>1 DEF Follows
      <4>. QED  BY <2>3, <3>2, <4>1, <4>2 DEF Follows
    <3>. QED  BY <3>1, <3>2
  <2>5. g \in [0..N -> Seq(X)]
    BY <2>3 DEF Follows
  <2>. QED  BY <2>4, <2>5
<1>4. upTo = After(upTo)
  <2>1. \E f : f = After(f)
    BY <1>3
  <2> HIDE DEF After
  <2>. QED  BY <2>1
<1> HIDE DEF upTo
<1> DEFINE Kept(n) == /\ upTo[n] \in Seq(X)
                      /\ \A x : IsIn(upTo[n], x) <=> x \in set /\ \E i \in 1..n : s[i] = x
           T == {n \in 0..N : Kept(n)}
<1>5. 0 \in T
  <2>1. upTo[0] = <<>> /\ 0 \in 0..N
    BY <1>2, <1>4
  <2>2. <<>> \in Seq(X) /\ \A x : ~IsIn(<<>>, x)
    BY DEF IsIn
  <2>3. Kept(0)
    BY <2>1, <2>2
  <2> HIDE DEF Kept
  <2>. QED  BY <2>1, <2>3
<1>6. ASSUME NEW n \in 0..N, n \in T, n < N
      PROVE  n + 1 \in T
  <2> DEFINE m == n + 1
             t == upTo[n]
  <2>1. m \in 1..N /\ m \in 0..N /\ m # 0 /\ m - 1 = n /\ \A i : i \in 1..m <=> i \in 1..n \/ i = m
    BY <1>2, <1>6
  <2>2. upTo[m] = IF s[m] \in set THEN Append(t, s[m]) ELSE t
    <3>1. upTo[m] = After(upTo)[m]
      BY <1>4
    <3> HIDE DEF m
    <3>. QED  BY <2>1, <3>1
  <2>3. Kept(n)
    BY <1>6
  <2>4. /\ Append(t, s[m]) \in Seq(X)
        /\ \A x : IsIn(Append(t, s[m]), x) <=> IsIn(t, x) \/ x = s[m]
    <3>1. t \in Seq(X) /\ s[m] \in X /\ Len(t) \in Nat
      BY <1>2, <2>1, <2>3
    <3> HIDE DEF t, m
    <3>. QED  BY <3>1, AppendProperties DEF IsIn
  <2> HIDE DEF m
  <2>5. Kept(m)
    BY <2>1, <2>2, <2>3, <2>4
  <2> HIDE DEF Kept
  <2>. QED  BY <2>1, <2>5 DEF m
<1>7. \A n \in 0..N : n \in T
  <2> HIDE DEF T, N
  <2>. QED  BY <1>2, <1>5, <1>6, UpTo
<1>8. Kept(N)
  <2>1. N \in 0..N
    BY <1>2
  <2> HIDE DEF Kept, N
  <2>. QED  BY <1>7, <2>1
<1>. QED  BY <1>1, <1>2, <1>8 DEF IsIn

LEMMA LoweredIs ==
    ASSUME NEW fold \in [Words -> Words], NEW s \in Seq(Symbols)
    PROVE  /\ Lowered(fold, s) \in Seq(Symbols)
           /\ Len(Lowered(fold, s)) = Len(s) /\ DOMAIN Lowered(fold, s) = 1..Len(s)
           /\ \A i \in 1..Len(s) : Lowered(fold, s)[i] = IF s[i] \in Words THEN fold[s[i]] ELSE s[i]
<1> DEFINE N == Len(s)
           e == [i \in 1..N |-> IF s[i] \in Words THEN fold[s[i]] ELSE s[i]]
<1>1. N \in Nat /\ DOMAIN s = 1..N /\ \A n \in 1..N : s[n] \in Symbols
  BY LenProperties, ElementOfSeq
<1>2. Lowered(fold, s) = e
  BY <1>1 DEF Lowered
<1>3. e \in [1..N -> Symbols]
  <2>1. \A w \in Words : fold[w] \in Symbols
    BY DEF Symbols
  <2>. QED  BY <1>1, <2>1
<1>. QED  BY <1>1, <1>2, <1>3

\* The text of some terms is put together one term after the other.
LEMMA TextIs ==
    ASSUME NEW terms \in Seq(Seq(Symbols))
    PROVE  \E upTo \in [0..Len(terms) -> Seq(Symbols)] :
              /\ upTo[0] = <<>>
              /\ \A n \in 1..Len(terms) : upTo[n] = upTo[n - 1] \o terms[n]
              /\ Text(terms) = upTo[Len(terms)]
<1> DEFINE N == Len(terms)
           X == Seq(Symbols)
           After(f) == [n \in 0..Len(terms) |-> IF n = 0 THEN <<>> ELSE f[n - 1] \o terms[n]]
           step == [n \in 1..N |-> [t \in X |-> t \o terms[n]]]
           upTo == CHOOSE f : f = After(f)
<1>1. Text(terms) = upTo[N]
  BY DEF Text
<1>2. N \in Nat /\ \A n \in 1..N : terms[n] \in X
  BY LenProperties, ElementOfSeq
<1>3. \E g : g = After(g)
  <2>1. step \in StepsOn(N, X)
    BY <1>2 DEF StepsOn
  <2>2. <<>> \in X /\ N \in Nat
    BY <1>2
  <2>3. PICK g : Follows(g, N, X, <<>>, step)
    <3> HIDE DEF step, N, X
    <3>. QED  BY <2>1, <2>2, RecursionExists
  <2>4. \A n \in 0..N : g[n] = After(g)[n]
    <3> SUFFICES ASSUME NEW n \in 0..N
                 PROVE  g[n] = After(g)[n]
      OBVIOUS
    <3>1. CASE n = 0
      BY <2>3, <3>1 DEF Follows
    <3>2. CASE n # 0
      <4>1. n \in 1..N /\ n - 1 \in 0..N
        BY <1>2, <3>2
      <4>2. g[n - 1] \in X
        BY <2>3, <4>1 DEF Follows
      <4>. QED  BY <2>3, <3>2, <4>1, <4>2 DEF Follows
    <3>. QED  BY <3>1, <3>2
  <2>5. g \in [0..N -> X]
    BY <2>3 DEF Follows
  <2>. QED  BY <2>4, <2>5
<1>4. upTo = After(upTo)
  <2>1. \E f : f = After(f)
    BY <1>3
  <2> HIDE DEF After
  <2>. QED  BY <2>1
<1> HIDE DEF upTo
<1>5. upTo[0] = <<>>
  BY <1>2, <1>4
<1>6. \A n \in 1..N : upTo[n] = upTo[n - 1] \o terms[n]
  <2> SUFFICES ASSUME NEW n \in 1..N
               PROVE  upTo[n] = upTo[n - 1] \o terms[n]
    OBVIOUS
  <2>1. n \in 0..N /\ n # 0
    BY <1>2
  <2>2. upTo[n] = After(upTo)[n]
    BY <1>4
  <2>. QED  BY <2>1, <2>2
<1> DEFINE T == {n \in 0..N : upTo[n] \in X}
<1>7. 0 \in T
  <2>1. 0 \in 0..N /\ <<>> \in X
    BY <1>2
  <2>. QED  BY <1>5, <2>1
<1>8. ASSUME NEW n \in 0..N, n \in T, n < N
      PROVE  n + 1 \in T
  <2>1. n + 1 \in 1..N /\ (n + 1) - 1 = n /\ n + 1 \in 0..N
    BY <1>2, <1>8
  <2>2. upTo[n + 1] = upTo[n] \o terms[n + 1]
    BY <1>6, <2>1
  <2>3. upTo[n] \o terms[n + 1] \in X
    BY <1>2, <1>8, <2>1
  <2>. QED  BY <2>1, <2>2, <2>3
<1>9. \A n \in 0..N : n \in T
  <2> HIDE DEF T, N
  <2>. QED  BY <1>2, <1>7, <1>8, UpTo
<1>10. upTo \in [0..N -> X]
  BY <1>4, <1>9
<1>. QED  BY <1>1, <1>5, <1>6, <1>10

LEMMA ConcatIs ==
    ASSUME NEW X, NEW s \in Seq(X), NEW t \in Seq(X)
    PROVE  /\ s \o t \in Seq(X) /\ Len(s \o t) = Len(s) + Len(t)
           /\ \A i \in 1..Len(s) : (s \o t)[i] = s[i]
           /\ \A i \in Len(s) + 1..Len(s) + Len(t) : (s \o t)[i] = t[i - Len(s)]
OBVIOUS

LEMMA LoweredConcat ==
    ASSUME NEW fold \in [Words -> Words], NEW s \in Seq(Symbols), NEW t \in Seq(Symbols)
    PROVE  Lowered(fold, s \o t) = Lowered(fold, s) \o Lowered(fold, t)
<1> DEFINE st == s \o t
           ls == Lowered(fold, s)
           lt == Lowered(fold, t)
           a == Lowered(fold, st)
           b == ls \o lt
           M == Len(s)
           N == Len(t)
<1>1. /\ M \in Nat /\ N \in Nat /\ st \in Seq(Symbols) /\ Len(st) = M + N
      /\ \A i \in 1..M : st[i] = s[i]
      /\ \A i \in M + 1..M + N : st[i] = t[i - M]
  OBVIOUS
<1>2. /\ ls \in Seq(Symbols) /\ Len(ls) = M
      /\ \A i \in 1..M : ls[i] = IF s[i] \in Words THEN fold[s[i]] ELSE s[i]
  BY LoweredIs
<1>3. /\ lt \in Seq(Symbols) /\ Len(lt) = N
      /\ \A i \in 1..N : lt[i] = IF t[i] \in Words THEN fold[t[i]] ELSE t[i]
  BY LoweredIs
<1>4. /\ a \in Seq(Symbols) /\ Len(a) = M + N
      /\ \A i \in 1..M + N : a[i] = IF st[i] \in Words THEN fold[st[i]] ELSE st[i]
  <2> HIDE DEF st
  <2>1. /\ a \in Seq(Symbols) /\ Len(a) = Len(st)
        /\ \A i \in 1..Len(st) : a[i] = IF st[i] \in Words THEN fold[st[i]] ELSE st[i]
    BY <1>1, LoweredIs
  <2> HIDE DEF a, M, N
  <2>. QED  BY <1>1, <2>1
<1> HIDE DEF st, ls, lt, a
<1>5. /\ b \in Seq(Symbols) /\ Len(b) = M + N
      /\ \A i \in 1..M : b[i] = ls[i]
      /\ \A i \in M + 1..M + N : b[i] = lt[i - M]
  <2> HIDE DEF M, N
  <2>1. ls \in Seq(Symbols) /\ lt \in Seq(Symbols) /\ Len(ls) = M /\ Len(lt) = N
    BY <1>2, <1>3
  <2>. QED  BY <2>1, ConcatIs
<1> HIDE DEF b, M, N
<1>6. ASSUME NEW i \in 1..M + N
      PROVE  a[i] = b[i]
  <2>1. CASE i \in 1..M
    <3>1. st[i] = s[i] /\ b[i] = ls[i]
      BY <1>1, <1>5, <2>1
    <3>2. a[i] = IF st[i] \in Words THEN fold[st[i]] ELSE st[i]
      BY <1>4, <1>6
    <3>3. ls[i] = IF s[i] \in Words THEN fold[s[i]] ELSE s[i]
      BY <1>2, <2>1
    <3>. QED  BY <3>1, <3>2, <3>3
  <2>2. CASE i \notin 1..M
    <3>1. i \in M + 1..M + N /\ i - M \in 1..N
      BY <1>1, <2>2
    <3>2. st[i] = t[i - M] /\ b[i] = lt[i - M]
      BY <1>1, <1>5, <3>1
    <3>3. a[i] = IF st[i] \in Words THEN fold[st[i]] ELSE st[i]
      BY <1>4, <1>6
    <3>4. lt[i - M] = IF t[i - M] \in Words THEN fold[t[i - M]] ELSE t[i - M]
      BY <1>3, <3>1
    <3>. QED  BY <3>2, <3>3, <3>4
  <2>. QED  BY <2>1, <2>2
<1>7. a = b
  BY <1>1, <1>4, <1>5, <1>6
<1>. QED  BY <1>7 DEF a, b, st, ls, lt

LoweredTerms(terms) == [i \in DOMAIN terms |-> Lowered(AsciiLower, terms[i])]

LEMMA LoweredTermsAre ==
    ASSUME NEW terms \in Seq(Seq(Symbols))
    PROVE  /\ LoweredTerms(terms) \in Seq(Seq(Symbols)) /\ Len(LoweredTerms(terms)) = Len(terms)
           /\ \A i \in 1..Len(terms) : LoweredTerms(terms)[i] = Lowered(AsciiLower, terms[i])
<1>1. Len(terms) \in Nat /\ DOMAIN terms = 1..Len(terms) /\ \A i \in 1..Len(terms) : terms[i] \in Seq(Symbols)
  BY LenProperties, ElementOfSeq
<1>2. \A i \in 1..Len(terms) : Lowered(AsciiLower, terms[i]) \in Seq(Symbols)
  BY <1>1, LoweredIs, QueryAssumption
<1>. QED  BY <1>1, <1>2 DEF LoweredTerms

\* Lower case may be taken before or after the terms are put together.
LEMMA LoweredText ==
    ASSUME NEW terms \in Seq(Seq(Symbols))
    PROVE  Lowered(AsciiLower, Text(terms)) = Text(LoweredTerms(terms))
<1> DEFINE N == Len(terms)
           low == LoweredTerms(terms)
<1>1. PICK up \in [0..N -> Seq(Symbols)] :
          /\ up[0] = <<>>
          /\ \A n \in 1..N : up[n] = up[n - 1] \o terms[n]
          /\ Text(terms) = up[N]
  BY TextIs
<1>2. low \in Seq(Seq(Symbols)) /\ Len(low) = N
  BY LoweredTermsAre
<1>3. PICK lp \in [0..N -> Seq(Symbols)] :
          /\ lp[0] = <<>>
          /\ \A n \in 1..N : lp[n] = lp[n - 1] \o low[n]
          /\ Text(low) = lp[N]
  <2> HIDE DEF low, N
  <2>. QED  BY <1>2, TextIs
<1>4. N \in Nat /\ \A n \in 1..N : terms[n] \in Seq(Symbols) /\ low[n] = Lowered(AsciiLower, terms[n])
  BY LenProperties, ElementOfSeq, LoweredTermsAre
<1> DEFINE T == {n \in 0..N : lp[n] = Lowered(AsciiLower, up[n])}
<1>5. 0 \in T
  <2>1. <<>> \in Seq(Symbols) /\ Len(<<>>) = 0 /\ 0 \in 0..N
    BY <1>4
  <2>2. Lowered(AsciiLower, <<>>) = <<>>
    BY DEF Lowered
  <2>. QED  BY <1>1, <1>3, <2>1, <2>2
<1>6. ASSUME NEW n \in 0..N, n \in T, n < N
      PROVE  n + 1 \in T
  <2>1. n + 1 \in 1..N /\ (n + 1) - 1 = n /\ n + 1 \in 0..N
    BY <1>4, <1>6
  <2>2. up[n + 1] = up[n] \o terms[n + 1] /\ lp[n + 1] = lp[n] \o low[n + 1] /\ up[n] \in Seq(Symbols)
    BY <1>1, <1>3, <2>1
  <2>3. Lowered(AsciiLower, up[n + 1]) = Lowered(AsciiLower, up[n]) \o Lowered(AsciiLower, terms[n + 1])
    <3>1. terms[n + 1] \in Seq(Symbols) /\ AsciiLower \in [Words -> Words]
      BY <1>4, <2>1, QueryAssumption
    <3> HIDE DEF low, N
    <3>. QED  BY <2>2, <3>1, LoweredConcat
  <2>. QED  BY <1>4, <1>6, <2>1, <2>2, <2>3
<1>7. \A n \in 0..N : n \in T
  <2> HIDE DEF T, N
  <2>. QED  BY <1>4, <1>5, <1>6, UpTo
<1>8. N \in 0..N
  BY <1>4
<1>. QED  BY <1>1, <1>3, <1>7, <1>8

\* The values of filters are strings of symbols.
LEMMA FilterValueIs ==
    ASSUME NEW raw \in Seq(Symbols), Colon \in {raw[i] : i \in DOMAIN raw}
    PROVE  FilterValue(raw) \in Seq(Symbols)
<1> DEFINE N == Len(raw)
           places == {i \in DOMAIN raw : raw[i] = Colon}
           k == SplitAt(raw)
           value == SubSeq(raw, k + 1, N)
<1>1. N \in Nat /\ DOMAIN raw = 1..N
  BY LenProperties
<1>2. k \in 1..N
  <2>1. places # {} /\ places \in SUBSET Nat /\ k = Min(places)
    BY <1>1 DEF SplitAt
  <2>2. Min(places) \in places
    <3> HIDE DEF places
    <3>. QED  BY <2>1, LeastIs
  <2>. QED  BY <1>1, <2>1, <2>2
<1> HIDE DEF k
<1>3. value \in Seq(Symbols)
  BY <1>1, <1>2
<1>4. StripQuotes(value) \in Seq(Symbols)
  <2> HIDE DEF value
  <2>1. Len(value) \in Nat
    BY <1>3
  <2>2. \A i \in 2..Len(value) - 1 : i \in 1..Len(value)
    BY <2>1
  <2>3. SubSeq(value, 2, Len(value) - 1) \in Seq(Symbols)
    BY <1>3, <2>1, <2>2
  <2>. QED  BY <1>3, <2>3 DEF StripQuotes
<1>. QED  BY <1>4, LoweredIs, QueryAssumption DEF FilterValue, k, value

LEMMA GreatestIs ==
    ASSUME NEW N \in Nat, NEW T \in SUBSET (1..N), T # {}
    PROVE  Max(T) \in T /\ \A n \in T : n <= Max(T)
<1> DEFINE Rest == {N - n : n \in T}
<1>1. PICK m \in Rest : \A n \in Rest : m <= n
  <2>1. \A n \in T : N - n \in Nat
    OBVIOUS
  <2>2. Rest \in SUBSET Nat
    BY <2>1
  <2>3. Rest # {}
    OBVIOUS
  <2> HIDE DEF Rest
  <2>. QED  BY <2>2, <2>3, LeastOf
<1>2. PICK k \in T : m = N - k
  BY <1>1
<1>3. \A n \in T : k >= n
  <2> TAKE n \in T
  <2>1. N - k <= N - n
    BY <1>1, <1>2
  <2>. QED  BY <2>1
<1>. QED  BY <1>2, <1>3 DEF Max

Parsed(pq) ==
    pq.terms \in Seq(Seq(Symbols)) /\ pq.site \in Seq(Symbols) /\ pq.filetype \in Seq(Symbols)

LEMMA ParseQueryIs == ASSUME NEW query \in Seq(Seq(Symbols)) PROVE Parsed(ParseQuery(query))
<1>1. ASSUME NEW name
      PROVE  Filter(query, name) \in Seq(Symbols)
  <2> DEFINE given == {i \in DOMAIN query : IsFilter(query[i], name) /\ FilterValue(query[i]) # <<>>}
  <2>1. Len(query) \in Nat /\ DOMAIN query = 1..Len(query)
    BY LenProperties
  <2>2. CASE given = {}
    <3>1. Filter(query, name) = <<>>
      BY <2>2 DEF Filter
    <3>. QED  BY <3>1
  <2>3. CASE given # {}
    <3>1. Max(given) \in given
      <4>1. given \in SUBSET (1..Len(query))
        BY <2>1
      <4> HIDE DEF given
      <4>. QED  BY <2>1, <2>3, <4>1, GreatestIs
    <3> DEFINE raw == query[Max(given)]
    <3>2. raw \in Seq(Symbols) /\ Colon \in {raw[i] : i \in DOMAIN raw}
      BY <2>1, <3>1, ElementOfSeq DEF IsFilter
    <3>3. Filter(query, name) = FilterValue(raw)
      BY <2>3 DEF Filter
    <3> HIDE DEF raw
    <3>. QED  BY <3>2, <3>3, FilterValueIs
  <2>. QED  BY <2>2, <2>3
<1>2. ParseQuery(query).terms \in Seq(Seq(Symbols))
  BY OnlyIs DEF ParseQuery
<1>3. ParseQuery(query).site = Filter(query, "site") /\ ParseQuery(query).filetype = Filter(query, "filetype")
  BY DEF ParseQuery
<1>. QED  BY <1>1, <1>2, <1>3 DEF Parsed

\* A part of a key that reads like a filter's.
Looks(part) == Len(part) >= 2 /\ part[2] = Equals /\ part[1] \in {"site", "filetype"}

LEMMA TermLooks ==
    ASSUME NEW raw \in Seq(Symbols), ~LikeFilterPart(raw)
    PROVE  ~Looks(Lowered(AsciiLower, raw))
<1> DEFINE low == Lowered(AsciiLower, raw)
<1>1. /\ Len(low) = Len(raw) /\ Len(raw) \in Nat
      /\ \A i \in 1..Len(raw) : low[i] = IF raw[i] \in Words THEN AsciiLower[raw[i]] ELSE raw[i]
  BY LoweredIs, QueryAssumption
<1> HIDE DEF low
<1>2. ASSUME Len(raw) >= 2, low[2] = Equals
      PROVE  raw[2] = Equals
  <2>1. 2 \in 1..Len(raw)
    BY <1>1, <1>2
  <2>2. raw[2] \in Words => AsciiLower[raw[2]] \in Words
    BY QueryAssumption
  <2>. QED  BY <1>1, <1>2, <2>1, <2>2, QueryAssumption DEF Equals
<1>. QED  BY <1>1, <1>2 DEF LikeFilterPart, Looks, low

LEMMA PartIs ==
    ASSUME NEW value \in Seq(Symbols), NEW name \in {"site", "filetype"}
    PROVE  /\ <<name, Equals>> \o value \in Seq(Symbols)
           /\ Looks(<<name, Equals>> \o value) /\ (<<name, Equals>> \o value)[1] = name
           /\ FilterPart(name, value) \in Seq(Seq(Symbols))
           /\ FilterPart(name, value) =
                 IF value = <<>> THEN <<>> ELSE <<<<name, Equals>> \o value>>
<1> DEFINE two == <<name, Equals>>
           part == two \o value
<1>1. two \in Seq(Symbols) /\ Len(two) = 2 /\ two[1] = name /\ two[2] = Equals /\ Len(value) \in Nat
  <2>1. name \in Symbols /\ Equals \in Symbols
    <3>1. "site" \in Symbols /\ "filetype" \in Symbols /\ "=" \in Symbols
      BY DEF Symbols
    <3>2. name = "site" \/ name = "filetype"
      OBVIOUS
    <3>. QED  BY <3>1, <3>2 DEF Equals
  <2>2. Len(value) \in Nat
    OBVIOUS
  <2>. QED  BY <2>1, <2>2
<1>2. part \in Seq(Symbols) /\ Len(part) = 2 + Len(value) /\ part[1] = name /\ part[2] = Equals
  <2>1. 1 \in 1..Len(two) /\ 2 \in 1..Len(two)
    BY <1>1
  <2> HIDE DEF two
  <2>2. part \in Seq(Symbols) /\ Len(part) = Len(two) + Len(value) /\ \A i \in 1..Len(two) : part[i] = two[i]
    BY <1>1, ConcatIs
  <2>. QED  BY <1>1, <2>1, <2>2
<1> HIDE DEF part
<1>3. Looks(part)
  BY <1>1, <1>2 DEF Looks
<1>4. <<part>> \in Seq(Seq(Symbols)) /\ <<>> \in Seq(Seq(Symbols))
  BY <1>2
<1>. QED  BY <1>2, <1>3, <1>4 DEF FilterPart, part

\* The parts of a key: those of the terms, then those of the filters.
KeyParts(pq) == TermParts(pq) \o FilterPart("site", pq.site) \o FilterPart("filetype", pq.filetype)

LEMMA KeyIs ==
    ASSUME NEW pq, Parsed(pq), Unambiguous(pq)
    PROVE  LET key == KeyParts(pq)
               n == Len(pq.terms)
               low == LoweredTerms(pq.terms)
               site == <<"site", Equals>> \o pq.site
               filetype == <<"filetype", Equals>> \o pq.filetype
           IN  /\ n \in Nat /\ key \in Seq(Seq(Symbols))
               /\ low \in Seq(Seq(Symbols)) /\ Len(low) = n
               /\ \A i \in 1..n : key[i] = low[i] /\ ~Looks(key[i])
               /\ \A i \in n + 1..Len(key) : Looks(key[i])
               /\ pq.site = <<>> /\ pq.filetype = <<>> => Len(key) = n
               /\ pq.site # <<>> /\ pq.filetype = <<>> => Len(key) = n + 1 /\ key[n + 1] = site
               /\ pq.site = <<>> /\ pq.filetype # <<>> => Len(key) = n + 1 /\ key[n + 1] = filetype
               /\ pq.site # <<>> /\ pq.filetype # <<>> =>
                     Len(key) = n + 2 /\ key[n + 1] = site /\ key[n + 2] = filetype
<1> DEFINE n == Len(pq.terms)
           low == LoweredTerms(pq.terms)
           site == <<"site", Equals>> \o pq.site
           filetype == <<"filetype", Equals>> \o pq.filetype
           fs == FilterPart("site", pq.site)
           ff == FilterPart("filetype", pq.filetype)
           key == KeyParts(pq)
           X == Seq(Symbols)
<1>1. /\ n \in Nat /\ low \in Seq(X) /\ Len(low) = n
      /\ \A i \in 1..n : low[i] = Lowered(AsciiLower, pq.terms[i]) /\ pq.terms[i] \in X
      /\ DOMAIN pq.terms = 1..n
  BY LenProperties, ElementOfSeq, LoweredTermsAre DEF Parsed
<1>2. /\ fs \in Seq(X) /\ fs = IF pq.site = <<>> THEN <<>> ELSE <<site>>
      /\ ff \in Seq(X) /\ ff = IF pq.filetype = <<>> THEN <<>> ELSE <<filetype>>
      /\ Looks(site) /\ Looks(filetype)
  BY PartIs DEF Parsed
<1>3. key = (low \o fs) \o ff
  BY DEF KeyParts, TermParts, LoweredTerms
<1>4. \A i \in 1..n : ~Looks(low[i])
  BY <1>1, TermLooks DEF Unambiguous
<1> HIDE DEF n, low, site, filetype, fs, ff, key, X
<1>5. /\ low \o fs \in Seq(X) /\ Len(low \o fs) = n + Len(fs)
      /\ \A i \in 1..n : (low \o fs)[i] = low[i]
      /\ \A i \in n + 1..n + Len(fs) : (low \o fs)[i] = fs[i - n]
  BY <1>1, <1>2, ConcatIs
<1> DEFINE lf == low \o fs
<1>6. /\ key \in Seq(X) /\ Len(key) = n + Len(fs) + Len(ff)
      /\ \A i \in 1..n + Len(fs) : key[i] = lf[i]
      /\ \A i \in n + Len(fs) + 1..n + Len(fs) + Len(ff) : key[i] = ff[i - (n + Len(fs))]
  <2>1. lf \in Seq(X) /\ Len(lf) = n + Len(fs) /\ key = lf \o ff
    BY <1>3, <1>5
  <2> HIDE DEF lf
  <2>2. /\ key \in Seq(X) /\ Len(key) = Len(lf) + Len(ff)
        /\ \A i \in 1..Len(lf) : key[i] = lf[i]
        /\ \A i \in Len(lf) + 1..Len(lf) + Len(ff) : key[i] = ff[i - Len(lf)]
    <3>1. lf \in Seq(X) /\ ff \in Seq(X) /\ key = lf \o ff
      BY <1>2, <2>1
    <3>. QED  BY ONLY <3>1, ConcatIs
  <2>. QED  BY <2>1, <2>2
<1> HIDE DEF lf
<1>7. Len(fs) \in Nat /\ Len(ff) \in Nat
  BY <1>2
<1>8. \A i \in 1..n : key[i] = low[i]
  <2> TAKE i \in 1..n
  <2>1. i \in 1..n + Len(fs)
    BY <1>1, <1>7
  <2>. QED  BY <1>5, <1>6, <2>1 DEF lf
<1>9. pq.site # <<>> => Len(fs) = 1 /\ key[n + 1] = site
  <2> HAVE pq.site # <<>>
  <2>1. fs = <<site>> /\ Len(fs) = 1 /\ fs[1] = site
    BY <1>2
  <2>2. n + 1 \in 1..n + Len(fs) /\ n + 1 \in n + 1..n + Len(fs) /\ (n + 1) - n = 1
    BY <1>1, <2>1
  <2>. QED  BY <1>5, <1>6, <2>1, <2>2 DEF lf
<1>10. pq.site = <<>> => Len(fs) = 0
  BY <1>2
<1>11. pq.filetype # <<>> => Len(ff) = 1 /\ key[n + Len(fs) + 1] = filetype
  <2> HAVE pq.filetype # <<>>
  <2>1. ff = <<filetype>> /\ Len(ff) = 1 /\ ff[1] = filetype
    BY <1>2
  <2> DEFINE k == n + Len(fs)
  <2>2. k \in Nat
    BY <1>1, <1>7
  <2> HIDE DEF k
  <2>3. k + 1 \in k + 1..k + Len(ff) /\ (k + 1) - k = 1
    BY <2>1, <2>2
  <2>. QED  BY <1>6, <2>1, <2>3 DEF k
<1>12. pq.filetype = <<>> => Len(ff) = 0
  BY <1>2
<1>13. \A i \in n + 1..Len(key) : Looks(key[i])
  <2> TAKE i \in n + 1..Len(key)
  <2>1. CASE pq.site = <<>> /\ pq.filetype = <<>>
    <3>1. Len(key) = n
      BY <1>1, <1>6, <1>10, <1>12, <2>1
    <3>. QED  BY <1>1, <3>1
  <2>2. CASE pq.site # <<>> /\ pq.filetype = <<>>
    <3>1. Len(fs) = 1 /\ Len(ff) = 0
      BY <1>9, <1>12, <2>2
    <3>2. Len(key) = n + 1
      BY <1>1, <1>6, <3>1
    <3>3. i = n + 1
      BY <1>1, <3>2
    <3>. QED  BY <1>2, <1>9, <2>2, <3>3
  <2>3. CASE pq.site = <<>> /\ pq.filetype # <<>>
    <3>1. Len(key) = n + 1 /\ n + Len(fs) + 1 = n + 1
      BY <1>1, <1>6, <1>10, <1>11, <2>3
    <3>2. i = n + 1
      BY <1>1, <3>1
    <3>. QED  BY <1>2, <1>11, <2>3, <3>1, <3>2
  <2>4. CASE pq.site # <<>> /\ pq.filetype # <<>>
    <3>1. Len(key) = n + 2 /\ n + Len(fs) + 1 = n + 2
      BY <1>1, <1>6, <1>9, <1>11, <2>4
    <3>2. i = n + 1 \/ i = n + 2
      BY <1>1, <3>1
    <3>. QED  BY <1>2, <1>9, <1>11, <2>4, <3>1, <3>2
  <2>. QED  BY <2>1, <2>2, <2>3, <2>4
<1>14. /\ pq.site = <<>> /\ pq.filetype = <<>> => Len(key) = n
       /\ pq.site # <<>> /\ pq.filetype = <<>> => Len(key) = n + 1 /\ key[n + 1] = site
       /\ pq.site = <<>> /\ pq.filetype # <<>> => Len(key) = n + 1 /\ key[n + 1] = filetype
       /\ pq.site # <<>> /\ pq.filetype # <<>> =>
             Len(key) = n + 2 /\ key[n + 1] = site /\ key[n + 2] = filetype
  <2>1. n + 0 + 0 = n /\ n + 1 + 0 = n + 1 /\ n + 0 + 1 = n + 1 /\ n + 1 + 1 = n + 2
    BY <1>1
  <2>. QED  BY <1>6, <1>9, <1>10, <1>11, <1>12, <2>1
<1>. QED  BY <1>1, <1>4, <1>6, <1>8, <1>13, <1>14 DEF n, low, site, filetype, key, X

LEMMA PartTells ==
    ASSUME NEW v \in Seq(Symbols), NEW w \in Seq(Symbols), NEW name \in {"site", "filetype"},
           <<name, Equals>> \o v = <<name, Equals>> \o w
    PROVE  v = w
<1> DEFINE two == <<name, Equals>>
           part == two \o v
<1>1. two \in Seq(Symbols) /\ Len(two) = 2
  <2>1. name \in Symbols /\ Equals \in Symbols
    <3>1. name = "site" \/ name = "filetype"
      OBVIOUS
    <3>. QED  BY <3>1 DEF Symbols, Equals
  <2>. QED  BY <2>1
<1> HIDE DEF two
<1>2. /\ Len(part) = 2 + Len(v)
      /\ \A i \in 2 + 1..2 + Len(v) : part[i] = v[i - 2]
  <2>1. /\ Len(part) = Len(two) + Len(v)
        /\ \A i \in Len(two) + 1..Len(two) + Len(v) : part[i] = v[i - Len(two)]
    BY <1>1, ConcatIs
  <2> HIDE DEF part
  <2>. QED  BY <1>1, <2>1
<1>3. part = two \o w
  BY DEF two
<1>4. /\ Len(part) = 2 + Len(w)
      /\ \A i \in 2 + 1..2 + Len(w) : part[i] = w[i - 2]
  <2>1. /\ Len(two \o w) = Len(two) + Len(w)
        /\ \A i \in Len(two) + 1..Len(two) + Len(w) : (two \o w)[i] = w[i - Len(two)]
    BY <1>1, ConcatIs
  <2> HIDE DEF part
  <2>. QED  BY <1>1, <1>3, <2>1
<1> HIDE DEF part
<1>5. Len(v) = Len(w) /\ Len(v) \in Nat
  BY <1>2, <1>4
<1>6. \A i \in 1..Len(v) : v[i] = w[i]
  <2> TAKE i \in 1..Len(v)
  <2>1. i + 2 \in 2 + 1..2 + Len(v) /\ (i + 2) - 2 = i
    BY <1>5
  <2>. QED  BY <1>2, <1>4, <1>5, <2>1
<1>. QED  BY <1>5, <1>6

\* Searches with the same parts have the same terms up to case, and the same
\* filters.
LEMMA PartsTell ==
    ASSUME NEW p, Parsed(p), Unambiguous(p), NEW q, Parsed(q), Unambiguous(q),
           KeyParts(p) = KeyParts(q)
    PROVE  AnalyzeTerms(p.terms) = AnalyzeTerms(q.terms) /\ p.site = q.site /\ p.filetype = q.filetype
<1> DEFINE key == KeyParts(p)
           Is(pq, n, low, site, filetype) ==
               /\ n \in Nat /\ low \in Seq(Seq(Symbols)) /\ Len(low) = n
               /\ \A i \in 1..n : key[i] = low[i] /\ ~Looks(key[i])
               /\ \A i \in n + 1..Len(key) : Looks(key[i])
               /\ pq.site = <<>> /\ pq.filetype = <<>> => Len(key) = n
               /\ pq.site # <<>> /\ pq.filetype = <<>> => Len(key) = n + 1 /\ key[n + 1] = site
               /\ pq.site = <<>> /\ pq.filetype # <<>> => Len(key) = n + 1 /\ key[n + 1] = filetype
               /\ pq.site # <<>> /\ pq.filetype # <<>> =>
                     Len(key) = n + 2 /\ key[n + 1] = site /\ key[n + 2] = filetype
           np == Len(p.terms)
           nq == Len(q.terms)
           lp == LoweredTerms(p.terms)
           lq == LoweredTerms(q.terms)
           sp == <<"site", Equals>> \o p.site
           sq == <<"site", Equals>> \o q.site
           fp == <<"filetype", Equals>> \o p.filetype
           fq == <<"filetype", Equals>> \o q.filetype
<1>1. Is(p, np, lp, sp, fp)
  BY KeyIs
<1>2. Is(q, nq, lq, sq, fq)
  BY KeyIs
<1>3. sp[1] = "site" /\ sq[1] = "site" /\ fp[1] = "filetype" /\ fq[1] = "filetype"
  BY PartIs DEF Parsed
<1>4. (sp = sq => p.site = q.site) /\ (fp = fq => p.filetype = q.filetype)
  BY PartTells DEF Parsed
<1> HIDE DEF key, np, nq, lp, lq, sp, sq, fp, fq
<1>5. Len(key) \in Nat /\ np <= Len(key) /\ nq <= Len(key)
  BY <1>1, <1>2
<1>6. np = nq
  <2>1. ASSUME np < nq PROVE FALSE
    <3>1. np + 1 \in 1..nq /\ np + 1 \in np + 1..Len(key)
      BY <1>1, <1>2, <1>5, <2>1
    <3>. QED  BY <1>1, <1>2, <3>1
  <2>2. ASSUME nq < np PROVE FALSE
    <3>1. nq + 1 \in 1..np /\ nq + 1 \in nq + 1..Len(key)
      BY <1>1, <1>2, <1>5, <2>2
    <3>. QED  BY <1>1, <1>2, <3>1
  <2>. QED  BY <1>1, <1>2, <2>1, <2>2
<1>7. lp = lq
  <2>1. \A i \in 1..np : lp[i] = lq[i]
    BY <1>1, <1>2, <1>6
  <2>. QED  BY <1>1, <1>2, <1>6, <2>1
<1>8. AnalyzeTerms(p.terms) = AnalyzeTerms(q.terms)
  <2>1. Lowered(AsciiLower, Text(p.terms)) = Lowered(AsciiLower, Text(q.terms))
    BY <1>7, LoweredText DEF Parsed, lp, lq
  <2>. QED  BY <2>1 DEF AnalyzeTerms
<1>9. p.site = q.site /\ p.filetype = q.filetype
  <2>1. np + 1 # np /\ np + 2 # np /\ np + 1 # np + 2
    BY <1>1
  <2>2. sp # fq /\ fp # sq
    BY <1>3
  <2>3. CASE p.site = <<>> /\ p.filetype = <<>>
    BY <1>1, <1>2, <1>6, <2>1, <2>3
  <2>4. CASE p.site # <<>> /\ p.filetype = <<>>
    BY <1>1, <1>2, <1>4, <1>6, <2>1, <2>2, <2>4
  <2>5. CASE p.site = <<>> /\ p.filetype # <<>>
    BY <1>1, <1>2, <1>4, <1>6, <2>1, <2>2, <2>5
  <2>6. CASE p.site # <<>> /\ p.filetype # <<>>
    BY <1>1, <1>2, <1>4, <1>6, <2>1, <2>2, <2>6
  <2>. QED  BY <2>3, <2>4, <2>5, <2>6
<1>. QED  BY <1>8, <1>9

\* The parts of a key one after the other; e[n] is where part n ends.
Offset(e, n) == e[n - 1] + (IF n = 1 THEN 0 ELSE 1)
Laid(key, parts, e) ==
    /\ e[0] = 0 /\ e[Len(parts)] = Len(key)
    /\ \A n \in 0..Len(parts) : e[n] \in Nat /\ e[n] <= Len(key)
    /\ \A n \in 1..Len(parts) : /\ e[n] = Offset(e, n) + Len(parts[n])
                                /\ n > 1 => key[Offset(e, n)] = Separator
                                /\ \A i \in 1..Len(parts[n]) : key[Offset(e, n) + i] = parts[n][i]

LEMMA JoinedSteps ==
    ASSUME NEW parts \in Seq(Seq(Symbols))
    PROVE  \E upTo \in [0..Len(parts) -> Seq(Symbols)] :
              /\ upTo[0] = <<>>
              /\ \A n \in 1..Len(parts) :
                    upTo[n] = upTo[n - 1] \o (IF n = 1 THEN <<>> ELSE <<Separator>>) \o parts[n]
              /\ Joined(parts) = upTo[Len(parts)]
<1> DEFINE N == Len(parts)
           X == Seq(Symbols)
           Between(n) == IF n = 1 THEN <<>> ELSE <<Separator>>
           After(f) == [n \in 0..Len(parts) |-> IF n = 0 THEN <<>> ELSE f[n - 1] \o Between(n) \o parts[n]]
           step == [n \in 1..N |-> [t \in X |-> t \o Between(n) \o parts[n]]]
           upTo == CHOOSE f : f = After(f)
<1>1. Joined(parts) = upTo[N]
  BY DEF Joined
<1>2. /\ N \in Nat /\ \A n \in 1..N : parts[n] \in X
      /\ \A n \in 1..N : Between(n) \in X
      /\ \A t \in X : \A n \in 1..N : t \o Between(n) \o parts[n] \in X
  <2>1. N \in Nat /\ \A n \in 1..N : parts[n] \in X
    BY LenProperties, ElementOfSeq
  <2>2. <<>> \in X /\ <<Separator>> \in X
    <3>1. Separator \in Symbols
      BY DEF Symbols, Separator
    <3>. QED  BY <3>1
  <2>3. \A n \in 1..N : Between(n) \in X
    BY <2>2
  <2>4. \A t, u, v \in X : t \o u \o v \in X
    OBVIOUS
  <2> HIDE DEF Between, X
  <2>. QED  BY <2>1, <2>3, <2>4
<1> HIDE DEF Between
<1>3. \E g : g \in [0..N -> X] /\ g = After(g)
  <2>1. step \in StepsOn(N, X)
    BY <1>2 DEF StepsOn
  <2>2. <<>> \in X /\ N \in Nat
    BY <1>2
  <2>3. PICK g : Follows(g, N, X, <<>>, step)
    <3> HIDE DEF step, N, X
    <3>. QED  BY <2>1, <2>2, RecursionExists
  <2>4. \A n \in 0..N : g[n] = After(g)[n]
    <3> SUFFICES ASSUME NEW n \in 0..N
                 PROVE  g[n] = After(g)[n]
      OBVIOUS
    <3>1. CASE n = 0
      BY <2>3, <3>1 DEF Follows
    <3>2. CASE n # 0
      <4>1. n \in 1..N /\ n - 1 \in 0..N
        BY <1>2, <3>2
      <4>2. g[n - 1] \in X
        BY <2>3, <4>1 DEF Follows
      <4>. QED  BY <2>3, <3>2, <4>1, <4>2 DEF Follows
    <3>. QED  BY <3>1, <3>2
  <2>5. g \in [0..N -> X]
    BY <2>3 DEF Follows
  <2>. QED  BY <2>4, <2>5
<1>4. upTo = After(upTo)
  <2>1. \E f : f = After(f)
    BY <1>3
  <2> HIDE DEF After
  <2>. QED  BY <2>1
<1> HIDE DEF upTo
<1>5. upTo[0] = <<>>
  BY <1>2, <1>4
<1>6. \A n \in 1..N : upTo[n] = upTo[n - 1] \o Between(n) \o parts[n]
  <2> SUFFICES ASSUME NEW n \in 1..N
               PROVE  upTo[n] = upTo[n - 1] \o Between(n) \o parts[n]
    OBVIOUS
  <2>1. n \in 0..N /\ n # 0
    BY <1>2
  <2>2. upTo[n] = After(upTo)[n]
    BY <1>4
  <2>. QED  BY <2>1, <2>2
<1> DEFINE T == {n \in 0..N : upTo[n] \in X}
<1>7. 0 \in T
  <2>1. 0 \in 0..N /\ <<>> \in X
    BY <1>2
  <2>. QED  BY <1>5, <2>1
<1>8. ASSUME NEW n \in 0..N, n \in T, n < N
      PROVE  n + 1 \in T
  <2>1. n + 1 \in 1..N /\ (n + 1) - 1 = n /\ n + 1 \in 0..N
    BY <1>2, <1>8
  <2>2. upTo[n + 1] = upTo[n] \o Between(n + 1) \o parts[n + 1]
    BY <1>6, <2>1
  <2>3. upTo[n] \o Between(n + 1) \o parts[n + 1] \in X
    BY <1>2, <1>8, <2>1
  <2>. QED  BY <2>1, <2>2, <2>3
<1>9. \A n \in 0..N : n \in T
  <2> HIDE DEF T, N
  <2>. QED  BY <1>2, <1>7, <1>8, UpTo
<1>10. upTo \in [0..N -> X]
  BY <1>4, <1>9
<1>. QED  BY <1>1, <1>5, <1>6, <1>10 DEF Between

LEMMA JoinedIs ==
    ASSUME NEW parts \in Seq(Seq(Symbols))
    PROVE  \E e : Laid(Joined(parts), parts, e)
<1> DEFINE N == Len(parts)
           X == Seq(Symbols)
           Between(n) == IF n = 1 THEN <<>> ELSE <<Separator>>
<1>1. PICK up \in [0..N -> X] :
          /\ up[0] = <<>>
          /\ \A n \in 1..N : up[n] = up[n - 1] \o Between(n) \o parts[n]
          /\ Joined(parts) = up[N]
  BY JoinedSteps
<1>2. N \in Nat /\ \A n \in 1..N : parts[n] \in X /\ Len(parts[n]) \in Nat
  BY LenProperties, ElementOfSeq
<1>3. \A n \in 0..N : up[n] \in X /\ Len(up[n]) \in Nat
  BY <1>1, LenProperties
<1> DEFINE e == [n \in 0..N |-> Len(up[n])]
           Gap(n) == IF n = 1 THEN 0 ELSE 1
\* One part more.
<1>4. ASSUME NEW n \in 1..N
      PROVE  /\ Len(up[n]) = Len(up[n - 1]) + Gap(n) + Len(parts[n])
             /\ \A i \in 1..Len(up[n - 1]) : up[n][i] = up[n - 1][i]
             /\ n > 1 => up[n][Len(up[n - 1]) + 1] = Separator
             /\ \A i \in 1..Len(parts[n]) : up[n][Len(up[n - 1]) + Gap(n) + i] = parts[n][i]
  <2> DEFINE a == up[n - 1]
             b == Between(n)
             ab == a \o b
             c == parts[n]
             abc == ab \o c
  <2>1. n - 1 \in 0..N /\ n \in 0..N
    BY <1>2
  <2>2. a \in X /\ Len(a) \in Nat /\ c \in X /\ Len(c) \in Nat /\ up[n] = abc
    BY <1>1, <1>2, <1>3, <2>1
  <2>3. b \in X /\ Len(b) = Gap(n) /\ (n > 1 => Gap(n) = 1 /\ b[1] = Separator) /\ Gap(n) \in Nat
    <3>1. Separator \in Symbols
      BY DEF Symbols, Separator
    <3>2. <<>> \in X /\ <<Separator>> \in X /\ Len(<<>>) = 0 /\ Len(<<Separator>>) = 1
      BY <3>1
    <3>3. CASE n = 1
      BY <3>2, <3>3
    <3>4. CASE n # 1
      BY <3>2, <3>4
    <3>. QED  BY <3>3, <3>4
  <2> HIDE DEF a, b, c, Between, Gap, X
  <2>4. /\ ab \in X /\ Len(ab) = Len(a) + Gap(n)
        /\ \A i \in 1..Len(a) : ab[i] = a[i]
        /\ \A i \in Len(a) + 1..Len(a) + Gap(n) : ab[i] = b[i - Len(a)]
    BY <2>2, <2>3, ConcatIs DEF X
  <2> HIDE DEF ab
  <2>5. /\ Len(abc) = Len(ab) + Len(c)
        /\ \A i \in 1..Len(ab) : abc[i] = ab[i]
        /\ \A i \in Len(ab) + 1..Len(ab) + Len(c) : abc[i] = c[i - Len(ab)]
    BY <2>2, <2>4, ConcatIs DEF X
  <2> HIDE DEF abc
  <2>6. \A i \in 1..Len(a) : abc[i] = a[i]
    <3> TAKE i \in 1..Len(a)
    <3>1. i \in 1..Len(ab)
      BY <2>2, <2>3, <2>4
    <3>. QED  BY <2>4, <2>5, <3>1
  <2>7. n > 1 => abc[Len(a) + 1] = Separator
    <3> HAVE n > 1
    <3>1. /\ Len(a) + 1 \in 1..Len(ab) /\ Len(a) + 1 \in Len(a) + 1..Len(a) + Gap(n)
          /\ (Len(a) + 1) - Len(a) = 1
      BY <2>2, <2>3, <2>4
    <3>. QED  BY <2>3, <2>4, <2>5, <3>1
  <2>8. \A i \in 1..Len(c) : abc[Len(a) + Gap(n) + i] = c[i]
    <3> TAKE i \in 1..Len(c)
    <3> DEFINE l == Len(ab)
    <3>1. l = Len(a) + Gap(n) /\ l \in Nat
      BY <2>2, <2>3, <2>4
    <3> HIDE DEF l
    <3>2. l + i \in l + 1..l + Len(c) /\ (l + i) - l = i
      BY <2>2, <3>1
    <3>3. abc[l + i] = c[i]
      BY <2>5, <3>2 DEF l
    <3>. QED  BY <3>1, <3>3
  <2>. QED  BY <2>2, <2>4, <2>5, <2>6, <2>7, <2>8 DEF a, c
<1> DEFINE Grows(m, n) == Len(up[m]) <= Len(up[n]) /\ \A i \in 1..Len(up[m]) : up[n][i] = up[m][i]
           T == {n \in 0..N : \A m \in 0..n : Grows(m, n)}
<1>5. 0 \in T
  <2>1. 0 \in 0..N /\ \A m \in 0..0 : m = 0
    BY <1>2
  <2>2. Grows(0, 0)
    BY <1>3, <2>1
  <2>. QED  BY <2>1, <2>2
<1>6. ASSUME NEW n \in 0..N, n \in T, n < N
      PROVE  n + 1 \in T
  <2>1. n + 1 \in 1..N /\ (n + 1) - 1 = n /\ n + 1 \in 0..N /\ \A m \in 0..n + 1 : m \in 0..N /\ (m \in 0..n \/ m = n + 1)
    BY <1>2, <1>6
  <2>2. /\ Len(up[n + 1]) = Len(up[n]) + Gap(n + 1) + Len(parts[n + 1])
        /\ \A i \in 1..Len(up[n]) : up[n + 1][i] = up[n][i]
    <3> HIDE DEF Gap, T
    <3>1. /\ Len(up[n + 1]) = Len(up[(n + 1) - 1]) + Gap(n + 1) + Len(parts[n + 1])
          /\ \A i \in 1..Len(up[(n + 1) - 1]) : up[n + 1][i] = up[(n + 1) - 1][i]
      BY <1>4, <2>1
    <3>2. up[(n + 1) - 1] = up[n]
      BY <2>1
    <3>. QED  BY <3>1, <3>2
  <2>3. Gap(n + 1) \in Nat /\ Len(parts[n + 1]) \in Nat
    BY <1>2, <2>1
  <2>4. ASSUME NEW m \in 0..n + 1
        PROVE  Grows(m, n + 1)
    <3>1. CASE m = n + 1
      BY <1>3, <2>1, <3>1
    <3>2. CASE m \in 0..n
      <4>1. Grows(m, n) /\ Len(up[m]) \in Nat /\ Len(up[n]) \in Nat
        BY <1>3, <1>6, <2>1, <3>2
      <4> HIDE DEF Gap
      <4>2. Len(up[m]) <= Len(up[n + 1])
        BY <2>2, <2>3, <4>1
      <4>3. \A i \in 1..Len(up[m]) : i \in 1..Len(up[n])
        BY <4>1
      <4>. QED  BY <2>2, <4>1, <4>2, <4>3
    <3>. QED  BY <2>1, <3>1, <3>2
  <2>. QED  BY <2>1, <2>4
<1>7. \A n \in 0..N : n \in T
  <2> HIDE DEF T, N
  <2>. QED  BY <1>2, <1>5, <1>6, UpTo
<1>8. \A n \in 0..N : Grows(n, N)
  <2>1. N \in T
    <3> HIDE DEF T, N
    <3>. QED  BY <1>2, <1>7
  <2>. QED  BY <2>1
<1> DEFINE key == up[N]
<1>9. e[0] = 0 /\ e[N] = Len(key) /\ \A n \in 0..N : e[n] = Len(up[n]) /\ e[n] \in Nat /\ e[n] <= Len(key)
  <2>1. Len(<<>>) = 0
    OBVIOUS
  <2>. QED  BY <1>1, <1>2, <1>3, <1>8, <2>1
<1> HIDE DEF e
<1>10. ASSUME NEW n \in 1..N
       PROVE  /\ e[n] = Offset(e, n) + Len(parts[n])
              /\ n > 1 => key[Offset(e, n)] = Separator
              /\ \A i \in 1..Len(parts[n]) : key[Offset(e, n) + i] = parts[n][i]
  <2>1. n - 1 \in 0..N /\ n \in 0..N
    BY <1>2
  <2>2. Offset(e, n) = Len(up[n - 1]) + Gap(n) /\ Gap(n) \in Nat /\ (n > 1 => Gap(n) = 1)
    <3>1. e[n - 1] = Len(up[n - 1])
      BY <1>9, <2>1
    <3>2. Gap(n) \in Nat /\ (n > 1 => Gap(n) = 1)
      BY <1>2
    <3>. QED  BY <3>1, <3>2 DEF Offset
  <2> HIDE DEF Gap
  <2>3. Len(up[n - 1]) \in Nat /\ Len(parts[n]) \in Nat /\ e[n] = Len(up[n]) /\ Len(up[n]) \in Nat
    BY <1>2, <1>3, <1>9, <2>1
  <2>4. \A i \in 1..Len(up[n]) : key[i] = up[n][i]
    BY <1>8, <2>1
  <2>5. /\ Len(up[n]) = Len(up[n - 1]) + Gap(n) + Len(parts[n])
        /\ n > 1 => up[n][Len(up[n - 1]) + 1] = Separator
        /\ \A i \in 1..Len(parts[n]) : up[n][Len(up[n - 1]) + Gap(n) + i] = parts[n][i]
    BY <1>4
  <2> DEFINE o == Offset(e, n)
             la == Len(up[n - 1])
             lp == Len(parts[n])
             lu == Len(up[n])
             g == Gap(n)
  <2>6. o = la + g /\ lu = o + lp /\ o \in Nat /\ (n > 1 => o = la + 1 /\ o \in 1..lu)
    <3>1. la \in Nat /\ lp \in Nat /\ g \in Nat /\ lu = la + g + lp /\ o = la + g /\ (n > 1 => g = 1)
      BY <2>2, <2>3, <2>5
    <3> HIDE DEF la, lp, lu, g, o
    <3>. QED  BY <3>1
  <2> HIDE DEF o, key
  <2>7. n > 1 => key[o] = Separator
    BY <2>4, <2>5, <2>6
  <2>8. \A i \in 1..Len(parts[n]) : key[o + i] = parts[n][i]
    <3> TAKE i \in 1..Len(parts[n])
    <3>1. o + i \in 1..lu
      BY <2>3, <2>6
    <3>2. up[n][o + i] = parts[n][i]
      BY <2>5, <2>6
    <3>. QED  BY <2>4, <3>1, <3>2
  <2>. QED  BY <2>3, <2>6, <2>7, <2>8 DEF o
<1>11. Laid(key, parts, e)
  BY <1>9, <1>10 DEF Laid
<1>. QED  BY <1>1, <1>11

\* Parts that can be told apart: they are not empty and have no separator.
Plain(parts) ==
    /\ parts \in Seq(Seq(Symbols))
    /\ \A n \in 1..Len(parts) : Len(parts[n]) > 0 /\ \A i \in 1..Len(parts[n]) : parts[n][i] # Separator

LEMMA PartNotShorter ==
    ASSUME NEW key, NEW ps, Plain(ps), NEW e, Laid(key, ps, e), NEW qs, Plain(qs), NEW f, Laid(key, qs, f),
           NEW n \in Nat, n < Len(ps), n < Len(qs), e[n] = f[n]
    PROVE  Len(ps[n + 1]) >= Len(qs[n + 1])
<1> DEFINE a == Len(ps[n + 1])
           b == Len(qs[n + 1])
           o == Offset(e, n + 1)
           L == Len(key)
           N == Len(ps)
           M == Len(qs)
<1>1. /\ N \in Nat /\ M \in Nat /\ n + 1 \in 1..N /\ n + 1 \in 1..M
      /\ (n + 1) - 1 = n /\ n + 1 \in 0..N /\ n + 1 \in 0..M /\ n \in 0..N
  <2>1. N \in Nat /\ M \in Nat
    BY LenProperties DEF Plain
  <2>. QED  BY <2>1
<1>2. o = Offset(f, n + 1) /\ o \in Nat
  <2>1. e[n] \in Nat
    BY <1>1 DEF Laid
  <2>2. o = e[n] + (IF n + 1 = 1 THEN 0 ELSE 1) /\ Offset(f, n + 1) = f[n] + (IF n + 1 = 1 THEN 0 ELSE 1)
    BY <1>1 DEF Offset
  <2>. QED  BY <2>1, <2>2
<1>3. a \in Nat /\ b \in Nat
  <2>1. ps[n + 1] \in Seq(Symbols) /\ qs[n + 1] \in Seq(Symbols)
    BY <1>1, ElementOfSeq DEF Plain
  <2>. QED  BY <2>1
<1>4. e[n + 1] = o + a /\ f[n + 1] = o + b /\ e[N] = L /\ f[n + 1] <= L /\ L \in Nat
  <2>1. e[n + 1] = o + a /\ f[n + 1] = o + b /\ e[N] = L /\ f[n + 1] <= L
    BY <1>1, <1>2 DEF Laid
  <2>2. L \in Nat
    <3>1. N \in 0..N
      BY <1>1
    <3>. QED  BY <2>1, <3>1 DEF Laid
  <2>. QED  BY <2>1, <2>2
<1>5. ASSUME a < b
      PROVE  FALSE
  <2>1. a + 1 \in 1..b
    BY <1>3, <1>5
  <2>2. key[o + (a + 1)] = qs[n + 1][a + 1] /\ qs[n + 1][a + 1] # Separator
    <3>1. \A i \in 1..b : key[Offset(f, n + 1) + i] = qs[n + 1][i]
      BY <1>1 DEF Laid
    <3>2. \A i \in 1..b : qs[n + 1][i] # Separator
      BY <1>1 DEF Plain
    <3> HIDE DEF a, b, o
    <3>3. key[o + (a + 1)] = qs[n + 1][a + 1]
      BY <1>2, <2>1, <3>1
    <3>. QED  BY <2>1, <3>2, <3>3
  <2>3. CASE n + 1 = N
    <3> HIDE DEF a, b, o, L, N, M
    <3>. QED  BY <1>2, <1>3, <1>4, <1>5, <2>3
  <2>4. CASE n + 1 # N
    <3>1. n + 2 \in 1..N /\ n + 2 > 1 /\ (n + 2) - 1 = n + 1 /\ n + 2 # 1
      BY <1>1, <2>4
    <3>2. Offset(e, n + 2) = (o + a) + 1
      BY <1>4, <3>1 DEF Offset
    <3>3. key[Offset(e, n + 2)] = Separator
      BY <3>1 DEF Laid
    <3>4. (o + a) + 1 = o + (a + 1)
      <4> HIDE DEF o, a
      <4>. QED  BY <1>2, <1>3
    <3>. QED  BY <2>2, <3>2, <3>3, <3>4
  <2>. QED  BY <2>3, <2>4
<1> HIDE DEF a, b
<1>6. a >= b
  BY <1>3, <1>5
<1>. QED  BY <1>6 DEF a, b

LEMMA NoPartLeft ==
    ASSUME NEW key, NEW ps, Plain(ps), NEW e, Laid(key, ps, e), NEW qs, Plain(qs), NEW f, Laid(key, qs, f),
           e[Len(ps)] = f[Len(ps)]
    PROVE  ~(Len(ps) < Len(qs))
<1> DEFINE N == Len(ps)
           M == Len(qs)
<1> SUFFICES ASSUME N < M
             PROVE  FALSE
  OBVIOUS
<1>1. N \in Nat /\ M \in Nat
  BY LenProperties DEF Plain
<1>2. N + 1 \in 1..M /\ N + 1 \in 0..M /\ (N + 1) - 1 = N /\ N \in 0..M
  BY <1>1
<1>3. qs[N + 1] \in Seq(Symbols) /\ Len(qs[N + 1]) > 0
  BY <1>2, ElementOfSeq DEF Plain
<1> DEFINE b == Len(qs[N + 1])
<1>4. b \in Nat /\ b > 0
  BY <1>3
<1>5. f[N] = Len(key) /\ f[N] \in Nat /\ f[N + 1] <= Len(key) /\ f[N + 1] = Offset(f, N + 1) + b
  BY <1>2 DEF Laid
<1>6. Offset(f, N + 1) = f[N] + (IF N + 1 = 1 THEN 0 ELSE 1)
  BY <1>2 DEF Offset
<1> HIDE DEF N, M, b
<1>. QED  BY <1>1, <1>4, <1>5, <1>6

LEMMA SameParts ==
    ASSUME NEW X, NEW s \in Seq(X), NEW t \in Seq(X), Len(s) = Len(t), \A i \in 1..Len(s) : s[i] = t[i]
    PROVE  s = t
OBVIOUS

LEMMA JoinedTells ==
    ASSUME NEW ps, Plain(ps), NEW qs, Plain(qs), Joined(ps) = Joined(qs)
    PROVE  ps = qs
<1> DEFINE key == Joined(ps)
           N == Len(ps)
           M == Len(qs)
<1>1. PICK e : Laid(key, ps, e)
  BY JoinedIs DEF Plain
<1>2. PICK f : Laid(key, qs, f)
  BY JoinedIs DEF Plain
<1>3. N \in Nat /\ M \in Nat /\ ps \in Seq(Seq(Symbols)) /\ qs \in Seq(Seq(Symbols))
  BY LenProperties DEF Plain
<1> HIDE DEF key
<1> DEFINE T == {n \in 0..N : n <= M /\ e[n] = f[n] /\ \A i \in 1..n : ps[i] = qs[i]}
<1>4. 0 \in T
  <2>1. e[0] = 0 /\ f[0] = 0
    BY <1>1, <1>2 DEF Laid
  <2>. QED  BY <1>3, <2>1
<1>5. ASSUME NEW n \in 0..N, n \in T, n < N
      PROVE  n + 1 \in T
  <2>1. n \in Nat /\ n <= M /\ e[n] = f[n] /\ \A i \in 1..n : ps[i] = qs[i]
    BY <1>5
  <2>2. n < M
    <3>1. CASE n = M
      <4>1. f[Len(qs)] = e[Len(qs)]
        BY <2>1, <3>1
      <4>2. ~(M < N)
        BY <1>1, <1>2, <4>1, NoPartLeft
      <4>. QED  BY <1>5, <3>1, <4>2
    <3> HIDE DEF N, M
    <3>. QED  BY <1>3, <2>1, <3>1
  <2>3. Len(ps[n + 1]) >= Len(qs[n + 1])
    BY <1>1, <1>2, <1>5, <2>1, <2>2, PartNotShorter
  <2>4. Len(qs[n + 1]) >= Len(ps[n + 1])
    <3>1. f[n] = e[n]
      BY <2>1
    <3>. QED  BY <1>1, <1>2, <1>5, <2>1, <2>2, <3>1, PartNotShorter
  <2>5. n + 1 \in 1..N /\ n + 1 \in 1..M /\ (n + 1) - 1 = n /\ n + 1 \in 0..N /\ n + 1 <= M
    BY <1>3, <1>5, <2>1, <2>2
  <2> DEFINE p == ps[n + 1]
             q == qs[n + 1]
  <2>6. p \in Seq(Symbols) /\ q \in Seq(Symbols) /\ Len(p) = Len(q)
    <3>1. p \in Seq(Symbols) /\ q \in Seq(Symbols)
      BY <1>3, <2>5, ElementOfSeq
    <3>2. Len(p) \in Nat /\ Len(q) \in Nat
      BY <3>1
    <3>. QED  BY <2>3, <2>4, <3>1, <3>2
  <2>7. Offset(e, n + 1) = Offset(f, n + 1)
    BY <2>1, <2>5 DEF Offset
  <2>8. /\ e[n + 1] = Offset(e, n + 1) + Len(p) /\ \A i \in 1..Len(p) : key[Offset(e, n + 1) + i] = p[i]
        /\ f[n + 1] = Offset(f, n + 1) + Len(q) /\ \A i \in 1..Len(q) : key[Offset(f, n + 1) + i] = q[i]
    BY <1>1, <1>2, <2>5 DEF Laid
  <2> HIDE DEF p, q
  <2>9. e[n + 1] = f[n + 1] /\ \A i \in 1..Len(p) : p[i] = q[i]
    BY <2>6, <2>7, <2>8
  <2>10. p = q
    BY <2>6, <2>9
  <2>11. \A i \in 1..n + 1 : i \in 1..n \/ i = n + 1
    BY <2>1
  <2>12. \A i \in 1..n + 1 : ps[i] = qs[i]
    BY <2>1, <2>10, <2>11 DEF p, q
  <2>. QED  BY <2>5, <2>9, <2>12
<1>6. \A n \in 0..N : n \in T
  <2> HIDE DEF T, N
  <2>. QED  BY <1>3, <1>4, <1>5, UpTo
<1>7. N <= M /\ e[N] = f[N] /\ \A i \in 1..N : ps[i] = qs[i]
  <2>1. N \in 0..N
    BY <1>3
  <2>2. N \in T
    BY <1>6, <2>1
  <2>. QED  BY <2>2
<1>8. N = M
  <2>1. ~(N < M)
    BY <1>1, <1>2, <1>7, NoPartLeft
  <2>2. N \in Nat /\ M \in Nat /\ N <= M
    BY <1>3, <1>7
  <2> HIDE DEF N, M
  <2>. QED  BY <2>1, <2>2
<1>9. \A i \in 1..N : ps[i] = qs[i]
  BY <1>7
<1>. QED  BY <1>3, <1>8, <1>9, SameParts

NoTermEmpty(pq) == \A i \in 1..Len(pq.terms) : Len(pq.terms[i]) > 0

LEMMA KeyPartsPlain ==
    ASSUME NEW pq, Parsed(pq), Unambiguous(pq), NoTermEmpty(pq)
    PROVE  Plain(KeyParts(pq))
<1> DEFINE parts == KeyParts(pq)
           n == Len(pq.terms)
           low == LoweredTerms(pq.terms)
           site == <<"site", Equals>> \o pq.site
           filetype == <<"filetype", Equals>> \o pq.filetype
           Tells(part) == Len(part) > 0 /\ \A i \in 1..Len(part) : part[i] # Separator
<1>1. /\ n \in Nat /\ parts \in Seq(Seq(Symbols))
      /\ \A i \in 1..n : parts[i] = low[i]
      /\ pq.site = <<>> /\ pq.filetype = <<>> => Len(parts) = n
      /\ pq.site # <<>> /\ pq.filetype = <<>> => Len(parts) = n + 1 /\ parts[n + 1] = site
      /\ pq.site = <<>> /\ pq.filetype # <<>> => Len(parts) = n + 1 /\ parts[n + 1] = filetype
      /\ pq.site # <<>> /\ pq.filetype # <<>> =>
            Len(parts) = n + 2 /\ parts[n + 1] = site /\ parts[n + 2] = filetype
  BY KeyIs
<1>2. ASSUME NEW i \in 1..n
      PROVE  Tells(low[i])
  <2> DEFINE raw == pq.terms[i]
  <2>1. raw \in Seq(Symbols) /\ Len(raw) > 0 /\ ~HasSeparator(raw) /\ low[i] = Lowered(AsciiLower, raw)
    <3>1. pq.terms \in Seq(Seq(Symbols)) /\ DOMAIN pq.terms = 1..n
      BY LenProperties DEF Parsed
    <3>. QED  BY <3>1, ElementOfSeq, LoweredTermsAre DEF NoTermEmpty, Unambiguous
  <2> HIDE DEF raw
  <2>2. /\ Len(Lowered(AsciiLower, raw)) = Len(raw) /\ DOMAIN raw = 1..Len(raw)
        /\ \A k \in 1..Len(raw) : Lowered(AsciiLower, raw)[k] = IF raw[k] \in Words THEN AsciiLower[raw[k]] ELSE raw[k]
    BY <2>1, LoweredIs, LenProperties, QueryAssumption
  <2>3. \A w \in Words : AsciiLower[w] # Separator
    BY QueryAssumption DEF Separator
  <2>. QED  BY <2>1, <2>2, <2>3 DEF HasSeparator
<1>3. ASSUME NEW name \in {"site", "filetype"}, NEW value \in Seq(Symbols), ~HasSeparator(value)
      PROVE  Tells(<<name, Equals>> \o value)
  <2> DEFINE two == <<name, Equals>>
             part == two \o value
  <2>1. /\ two \in Seq(Symbols) /\ Len(two) = 2 /\ two[1] # Separator /\ two[2] # Separator
    <3>1. name \in Symbols /\ Equals \in Symbols /\ name # Separator /\ Equals # Separator
      <4>1. name = "site" \/ name = "filetype"
        OBVIOUS
      <4>. QED  BY <4>1 DEF Symbols, Equals, Separator
    <3>. QED  BY <3>1
  <2> HIDE DEF two
  <2>2. /\ Len(part) = 2 + Len(value) /\ Len(value) \in Nat
        /\ \A i \in 1..2 : part[i] = two[i]
        /\ \A i \in 3..2 + Len(value) : part[i] = value[i - 2]
    <3>1. /\ Len(part) = Len(two) + Len(value)
          /\ \A i \in 1..Len(two) : part[i] = two[i]
          /\ \A i \in Len(two) + 1..Len(two) + Len(value) : part[i] = value[i - Len(two)]
      BY <2>1, ConcatIs
    <3> HIDE DEF part
    <3>2. Len(two) + 1 = 3 /\ Len(value) \in Nat
      BY <2>1
    <3>. QED  BY <2>1, <3>1, <3>2
  <2> HIDE DEF part
  <2>3. \A i \in 1..Len(value) : value[i] # Separator
    BY <1>3, LenProperties DEF HasSeparator
  <2>4. ASSUME NEW i \in 1..Len(part)
        PROVE  part[i] # Separator
    <3>1. CASE i \in 1..2
      <4>1. i = 1 \/ i = 2
        BY <3>1
      <4>. QED  BY <2>1, <2>2, <3>1, <4>1
    <3>2. CASE i \in 3..2 + Len(value)
      <4>1. i - 2 \in 1..Len(value)
        BY <2>2, <3>2
      <4>. QED  BY <2>2, <2>3, <3>2, <4>1
    <3>. QED  BY <2>2, <3>1, <3>2
  <2>5. Len(part) > 0
    BY <2>2
  <2>. QED  BY <2>4, <2>5 DEF part, two
<1>4. Tells(site) /\ Tells(filetype)
  BY <1>3 DEF Parsed, Unambiguous
<1> HIDE DEF Tells, site, filetype, low, n, parts
<1>5. ASSUME NEW i \in 1..Len(parts)
      PROVE  Tells(parts[i])
  <2>1. CASE i \in 1..n
    BY <1>1, <1>2, <2>1
  <2>2. CASE i \notin 1..n
    <3>1. i = n + 1 \/ i = n + 2
      BY <1>1, <2>2
    <3>2. ~(i = n + 2 /\ Len(parts) = n + 1) /\ Len(parts) # n
      BY <1>1, <2>2
    <3>3. n + 1 # n + 2
      BY <1>1
    <3>. QED  BY <1>1, <1>4, <3>1, <3>2, <3>3
  <2>. QED  BY <2>1, <2>2
<1>. QED  BY <1>1, <1>5 DEF Plain, Tells, parts

\* Searches with one key have the same terms up to case, and the same filters.
LEMMA KeysTell ==
    ASSUME NEW p, Parsed(p), Unambiguous(p), NoTermEmpty(p), NEW q, Parsed(q), Unambiguous(q), NoTermEmpty(q),
           NormalizeKey(p) = NormalizeKey(q)
    PROVE  AnalyzeTerms(p.terms) = AnalyzeTerms(q.terms) /\ p.site = q.site /\ p.filetype = q.filetype
<1>1. NormalizeKey(p) = Joined(KeyParts(p)) /\ NormalizeKey(q) = Joined(KeyParts(q))
  BY DEF NormalizeKey, KeyParts
<1>2. Plain(KeyParts(p)) /\ Plain(KeyParts(q))
  BY KeyPartsPlain
<1>3. KeyParts(p) = KeyParts(q)
  BY <1>1, <1>2, JoinedTells
<1>. QED  BY <1>3, PartsTell

LEMMA JoinedOne == ASSUME NEW a \in Seq(Symbols) PROVE Joined(<<a>>) = a
<1> DEFINE parts == <<a>>
<1>1. parts \in Seq(Seq(Symbols)) /\ Len(parts) = 1 /\ parts[1] = a /\ 1 \in 1..1 /\ 1 - 1 = 0
  OBVIOUS
<1> HIDE DEF parts
<1>2. PICK up \in [0..1 -> Seq(Symbols)] :
          /\ up[0] = <<>>
          /\ \A n \in 1..1 : up[n] = up[n - 1] \o (IF n = 1 THEN <<>> ELSE <<Separator>>) \o parts[n]
          /\ Joined(parts) = up[1]
  BY <1>1, JoinedSteps
<1>3. up[1] = <<>> \o <<>> \o a
  BY <1>1, <1>2
<1>4. <<>> \o <<>> \o a = a
  OBVIOUS
<1>. QED  BY <1>2, <1>3, <1>4 DEF parts

LEMMA JoinedTwo ==
    ASSUME NEW a \in Seq(Symbols), NEW b \in Seq(Symbols)
    PROVE  Joined(<<a, b>>) = a \o <<Separator>> \o b
<1> DEFINE parts == <<a, b>>
<1>1. /\ parts \in Seq(Seq(Symbols)) /\ Len(parts) = 2 /\ parts[1] = a /\ parts[2] = b
      /\ 1 \in 1..2 /\ 2 \in 1..2 /\ 2 - 1 = 1 /\ 1 - 1 = 0 /\ 2 # 1
  OBVIOUS
<1> HIDE DEF parts
<1>2. PICK up \in [0..2 -> Seq(Symbols)] :
          /\ up[0] = <<>>
          /\ \A n \in 1..2 : up[n] = up[n - 1] \o (IF n = 1 THEN <<>> ELSE <<Separator>>) \o parts[n]
          /\ Joined(parts) = up[2]
  BY <1>1, JoinedSteps
<1>3. up[1] = <<>> \o <<>> \o a
  BY <1>1, <1>2
<1>4. up[2] = up[1] \o <<Separator>> \o b
  BY <1>1, <1>2
<1>5. <<>> \o <<>> \o a = a
  OBVIOUS
<1>. QED  BY <1>2, <1>3, <1>4, <1>5 DEF parts

LEMMA TwoParts == ASSUME NEW X, NEW a \in X, NEW b \in X PROVE <<a>> \o <<b>> \o <<>> = <<a, b>>
<1> DEFINE s1 == <<a>>
           s2 == <<b>>
           t == s1 \o s2
           u == <<a, b>>
<1>1. /\ s1 \in Seq(X) /\ s2 \in Seq(X) /\ Len(s1) = 1 /\ Len(s2) = 1 /\ s1[1] = a /\ s2[1] = b
      /\ u \in Seq(X) /\ Len(u) = 2 /\ u[1] = a /\ u[2] = b
  OBVIOUS
<1> HIDE DEF s1, s2, u
<1>2. /\ t \in Seq(X) /\ Len(t) = Len(s1) + Len(s2)
      /\ \A i \in 1..Len(s1) : t[i] = s1[i]
      /\ \A i \in Len(s1) + 1..Len(s1) + Len(s2) : t[i] = s2[i - Len(s1)]
  BY <1>1, ConcatIs
<1> HIDE DEF t
<1>3. Len(t) = 2 /\ t[1] = a /\ t[2] = b
  <2>1. 1 \in 1..1 /\ 2 \in 1 + 1..1 + 1 /\ 2 - 1 = 1 /\ 1 + 1 = 2
    OBVIOUS
  <2>. QED  BY <1>1, <1>2, <2>1
<1>4. \A i \in 1..2 : t[i] = u[i]
  <2>1. \A i \in 1..2 : i = 1 \/ i = 2
    OBVIOUS
  <2>. QED  BY <1>1, <1>3, <2>1
<1>5. <<a>> \o <<b>> = <<a, b>> /\ <<a, b>> \in Seq(X)
  <2>1. t = u
    BY <1>1, <1>2, <1>3, <1>4, SameParts
  <2>. QED  BY <1>1, <2>1 DEF t, u, s1, s2
<1>6. \A s \in Seq(X) : s \o <<>> = s
  OBVIOUS
<1>. QED  BY <1>5, <1>6

\* A term that holds the separator and the text of a filter, which is one word to
\* parse_query, has the key of the term before it with that filter (a finding).
THEOREM SeparatorReadsAsFilter ==
    ASSUME NEW term \in Seq(Symbols), NEW site \in Seq(Symbols), site # <<>>,
           Lowered(AsciiLower, <<"site", Equals>> \o site) = <<"site", Equals>> \o site
    PROVE  NormalizeKey([terms |-> <<term \o <<Separator>> \o (<<"site", Equals>> \o site)>>,
                         site |-> <<>>, filetype |-> <<>>])
               = NormalizeKey([terms |-> <<term>>, site |-> site, filetype |-> <<>>])
<1> DEFINE X == Seq(Symbols)
           part == <<"site", Equals>> \o site
           sep == <<Separator>>
           both == term \o sep \o part
           one == [terms |-> <<both>>, site |-> <<>>, filetype |-> <<>>]
           two == [terms |-> <<term>>, site |-> site, filetype |-> <<>>]
           Low(s) == Lowered(AsciiLower, s)
<1>1. part \in X /\ FilterPart("site", site) = <<part>>
  BY PartIs
<1>2. sep \in X /\ Low(sep) = sep
  <2>1. Separator \in Symbols /\ Separator \notin Words
    BY QueryAssumption DEF Symbols, Separator
  <2>2. sep \in X /\ Len(sep) = 1 /\ sep[1] = Separator
    BY <2>1
  <2> HIDE DEF sep
  <2>3. Low(sep) \in X /\ Len(Low(sep)) = 1 /\ \A i \in 1..1 : Low(sep)[i] = sep[i]
    <3>1. /\ Low(sep) \in X /\ Len(Low(sep)) = Len(sep)
          /\ \A i \in 1..Len(sep) : Low(sep)[i] = IF sep[i] \in Words THEN AsciiLower[sep[i]] ELSE sep[i]
      <4>1. AsciiLower \in [Words -> Words] /\ sep \in Seq(Symbols)
        BY <2>2, QueryAssumption
      <4>. QED  BY <4>1, LoweredIs
    <3>2. \A i \in 1..1 : i = 1
      OBVIOUS
    <3> HIDE DEF Low
    <3>. QED  BY <2>1, <2>2, <3>1, <3>2
  <2> HIDE DEF Low, X
  <2>. QED  BY <2>2, <2>3, SameParts DEF X
<1>3. FilterPart("site", <<>>) = <<>> /\ FilterPart("filetype", <<>>) = <<>>
  BY DEF FilterPart
<1>4. Low(term) \in X
  BY LoweredIs, QueryAssumption
<1> HIDE DEF X, part, sep
<1>5. both \in X /\ Low(both) = Low(term) \o sep \o part
  <2>1. term \o sep \in X
    BY <1>2 DEF X
  <2>2. both \in X
    BY <1>1, <2>1 DEF X
  <2>3. Low(both) = Low(term \o sep) \o Low(part)
    BY <1>1, <2>1, LoweredConcat, QueryAssumption DEF X
  <2>4. Low(term \o sep) = Low(term) \o Low(sep)
    BY <1>2, LoweredConcat, QueryAssumption DEF X
  <2>. QED  BY <1>2, <2>2, <2>3, <2>4 DEF part
<1> HIDE DEF both, Low
<1>6. NormalizeKey(one) = Joined(<<Low(both)>>)
  <2>1. TermParts(one) = <<Low(both)>>
    BY DEF TermParts, Low
  <2>2. NormalizeKey(one) = Joined(<<Low(both)>> \o <<>> \o <<>>)
    BY <1>3, <2>1 DEF NormalizeKey
  <2>3. <<Low(both)>> \o <<>> \o <<>> = <<Low(both)>>
    OBVIOUS
  <2>. QED  BY <2>2, <2>3
<1>7. NormalizeKey(two) = Joined(<<Low(term), part>>)
  <2>1. TermParts(two) = <<Low(term)>>
    BY DEF TermParts, Low
  <2>2. NormalizeKey(two) = Joined(<<Low(term)>> \o <<part>> \o <<>>)
    BY <1>1, <1>3, <2>1 DEF NormalizeKey
  <2>3. <<Low(term)>> \o <<part>> \o <<>> = <<Low(term), part>>
    BY <1>1, <1>4, TwoParts
  <2>. QED  BY <2>2, <2>3
<1>8. Joined(<<Low(term), part>>) = Low(term) \o sep \o part
  BY <1>1, <1>4, JoinedTwo DEF X, sep
<1>9. Joined(<<Low(both)>>) = Low(both)
  <2>1. Low(both) \in X
    BY <1>1, <1>2, <1>4, <1>5 DEF X
  <2>. QED  BY <2>1, JoinedOne DEF X
<1>10. NormalizeKey(one) = NormalizeKey(two)
  BY <1>5, <1>6, <1>7, <1>8, <1>9
<1>. QED  BY <1>10 DEF both, sep, part

LEMMA OneWord ==
    ASSUME NEW word \in Words
    PROVE  \A x : IsIn(AnalyzeTerms(<<<<word>>>>), x) <=> x = AsciiLower[word] /\ x \notin Stopwords
<1> DEFINE terms == <<<<word>>>>
           low == AsciiLower[word]
<1>1. <<word>> \in Seq(Symbols) /\ low \in Symbols /\ low \in Words
  BY QueryAssumption DEF Symbols
<1>2. Text(terms) = <<word>>
  <2>1. terms \in Seq(Seq(Symbols)) /\ Len(terms) = 1 /\ terms[1] = <<word>>
    BY <1>1
  <2> HIDE DEF terms
  <2>2. PICK up \in [0..1 -> Seq(Symbols)] :
            up[0] = <<>> /\ (\A n \in 1..1 : up[n] = up[n - 1] \o terms[n]) /\ Text(terms) = up[1]
    BY <2>1, TextIs
  <2>3. up[1] = up[1 - 1] \o terms[1]
    BY <2>2
  <2>4. up[1 - 1] = <<>>
    BY <2>2
  <2>. QED  BY <1>1, <2>1, <2>2, <2>3, <2>4
<1>3. Lowered(AsciiLower, <<word>>) = <<low>>
  <2>1. Len(<<word>>) = 1 /\ <<word>>[1] = word
    OBVIOUS
  <2> DEFINE l == Lowered(AsciiLower, <<word>>)
  <2>2. l \in Seq(Symbols) /\ Len(l) = 1 /\ l[1] = low
    <3> DEFINE one == <<word>>
    <3>1. one \in Seq(Symbols) /\ Len(one) = 1 /\ one[1] = word /\ 1 \in 1..Len(one)
      BY <1>1
    <3> HIDE DEF one
    <3>2. /\ Lowered(AsciiLower, one) \in Seq(Symbols) /\ Len(Lowered(AsciiLower, one)) = 1
          /\ Lowered(AsciiLower, one)[1] = low
      BY <3>1, LoweredIs, QueryAssumption
    <3>. QED  BY <3>2 DEF one
  <2> HIDE DEF l
  <2>3. l = <<low>>
    BY <2>2
  <2>. QED  BY <2>3 DEF l
<1>4. <<low>> \in Seq(Symbols) /\ \A x : IsIn(<<low>>, x) <=> x = low
  BY <1>1 DEF IsIn
<1>5. AnalyzeTerms(terms) = Only(<<low>>, Words \ Stopwords)
  BY <1>2, <1>3 DEF AnalyzeTerms
<1> HIDE DEF low
<1>6. \A x : IsIn(Only(<<low>>, Words \ Stopwords), x) <=> x \in Words \ Stopwords /\ IsIn(<<low>>, x)
  BY <1>4, OnlyIs
<1>. QED  BY <1>1, <1>4, <1>5, <1>6 DEF low

\* A text that both foldings lower alike is found by its words.
LEMMA WordsFind ==
    ASSUME NEW terms \in Seq(Seq(Symbols)), OnlyAsciiCase(Text(terms))
    PROVE  LET text == Text(terms)
           IN  /\ AnalyzeTerms(terms) = IndexTokens(text)
               /\ \A i \in DOMAIN text, word \in Words :
                     text[i] \in Words /\ AsciiLower[word] = AsciiLower[text[i]] =>
                         (Matches([terms |-> <<<<word>>>>], [title |-> <<>>, content |-> text])
                             <=> AsciiLower[word] \notin Stopwords)
<1> DEFINE text == Text(terms)
<1>1. text \in Seq(Symbols) /\ Len(text) \in Nat /\ DOMAIN text = 1..Len(text)
  <2>1. Len(terms) \in 0..Len(terms)
    <3>1. Len(terms) \in Nat
      OBVIOUS
    <3>. QED  BY <3>1
  <2>2. text \in Seq(Symbols)
    BY <2>1, TextIs
  <2>. QED  BY <2>2
<1>2. OnlyAsciiCase(text)
  OBVIOUS
<1>3. AnalyzeTerms(terms) = Only(Lowered(AsciiLower, text), Words \ Stopwords)
  BY DEF AnalyzeTerms
<1> HIDE DEF text
<1>4. Lowered(AsciiLower, text) = Lowered(Lower, text)
  BY <1>2 DEF OnlyAsciiCase, Lowered
<1>5. AnalyzeTerms(terms) = IndexTokens(text)
  BY <1>3, <1>4 DEF IndexTokens
<1>6. ASSUME NEW i \in DOMAIN text, NEW word \in Words, text[i] \in Words,
             AsciiLower[word] = AsciiLower[text[i]]
      PROVE  Matches([terms |-> <<<<word>>>>], [title |-> <<>>, content |-> text])
                 <=> AsciiLower[word] \notin Stopwords
  <2> DEFINE tokens == AnalyzeTerms(<<<<word>>>>)
             low == AsciiLower[word]
  <2>1. Matches([terms |-> <<<<word>>>>], [title |-> <<>>, content |-> text]) <=>
            \E n \in DOMAIN tokens : \E field \in {IndexTokens(<<>>), IndexTokens(text)} :
            \E j \in DOMAIN field : field[j] = tokens[n]
    BY DEF Matches
  <2>2. \A x : IsIn(tokens, x) <=> x = low /\ x \notin Stopwords
    BY OneWord
  <2>3. low \in Words
    BY QueryAssumption
  <2>4. low \notin Stopwords => IsIn(IndexTokens(text), low)
    <3> HAVE low \notin Stopwords
    <3> DEFINE l == Lowered(AsciiLower, text)
    <3>1. l \in Seq(Symbols) /\ l[i] = low /\ i \in DOMAIN l
      BY <1>1, <1>6, LoweredIs, QueryAssumption
    <3> HIDE DEF l, low
    <3>2. IsIn(l, low)
      BY <3>1 DEF IsIn
    <3>3. IsIn(Only(l, Words \ Stopwords), low)
      BY <2>3, <3>1, <3>2, OnlyIs
    <3>. QED  BY <1>3, <1>5, <3>3 DEF l
  <2> HIDE DEF tokens, low
  <2>5. CASE low \in Stopwords
    <3>1. DOMAIN tokens = {}
      BY <2>2, <2>5 DEF IsIn
    <3>. QED  BY <2>1, <2>5, <3>1 DEF low
  <2>6. CASE low \notin Stopwords
    <3>1. PICK n \in DOMAIN tokens : tokens[n] = low
      BY <2>2, <2>6 DEF IsIn
    <3>2. PICK j \in DOMAIN IndexTokens(text) : IndexTokens(text)[j] = low
      BY <2>4, <2>6 DEF IsIn
    <3>. QED  BY <2>1, <2>6, <3>1, <3>2 DEF low
  <2>. QED  BY <2>5, <2>6
<1>. QED  BY <1>5, <1>6 DEF text

-----------------------------------------------------------------------------
(* robots.txt, for any lines.                                              *)

Patterns == Nat \cup {NoMatch}
RuleSet == [allow : BOOLEAN, length : Patterns]
Counts(rule) == rule.length # NoMatch /\ rule.length # 0

\* best is the rule that decides among the first n.
Decides(rules, n, best) ==
    /\ best \in RuleSet /\ best.length \in Nat
    /\ best = NoRule \/ \E i \in 1..n : Counts(rules[i]) /\ rules[i] = best
    /\ \A i \in 1..n : Counts(rules[i]) =>
          /\ rules[i].length <= best.length
          /\ rules[i].allow /\ ~best.allow => rules[i].length < best.length
    /\ best = NoRule => \A i \in 1..n : ~Counts(rules[i])

LEMMA RuleDecides ==
    ASSUME NEW rules \in Seq(RuleSet), NEW n \in Nat, n + 1 \in 1..Len(rules), NEW best, Decides(rules, n, best)
    PROVE  Decides(rules, n + 1,
               IF Counts(rules[n + 1]) /\ Overrides(rules[n + 1], best) THEN rules[n + 1] ELSE best)
<1> DEFINE rule == rules[n + 1]
<1>1. rule \in RuleSet /\ rule = [allow |-> rule.allow, length |-> rule.length] /\ rule.allow \in BOOLEAN
  <2>1. rule \in RuleSet
    BY ElementOfSeq
  <2>. QED  BY <2>1 DEF RuleSet
<1>2. \A i \in 1..n + 1 : i \in 1..n \/ i = n + 1
  OBVIOUS
<1>3. n + 1 \in 1..n + 1 /\ \A i \in 1..n : i \in 1..n + 1
  OBVIOUS
<1>4. best \in RuleSet /\ best.length \in Nat /\ best.allow \in BOOLEAN
  BY DEF Decides, RuleSet
<1>5. \A i \in 1..n : Counts(rules[i]) => rules[i].length \in Nat
  <2> SUFFICES ASSUME NEW i \in 1..n, Counts(rules[i])
               PROVE  rules[i].length \in Nat
    OBVIOUS
  <2>1. i \in 1..Len(rules)
    OBVIOUS
  <2>2. rules[i] \in RuleSet
    BY <2>1, ElementOfSeq
  <2>. QED  BY <2>2 DEF RuleSet, Patterns, Counts
<1>6. Counts(rule) => rule.length \in Nat /\ rule.length > 0
  BY <1>1 DEF RuleSet, Patterns, Counts
<1>7. NoRule.length = 0 /\ NoRule.allow
  BY DEF NoRule
<1>8. CASE Counts(rule) /\ Overrides(rule, best)
  <2>1. rule # NoRule
    BY <1>6, <1>7, <1>8
  <2>2. \A i \in 1..n : Counts(rules[i]) =>
            rules[i].length <= rule.length /\ (rules[i].allow /\ ~rule.allow => rules[i].length < rule.length)
    <3> SUFFICES ASSUME NEW i \in 1..n, Counts(rules[i])
                 PROVE  rules[i].length <= rule.length
                        /\ (rules[i].allow /\ ~rule.allow => rules[i].length < rule.length)
      OBVIOUS
    <3>1. rules[i].length <= best.length /\ rules[i].length \in Nat
      BY <1>5 DEF Decides
    <3>2. rule.length > best.length \/ (rule.length = best.length /\ rule.allow)
      BY <1>8 DEF Overrides
    <3> HIDE DEF rule
    <3>. QED  BY <1>4, <1>6, <1>8, <3>1, <3>2
  <2> HIDE DEF rule
  <2>3. rules[n + 1] = rule
    BY DEF rule
  <2>4. Decides(rules, n + 1, rule)
    BY <1>1, <1>2, <1>3, <1>6, <1>8, <2>1, <2>2, <2>3 DEF Decides
  <2>. QED  BY <1>8, <2>3, <2>4
<1>9. CASE ~(Counts(rule) /\ Overrides(rule, best))
  <2>1. Counts(rule) => /\ rule.length <= best.length /\ best # NoRule
                        /\ rule.allow /\ ~best.allow => rule.length < best.length
    <3> HIDE DEF rule
    <3>. QED  BY <1>1, <1>4, <1>6, <1>7, <1>9 DEF Overrides
  <2> HIDE DEF rule
  <2>2. rules[n + 1] = rule
    BY DEF rule
  <2>3. Decides(rules, n + 1, best)
    BY <1>2, <1>3, <2>1, <2>2 DEF Decides
  <2>. QED  BY <1>9, <2>2, <2>3
<1>. QED  BY <1>8, <1>9

\* What a group's rules say of the path.
Permits(group) ==
    \A d \in DOMAIN group.disallow : group.disallow[d] \notin {NoMatch, 0} =>
        \E a \in DOMAIN group.allow :
            group.allow[a] \notin {NoMatch, 0} /\ group.allow[a] >= group.disallow[d]

LEMMA MostSpecificIs ==
    ASSUME NEW group, group.allow \in Seq(Patterns), group.disallow \in Seq(Patterns)
    PROVE  MostSpecific(group).allow <=> Permits(group)
<1> DEFINE ra == [i \in DOMAIN group.allow |-> [allow |-> TRUE, length |-> group.allow[i]]]
           rd == [i \in DOMAIN group.disallow |-> [allow |-> FALSE, length |-> group.disallow[i]]]
           rules == ra \o rd
           After(f) == [n \in 0..Len(rules) |->
                            IF n = 0 THEN NoRule
                            ELSE IF Counts(rules[n]) /\ Overrides(rules[n], f[n - 1]) THEN rules[n] ELSE f[n - 1]]
           best == CHOOSE f : f = After(f)
           N == Len(rules)
           A == Len(group.allow)
           D == Len(group.disallow)
           step == [n \in 1..N |-> [b \in RuleSet |->
                        IF Counts(rules[n]) /\ Overrides(rules[n], b) THEN rules[n] ELSE b]]
<1>1. MostSpecific(group) = best[N]
  BY DEF MostSpecific, Counts
<1>2. /\ A \in Nat /\ D \in Nat /\ DOMAIN group.allow = 1..A /\ DOMAIN group.disallow = 1..D
      /\ \A i \in 1..A : group.allow[i] \in Patterns
      /\ \A i \in 1..D : group.disallow[i] \in Patterns
  BY LenProperties, ElementOfSeq
<1>3. ra \in Seq(RuleSet) /\ Len(ra) = A /\ rd \in Seq(RuleSet) /\ Len(rd) = D
  BY <1>2 DEF RuleSet
<1>4. /\ rules \in Seq(RuleSet) /\ N = A + D /\ N \in Nat
      /\ \A i \in 1..A : rules[i] = ra[i]
      /\ \A i \in A + 1..A + D : rules[i] = rd[i - A]
  <2> HIDE DEF ra, rd, A, D
  <2>1. /\ rules \in Seq(RuleSet) /\ Len(rules) = Len(ra) + Len(rd)
        /\ \A i \in 1..Len(ra) : rules[i] = ra[i]
        /\ \A i \in Len(ra) + 1..Len(ra) + Len(rd) : rules[i] = rd[i - Len(ra)]
    BY <1>3, ConcatIs
  <2> HIDE DEF rules
  <2>. QED  BY <1>2, <1>3, <2>1
<1>5. \A i \in 1..A : ra[i].allow /\ ra[i].length = group.allow[i]
  BY <1>2
<1>6. \A i \in 1..D : ~rd[i].allow /\ rd[i].length = group.disallow[i]
  BY <1>2
<1> HIDE DEF ra, rd, rules, A, D
<1>7. \A n \in 1..N : rules[n] \in RuleSet
  BY <1>4, ElementOfSeq
<1>8. NoRule \in RuleSet
  BY DEF NoRule, RuleSet, Patterns
<1>9. \E g : g = After(g)
  <2>1. step \in StepsOn(N, RuleSet)
    BY <1>4, <1>7 DEF StepsOn
  <2>2. PICK g : Follows(g, N, RuleSet, NoRule, step)
    <3> HIDE DEF step, N
    <3>. QED  BY <1>4, <1>8, <2>1, RecursionExists
  <2>3. \A n \in 0..N : g[n] = After(g)[n]
    <3> SUFFICES ASSUME NEW n \in 0..N
                 PROVE  g[n] = After(g)[n]
      OBVIOUS
    <3>1. CASE n = 0
      BY <2>2, <3>1 DEF Follows
    <3>2. CASE n # 0
      <4>1. n \in 1..N /\ n - 1 \in 0..N
        BY <1>4, <3>2
      <4>2. g[n - 1] \in RuleSet
        BY <2>2, <4>1 DEF Follows
      <4>. QED  BY <2>2, <3>2, <4>1, <4>2 DEF Follows
    <3>. QED  BY <3>1, <3>2
  <2>4. g \in [0..N -> RuleSet]
    BY <2>2 DEF Follows
  <2>. QED  BY <2>3, <2>4
<1>10. best = After(best)
  <2> HIDE DEF After
  <2>. QED  BY <1>9
<1> HIDE DEF best
<1> DEFINE T == {n \in 0..N : Decides(rules, n, best[n])}
<1>11. 0 \in T
  <2>1. best[0] = NoRule /\ 0 \in 0..N
    BY <1>4, <1>10
  <2>. QED  BY <1>8, <2>1 DEF Decides, NoRule
<1>12. ASSUME NEW n \in 0..N, n \in T, n < N
       PROVE  n + 1 \in T
  <2>1. n + 1 \in 1..N /\ (n + 1) - 1 = n /\ n + 1 \in 0..N /\ n + 1 # 0 /\ n \in Nat
    BY <1>4, <1>12
  <2>2. best[n + 1] = After(best)[n + 1]
    BY <1>10
  <2>3. best[n + 1] = IF Counts(rules[n + 1]) /\ Overrides(rules[n + 1], best[n]) THEN rules[n + 1] ELSE best[n]
    BY <2>1, <2>2
  <2>4. Decides(rules, n + 1, best[n + 1])
    BY <1>4, <1>12, <2>1, <2>3, RuleDecides
  <2>. QED  BY <2>1, <2>4
<1>13. \A n \in 0..N : n \in T
  <2> HIDE DEF T, N
  <2>. QED  BY <1>4, <1>11, <1>12, UpTo
<1>14. Decides(rules, N, best[N])
  <2>1. N \in 0..N
    BY <1>4
  <2>. QED  BY <1>13, <2>1
<1> DEFINE b == best[N]
<1> HIDE DEF N, b
<1>15. ASSUME NEW i \in 1..N
       PROVE  \/ i \in 1..A /\ rules[i].allow /\ rules[i].length = group.allow[i]
              \/ i - A \in 1..D /\ ~rules[i].allow /\ rules[i].length = group.disallow[i - A]
  <2>1. CASE i <= A
    <3>1. i \in 1..A
      BY <1>2, <1>4, <2>1
    <3>. QED  BY <1>4, <1>5, <3>1
  <2>2. CASE ~(i <= A)
    <3>1. i \in A + 1..A + D /\ i - A \in 1..D
      BY <1>2, <1>4, <2>2
    <3>. QED  BY <1>4, <1>6, <3>1
  <2>. QED  BY <2>1, <2>2
<1>16. \A a \in 1..A : a \in 1..N /\ rules[a].allow /\ rules[a].length = group.allow[a]
  <2> TAKE a \in 1..A
  <2>1. a \in 1..N
    BY <1>2, <1>4
  <2>. QED  BY <1>4, <1>5, <2>1
<1>17. \A d \in 1..D : A + d \in 1..N /\ ~rules[A + d].allow /\ rules[A + d].length = group.disallow[d]
  <2> TAKE d \in 1..D
  <2>1. A + d \in 1..N /\ A + d \in A + 1..A + D /\ (A + d) - A = d
    BY <1>2, <1>4
  <2>. QED  BY <1>4, <1>6, <2>1
<1>18. Decides(rules, N, b)
  BY <1>14 DEF b
<1>19. ASSUME b.allow, NEW d \in 1..D, group.disallow[d] \notin {NoMatch, 0}
       PROVE  \E a \in 1..A : group.allow[a] \notin {NoMatch, 0} /\ group.allow[a] >= group.disallow[d]
  <2>1. Counts(rules[A + d]) /\ rules[A + d].length = group.disallow[d]
    BY <1>17, <1>19 DEF Counts
  <2>2. b # NoRule /\ group.disallow[d] <= b.length
    BY <1>17, <1>18, <2>1 DEF Decides
  <2>3. PICK i \in 1..N : Counts(rules[i]) /\ rules[i] = b
    BY <1>18, <2>2 DEF Decides
  <2>4. i \in 1..A /\ b.length = group.allow[i]
    BY <1>15, <1>19, <2>3
  <2>5. group.allow[i] \notin {NoMatch, 0} /\ group.allow[i] >= group.disallow[d]
    <3>1. b.length \in Nat /\ group.disallow[d] \in Nat
      BY <1>2, <1>18, <1>19 DEF Decides, Patterns
    <3>. QED  BY <2>2, <2>3, <2>4, <3>1 DEF Counts
  <2>. QED  BY <2>4, <2>5
<1>20. ASSUME ~b.allow
       PROVE  \E d \in 1..D : /\ group.disallow[d] \notin {NoMatch, 0}
                              /\ \A a \in 1..A : group.allow[a] \notin {NoMatch, 0} =>
                                     ~(group.allow[a] >= group.disallow[d])
  <2>1. b # NoRule
    BY <1>20 DEF NoRule
  <2>2. PICK i \in 1..N : Counts(rules[i]) /\ rules[i] = b
    BY <1>18, <2>1 DEF Decides
  <2>3. i - A \in 1..D /\ b.length = group.disallow[i - A]
    BY <1>15, <1>20, <2>2
  <2>4. ASSUME NEW a \in 1..A, group.allow[a] \notin {NoMatch, 0}
        PROVE  ~(group.allow[a] >= b.length)
    <3>1. Counts(rules[a]) /\ rules[a].length = group.allow[a] /\ rules[a].allow
      BY <1>16, <2>4 DEF Counts
    <3>2. group.allow[a] < b.length
      BY <1>16, <1>18, <1>20, <3>1 DEF Decides
    <3>3. group.allow[a] \in Nat /\ b.length \in Nat
      BY <1>2, <1>18, <2>4 DEF Decides, Patterns
    <3>. QED  BY <3>2, <3>3
  <2>5. group.disallow[i - A] \notin {NoMatch, 0}
    BY <2>2, <2>3 DEF Counts
  <2>. QED  BY <2>3, <2>4, <2>5
<1>21. b.allow <=> Permits(group)
  BY <1>2, <1>19, <1>20 DEF Permits
<1>. QED  BY <1>1, <1>21 DEF b, N

\* The group that is for us: of those with the longest token the first.
Applies(groups, i) == groups[i].agent = Star \/ groups[i].agent \in Contained
IsBest(groups, n, b) ==
    \/ b = 0 /\ \A i \in 1..n : ~Applies(groups, i)
    \/ /\ b \in 1..n /\ Applies(groups, b)
       /\ \A i \in 1..n : Applies(groups, i) =>
             \/ Length[groups[i].agent] < Length[groups[b].agent]
             \/ Length[groups[i].agent] = Length[groups[b].agent] /\ b <= i

LEMMA BestGroupIs ==
    ASSUME NEW groups, Len(groups) \in Nat, \A i \in 1..Len(groups) : groups[i].agent \in Agents
    PROVE  IsBest(groups, Len(groups), BestGroup(groups))
<1> DEFINE N == Len(groups)
           Better(n, prev) ==
               IF ~(groups[n].agent = Star \/ groups[n].agent \in Contained) THEN prev
               ELSE IF prev = 0 THEN n
               ELSE IF Length[groups[n].agent] > Length[groups[prev].agent] THEN n ELSE prev
           After(f) == [n \in 0..Len(groups) |-> IF n = 0 THEN 0 ELSE Better(n, f[n - 1])]
           best == CHOOSE f : f = After(f)
           step == [n \in 1..N |-> [b \in 0..N |-> Better(n, b)]]
<1>1. BestGroup(groups) = best[N]
  BY DEF BestGroup
<1>2. \A i \in 1..N : Length[groups[i].agent] \in Nat
  BY RobotsAssumption
<1>3. \E g : g = After(g)
  <2>1. step \in StepsOn(N, 0..N)
    BY DEF StepsOn
  <2>2. 0 \in 0..N /\ N \in Nat
    OBVIOUS
  <2>3. PICK g : Follows(g, N, 0..N, 0, step)
    <3> HIDE DEF step, N
    <3>. QED  BY <2>1, <2>2, RecursionExists
  <2>4. \A n \in 0..N : g[n] = After(g)[n]
    <3> SUFFICES ASSUME NEW n \in 0..N
                 PROVE  g[n] = After(g)[n]
      OBVIOUS
    <3>1. CASE n = 0
      BY <2>3, <3>1 DEF Follows
    <3>2. CASE n # 0
      <4>1. n \in 1..N /\ n - 1 \in 0..N
        BY <2>2, <3>2
      <4>2. g[n - 1] \in 0..N
        BY <2>3, <4>1 DEF Follows
      <4>3. g[n] = Better(n, g[n - 1])
        <5> HIDE DEF Better
        <5>. QED  BY <2>3, <4>1, <4>2 DEF Follows
      <4> HIDE DEF Better
      <4>. QED  BY <3>2, <4>3
    <3>. QED  BY <3>1, <3>2
  <2>5. g \in [0..N -> 0..N]
    BY <2>3 DEF Follows
  <2> HIDE DEF Better
  <2>. QED  BY <2>4, <2>5
<1>4. best = After(best)
  <2> HIDE DEF After
  <2>. QED  BY <1>3
<1> HIDE DEF best
<1> DEFINE T == {n \in 0..N : IsBest(groups, n, best[n])}
<1>5. 0 \in T
  <2>1. best[0] = 0 /\ 0 \in 0..N
    BY <1>4
  <2>. QED  BY <2>1 DEF IsBest
<1>6. ASSUME NEW n \in 0..N, n \in T, n < N
      PROVE  n + 1 \in T
  <2> DEFINE m == n + 1
             prev == best[n]
  <2>1. m \in 1..N /\ m - 1 = n /\ m \in 0..N /\ m # 0 /\ n \in Nat
    BY <1>6
  <2>2. best[m] = Better(m, prev)
    <3>1. best[m] = After(best)[m]
      BY <1>4
    <3> HIDE DEF Better, m
    <3>. QED  BY <2>1, <3>1
  <2>3. IsBest(groups, n, prev)
    BY <1>6
  <2>4. /\ \A i \in 1..m : i \in 1..n \/ i = m
        /\ \A i \in 1..n : i \in 1..N /\ i \in 1..m /\ i < m /\ i # 0
        /\ m \in 1..m
    BY <2>1
  <2> HIDE DEF m, prev
  <2>5. IsBest(groups, m, Better(m, prev))
    <3>1. CASE ~Applies(groups, m)
      BY <2>3, <2>4, <3>1 DEF IsBest, Applies
    <3>2. CASE Applies(groups, m) /\ prev = 0
      BY <2>1, <2>3, <2>4, <3>2 DEF IsBest, Applies
    <3>3. CASE Applies(groups, m) /\ prev # 0
      <4>1. /\ prev \in 1..n /\ Applies(groups, prev)
            /\ \A i \in 1..n : Applies(groups, i) =>
                  \/ Length[groups[i].agent] < Length[groups[prev].agent]
                  \/ Length[groups[i].agent] = Length[groups[prev].agent] /\ prev <= i
        BY <2>3, <3>3 DEF IsBest
      <4>2. prev \in 1..N /\ prev < m /\ prev \in 1..m
        BY <2>4, <4>1
      <4> DEFINE lm == Length[groups[m].agent]
                 lp == Length[groups[prev].agent]
      <4>3. lm \in Nat /\ lp \in Nat
        BY <1>2, <2>1, <4>2
      <4>4. CASE lm > lp
        <5>1. Better(m, prev) = m
          BY <3>3, <4>4 DEF Applies
        <5>2. \A i \in 1..n : Applies(groups, i) => Length[groups[i].agent] < lm
          <6> SUFFICES ASSUME NEW i \in 1..n, Applies(groups, i)
                       PROVE  Length[groups[i].agent] < lm
            OBVIOUS
          <6>1. Length[groups[i].agent] \in Nat /\ Length[groups[i].agent] <= lp
            BY <1>2, <2>4, <4>1, <4>3
          <6> HIDE DEF lm, lp
          <6>. QED  BY <4>3, <4>4, <6>1
        <5>3. IsBest(groups, m, m)
          BY <2>1, <2>4, <3>3, <5>2 DEF IsBest
        <5>. QED  BY <5>1, <5>3
      <4>5. CASE ~(lm > lp)
        <5>1. Better(m, prev) = prev
          BY <3>3, <4>5 DEF Applies
        <5>2. lm < lp \/ (lm = lp /\ prev <= m)
          <6>1. prev <= m
            BY <2>1, <4>2
          <6> HIDE DEF lm, lp
          <6>. QED  BY <4>3, <4>5, <6>1
        <5>3. IsBest(groups, m, prev)
          BY <2>4, <4>1, <4>2, <5>2 DEF IsBest
        <5>. QED  BY <5>1, <5>3
      <4>. QED  BY <4>4, <4>5
    <3>. QED  BY <3>1, <3>2, <3>3
  <2> HIDE DEF Better
  <2>. QED  BY <2>1, <2>2, <2>5 DEF m
<1>7. \A n \in 0..N : n \in T
  <2> HIDE DEF T, N
  <2>. QED  BY <1>5, <1>6, UpTo DEF N
<1>8. N \in 0..N
  OBVIOUS
<1>. QED  BY <1>1, <1>7, <1>8

IsLines(lines) ==
    /\ Len(lines) \in Nat /\ DOMAIN lines = 1..Len(lines)
    /\ \A i \in 1..Len(lines) :
          /\ lines[i].key \in {"user-agent", "allow", "disallow", "crawl-delay"}
          /\ lines[i].key = "user-agent" => lines[i].value \in Agents
          /\ lines[i].key \in {"allow", "disallow"} => lines[i].value \in Patterns

Delays(lines) == {NoDelay} \cup {lines[i].value : i \in DOMAIN lines}
GroupsFor(lines) ==
    [agent : Agents, allow : Seq(Patterns), disallow : Seq(Patterns), crawl_delay : Delays(lines)]

\* A group has the rules of a range of lines.
Holds(lines, from, to, group) ==
    /\ \A x : IsIn(group.allow, x) <=> \E k \in from..to : lines[k].key = "allow" /\ lines[k].value = x
    /\ \A x : IsIn(group.disallow, x) <=> \E k \in from..to : lines[k].key = "disallow" /\ lines[k].value = x
    /\ \/ group.crawl_delay = NoDelay /\ \A k \in from..to : lines[k].key # "crawl-delay"
       \/ \E k \in from..to : /\ lines[k].key = "crawl-delay" /\ lines[k].value = group.crawl_delay
                              /\ \A j \in from..to : k < j => lines[j].key # "crawl-delay"

LEMMA AppendedIs ==
    ASSUME NEW X, NEW s \in Seq(X), NEW e \in X
    PROVE  Append(s, e) \in Seq(X) /\ \A x : IsIn(Append(s, e), x) <=> IsIn(s, x) \/ x = e
BY AppendProperties DEF IsIn

LEMMA HoldsNext ==
    ASSUME NEW lines, IsLines(lines), NEW n \in Nat, n + 1 \in 1..Len(lines), NEW from \in 1..n + 1,
           NEW group \in GroupsFor(lines), Holds(lines, from, n, group)
    PROVE  /\ ~IsRule(lines[n + 1]) => Holds(lines, from, n + 1, group)
           /\ IsRule(lines[n + 1]) => /\ With(group, lines[n + 1]) \in GroupsFor(lines)
                                      /\ With(group, lines[n + 1]).agent = group.agent
                                      /\ Holds(lines, from, n + 1, With(group, lines[n + 1]))
<1> DEFINE m == n + 1
           line == lines[m]
           new == With(group, line)
<1>1. /\ m \in from..m /\ \A k \in from..n : k \in from..m /\ k < m
      /\ \A k \in from..m : k \in from..n \/ k = m
  OBVIOUS
<1>2. /\ line.key \in {"user-agent", "allow", "disallow", "crawl-delay"}
      /\ line.key \in {"allow", "disallow"} => line.value \in Patterns
      /\ line.value \in Delays(lines)
  BY DEF IsLines, Delays
<1>3. \A k \in from..m : ~(m < k)
  OBVIOUS
<1>4. group.allow \in Seq(Patterns) /\ group.disallow \in Seq(Patterns)
  BY DEF GroupsFor
<1>5. lines[m] = line
  OBVIOUS
<1> HIDE DEF m, line
<1>6. CASE line.key = "user-agent"
  <2>1. Holds(lines, from, m, group)
    BY <1>1, <1>5, <1>6 DEF Holds
  <2>. QED  BY <1>5, <1>6, <2>1 DEF m, line, IsRule
<1>7. CASE line.key = "allow"
  <2>1. new = [group EXCEPT !.allow = Append(@, line.value)]
    BY <1>7 DEF With
  <2>2. /\ new \in GroupsFor(lines) /\ new.agent = group.agent
        /\ new.allow = Append(group.allow, line.value) /\ new.disallow = group.disallow
        /\ new.crawl_delay = group.crawl_delay
    <3>1. Append(group.allow, line.value) \in Seq(Patterns)
      BY <1>2, <1>4, <1>7, AppendedIs
    <3> HIDE DEF new
    <3>. QED  BY <2>1, <3>1 DEF GroupsFor
  <2>3. \A x : IsIn(new.allow, x) <=> IsIn(group.allow, x) \/ x = line.value
    BY <1>2, <1>4, <1>7, <2>2, AppendedIs
  <2> HIDE DEF new
  <2>4. Holds(lines, from, m, new)
    BY <1>1, <1>5, <1>7, <2>2, <2>3 DEF Holds
  <2>. QED  BY <1>5, <1>7, <2>2, <2>4 DEF m, line, IsRule, new
<1>8. CASE line.key = "disallow"
  <2>1. new = [group EXCEPT !.disallow = Append(@, line.value)]
    BY <1>8 DEF With
  <2>2. /\ new \in GroupsFor(lines) /\ new.agent = group.agent
        /\ new.disallow = Append(group.disallow, line.value) /\ new.allow = group.allow
        /\ new.crawl_delay = group.crawl_delay
    <3>1. Append(group.disallow, line.value) \in Seq(Patterns)
      BY <1>2, <1>4, <1>8, AppendedIs
    <3> HIDE DEF new
    <3>. QED  BY <2>1, <3>1 DEF GroupsFor
  <2>3. \A x : IsIn(new.disallow, x) <=> IsIn(group.disallow, x) \/ x = line.value
    BY <1>2, <1>4, <1>8, <2>2, AppendedIs
  <2> HIDE DEF new
  <2>4. \A x : IsIn(new.allow, x) <=> \E k \in from..m : lines[k].key = "allow" /\ lines[k].value = x
    BY <1>1, <1>5, <1>8, <2>2 DEF Holds
  <2>5. \A x : IsIn(new.disallow, x) <=> \E k \in from..m : lines[k].key = "disallow" /\ lines[k].value = x
    BY <1>1, <1>5, <1>8, <2>3 DEF Holds
  <2>6. Holds(lines, from, m, new)
    BY <1>1, <1>5, <1>8, <2>2, <2>4, <2>5 DEF Holds
  <2>. QED  BY <1>5, <1>8, <2>2, <2>6 DEF m, line, IsRule, new
<1>9. CASE line.key = "crawl-delay"
  <2>1. new = [group EXCEPT !.crawl_delay = line.value]
    BY <1>9 DEF With
  <2>2. /\ new \in GroupsFor(lines) /\ new.agent = group.agent
        /\ new.disallow = group.disallow /\ new.allow = group.allow
        /\ new.crawl_delay = line.value
    BY <1>2, <2>1 DEF GroupsFor
  <2> HIDE DEF new
  <2>3. Holds(lines, from, m, new)
    BY <1>1, <1>3, <1>5, <1>9, <2>2 DEF Holds
  <2>. QED  BY <1>5, <1>9, <2>2, <2>3 DEF m, line, IsRule, new
<1>. QED  BY <1>2, <1>6, <1>7, <1>8, <1>9

\* What the first n lines are parsed into; since[g] is the line that made group g.
ParsedTo(lines, n, st, since) ==
    LET N == Len(st.groups) IN
    /\ st.groups \in Seq(GroupsFor(lines)) /\ st.current \in Seq(Agents)
    /\ since \in [1..N -> 1..n]
    /\ \A g \in 1..N : /\ since[g] \in Starts(lines) /\ NamedAt(lines)[since[g]] = st.groups[g].agent
                       /\ Holds(lines, since[g], n, st.groups[g])
    /\ \A g, h \in 1..N : g < h => since[g] < since[h] /\ st.groups[g].agent # st.groups[h].agent
    /\ \A i \in Starts(lines) : i <= n =>
          \E g \in 1..N : st.groups[g].agent = NamedAt(lines)[i] /\ since[g] <= i
    /\ \A a : IsIn(st.current, a) <=> \E g \in 1..N : st.groups[g].agent = a

LineStep(st, line) ==
    IF line.key = "user-agent"
    THEN [current |-> CurrentAfter(st.current, line.value), groups |-> Ensure(st.groups, line.value)]
    ELSE Rule(st, line)

LEMMA StartsAre ==
    ASSUME NEW lines, IsLines(lines), NEW i \in 1..Len(lines)
    PROVE  /\ i \in Starts(lines) <=> ~IsRule(lines[i]) \/ \A j \in 1..i : IsRule(lines[j])
           /\ NamedAt(lines)[i] = IF IsRule(lines[i]) THEN Star ELSE lines[i].value
           /\ NamedAt(lines)[i] \in Agents
           /\ IsRule(lines[i]) <=> lines[i].key # "user-agent"
           /\ Starts(lines) \subseteq 1..Len(lines)
<1>1. DOMAIN lines = 1..Len(lines) /\ (lines[i].key = "user-agent" => lines[i].value \in Agents)
  BY DEF IsLines
<1>. QED  BY <1>1, RobotsAssumption DEF Starts, StartsAgent, NamedAt, IsRule

\* A new group for line n + 1, which has not been looked at for rules yet.
LEMMA GroupAdded ==
    ASSUME NEW lines, IsLines(lines), NEW n \in Nat, NEW agent \in Agents
    PROVE  /\ Group(agent) \in GroupsFor(lines) /\ Group(agent).agent = agent
           /\ Holds(lines, n + 1, n, Group(agent))
<1>1. <<>> \in Seq(Patterns) /\ \A x : ~IsIn(<<>>, x)
  BY DEF IsIn
<1>2. \A k \in n + 1..n : FALSE
  OBVIOUS
<1>3. Group(agent) \in GroupsFor(lines)
  BY <1>1 DEF Group, GroupsFor, Delays
<1>. QED  BY <1>1, <1>2, <1>3 DEF Group, Holds

\* The lines read so far, as facts with names.
LEMMA ParsedIs ==
    ASSUME NEW lines, NEW n \in Nat, NEW st, NEW since, ParsedTo(lines, n, st, since)
    PROVE  LET N == Len(st.groups) IN
           /\ N \in Nat /\ DOMAIN st.groups = 1..N
           /\ \A g \in 1..N : /\ st.groups[g] \in GroupsFor(lines) /\ st.groups[g].agent \in Agents
                              /\ since[g] \in 1..n
           /\ Len(st.current) \in Nat /\ DOMAIN st.current = 1..Len(st.current)
<1> DEFINE N == Len(st.groups)
<1>1. st.groups \in Seq(GroupsFor(lines)) /\ st.current \in Seq(Agents) /\ since \in [1..N -> 1..n]
  BY DEF ParsedTo
<1>2. N \in Nat /\ DOMAIN st.groups = 1..N /\ Len(st.current) \in Nat /\ DOMAIN st.current = 1..Len(st.current)
  BY <1>1, LenProperties
<1>3. \A g \in 1..N : st.groups[g] \in GroupsFor(lines)
  BY <1>1, ElementOfSeq
<1>. QED  BY <1>1, <1>2, <1>3 DEF GroupsFor

\* A user-agent line starts a group if its agent has none.
LEMMA AgentLineKeeps ==
    ASSUME NEW lines, IsLines(lines), NEW n \in Nat, n + 1 \in 1..Len(lines), NEW st, NEW since,
           ParsedTo(lines, n, st, since), lines[n + 1].key = "user-agent"
    PROVE  \E s2 : ParsedTo(lines, n + 1, LineStep(st, lines[n + 1]), s2)
<1> DEFINE m == n + 1
           a == lines[m].value
           N == Len(st.groups)
           new == [current |-> Append(st.current, a), groups |-> Ensure(st.groups, a)]
<1>1. LineStep(st, lines[m]) = new
  BY DEF LineStep, CurrentAfter
<1>2. a \in Agents
  BY DEF IsLines
<1>3. m \in Starts(lines) /\ NamedAt(lines)[m] = a /\ ~IsRule(lines[m])
  BY StartsAre
<1>4. /\ N \in Nat /\ DOMAIN st.groups = 1..N
      /\ \A g \in 1..N : /\ st.groups[g] \in GroupsFor(lines) /\ st.groups[g].agent \in Agents
                         /\ since[g] \in 1..n
  BY ParsedIs
<1>5. /\ since \in [1..N -> 1..n] /\ st.groups \in Seq(GroupsFor(lines))
      /\ \A g \in 1..N : /\ since[g] \in Starts(lines) /\ NamedAt(lines)[since[g]] = st.groups[g].agent
                         /\ Holds(lines, since[g], n, st.groups[g])
      /\ \A g, h \in 1..N : g < h => since[g] < since[h] /\ st.groups[g].agent # st.groups[h].agent
      /\ \A i \in Starts(lines) : i <= n =>
            \E g \in 1..N : st.groups[g].agent = NamedAt(lines)[i] /\ since[g] <= i
      /\ \A x : IsIn(st.current, x) <=> \E g \in 1..N : st.groups[g].agent = x
  BY DEF ParsedTo
<1>6. \A g \in 1..N : Holds(lines, since[g], m, st.groups[g])
  <2> SUFFICES ASSUME NEW g \in 1..N
               PROVE  Holds(lines, since[g], m, st.groups[g])
    OBVIOUS
  <2>1. since[g] \in 1..n + 1
    BY <1>4
  <2>. QED  BY <1>3, <1>4, <1>5, <2>1, HoldsNext
<1>7. \A i \in Starts(lines) : i <= m => i <= n \/ i = m
  <2> SUFFICES ASSUME NEW i \in Starts(lines)
               PROVE  i <= m => i <= n \/ i = m
    OBVIOUS
  <2>1. i \in Nat
    BY StartsAre
  <2>. QED  BY <2>1
<1>8. Append(st.current, a) \in Seq(Agents) /\ \A x : IsIn(Append(st.current, a), x) <=> IsIn(st.current, x) \/ x = a
  <2>1. st.current \in Seq(Agents)
    BY DEF ParsedTo
  <2>. QED  BY <1>2, <2>1, AppendedIs
<1>9. m \in 1..m /\ \A i \in 1..n : i \in 1..m /\ i < m /\ i <= m
  OBVIOUS
<1>10. CASE \E g \in 1..N : st.groups[g].agent = a
  <2>1. new.groups = st.groups
    BY <1>4, <1>10 DEF Ensure
  <2>2. since \in [1..N -> 1..m]
    BY <1>5, <1>9
  <2>3. \A i \in Starts(lines) : i <= m => \E g \in 1..N : st.groups[g].agent = NamedAt(lines)[i] /\ since[g] <= i
    BY <1>3, <1>4, <1>5, <1>7, <1>9, <1>10
  <2>4. new.current = Append(st.current, a)
    OBVIOUS
  <2>5. \A x : IsIn(new.current, x) <=> \E g \in 1..N : st.groups[g].agent = x
    BY <1>5, <1>8, <1>10, <2>4
  <2> HIDE DEF new, m, a
  <2>6. ParsedTo(lines, m, new, since)
    BY <1>5, <1>6, <1>8, <2>1, <2>2, <2>3, <2>4, <2>5 DEF ParsedTo
  <2>. QED  BY <1>1, <2>6 DEF m
<1>11. CASE ~\E g \in 1..N : st.groups[g].agent = a
  <2> DEFINE s2 == [g \in 1..N + 1 |-> IF g <= N THEN since[g] ELSE m]
             gs == Append(st.groups, Group(a))
  <2>1. Group(a) \in GroupsFor(lines) /\ Group(a).agent = a /\ Holds(lines, n + 1, n, Group(a))
    BY <1>2, GroupAdded
  <2>2. new.groups = gs
    BY <1>4, <1>11 DEF Ensure
  <2>3. /\ gs \in Seq(GroupsFor(lines)) /\ Len(gs) = N + 1 /\ gs[N + 1] = Group(a)
        /\ \A g \in 1..N : gs[g] = st.groups[g]
    BY <1>4, <1>5, <2>1, AppendProperties
  <2>4. s2 \in [1..N + 1 -> 1..m] /\ s2[N + 1] = m /\ \A g \in 1..N : s2[g] = since[g]
    BY <1>4, <1>9
  <2>5. /\ \A g \in 1..N + 1 : g \in 1..N \/ g = N + 1
        /\ \A g \in 1..N : g \in 1..N + 1 /\ g < N + 1 /\ ~(N + 1 < g)
        /\ N + 1 \in 1..N + 1 /\ ~(N + 1 < N + 1)
    <3>1. N \in Nat
      BY <1>4
    <3> HIDE DEF N
    <3>. QED  BY <3>1
  <2>6. Holds(lines, m, m, Group(a))
    <3>1. n + 1 \in 1..n + 1
      OBVIOUS
    <3>. QED  BY <1>3, <2>1, <3>1, HoldsNext
  <2>7. new.current = Append(st.current, a)
    OBVIOUS
  <2> HIDE DEF new, gs, s2, m, a, N
  <2>8. \A g \in 1..N + 1 : /\ s2[g] \in Starts(lines) /\ NamedAt(lines)[s2[g]] = gs[g].agent
                            /\ Holds(lines, s2[g], m, gs[g])
    <3> SUFFICES ASSUME NEW g \in 1..N + 1
                 PROVE  /\ s2[g] \in Starts(lines) /\ NamedAt(lines)[s2[g]] = gs[g].agent
                        /\ Holds(lines, s2[g], m, gs[g])
      OBVIOUS
    <3>1. CASE g \in 1..N
      BY <1>5, <1>6, <2>3, <2>4, <3>1
    <3>2. CASE g = N + 1
      BY <1>3, <2>1, <2>3, <2>4, <2>6, <3>2
    <3>. QED  BY <2>5, <3>1, <3>2
  <2>9. \A g, h \in 1..N + 1 : g < h => s2[g] < s2[h] /\ gs[g].agent # gs[h].agent
    <3> SUFFICES ASSUME NEW g \in 1..N + 1, NEW h \in 1..N + 1, g < h
                 PROVE  s2[g] < s2[h] /\ gs[g].agent # gs[h].agent
      OBVIOUS
    <3>1. g \in 1..N
      BY <1>4, <2>5 DEF N
    <3>2. CASE h \in 1..N
      <4>1. since[g] < since[h] /\ st.groups[g].agent # st.groups[h].agent
        BY <1>5, <3>1, <3>2 DEF N
      <4>. QED  BY <2>3, <2>4, <3>1, <3>2, <4>1
    <3>3. CASE h = N + 1
      BY <1>4, <1>9, <1>11, <2>1, <2>3, <2>4, <3>1, <3>3 DEF N
    <3>. QED  BY <2>5, <3>2, <3>3
  <2>10. \A i \in Starts(lines) : i <= m => \E g \in 1..N + 1 : gs[g].agent = NamedAt(lines)[i] /\ s2[g] <= i
    <3> SUFFICES ASSUME NEW i \in Starts(lines), i <= m
                 PROVE  \E g \in 1..N + 1 : gs[g].agent = NamedAt(lines)[i] /\ s2[g] <= i
      OBVIOUS
    <3>1. CASE i <= n
      <4>1. PICK g \in 1..N : st.groups[g].agent = NamedAt(lines)[i] /\ since[g] <= i
        BY <1>5, <3>1 DEF N
      <4>. QED  BY <2>3, <2>4, <2>5, <4>1
    <3>2. CASE i = m
      BY <1>3, <2>1, <2>3, <2>4, <2>5, <3>2 DEF m
    <3>. QED  BY <1>7, <3>1, <3>2
  <2>11. \A x : IsIn(new.current, x) <=> \E g \in 1..N + 1 : gs[g].agent = x
    <3> TAKE x
    <3>1. IsIn(new.current, x) <=> (\E g \in 1..N : st.groups[g].agent = x) \/ x = a
      BY <1>5, <1>8, <2>7 DEF N
    <3>2. (\E g \in 1..N : st.groups[g].agent = x) => \E g \in 1..N + 1 : gs[g].agent = x
      BY <2>3, <2>5
    <3>3. x = a => \E g \in 1..N + 1 : gs[g].agent = x
      BY <2>1, <2>3, <2>5
    <3>4. ASSUME NEW g \in 1..N + 1, gs[g].agent = x
          PROVE  (\E h \in 1..N : st.groups[h].agent = x) \/ x = a
      BY <2>1, <2>3, <2>5, <3>4
    <3>. QED  BY <3>1, <3>2, <3>3, <3>4
  <2>12. ParsedTo(lines, m, new, s2)
    BY <1>8, <2>2, <2>3, <2>4, <2>7, <2>8, <2>9, <2>10, <2>11 DEF ParsedTo
  <2>. QED  BY <1>1, <2>12 DEF m
<1>. QED  BY <1>10, <1>11

\* What a rule does to groups that are all current.
Ruled(groups, current, line) ==
    [i \in DOMAIN groups |->
        IF \E j \in DOMAIN current : current[j] = groups[i].agent THEN With(groups[i], line) ELSE groups[i]]

AllCurrent(lines, n, groups, current, since) ==
    /\ groups \in Seq(GroupsFor(lines)) /\ since \in [1..Len(groups) -> 1..n + 1]
    /\ \A g \in 1..Len(groups) : IsIn(current, groups[g].agent) /\ Holds(lines, since[g], n, groups[g])

AllRuled(lines, n, groups, since, new) ==
    /\ new \in Seq(GroupsFor(lines)) /\ Len(new) = Len(groups)
    /\ \A g \in 1..Len(groups) : /\ new[g].agent = groups[g].agent
                                 /\ Holds(lines, since[g], n + 1, new[g])

LEMMA AllGroupsRule ==
    ASSUME NEW lines, IsLines(lines), NEW n \in Nat, n + 1 \in 1..Len(lines), IsRule(lines[n + 1]),
           NEW groups, NEW current, NEW since, AllCurrent(lines, n, groups, current, since)
    PROVE  AllRuled(lines, n, groups, since, Ruled(groups, current, lines[n + 1]))
<1> DEFINE N == Len(groups)
           new == Ruled(groups, current, lines[n + 1])
<1> USE DEF AllCurrent
<1>1. N \in Nat /\ DOMAIN groups = 1..N /\ \A g \in 1..N : groups[g] \in GroupsFor(lines)
  BY LenProperties, ElementOfSeq
<1>2. new = [g \in 1..N |-> With(groups[g], lines[n + 1])]
  BY <1>1 DEF IsIn, Ruled
<1>3. ASSUME NEW g \in 1..N
      PROVE  /\ With(groups[g], lines[n + 1]) \in GroupsFor(lines)
             /\ With(groups[g], lines[n + 1]).agent = groups[g].agent
             /\ Holds(lines, since[g], n + 1, With(groups[g], lines[n + 1]))
  <2>1. since[g] \in 1..n + 1 /\ groups[g] \in GroupsFor(lines)
    BY <1>1
  <2>. QED  BY <2>1, HoldsNext
<1>4. DOMAIN new = 1..N /\ \A g \in 1..N : new[g] = With(groups[g], lines[n + 1])
  BY <1>2
<1>5. new \in Seq(GroupsFor(lines)) /\ Len(new) = N
  BY <1>1, <1>2, <1>3
<1> HIDE DEF new
<1>6. AllRuled(lines, n, groups, since, new)
  BY <1>3, <1>4, <1>5 DEF AllRuled
<1>. QED  BY <1>6 DEF new

\* A rule adds to the groups of the current agents, which are all there are.
LEMMA RuleLineKeeps ==
    ASSUME NEW lines, IsLines(lines), NEW n \in Nat, n + 1 \in 1..Len(lines), NEW st, NEW since,
           ParsedTo(lines, n, st, since), lines[n + 1].key # "user-agent"
    PROVE  \E s2 : ParsedTo(lines, n + 1, LineStep(st, lines[n + 1]), s2)
<1> DEFINE m == n + 1
           line == lines[m]
           N == Len(st.groups)
           new == LineStep(st, line)
<1>1. new = Rule(st, line) /\ IsRule(line)
  BY DEF LineStep, IsRule
<1>2. /\ NamedAt(lines)[m] = Star /\ Star \in Agents
      /\ m \in Starts(lines) <=> \A j \in 1..m : IsRule(lines[j])
  BY <1>1, StartsAre, RobotsAssumption
<1>3. /\ N \in Nat /\ DOMAIN st.groups = 1..N
      /\ \A g \in 1..N : /\ st.groups[g] \in GroupsFor(lines) /\ st.groups[g].agent \in Agents
                         /\ since[g] \in 1..n
      /\ Len(st.current) \in Nat /\ DOMAIN st.current = 1..Len(st.current)
  BY ParsedIs
<1>4. /\ since \in [1..N -> 1..n] /\ st.groups \in Seq(GroupsFor(lines)) /\ st.current \in Seq(Agents)
      /\ \A g \in 1..N : /\ since[g] \in Starts(lines) /\ NamedAt(lines)[since[g]] = st.groups[g].agent
                         /\ Holds(lines, since[g], n, st.groups[g])
      /\ \A g, h \in 1..N : g < h => since[g] < since[h] /\ st.groups[g].agent # st.groups[h].agent
      /\ \A i \in Starts(lines) : i <= n =>
            \E g \in 1..N : st.groups[g].agent = NamedAt(lines)[i] /\ since[g] <= i
      /\ \A x : IsIn(st.current, x) <=> \E g \in 1..N : st.groups[g].agent = x
  BY DEF ParsedTo
<1>5. 1 \in Starts(lines) /\ 1 \in 1..Len(lines)
  <2>1. 1 \in 1..Len(lines) /\ \A j \in 1..1 : j = 1
    BY DEF IsLines
  <2>. QED  BY <2>1, StartsAre
<1>6. \A i \in Starts(lines) : i <= m => i \in Nat /\ (i <= n \/ i = m)
  <2> SUFFICES ASSUME NEW i \in Starts(lines)
               PROVE  i <= m => i \in Nat /\ (i <= n \/ i = m)
    OBVIOUS
  <2>1. i \in Nat
    BY <1>5, StartsAre
  <2>. QED  BY <2>1
<1>7. m \in 1..m /\ \A i \in 1..n : i \in 1..m /\ i < m /\ i <= m
  OBVIOUS
<1>8. CASE st.current # <<>>
  <2>1. PICK agent : IsIn(st.current, agent)
    <3>1. 1 \in DOMAIN st.current
      BY <1>3, <1>4, <1>8, EmptySeq
    <3>. QED  BY <3>1 DEF IsIn
  <2>2. n \in Nat \ {0}
    BY <1>3, <1>4, <2>1
  <2>3. /\ new.current = st.current
        /\ new.groups = Ruled(st.groups, st.current, line)
    BY <1>1, <1>8 DEF Rule, Ruled
  <2>4. since \in [1..N -> 1..n + 1] /\ since \in [1..N -> 1..m]
    BY <1>4, <1>7
  <2>5. \A g \in 1..N : IsIn(st.current, st.groups[g].agent) /\ Holds(lines, since[g], n, st.groups[g])
    BY <1>4
  <2>6. /\ new.groups \in Seq(GroupsFor(lines)) /\ Len(new.groups) = N
        /\ \A g \in 1..N : /\ new.groups[g].agent = st.groups[g].agent
                           /\ Holds(lines, since[g], m, new.groups[g])
    <3>1. st.groups \in Seq(GroupsFor(lines)) /\ new.groups = Ruled(st.groups, st.current, lines[n + 1])
      BY <1>4, <2>3
    <3>2. \A g \in 1..Len(st.groups) : IsIn(st.current, st.groups[g].agent)
      BY <2>5
    <3>3. \A g \in 1..Len(st.groups) : Holds(lines, since[g], n, st.groups[g])
      BY <2>5
    <3>4. since \in [1..Len(st.groups) -> 1..n + 1] /\ IsRule(lines[n + 1])
      BY <1>1, <2>4
    <3>5. AllCurrent(lines, n, st.groups, st.current, since)
      BY <3>1, <3>2, <3>3, <3>4 DEF AllCurrent
    <3>6. AllRuled(lines, n, st.groups, since, Ruled(st.groups, st.current, lines[n + 1]))
      BY <3>4, <3>5, AllGroupsRule
    <3>7. AllRuled(lines, n, st.groups, since, new.groups)
      BY <3>1, <3>6
    <3> HIDE DEF new
    <3>. QED  BY <3>7 DEF AllRuled
  <2>7. \A i \in Starts(lines) : i <= m => \E g \in 1..N : st.groups[g].agent = NamedAt(lines)[i] /\ since[g] <= i
    <3> SUFFICES ASSUME NEW i \in Starts(lines), i <= m
                 PROVE  \E g \in 1..N : st.groups[g].agent = NamedAt(lines)[i] /\ since[g] <= i
      OBVIOUS
    <3>1. CASE i <= n
      BY <1>4, <3>1
    <3>2. CASE i = m
      <4>1. IsRule(lines[1]) /\ 1 <= n
        BY <1>2, <1>7, <2>2, <3>2
      <4>2. NamedAt(lines)[1] = Star
        BY <1>5, <4>1, StartsAre
      <4>3. PICK g \in 1..N : st.groups[g].agent = Star /\ since[g] <= 1
        BY <1>4, <1>5, <4>1, <4>2
      <4>4. since[g] <= i
        BY <1>3, <3>2, <4>1, <4>3
      <4>. QED  BY <1>2, <3>2, <4>3, <4>4
    <3>. QED  BY <1>6, <3>1, <3>2
  <2> HIDE DEF new, m, N
  <2>8. \A g \in 1..N : /\ since[g] \in Starts(lines) /\ NamedAt(lines)[since[g]] = new.groups[g].agent
                         /\ Holds(lines, since[g], m, new.groups[g])
    BY <1>4, <2>6 DEF N
  <2>9. \A g, h \in 1..N : g < h => since[g] < since[h] /\ new.groups[g].agent # new.groups[h].agent
    <3> SUFFICES ASSUME NEW g \in 1..N, NEW h \in 1..N, g < h
                 PROVE  since[g] < since[h] /\ new.groups[g].agent # new.groups[h].agent
      OBVIOUS
    <3>1. since[g] < since[h] /\ st.groups[g].agent # st.groups[h].agent
      BY <1>4 DEF N
    <3>. QED  BY <2>6, <3>1
  <2>10. \A i \in Starts(lines) : i <= m => \E g \in 1..N : new.groups[g].agent = NamedAt(lines)[i] /\ since[g] <= i
    BY <2>6, <2>7
  <2>11. \A x : IsIn(new.current, x) <=> \E g \in 1..N : new.groups[g].agent = x
    <3> TAKE x
    <3>1. IsIn(new.current, x) <=> \E g \in 1..N : st.groups[g].agent = x
      BY <1>4, <2>3 DEF N
    <3>. QED  BY <2>6, <3>1
  <2>12. ParsedTo(lines, m, new, since)
    BY <1>4, <2>3, <2>4, <2>6, <2>8, <2>9, <2>10, <2>11 DEF ParsedTo
  <2>. QED  BY <2>12 DEF new, m
<1>9. CASE st.current = <<>>
  <2>1. \A x : ~IsIn(st.current, x)
    BY <1>9 DEF IsIn
  <2>2. N = 0
    <3>1. ASSUME NEW g \in 1..N
          PROVE  FALSE
      <4>1. IsIn(st.current, st.groups[g].agent)
        BY <1>4
      <4>. QED  BY <2>1, <4>1
    <3>2. N \in Nat
      BY <1>3
    <3> HIDE DEF N
    <3>3. N # 0 => 1 \in 1..N
      BY <3>2
    <3>. QED  BY <3>1, <3>3
  <2>3. n = 0
    <3>1. ~(1 <= n)
      BY <1>4, <1>5, <2>2
    <3>. QED  BY <3>1
  <2> DEFINE old == <<Group(Star)>>
             cur == <<Star>>
             s2 == [g \in 1..1 |-> 1]
  <2>4. st.groups = <<>>
    BY <1>4, <2>2, EmptySeq
  <2>5. /\ new.current = cur
        /\ new.groups = Ruled(old, cur, line)
    <3>1. Ensure(st.groups, Star) = old
      BY <2>4 DEF Ensure
    <3>. QED  BY <1>1, <1>9, <3>1 DEF Rule, Ruled
  <2>6. /\ Group(Star) \in GroupsFor(lines) /\ Group(Star).agent = Star
        /\ Holds(lines, n + 1, n, Group(Star))
    BY <1>2, GroupAdded
  <2>7. /\ old \in Seq(GroupsFor(lines)) /\ Len(old) = 1 /\ old[1] = Group(Star)
        /\ cur \in Seq(Agents) /\ \A x : IsIn(cur, x) <=> x = Star
    BY <1>2, <2>6 DEF IsIn
  <2>8. s2 \in [1..1 -> 1..n + 1] /\ s2[1] = 1 /\ n + 1 = 1
    BY <2>3
  <2>9. \A g \in 1..1 : g = 1
    OBVIOUS
  <2> HIDE DEF new, old, cur, s2
  <2>10. /\ new.groups \in Seq(GroupsFor(lines)) /\ Len(new.groups) = 1
         /\ \A g \in 1..1 : /\ new.groups[g].agent = old[g].agent
                            /\ Holds(lines, s2[g], n + 1, new.groups[g])
    <3>1. \A g \in 1..1 : IsIn(cur, old[g].agent) /\ Holds(lines, s2[g], n, old[g])
      BY <2>6, <2>7, <2>8, <2>9
    <3>2. old \in Seq(GroupsFor(lines)) /\ new.groups = Ruled(old, cur, lines[n + 1])
      BY <2>5, <2>7
    <3>3. /\ \A g \in 1..Len(old) : IsIn(cur, old[g].agent)
          /\ \A g \in 1..Len(old) : Holds(lines, s2[g], n, old[g])
          /\ s2 \in [1..Len(old) -> 1..n + 1] /\ IsRule(lines[n + 1])
      BY <1>1, <2>7, <2>8, <3>1
    <3>4. /\ new.groups \in Seq(GroupsFor(lines)) /\ Len(new.groups) = Len(old)
          /\ \A g \in 1..Len(old) : /\ new.groups[g].agent = old[g].agent
                                     /\ Holds(lines, s2[g], n + 1, new.groups[g])
      <4>1. AllCurrent(lines, n, old, cur, s2)
        BY <3>2, <3>3 DEF AllCurrent
      <4>2. IsRule(lines[n + 1])
        BY <3>3
      <4>3. AllRuled(lines, n, old, s2, Ruled(old, cur, lines[n + 1]))
        BY <4>1, <4>2, AllGroupsRule
      <4>4. AllRuled(lines, n, old, s2, new.groups)
        BY <3>2, <4>3
      <4>. QED  BY <4>4 DEF AllRuled
    <3>. QED  BY <2>7, <3>4
  <2>11. 1 \in 1..1 /\ new.groups[1].agent = Star /\ Holds(lines, s2[1], n + 1, new.groups[1])
    BY <2>6, <2>7, <2>10
  <2>12. NamedAt(lines)[1] = Star
    BY <1>2, <2>8
  <2>13. \A i \in Starts(lines) : i <= n + 1 => i = 1
    BY <1>6, <2>3, StartsAre
  <2>14. \A g \in 1..1 : /\ s2[g] \in Starts(lines) /\ NamedAt(lines)[s2[g]] = new.groups[g].agent
                          /\ Holds(lines, s2[g], n + 1, new.groups[g])
    BY <1>5, <2>8, <2>9, <2>11, <2>12
  <2>15. \A g, h \in 1..1 : g < h => s2[g] < s2[h] /\ new.groups[g].agent # new.groups[h].agent
    OBVIOUS
  <2>16. \A i \in Starts(lines) : i <= n + 1 => \E g \in 1..1 : new.groups[g].agent = NamedAt(lines)[i] /\ s2[g] <= i
    <3>1. 1 <= 1
      OBVIOUS
    <3>. QED  BY <2>8, <2>11, <2>12, <2>13, <3>1
  <2>17. \A x : IsIn(new.current, x) <=> \E g \in 1..1 : new.groups[g].agent = x
    BY <2>5, <2>7, <2>9, <2>11
  <2>18. ParsedTo(lines, n + 1, new, s2)
    BY <2>5, <2>7, <2>8, <2>10, <2>14, <2>15, <2>16, <2>17 DEF ParsedTo
  <2>. QED  BY <2>18 DEF new
<1>. QED  BY <1>8, <1>9

ParseStates(lines) == [current : Seq(Agents), groups : Seq(GroupsFor(lines))]

LEMMA WithTyped ==
    ASSUME NEW lines, IsLines(lines), NEW n \in 1..Len(lines), IsRule(lines[n]), NEW group \in GroupsFor(lines)
    PROVE  With(group, lines[n]) \in GroupsFor(lines)
<1> DEFINE line == lines[n]
<1>1. /\ line.key \in {"allow", "disallow", "crawl-delay"}
      /\ line.key \in {"allow", "disallow"} => line.value \in Patterns
      /\ line.value \in Delays(lines)
  BY DEF IsLines, Delays, IsRule
<1>2. group.allow \in Seq(Patterns) /\ group.disallow \in Seq(Patterns)
  BY DEF GroupsFor
<1> HIDE DEF line
<1>3. CASE line.key = "allow"
  <2>1. Append(group.allow, line.value) \in Seq(Patterns)
    BY <1>1, <1>2, <1>3, AppendProperties
  <2>. QED  BY <1>3, <2>1 DEF With, GroupsFor, line
<1>4. CASE line.key = "disallow"
  <2>1. Append(group.disallow, line.value) \in Seq(Patterns)
    BY <1>1, <1>2, <1>4, AppendProperties
  <2>. QED  BY <1>4, <2>1 DEF With, GroupsFor, line
<1>5. CASE line.key = "crawl-delay"
  BY <1>1, <1>5 DEF With, GroupsFor, line
<1>. QED  BY <1>1, <1>3, <1>4, <1>5

LEMMA LineTyped ==
    ASSUME NEW lines, IsLines(lines), NEW n \in 1..Len(lines), NEW st \in ParseStates(lines)
    PROVE  LineStep(st, lines[n]) \in ParseStates(lines)
<1> DEFINE line == lines[n]
           Ensured(a) == Ensure(st.groups, a)
<1>1. st.current \in Seq(Agents) /\ st.groups \in Seq(GroupsFor(lines)) /\ Star \in Agents
  BY RobotsAssumption DEF ParseStates
<1>2. ASSUME NEW agent \in Agents
      PROVE  Ensured(agent) \in Seq(GroupsFor(lines))
  <2>1. Group(agent) \in GroupsFor(lines)
    BY GroupAdded
  <2>. QED  BY <1>1, <2>1, AppendProperties DEF Ensure
<1>3. CASE line.key = "user-agent"
  <2>1. line.value \in Agents
    BY <1>3 DEF IsLines
  <2>2. Append(st.current, line.value) \in Seq(Agents) /\ Ensured(line.value) \in Seq(GroupsFor(lines))
    BY <1>1, <1>2, <2>1, AppendProperties
  <2>. QED  BY <1>3, <2>2 DEF LineStep, CurrentAfter, ParseStates
<1>4. CASE line.key # "user-agent"
  <2> DEFINE current == IF st.current = <<>> THEN <<Star>> ELSE st.current
             groups == IF st.current = <<>> THEN Ensured(Star) ELSE st.groups
             N == Len(groups)
             new == Ruled(groups, current, line)
  <2>1. current \in Seq(Agents) /\ groups \in Seq(GroupsFor(lines))
    BY <1>1, <1>2
  <2>2. LineStep(st, line) = [current |-> current, groups |-> new]
    BY <1>4 DEF LineStep, Rule, Ruled
  <2> HIDE DEF groups, current
  <2>3. N \in Nat /\ DOMAIN groups = 1..N /\ \A g \in 1..N : groups[g] \in GroupsFor(lines)
    BY <2>1, LenProperties, ElementOfSeq
  <2>4. \A g \in 1..N : With(groups[g], line) \in GroupsFor(lines)
    <3> TAKE g \in 1..N
    <3>. QED  BY <1>4, <2>3, WithTyped DEF IsRule
  <2>5. new \in Seq(GroupsFor(lines))
    BY <2>3, <2>4 DEF Ruled
  <2>. QED  BY <2>1, <2>2, <2>5 DEF ParseStates
<1>. QED  BY <1>3, <1>4

\* parse() looks at one line after the other.
LEMMA ParseIs ==
    ASSUME NEW lines, IsLines(lines)
    PROVE  \E st, since : /\ ParsedTo(lines, Len(lines), st, since)
                          /\ Parse(lines) = IF st.groups = <<>> THEN <<Group(Star)>> ELSE st.groups
<1> DEFINE N == Len(lines)
           Step(st, line) ==
               IF line.key = "user-agent"
               THEN [current |-> CurrentAfter(st.current, line.value), groups |-> Ensure(st.groups, line.value)]
               ELSE Rule(st, line)
           After(f) == [n \in 0..Len(lines) |->
                            IF n = 0 THEN [current |-> <<>>, groups |-> <<>>] ELSE Step(f[n - 1], lines[n])]
           after == CHOOSE f : f = After(f)
           first == [current |-> <<>>, groups |-> <<>>]
           step == [n \in 1..N |-> [st \in ParseStates(lines) |-> LineStep(st, lines[n])]]
<1>1. Parse(lines) = IF after[N].groups = <<>> THEN <<Group(Star)>> ELSE after[N].groups
  BY DEF Parse
<1>2. N \in Nat
  BY DEF IsLines
<1>3. \A n \in 1..N : \A st \in ParseStates(lines) : LineStep(st, lines[n]) \in ParseStates(lines)
  BY LineTyped
<1>4. first \in ParseStates(lines)
  BY DEF ParseStates
<1>5. \E g : g = After(g)
  <2>1. step \in StepsOn(N, ParseStates(lines))
    BY <1>3 DEF StepsOn
  <2>2. PICK g : Follows(g, N, ParseStates(lines), first, step)
    <3> HIDE DEF step, N, first
    <3>. QED  BY <1>2, <1>4, <2>1, RecursionExists
  <2>3. \A n \in 0..N : g[n] = After(g)[n]
    <3> SUFFICES ASSUME NEW n \in 0..N
                 PROVE  g[n] = After(g)[n]
      OBVIOUS
    <3>1. CASE n = 0
      BY <2>2, <3>1 DEF Follows
    <3>2. CASE n # 0
      <4>1. n \in 1..N /\ n - 1 \in 0..N
        BY <1>2, <3>2
      <4>2. g[n - 1] \in ParseStates(lines)
        BY <2>2, <4>1 DEF Follows
      <4>3. g[n] = LineStep(g[n - 1], lines[n])
        BY <2>2, <4>1, <4>2 DEF Follows
      <4>. QED  BY <3>2, <4>1, <4>3 DEF LineStep
    <3>. QED  BY <3>1, <3>2
  <2>4. g \in [0..N -> ParseStates(lines)]
    BY <2>2 DEF Follows
  <2> HIDE DEF Step
  <2>. QED  BY <2>3, <2>4
<1>6. after = After(after)
  <2> HIDE DEF After
  <2>. QED  BY <1>5
<1> HIDE DEF after
<1> DEFINE T == {n \in 0..N : \E since : ParsedTo(lines, n, after[n], since)}
<1>7. 0 \in T
  <2>1. after[0] = first /\ 0 \in 0..N
    BY <1>2, <1>6
  <2> DEFINE none == [g \in 1..0 |-> 1]
  <2>2. /\ first.groups = <<>> /\ first.current = <<>> /\ Len(first.groups) = 0
        /\ <<>> \in Seq(GroupsFor(lines)) /\ <<>> \in Seq(Agents)
        /\ none \in [1..0 -> 1..0] /\ \A g \in 1..0 : FALSE
        /\ \A x : ~IsIn(<<>>, x)
    BY DEF IsIn
  <2>3. \A i \in Starts(lines) : ~(i <= 0)
    BY <1>2 DEF Starts, IsLines
  <2> HIDE DEF first, none
  <2>4. ParsedTo(lines, 0, first, none)
    BY <2>2, <2>3 DEF ParsedTo
  <2>. QED  BY <2>1, <2>4
<1>8. ASSUME NEW n \in 0..N, n \in T, n < N
      PROVE  n + 1 \in T
  <2>1. n + 1 \in 1..N /\ (n + 1) - 1 = n /\ n + 1 \in 0..N /\ n + 1 # 0 /\ n \in Nat
    BY <1>2, <1>8
  <2>2. after[n + 1] = LineStep(after[n], lines[n + 1])
    <3>1. after[n + 1] = After(after)[n + 1]
      BY <1>6
    <3>. QED  BY <2>1, <3>1 DEF LineStep
  <2>3. PICK since : ParsedTo(lines, n, after[n], since)
    BY <1>8
  <2>4. \E s2 : ParsedTo(lines, n + 1, after[n + 1], s2)
    BY <2>1, <2>2, <2>3, AgentLineKeeps, RuleLineKeeps
  <2>. QED  BY <2>1, <2>4
<1>9. \A n \in 0..N : n \in T
  <2> HIDE DEF T, N
  <2>. QED  BY <1>2, <1>7, <1>8, UpTo
<1>10. N \in 0..N
  BY <1>2
<1>. QED  BY <1>1, <1>9, <1>10

\* Robots.txt from a line on, whoever its rules are for.
AllowedFrom(lines, start) == AllowedBy(lines, {k \in start..Len(lines) : k > 0})
DelayFrom(lines, start) == IF start = 0 THEN NoDelay ELSE DelayBy(lines, {k \in start..Len(lines) : k > 0})

LEMMA PermitsIs ==
    ASSUME NEW lines, IsLines(lines), NEW from \in Nat \ {0}, NEW group, Holds(lines, from, Len(lines), group)
    PROVE  Permits(group) <=> AllowedFrom(lines, from)
<1> DEFINE Patterned(key) == Lengths(lines, {k \in from..Len(lines) : k > 0}, key)
           Said(list) == {list[i] : i \in DOMAIN list} \ {NoMatch, 0}
<1>1. AllowedFrom(lines, from) <=> \A d \in Patterned("disallow") : \E a \in Patterned("allow") : a >= d
  BY DEF AllowedFrom, AllowedBy
<1>2. Permits(group) <=> \A d \in Said(group.disallow) : \E a \in Said(group.allow) : a >= d
  BY DEF Permits
<1>3. \A key : \A x : x \in Patterned(key) <=> /\ x \notin {NoMatch, 0}
                                              /\ \E k \in from..Len(lines) : lines[k].key = key /\ lines[k].value = x
  <2>1. \A k \in from..Len(lines) : k > 0
    BY DEF IsLines
  <2>. QED  BY <2>1 DEF Lengths
<1>4. \A list, x : x \in Said(list) <=> x \notin {NoMatch, 0} /\ IsIn(list, x)
  BY DEF IsIn
<1> HIDE DEF Patterned, Said
<1>5. \A x : /\ x \in Said(group.allow) <=> x \in Patterned("allow")
             /\ x \in Said(group.disallow) <=> x \in Patterned("disallow")
  BY <1>3, <1>4 DEF Holds
<1>. QED  BY <1>1, <1>2, <1>5

LEMMA DelayIs ==
    ASSUME NEW lines, IsLines(lines), NEW from \in Nat \ {0}, NEW group, Holds(lines, from, Len(lines), group)
    PROVE  DelayFrom(lines, from) = group.crawl_delay
<1> DEFINE at == DelaysAt(lines, {k \in from..Len(lines) : k > 0})
<1>1. DelayFrom(lines, from) = IF at = {} THEN NoDelay ELSE lines[CHOOSE i \in at : \A j \in at : j <= i].value
  BY DEF DelayFrom, DelayBy
<1>2. /\ at \subseteq from..Len(lines)
      /\ \A k \in from..Len(lines) : k \in Nat /\ (k \in at <=> lines[k].key = "crawl-delay")
  BY DEF IsLines, DelaysAt
<1>3. CASE group.crawl_delay = NoDelay /\ \A k \in from..Len(lines) : lines[k].key # "crawl-delay"
  BY <1>1, <1>2, <1>3
<1>4. CASE \E k \in from..Len(lines) : /\ lines[k].key = "crawl-delay" /\ lines[k].value = group.crawl_delay
                                       /\ \A j \in from..Len(lines) : k < j => lines[j].key # "crawl-delay"
  <2>1. PICK k \in from..Len(lines) : /\ lines[k].key = "crawl-delay" /\ lines[k].value = group.crawl_delay
                                      /\ \A j \in from..Len(lines) : k < j => lines[j].key # "crawl-delay"
    BY <1>4
  <2>2. k \in at
    BY <1>2, <2>1
  <2>3. \A j \in at : j \in Nat /\ j <= k
    <3> TAKE j \in at
    <3>1. j \in from..Len(lines) /\ j \in Nat /\ k \in Nat /\ lines[j].key = "crawl-delay"
      BY <1>2
    <3>. QED  BY <2>1, <3>1
  <2> HIDE DEF at
  <2>4. k = CHOOSE i \in at : \A j \in at : j <= i
    <3>1. \A i \in at : (\A j \in at : j <= i) => i = k
      BY <2>2, <2>3
    <3>. QED  BY <2>2, <2>3, <3>1
  <2>. QED  BY <1>1, <2>1, <2>2, <2>4
<1>. QED  BY <1>3, <1>4 DEF Holds

\* What the parsed groups answer is what the lines mean, for any lines.
Obeys(lines, allowed, delay) ==
    LET start == StartOfOurs(lines)
        first == IF Starts(lines) = {} THEN Len(lines) + 1 ELSE Min(Starts(lines))
    IN  /\ allowed <=> AllowedFrom(lines, IF start = 0 THEN first ELSE start)
        /\ delay = DelayFrom(lines, start)

LEMMA NoLinesObeyed ==
    ASSUME NEW lines, IsLines(lines), Len(lines) = 0, NEW groups, groups = <<Group(Star)>>
    PROVE  Obeys(lines, IsAllowed(groups), CrawlDelay(groups))
<1>1. Starts(lines) = {} /\ StartOfOurs(lines) = 0
  <2>1. Starts(lines) = {}
    BY DEF Starts, IsLines
  <2>. QED  BY <2>1 DEF StartOfOurs
<1>2. /\ Group(Star).agent = Star /\ Group(Star).crawl_delay = NoDelay
      /\ Group(Star).allow = <<>> /\ Group(Star).disallow = <<>>
  BY DEF Group
<1>3. Len(groups) = 1 /\ groups[1] = Group(Star) /\ \A i \in 1..1 : groups[i].agent \in Agents
  BY <1>2, RobotsAssumption
<1>4. BestGroup(groups) = 1
  <2>1. IsBest(groups, 1, BestGroup(groups))
    BY <1>3, BestGroupIs
  <2>2. 1 \in 1..1 /\ Applies(groups, 1)
    BY <1>2, <1>3 DEF Applies
  <2>. QED  BY <2>1, <2>2 DEF IsBest
<1>5. IsAllowed(groups) <=> Permits(Group(Star))
  <2>1. Group(Star).allow \in Seq(Patterns) /\ Group(Star).disallow \in Seq(Patterns)
    BY <1>2
  <2>. QED  BY <1>3, <1>4, <2>1, MostSpecificIs DEF IsAllowed
<1>6. Permits(Group(Star))
  BY <1>2 DEF Permits
<1>7. AllowedFrom(lines, 1)
  BY DEF AllowedFrom, AllowedBy, Lengths
<1>8. DelayFrom(lines, 0) = NoDelay
  BY DEF DelayFrom
<1>9. CrawlDelay(groups) = NoDelay
  BY <1>2, <1>3, <1>4 DEF CrawlDelay
<1>. QED  BY <1>1, <1>5, <1>6, <1>7, <1>8, <1>9 DEF Obeys

\* The first line that names the longest token of ours is the one that started
\* the best group.
LEMMA StartIs ==
    ASSUME NEW lines, IsLines(lines), NEW st, NEW since, ParsedTo(lines, Len(lines), st, since),
           NEW b, IsBest(st.groups, Len(st.groups), b)
    PROVE  StartOfOurs(lines) = IF b = 0 THEN 0 ELSE since[b]
<1> DEFINE N == Len(st.groups)
           Named(i) == NamedAt(lines)[i]
           ours == {i \in Starts(lines) : Named(i) \in Contained \cup {Star}}
           Prec(i, j) == \/ Length[Named(i)] > Length[Named(j)]
                         \/ Length[Named(i)] = Length[Named(j)] /\ i < j
<1>1. StartOfOurs(lines) = IF ours = {} THEN 0 ELSE CHOOSE i \in ours : \A j \in ours \ {i} : Prec(i, j)
  BY DEF StartOfOurs
<1>2. \A i \in Starts(lines) : i \in 1..Len(lines) /\ i \in Nat /\ i <= Len(lines) /\ Length[Named(i)] \in Nat
  <2> SUFFICES ASSUME NEW i \in Starts(lines)
               PROVE  i \in 1..Len(lines) /\ i \in Nat /\ i <= Len(lines) /\ Length[Named(i)] \in Nat
    OBVIOUS
  <2>1. i \in 1..Len(lines)
    BY DEF Starts, IsLines
  <2>2. Named(i) \in Agents
    BY <2>1, StartsAre
  <2>. QED  BY <2>1, <2>2, RobotsAssumption DEF IsLines
<1>3. /\ \A g \in 1..N : since[g] \in Starts(lines) /\ Named(since[g]) = st.groups[g].agent
      /\ \A g, h \in 1..N : g < h => since[g] < since[h]
      /\ \A i \in Starts(lines) : i <= Len(lines) => \E g \in 1..N : st.groups[g].agent = Named(i) /\ since[g] <= i
  BY DEF ParsedTo
<1>4. N \in Nat /\ \A g \in 1..N : since[g] \in Nat
  <2>1. Len(lines) \in Nat
    BY DEF IsLines
  <2>2. N \in Nat /\ \A g \in 1..N : since[g] \in 1..Len(lines)
    BY <2>1, ParsedIs
  <2>. QED  BY <2>1, <2>2
<1>5. \A i \in ours : \E g \in 1..N : st.groups[g].agent = Named(i) /\ since[g] <= i /\ Applies(st.groups, g)
  BY <1>2, <1>3 DEF Applies
<1>6. CASE b = 0
  <2>1. \A g \in 1..N : ~Applies(st.groups, g)
    BY <1>6 DEF IsBest
  <2>2. ours = {}
    BY <1>5, <2>1
  <2>. QED  BY <1>1, <1>6, <2>2
<1>7. CASE b # 0
  <2> DEFINE k == since[b]
  <2>1. /\ b \in 1..N /\ Applies(st.groups, b)
        /\ \A i \in 1..N : Applies(st.groups, i) =>
              \/ Length[st.groups[i].agent] < Length[st.groups[b].agent]
              \/ Length[st.groups[i].agent] = Length[st.groups[b].agent] /\ b <= i
    BY <1>7 DEF IsBest
  <2>2. k \in ours /\ Named(k) = st.groups[b].agent
    BY <1>3, <2>1 DEF Applies
  <2>3. ASSUME NEW j \in ours, j # k
        PROVE  Prec(k, j)
    <3>1. PICK g \in 1..N : st.groups[g].agent = Named(j) /\ since[g] <= j /\ Applies(st.groups, g)
      BY <1>5
    <3>2. Length[Named(j)] < Length[Named(k)] \/ (Length[Named(j)] = Length[Named(k)] /\ b <= g)
      BY <2>1, <2>2, <3>1
    <3>3. b <= g => k < j
      <4>1. k \in Nat /\ since[g] \in Nat /\ j \in Nat /\ b \in Nat /\ g \in Nat
        BY <1>2, <1>4, <2>1
      <4>2. CASE b = g
        BY <2>3, <3>1, <4>1, <4>2
      <4>3. CASE b < g
        <5>1. k < since[g]
          BY <1>3, <2>1, <4>3
        <5> HIDE DEF k
        <5>. QED  BY <3>1, <4>1, <5>1
      <4>. QED  BY <4>1, <4>2, <4>3
    <3>4. Length[Named(j)] \in Nat /\ Length[Named(k)] \in Nat
      BY <1>2, <2>2
    <3> DEFINE lj == Length[Named(j)]
               lk == Length[Named(k)]
    <3>5. lk > lj \/ (lk = lj /\ k < j)
      <4> HIDE DEF lj, lk
      <4>. QED  BY <3>2, <3>3, <3>4 DEF lj, lk
    <3>. QED  BY <3>5
  <2>4. \A i, j \in ours : ~(Prec(i, j) /\ Prec(j, i))
    <3> SUFFICES ASSUME NEW i \in ours, NEW j \in ours
                 PROVE  ~(Prec(i, j) /\ Prec(j, i))
      OBVIOUS
    <3>1. i \in Nat /\ j \in Nat /\ Length[Named(i)] \in Nat /\ Length[Named(j)] \in Nat
      BY <1>2
    <3>. QED  BY <3>1
  <2> HIDE DEF Prec, ours, k
  <2>5. \A i \in ours : (\A j \in ours \ {i} : Prec(i, j)) => i = k
    BY <2>2, <2>3, <2>4
  <2>6. k = CHOOSE i \in ours : \A j \in ours \ {i} : Prec(i, j)
    BY <2>2, <2>3, <2>5
  <2>. QED  BY <1>1, <1>7, <2>2, <2>6 DEF k
<1>. QED  BY <1>6, <1>7

LEMMA LinesObeyed ==
    ASSUME NEW lines, IsLines(lines)
    PROVE  Obeys(lines, IsAllowed(Parse(lines)), CrawlDelay(Parse(lines)))
<1>1. PICK st, since : /\ ParsedTo(lines, Len(lines), st, since)
                       /\ Parse(lines) = IF st.groups = <<>> THEN <<Group(Star)>> ELSE st.groups
  BY ParseIs
<1> DEFINE N == Len(st.groups)
           M == Len(lines)
           groups == st.groups
           b == BestGroup(groups)
<1>2. M \in Nat /\ DOMAIN lines = 1..M
  BY DEF IsLines
<1>3. /\ N \in Nat /\ DOMAIN groups = 1..N
      /\ \A g \in 1..N : groups[g] \in GroupsFor(lines) /\ groups[g].agent \in Agents /\ since[g] \in 1..M
  BY <1>1, <1>2, ParsedIs
<1>4. CASE M = 0
  <2>1. N = 0
    <3>1. 1 \notin 1..N
      BY <1>3, <1>4
    <3> HIDE DEF N
    <3>. QED  BY <1>3, <3>1
  <2>2. groups = <<>>
    BY <1>1, <2>1, EmptySeq DEF ParsedTo
  <2>. QED  BY <1>1, <1>4, <2>2, NoLinesObeyed
<1>5. CASE M # 0
  <2>1. 1 \in Starts(lines) /\ \A i \in Starts(lines) : i \in 1..M
    <3>1. 1 \in 1..M /\ \A j \in 1..1 : j = 1
      BY <1>2, <1>5
    <3>. QED  BY <1>2, <3>1, StartsAre DEF Starts
  <2>2. PICK g \in 1..N : since[g] <= 1
    <3>1. 1 <= M
      BY <1>2, <1>5
    <3>. QED  BY <1>1, <2>1, <3>1 DEF ParsedTo
  <2>3. 1 \in 1..N /\ since[1] = 1
    <3>1. g \in Nat /\ 1 \in 1..N /\ since[g] = 1 /\ since[1] \in 1..M
      <4>1. 1 \in 1..N
        BY <1>3, <2>2
      <4>. QED  BY <1>2, <1>3, <2>2, <4>1
    <3>2. g = 1 \/ 1 < g
      BY <1>3, <2>2
    <3>3. 1 < g => since[1] < since[g]
      BY <1>1, <2>2, <3>1 DEF ParsedTo
    <3>. QED  BY <1>2, <3>1, <3>2, <3>3
  <2>4. Parse(lines) = groups
    <3>1. groups # <<>>
      BY <1>3, <2>3
    <3>. QED  BY <1>1, <3>1
  <2>5. IsBest(groups, N, b)
    BY <1>3, BestGroupIs
  <2>6. b = 0 \/ b \in 1..N
    BY <2>5 DEF IsBest
  <2>7. StartOfOurs(lines) = IF b = 0 THEN 0 ELSE since[b]
    BY <1>1, <2>5, StartIs
  <2>8. \A h \in 1..N : /\ MostSpecific(groups[h]).allow <=> AllowedFrom(lines, since[h])
                        /\ groups[h].crawl_delay = DelayFrom(lines, since[h])
    <3> SUFFICES ASSUME NEW h \in 1..N
                 PROVE  /\ MostSpecific(groups[h]).allow <=> AllowedFrom(lines, since[h])
                        /\ groups[h].crawl_delay = DelayFrom(lines, since[h])
      OBVIOUS
    <3>1. Holds(lines, since[h], M, groups[h])
      BY <1>1 DEF ParsedTo
    <3>2. since[h] \in Nat \ {0} /\ groups[h].allow \in Seq(Patterns) /\ groups[h].disallow \in Seq(Patterns)
      BY <1>2, <1>3 DEF GroupsFor
    <3>3. MostSpecific(groups[h]).allow <=> Permits(groups[h])
      BY <3>2, MostSpecificIs
    <3>. QED  BY <3>1, <3>2, <3>3, PermitsIs, DelayIs
  <2>9. Min(Starts(lines)) = 1
    <3>1. Starts(lines) \in SUBSET Nat /\ Starts(lines) # {}
      BY <1>2, <2>1
    <3>2. Min(Starts(lines)) \in Starts(lines) /\ Min(Starts(lines)) <= 1
      BY <2>1, <3>1, LeastIs
    <3>. QED  BY <1>2, <2>1, <3>2
  <2> HIDE DEF groups, b, N, M
  <2>10. CASE b = 0
    <3>1. IsAllowed(groups) <=> AllowedFrom(lines, 1)
      BY <2>3, <2>8, <2>10 DEF IsAllowed, b
    <3>2. CrawlDelay(groups) = NoDelay /\ DelayFrom(lines, 0) = NoDelay
      BY <2>10 DEF CrawlDelay, DelayFrom, b
    <3>. QED  BY <2>1, <2>4, <2>7, <2>9, <2>10, <3>1, <3>2 DEF Obeys
  <2>11. CASE b # 0
    <3>1. b \in 1..N /\ since[b] # 0
      BY <1>2, <1>3, <2>6, <2>11 DEF N, M
    <3>2. IsAllowed(groups) <=> AllowedFrom(lines, since[b])
      BY <2>8, <2>11, <3>1 DEF IsAllowed, b
    <3>3. CrawlDelay(groups) = DelayFrom(lines, since[b])
      BY <2>8, <2>11, <3>1 DEF CrawlDelay, b
    <3>. QED  BY <2>4, <2>7, <2>11, <3>1, <3>2, <3>3 DEF Obeys
  <2>. QED  BY <2>10, <2>11
<1>. QED  BY <1>4, <1>5

\* The line our group starts with is the first that names its agent, so that all
\* rules for that agent come after it.
LEMMA StartIsFirst ==
    ASSUME NEW lines, IsLines(lines), StartOfOurs(lines) # 0
    PROVE  /\ StartOfOurs(lines) \in Starts(lines)
           /\ \A i \in Starts(lines) :
                 NamedAt(lines)[i] = NamedAt(lines)[StartOfOurs(lines)] => StartOfOurs(lines) <= i
<1>1. PICK st, since : ParsedTo(lines, Len(lines), st, since)
  BY ParseIs
<1> DEFINE N == Len(st.groups)
           b == BestGroup(st.groups)
<1>2. Len(lines) \in Nat
  BY DEF IsLines
<1>3. N \in Nat /\ DOMAIN st.groups = 1..N /\ \A g \in 1..N : st.groups[g].agent \in Agents
  BY <1>1, <1>2, ParsedIs
<1>4. IsBest(st.groups, N, b)
  BY <1>3, BestGroupIs
<1> HIDE DEF b
<1>5. b \in 1..N /\ StartOfOurs(lines) = since[b]
  <2>1. StartOfOurs(lines) = IF b = 0 THEN 0 ELSE since[b]
    BY <1>1, <1>4, StartIs
  <2>. QED  BY <1>4, <2>1 DEF IsBest
<1>6. /\ \A g \in 1..N : since[g] \in Starts(lines) /\ NamedAt(lines)[since[g]] = st.groups[g].agent
      /\ \A g, h \in 1..N : g < h => st.groups[g].agent # st.groups[h].agent
      /\ \A i \in Starts(lines) : i <= Len(lines) =>
            \E g \in 1..N : st.groups[g].agent = NamedAt(lines)[i] /\ since[g] <= i
  BY <1>1 DEF ParsedTo
<1>7. ASSUME NEW i \in Starts(lines), NamedAt(lines)[i] = NamedAt(lines)[since[b]]
      PROVE  since[b] <= i
  <2>1. i \in 1..Len(lines)
    BY DEF Starts, IsLines
  <2>2. i <= Len(lines)
    BY <1>2, <2>1
  <2>3. PICK g \in 1..N : st.groups[g].agent = NamedAt(lines)[i] /\ since[g] <= i
    BY <1>6, <2>2
  <2>4. st.groups[g].agent = st.groups[b].agent
    BY <1>5, <1>6, <1>7, <2>3
  <2>5. ~(g < b) /\ ~(b < g)
    BY <1>5, <1>6, <2>4
  <2>6. g = b
    <3>1. g \in Nat /\ b \in Nat
      BY <1>3, <1>5
    <3>. QED  BY <2>5, <3>1
  <2>. QED  BY <2>3, <2>6
<1>. QED  BY <1>5, <1>6, <1>7

LEMMA RulesAfterStart ==
    ASSUME NEW lines, IsLines(lines), StartOfOurs(lines) # 0,
           NEW i \in RulesFor(lines, NamedAt(lines)[StartOfOurs(lines)])
    PROVE  i \in StartOfOurs(lines)..Len(lines) /\ IsRule(lines[i])
<1> DEFINE start == StartOfOurs(lines)
           agent == NamedAt(lines)[start]
           before == {k \in 1..i : ~IsRule(lines[k])}
           head == {k \in before : \A l \in before : \A m \in k..l : ~IsRule(lines[m])}
<1>1. Len(lines) \in Nat /\ DOMAIN lines = 1..Len(lines)
  BY DEF IsLines
<1>2. i \in 1..Len(lines) /\ IsRule(lines[i]) /\ agent \in AgentsOf(lines, i)
  BY <1>1 DEF RulesFor
<1>3. start \in 1..Len(lines) /\ \A k \in Starts(lines) : NamedAt(lines)[k] = agent => start <= k
  <2>1. start \in Starts(lines)
    BY StartIsFirst
  <2>. QED  BY <1>1, <2>1, StartIsFirst DEF Starts
<1>4. agent \in IF before = {} THEN {Star} ELSE {lines[k].value : k \in head}
  BY <1>2 DEF AgentsOf
<1>5. \A k \in 1..i : k \in 1..Len(lines)
  BY <1>1, <1>2
<1>6. CASE before = {}
  <2>1. 1 \in 1..Len(lines) /\ \A k \in 1..1 : k \in 1..i /\ IsRule(lines[k])
    <3>1. \A k \in 1..i : IsRule(lines[k])
      BY <1>6
    <3>2. 1 \in 1..Len(lines) /\ \A k \in 1..1 : k \in 1..i
      BY <1>1, <1>2
    <3>. QED  BY <3>1, <3>2
  <2>2. 1 \in 1..1
    OBVIOUS
  <2>3. IsRule(lines[1])
    BY <2>1, <2>2
  <2>4. 1 \in Starts(lines) /\ NamedAt(lines)[1] = Star
    BY <2>1, <2>3, StartsAre
  <2>5. start <= 1
    BY <1>3, <1>4, <1>6, <2>4
  <2> HIDE DEF start
  <2>. QED  BY <1>1, <1>2, <1>3, <2>5 DEF start
<1>7. CASE before # {}
  <2>1. PICK k \in before : lines[k].value = agent
    BY <1>4, <1>7
  <2>2. k \in 1..i /\ k \in 1..Len(lines) /\ ~IsRule(lines[k])
    BY <1>5
  <2>3. k \in Starts(lines) /\ NamedAt(lines)[k] = agent
    BY <2>1, <2>2, StartsAre
  <2>4. start <= k
    BY <1>3, <2>3
  <2> HIDE DEF start
  <2>. QED  BY <1>1, <1>2, <1>3, <2>2, <2>4 DEF start
<1>. QED  BY <1>6, <1>7

\* Rules of which none is as long as the longest of the others change nothing.
LEMMA ShorterRules ==
    ASSUME NEW lines, IsLines(lines), NEW ours \in SUBSET (1..Len(lines)), NEW strays \in SUBSET (1..Len(lines)),
           \/ Lengths(lines, strays, "allow") \cup Lengths(lines, strays, "disallow") = {}
           \/ \E o \in Lengths(lines, ours, "allow") \cup Lengths(lines, ours, "disallow") :
              \A x \in Lengths(lines, strays, "allow") \cup Lengths(lines, strays, "disallow") : o > x
    PROVE  AllowedBy(lines, ours \cup strays) <=> AllowedBy(lines, ours)
<1> DEFINE oa == Lengths(lines, ours, "allow")
           od == Lengths(lines, ours, "disallow")
           sa == Lengths(lines, strays, "allow")
           sd == Lengths(lines, strays, "disallow")
<1>1. \A rules \in SUBSET (1..Len(lines)) : Lengths(lines, rules, "allow") \subseteq Nat
                                            /\ Lengths(lines, rules, "disallow") \subseteq Nat
  BY DEF IsLines, Lengths, Patterns
<1>2. oa \subseteq Nat /\ od \subseteq Nat /\ sa \subseteq Nat /\ sd \subseteq Nat
  BY <1>1
<1>3. /\ Lengths(lines, ours \cup strays, "allow") = oa \cup sa
      /\ Lengths(lines, ours \cup strays, "disallow") = od \cup sd
  BY DEF Lengths
<1>4. /\ AllowedBy(lines, ours) <=> \A d \in od : \E a \in oa : a >= d
      /\ AllowedBy(lines, ours \cup strays) <=> \A d \in od \cup sd : \E a \in oa \cup sa : a >= d
  BY <1>3 DEF AllowedBy
<1> HIDE DEF oa, od, sa, sd
<1>5. CASE sa \cup sd = {}
  BY <1>4, <1>5
<1>6. CASE \E o \in oa \cup od : \A x \in sa \cup sd : o > x
  <2>1. PICK o \in oa \cup od : \A x \in sa \cup sd : o > x
    BY <1>6
  <2>2. o \in Nat
    BY <1>2
  <2>3. ASSUME \A d \in od : \E a \in oa : a >= d, NEW d \in od \cup sd
        PROVE  \E a \in oa \cup sa : a >= d
    <3>1. CASE d \in od
      BY <2>3, <3>1
    <3>2. CASE d \in sd
      <4>1. PICK a \in oa : a >= o
        BY <1>2, <2>3
      <4>2. a >= d
        BY <1>2, <2>1, <2>2, <3>2, <4>1
      <4>. QED  BY <4>2
    <3>. QED  BY <3>1, <3>2
  <2>4. ASSUME \A d \in od \cup sd : \E a \in oa \cup sa : a >= d, NEW d \in od
        PROVE  \E a \in oa : a >= d
    <3>1. PICK a \in oa \cup sa : a >= d
      BY <2>4
    <3>2. CASE a \in oa
      BY <3>1, <3>2
    <3>3. CASE a \in sa
      <4>1. o >= d
        BY <1>2, <2>1, <2>2, <3>1, <3>3
      <4>2. PICK c \in oa \cup sa : c >= o
        BY <1>2, <2>1, <2>2, <2>4
      <4>3. c \in oa /\ c >= d
        BY <1>2, <2>1, <2>2, <4>1, <4>2
      <4>. QED  BY <4>3
    <3>. QED  BY <3>2, <3>3
  <2>. QED  BY <1>4, <2>3, <2>4
<1>. QED  BY <1>5, <1>6 DEF oa, od, sa, sd

LEMMA EarlierDelays ==
    ASSUME NEW lines, IsLines(lines), NEW ours \in SUBSET (1..Len(lines)), NEW strays \in SUBSET (1..Len(lines)),
           \A x \in DelaysAt(lines, strays) : \E o \in DelaysAt(lines, ours) : o > x
    PROVE  DelayBy(lines, ours \cup strays) = DelayBy(lines, ours)
<1> DEFINE o == DelaysAt(lines, ours)
           x == DelaysAt(lines, strays)
           all == DelaysAt(lines, ours \cup strays)
<1>1. all = o \cup x /\ o \subseteq Nat /\ x \subseteq Nat
  <2>1. \A i \in 1..Len(lines) : i \in Nat
    OBVIOUS
  <2>. QED  BY <2>1 DEF DelaysAt
<1>2. /\ DelayBy(lines, ours) = IF o = {} THEN NoDelay ELSE lines[CHOOSE i \in o : \A j \in o : j <= i].value
      /\ DelayBy(lines, ours \cup strays) =
            IF all = {} THEN NoDelay ELSE lines[CHOOSE i \in all : \A j \in all : j <= i].value
  BY DEF DelayBy
<1> HIDE DEF o, x, all
<1>3. \A j \in x : \E i \in o : i > j
  BY DEF o, x
<1>4. CASE o = {}
  BY <1>1, <1>2, <1>3, <1>4
<1>5. CASE o # {}
  <2>1. \A i : (i \in all /\ \A j \in all : j <= i) <=> (i \in o /\ \A j \in o : j <= i)
    <3> SUFFICES ASSUME NEW i
                 PROVE  (i \in all /\ \A j \in all : j <= i) <=> (i \in o /\ \A j \in o : j <= i)
      OBVIOUS
    <3>1. ASSUME i \in all, \A j \in all : j <= i
          PROVE  i \in o /\ \A j \in o : j <= i
      <4>1. i \notin x
        <5> SUFFICES ASSUME i \in x
                     PROVE  FALSE
          OBVIOUS
        <5>1. PICK k \in o : k > i
          BY <1>3
        <5>. QED  BY <1>1, <3>1, <5>1
      <4>. QED  BY <1>1, <3>1, <4>1
    <3>2. ASSUME i \in o, \A j \in o : j <= i, NEW j \in all
          PROVE  j <= i
      <4>1. CASE j \in o
        BY <3>2, <4>1
      <4>2. CASE j \in x
        <5>1. PICK k \in o : k > j
          BY <1>3, <4>2
        <5>2. k <= i /\ k \in Nat /\ i \in Nat /\ j \in Nat
          BY <1>1, <3>2, <4>2
        <5>. QED  BY <5>1, <5>2
      <4>. QED  BY <1>1, <4>1, <4>2
    <3>. QED  BY <1>1, <3>1, <3>2
  <2>2. PICK k \in o : \A j \in o : j <= k
    <3>1. Len(lines) \in Nat /\ o \in SUBSET (1..Len(lines))
      BY DEF IsLines, DelaysAt, o
    <3>. QED  BY <1>5, <3>1, GreatestIs
  <2>3. \A i : i \in o /\ (\A j \in o : j <= i) => i = k
    BY <1>1, <2>2
  <2>4. k = CHOOSE i \in o : \A j \in o : j <= i
    BY <2>2, <2>3
  <2>5. k \in all /\ (\A j \in all : j <= k) /\ \A i : i \in all /\ (\A j \in all : j <= i) => i = k
    BY <2>1, <2>2, <2>3
  <2>6. k = CHOOSE i \in all : \A j \in all : j <= i
    BY <2>5
  <2>7. all # {}
    BY <1>1, <1>5
  <2>. QED  BY <1>2, <1>5, <2>4, <2>6, <2>7
<1>. QED  BY <1>4, <1>5

\* What robots.txt grants and what it asks for, by its own rules for our agent.
GroupsObeyed(lines, allowed, delay) ==
    LET start == StartOfOurs(lines)
        ours == RulesFor(lines, NamedAt(lines)[start])
        strays == {i \in start..Len(lines) : IsRule(lines[i])} \ ours
        LengthsOf(rules) == Lengths(lines, rules, "allow") \cup Lengths(lines, rules, "disallow")
    IN  IF start = 0 THEN delay = NoDelay
        ELSE /\ LengthsOf(strays) = {} \/ (\E o \in LengthsOf(ours) : \A x \in LengthsOf(strays) : o > x)
                    => (allowed <=> AllowedBy(lines, ours))
             /\ (\A x \in DelaysAt(lines, strays) : \E o \in DelaysAt(lines, ours) : o > x)
                    => delay = DelayBy(lines, ours)

LEMMA ObeysGroups ==
    ASSUME NEW lines, IsLines(lines), NEW allowed, NEW delay, Obeys(lines, allowed, delay)
    PROVE  GroupsObeyed(lines, allowed, delay)
<1> DEFINE start == StartOfOurs(lines)
           ours == RulesFor(lines, NamedAt(lines)[start])
           strays == {i \in start..Len(lines) : IsRule(lines[i])} \ ours
           LengthsOf(rules) == Lengths(lines, rules, "allow") \cup Lengths(lines, rules, "disallow")
<1>1. CASE start = 0
  BY <1>1 DEF Obeys, GroupsObeyed, DelayFrom
<1>2. CASE start # 0
  <2>1. start \in 1..Len(lines)
    <3>1. start \in Starts(lines)
      BY <1>2, StartIsFirst
    <3>. QED  BY <3>1 DEF Starts, IsLines
  <2>2. Len(lines) \in Nat /\ DOMAIN lines = 1..Len(lines)
    BY DEF IsLines
  <2>3. \A k \in start..Len(lines) : k > 0 /\ k \in 1..Len(lines)
    BY <2>1, <2>2
  <2>4. \A i \in ours : i \in start..Len(lines) /\ IsRule(lines[i])
    BY <1>2, RulesAfterStart
  <2> HIDE DEF start
  <2> DEFINE all == {k \in start..Len(lines) : k > 0}
  <2>5. \A i : i \in ours \cup strays <=> i \in all /\ IsRule(lines[i])
    BY <2>3, <2>4
  <2>6. ours \in SUBSET (1..Len(lines)) /\ strays \in SUBSET (1..Len(lines))
    BY <2>3, <2>4
  <2> HIDE DEF ours, strays, all
  <2>7. /\ Lengths(lines, all, "allow") = Lengths(lines, ours \cup strays, "allow")
        /\ Lengths(lines, all, "disallow") = Lengths(lines, ours \cup strays, "disallow")
        /\ DelaysAt(lines, all) = DelaysAt(lines, ours \cup strays)
    <3>1. \A key \in {"allow", "disallow", "crawl-delay"} :
             {k \in all : lines[k].key = key} = {k \in ours \cup strays : lines[k].key = key}
      BY <2>5 DEF IsRule
    <3>. QED  BY <3>1 DEF Lengths, DelaysAt
  <2>8. allowed <=> AllowedBy(lines, ours \cup strays)
    <3>1. allowed <=> AllowedFrom(lines, start)
      BY <1>2 DEF Obeys, start
    <3>. QED  BY <2>7, <3>1 DEF AllowedFrom, AllowedBy, all
  <2>9. delay = DelayBy(lines, ours \cup strays)
    <3>1. delay = DelayFrom(lines, start)
      BY DEF Obeys, start
    <3>2. delay = DelayBy(lines, all)
      BY <1>2, <3>1 DEF DelayFrom, all, start
    <3>. QED  BY <2>7, <3>2 DEF DelayBy
  <2>10. LengthsOf(strays) = {} \/ (\E o \in LengthsOf(ours) : \A x \in LengthsOf(strays) : o > x)
             => (allowed <=> AllowedBy(lines, ours))
    BY <2>6, <2>8, ShorterRules
  <2>11. (\A x \in DelaysAt(lines, strays) : \E o \in DelaysAt(lines, ours) : o > x) => delay = DelayBy(lines, ours)
    BY <2>6, <2>9, EarlierDelays
  <2>. QED  BY <1>2, <2>10, <2>11 DEF GroupsObeyed, start, ours, strays
<1>. QED  BY <1>1, <1>2

\* A robots.txt that names neither our agent nor "*" is obeyed all the same: with
\* no "*" group to fall back to, all its rules are taken for us (a finding).
THEOREM OthersRulesObeyed ==
    ASSUME NEW lines, IsLines(lines), StartOfOurs(lines) = 0
    PROVE  IsAllowed(Parse(lines)) <=> AllowedBy(lines, {i \in DOMAIN lines : IsRule(lines[i])})
<1>1. Len(lines) \in Nat /\ DOMAIN lines = 1..Len(lines)
  BY DEF IsLines
<1> DEFINE first == IF Starts(lines) = {} THEN Len(lines) + 1 ELSE Min(Starts(lines))
           rules == {i \in DOMAIN lines : IsRule(lines[i])}
           from == {k \in first..Len(lines) : k > 0}
<1>2. IsAllowed(Parse(lines)) <=> AllowedBy(lines, from)
  BY LinesObeyed DEF Obeys, AllowedFrom
<1>3. CASE Len(lines) = 0
  <2>1. from = {} /\ rules = {}
    BY <1>1, <1>3
  <2>. QED  BY <1>2, <2>1
<1>4. CASE Len(lines) # 0
  <2>1. 1 \in 1..Len(lines) /\ \A j \in 1..1 : j = 1
    BY <1>1, <1>4
  <2>2. 1 \in Starts(lines) /\ \A i \in Starts(lines) : i \in 1..Len(lines)
    BY <1>1, <2>1, StartsAre DEF Starts
  <2>3. Starts(lines) \in SUBSET Nat /\ Starts(lines) # {}
    BY <1>1, <2>2
  <2>4. Min(Starts(lines)) \in Starts(lines) /\ Min(Starts(lines)) <= 1
    BY <2>2, <2>3, LeastIs
  <2>5. first = 1
    BY <1>1, <2>2, <2>3, <2>4
  <2>6. from = DOMAIN lines
    BY <1>1, <2>5
  <2>7. /\ Lengths(lines, DOMAIN lines, "allow") = Lengths(lines, rules, "allow")
        /\ Lengths(lines, DOMAIN lines, "disallow") = Lengths(lines, rules, "disallow")
    <3>1. \A key \in {"allow", "disallow"} :
             {k \in DOMAIN lines : lines[k].key = key} = {k \in rules : lines[k].key = key}
      BY DEF IsRule
    <3>. QED  BY <3>1 DEF Lengths
  <2>. QED  BY <1>2, <2>6, <2>7 DEF AllowedBy
<1>. QED  BY <1>3, <1>4

-----------------------------------------------------------------------------
(* What the clients read of a response, for any stream.                    *)

LEMMA SliceIs ==
    ASSUME NEW B, NEW s \in Seq(B), NEW m \in Nat \ {0}, NEW n \in Nat, n <= Len(s), m <= n + 1
    PROVE  /\ SubSeq(s, m, n) \in Seq(B) /\ Len(SubSeq(s, m, n)) = n - m + 1
           /\ \A i \in 1..n - m + 1 : SubSeq(s, m, n)[i] = s[m + i - 1]
<1>1. m \in Int /\ n \in Int /\ Len(s) \in Nat
  OBVIOUS
<1>2. ASSUME NEW i \in m..n
      PROVE  s[i] \in B
  <2>1. i \in 1..Len(s)
    BY <1>1
  <2>. QED  BY <2>1, ElementOfSeq
<1>3. /\ SubSeq(s, m, n) \in Seq(B)
      /\ Len(SubSeq(s, m, n)) = IF m <= n THEN n - m + 1 ELSE 0
      /\ \A i \in 1..n - m + 1 : SubSeq(s, m, n)[i] = s[m + i - 1]
  BY <1>1, <1>2, SubSeqProperties
<1>. QED  BY <1>1, <1>3

\* The first k bytes, by their elements.
LEMMA PrefixIs ==
    ASSUME NEW B, NEW s \in Seq(B), NEW k \in Nat, k <= Len(s)
    PROVE  /\ SubSeq(s, 1, k) \in Seq(B) /\ Len(SubSeq(s, 1, k)) = k
           /\ \A i \in 1..k : SubSeq(s, 1, k)[i] = s[i]
<1>1. 1 \in Nat \ {0} /\ 1 <= k + 1 /\ k - 1 + 1 = k /\ \A i \in 1..k : 1 + i - 1 = i
  OBVIOUS
<1>2. /\ SubSeq(s, 1, k) \in Seq(B) /\ Len(SubSeq(s, 1, k)) = k - 1 + 1
      /\ \A i \in 1..k - 1 + 1 : SubSeq(s, 1, k)[i] = s[1 + i - 1]
  BY <1>1, SliceIs
<1>. QED  BY <1>1, <1>2

LEMMA SliceOfPrefix ==
    ASSUME NEW B, NEW s \in Seq(B), NEW k \in Nat, k <= Len(s),
           NEW m \in Nat \ {0}, NEW n \in Nat, n <= k, m <= n + 1
    PROVE  SubSeq(SubSeq(s, 1, k), m, n) = SubSeq(s, m, n)
<1> DEFINE p == SubSeq(s, 1, k)
           a == SubSeq(p, m, n)
           b == SubSeq(s, m, n)
<1>1. p \in Seq(B) /\ Len(p) = k /\ \A i \in 1..k : p[i] = s[i]
  BY PrefixIs
<1> HIDE DEF p
<1>2. n <= Len(p) /\ n <= Len(s) /\ Len(s) \in Nat
  BY <1>1
<1>3. a \in Seq(B) /\ Len(a) = n - m + 1 /\ \A i \in 1..n - m + 1 : a[i] = p[m + i - 1]
  BY <1>1, <1>2, SliceIs
<1>4. b \in Seq(B) /\ Len(b) = n - m + 1 /\ \A i \in 1..n - m + 1 : b[i] = s[m + i - 1]
  BY <1>2, SliceIs
<1>5. \A i \in 1..n - m + 1 : m + i - 1 \in 1..k
  OBVIOUS
<1> HIDE DEF a, b
<1>6. a = b
  BY <1>1, <1>3, <1>4, <1>5, SeqEqual
<1>. QED  BY <1>6 DEF a, b, p

LEMMA PrefixOfConcat ==
    ASSUME NEW B, NEW s \in Seq(B), NEW t \in Seq(B), NEW k \in Nat, k <= Len(s)
    PROVE  SubSeq(s \o t, 1, k) = SubSeq(s, 1, k)
<1> DEFINE st == s \o t
           a == SubSeq(st, 1, k)
           b == SubSeq(s, 1, k)
<1>1. Len(s) \in Nat /\ Len(t) \in Nat /\ \A i \in 1..k : i \in 1..Len(s)
  OBVIOUS
<1>2. st \in Seq(B) /\ Len(st) = Len(s) + Len(t) /\ \A i \in 1..Len(s) : st[i] = s[i]
  BY ConcatIs
<1> HIDE DEF st
<1>3. k <= Len(st)
  BY <1>1, <1>2
<1>4. a \in Seq(B) /\ Len(a) = k /\ \A i \in 1..k : a[i] = st[i]
  BY <1>2, <1>3, PrefixIs
<1>5. b \in Seq(B) /\ Len(b) = k /\ \A i \in 1..k : b[i] = s[i]
  BY PrefixIs
<1> HIDE DEF a, b
<1>6. a = b
  BY <1>1, <1>2, <1>4, <1>5, SeqEqual
<1>. QED  BY <1>6 DEF a, b, st

LEMMA PrefixOfAll == ASSUME NEW B, NEW s \in Seq(B) PROVE SubSeq(s, 1, Len(s)) = s
<1>1. Len(s) \in Nat /\ Len(s) <= Len(s)
  OBVIOUS
<1>2. /\ SubSeq(s, 1, Len(s)) \in Seq(B) /\ Len(SubSeq(s, 1, Len(s))) = Len(s)
      /\ \A i \in 1..Len(s) : SubSeq(s, 1, Len(s))[i] = s[i]
  BY <1>1, PrefixIs
<1>. QED  BY <1>2, SeqEqual

\* HeadEnd is the first place where a head ends.
LEMMA FirstEnd ==
    ASSUME NEW s \in Seq(Bytes)
    PROVE  /\ HeadEnd(s) \in 0..Len(s) /\ HeadEnd(s) \in Nat
           /\ HeadEnd(s) # 0 => EndsAt(s, HeadEnd(s)) /\ \A j \in 1..HeadEnd(s) - 1 : ~EndsAt(s, j)
           /\ HeadEnd(s) = 0 => \A i \in Nat : ~EndsAt(s, i)
<1> DEFINE First(i) == EndsAt(s, i) /\ \A j \in 1..i - 1 : ~EndsAt(s, j)
           Ends1 == {i \in DOMAIN s : EndsAt(s, i)}
<1>1. DOMAIN s = 1..Len(s) /\ Len(s) \in Nat
  OBVIOUS
<1>2. \A i \in Nat : EndsAt(s, i) => i \in DOMAIN s
  BY <1>1 DEF EndsAt
<1>3. CASE Ends1 = {}
  <2>1. ~ \E i \in DOMAIN s : EndsAt(s, i)
    BY <1>3
  <2>2. HeadEnd(s) = 0
    BY <2>1 DEF HeadEnd
  <2>. QED  BY <1>1, <1>2, <2>1, <2>2
<1>4. CASE Ends1 # {}
  <2>1. Ends1 \in SUBSET Nat
    BY <1>1
  <2>2. PICK m \in Ends1 : \A n \in Ends1 : m <= n
    <3> HIDE DEF Ends1
    <3>. QED  BY <1>4, <2>1, LeastOf
  <2>3. First(m)
    <3>1. ASSUME NEW j \in 1..m - 1, EndsAt(s, j)
          PROVE  FALSE
      <4>1. j \in Ends1
        BY <1>1, <1>2, <2>1, <3>1
      <4>. QED  BY <2>1, <2>2, <3>1, <4>1
    <3>. QED  BY <3>1
  <2>4. HeadEnd(s) = CHOOSE i \in DOMAIN s : First(i)
    BY <1>4 DEF HeadEnd
  <2>5. HeadEnd(s) \in DOMAIN s /\ First(HeadEnd(s))
    <3>1. \E i \in DOMAIN s : First(i)
      BY <2>2, <2>3
    <3> HIDE DEF First
    <3>. QED  BY <2>4, <3>1
  <2>. QED  BY <1>1, <2>5
<1>. QED  BY <1>3, <1>4

\* The head of the first k bytes is that of the whole, if it is that short.
LEMMA HeadOfPrefix ==
    ASSUME NEW s \in Seq(Bytes), NEW k \in Nat, k <= Len(s)
    PROVE  HeadEnd(SubSeq(s, 1, k)) = IF HeadEnd(s) <= k THEN HeadEnd(s) ELSE 0
<1> DEFINE p == SubSeq(s, 1, k)
           h == HeadEnd(s)
           hp == HeadEnd(p)
<1>1. p \in Seq(Bytes) /\ Len(p) = k /\ Len(s) \in Nat
  BY PrefixIs
<1>2. \A i \in Nat : EndsAt(p, i) <=> i <= k /\ EndsAt(s, i)
  <2> TAKE i \in Nat
  <2>1. ASSUME i >= 4, i <= k
        PROVE  SubSeq(p, i - 3, i) = SubSeq(s, i - 3, i)
    <3>1. i - 3 \in Nat \ {0} /\ i - 3 <= i + 1
      BY <2>1
    <3>. QED  BY <2>1, <3>1, SliceOfPrefix
  <2> HIDE DEF p
  <2>. QED  BY <1>1, <2>1 DEF EndsAt
<1>3. /\ h \in Nat
      /\ h # 0 => EndsAt(s, h) /\ \A j \in 1..h - 1 : ~EndsAt(s, j)
      /\ h = 0 => \A i \in Nat : ~EndsAt(s, i)
  BY FirstEnd
<1> HIDE DEF p
<1>4. /\ hp \in Nat
      /\ hp # 0 => EndsAt(p, hp) /\ \A j \in 1..hp - 1 : ~EndsAt(p, j)
      /\ hp = 0 => \A i \in Nat : ~EndsAt(p, i)
  BY <1>1, FirstEnd
<1> HIDE DEF h, hp
<1>5. hp # 0 => h # 0 /\ h <= hp /\ hp <= k
  <2>1. hp # 0 => EndsAt(s, hp) /\ hp <= k /\ hp >= 1
    BY <1>2, <1>4
  <2>2. h # 0 /\ hp # 0 /\ hp < h => hp \in 1..h - 1
    BY <1>3, <1>4
  <2>. QED  BY <1>3, <1>4, <2>1, <2>2
<1>6. h # 0 /\ h <= k => hp # 0 /\ hp <= h
  <2>1. h # 0 /\ h <= k => EndsAt(p, h)
    BY <1>2, <1>3
  <2>2. h # 0 /\ hp # 0 /\ h < hp => h \in 1..hp - 1
    BY <1>3, <1>4
  <2>. QED  BY <1>3, <1>4, <2>1, <2>2
<1>7. hp = IF h <= k THEN h ELSE 0
  BY <1>3, <1>4, <1>5, <1>6
<1>. QED  BY <1>7 DEF h, hp, p

LEMMA LengthIsNumber == ASSUME NEW head \in Seq(Bytes) PROVE ContentLength(head) \in Nat
<1> DEFINE at == {i \in DOMAIN head : head[i] \in Digits}
           back == {k \in 0..Len(head) : Len(head) - k \in at}
           last == CHOOSE i \in at : \A j \in at : j <= i
<1>1. CASE at = {}
  BY <1>1 DEF ContentLength
<1>2. CASE at # {}
  <2>1. ContentLength(head) = Value(head[last])
    BY <1>2 DEF ContentLength
  <2>2. Len(head) \in Nat /\ \A i \in at : i \in 1..Len(head) /\ Len(head) - i \in back
    OBVIOUS
  <2>3. \E i \in at : \A j \in at : j <= i
    <3>1. back \in SUBSET Nat /\ back # {}
      <4>1. back \in SUBSET Nat
        BY <2>2
      <4>2. back # {}
        <5> HIDE DEF at, back
        <5>. QED  BY <1>2, <2>2
      <4>. QED  BY <4>1, <4>2
    <3>2. PICK k \in back : \A n \in back : k <= n
      <4> HIDE DEF back
      <4>. QED  BY <3>1, LeastOf
    <3>3. Len(head) - k \in at /\ k \in Nat
      OBVIOUS
    <3>4. \A j \in at : j <= Len(head) - k
      <4> TAKE j \in at
      <4>1. k <= Len(head) - j /\ j \in Nat
        BY <2>2, <3>2
      <4> HIDE DEF at, back
      <4>. QED  BY <2>2, <3>3, <4>1
    <3>. QED  BY <3>3, <3>4
  <2>4. last \in at
    <3> HIDE DEF at
    <3>. QED  BY <2>3
  <2>5. head[last] \in Digits
    <3> HIDE DEF last
    <3>. QED  BY <2>4
  <2> HIDE DEF last
  <2>. QED  BY <2>1, <2>5 DEF Digits, Value
<1>. QED  BY <1>1, <1>2

\* Read by its recursion: each read appends a chunk.
Gets(got, chunks, n) == got[0] = <<>> /\ \A k \in 1..n : got[k] = got[k - 1] \o chunks[k]

LEMMA GotIs ==
    ASSUME NEW B, NEW chunks \in Seq(Seq(B)), NEW N \in 0..Len(chunks)
    PROVE  \E got : /\ Gets(got, chunks, N) /\ Read(chunks, N) = got[N]
                    /\ \A n \in 0..N : got[n] \in Seq(B)
<1> DEFINE X == Seq(B)
           After(f) == [k \in 0..N |-> IF k = 0 THEN <<>> ELSE f[k - 1] \o chunks[k]]
           step == [n \in 1..N |-> [st \in X |-> st \o chunks[n]]]
           got == CHOOSE f : f = After(f)
<1>1. Read(chunks, N) = got[N]
  BY DEF Read
<1>2. N \in Nat /\ <<>> \in X /\ \A n \in 1..N : chunks[n] \in X
  <2>1. \A n \in 1..N : n \in 1..Len(chunks)
    OBVIOUS
  <2>. QED  BY <2>1, ElementOfSeq
<1>3. \A n \in 1..N, st \in X : st \o chunks[n] \in X
  BY <1>2
<1>4. PICK g : g \in [0..N -> X] /\ g[0] = <<>> /\ \A n \in 1..N : g[n] = step[n][g[n - 1]]
  <2>1. step \in StepsOn(N, X)
    BY <1>3 DEF StepsOn
  <2> HIDE DEF step, X
  <2>2. \E g : Follows(g, N, X, <<>>, step)
    BY <1>2, <2>1, RecursionExists
  <2>. QED  BY <2>2 DEF Follows
<1>5. \A n \in 1..N : g[n] = g[n - 1] \o chunks[n]
  <2> TAKE n \in 1..N
  <2>1. n - 1 \in 0..N
    BY <1>2
  <2>2. g[n - 1] \in X
    BY <1>4, <2>1
  <2>. QED  BY <1>4, <2>2
<1>6. g = After(g)
  <2>1. \A n \in 0..N : g[n] = After(g)[n]
    <3> TAKE n \in 0..N
    <3>1. n # 0 => n \in 1..N
      BY <1>2
    <3>. QED  BY <1>4, <1>5, <3>1
  <2>. QED  BY <1>4, <2>1
<1>7. got = After(got)
  <2>1. \E f : f = After(f)
    BY <1>6
  <2> HIDE DEF After
  <2>. QED  BY <2>1
<1> HIDE DEF got
<1>8. got[0] = <<>> /\ \A n \in 1..N : got[n] = got[n - 1] \o chunks[n]
  <2>1. 0 \in 0..N /\ \A n \in 1..N : n \in 0..N /\ n # 0
    BY <1>2
  <2>2. \A n \in 0..N : got[n] = IF n = 0 THEN <<>> ELSE got[n - 1] \o chunks[n]
    BY <1>7
  <2> HIDE DEF After
  <2>. QED  BY <2>1, <2>2
<1>9. \A n \in 0..N : got[n] \in X
  <2> DEFINE T == {n \in 0..N : got[n] \in X}
  <2>1. 0 \in T
    <3>1. 0 \in 0..N
      BY <1>2
    <3>2. got[0] \in X
      BY <1>2, <1>8
    <3>. QED  BY <3>1, <3>2
  <2>2. ASSUME NEW n \in 0..N, n \in T, n < N
        PROVE  n + 1 \in T
    <3>1. n + 1 \in 1..N /\ n + 1 \in 0..N /\ (n + 1) - 1 = n
      BY <1>2, <2>2
    <3>2. got[n + 1] = got[n] \o chunks[n + 1]
      BY <1>8, <3>1
    <3>. QED  BY <1>3, <2>2, <3>1, <3>2
  <2>3. \A n \in 0..N : n \in T
    <3> HIDE DEF T
    <3>. QED  BY <1>2, <2>1, <2>2, UpTo
  <2>. QED  BY <2>3
<1>. QED  BY <1>1, <1>8, <1>9 DEF Gets

LEMMA ReadIs ==
    ASSUME NEW B, NEW chunks \in Seq(Seq(B))
    PROVE  /\ Len(chunks) \in Nat /\ Read(chunks, 0) = <<>>
           /\ \A n \in 0..Len(chunks) : Read(chunks, n) \in Seq(B)
           /\ \A n \in 1..Len(chunks) :
                chunks[n] \in Seq(B) /\ Read(chunks, n) = Read(chunks, n - 1) \o chunks[n]
<1> DEFINE N == Len(chunks)
<1>1. N \in Nat /\ 0 \in 0..N /\ N \in 0..N
  OBVIOUS
<1>2. PICK all : Gets(all, chunks, N) /\ \A n \in 0..N : all[n] \in Seq(B)
  BY <1>1, GotIs
<1>3. ASSUME NEW n \in 0..N
      PROVE  Read(chunks, n) = all[n]
  <2>1. PICK got : Gets(got, chunks, n) /\ Read(chunks, n) = got[n]
    BY GotIs
  <2> DEFINE T == {k \in 0..n : got[k] = all[k]}
  <2>2. n \in Nat /\ n \in 0..n /\ n <= N
    BY <1>1
  <2>3. 0 \in T
    BY <1>2, <2>1, <2>2 DEF Gets
  <2>4. ASSUME NEW k \in 0..n, k \in T, k < n
        PROVE  k + 1 \in T
    <3>1. k + 1 \in 1..n /\ k + 1 \in 0..n /\ k + 1 \in 1..N /\ (k + 1) - 1 = k
      BY <1>1, <2>2, <2>4
    <3>2. got[k + 1] = got[k] \o chunks[k + 1] /\ all[k + 1] = all[k] \o chunks[k + 1]
      BY <1>2, <2>1, <3>1 DEF Gets
    <3>. QED  BY <2>4, <3>1, <3>2
  <2>5. \A k \in 0..n : k \in T
    <3> HIDE DEF T, N
    <3>. QED  BY <2>2, <2>3, <2>4, UpTo
  <2>. QED  BY <2>1, <2>2, <2>5
<1>4. \A n \in 1..N : n \in 0..N /\ n - 1 \in 0..N /\ chunks[n] \in Seq(B)
  <2>1. \A n \in 1..N : chunks[n] \in Seq(B)
    BY ElementOfSeq
  <2>. QED  BY <1>1, <2>1
<1> HIDE DEF N
<1>5. Read(chunks, 0) = <<>> /\ \A n \in 0..N : Read(chunks, n) \in Seq(B)
  BY <1>1, <1>2, <1>3 DEF Gets
<1>6. \A n \in 1..N : Read(chunks, n) = Read(chunks, n - 1) \o chunks[n]
  BY <1>2, <1>3, <1>4 DEF Gets
<1>. QED  BY <1>1, <1>4, <1>5, <1>6 DEF N

\* What was read before is the front of what is read later.
Fronts(chunks, m, n) ==
    /\ Len(Read(chunks, m)) <= Len(Read(chunks, n))
    /\ Read(chunks, m) = SubSeq(Read(chunks, n), 1, Len(Read(chunks, m)))

LEMMA ReadsGrow ==
    ASSUME NEW B, NEW chunks \in Seq(Seq(B)), NEW n \in 0..Len(chunks), NEW m \in 0..n
    PROVE  Fronts(chunks, m, n)
<1> DEFINE N == Len(chunks)
           T == {k \in 0..N : \A j \in 0..k : Fronts(chunks, j, k)}
<1>1. /\ N \in Nat
      /\ \A k \in 0..N : Read(chunks, k) \in Seq(B) /\ Len(Read(chunks, k)) \in Nat
      /\ \A k \in 1..N : chunks[k] \in Seq(B) /\ Read(chunks, k) = Read(chunks, k - 1) \o chunks[k]
  <2>1. \A k \in 0..N : Read(chunks, k) \in Seq(B)
    BY ReadIs
  <2>2. \A k \in 0..N : Len(Read(chunks, k)) \in Nat
    BY <2>1, LenProperties
  <2>. QED  BY <2>1, <2>2, ReadIs
<1> HIDE DEF N
<1>2. ASSUME NEW k \in 0..N
      PROVE  Fronts(chunks, k, k)
  <2>1. Read(chunks, k) \in Seq(B) /\ Len(Read(chunks, k)) \in Nat
    BY <1>1
  <2>2. Len(Read(chunks, k)) <= Len(Read(chunks, k))
    BY <2>1
  <2>. QED  BY <2>1, <2>2, PrefixOfAll DEF Fronts
<1>3. 0 \in T
  <2>1. 0 \in 0..N /\ \A j \in 0..0 : j = 0
    BY <1>1
  <2>. QED  BY <1>2, <2>1
<1>4. ASSUME NEW k \in 0..N, k \in T, k < N
      PROVE  k + 1 \in T
  <2>1. k \in Nat /\ k + 1 \in 0..N /\ k + 1 \in 1..N /\ (k + 1) - 1 = k
    BY <1>1, <1>4
  <2> DEFINE s == Read(chunks, k)
             t == Read(chunks, k + 1)
             c == chunks[k + 1]
  <2>2. s \in Seq(B) /\ c \in Seq(B) /\ t = s \o c /\ Len(s) \in Nat
    BY <1>1, <2>1
  <2>3. Len(t) = Len(s) + Len(c) /\ Len(c) \in Nat
    <3> HIDE DEF s, t, c
    <3>1. Len(s \o c) = Len(s) + Len(c)
      BY <2>2, ConcatIs
    <3>. QED  BY <2>2, <3>1, LenProperties
  <2>4. ASSUME NEW j \in 0..k
        PROVE  Fronts(chunks, j, k + 1)
    <3> DEFINE p == Read(chunks, j)
    <3>1. j \in 0..N
      BY <1>1
    <3>2. Len(p) \in Nat
      BY <1>1, <3>1
    <3>3. Len(p) <= Len(s) /\ p = SubSeq(s, 1, Len(p))
      BY <1>4 DEF Fronts
    <3> HIDE DEF p, s, t, c
    <3>4. SubSeq(s \o c, 1, Len(p)) = SubSeq(s, 1, Len(p))
      BY <2>2, <3>2, <3>3, PrefixOfConcat
    <3>5. Len(p) <= Len(t) /\ p = SubSeq(t, 1, Len(p))
      BY <2>2, <2>3, <3>2, <3>3, <3>4
    <3>. QED  BY <3>5 DEF Fronts, p, t
  <2>5. Fronts(chunks, k + 1, k + 1)
    BY <1>2, <2>1
  <2>6. \A j \in 0..k + 1 : j \in 0..k \/ j = k + 1
    BY <2>1
  <2>. QED  BY <2>1, <2>4, <2>5, <2>6
<1>5. \A k \in 0..N : k \in T
  <2> HIDE DEF T
  <2>. QED  BY <1>1, <1>3, <1>4, UpTo
<1>. QED  BY <1>5 DEF N

LEMMA FrontIs ==
    ASSUME NEW chunks \in Seq(Seq(Bytes)), NEW n \in 0..Len(chunks), NEW all, all = Read(chunks, Len(chunks))
    PROVE  /\ all \in Seq(Bytes) /\ Len(all) \in Nat
           /\ Len(Read(chunks, n)) \in Nat /\ Len(Read(chunks, n)) <= Len(all)
           /\ Read(chunks, n) = SubSeq(all, 1, Len(Read(chunks, n)))
           /\ HeadEnd(Read(chunks, n)) = IF HeadEnd(all) <= Len(Read(chunks, n)) THEN HeadEnd(all) ELSE 0
           /\ \A m \in 0..n : Len(Read(chunks, m)) <= Len(Read(chunks, n))
<1> DEFINE N == Len(chunks)
           z == Len(Read(chunks, n))
<1>1. N \in Nat /\ N \in 0..N /\ n \in 0..N /\ \A m \in 0..n : m \in 0..N
  OBVIOUS
<1>2. all \in Seq(Bytes) /\ Read(chunks, n) \in Seq(Bytes)
  BY <1>1, ReadIs
<1>3. Len(all) \in Nat /\ z \in Nat
  BY <1>2, LenProperties
<1>4. z <= Len(all) /\ Read(chunks, n) = SubSeq(all, 1, z)
  BY <1>1, ReadsGrow DEF Fronts
<1>5. HeadEnd(SubSeq(all, 1, z)) = IF HeadEnd(all) <= z THEN HeadEnd(all) ELSE 0
  <2> HIDE DEF z
  <2>. QED  BY <1>2, <1>3, <1>4, HeadOfPrefix
<1>6. \A m \in 0..n : Len(Read(chunks, m)) <= z
  BY <1>1, ReadsGrow DEF Fronts
<1>7. HeadEnd(Read(chunks, n)) = IF HeadEnd(all) <= z THEN HeadEnd(all) ELSE 0
  BY <1>4, <1>5
<1>. QED  BY <1>2, <1>3, <1>4, <1>6, <1>7

\* The loop for the head ends with the head of all that was sent, or there is none.
LEMMA HeadReadIs ==
    ASSUME NEW chunks \in Seq(Seq(Bytes)), NEW all, all = Read(chunks, Len(chunks)),
           NEW n, n = HeadRead(chunks), NEW h, h = HeadEnd(all)
    PROVE  /\ n = 0 => h = 0
           /\ n # 0 => /\ n \in 1..Len(chunks)
                       /\ Len(Read(chunks, n)) <= MaxMessage =>
                             /\ h # 0 /\ h <= Len(Read(chunks, n))
                             /\ ResponseHead(chunks, n) = SubSeq(all, 1, h)
<1> DEFINE N == Len(chunks)
           Z(k) == Len(Read(chunks, k))
           stops == {k \in DOMAIN chunks : Z(k) > MaxMessage \/ HeadEnd(Read(chunks, k)) # 0}
<1>1. /\ n = IF stops = {} THEN 0 ELSE Min(stops)
      /\ N \in Nat /\ DOMAIN chunks = 1..N
  BY DEF HeadRead
<1>2. N \in 0..N /\ \A k \in 1..N : k \in 0..N /\ k # 0 /\ k \in Nat
  BY <1>1
<1>3. all \in Seq(Bytes) /\ h \in 0..Len(all) /\ Len(all) = Z(N) /\ Len(all) \in Nat /\ h \in Nat
  BY <1>2, FrontIs, FirstEnd
<1>4. CASE stops = {}
  <2>1. CASE N = 0
    <3>1. Read(chunks, 0) = <<>>
      BY ReadIs
    <3>2. Len(all) = 0
      BY <2>1, <3>1
    <3>. QED  BY <1>1, <1>3, <1>4, <3>2
  <2>2. CASE N # 0
    <3>1. N \in 1..N
      BY <1>1, <2>2
    <3>2. HeadEnd(Read(chunks, N)) = 0
      BY <1>1, <1>4, <3>1
    <3>. QED  BY <1>1, <1>4, <3>2
  <2>. QED  BY <2>1, <2>2
<1>5. CASE stops # {}
  <2>1. stops \in SUBSET Nat
    BY <1>1
  <2>2. n \in stops
    <3> HIDE DEF stops
    <3>. QED  BY <1>1, <1>5, <2>1, LeastIs
  <2>3. n \in 1..N /\ (Z(n) > MaxMessage \/ HeadEnd(Read(chunks, n)) # 0)
    BY <1>1, <2>2
  <2>4. n \in 0..N /\ n # 0
    BY <1>2, <2>3
  <2>5. /\ Z(n) \in Nat /\ Z(n) <= Len(all) /\ Read(chunks, n) = SubSeq(all, 1, Z(n))
        /\ HeadEnd(Read(chunks, n)) = IF h <= Z(n) THEN h ELSE 0
    BY <2>4, FrontIs
  <2>6. ASSUME Z(n) <= MaxMessage
        PROVE  h # 0 /\ h <= Z(n) /\ ResponseHead(chunks, n) = SubSeq(all, 1, h)
    <3> DEFINE p == Read(chunks, n)
    <3>1. HeadEnd(p) # 0
      BY <2>3, <2>5, <2>6, ResponseAssumption
    <3>2. h # 0 /\ h <= Z(n) /\ HeadEnd(p) = h
      BY <2>5, <3>1
    <3>3. ResponseHead(chunks, n) = SubSeq(p, 1, h)
      BY <3>2 DEF ResponseHead
    <3>4. SubSeq(SubSeq(all, 1, Z(n)), 1, h) = SubSeq(all, 1, h)
      <4>1. 1 \in Nat \ {0} /\ 1 <= h + 1
        BY <1>3
      <4> HIDE DEF Z
      <4>. QED  BY <1>3, <2>5, <3>2, <4>1, SliceOfPrefix
    <3>. QED  BY <2>5, <3>2, <3>3, <3>4
  <2>. QED  BY <2>3, <2>4, <2>6
<1>. QED  BY <1>4, <1>5

\* What follows the head, and its front.
LEMMA RestIs ==
    ASSUME NEW s \in Seq(Bytes), NEW h \in Nat, h <= Len(s), NEW k \in Nat, h + k <= Len(s)
    PROVE  /\ Len(From(s, h + 1)) = Len(s) - h
           /\ SubSeq(From(s, h + 1), 1, k) = SubSeq(s, h + 1, h + k)
           /\ Len(SubSeq(s, h + 1, h + k)) = k
<1> DEFINE r == From(s, h + 1)
           a == SubSeq(r, 1, k)
           b == SubSeq(s, h + 1, h + k)
<1>1. /\ Len(s) \in Nat /\ h + 1 \in Nat \ {0} /\ h + 1 <= Len(s) + 1 /\ Len(s) <= Len(s)
      /\ Len(s) - (h + 1) + 1 = Len(s) - h /\ h + k \in Nat /\ h + 1 <= (h + k) + 1 /\ (h + k) - (h + 1) + 1 = k
  OBVIOUS
<1>2. /\ r \in Seq(Bytes) /\ Len(r) = Len(s) - (h + 1) + 1
      /\ \A i \in 1..Len(s) - (h + 1) + 1 : r[i] = s[(h + 1) + i - 1]
  <2> DEFINE m == h + 1
             n == Len(s)
  <2>1. m \in Nat \ {0} /\ n \in Nat /\ n <= Len(s) /\ m <= n + 1
    BY <1>1
  <2>2. r = SubSeq(s, m, n)
    BY DEF From
  <2> HIDE DEF m, n, r
  <2>3. /\ SubSeq(s, m, n) \in Seq(Bytes) /\ Len(SubSeq(s, m, n)) = n - m + 1
        /\ \A i \in 1..n - m + 1 : SubSeq(s, m, n)[i] = s[m + i - 1]
    BY <2>1, SliceIs
  <2>. QED  BY <2>2, <2>3 DEF m, n
<1>3. b \in Seq(Bytes) /\ Len(b) = k /\ \A i \in 1..k : b[i] = s[(h + 1) + i - 1]
  <2>1. /\ b \in Seq(Bytes) /\ Len(b) = (h + k) - (h + 1) + 1
        /\ \A i \in 1..(h + k) - (h + 1) + 1 : b[i] = s[(h + 1) + i - 1]
    BY <1>1, SliceIs
  <2>. QED  BY <1>1, <2>1
<1>4. Len(r) = Len(s) - h /\ \A i \in 1..Len(s) - h : r[i] = s[(h + 1) + i - 1]
  BY <1>1, <1>2
<1>5. k <= Len(s) - h /\ \A i \in 1..k : i \in 1..Len(s) - h
  BY <1>1
<1> HIDE DEF r, b
<1>6. a \in Seq(Bytes) /\ Len(a) = k /\ \A i \in 1..k : a[i] = r[i]
  BY <1>2, <1>4, <1>5, PrefixIs
<1> HIDE DEF a
<1>7. a = b
  BY <1>3, <1>4, <1>5, <1>6, SeqEqual
<1>. QED  BY <1>3, <1>4, <1>7 DEF a, b, r

\* What is to be read of a body of a known length, from all that was sent.
Announced(stream, all, h, len) ==
    IF h + len > MaxMessage THEN Err
    ELSE IF Len(From(all, h + 1)) >= len THEN Ok(SubSeq(From(all, h + 1), 1, len))
    ELSE IF stream.ending = "eof" THEN Ok(From(all, h + 1))
    ELSE Err

LEMMA ReadLengthIs ==
    ASSUME NEW stream, stream.chunks \in Seq(Seq(Bytes)), NEW n \in 1..Len(stream.chunks),
           NEW all, all = Sent(stream), NEW h \in Nat, h <= Len(Read(stream.chunks, n)), NEW len \in Nat
    PROVE  \/ ReadLength(stream, n, h, len) = Announced(stream, all, h, len)
           \/ Len(all) > MaxMessage /\ ReadLength(stream, n, h, len) = Err
<1> DEFINE chunks == stream.chunks
           N == Len(chunks)
           Z(m) == Len(Read(chunks, m))
           enough == {m \in n..N : Enough(Z(m) - h, len) \/ Z(m) > MaxMessage}
           rest == From(all, h + 1)
           read == ReadLength(stream, n, h, len)
<1>1. N \in Nat /\ n \in Nat /\ N \in n..N /\ \A m \in n..N : m \in 0..N /\ m \in Nat /\ n \in 0..m
  OBVIOUS
<1>2. all = Read(chunks, N)
  BY DEF Sent
<1>3. /\ all \in Seq(Bytes) /\ Len(all) \in Nat /\ Len(all) = Z(N)
      /\ \A m \in n..N : Z(m) \in Nat /\ Z(m) <= Len(all) /\ h <= Z(m)
  <2>1. all \in Seq(Bytes) /\ Len(all) \in Nat
    BY <1>1, <1>2, FrontIs
  <2>2. ASSUME NEW m \in n..N
        PROVE  Z(m) \in Nat /\ Z(m) <= Len(all) /\ h <= Z(m)
    <3>1. Z(m) \in Nat /\ Z(m) <= Len(all) /\ Z(n) <= Z(m)
      BY <1>1, <1>2, FrontIs
    <3>2. Z(n) \in Nat
      <4>1. n \in 0..N
        BY <1>1
      <4>. QED  BY <1>2, <4>1, FrontIs
    <3>. QED  BY <3>1, <3>2
  <2>. QED  BY <1>2, <2>1, <2>2
<1>4. h <= Len(all) /\ Len(rest) = Len(all) - h
  <2>1. h <= Len(all)
    BY <1>1, <1>3
  <2>2. 0 \in Nat /\ h + 0 <= Len(all)
    BY <1>3, <2>1
  <2> HIDE DEF rest
  <2>3. Len(From(all, h + 1)) = Len(all) - h
    BY <1>3, <2>1, <2>2, RestIs
  <2>. QED  BY <2>1, <2>3 DEF rest
<1>5. read = IF h + len > MaxMessage THEN Err
             ELSE IF enough = {} THEN IF stream.ending = "eof" THEN Ok(rest) ELSE Err
             ELSE IF Z(Min(enough)) > MaxMessage THEN Err
             ELSE Ok(SubSeq(all, h + 1, h + len))
  BY <1>2 DEF ReadLength
<1> HIDE DEF rest, read
<1>6. CASE h + len > MaxMessage
  BY <1>5, <1>6 DEF Announced, read
<1>7. CASE ~(h + len > MaxMessage) /\ enough = {}
  <2>1. ~(Len(all) - h >= len)
    BY <1>1, <1>3, <1>7 DEF Enough
  <2>2. Announced(stream, all, h, len) = IF stream.ending = "eof" THEN Ok(rest) ELSE Err
    BY <1>4, <1>7, <2>1 DEF Announced, rest
  <2>. QED  BY <1>5, <1>7, <2>2 DEF read
<1>8. CASE ~(h + len > MaxMessage) /\ enough # {}
  <2> DEFINE m == Min(enough)
  <2>1. m \in n..N /\ (Enough(Z(m) - h, len) \/ Z(m) > MaxMessage)
    <3>1. enough \in SUBSET Nat
      BY <1>1
    <3>2. m \in enough
      <4> HIDE DEF enough
      <4>. QED  BY <1>8, <3>1, LeastIs
    <3> HIDE DEF m
    <3>. QED  BY <3>2
  <2>2. read = IF Z(m) > MaxMessage THEN Err ELSE Ok(SubSeq(all, h + 1, h + len))
    BY <1>5, <1>8
  <2> HIDE DEF m
  <2>3. Z(m) \in Nat /\ Z(m) <= Len(all)
    BY <1>3, <2>1
  <2>4. CASE Z(m) > MaxMessage
    <3>1. Len(all) > MaxMessage
      BY <1>3, <2>3, <2>4, ResponseAssumption
    <3>. QED  BY <2>2, <2>4, <3>1 DEF read
  <2>5. CASE ~(Z(m) > MaxMessage)
    <3>1. Z(m) - h >= len
      BY <2>1, <2>5 DEF Enough
    <3>2. Len(rest) >= len /\ h + len <= Len(all)
      BY <1>3, <1>4, <2>3, <3>1
    <3>3. SubSeq(rest, 1, len) = SubSeq(all, h + 1, h + len)
      BY <1>3, <1>4, <3>2, RestIs DEF rest
    <3>4. Announced(stream, all, h, len) = Ok(SubSeq(rest, 1, len))
      BY <1>8, <3>2 DEF Announced, rest
    <3>. QED  BY <2>2, <2>5, <3>3, <3>4 DEF read
  <2>. QED  BY <2>4, <2>5
<1>. QED  BY <1>6, <1>7, <1>8

LEMMA ReadUntilIdleIs ==
    ASSUME NEW stream, stream.chunks \in Seq(Seq(Bytes)), NEW n \in 1..Len(stream.chunks),
           NEW all, all = Sent(stream), NEW h \in Nat, h <= Len(Read(stream.chunks, n))
    PROVE  /\ stream.late = {} =>
                ReadUntilIdle(stream, n, h) = IF Len(all) > MaxMessage THEN Err ELSE Ok(From(all, h + 1))
           /\ IsPrefixOf(ReadUntilIdle(stream, n, h).body, From(all, h + 1))
<1> DEFINE chunks == stream.chunks
           N == Len(chunks)
           late == {m \in DOMAIN chunks : m > n /\ m \in stream.late}
           last == LastRead(stream, n)
           got == Read(chunks, last)
           z == Len(got)
           rest == From(all, h + 1)
<1>1. N \in Nat /\ n \in Nat /\ DOMAIN chunks = 1..N /\ all = Read(chunks, N) /\ N \in n..N
  BY DEF Sent
<1>2. last = IF late = {} THEN N ELSE Min(late) - 1
  BY DEF LastRead
<1>3. last \in n..N
  <2>1. CASE late = {}
    BY <1>1, <1>2, <2>1
  <2>2. CASE late # {}
    <3>1. late \in SUBSET Nat
      BY <1>1
    <3>2. Min(late) \in late
      <4> HIDE DEF late
      <4>. QED  BY <2>2, <3>1, LeastIs
    <3>3. Min(late) \in 1..N /\ Min(late) > n
      BY <1>1, <3>2
    <3> HIDE DEF late
    <3>. QED  BY <1>1, <1>2, <2>2, <3>3
  <2>. QED  BY <2>1, <2>2
<1> HIDE DEF last
<1>4. /\ all \in Seq(Bytes) /\ Len(all) \in Nat /\ z \in Nat /\ z <= Len(all) /\ h <= z
      /\ got = SubSeq(all, 1, z)
  <2>1. last \in 0..N /\ n \in 0..N /\ n \in 0..last
    BY <1>1, <1>3
  <2>2. /\ all \in Seq(Bytes) /\ Len(all) \in Nat /\ z \in Nat /\ z <= Len(all)
        /\ got = SubSeq(all, 1, z) /\ Len(Read(chunks, n)) <= z
    BY <1>1, <2>1, FrontIs
  <2>3. Len(Read(chunks, n)) \in Nat
    BY <1>1, <2>1, FrontIs
  <2> HIDE DEF got
  <2>. QED  BY <2>2, <2>3
<1>5. ReadUntilIdle(stream, n, h) = IF z > MaxMessage THEN Err ELSE Ok(From(got, h + 1))
  BY DEF ReadUntilIdle, last
<1>6. stream.late = {} => ReadUntilIdle(stream, n, h) = IF Len(all) > MaxMessage THEN Err ELSE Ok(rest)
  <2> HAVE stream.late = {}
  <2>1. late = {}
    OBVIOUS
  <2>2. got = all
    BY <1>1, <1>2, <2>1
  <2>. QED  BY <1>5, <2>2
<1>7. IsPrefixOf(From(got, h + 1), rest)
  <2>1. z - h \in Nat /\ h + (z - h) = z /\ h + 1 \in Nat \ {0} /\ h + 1 <= z + 1 /\ z <= z
    BY <1>4
  <2> HIDE DEF z
  <2>2. From(got, h + 1) = SubSeq(all, h + 1, z)
    <3>1. SubSeq(SubSeq(all, 1, z), h + 1, z) = SubSeq(all, h + 1, z)
      BY <1>4, <2>1, SliceOfPrefix
    <3>2. From(got, h + 1) = SubSeq(got, h + 1, z)
      BY DEF From, z
    <3>. QED  BY <1>4, <3>1, <3>2
  <2>3. /\ Len(rest) = Len(all) - h /\ SubSeq(rest, 1, z - h) = SubSeq(all, h + 1, z)
        /\ Len(SubSeq(all, h + 1, z)) = z - h
    <3>1. h <= Len(all)
      BY <1>4
    <3>2. /\ Len(From(all, h + 1)) = Len(all) - h
          /\ SubSeq(From(all, h + 1), 1, z - h) = SubSeq(all, h + 1, h + (z - h))
          /\ Len(SubSeq(all, h + 1, h + (z - h))) = z - h
      <4>1. h + (z - h) <= Len(all)
        BY <1>4, <2>1
      <4>. QED  BY <1>4, <2>1, <3>1, <4>1, RestIs
    <3>. QED  BY <2>1, <3>2
  <2> HIDE DEF rest, got
  <2>4. Len(From(got, h + 1)) = z - h
    BY <2>2, <2>3
  <2>5. z - h <= Len(rest)
    <3>1. z <= Len(all) /\ z \in Nat /\ Len(all) \in Nat
      BY <1>4
    <3>2. Len(rest) = Len(all) - h
      BY <2>3
    <3>. QED  BY <3>1, <3>2
  <2>. QED  BY <2>2, <2>3, <2>4, <2>5 DEF IsPrefixOf
<1>8. IsPrefixOf(<<>>, rest)
  <2>1. 0 \in Nat /\ h <= Len(all) /\ h + 0 <= Len(all)
    BY <1>4
  <2>2. Len(rest) = Len(all) - h
    BY <1>4, <2>1, RestIs
  <2>3. 0 <= Len(rest) /\ Len(<<>>) = 0
    BY <1>4, <2>1, <2>2
  <2>4. <<>> = SubSeq(rest, 1, 0)
    BY EmptySeq
  <2>. QED  BY <2>3, <2>4 DEF IsPrefixOf
<1>9. ReadUntilIdle(stream, n, h).body \in {<<>>, From(got, h + 1)}
  BY <1>5 DEF Ok, Err
<1>. QED  BY <1>6, <1>7, <1>8, <1>9

\* What BodyIsWhatWasSent says of a stream and what the clients read of it.
ReadsWhole(stream, fetch, crawl) ==
    LET all == Sent(stream)
        head == SubSeq(all, 1, HeadEnd(all))
        whole == Whole(stream)
        announced == IF whole.ok /\ ~Announces(head) THEN Ok(<<>>) ELSE whole
        Is(r, what) == r = what \/ (Len(all) > MaxMessage /\ r \in {Err, Ok(<<>>)})
    IN  /\ IF Announces(head) \/ stream.late = {} THEN Is(fetch, whole)
           ELSE IsPrefixOf(fetch.body, From(all, Len(head) + 1))
        /\ stream.ending # "silence" => Is(crawl, announced)

LEMMA StreamsRead ==
    ASSUME NEW stream, stream.chunks \in Seq(Seq(Bytes)), NEW crawl,
           stream.ending # "silence" => crawl = ReadResponseLike(stream)
    PROVE  ReadsWhole(stream, ReadResponse(stream), crawl)
<1> DEFINE chunks == stream.chunks
           N == Len(chunks)
           all == Sent(stream)
           h == HeadEnd(all)
           head == SubSeq(all, 1, h)
           rest == From(all, h + 1)
           c == ContentLength(head)
           n == HeadRead(chunks)
           z == Len(Read(chunks, n))
           whole == Whole(stream)
           fetch == ReadResponse(stream)
           like == ReadResponseLike(stream)
           announced == IF whole.ok /\ ~Announces(head) THEN Ok(<<>>) ELSE whole
           Is(r, what) == r = what \/ (Len(all) > MaxMessage /\ r \in {Err, Ok(<<>>)})
           Fetched1 == IF Announces(head) \/ stream.late = {} THEN Is(fetch, whole)
                       ELSE IsPrefixOf(fetch.body, rest)
<1>1. N \in Nat /\ all = Read(chunks, N) /\ N \in 0..N
  BY DEF Sent
<1>2. all \in Seq(Bytes) /\ Len(all) \in Nat /\ h \in Nat /\ h <= Len(all)
  BY <1>1, FrontIs, FirstEnd
<1>3. head \in Seq(Bytes) /\ Len(head) = h
  BY <1>2, PrefixIs
<1>4. c \in Nat
  BY <1>3, LengthIsNumber
<1>5. IsPrefixOf(<<>>, rest)
  <2>1. 0 \in Nat /\ h + 0 <= Len(all)
    BY <1>2
  <2>2. Len(rest) = Len(all) - h
    BY <1>2, <2>1, RestIs
  <2>3. 0 <= Len(rest) /\ Len(<<>>) = 0
    BY <1>2, <2>2
  <2>4. <<>> = SubSeq(rest, 1, 0)
    BY EmptySeq
  <2>. QED  BY <2>3, <2>4 DEF IsPrefixOf
<1>6. /\ n = 0 => h = 0
      /\ n # 0 => n \in 1..N /\ (z <= MaxMessage => h # 0 /\ h <= z /\ ResponseHead(chunks, n) = head)
  BY <1>1, HeadReadIs
<1>7. whole = IF h = 0 \/ ~WellFormed(head) THEN Err
              ELSE IF ~Announces(head) THEN IF Len(all) > MaxMessage THEN Err ELSE Ok(rest)
              ELSE Announced(stream, all, h, c)
  BY DEF Whole, Announced
<1>8. Fetched1 /\ (stream.ending # "silence" => Is(crawl, announced)) => ReadsWhole(stream, fetch, crawl)
  BY <1>3 DEF ReadsWhole
<1>9. /\ ~HeadAccepted(chunks, n) => fetch = Err /\ like = Err
      /\ Err.body = <<>> /\ Err.ok = FALSE /\ \A body : Ok(body).ok = TRUE
  BY DEF ReadResponse, ReadResponseLike, Err, Ok
<1>10. /\ stream.ending # "silence" => crawl = like
       /\ \A what : Is(what, what)
       /\ \A what : Len(all) > MaxMessage => Is(Err, what) /\ Is(Ok(<<>>), what)
       /\ HeadAccepted(chunks, n) <=> n # 0 /\ z <= MaxMessage /\ WellFormed(ResponseHead(chunks, n))
  BY DEF HeadAccepted
\* Nothing else of the stream matters from here on.
<1> HIDE DEF whole, fetch, like, head, rest, c
<1>11. CASE ~HeadAccepted(chunks, n)
  <2>1. whole = Err \/ Len(all) > MaxMessage
    <3>1. CASE n = 0
      BY <1>6, <1>7, <3>1
    <3>2. CASE n # 0 /\ z <= MaxMessage
      <4>1. ~WellFormed(head)
        BY <1>6, <1>10, <1>11, <3>2
      <4>. QED  BY <1>7, <4>1
    <3>3. CASE n # 0 /\ ~(z <= MaxMessage)
      <4>1. n \in 0..N
        BY <1>1, <1>6, <3>3
      <4>2. z \in Nat /\ z <= Len(all)
        BY <1>1, <4>1, FrontIs
      <4> HIDE DEF z
      <4>. QED  BY <1>2, <3>3, <4>2, ResponseAssumption
    <3>. QED  BY <3>1, <3>2, <3>3
  <2>2. Is(Err, whole) /\ Is(Err, announced)
    <3> HIDE DEF Err, Ok
    <3>1. CASE whole = Err
      BY <1>9, <3>1
    <3>2. CASE Len(all) > MaxMessage
      BY <3>2
    <3>. QED  BY <2>1, <3>1, <3>2
  <2> HIDE DEF Is
  <2>3. Fetched1
    BY <1>5, <1>9, <1>11, <2>2
  <2>4. stream.ending # "silence" => Is(crawl, announced)
    <3> HIDE DEF announced
    <3>. QED  BY <1>9, <1>10, <1>11, <2>2
  <2>. QED  BY <1>8, <2>3, <2>4 DEF fetch
<1>12. CASE HeadAccepted(chunks, n)
  <2>1. n \in 1..N /\ h # 0 /\ h <= z /\ ResponseHead(chunks, n) = head /\ WellFormed(head)
    BY <1>6, <1>10, <1>12
  <2>2. fetch = IF Announces(head) THEN ReadLength(stream, n, h, c) ELSE ReadUntilIdle(stream, n, h)
    BY <1>3, <1>12, <2>1 DEF ReadResponse, fetch, c
  <2>3. like = IF c = 0 THEN Ok(<<>>) ELSE ReadLength(stream, n, h, c)
    BY <1>3, <1>12, <2>1 DEF ReadResponseLike, like, c
  <2>4. whole = IF ~Announces(head) THEN IF Len(all) > MaxMessage THEN Err ELSE Ok(rest)
                ELSE Announced(stream, all, h, c)
    BY <1>7, <2>1
  <2>5. CASE Announces(head)
    <3>1. \/ ReadLength(stream, n, h, c) = Announced(stream, all, h, c)
          \/ Len(all) > MaxMessage /\ ReadLength(stream, n, h, c) = Err
      BY <1>2, <1>4, <2>1, ReadLengthIs
    <3>2. whole = Announced(stream, all, h, c) /\ announced = whole
      BY <2>4, <2>5
    <3>3. Is(ReadLength(stream, n, h, c), whole)
      BY <3>1, <3>2
    <3>4. c = 0 => Is(Ok(<<>>), whole)
      <4> HAVE c = 0
      <4>1. CASE Len(all) > MaxMessage
        BY <4>1
      <4>2. CASE ~(Len(all) > MaxMessage)
        <5>1. h + 0 <= Len(all) /\ ~(h + 0 > MaxMessage) /\ 0 \in Nat
          BY <1>2, <4>2, ResponseAssumption
        <5>2. Len(rest) >= 0
          BY <1>2, <5>1, RestIs DEF rest
        <5>3. SubSeq(rest, 1, 0) = <<>>
          BY EmptySeq
        <5>4. whole = Ok(<<>>)
          BY <3>2, <5>1, <5>2, <5>3 DEF Announced, rest
        <5>. QED  BY <5>4
      <4>. QED  BY <4>1, <4>2
    <3> HIDE DEF Is
    <3>5. Fetched1
      BY <2>2, <2>5, <3>3
    <3>6. stream.ending # "silence" => Is(crawl, announced)
      <4> HIDE DEF announced
      <4>. QED  BY <1>10, <2>3, <3>2, <3>3, <3>4
    <3>. QED  BY <1>8, <3>5, <3>6 DEF fetch
  <2>6. CASE ~Announces(head)
    <3>1. c = 0
      <4>1. {i \in DOMAIN head : head[i] \in Digits} = {}
        BY <2>6 DEF Announces, InSeq
      <4>. QED  BY <4>1 DEF ContentLength, c
    <3>2. whole = IF Len(all) > MaxMessage THEN Err ELSE Ok(rest)
      BY <2>4, <2>6
    <3>3. Is(Ok(<<>>), announced)
      <4> HIDE DEF Err, Ok
      <4>1. CASE Len(all) > MaxMessage
        BY <4>1
      <4>2. CASE ~(Len(all) > MaxMessage)
        BY <1>9, <2>6, <3>2, <4>2
      <4>. QED  BY <4>1, <4>2
    <3>4. /\ stream.late = {} => fetch = whole
          /\ IsPrefixOf(fetch.body, rest)
      BY <1>2, <2>1, <2>2, <2>6, <3>2, ReadUntilIdleIs DEF rest
    <3>5. Fetched1
      BY <2>6, <3>4
    <3> HIDE DEF Is
    <3>6. stream.ending # "silence" => Is(crawl, announced)
      <4> HIDE DEF announced
      <4>. QED  BY <1>10, <2>3, <3>1, <3>3
    <3>. QED  BY <1>8, <3>5, <3>6 DEF fetch
  <2>. QED  BY <2>5, <2>6
<1>. QED  BY <1>11, <1>12

\* The n-th smallest of a set of numbers.
LEMMA RankedIs ==
    ASSUME NEW T \in SUBSET Nat, IsFiniteSet(T), NEW n \in 1..Cardinality(T)
    PROVE  \E e \in T : Cardinality({m \in T : m <= e}) = n
<1> DEFINE K == Cardinality(T)
           Rank(e) == {m \in T : m <= e}
           Closed(S) == \A i \in S, j \in T : j <= i => j \in S
           Lowest(k, S) == Closed(S) /\ Cardinality(S) = k /\ (k # 0 => \E e \in T : S = Rank(e))
           U == {k \in 0..K : \E S \in SUBSET T : Lowest(k, S)}
<1>1. K \in Nat
  BY FS_CardinalityType
<1>2. 0 \in U
  <2>1. Lowest(0, {}) /\ {} \in SUBSET T
    BY FS_EmptySet
  <2>2. 0 \in 0..K
    BY <1>1
  <2> HIDE DEF Lowest, K
  <2>. QED  BY <2>1, <2>2
<1>3. ASSUME NEW k \in 0..K, k \in U, k < K
      PROVE  k + 1 \in U
  <2>1. PICK S \in SUBSET T : Lowest(k, S)
    BY <1>3
  <2> DEFINE others == T \ S
  <2>2. others # {}
    <3>1. Cardinality(S) # Cardinality(T)
      BY <1>1, <1>3, <2>1
    <3>2. ASSUME others = {}
          PROVE  S = T
      BY <3>2
    <3>. QED  BY <3>1, <3>2
  <2>3. others \in SUBSET Nat
    OBVIOUS
  <2>4. PICK m \in others : \A j \in others : m <= j
    <3> HIDE DEF others
    <3>. QED  BY <2>2, <2>3, LeastOf
  <2>5. m \in T /\ m \notin S /\ m \in Nat
    BY <2>4
  <2>6. S \cup {m} = Rank(m)
    <3>1. ASSUME NEW j \in S
          PROVE  j \in T /\ j <= m
      <4>1. j \in T /\ j \in Nat
        OBVIOUS
      <4>2. ~(m <= j)
        BY <2>1, <2>5
      <4>. QED  BY <2>5, <4>1, <4>2
    <3>2. ASSUME NEW j \in T, j <= m
          PROVE  j \in S \/ j = m
      <4>1. j \in Nat
        OBVIOUS
      <4>2. j \notin S => m <= j
        BY <2>4
      <4>. QED  BY <2>5, <3>2, <4>1, <4>2
    <3>3. m <= m
      BY <2>5
    <3>. QED  BY <2>5, <3>1, <3>2, <3>3
  <2>7. Cardinality(S \cup {m}) = k + 1
    <3>1. IsFiniteSet(S)
      BY FS_Subset
    <3>2. Cardinality(S) = k
      BY <2>1
    <3>. QED  BY <2>5, <3>1, <3>2, FS_AddElement
  <2>8. Closed(Rank(m))
    <3> SUFFICES ASSUME NEW i \in Rank(m), NEW j \in T, j <= i
                 PROVE  j <= m
      OBVIOUS
    <3>1. i \in Nat /\ j \in Nat /\ i <= m
      OBVIOUS
    <3>. QED  BY <2>5, <3>1
  <2>9. Rank(m) \in SUBSET T /\ Cardinality(Rank(m)) = k + 1
    BY <2>6, <2>7
  <2>10. k + 1 \in 0..K
    BY <1>1, <1>3
  <2> HIDE DEF Rank, Closed, K
  <2>. QED  BY <2>5, <2>8, <2>9, <2>10
<1>4. \A k \in 0..K : k \in U
  <2> HIDE DEF U, K
  <2>. QED  BY <1>1, <1>2, <1>3, UpTo
<1>5. n \in U /\ n # 0
  BY <1>1, <1>4
<1> HIDE DEF Closed
<1>. QED  BY <1>5

\* Every way to cut bytes gives chunks of bytes.
LEMMA CutIs ==
    ASSUME NEW s \in Seq(Bytes), s # <<>>, NEW cuts \in SUBSET (1..Len(s) - 1)
    PROVE  Cut(s, cuts) \in Seq(Seq(Bytes))
<1> DEFINE L == Len(s)
           ends == cuts \cup {L}
           K == Cardinality(ends)
           At(n) == CHOOSE e \in ends : Cardinality({m \in ends : m <= e}) = n
           Place(n) == IF n = 0 THEN 0 ELSE At(n)
           chunk(n) == SubSeq(s, Place(n - 1) + 1, Place(n))
<1>1. Cut(s, cuts) = [n \in 1..K |-> chunk(n)]
  BY DEF Cut
<1>2. L \in Nat /\ L # 0
  BY EmptySeq
<1>3. \A e \in ends : e \in 1..L
  BY <1>2
<1>4. ends \in SUBSET Nat /\ IsFiniteSet(ends)
  <2> HIDE DEF ends, L
  <2>1. ends \in SUBSET Nat /\ \A e \in ends : e <= L
    BY <1>2, <1>3
  <2>. QED  BY <1>2, <2>1, FS_BoundedSetOfNaturals
<1>5. K \in Nat
  BY <1>4, FS_CardinalityType
<1> HIDE DEF ends, K, L
<1>6. ASSUME NEW n \in 1..K
      PROVE  At(n) \in ends
  <2>1. \E e \in ends : Cardinality({m \in ends : m <= e}) = n
    BY <1>4, RankedIs DEF K
  <2>. QED  BY <2>1
<1> HIDE DEF At
<1>7. ASSUME NEW n \in 0..K
      PROVE  Place(n) \in 0..L
  <2>1. n # 0 => n \in 1..K
    BY <1>5
  <2>. QED  BY <1>2, <1>3, <1>6, <2>1
<1> HIDE DEF Place
<1>8. ASSUME NEW n \in 1..K
      PROVE  chunk(n) \in Seq(Bytes)
  <2> DEFINE a == Place(n - 1) + 1
             b == Place(n)
  <2>1. n - 1 \in 0..K /\ n \in 0..K
    BY <1>5
  <2>2. Place(n - 1) \in 0..L /\ b \in 0..L
    BY <1>7, <2>1
  <2>3. a \in Int /\ b \in Int /\ \A i \in a..b : i \in 1..L
    BY <1>2, <2>2
  <2>4. \A i \in a..b : s[i] \in Bytes
    BY <2>3, ElementOfSeq DEF L
  <2> HIDE DEF a, b
  <2>5. SubSeq(s, a, b) \in Seq(Bytes)
    BY <2>3, <2>4, SubSeqProperties
  <2>. QED  BY <2>5 DEF a, b
<1> HIDE DEF chunk
<1>. QED  BY <1>1, <1>5, <1>8

LEMMA SendingsAre == Sendings \subseteq Seq(Bytes)
<1>1. ASSUME NEW w \in ResponseHeads
      PROVE  w \in Seq(Bytes)
  <2> DEFINE starts == {<<>>, <<"x">>, <<"x", "0">>, <<"x", "2">>, <<"x", "3">>, <<"x", "1", "2">>}
  <2>1. PICK start \in starts : w = start \o End
    BY DEF ResponseHeads
  <2>2. start \in Seq(Bytes)
    <3>1. \A b1, b2, b3 \in Bytes : {<<>>, <<b1>>, <<b1, b2>>, <<b1, b2, b3>>} \subseteq Seq(Bytes)
      OBVIOUS
    <3>2. {"x", "0", "1", "2", "3"} \subseteq Bytes
      BY DEF Bytes
    <3> HIDE DEF starts
    <3>3. \E b1, b2, b3 \in Bytes : start \in {<<>>, <<b1>>, <<b1, b2>>, <<b1, b2, b3>>}
      BY <3>2 DEF starts
    <3>. QED  BY <3>1, <3>3
  <2>3. End \in Seq(Bytes)
    BY DEF End, Bytes
  <2>. QED  BY <2>1, <2>2, <2>3, ConcatIs
<1> DEFINE body(k) == [i \in 1..k |-> "b"]
           with(h, k) == h \o body(k)
<1>2. ASSUME NEW h \in ResponseHeads, NEW k \in 0..MaxBody
      PROVE  with(h, k) \in Seq(Bytes)
  <2>1. k \in Nat
    BY BodyAssumption
  <2>2. body(k) \in Seq(Bytes)
    BY <2>1 DEF Bytes
  <2> HIDE DEF body
  <2>. QED  BY <1>1, <2>2, ConcatIs
<1>3. ASSUME NEW w \in Seq(Bytes), NEW n \in 0..Len(w)
      PROVE  SubSeq(w, 1, n) \in Seq(Bytes)
  <2>1. n \in Nat /\ n <= Len(w)
    OBVIOUS
  <2>. QED  BY <2>1, PrefixIs
<1> DEFINE whole == {with(h, k) : h \in ResponseHeads, k \in 0..MaxBody}
<1>4. whole \subseteq Seq(Bytes)
  <2> HIDE DEF with
  <2>. QED  BY <1>2
<1>5. Sendings = UNION {{SubSeq(w, 1, n) : n \in 0..Len(w)} : w \in whole}
  BY DEF Sendings
<1> HIDE DEF whole
<1>. QED  BY <1>3, <1>4, <1>5

LEMMA StreamsAre == ASSUME NEW st, IsStream(st) PROVE st.of = "read" /\ st.stream.chunks \in Seq(Seq(Bytes))
<1>1. PICK s \in Sendings : \E chunks \in Chunks(s) :
          \E late \in {{}} \cup {{n} : n \in DOMAIN chunks}, ending \in {"eof", "error", "silence"} :
              st = [of |-> "read", stream |-> [chunks |-> chunks, late |-> late, ending |-> ending]]
  BY DEF IsStream
<1>2. PICK chunks \in Chunks(s) :
          \E late \in {{}} \cup {{n} : n \in DOMAIN chunks}, ending \in {"eof", "error", "silence"} :
              st = [of |-> "read", stream |-> [chunks |-> chunks, late |-> late, ending |-> ending]]
  BY <1>1
<1>3. st.of = "read" /\ st.stream.chunks = chunks
  BY <1>2
<1>4. s \in Seq(Bytes)
  BY SendingsAre
<1>5. chunks \in Seq(Seq(Bytes))
  <2>1. CASE s = <<>>
    <3>1. chunks = <<>>
      BY <2>1 DEF Chunks
    <3>. QED  BY <3>1
  <2>2. CASE s # <<>>
    <3>1. PICK cuts \in SUBSET (1..Len(s) - 1) : chunks = Cut(s, cuts)
      BY <2>2 DEF Chunks
    <3>. QED  BY <1>4, <2>2, <3>1, CutIs
  <2>. QED  BY <2>1, <2>2
<1>. QED  BY <1>3, <1>5

-----------------------------------------------------------------------------
(* Functions that jump from place to place of a page, and what stands at   *)
(* places, in their order.                                                 *)

\* From a place the function goes on at a later one, or, at 0, no more.
NextsOn(N) == {next \in [0..N -> 0..N] : \A p \in 0..N : next[p] = 0 \/ next[p] > p}
LastsOn(N, X) == [0..N -> X]
JumpsOn(N, X) == [0..N -> [X -> X]]
Jumps(f, N, X, next, last, step) ==
    /\ f \in [0..N -> X]
    /\ \A p \in 0..N : f[p] = IF next[p] = 0 THEN last[p] ELSE step[p][f[next[p]]]

LEMMA JumpsExist ==
    ASSUME NEW N \in Nat, NEW X, NEW next \in NextsOn(N), NEW last \in LastsOn(N, X), NEW step \in JumpsOn(N, X)
    PROVE  \E f : Jumps(f, N, X, next, last, step)
<1> DEFINE To(f, p) == IF next[p] = 0 THEN last[p] ELSE step[p][f[next[p]]]
           From1(m, f) == \A p \in 0..N : p > N - m => f[p] = To(f, p)
           T == {m \in 0..N + 1 : \E f \in [0..N -> X] : From1(m, f)}
<1>1. /\ \A p \in 0..N : next[p] \in 0..N /\ (next[p] = 0 \/ next[p] > p)
      /\ \A p \in 0..N : last[p] \in X /\ step[p] \in [X -> X]
  BY DEF NextsOn, LastsOn, JumpsOn
<1>2. ASSUME NEW f \in [0..N -> X], NEW p \in 0..N
      PROVE  To(f, p) \in X
  BY <1>1
<1>3. 0 \in T
  <2>1. last \in [0..N -> X] /\ From1(0, last)
    BY DEF LastsOn
  <2>2. 0 \in 0..N + 1
    OBVIOUS
  <2> HIDE DEF From1
  <2>. QED  BY <2>1, <2>2
<1>4. ASSUME NEW m \in 0..N + 1, m \in T, m < N + 1
      PROVE  m + 1 \in T
  <2>1. PICK f \in [0..N -> X] : From1(m, f)
    BY <1>4
  <2> DEFINE q == N - m
             g == [f EXCEPT ![q] = To(f, q)]
  <2>2. q \in 0..N /\ m \in Nat /\ m + 1 \in 0..N + 1
    BY <1>4
  <2>3. g \in [0..N -> X] /\ g[q] = To(f, q) /\ \A p \in 0..N : p # q => g[p] = f[p]
    BY <1>2, <2>2
  <2> HIDE DEF g
  <2>4. \A p \in 0..N : p >= q => To(g, p) = To(f, p)
    <3> SUFFICES ASSUME NEW p \in 0..N, p >= q, next[p] # 0
                 PROVE  g[next[p]] = f[next[p]]
      OBVIOUS
    <3>1. next[p] \in 0..N /\ next[p] > p
      BY <1>1
    <3>. QED  BY <2>2, <2>3, <3>1
  <2>5. From1(m + 1, g)
    <3> SUFFICES ASSUME NEW p \in 0..N, p > N - (m + 1)
                 PROVE  g[p] = To(g, p)
      OBVIOUS
    <3>1. p >= q /\ (p = q \/ p > N - m)
      BY <2>2
    <3> HIDE DEF To, q
    <3>2. CASE p = q
      BY <2>3, <2>4, <3>1, <3>2
    <3>3. CASE p # q
      BY <2>1, <2>3, <2>4, <3>1, <3>3
    <3>. QED  BY <3>2, <3>3
  <2> HIDE DEF From1
  <2>. QED  BY <2>2, <2>3, <2>5
<1>5. \A m \in 0..N + 1 : m \in T
  <2>1. N + 1 \in Nat
    OBVIOUS
  <2> HIDE DEF T
  <2>. QED  BY <1>3, <1>4, <2>1, UpTo
<1>6. PICK f \in [0..N -> X] : From1(N + 1, f)
  <2>1. N + 1 \in 0..N + 1
    OBVIOUS
  <2> HIDE DEF From1
  <2>. QED  BY <1>5, <2>1
<1>7. \A p \in 0..N : p > N - (N + 1)
  OBVIOUS
<1>. QED  BY <1>6, <1>7 DEF Jumps

\* g lists the K numbers in S, in their order.
InOrderOf(g, K, S) ==
    /\ g \in [1..K -> S]
    /\ \A m, n \in 1..K : m < n => g[m] < g[n]
    /\ \A i \in S : \E n \in 1..K : g[n] = i

LEMMA RankOf ==
    ASSUME NEW S \in SUBSET Nat, NEW K \in Nat, NEW g, InOrderOf(g, K, S)
    PROVE  Cardinality(S) = K /\ \A n \in 1..K : Cardinality({j \in S : j <= g[n]}) = n
<1> USE DEF InOrderOf
<1> DEFINE R(n) == {g[m] : m \in 1..n}
           T == {n \in 0..K : IsFiniteSet(R(n)) /\ Cardinality(R(n)) = n}
<1>1. 0 \in T
  <2>1. R(0) = {} /\ 0 \in 0..K
    OBVIOUS
  <2>. QED  BY <2>1, FS_EmptySet
<1>2. ASSUME NEW n \in 0..K, n \in T, n < K
      PROVE  n + 1 \in T
  <2>1. n + 1 \in 1..K /\ n + 1 \in 0..K /\ \A m \in 1..n + 1 : m \in 1..n \/ m = n + 1
    BY <1>2
  <2>2. \A m \in 1..n : m \in 1..K /\ m < n + 1 /\ m \in 1..n + 1
    BY <1>2
  <2>3. R(n + 1) = R(n) \cup {g[n + 1]}
    BY <2>1, <2>2
  <2>4. g[n + 1] \notin R(n)
    <3> SUFFICES ASSUME NEW m \in 1..n
                 PROVE  g[m] # g[n + 1]
      OBVIOUS
    <3>1. g[m] < g[n + 1] /\ g[m] \in Nat /\ g[n + 1] \in Nat
      BY <2>1, <2>2
    <3>. QED  BY <3>1
  <2>5. IsFiniteSet(R(n)) /\ Cardinality(R(n)) = n
    BY <1>2
  <2> HIDE DEF R
  <2>6. IsFiniteSet(R(n + 1)) /\ Cardinality(R(n + 1)) = n + 1
    BY <2>3, <2>4, <2>5, FS_AddElement
  <2>. QED  BY <2>1, <2>6
<1>3. \A n \in 0..K : n \in T
  <2> HIDE DEF T
  <2>. QED  BY <1>1, <1>2, UpTo
<1>4. \A n \in 0..K : Cardinality(R(n)) = n
  <2> HIDE DEF R
  <2>. QED  BY <1>3
<1>5. R(K) = S
  OBVIOUS
<1>6. ASSUME NEW n \in 1..K
      PROVE  {j \in S : j <= g[n]} = R(n)
  <2>1. ASSUME NEW m \in 1..n
        PROVE  g[m] \in S /\ g[m] <= g[n]
    <3>1. m \in 1..K /\ (m < n \/ m = n)
      OBVIOUS
    <3>2. g[m] \in Nat /\ g[n] \in Nat /\ g[m] \in S
      BY <3>1
    <3>. QED  BY <3>1, <3>2
  <2>2. ASSUME NEW j \in S, j <= g[n]
        PROVE  \E m \in 1..n : j = g[m]
    <3>1. PICK m \in 1..K : g[m] = j
      OBVIOUS
    <3>2. g[m] \in Nat /\ g[n] \in Nat
      BY <3>1
    <3>3. ~(n < m)
      BY <2>2, <3>1, <3>2
    <3>. QED  BY <3>1, <3>3
  <2>. QED  BY <2>1, <2>2
<1>7. K \in 0..K /\ \A n \in 1..K : n \in 0..K
  OBVIOUS
<1> HIDE DEF R
<1>. QED  BY <1>4, <1>5, <1>6, <1>7

\* s has the elements of html at the places in S.
Picked(s, html, S) ==
    \E g : InOrderOf(g, Len(s), S) /\ \A n \in 1..Len(s) : s[n] = html[g[n]]

LEMMA PickedIs ==
    ASSUME NEW X, NEW s \in Seq(X), NEW html, NEW S \in SUBSET Nat, Picked(s, html, S)
    PROVE  PiecesAt(html, S) = s
<1> DEFINE K == Len(s)
           Nth(n) == CHOOSE i \in S : Cardinality({j \in S : j <= i}) = n
<1>1. PICK g : InOrderOf(g, K, S) /\ \A n \in 1..K : s[n] = html[g[n]]
  BY DEF Picked
<1>2. K \in Nat
  OBVIOUS
<1>3. Cardinality(S) = K /\ \A n \in 1..K : Cardinality({j \in S : j <= g[n]}) = n
  BY <1>1, <1>2, RankOf
<1>4. \A n \in 1..K : g[n] \in S
  BY <1>1 DEF InOrderOf
<1>5. ASSUME NEW n \in 1..K
      PROVE  Nth(n) = g[n]
  <2>1. \E i \in S : Cardinality({j \in S : j <= i}) = n
    BY <1>3, <1>4
  <2>2. Nth(n) \in S /\ Cardinality({j \in S : j <= Nth(n)}) = n
    BY <2>1
  <2> HIDE DEF Nth
  <2>3. PICK m \in 1..K : g[m] = Nth(n)
    BY <1>1, <2>2 DEF InOrderOf
  <2>4. m = n
    BY <1>3, <2>2, <2>3
  <2>. QED  BY <2>3, <2>4
<1>6. PiecesAt(html, S) = [n \in 1..K |-> html[Nth(n)]]
  BY <1>3 DEF PiecesAt
<1>7. s = [n \in 1..K |-> s[n]]
  OBVIOUS
<1> HIDE DEF Nth, K
<1>. QED  BY <1>1, <1>5, <1>6, <1>7

LEMMA PickedNone == ASSUME NEW html PROVE Picked(<<>>, html, {})
<1> DEFINE g == [n \in 1..0 |-> 0]
<1>1. InOrderOf(g, 0, {}) /\ Len(<<>>) = 0
  BY DEF InOrderOf
<1> HIDE DEF g
<1>2. \A n \in 1..0 : FALSE
  OBVIOUS
<1>. QED  BY <1>1, <1>2 DEF Picked

LEMMA PickedSlice ==
    ASSUME NEW B, NEW html \in Seq(B), NEW m \in Nat \ {0}, NEW n \in Nat, n <= Len(html), m <= n + 1
    PROVE  Picked(SubSeq(html, m, n), html, m..n)
<1> DEFINE K == n - m + 1
           s == SubSeq(html, m, n)
           g == [i \in 1..K |-> m + i - 1]
<1>1. s \in Seq(B) /\ Len(s) = K /\ \A i \in 1..K : s[i] = html[m + i - 1]
  BY SliceIs
<1>2. InOrderOf(g, K, m..n)
  <2>1. \A i \in 1..K : m + i - 1 \in m..n
    OBVIOUS
  <2>2. \A i \in m..n : i - m + 1 \in 1..K /\ g[i - m + 1] = i
    OBVIOUS
  <2>3. \A i, j \in 1..K : i < j => g[i] < g[j]
    OBVIOUS
  <2>4. g \in [1..K -> m..n]
    BY <2>1
  <2> HIDE DEF g, K
  <2>. QED  BY <2>2, <2>3, <2>4 DEF InOrderOf
<1>3. \A i \in 1..K : s[i] = html[g[i]]
  BY <1>1
<1> HIDE DEF g, K, s
<1>4. Picked(s, html, m..n)
  BY <1>1, <1>2, <1>3 DEF Picked
<1>. QED  BY <1>4 DEF s

LEMMA PickedConcat ==
    ASSUME NEW B, NEW s \in Seq(B), NEW t \in Seq(B), NEW html, NEW S \in SUBSET Nat, NEW T \in SUBSET Nat,
           Picked(s, html, S), Picked(t, html, T), \A i \in S, j \in T : i < j
    PROVE  Picked(s \o t, html, S \cup T)
<1> DEFINE K == Len(s)
           L == Len(t)
<1>1. PICK g : InOrderOf(g, K, S) /\ \A n \in 1..K : s[n] = html[g[n]]
  BY DEF Picked
<1>2. PICK h : InOrderOf(h, L, T) /\ \A n \in 1..L : t[n] = html[h[n]]
  BY DEF Picked
<1>3. K \in Nat /\ L \in Nat
  OBVIOUS
<1>4. /\ Len(s \o t) = K + L
      /\ \A n \in 1..K : (s \o t)[n] = s[n]
      /\ \A n \in K + 1..K + L : (s \o t)[n] = t[n - K]
  BY ConcatIs
<1> HIDE DEF K, L
<1> DEFINE f == [n \in 1..K + L |-> IF n <= K THEN g[n] ELSE h[n - K]]
<1>5. \A n \in 1..K + L : \/ n \in 1..K /\ n <= K
                          \/ n \in K + 1..K + L /\ ~(n <= K) /\ n - K \in 1..L
  BY <1>3
<1>6. /\ \A n \in 1..K : n \in 1..K + L /\ n <= K
      /\ \A n \in 1..L : n + K \in 1..K + L /\ ~(n + K <= K) /\ (n + K) - K = n
  BY <1>3
<1>7. \A n \in 1..K : g[n] \in S
  BY <1>1 DEF InOrderOf
<1>8. \A n \in 1..L : h[n] \in T
  BY <1>2 DEF InOrderOf
<1>9. f \in [1..K + L -> S \cup T]
  BY <1>5, <1>7, <1>8
<1>10. /\ \A n \in 1..K : f[n] = g[n]
       /\ \A n \in K + 1..K + L : f[n] = h[n - K]
       /\ \A n \in 1..L : f[n + K] = h[n]
  <2>1. \A n \in 1..K : f[n] = g[n]
    BY <1>6
  <2>2. \A n \in K + 1..K + L : n \in 1..K + L /\ ~(n <= K)
    BY <1>3
  <2>3. \A n \in K + 1..K + L : f[n] = h[n - K]
    BY <2>2
  <2>4. \A n \in 1..L : f[n + K] = h[n]
    BY <1>6
  <2>. QED  BY <2>1, <2>3, <2>4
<1> HIDE DEF f
<1>11. ASSUME NEW m \in 1..K + L, NEW n \in 1..K + L, m < n
       PROVE  f[m] < f[n]
  <2>1. CASE n <= K
    <3>1. m \in 1..K /\ n \in 1..K
      BY <1>3, <1>11, <2>1
    <3>. QED  BY <1>1, <1>10, <1>11, <3>1 DEF InOrderOf
  <2>2. CASE m <= K /\ ~(n <= K)
    <3>1. m \in 1..K /\ n \in K + 1..K + L /\ n - K \in 1..L
      BY <1>5, <2>2
    <3>2. f[m] \in S /\ f[n] \in T
      BY <1>7, <1>8, <1>10, <3>1
    <3>. QED  BY <3>2
  <2>3. CASE ~(m <= K)
    <3>1. m \in K + 1..K + L /\ n \in K + 1..K + L /\ m - K \in 1..L /\ n - K \in 1..L /\ m - K < n - K
      BY <1>3, <1>11, <2>3
    <3>. QED  BY <1>2, <1>10, <3>1 DEF InOrderOf
  <2>. QED  BY <1>3, <2>1, <2>2, <2>3
<1>12. ASSUME NEW i \in S \cup T
       PROVE  \E n \in 1..K + L : f[n] = i
  <2>1. CASE i \in S
    <3>1. PICK n \in 1..K : g[n] = i
      BY <1>1, <2>1 DEF InOrderOf
    <3>. QED  BY <1>6, <1>10, <3>1
  <2>2. CASE i \in T
    <3>1. PICK n \in 1..L : h[n] = i
      BY <1>2, <2>2 DEF InOrderOf
    <3>. QED  BY <1>6, <1>10, <3>1
  <2>. QED  BY <2>1, <2>2
<1>13. InOrderOf(f, K + L, S \cup T)
  BY <1>9, <1>11, <1>12 DEF InOrderOf
<1>14. ASSUME NEW n \in 1..K + L
       PROVE  (s \o t)[n] = html[f[n]]
  <2>1. CASE n \in 1..K
    BY <1>1, <1>4, <1>10, <2>1
  <2>2. CASE n \in K + 1..K + L /\ n - K \in 1..L
    <3>1. (s \o t)[n] = t[n - K] /\ f[n] = h[n - K]
      BY <1>4, <1>10, <2>2
    <3>. QED  BY <1>2, <2>2, <3>1
  <2>. QED  BY <1>5, <2>1, <2>2
<1>. QED  BY <1>4, <1>13, <1>14 DEF Picked

-----------------------------------------------------------------------------
(* index_single_url, for pages of any length.                              *)

LEMMA FirstAfterIs ==
    ASSUME NEW html \in Seq(Pieces), NEW p \in Nat, NEW piece
    PROVE  /\ FirstAfter(html, p, piece) = 0 => \A i \in p + 1..Len(html) : html[i] # piece
           /\ FirstAfter(html, p, piece) # 0 =>
                 /\ FirstAfter(html, p, piece) \in p + 1..Len(html)
                 /\ html[FirstAfter(html, p, piece)] = piece
                 /\ \A i \in p + 1..FirstAfter(html, p, piece) - 1 : html[i] # piece
<1> DEFINE L == Len(html)
           found == {i \in p + 1..L : html[i] = piece}
           f == FirstAfter(html, p, piece)
<1>1. L \in Nat /\ f = IF found = {} THEN 0 ELSE Min(found)
  BY DEF FirstAfter
<1>2. CASE found = {}
  <2>1. f = 0 /\ \A i \in p + 1..L : html[i] # piece
    BY <1>1, <1>2
  <2>. QED  BY <2>1
<1>3. CASE found # {}
  <2>1. found \in SUBSET Nat
    BY <1>1
  <2>2. f \in found /\ \A i \in found : f <= i
    <3> HIDE DEF found, f
    <3>. QED  BY <1>1, <1>3, <2>1, LeastIs
  <2> HIDE DEF f
  <2>3. f \in p + 1..L /\ html[f] = piece
    BY <2>2
  <2>4. \A i \in p + 1..f - 1 : html[i] # piece
    <3> SUFFICES ASSUME NEW i \in p + 1..f - 1, html[i] = piece
                 PROVE  FALSE
      OBVIOUS
    <3>1. i \in p + 1..L /\ ~(f <= i)
      BY <1>1, <2>3
    <3>. QED  BY <2>2, <3>1
  <2>5. f # 0
    BY <2>3
  <2>. QED  BY <2>3, <2>4, <2>5 DEF f
<1>. QED  BY <1>2, <1>3

Scripted(html, i) == \E j \in 1..i : html[j] = "<script" /\ \A k \in j..i - 1 : html[k] # "</script>"
\* Every script that begins at p or before is over at p.
Outside(html, p) == \A j \in 1..p : html[j] = "<script" => \E k \in j..p : html[k] = "</script>"
ShownAfter(html, p) == {i \in p + 1..Len(html) : ~Scripted(html, i)}

\* What is shown after p: all up to the next script, and what is shown after that.
LEMMA ShownIs ==
    ASSUME NEW html \in Seq(Pieces), NEW p \in 0..Len(html), Outside(html, p),
           NEW start, start = FirstAfter(html, p, "<script"),
           NEW end, end = FirstAfter(html, start, "</script>")
    PROVE  /\ start = 0 => ShownAfter(html, p) = p + 1..Len(html)
           /\ start # 0 /\ end = 0 => ShownAfter(html, p) = p + 1..start - 1
           /\ start # 0 /\ end # 0 => /\ Outside(html, end)
                                      /\ ShownAfter(html, p) = (p + 1..start - 1) \cup ShownAfter(html, end)
<1> DEFINE L == Len(html)
<1>1. L \in Nat /\ p \in Nat /\ p <= L
  OBVIOUS
<1>2. /\ start = 0 => \A i \in p + 1..L : html[i] # "<script"
      /\ start # 0 => /\ start \in p + 1..L /\ html[start] = "<script"
                      /\ \A i \in p + 1..start - 1 : html[i] # "<script"
  BY <1>1, FirstAfterIs
<1>3. ASSUME NEW i \in p + 1..L, \A j \in p + 1..i : html[j] # "<script"
      PROVE  ~Scripted(html, i)
  <2> SUFFICES ASSUME NEW j \in 1..i, html[j] = "<script", \A k \in j..i - 1 : html[k] # "</script>"
               PROVE  FALSE
    BY DEF Scripted
  <2>1. j \in 1..p
    BY <1>1, <1>3
  <2>2. PICK k \in j..p : html[k] = "</script>"
    BY <2>1 DEF Outside
  <2>3. k \in j..i - 1
    BY <1>1
  <2>. QED  BY <2>2, <2>3
<1>4. CASE start = 0
  <2>1. \A i \in p + 1..L : ~Scripted(html, i)
    <3> TAKE i \in p + 1..L
    <3>1. \A j \in p + 1..i : j \in p + 1..L
      BY <1>1
    <3>. QED  BY <1>2, <1>3, <1>4, <3>1
  <2>. QED  BY <1>4, <2>1 DEF ShownAfter
<1>5. CASE start # 0
  <2>1. /\ start \in Nat /\ start \in p + 1..L /\ html[start] = "<script"
        /\ \A i \in p + 1..start - 1 : html[i] # "<script"
    BY <1>1, <1>2, <1>5
  <2>2. /\ end = 0 => \A i \in start + 1..L : html[i] # "</script>"
        /\ end # 0 => /\ end \in start + 1..L /\ html[end] = "</script>"
                      /\ \A i \in start + 1..end - 1 : html[i] # "</script>"
    BY <2>1, FirstAfterIs
  <2>3. \A i \in p + 1..start - 1 : i \in p + 1..L /\ ~Scripted(html, i)
    <3> TAKE i \in p + 1..start - 1
    <3>1. i \in p + 1..L /\ \A j \in p + 1..i : j \in p + 1..start - 1
      BY <1>1, <2>1
    <3>. QED  BY <1>3, <2>1, <3>1
  <2>4. ASSUME NEW i \in start..L, end # 0 => i <= end
        PROVE  Scripted(html, i)
    <3>1. start \in 1..i
      BY <1>1, <2>1
    <3>2. \A k \in start..i - 1 : html[k] # "</script>"
      <4> TAKE k \in start..i - 1
      <4>1. CASE k = start
        BY <2>1, <4>1
      <4>2. CASE k # start
        <5>1. k \in start + 1..L /\ (end # 0 => k \in start + 1..end - 1)
          BY <1>1, <2>1, <2>2, <2>4, <4>2
        <5>. QED  BY <2>2, <5>1
      <4>. QED  BY <4>1, <4>2
    <3>. QED  BY <2>1, <3>1, <3>2 DEF Scripted
  <2>5. CASE end = 0
    <3>1. \A i \in p + 1..L : i \in p + 1..start - 1 \/ Scripted(html, i)
      <4> TAKE i \in p + 1..L
      <4>1. i \in p + 1..start - 1 \/ i \in start..L
        BY <1>1, <2>1
      <4>. QED  BY <2>4, <2>5, <4>1
    <3>2. ShownAfter(html, p) = p + 1..start - 1
      BY <2>3, <3>1 DEF ShownAfter
    <3>. QED  BY <1>5, <2>5, <3>2
  <2>6. CASE end # 0
    <3>1. end \in start + 1..L /\ html[end] = "</script>" /\ end \in Nat
      BY <1>1, <2>1, <2>2, <2>6
    <3>2. Outside(html, end)
      <4>1. \A j \in 1..end : end \in j..end
        BY <3>1
      <4>. QED  BY <3>1, <4>1 DEF Outside
    <3>3. \A i \in p + 1..L : i \in p + 1..start - 1 \/ i \in end + 1..L \/ Scripted(html, i)
      <4> TAKE i \in p + 1..L
      <4>1. i \in p + 1..start - 1 \/ i \in end + 1..L \/ (i \in start..L /\ i <= end)
        BY <1>1, <2>1, <3>1
      <4>. QED  BY <2>4, <4>1
    <3>4. \A i \in end + 1..L : i \in p + 1..L
      BY <1>1, <2>1, <3>1
    <3>5. ShownAfter(html, p) = (p + 1..start - 1) \cup ShownAfter(html, end)
      BY <2>3, <3>3, <3>4 DEF ShownAfter
    <3>. QED  BY <1>5, <2>6, <3>2, <3>5
  <2>. QED  BY <2>5, <2>6
<1>. QED  BY <1>4, <1>5

\* strip_script_blocks leaves what is shown.
LEMMA StrippedIs ==
    ASSUME NEW html \in Seq(Pieces)
    PROVE  /\ StripScriptBlocks(html) \in Seq(Pieces)
           /\ StripScriptBlocks(html) = PiecesAt(html, {i \in DOMAIN html : ~Scripted(html, i)})
<1> DEFINE L == Len(html)
           X == Seq(Pieces)
           Start(p) == FirstAfter(html, p, "<script")
           Close(p) == FirstAfter(html, Start(p), "</script>")
           After(f) == [p \in 0..Len(html) |->
                           LET start == FirstAfter(html, p, "<script")
                               end == FirstAfter(html, start, "</script>")
                           IN  IF start = 0 THEN SubSeq(html, p + 1, Len(html))
                               ELSE SubSeq(html, p + 1, start - 1) \o (IF end = 0 THEN <<>> ELSE f[end])]
           rest == CHOOSE f : f = After(f)
           Front1(p) == SubSeq(html, p + 1, IF Start(p) = 0 THEN L ELSE Start(p) - 1)
           next == [p \in 0..L |-> IF Start(p) = 0 THEN 0 ELSE Close(p)]
           last == [p \in 0..L |-> Front1(p)]
           step == [p \in 0..L |-> [x \in X |-> Front1(p) \o x]]
<1>1. StripScriptBlocks(html) = rest[0]
  BY DEF StripScriptBlocks
<1>2. L \in Nat /\ 0 \in 0..L
  OBVIOUS
<1>3. ASSUME NEW p \in 0..L
      PROVE  /\ Start(p) # 0 => Start(p) \in p + 1..L
             /\ Start(p) # 0 /\ Close(p) # 0 => Close(p) \in Start(p) + 1..L
  <2>1. p \in Nat
    BY <1>2
  <2>2. Start(p) # 0 => Start(p) \in p + 1..L
    BY <2>1, FirstAfterIs
  <2>3. Start(p) # 0 => Start(p) \in Nat
    BY <2>1, <2>2
  <2>4. Start(p) # 0 /\ Close(p) # 0 => Close(p) \in Start(p) + 1..L
    BY <2>3, FirstAfterIs
  <2>. QED  BY <2>2, <2>4
<1> HIDE DEF Start, Close
<1>4. ASSUME NEW p \in 0..L
      PROVE  /\ Front1(p) \in X
             /\ Picked(Front1(p), html, p + 1..(IF Start(p) = 0 THEN L ELSE Start(p) - 1))
  <2> DEFINE n == IF Start(p) = 0 THEN L ELSE Start(p) - 1
  <2>1. p + 1 \in Nat \ {0} /\ n \in Nat /\ n <= Len(html) /\ p + 1 <= n + 1
    BY <1>2, <1>3
  <2> HIDE DEF n
  <2>2. SubSeq(html, p + 1, n) \in Seq(Pieces) /\ Picked(SubSeq(html, p + 1, n), html, p + 1..n)
    BY <2>1, SliceIs, PickedSlice
  <2>. QED  BY <2>2 DEF n
<1> HIDE DEF Front1
<1>5. PICK g : Jumps(g, L, X, next, last, step)
  <2>1. next \in NextsOn(L)
    <3>1. \A p \in 0..L : next[p] \in 0..L /\ (next[p] = 0 \/ next[p] > p)
      BY <1>2, <1>3
    <3>2. next \in [0..L -> 0..L]
      BY <3>1
    <3>. QED  BY <3>1, <3>2 DEF NextsOn
  <2>2. last \in LastsOn(L, X)
    BY <1>4 DEF LastsOn
  <2>3. step \in JumpsOn(L, X)
    <3>1. \A p \in 0..L, x \in X : Front1(p) \o x \in X
      BY <1>4, ConcatIs
    <3>. QED  BY <3>1 DEF JumpsOn
  <2> HIDE DEF next, last, step, X, L
  <2>. QED  BY <1>2, <2>1, <2>2, <2>3, JumpsExist
<1>6. g = After(g)
  <2>1. g \in [0..L -> X] /\ \A p \in 0..L : g[p] = IF next[p] = 0 THEN last[p] ELSE step[p][g[next[p]]]
    BY <1>5 DEF Jumps
  <2>2. \A p \in 0..L : g[p] = After(g)[p]
    <3> TAKE p \in 0..L
    <3>1. CASE Start(p) = 0
      BY <2>1, <3>1 DEF Front1, Start
    <3>2. CASE Start(p) # 0 /\ Close(p) = 0
      <4>1. g[p] = Front1(p) /\ Front1(p) = SubSeq(html, p + 1, Start(p) - 1)
        BY <2>1, <3>2 DEF Front1
      <4>2. Front1(p) \o <<>> = Front1(p)
        BY <1>4
      <4>3. After(g)[p] = SubSeq(html, p + 1, Start(p) - 1) \o <<>>
        BY <3>2 DEF Start, Close
      <4>. QED  BY <4>1, <4>2, <4>3
    <3>3. CASE Start(p) # 0 /\ Close(p) # 0
      <4>1. Close(p) \in 0..L
        BY <1>2, <1>3, <3>3
      <4>2. g[Close(p)] \in X
        BY <2>1, <4>1
      <4>3. g[p] = Front1(p) \o g[Close(p)] /\ Front1(p) = SubSeq(html, p + 1, Start(p) - 1)
        BY <2>1, <3>3, <4>2 DEF Front1
      <4>4. After(g)[p] = SubSeq(html, p + 1, Start(p) - 1) \o g[Close(p)]
        BY <3>3 DEF Start, Close
      <4>. QED  BY <4>3, <4>4
    <3>. QED  BY <3>1, <3>2, <3>3
  <2>. QED  BY <2>1, <2>2
<1>7. rest = After(rest)
  <2>1. \E f : f = After(f)
    BY <1>6
  <2> HIDE DEF After
  <2>. QED  BY <2>1
<1> HIDE DEF rest
<1>8. \A p \in 0..L : rest[p] = IF Start(p) = 0 THEN Front1(p)
                                ELSE Front1(p) \o (IF Close(p) = 0 THEN <<>> ELSE rest[Close(p)])
  BY <1>7 DEF Start, Close, Front1
<1> HIDE DEF After
<1> DEFINE Right(p) == Outside(html, p) => rest[p] \in X /\ Picked(rest[p], html, ShownAfter(html, p))
           T == {m \in 0..L + 1 : \A p \in 0..L : p > L - m => Right(p)}
<1>9. 0 \in T
  BY <1>2
<1>10. ASSUME NEW m \in 0..L + 1, m \in T, m < L + 1
       PROVE  m + 1 \in T
  <2> DEFINE p == L - m
  <2>1. p \in 0..L /\ m + 1 \in 0..L + 1 /\ \A q \in 0..L : q > L - (m + 1) => q = p \/ q > L - m
    BY <1>2, <1>10
  <2>2. \A q \in 0..L : q > p => Right(q)
    BY <1>10
  <2> HIDE DEF p
  <2>3. Right(p)
    <3> SUFFICES ASSUME Outside(html, p)
                 PROVE  rest[p] \in X /\ Picked(rest[p], html, ShownAfter(html, p))
      OBVIOUS
    <3>1. /\ Start(p) = 0 => ShownAfter(html, p) = p + 1..L
          /\ Start(p) # 0 /\ Close(p) = 0 => ShownAfter(html, p) = p + 1..Start(p) - 1
          /\ Start(p) # 0 /\ Close(p) # 0 =>
                /\ Outside(html, Close(p))
                /\ ShownAfter(html, p) = (p + 1..Start(p) - 1) \cup ShownAfter(html, Close(p))
      BY <2>1, ShownIs DEF Start, Close
    <3>2. CASE Start(p) = 0
      BY <1>4, <1>8, <2>1, <3>1, <3>2
    <3>3. CASE Start(p) # 0 /\ Close(p) = 0
      <4>1. Front1(p) \in X /\ Front1(p) \o <<>> = Front1(p)
        BY <1>4, <2>1
      <4>. QED  BY <1>4, <1>8, <2>1, <3>1, <3>3, <4>1
    <3>4. CASE Start(p) # 0 /\ Close(p) # 0
      <4> DEFINE q == Close(p)
                 A == p + 1..Start(p) - 1
                 Z == ShownAfter(html, q)
      <4>1. q \in 0..L /\ q > p /\ q > Start(p)
        BY <1>2, <1>3, <2>1, <3>4
      <4>2. rest[q] \in Seq(Pieces) /\ Picked(rest[q], html, Z)
        BY <2>2, <3>1, <3>4, <4>1
      <4>3. Front1(p) \in Seq(Pieces) /\ Picked(Front1(p), html, A)
        BY <1>4, <2>1, <3>4
      <4>4. A \in SUBSET Nat /\ Z \in SUBSET Nat /\ \A i \in A, j \in Z : i < j
        <5>1. p \in Nat /\ q \in Nat /\ Start(p) \in Nat
          BY <1>2, <1>3, <2>1, <3>4, <4>1
        <5>2. \A j \in Z : j \in q + 1..L
          BY DEF ShownAfter
        <5> HIDE DEF q, Z
        <5>. QED  BY <1>2, <4>1, <5>1, <5>2
      <4>5. rest[p] = Front1(p) \o rest[q]
        BY <1>8, <2>1, <3>4
      <4>6. ShownAfter(html, p) = A \cup Z
        BY <3>1, <3>4
      <4> HIDE DEF A, Z, q
      <4>7. Front1(p) \o rest[q] \in Seq(Pieces) /\ Picked(Front1(p) \o rest[q], html, A \cup Z)
        BY <4>2, <4>3, <4>4, PickedConcat, ConcatIs
      <4>. QED  BY <4>5, <4>6, <4>7
    <3>. QED  BY <3>2, <3>3, <3>4
  <2> HIDE DEF Right
  <2>. QED  BY <2>1, <2>2, <2>3 DEF p
<1>11. \A m \in 0..L + 1 : m \in T
  <2>1. L + 1 \in Nat
    BY <1>2
  <2> HIDE DEF T
  <2>. QED  BY <1>9, <1>10, <2>1, UpTo
<1>12. Right(0)
  <2>1. L + 1 \in 0..L + 1 /\ 0 > L - (L + 1)
    BY <1>2
  <2> HIDE DEF Right
  <2>. QED  BY <1>2, <1>11, <2>1
<1>13. Outside(html, 0)
  BY DEF Outside
<1>14. ShownAfter(html, 0) = {i \in DOMAIN html : ~Scripted(html, i)} /\ ShownAfter(html, 0) \in SUBSET Nat
  <2>1. DOMAIN html = 0 + 1..L
    BY <1>2
  <2>. QED  BY <2>1 DEF ShownAfter
<1>. QED  BY <1>1, <1>12, <1>13, <1>14, PickedIs

Titled(html, i) ==
    /\ html[i] # "blank"
    /\ \E j \in 1..i - 1 : html[j] = "<title>" /\ \A k \in j..i : html[k] # "</title>"
    /\ \E k \in i..Len(html) : html[k] = "</title>"
    /\ \A j, k \in 1..i : html[j] = "<title>" /\ html[k] = "</title>" => j > k

\* extract_title takes what stands between the first title's tags.
LEMMA TitleIs ==
    ASSUME NEW html \in Seq(Pieces)
    PROVE  ExtractTitle(html) = PiecesAt(html, {i \in DOMAIN html : Titled(html, i)})
<1> DEFINE L == Len(html)
           start == FirstAfter(html, 0, "<title>")
           end == FirstAfter(html, start, "</title>")
           places == {i \in DOMAIN html : Titled(html, i)}
<1>1. L \in Nat /\ DOMAIN html = 1..L
  OBVIOUS
<1>2. /\ start = 0 => \A i \in 1..L : html[i] # "<title>"
      /\ start # 0 => start \in 1..L /\ html[start] = "<title>" /\ \A i \in 1..start - 1 : html[i] # "<title>"
  <2>1. 0 \in Nat /\ 0 + 1 = 1
    OBVIOUS
  <2>. QED  BY <2>1, FirstAfterIs
<1>3. start \in Nat
  BY <1>1, <1>2
<1>4. /\ end = 0 => \A i \in start + 1..L : html[i] # "</title>"
      /\ end # 0 => end \in start + 1..L /\ html[end] = "</title>" /\ \A i \in start + 1..end - 1 : html[i] # "</title>"
  BY <1>3, FirstAfterIs
<1>5. ExtractTitle(html) = IF start = 0 \/ end = 0 THEN <<>>
                           ELSE PiecesAt(html, {i \in start + 1..end - 1 : html[i] # "blank"})
  BY DEF ExtractTitle
<1> HIDE DEF start, end
<1>6. ASSUME NEW i \in DOMAIN html, Titled(html, i)
      PROVE  start # 0 /\ end # 0 /\ i \in start + 1..end - 1
  <2>1. PICK j \in 1..i - 1 : html[j] = "<title>" /\ \A k \in j..i : html[k] # "</title>"
    BY <1>6 DEF Titled
  <2>2. PICK k \in i..L : html[k] = "</title>"
    BY <1>6 DEF Titled
  <2>3. start # 0 /\ start <= j
    BY <1>1, <1>2, <2>1
  <2>4. start < i /\ start < k /\ start \in 1..i /\ k \in start + 1..L
    BY <1>1, <1>2, <1>3, <2>1, <2>2, <2>3
  <2>5. end # 0
    BY <1>4, <2>2, <2>4
  <2>6. end \in start + 1..L /\ html[end] = "</title>" /\ html[start] = "<title>"
    BY <1>2, <1>4, <2>3, <2>5
  <2>7. ~(end <= i)
    <3> SUFFICES ASSUME end <= i
                 PROVE  FALSE
      OBVIOUS
    <3>1. end \in 1..i
      BY <1>3, <2>6
    <3>2. start > end
      BY <1>6, <2>4, <2>6, <3>1 DEF Titled
    <3>. QED  BY <1>3, <2>6, <3>2
  <2>. QED  BY <1>1, <1>3, <2>3, <2>4, <2>5, <2>6, <2>7
<1>7. CASE start = 0 \/ end = 0
  <2>1. places = {}
    BY <1>6, <1>7
  <2>2. <<>> \in Seq(Pieces) /\ {} \in SUBSET Nat
    OBVIOUS
  <2>3. PiecesAt(html, {}) = <<>>
    BY <2>2, PickedNone, PickedIs
  <2>. QED  BY <1>5, <1>7, <2>1, <2>3
<1>8. CASE ~(start = 0 \/ end = 0)
  <2>1. /\ start \in 1..L /\ html[start] = "<title>" /\ \A i \in 1..start - 1 : html[i] # "<title>"
        /\ end \in start + 1..L /\ html[end] = "</title>" /\ \A i \in start + 1..end - 1 : html[i] # "</title>"
    BY <1>2, <1>4, <1>8
  <2>2. ASSUME NEW i \in start + 1..end - 1, html[i] # "blank"
        PROVE  i \in DOMAIN html /\ Titled(html, i)
    <3>1. i \in 1..L /\ start \in 1..i - 1 /\ end \in i..L
      BY <1>1, <1>3, <2>1
    <3>2. \A k \in start..i : html[k] # "</title>"
      <4> TAKE k \in start..i
      <4>1. k = start \/ k \in start + 1..end - 1
        BY <1>3, <2>1
      <4>. QED  BY <2>1, <4>1
    <3>3. ASSUME NEW j \in 1..i, NEW k \in 1..i, html[j] = "<title>", html[k] = "</title>"
          PROVE  j > k
      <4>1. ~(j \in 1..start - 1) /\ ~(k \in start..i)
        BY <2>1, <3>2, <3>3
      <4>. QED  BY <1>3, <4>1
    <3>. QED  BY <1>1, <2>1, <2>2, <3>1, <3>2, <3>3 DEF Titled
  <2>3. {i \in start + 1..end - 1 : html[i] # "blank"} = places
    <3>1. \A i \in DOMAIN html : Titled(html, i) => html[i] # "blank"
      BY DEF Titled
    <3>. QED  BY <1>6, <2>2, <3>1
  <2>. QED  BY <1>5, <1>8, <2>3
<1>. QED  BY <1>7, <1>8

\* What PageIsIndexed says of a page and what comes of it.
Indexes(page, indexed) ==
    LET html == page.html
        shown == PiecesAt(html, {i \in DOMAIN html : ~Scripted(html, i)})
        titled == PiecesAt(html, {i \in DOMAIN html : Titled(html, i)})
        dynamic == Has(html, "network.fetch(") \/ (Has(html, "lua") /\ Has(html, "<script"))
        doc == indexed.added[1]
    IN  /\ indexed.ok = (page.fetched /\ page.code2xx)
        /\ Len(indexed.added) = IF indexed.ok /\ page.contentType # "other" THEN 1 ELSE 0
        /\ Len(indexed.requeued) = IF indexed.added # <<>> /\ dynamic /\ page.slow THEN 1 ELSE 0
        /\ indexed.added # <<>> =>
               /\ doc.content = IF ~dynamic \/ page.slow THEN html
                                ELSE IF Has(shown, Marker) THEN shown ELSE shown \o <<Marker>>
               /\ doc.title = IF titled = <<>> THEN <<"domain">> ELSE titled

LEMMA PagesIndexed ==
    ASSUME NEW page, page.html \in Seq(Pieces),
           page.fetched \in BOOLEAN, page.code2xx \in BOOLEAN, page.slow \in BOOLEAN
    PROVE  Indexes(page, IndexSingleUrl(page))
<1> DEFINE html == page.html
           shown == PiecesAt(html, {i \in DOMAIN html : ~Scripted(html, i)})
           titled == PiecesAt(html, {i \in DOMAIN html : Titled(html, i)})
           dynamic == Has(html, "network.fetch(") \/ (Has(html, "lua") /\ Has(html, "<script"))
           indexed == IndexSingleUrl(page)
           outcome == RenderOnce(html, page.slow)
           title == IF titled = <<>> THEN <<"domain">> ELSE titled
           doc == [title |-> title, content |-> outcome.content, renderMode |-> outcome.mode]
<1>1. StripScriptBlocks(html) = shown /\ shown \in Seq(Pieces)
  BY StrippedIs
<1>2. ExtractTitle(html) = titled
  BY TitleIs
<1>3. DetectDynamic(html) # "None" <=> dynamic
  BY DEF DetectDynamic
<1> HIDE DEF shown, titled, dynamic
<1>4. shown \o <<Marker>> = Append(shown, Marker)
  <2>1. Marker \in Pieces
    BY DEF Marker, Pieces
  <2>. QED  BY <1>1, <2>1, AppendIsConcat
<1>5. /\ outcome.content = IF ~dynamic \/ page.slow THEN html
                           ELSE IF Has(shown, Marker) THEN shown ELSE shown \o <<Marker>>
      /\ outcome.timedOut = (dynamic /\ page.slow)
  BY <1>1, <1>3, <1>4 DEF RenderOnce
<1> HIDE DEF outcome
<1>6. indexed = IF ~page.fetched \/ ~page.code2xx THEN [ok |-> FALSE, added |-> <<>>, requeued |-> <<>>]
                ELSE IF page.contentType = "other" THEN [ok |-> TRUE, added |-> <<>>, requeued |-> <<>>]
                ELSE [ok |-> TRUE, added |-> <<doc>>,
                      requeued |-> IF outcome.timedOut THEN <<outcome.reason>> ELSE <<>>]
  BY <1>2 DEF IndexSingleUrl, ProcessFetchedDocument, outcome
<1> HIDE DEF indexed, html
<1>7. CASE ~page.fetched \/ ~page.code2xx
  <2>1. indexed.ok = FALSE /\ indexed.added = <<>> /\ indexed.requeued = <<>>
    BY <1>6, <1>7
  <2>. QED  BY <1>7, <2>1 DEF Indexes, indexed
<1>8. CASE ~(~page.fetched \/ ~page.code2xx) /\ page.contentType = "other"
  <2>1. indexed.ok = TRUE /\ indexed.added = <<>> /\ indexed.requeued = <<>>
    BY <1>6, <1>8
  <2>. QED  BY <1>8, <2>1 DEF Indexes, indexed
<1>9. CASE ~(~page.fetched \/ ~page.code2xx) /\ page.contentType # "other"
  <2>1. /\ indexed.ok = TRUE /\ indexed.added = <<doc>>
        /\ indexed.requeued = IF outcome.timedOut THEN <<outcome.reason>> ELSE <<>>
    BY <1>6, <1>9
  <2>2. Len(indexed.added) = 1 /\ indexed.added # <<>> /\ indexed.added[1] = doc
    BY <2>1
  <2>3. Len(indexed.requeued) = IF dynamic /\ page.slow THEN 1 ELSE 0
    <3>1. Len(<<outcome.reason>>) = 1 /\ Len(<<>>) = 0
      OBVIOUS
    <3>2. CASE dynamic /\ page.slow
      BY <1>5, <2>1, <3>1, <3>2
    <3>3. CASE ~(dynamic /\ page.slow)
      BY <1>5, <2>1, <3>1, <3>3
    <3>. QED  BY <3>2, <3>3
  <2>4. indexed.added[1].content = outcome.content /\ indexed.added[1].title = title
    BY <2>2
  <2> HIDE DEF doc
  <2>5. indexed.ok = (page.fetched /\ page.code2xx)
    BY <1>9, <2>1
  <2>. QED  BY <1>5, <1>9, <2>1, <2>2, <2>3, <2>4, <2>5 DEF Indexes, indexed, html, shown, titled, dynamic
<1>. QED  BY <1>7, <1>8, <1>9

-----------------------------------------------------------------------------
(* collect_candidate_urls, for sitemaps of any length.                     *)

SitemapPieces == {"other", "<loc", "</loc", ">", Blank} \cup Spellings
IsTexts(texts) == texts \in Seq(EntryTexts)
Through(texts, n) == Len(Read(Entries(texts), n))

LEMMA EntryIs ==
    ASSUME NEW t \in EntryTexts
    PROVE  /\ t \in Seq(SitemapPieces) /\ Entry(t) \in Seq(SitemapPieces)
           /\ Len(t) \in Nat /\ Len(Entry(t)) = Len(t) + 6
           /\ Entry(t)[1] = "other" /\ Entry(t)[2] = "<loc" /\ Entry(t)[3] = "other" /\ Entry(t)[4] = ">"
           /\ \A j \in 1..Len(t) : Entry(t)[4 + j] = t[j] /\ t[j] \notin {"<loc", "</loc", ">"}
           /\ Entry(t)[Len(t) + 5] = "</loc" /\ Entry(t)[Len(t) + 6] = ">"
<1> DEFINE X == SitemapPieces
           front1 == <<"other", "<loc", "other", ">">>
           back == <<"</loc", ">">>
<1>1. t \in Seq(X) /\ Len(t) \in Nat
  <2>1. t = <<>> \/ \E s \in Spellings : t = <<Blank, s, Blank>>
    BY DEF EntryTexts
  <2>2. Blank \in X /\ Spellings \subseteq X
    BY DEF SitemapPieces
  <2> HIDE DEF X
  <2>3. CASE t = <<>>
    BY <2>3
  <2>4. ASSUME NEW s \in Spellings, t = <<Blank, s, Blank>>
        PROVE  t \in Seq(X) /\ Len(t) \in Nat
    <3>1. s \in X
      BY <2>2
    <3>. QED  BY <2>2, <2>4, <3>1
  <2>. QED  BY <2>1, <2>3, <2>4
<1>2. \A j \in 1..Len(t) : t[j] \notin {"<loc", "</loc", ">"}
  BY CandidatesAssumption DEF EntryTexts
<1>3. front1 \in Seq(X) /\ Len(front1) = 4 /\ back \in Seq(X) /\ Len(back) = 2
  BY DEF SitemapPieces
<1>4. front1[1] = "other" /\ front1[2] = "<loc" /\ front1[3] = "other" /\ front1[4] = ">"
  OBVIOUS
<1>5. back[1] = "</loc" /\ back[2] = ">"
  OBVIOUS
<1> DEFINE ft == front1 \o t
           e == ft \o back
<1>6. Entry(t) = e
  BY DEF Entry
<1> HIDE DEF front1, back, X
<1>7. /\ ft \in Seq(X) /\ Len(ft) = Len(t) + 4
      /\ \A i \in 1..4 : ft[i] = front1[i]
      /\ \A i \in 4 + 1..4 + Len(t) : ft[i] = t[i - 4]
  <2>1. /\ ft \in Seq(X) /\ Len(ft) = Len(front1) + Len(t)
        /\ \A i \in 1..Len(front1) : ft[i] = front1[i]
        /\ \A i \in Len(front1) + 1..Len(front1) + Len(t) : ft[i] = t[i - Len(front1)]
    BY <1>1, <1>3, ConcatIs
  <2> HIDE DEF ft
  <2>. QED  BY <1>1, <1>3, <2>1
<1> HIDE DEF ft
<1>8. /\ e \in Seq(X) /\ Len(e) = Len(ft) + Len(back)
      /\ \A i \in 1..Len(ft) : e[i] = ft[i]
      /\ \A i \in Len(ft) + 1..Len(ft) + Len(back) : e[i] = back[i - Len(ft)]
  BY <1>3, <1>7, ConcatIs
<1> HIDE DEF e
<1>9. e \in Seq(X) /\ Len(e) = Len(t) + 6
  BY <1>1, <1>3, <1>7, <1>8
<1>10. e[1] = "other" /\ e[2] = "<loc" /\ e[3] = "other" /\ e[4] = ">"
  <2>1. \A i \in 1..4 : i \in 1..Len(ft)
    BY <1>1, <1>7
  <2>2. \A i \in 1..4 : e[i] = front1[i]
    BY <1>7, <1>8, <2>1
  <2>. QED  BY <1>4, <2>2
<1>11. \A j \in 1..Len(t) : e[4 + j] = t[j]
  <2> TAKE j \in 1..Len(t)
  <2>1. 4 + j \in 1..Len(ft) /\ 4 + j \in 4 + 1..4 + Len(t) /\ (4 + j) - 4 = j
    BY <1>1, <1>7
  <2>. QED  BY <1>7, <1>8, <2>1
<1>12. e[Len(t) + 5] = back[1] /\ e[Len(t) + 6] = back[2]
  <2>1. /\ Len(t) + 5 \in Len(ft) + 1..Len(ft) + Len(back) /\ (Len(t) + 5) - Len(ft) = 1
        /\ Len(t) + 6 \in Len(ft) + 1..Len(ft) + Len(back) /\ (Len(t) + 6) - Len(ft) = 2
    BY <1>1, <1>3, <1>7
  <2>. QED  BY <1>8, <2>1
<1>. QED  BY <1>1, <1>2, <1>5, <1>6, <1>9, <1>10, <1>11, <1>12 DEF X

\* Where the n-th entry stands in the sitemap.
LEMMA EntryStands ==
    ASSUME NEW texts, IsTexts(texts), NEW n \in 1..Len(texts)
    PROVE  /\ Len(texts) \in Nat /\ texts[n] \in EntryTexts
           /\ Entries(texts) \in Seq(Seq(SitemapPieces)) /\ Len(Entries(texts)) = Len(texts)
           /\ Through(texts, n - 1) \in Nat /\ Through(texts, n) = Through(texts, n - 1) + Len(Entry(texts[n]))
           /\ Through(texts, n) <= Len(Sitemap(texts))
           /\ \A j \in 1..Len(Entry(texts[n])) :
                 Sitemap(texts)[Through(texts, n - 1) + j] = Entry(texts[n])[j]
<1> DEFINE X == SitemapPieces
           N == Len(texts)
           es == Entries(texts)
           before == Read(es, n - 1)
           through == Read(es, n)
           all == Read(es, N)
           e == Entry(texts[n])
<1>1. N \in Nat /\ n \in 0..N /\ n - 1 \in 0..N /\ N \in 0..N /\ \A k \in 1..N : texts[k] \in EntryTexts
  BY ElementOfSeq DEF IsTexts
<1>2. \A k \in 1..N : Entry(texts[k]) \in Seq(X)
  BY <1>1, EntryIs
<1>3. DOMAIN texts = 1..N
  BY DEF IsTexts
<1>4. es = [k \in 1..N |-> Entry(texts[k])]
  BY <1>3 DEF Entries
<1>5. es \in Seq(Seq(X)) /\ Len(es) = N /\ es[n] = e
  <2>1. es \in [1..N -> Seq(X)] /\ es[n] = e
    BY <1>2, <1>4
  <2>2. es \in Seq(Seq(X)) /\ Len(es) = N
    <3> HIDE DEF es, N, X
    <3>. QED  BY <1>1, <2>1
  <2>. QED  BY <2>1, <2>2
<1>6. /\ before \in Seq(X) /\ through \in Seq(X) /\ all \in Seq(X) /\ e \in Seq(X)
      /\ through = before \o e
  <2> HIDE DEF X, N, es, e
  <2>1. \A k \in 0..N : Read(es, k) \in Seq(X)
    BY <1>5, ReadIs
  <2>2. n \in 1..Len(es)
    BY <1>5 DEF N
  <2>3. es[n] \in Seq(X) /\ Read(es, n) = Read(es, n - 1) \o es[n]
    BY <1>5, <2>2, ReadIs
  <2>. QED  BY <1>1, <1>5, <2>1, <2>3
<1>7. Len(through) <= Len(all) /\ through = SubSeq(all, 1, Len(through))
  <2>1. N \in 0..Len(es) /\ n \in 0..N
    BY <1>1, <1>5
  <2> HIDE DEF X, N, es, through, all
  <2>2. Fronts(es, n, N)
    BY <1>5, <2>1, ReadsGrow
  <2>. QED  BY <2>2 DEF Fronts, through, all
<1>8. Through(texts, n - 1) = Len(before) /\ Through(texts, n) = Len(through) /\ Sitemap(texts) = all
  BY DEF Through, Sitemap
<1> HIDE DEF X, N, es, e, before, through, all
<1>9. /\ Len(before) \in Nat /\ Len(e) \in Nat /\ Len(through) = Len(before) + Len(e) /\ Len(through) \in Nat
      /\ \A j \in Len(before) + 1..Len(before) + Len(e) : through[j] = e[j - Len(before)]
  <2>1. Len(before) \in Nat /\ Len(e) \in Nat
    BY <1>6, LenProperties
  <2>. QED  BY <1>6, <2>1, ConcatIs
<1>10. \A j \in 1..Len(through) : all[j] = through[j]
  BY <1>6, <1>7, <1>9, PrefixIs
<1>11. \A j \in 1..Len(e) : all[Len(before) + j] = e[j]
  <2> TAKE j \in 1..Len(e)
  <2>1. /\ Len(before) + j \in 1..Len(through) /\ (Len(before) + j) - Len(before) = j
        /\ Len(before) + j \in Len(before) + 1..Len(before) + Len(e)
    BY <1>9
  <2>. QED  BY <1>9, <1>10, <2>1
<1>. QED  BY <1>1, <1>5, <1>7, <1>8, <1>9, <1>11 DEF N, es, e, X

LEMMA FindIs ==
    ASSUME NEW xml \in Seq(SitemapPieces), NEW p \in Nat, NEW piece
    PROVE  /\ Find(xml, p, piece) # 0 => Find(xml, p, piece) \in p..Len(xml) /\ xml[Find(xml, p, piece)] = piece
           /\ \A k \in p..Len(xml) :
                 k > 0 /\ xml[k] = piece /\ (\A i \in p..k - 1 : xml[i] # piece) => Find(xml, p, piece) = k
<1> DEFINE L == Len(xml)
           found == {k \in p..L : xml[k] = piece}
           f == Find(xml, p, piece)
<1>1. L \in Nat /\ f = IF found = {} THEN 0 ELSE Min(found)
  BY DEF Find
<1>2. found \in SUBSET Nat
  BY <1>1
<1>3. found # {} => f \in found /\ \A k \in found : f <= k
  <2> HIDE DEF found, f
  <2>. QED  BY <1>1, <1>2, LeastIs
<1>4. found = {} => f = 0
  BY <1>1
<1> HIDE DEF f
<1>5. f # 0 => f \in p..L /\ xml[f] = piece
  BY <1>3, <1>4
<1>6. ASSUME NEW k \in p..L, xml[k] = piece, \A i \in p..k - 1 : xml[i] # piece
      PROVE  f = k
  <2>1. k \in found
    BY <1>6
  <2>2. f \in p..L /\ xml[f] = piece /\ f <= k
    BY <1>3, <2>1
  <2>3. f < k => f \in p..k - 1
    BY <1>1, <2>2
  <2>. QED  BY <1>1, <1>6, <2>2, <2>3
<1>. QED  BY <1>5, <1>6 DEF f, L

LEMMA FindAt ==
    ASSUME NEW xml \in Seq(SitemapPieces), NEW p \in Nat, NEW piece,
           NEW k \in p..Len(xml), k > 0, xml[k] = piece, \A i \in p..k - 1 : xml[i] # piece
    PROVE  Find(xml, p, piece) = k
BY FindIs

LEMMA EntryEndIs ==
    ASSUME NEW xml \in Seq(SitemapPieces), NEW p \in Nat
    PROVE  /\ EntryEnd(xml, p) # 0 => EntryEnd(xml, p) \in p..Len(xml) - 1 /\ xml[EntryEnd(xml, p)] = "</loc"
           /\ \A k \in p..Len(xml) - 1 :
                 k > 0 /\ xml[k] = "</loc" /\ xml[k + 1] = ">" /\ (\A i \in p..k - 1 : xml[i] # "</loc") =>
                     EntryEnd(xml, p) = k
<1> DEFINE L == Len(xml)
           closed == {k \in p..L - 1 : xml[k] = "</loc" /\ xml[k + 1] = ">"}
           f == EntryEnd(xml, p)
<1>1. L \in Nat /\ f = IF closed = {} THEN 0 ELSE Min(closed)
  BY DEF EntryEnd
<1>2. closed \in SUBSET Nat
  BY <1>1
<1>3. closed # {} => f \in closed /\ \A k \in closed : f <= k
  <2> HIDE DEF closed, f
  <2>. QED  BY <1>1, <1>2, LeastIs
<1>4. closed = {} => f = 0
  BY <1>1
<1> HIDE DEF f
<1>5. f # 0 => f \in p..L - 1 /\ xml[f] = "</loc"
  BY <1>3, <1>4
<1>6. ASSUME NEW k \in p..L - 1, xml[k] = "</loc", xml[k + 1] = ">", \A i \in p..k - 1 : xml[i] # "</loc"
      PROVE  f = k
  <2>1. k \in closed
    BY <1>6
  <2>2. f \in p..L - 1 /\ xml[f] = "</loc" /\ f <= k
    BY <1>3, <2>1
  <2> HIDE DEF closed, L
  <2>3. f < k => f \in p..k - 1
    BY <1>1, <2>2
  <2>. QED  BY <1>1, <1>6, <2>2, <2>3
<1>. QED  BY <1>5, <1>6 DEF f, L

\* What parse_sitemap_xml finds from p on.
LocOf(xml, p) == Find(xml, p, "<loc")
OpenOf(xml, p) == Find(xml, LocOf(xml, p), ">")
CloseOf(xml, p) == EntryEnd(xml, OpenOf(xml, p) + 1)
TextOf(xml, p) == Trim(SubSeq(xml, OpenOf(xml, p) + 1, CloseOf(xml, p) - 1))
Stops(xml, p) == LocOf(xml, p) = 0 \/ OpenOf(xml, p) = 0 \/ CloseOf(xml, p) = 0
Kept(text) == IF text = <<>> THEN <<>> ELSE <<text>>

LEMMA StopsIs ==
    ASSUME NEW xml \in Seq(SitemapPieces), NEW p \in Nat \ {0}
    PROVE  ~Stops(xml, p) => /\ LocOf(xml, p) \in p..Len(xml) /\ OpenOf(xml, p) \in p..Len(xml)
                             /\ CloseOf(xml, p) \in p + 1..Len(xml) - 1
                             /\ CloseOf(xml, p) > OpenOf(xml, p)
                             /\ xml[CloseOf(xml, p)] = "</loc"
<1> SUFFICES ASSUME ~Stops(xml, p)
             PROVE  /\ LocOf(xml, p) \in p..Len(xml) /\ OpenOf(xml, p) \in p..Len(xml)
                    /\ CloseOf(xml, p) \in p + 1..Len(xml) - 1
                    /\ CloseOf(xml, p) > OpenOf(xml, p)
                    /\ xml[CloseOf(xml, p)] = "</loc"
  OBVIOUS
<1> DEFINE a == LocOf(xml, p)
           b == OpenOf(xml, p)
           c == CloseOf(xml, p)
<1>1. Len(xml) \in Nat /\ p \in Nat /\ a # 0 /\ b # 0 /\ c # 0
  BY DEF Stops
<1>2. a \in p..Len(xml)
  BY <1>1, FindIs DEF LocOf
<1>3. a \in Nat
  BY <1>1, <1>2
<1>4. b \in a..Len(xml)
  BY <1>1, <1>3, FindIs DEF OpenOf
<1>5. b + 1 \in Nat
  BY <1>3, <1>4
<1>6. c \in b + 1..Len(xml) - 1 /\ xml[c] = "</loc"
  BY <1>1, <1>5, EntryEndIs DEF CloseOf
<1> HIDE DEF a, b, c
<1>7. a \in p..Len(xml) /\ b \in p..Len(xml) /\ c \in p + 1..Len(xml) - 1 /\ c > b
  BY <1>1, <1>2, <1>4, <1>6
<1>. QED  BY <1>6, <1>7 DEF a, b, c

\* The text of an entry without its blanks.
LEMMA TrimIs ==
    ASSUME NEW t \in EntryTexts
    PROVE  Trim(t) = IF t = <<>> THEN <<>> ELSE <<t[2]>>
<1>1. CASE t = <<>>
  BY <1>1 DEF Trim
<1>2. ASSUME NEW s \in Spellings, t = <<Blank, s, Blank>>
      PROVE  Trim(t) = <<t[2]>> /\ t # <<>>
  <2> DEFINE kept == {i \in DOMAIN t : t[i] # Blank}
  <2>1. s # Blank
    BY CandidatesAssumption
  <2>2. DOMAIN t = 1..3 /\ t[1] = Blank /\ t[2] = s /\ t[3] = Blank /\ t # <<>>
    BY <1>2
  <2>3. \A i \in 1..3 : i = 1 \/ i = 2 \/ i = 3
    OBVIOUS
  <2>4. kept = {2}
    BY <2>1, <2>2, <2>3
  <2>5. Min(kept) = 2
    BY <2>4 DEF Min
  <2>6. Max(kept) = 2
    BY <2>4 DEF Max
  <2>7. Trim(t) = SubSeq(t, 2, 2)
    <3>1. kept # {}
      BY <2>4
    <3> HIDE DEF kept
    <3>2. Trim(t) = IF kept = {} THEN <<>> ELSE SubSeq(t, Min(kept), Max(kept))
      BY DEF Trim, kept
    <3>. QED  BY <2>5, <2>6, <3>1, <3>2
  <2>8. SubSeq(t, 2, 2) = <<s>>
    <3> DEFINE u == SubSeq(t, 2, 2)
    <3>1. t \in Seq({Blank, s}) /\ Len(t) = 3 /\ 2 \in Nat \ {0} /\ 2 <= 3 /\ 2 <= 2 + 1
      BY <1>2
    <3>2. u \in Seq({Blank, s}) /\ Len(u) = 2 - 2 + 1 /\ \A i \in 1..2 - 2 + 1 : u[i] = t[2 + i - 1]
      BY <3>1, SliceIs
    <3> HIDE DEF u
    <3>3. u \in Seq({Blank, s}) /\ Len(u) = 1 /\ u[1] = s
      BY <2>2, <3>2
    <3>4. u = <<s>>
      BY <3>3
    <3>. QED  BY <3>4 DEF u
  <2>. QED  BY <2>2, <2>7, <2>8
<1>3. t = <<>> \/ \E s \in Spellings : t = <<Blank, s, Blank>>
  BY DEF EntryTexts
<1>. QED  BY <1>1, <1>2, <1>3

LEMMA SitemapIs ==
    ASSUME NEW texts, IsTexts(texts)
    PROVE  /\ Len(texts) \in Nat /\ Sitemap(texts) \in Seq(SitemapPieces)
           /\ Len(Sitemap(texts)) = Through(texts, Len(texts)) /\ Through(texts, 0) = 0
           /\ \A n \in 0..Len(texts) : Through(texts, n) \in Nat
           /\ \A n \in 0..Len(texts) : \A m \in 0..n : Through(texts, m) <= Through(texts, n)
<1> DEFINE X == SitemapPieces
           N == Len(texts)
           es == Entries(texts)
<1>1. N \in Nat /\ N \in 0..N
  BY DEF IsTexts
<1>2. es \in Seq(Seq(X)) /\ Len(es) = N
  <2>1. DOMAIN texts = 1..N /\ \A k \in 1..N : texts[k] \in EntryTexts
    BY ElementOfSeq DEF IsTexts
  <2>2. \A k \in 1..N : Entry(texts[k]) \in Seq(X)
    BY <2>1, EntryIs
  <2>3. es \in [1..N -> Seq(X)]
    BY <2>1, <2>2 DEF Entries
  <2> HIDE DEF es, N, X
  <2>. QED  BY <1>1, <2>3
<1> HIDE DEF X, N, es
<1>3. Read(es, 0) = <<>> /\ \A n \in 0..N : Read(es, n) \in Seq(X)
  BY <1>2, ReadIs
<1>4. \A n \in 0..N : Len(Read(es, n)) \in Nat
  BY <1>3, LenProperties
<1>5. \A n \in 0..N : \A m \in 0..n : Len(Read(es, m)) <= Len(Read(es, n))
  <2> TAKE n \in 0..N
  <2> TAKE m \in 0..n
  <2>1. n \in 0..Len(es)
    BY <1>2
  <2>2. Fronts(es, m, n)
    BY <1>2, <2>1, ReadsGrow
  <2>. QED  BY <2>2 DEF Fronts
<1>6. Len(Read(es, 0)) = 0
  BY <1>3
<1>. QED  BY <1>1, <1>3, <1>4, <1>5, <1>6 DEF X, N, es, Through, Sitemap

\* What is left of each entry when the sitemap is cut.
IsCut(xml, texts, cut) ==
    \A n \in 1..Len(texts), j \in Nat \ {0} :
        j <= Len(Entry(texts[n])) /\ Through(texts, n - 1) + j <= cut =>
            xml[Through(texts, n - 1) + j] = Entry(texts[n])[j]

LEMMA EntryCut ==
    ASSUME NEW texts, IsTexts(texts), NEW cut \in 0..Len(Sitemap(texts)),
           NEW xml, xml = SubSeq(Sitemap(texts), 1, cut)
    PROVE  /\ xml \in Seq(SitemapPieces) /\ Len(xml) = cut /\ cut \in Nat
           /\ IsCut(xml, texts, cut)
<1> DEFINE all == Sitemap(texts)
<1>1. all \in Seq(SitemapPieces) /\ Len(all) \in Nat
  BY SitemapIs
<1> HIDE DEF all
<1>2. cut \in Nat /\ cut <= Len(all)
  BY <1>1 DEF all
<1>3. xml \in Seq(SitemapPieces) /\ Len(xml) = cut /\ \A i \in 1..cut : xml[i] = all[i]
  BY <1>1, <1>2, PrefixIs DEF all
<1>4. ASSUME NEW n \in 1..Len(texts), NEW j \in Nat \ {0},
             j <= Len(Entry(texts[n])), Through(texts, n - 1) + j <= cut
      PROVE  xml[Through(texts, n - 1) + j] = Entry(texts[n])[j]
  <2> DEFINE L == Through(texts, n - 1)
             e == Entry(texts[n])
  <2>1. L \in Nat /\ texts[n] \in EntryTexts /\ \A i \in 1..Len(e) : all[L + i] = e[i]
    BY EntryStands DEF all
  <2>2. Len(e) \in Nat
    BY <2>1, EntryIs
  <2> HIDE DEF L, e
  <2>3. j \in 1..Len(e) /\ L + j \in 1..cut
    BY <1>2, <1>4, <2>1, <2>2 DEF L, e
  <2>4. xml[L + j] = e[j]
    BY <1>3, <2>1, <2>3
  <2>. QED  BY <2>4 DEF L, e
<1>. QED  BY <1>2, <1>3, <1>4 DEF IsCut

\* An entry that is complete is read, and reading goes on behind it.
IsRead(xml, texts, n) ==
    LET p == Through(texts, n - 1) + 1
    IN  /\ ~Stops(xml, p) /\ CloseOf(xml, p) + 2 = Through(texts, n) + 1
        /\ TextOf(xml, p) = IF texts[n] = <<>> THEN <<>> ELSE <<texts[n][2]>>

LEMMA EntryParsed ==
    ASSUME NEW texts, IsTexts(texts), NEW cut \in 0..Len(Sitemap(texts)),
           NEW xml, xml = SubSeq(Sitemap(texts), 1, cut),
           NEW n \in 1..Len(texts), Through(texts, n) <= cut
    PROVE  IsRead(xml, texts, n)
<1> DEFINE L == Through(texts, n - 1)
           p == L + 1
           t == texts[n]
           e == Entry(t)
           M == Len(t)
<1>1. xml \in Seq(SitemapPieces) /\ Len(xml) = cut /\ cut \in Nat
  BY EntryCut
<1>2. t \in EntryTexts /\ L \in Nat /\ Through(texts, n) = L + Len(e) /\ p = L + 1
  BY EntryStands DEF p
<1>3. /\ M \in Nat /\ Len(e) = M + 6 /\ t \in Seq(SitemapPieces)
      /\ e[1] = "other" /\ e[2] = "<loc" /\ e[3] = "other" /\ e[4] = ">"
      /\ \A j \in 1..M : e[4 + j] = t[j] /\ t[j] \notin {"<loc", "</loc", ">"}
      /\ e[M + 5] = "</loc" /\ e[M + 6] = ">"
  BY <1>2, EntryIs
<1>4. L + M + 6 <= cut
  BY <1>2, <1>3
<1>5. ASSUME NEW j \in 1..M + 6
      PROVE  xml[L + j] = e[j]
  <2>1. \A i \in Nat \ {0} : i <= Len(e) /\ L + i <= cut => xml[L + i] = e[i]
    <3>1. IsCut(xml, texts, cut)
      BY EntryCut
    <3>. QED  BY <3>1 DEF IsCut
  <2> HIDE DEF L, e, M, t
  <2>2. j \in Nat \ {0} /\ j <= Len(e) /\ L + j <= cut
    BY <1>1, <1>2, <1>3, <1>4
  <2>. QED  BY <2>1, <2>2
<1> HIDE DEF L, e, M, t, p
<1>6. /\ xml[L + 1] = "other" /\ xml[L + 2] = "<loc" /\ xml[L + 3] = "other" /\ xml[L + 4] = ">"
      /\ xml[L + M + 5] = "</loc" /\ xml[L + M + 6] = ">"
  <2>1. 1 \in 1..M + 6 /\ 2 \in 1..M + 6 /\ 3 \in 1..M + 6 /\ 4 \in 1..M + 6
    BY <1>3
  <2>2. M + 5 \in 1..M + 6 /\ M + 6 \in 1..M + 6 /\ L + (M + 5) = L + M + 5 /\ L + (M + 6) = L + M + 6
    BY <1>2, <1>3
  <2>3. xml[L + (M + 5)] = "</loc" /\ xml[L + (M + 6)] = ">"
    BY <1>3, <1>5, <2>2
  <2>4. xml[L + 1] = "other" /\ xml[L + 2] = "<loc" /\ xml[L + 3] = "other" /\ xml[L + 4] = ">"
    BY <1>3, <1>5, <2>1
  <2>. QED  BY <2>2, <2>3, <2>4
<1>7. \A j \in 1..M : xml[L + 4 + j] = t[j] /\ t[j] # "</loc"
  <2> TAKE j \in 1..M
  <2>1. 4 + j \in 1..M + 6 /\ L + (4 + j) = L + 4 + j
    BY <1>2, <1>3
  <2>. QED  BY <1>3, <1>5, <2>1
<1>8. LocOf(xml, p) = L + 2
  <2> DEFINE k == L + 2
             o == L + 1
  <2>1. o \in Nat /\ k \in o..Len(xml) /\ k > 0 /\ \A i \in o..k - 1 : i = L + 1
    BY <1>1, <1>2, <1>3, <1>4
  <2>2. xml[k] = "<loc" /\ \A i \in o..k - 1 : xml[i] # "<loc"
    BY <1>6, <2>1
  <2> HIDE DEF k, o
  <2>3. Find(xml, o, "<loc") = k
    BY <1>1, <2>1, <2>2, FindAt
  <2>. QED  BY <1>2, <2>3 DEF LocOf, k, o
<1>9. OpenOf(xml, p) = L + 4
  <2> DEFINE k == L + 4
             o == L + 2
  <2>1. o \in Nat /\ k \in o..Len(xml) /\ k > 0 /\ \A i \in o..k - 1 : i = L + 2 \/ i = L + 3
    BY <1>1, <1>2, <1>3, <1>4
  <2>2. xml[k] = ">" /\ \A i \in o..k - 1 : xml[i] # ">"
    BY <1>6, <2>1
  <2> HIDE DEF k, o
  <2>3. Find(xml, o, ">") = k
    BY <1>1, <2>1, <2>2, FindAt
  <2>. QED  BY <1>8, <2>3 DEF OpenOf, k, o
<1>10. CloseOf(xml, p) = L + M + 5
  <2> DEFINE c == L + M + 5
             o == L + 4 + 1
  <2>1. o \in Nat /\ c \in o..Len(xml) - 1 /\ c > 0 /\ c + 1 = L + M + 6
    BY <1>1, <1>2, <1>3, <1>4
  <2>2. ASSUME NEW i \in o..c - 1
        PROVE  xml[i] # "</loc"
    <3>1. i - L - 4 \in 1..M /\ L + 4 + (i - L - 4) = i
      BY <1>2, <1>3
    <3>. QED  BY <1>7, <3>1
  <2>3. xml[c] = "</loc" /\ xml[c + 1] = ">"
    BY <1>6, <2>1
  <2> HIDE DEF c, o
  <2>4. EntryEnd(xml, o) = c
    BY <1>1, <2>1, <2>2, <2>3, EntryEndIs
  <2>. QED  BY <1>9, <2>4 DEF CloseOf, c, o
<1>11. TextOf(xml, p) = Trim(t)
  <2> DEFINE a == L + 4 + 1
             b == L + M + 5 - 1
             u == SubSeq(xml, a, b)
  <2>1. a \in Nat \ {0} /\ b \in Nat /\ b <= Len(xml) /\ a <= b + 1 /\ b - a + 1 = M
    BY <1>1, <1>2, <1>3, <1>4
  <2>2. \A j \in 1..M : a + j - 1 = L + 4 + j
    BY <1>2
  <2> HIDE DEF a, b
  <2>3. u \in Seq(SitemapPieces) /\ Len(u) = b - a + 1 /\ \A j \in 1..b - a + 1 : u[j] = xml[a + j - 1]
    BY <1>1, <2>1, SliceIs
  <2> HIDE DEF u
  <2>4. Len(u) = Len(t) /\ \A j \in 1..Len(t) : u[j] = t[j]
    BY <1>7, <2>1, <2>2, <2>3 DEF M
  <2>5. u = t
    BY <1>3, <2>3, <2>4, SeqEqual
  <2>6. OpenOf(xml, p) + 1 = a /\ CloseOf(xml, p) - 1 = b
    BY <1>2, <1>3, <1>9, <1>10 DEF a, b
  <2>7. TextOf(xml, p) = Trim(u)
    BY <2>6 DEF TextOf, u
  <2>. QED  BY <2>5, <2>7
<1>12. ~Stops(xml, p) /\ CloseOf(xml, p) + 2 = Through(texts, n) + 1
  BY <1>2, <1>3, <1>8, <1>9, <1>10 DEF Stops
<1>. QED  BY <1>2, <1>11, <1>12, TrimIs DEF t, p, L, IsRead

\* Reading ends at the first entry that is not complete, and behind the last.
LEMMA RestStops ==
    ASSUME NEW texts, IsTexts(texts), NEW cut \in 0..Len(Sitemap(texts)),
           NEW xml, xml = SubSeq(Sitemap(texts), 1, cut),
           NEW n \in 0..Len(texts), n < Len(texts) => Through(texts, n + 1) > cut
    PROVE  Stops(xml, Through(texts, n) + 1)
<1> DEFINE L == Through(texts, n)
           p == L + 1
           c == CloseOf(xml, p)
           N == Len(texts)
<1> SUFFICES ASSUME ~Stops(xml, p)
             PROVE  FALSE
  OBVIOUS
<1>1. xml \in Seq(SitemapPieces) /\ Len(xml) = cut /\ cut \in Nat
  BY EntryCut
<1>2. L \in Nat /\ N \in Nat /\ cut <= Through(texts, N)
  BY SitemapIs
<1>3. c \in p + 1..cut - 1 /\ xml[c] = "</loc"
  <2>1. p \in Nat \ {0}
    BY <1>2
  <2> HIDE DEF p
  <2>. QED  BY <1>1, <2>1, StopsIs
<1>4. CASE n = N
  <2>1. cut <= L
    BY <1>2, <1>4
  <2> HIDE DEF L, c
  <2>. QED  BY <1>1, <1>2, <1>3, <2>1
<1>5. CASE n # N
  <2> DEFINE t == texts[n + 1]
             e == Entry(t)
             j == c - L
             M == Len(t)
  <2>1. n + 1 \in 1..N /\ (n + 1) - 1 = n /\ n < N
    BY <1>2, <1>5
  <2>2. t \in EntryTexts /\ Through(texts, n + 1) = L + Len(e)
    BY <2>1, EntryStands
  <2>3. /\ M \in Nat /\ Len(e) = M + 6 /\ e[2] = "<loc" /\ e[3] = "other" /\ e[4] = ">"
        /\ \A i \in 1..M : e[4 + i] = t[i] /\ t[i] \notin {"<loc", "</loc", ">"}
    BY <2>2, EntryIs
  <2>4. cut < L + M + 6
    BY <1>1, <1>2, <2>1, <2>2, <2>3
  <2>5. j \in 2..M + 4 /\ L + j = c /\ L + j <= cut /\ j \in Nat \ {0} /\ j <= Len(e)
    <3> HIDE DEF L, c, e, M
    <3>. QED  BY <1>1, <1>2, <1>3, <2>3, <2>4
  <2>6. xml[c] = e[j]
    <3>1. \A i \in Nat \ {0} : i <= Len(e) /\ L + i <= cut => xml[L + i] = e[i]
      <4>1. IsCut(xml, texts, cut)
        BY EntryCut
      <4>. QED  BY <2>1, <4>1 DEF IsCut
    <3> HIDE DEF L, c, e, M, j
    <3>. QED  BY <2>5, <3>1
  <2> HIDE DEF L, c, e, M, t, j
  <2>7. j = 2 \/ j = 3 \/ j = 4 \/ (j - 4 \in 1..M /\ 4 + (j - 4) = j)
    BY <2>3, <2>5
  <2>8. e[j] # "</loc"
    BY <2>3, <2>7
  <2>. QED  BY <1>3, <2>6, <2>8
<1>. QED  BY <1>4, <1>5

LEMMA TrimIn ==
    ASSUME NEW B, NEW s \in Seq(B)
    PROVE  Trim(s) \in Seq(B)
<1> DEFINE kept == {i \in DOMAIN s : s[i] # Blank}
           a == Min(kept)
           b == Max(kept)
<1>1. CASE kept = {}
  BY <1>1 DEF Trim
<1>2. CASE kept # {}
  <2>1. Len(s) \in Nat /\ kept \in SUBSET (1..Len(s))
    OBVIOUS
  <2>2. kept \in SUBSET Nat
    BY <2>1
  <2>3. Trim(s) = SubSeq(s, a, b)
    BY <1>2 DEF Trim
  <2> HIDE DEF kept
  <2>4. a \in kept /\ \A n \in kept : a <= n
    BY <1>2, <2>2, LeastIs
  <2>5. b \in kept
    BY <1>2, <2>1, GreatestIs
  <2> HIDE DEF a, b
  <2>6. a \in Nat \ {0} /\ b \in Nat /\ b <= Len(s) /\ a <= b + 1
    BY <2>1, <2>4, <2>5
  <2>7. SubSeq(s, a, b) \in Seq(B)
    BY <2>6, SliceIs
  <2>. QED  BY <2>3, <2>7
<1>. QED  BY <1>1, <1>2

ParsesFrom(from, xml) ==
    \A p \in 1..Len(xml) + 1 :
        from[p] = IF Stops(xml, p) THEN <<>> ELSE Kept(TextOf(xml, p)) \o from[CloseOf(xml, p) + 2]

LEMMA ParsesFromIs ==
    ASSUME NEW xml \in Seq(SitemapPieces)
    PROVE  \E from : ParsesFrom(from, xml) /\ ParseSitemap(xml) = from[1]
<1> DEFINE N == Len(xml) + 1
           X == Seq(Seq(SitemapPieces))
           After(f) == [p \in 1..Len(xml) + 1 |->
                           LET start == Find(xml, p, "<loc")
                               open == Find(xml, start, ">")
                               end == EntryEnd(xml, open + 1)
                               text == Trim(SubSeq(xml, open + 1, end - 1))
                           IN  IF start = 0 \/ open = 0 \/ end = 0 THEN <<>>
                               ELSE (IF text = <<>> THEN <<>> ELSE <<text>>) \o f[end + 2]]
           from == CHOOSE f : f = After(f)
           On(p) == p # 0 /\ ~Stops(xml, p)
           next == [p \in 0..N |-> IF On(p) THEN CloseOf(xml, p) + 2 ELSE 0]
           last == [p \in 0..N |-> <<>>]
           step == [p \in 0..N |-> [x \in X |-> IF On(p) THEN Kept(TextOf(xml, p)) \o x ELSE x]]
<1>1. ParseSitemap(xml) = from[1]
  BY DEF ParseSitemap
<1>2. N \in Nat /\ Len(xml) \in Nat /\ 1 \in 1..N
  OBVIOUS
<1>3. ASSUME NEW p \in 0..N, On(p)
      PROVE  /\ CloseOf(xml, p) + 2 \in 1..N /\ CloseOf(xml, p) + 2 > p
             /\ Kept(TextOf(xml, p)) \in X
  <2> DEFINE a == OpenOf(xml, p) + 1
             b == CloseOf(xml, p) - 1
  <2>1. p \in Nat \ {0}
    BY <1>2, <1>3
  <2>2. /\ OpenOf(xml, p) \in p..Len(xml) /\ CloseOf(xml, p) \in p + 1..Len(xml) - 1
        /\ CloseOf(xml, p) > OpenOf(xml, p)
    BY <1>3, <2>1, StopsIs
  <2>3. a \in Nat \ {0} /\ b \in Nat /\ b <= Len(xml) /\ a <= b + 1
    BY <1>2, <2>1, <2>2
  <2>4. CloseOf(xml, p) + 2 \in 1..N /\ CloseOf(xml, p) + 2 > p
    BY <1>2, <2>1, <2>2
  <2>5. TextOf(xml, p) = Trim(SubSeq(xml, a, b))
    BY DEF TextOf
  <2> HIDE DEF a, b
  <2>6. SubSeq(xml, a, b) \in Seq(SitemapPieces)
    BY <2>3, SliceIs
  <2>7. TextOf(xml, p) \in Seq(SitemapPieces)
    BY <2>5, <2>6, TrimIn
  <2>8. Kept(TextOf(xml, p)) \in X
    BY <2>7 DEF Kept
  <2>. QED  BY <2>4, <2>8
<1> HIDE DEF On
<1>4. PICK g : Jumps(g, N, X, next, last, step)
  <2>1. next \in NextsOn(N)
    <3>1. \A p \in 0..N : next[p] \in 0..N /\ (next[p] = 0 \/ next[p] > p)
      BY <1>2, <1>3
    <3>2. next \in [0..N -> 0..N]
      BY <3>1
    <3> HIDE DEF next, N
    <3>. QED  BY <3>1, <3>2 DEF NextsOn
  <2>2. last \in LastsOn(N, X)
    BY DEF LastsOn
  <2>3. step \in JumpsOn(N, X)
    <3>1. ASSUME NEW p \in 0..N, NEW x \in X
          PROVE  (IF On(p) THEN Kept(TextOf(xml, p)) \o x ELSE x) \in X
      <4>1. CASE On(p)
        <5>1. Kept(TextOf(xml, p)) \in X
          BY <1>3, <4>1
        <5>2. Kept(TextOf(xml, p)) \o x \in X
          BY <5>1, ConcatIs
        <5>. QED  BY <4>1, <5>2
      <4>. QED  BY <4>1
    <3> HIDE DEF N, X
    <3>. QED  BY <3>1 DEF JumpsOn
  <2> HIDE DEF next, last, step, X, N
  <2>. QED  BY <1>2, <2>1, <2>2, <2>3, JumpsExist
<1> DEFINE h == [p \in 1..N |-> g[p]]
<1>5. h = After(h)
  <2>1. g \in [0..N -> X] /\ \A p \in 0..N : g[p] = IF next[p] = 0 THEN last[p] ELSE step[p][g[next[p]]]
    BY <1>4 DEF Jumps
  <2>2. ASSUME NEW p \in 1..N
        PROVE  g[p] = IF Stops(xml, p) THEN <<>> ELSE Kept(TextOf(xml, p)) \o h[CloseOf(xml, p) + 2]
    <3>1. p \in 0..N /\ p # 0
      BY <1>2
    <3>2. CASE Stops(xml, p)
      <4>1. ~On(p)
        BY <3>2 DEF On
      <4>. QED  BY <2>1, <3>1, <3>2, <4>1
    <3>3. CASE ~Stops(xml, p)
      <4> DEFINE q == CloseOf(xml, p) + 2
      <4>1. On(p)
        BY <3>1, <3>3 DEF On
      <4>2. q \in 1..N /\ q \in 0..N /\ q # 0
        BY <1>2, <1>3, <3>1, <4>1
      <4>3. g[q] \in X /\ h[q] = g[q]
        BY <2>1, <4>2
      <4>4. next[p] = q
        BY <3>1, <4>1
      <4> HIDE DEF q, h
      <4>5. g[p] = step[p][g[q]]
        BY <2>1, <3>1, <4>2, <4>4
      <4>6. g[p] = Kept(TextOf(xml, p)) \o g[q]
        BY <3>1, <4>1, <4>3, <4>5
      <4>. QED  BY <3>3, <4>3, <4>6 DEF q
    <3>. QED  BY <3>2, <3>3
  <2>3. After(h) = [p \in 1..N |-> IF Stops(xml, p) THEN <<>>
                                    ELSE Kept(TextOf(xml, p)) \o h[CloseOf(xml, p) + 2]]
    <3> HIDE DEF h
    <3>. QED  BY DEF Stops, Kept, TextOf, CloseOf, OpenOf, LocOf
  <2>4. h = [p \in 1..N |-> IF Stops(xml, p) THEN <<>>
                             ELSE Kept(TextOf(xml, p)) \o h[CloseOf(xml, p) + 2]]
    <3>1. \A p \in 1..N : h[p] = IF Stops(xml, p) THEN <<>> ELSE Kept(TextOf(xml, p)) \o h[CloseOf(xml, p) + 2]
      BY <2>2
    <3>2. h = [p \in 1..N |-> h[p]]
      OBVIOUS
    <3> HIDE DEF h, N
    <3>. QED  BY <3>1, <3>2
  <2> HIDE DEF h, After
  <2>. QED  BY <2>3, <2>4
<1>6. from = After(from)
  <2>1. \E f : f = After(f)
    BY <1>5
  <2> HIDE DEF After
  <2>. QED  BY <2>1
<1> HIDE DEF from
<1>7. \A p \in 1..N : from[p] = IF Stops(xml, p) THEN <<>> ELSE Kept(TextOf(xml, p)) \o from[CloseOf(xml, p) + 2]
  <2>1. \A p \in 1..N : After(from)[p] = IF Stops(xml, p) THEN <<>>
                                          ELSE Kept(TextOf(xml, p)) \o from[CloseOf(xml, p) + 2]
    BY DEF Stops, Kept, TextOf, CloseOf, OpenOf, LocOf
  <2> HIDE DEF After
  <2>. QED  BY <1>6, <2>1
<1>. QED  BY <1>1, <1>7 DEF ParsesFrom

LEMMA PickedOne == ASSUME NEW html, NEW k \in Nat PROVE Picked(<<html[k]>>, html, {k})
<1> DEFINE g == [n \in 1..1 |-> k]
           s == <<html[k]>>
<1>1. Len(s) = 1 /\ s[1] = html[k] /\ \A n \in 1..1 : n = 1
  OBVIOUS
<1>2. InOrderOf(g, 1, {k})
  <2>1. g \in [1..1 -> {k}] /\ g[1] = k
    OBVIOUS
  <2>2. \A m, n \in 1..1 : ~(m < n)
    OBVIOUS
  <2>3. 1 \in 1..1
    OBVIOUS
  <2> HIDE DEF g
  <2>. QED  BY <2>1, <2>2, <2>3 DEF InOrderOf
<1>3. \A n \in 1..1 : s[n] = html[g[n]]
  BY <1>1
<1> HIDE DEF g, s
<1>4. Picked(s, html, {k})
  BY <1>1, <1>2, <1>3 DEF Picked
<1>. QED  BY <1>4 DEF s

Addressed(texts) == [n \in DOMAIN texts |-> <<texts[n][2]>>]
\* The entries after the n-th that are complete and not empty.
CompleteAfter(texts, cut, n) ==
    {k \in n + 1..Len(texts) : texts[k] # <<>> /\ Through(texts, k) <= cut}

\* parse_sitemap_xml reads the entries that are complete and not empty.
LEMMA EntriesParsed ==
    ASSUME NEW texts, IsTexts(texts), NEW cut \in 0..Len(Sitemap(texts)),
           NEW xml, xml = SubSeq(Sitemap(texts), 1, cut)
    PROVE  /\ ParseSitemap(xml) \in Seq(Seq(SitemapPieces))
           /\ Picked(ParseSitemap(xml), Addressed(texts), CompleteAfter(texts, cut, 0))
<1> DEFINE N == Len(texts)
           X == Seq(Seq(SitemapPieces))
           U(n) == Through(texts, n)
           values == Addressed(texts)
           C(n) == CompleteAfter(texts, cut, n)
<1>1. xml \in Seq(SitemapPieces) /\ Len(xml) = cut /\ cut \in Nat
  BY EntryCut
<1>2. /\ N \in Nat /\ U(0) = 0 /\ \A n \in 0..N : U(n) \in Nat
      /\ \A n \in 0..N : \A m \in 0..n : U(m) <= U(n)
  BY SitemapIs
<1>3. PICK from : ParsesFrom(from, xml) /\ ParseSitemap(xml) = from[1]
  BY <1>1, ParsesFromIs
<1>4. \A p \in 1..cut + 1 :
         from[p] = IF Stops(xml, p) THEN <<>> ELSE Kept(TextOf(xml, p)) \o from[CloseOf(xml, p) + 2]
  BY <1>1, <1>3 DEF ParsesFrom
<1> DEFINE Right(n) == U(n) <= cut => from[U(n) + 1] \in X /\ Picked(from[U(n) + 1], values, C(n))
           T == {m \in 0..N : Right(N - m)}
<1> HIDE DEF U, values, X
<1>5. ASSUME NEW n \in 0..N, n < N => U(n + 1) > cut
      PROVE  Right(n)
  <2> SUFFICES ASSUME U(n) <= cut
               PROVE  from[U(n) + 1] \in X /\ Picked(from[U(n) + 1], values, C(n))
    OBVIOUS
  <2>1. Stops(xml, U(n) + 1)
    BY <1>5, RestStops DEF U
  <2>2. U(n) + 1 \in 1..cut + 1
    BY <1>1, <1>2
  <2>3. from[U(n) + 1] = <<>>
    BY <1>4, <2>1, <2>2
  <2>4. C(n) = {}
    <3> SUFFICES ASSUME NEW k \in n + 1..N, U(k) <= cut
                 PROVE  FALSE
      BY DEF CompleteAfter, U
    <3>1. k \in 0..N /\ n + 1 \in 0..k /\ n + 1 \in 0..N /\ n < N
      BY <1>2
    <3>2. U(n + 1) <= U(k) /\ U(n + 1) \in Nat /\ U(k) \in Nat /\ U(n + 1) > cut
      BY <1>2, <1>5, <3>1
    <3>. QED  BY <1>1, <3>2
  <2>5. <<>> \in X /\ Picked(<<>>, values, {})
    BY PickedNone DEF X
  <2>. QED  BY <2>3, <2>4, <2>5
<1>6. ASSUME NEW n \in 0..N, n < N, U(n + 1) <= cut, Right(n + 1)
      PROVE  Right(n)
  <2> DEFINE t == texts[n + 1]
             p == U(n) + 1
             q == U(n + 1) + 1
             v == values[n + 1]
  <2>1. n + 1 \in 1..N /\ n + 1 \in 0..N /\ (n + 1) - 1 = n /\ n \in Nat
    BY <1>2, <1>6
  <2>2. p \in 1..cut + 1
    <3>1. n \in 0..n + 1
      BY <2>1
    <3>2. U(n) <= U(n + 1) /\ U(n) \in Nat /\ U(n + 1) \in Nat
      BY <1>2, <2>1, <3>1
    <3>. QED  BY <1>1, <1>6, <3>2
  <2>3. from[q] \in X /\ Picked(from[q], values, C(n + 1))
    BY <1>6
  <2>4. /\ ~Stops(xml, p) /\ CloseOf(xml, p) + 2 = q
        /\ TextOf(xml, p) = IF t = <<>> THEN <<>> ELSE <<t[2]>>
    <3> DEFINE k == n + 1
    <3>1. k \in 1..Len(texts) /\ Through(texts, k) <= cut /\ p = Through(texts, k - 1) + 1
      BY <1>6, <2>1 DEF U
    <3> HIDE DEF p, k
    <3>2. IsRead(xml, texts, k)
      BY <3>1, EntryParsed
    <3>. QED  BY <3>1, <3>2 DEF U, k, q, IsRead
  <2>5. v = <<t[2]>>
    <3>1. DOMAIN texts = 1..N
      BY DEF IsTexts
    <3>. QED  BY <2>1, <3>1 DEF values, Addressed
  <2>6. from[p] = IF t = <<>> THEN <<>> \o from[q] ELSE <<v>> \o from[q]
    <3>1. from[p] = Kept(TextOf(xml, p)) \o from[q]
      <4> HIDE DEF p, q
      <4>. QED  BY <1>4, <2>2, <2>4
    <3>2. Kept(TextOf(xml, p)) = IF t = <<>> THEN <<>> ELSE <<v>>
      <4>1. <<t[2]>> # <<>>
        OBVIOUS
      <4> HIDE DEF p, q, v
      <4>. QED  BY <2>4, <2>5, <4>1 DEF Kept
    <3>. QED  BY <3>1, <3>2
  <2>7. C(n) = (IF t = <<>> THEN {} ELSE {n + 1}) \cup C(n + 1)
    <3>1. \A k : k \in n + 1..N <=> k = n + 1 \/ k \in (n + 1) + 1..N
      BY <1>2, <2>1
    <3>. QED  BY <1>6, <3>1 DEF CompleteAfter, U
  <2>8. CASE t = <<>>
    <3>1. <<>> \o from[q] = from[q]
      BY <2>3 DEF X
    <3>2. from[p] = from[q] /\ C(n) = C(n + 1)
      BY <2>6, <2>7, <2>8, <3>1
    <3>. QED  BY <2>3, <3>2
  <2>9. CASE t # <<>>
    <3>1. <<v>> \in X
      <4>1. t \in EntryTexts
        BY <2>1, EntryStands
      <4>2. PICK s \in Spellings : t = <<Blank, s, Blank>>
        BY <2>9, <4>1 DEF EntryTexts
      <4>3. t[2] = s /\ s \in SitemapPieces
        BY <4>2 DEF SitemapPieces
      <4>4. <<t[2]>> \in Seq(SitemapPieces)
        BY <4>3
      <4>. QED  BY <2>5, <4>4 DEF X
    <3>2. Picked(<<v>>, values, {n + 1})
      <4>1. n + 1 \in Nat
        BY <2>1
      <4>. QED  BY <4>1, PickedOne
    <3>3. {n + 1} \in SUBSET Nat /\ C(n + 1) \in SUBSET Nat /\ \A i \in {n + 1}, j \in C(n + 1) : i < j
      <4>1. \A j \in C(n + 1) : j \in (n + 1) + 1..N
        BY DEF CompleteAfter
      <4> HIDE DEF C
      <4>. QED  BY <1>2, <2>1, <4>1
    <3> HIDE DEF v, C, q, p, t
    <3>4. <<v>> \o from[q] \in X /\ Picked(<<v>> \o from[q], values, {n + 1} \cup C(n + 1))
      BY <2>3, <3>1, <3>2, <3>3, PickedConcat, ConcatIs DEF X
    <3>5. from[p] = <<v>> \o from[q] /\ C(n) = {n + 1} \cup C(n + 1)
      BY <2>6, <2>7, <2>9
    <3>. QED  BY <3>4, <3>5 DEF p, C
  <2>. QED  BY <2>8, <2>9
<1>7. Right(N)
  <2>1. N \in 0..N /\ ~(N < N)
    BY <1>2
  <2> HIDE DEF Right, N
  <2>. QED  BY <1>5, <2>1
<1>8. ASSUME NEW n \in 0..N, n < N, Right(n + 1)
      PROVE  Right(n)
  <2>1. n + 1 \in 0..N
    BY <1>2, <1>8
  <2>2. U(n + 1) <= cut \/ U(n + 1) > cut
    BY <1>1, <1>2, <2>1
  <2> HIDE DEF Right
  <2>. QED  BY <1>5, <1>6, <1>8, <2>2
<1>9. Right(0)
  <2> HIDE DEF Right
  <2>1. 0 \in T
    <3>1. 0 \in 0..N /\ N - 0 = N
      BY <1>2
    <3>. QED  BY <1>7, <3>1
  <2>2. ASSUME NEW m \in 0..N, m \in T, m < N
        PROVE  m + 1 \in T
    <3> DEFINE n == N - (m + 1)
    <3>1. n \in 0..N /\ n < N /\ n + 1 = N - m /\ m + 1 \in 0..N
      BY <1>2, <2>2
    <3>2. Right(N - m)
      BY <2>2
    <3> HIDE DEF n, N
    <3>3. Right(n)
      BY <1>8, <3>1, <3>2
    <3>. QED  BY <3>1, <3>3 DEF n
  <2>3. \A m \in 0..N : m \in T
    <3> HIDE DEF T, N
    <3>. QED  BY <1>2, <2>1, <2>2, UpTo
  <2>4. N \in 0..N /\ N - N = 0
    BY <1>2
  <2>. QED  BY <2>3, <2>4
<1>10. from[1] \in X /\ Picked(from[1], values, C(0))
  <2>1. U(0) <= cut /\ U(0) + 1 = 1
    BY <1>1, <1>2
  <2>. QED  BY <1>9, <2>1
<1>. QED  BY <1>3, <1>10 DEF X, values

LEMMA TruncateKeeps ==
    ASSUME NEW A \in SUBSET Nat, IsFiniteSet(A), Cardinality(A) <= MaxPages
    PROVE  Truncate(A) = A
<1>1. ASSUME NEW a \in A
      PROVE  Cardinality({b \in A : b < a}) < MaxPages
  <2> DEFINE S == {b \in A : b < a}
  <2>1. S \in SUBSET A /\ a \notin S
    OBVIOUS
  <2> HIDE DEF S
  <2>2. IsFiniteSet(S) /\ Cardinality(S) <= Cardinality(A) /\ Cardinality(S) # Cardinality(A)
    BY <2>1, FS_Subset
  <2>3. Cardinality(S) \in Nat /\ Cardinality(A) \in Nat /\ MaxPages \in Nat
    BY <2>2, FS_CardinalityType, CandidatesAssumption
  <2>4. Cardinality(S) < MaxPages
    BY <2>2, <2>3
  <2>. QED  BY <2>4 DEF S
<1>. QED  BY <1>1 DEF Truncate

Complete(texts, cut) == {n \in DOMAIN texts : texts[n] # <<>> /\ Len(Read(Entries(texts), n)) <= cut}
Listed(texts, cut) ==
    {n \in Complete(texts, cut) : Cardinality({m \in Complete(texts, cut) : m <= n}) <= MaxPages - 1}

\* collect_candidate_urls lists the root, and the entries for which there is
\* room if the sitemap can be read.
LEMMA CandidatesListed ==
    ASSUME NEW texts, IsTexts(texts), NEW cut \in 0..Len(Sitemap(texts)),
           NEW answer, answer.xml = SubSeq(Sitemap(texts), 1, cut)
    PROVE  CandidateUrls(answer) = {RootAddress} \cup
               IF answer.fetched /\ answer.code2xx /\ answer.utf8
               THEN {Address[texts[n][2]] : n \in Listed(texts, cut)} ELSE {}
<1> DEFINE readable == answer.fetched /\ answer.code2xx /\ answer.utf8
           entries == IF readable THEN ParseSitemap(answer.xml) ELSE <<>>
           I == {n \in DOMAIN entries : RoomFor(n)}
           found == {Normalize(entries[i]) : i \in I}
           C == Complete(texts, cut)
<1>1. CandidateUrls(answer) = Truncate({RootAddress} \cup found)
  BY DEF CandidateUrls
<1>2. RootAddress \in Nat /\ MaxPages \in Nat \ {0} /\ Address \in [Spellings -> Nat]
  BY CandidatesAssumption
<1>3. CASE ~readable
  <2>1. found = {}
    BY <1>3
  <2>2. IsFiniteSet({RootAddress}) /\ Cardinality({RootAddress}) = 1
    BY FS_Singleton
  <2>3. 1 <= MaxPages
    BY <1>2
  <2>4. {RootAddress} \cup found = {RootAddress} /\ {RootAddress} \in SUBSET Nat
    BY <1>2, <2>1
  <2>5. Truncate({RootAddress}) = {RootAddress}
    BY <2>2, <2>3, <2>4, TruncateKeeps
  <2> HIDE DEF found
  <2>. QED  BY <1>1, <1>3, <2>4, <2>5
<1>4. CASE readable
  <2> DEFINE K == Len(entries)
  <2>1. C = CompleteAfter(texts, cut, 0)
    <3>1. DOMAIN texts = 0 + 1..Len(texts)
      BY DEF IsTexts
    <3>. QED  BY <3>1 DEF Complete, CompleteAfter, Through
  <2>2. entries \in Seq(Seq(SitemapPieces)) /\ Picked(entries, Addressed(texts), C)
    BY <1>4, <2>1, EntriesParsed
  <2>3. K \in Nat /\ DOMAIN entries = 1..K
    BY <2>2
  <2>4. C \in SUBSET Nat
    <3>1. \A n \in C : n \in 1..Len(texts)
      BY DEF Complete, IsTexts
    <3> HIDE DEF C
    <3>. QED  BY <3>1
  <2>5. PICK g : InOrderOf(g, K, C) /\ \A i \in 1..K : entries[i] = Addressed(texts)[g[i]]
    BY <2>2 DEF Picked
  <2> HIDE DEF entries
  <2>6. \A i \in 1..K : g[i] \in C /\ Cardinality({m \in C : m <= g[i]}) = i
    <3>1. \A i \in 1..K : g[i] \in C
      BY <2>5 DEF InOrderOf
    <3> HIDE DEF C, K
    <3>2. Cardinality(C) = K /\ \A n \in 1..K : Cardinality({j \in C : j <= g[n]}) = n
      BY <2>3, <2>4, <2>5, RankOf
    <3>. QED  BY <3>1, <3>2
  <2>7. ASSUME NEW n \in C
        PROVE  Addressed(texts)[n] = <<texts[n][2]>> /\ Address[texts[n][2]] \in Nat
    <3>1. n \in DOMAIN texts /\ texts[n] # <<>> /\ n \in 1..Len(texts)
      BY DEF Complete, IsTexts
    <3>2. texts[n] \in EntryTexts
      BY <3>1, EntryStands
    <3>3. PICK s \in Spellings : texts[n] = <<Blank, s, Blank>>
      BY <3>1, <3>2 DEF EntryTexts
    <3>4. texts[n][2] = s
      BY <3>3
    <3>. QED  BY <1>2, <3>1, <3>4 DEF Addressed
  <2> HIDE DEF K, C
  <2>8. ASSUME NEW i \in 1..K
        PROVE  Normalize(entries[i]) = Address[texts[g[i]][2]] /\ Normalize(entries[i]) \in Nat
    <3>1. entries[i] = <<texts[g[i]][2]>>
      BY <2>5, <2>6, <2>7
    <3>2. entries[i][1] = texts[g[i]][2]
      BY <3>1
    <3>. QED  BY <2>6, <2>7, <3>2 DEF Normalize
  <2>9. I = {i \in 1..K : i < MaxPages}
    BY <2>3 DEF RoomFor
  <2> HIDE DEF I
  <2>10. found = {Address[texts[n][2]] : n \in Listed(texts, cut)}
    <3>1. ASSUME NEW i \in I
          PROVE  \E n \in Listed(texts, cut) : Normalize(entries[i]) = Address[texts[n][2]]
      <4>1. i \in 1..K /\ i <= MaxPages - 1
        BY <1>2, <2>3, <2>9
      <4>2. g[i] \in Listed(texts, cut)
        BY <2>6, <4>1 DEF Listed, C
      <4>. QED  BY <2>8, <4>1, <4>2
    <3>2. ASSUME NEW n \in Listed(texts, cut)
          PROVE  \E i \in I : Normalize(entries[i]) = Address[texts[n][2]]
      <4>1. n \in C /\ Cardinality({m \in C : m <= n}) <= MaxPages - 1
        BY DEF Listed, C
      <4>2. PICK i \in 1..K : g[i] = n
        BY <2>5, <4>1 DEF InOrderOf
      <4>3. i <= MaxPages - 1
        BY <2>6, <4>1, <4>2
      <4>4. i \in I
        BY <1>2, <2>3, <2>9, <4>3
      <4>. QED  BY <2>8, <4>2, <4>4
    <3>. QED  BY <3>1, <3>2
  <2>11. IsFiniteSet(found) /\ Cardinality(found) <= MaxPages - 1
    <3> DEFINE J == 1..MaxPages - 1
               f == [i \in I |-> Normalize(entries[i])]
    <3>1. I \in SUBSET J
      BY <1>2, <2>3, <2>9
    <3>2. IsFiniteSet(J) /\ Cardinality(J) = MaxPages - 1
      <4>1. 1 \in Int /\ MaxPages - 1 \in Int /\ (1 > MaxPages - 1 => MaxPages - 1 = 0)
            /\ MaxPages - 1 - 1 + 1 = MaxPages - 1
        BY <1>2
      <4>2. /\ IsFiniteSet(1..MaxPages - 1)
            /\ Cardinality(1..MaxPages - 1) = IF 1 > MaxPages - 1 THEN 0 ELSE MaxPages - 1 - 1 + 1
        BY <4>1, FS_Interval
      <4>. QED  BY <4>1, <4>2
    <3> HIDE DEF J
    <3>3. IsFiniteSet(I) /\ Cardinality(I) <= MaxPages - 1
      BY <3>1, <3>2, FS_Subset
    <3>4. f \in Surjection(I, found)
      BY DEF Surjection
    <3> HIDE DEF f, found
    <3>5. IsFiniteSet(found) /\ Cardinality(found) <= Cardinality(I)
      BY <3>3, <3>4, FS_Surjection
    <3>6. Cardinality(found) \in Nat /\ Cardinality(I) \in Nat
      BY <3>3, <3>5, FS_CardinalityType
    <3>. QED  BY <1>2, <3>3, <3>5, <3>6
  <2>12. found \in SUBSET Nat
    BY <2>8, <2>9
  <2> HIDE DEF found
  <2>13. IsFiniteSet(found \cup {RootAddress}) /\ Cardinality(found \cup {RootAddress}) <= MaxPages
    <3>1. /\ IsFiniteSet(found \cup {RootAddress})
          /\ Cardinality(found \cup {RootAddress}) =
                 IF RootAddress \in found THEN Cardinality(found) ELSE Cardinality(found) + 1
      BY <2>11, FS_AddElement
    <3>2. Cardinality(found) \in Nat
      BY <2>11, FS_CardinalityType
    <3>. QED  BY <1>2, <2>11, <3>1, <3>2
  <2>14. Truncate(found \cup {RootAddress}) = found \cup {RootAddress}
    <3>1. found \cup {RootAddress} \in SUBSET Nat
      BY <1>2, <2>12
    <3>. QED  BY <2>13, <3>1, TruncateKeeps
  <2>15. {RootAddress} \cup found = found \cup {RootAddress}
    OBVIOUS
  <2>. QED  BY <1>1, <1>4, <2>10, <2>14, <2>15
<1>. QED  BY <1>3, <1>4

-----------------------------------------------------------------------------
(* extract_links, for pages put together from parts of some forms.         *)

LEMMA EarliestAt ==
    ASSUME NEW L \in Nat, NEW a \in Nat, NEW S \in SUBSET (a..L), NEW k \in a..L + 1,
           k = L + 1 \/ k \in S, \A i \in a..k - 1 : i \notin S
    PROVE  Min(S \cup {L + 1}) = k
<1> DEFINE T == S \cup {L + 1}
           f == Min(T)
<1>1. T \in SUBSET Nat /\ T # {} /\ k \in T
  OBVIOUS
<1> HIDE DEF T
<1>2. f \in T /\ \A n \in T : f <= n
  BY <1>1, LeastIs
<1> HIDE DEF f
<1>3. f <= k /\ f \in Nat
  BY <1>1, <1>2
<1>4. f \in S \/ f = L + 1
  BY <1>2 DEF T
<1>5. f < k => f \in S /\ f \in a..k - 1
  BY <1>3, <1>4
<1>6. f = k
  BY <1>3, <1>5
<1>. QED  BY <1>6 DEF f, T

LEMMA EarliestIs ==
    ASSUME NEW L \in Nat, NEW a \in 1..L + 1, NEW S \in SUBSET (a..L)
    PROVE  /\ Min(S \cup {L + 1}) \in a..L + 1 /\ Min(S \cup {L + 1}) \in S \cup {L + 1}
           /\ \A i \in a..Min(S \cup {L + 1}) - 1 : i \notin S
<1> DEFINE T == S \cup {L + 1}
           f == Min(T)
<1>1. T \in SUBSET Nat /\ T # {} /\ \A n \in T : n \in a..L + 1
  OBVIOUS
<1> HIDE DEF T
<1>2. f \in T /\ \A n \in T : f <= n
  BY <1>1, LeastIs
<1> HIDE DEF f
<1>3. f \in a..L + 1
  BY <1>1, <1>2
<1>4. ASSUME NEW i \in a..f - 1, i \in S
      PROVE  FALSE
  <2>1. f <= i
    BY <1>2, <1>4 DEF T
  <2>. QED  BY <1>3, <2>1
<1>. QED  BY <1>2, <1>3, <1>4 DEF f, T

LEMMA FirstInAt ==
    ASSUME NEW B, NEW html \in Seq(B), NEW a \in Nat, NEW pieces, NEW k \in a..Len(html) + 1, a > 0,
           k = Len(html) + 1 \/ html[k] \in pieces, \A i \in a..k - 1 : html[i] \notin pieces
    PROVE  FirstIn(html, a, pieces) = k
<1> DEFINE L == Len(html)
           S == {i \in a..L : html[i] \in pieces}
<1>1. L \in Nat
  OBVIOUS
<1>2. S \in SUBSET (a..L) /\ k \in a..L + 1 /\ (k = L + 1 \/ k \in S) /\ \A i \in a..k - 1 : i \notin S
  BY <1>1
<1>3. FirstIn(html, a, pieces) = Min(S \cup {L + 1})
  BY DEF FirstIn
<1> HIDE DEF S, L
<1>. QED  BY <1>1, <1>2, <1>3, EarliestAt

LEMMA FirstNotInAt ==
    ASSUME NEW B, NEW html \in Seq(B), NEW a \in Nat, NEW pieces, NEW k \in a..Len(html) + 1, a > 0,
           k = Len(html) + 1 \/ html[k] \notin pieces, \A i \in a..k - 1 : html[i] \in pieces
    PROVE  FirstNotIn(html, a, pieces) = k
<1> DEFINE L == Len(html)
           S == {i \in a..L : html[i] \notin pieces}
<1>1. L \in Nat
  OBVIOUS
<1>2. S \in SUBSET (a..L) /\ k \in a..L + 1 /\ (k = L + 1 \/ k \in S) /\ \A i \in a..k - 1 : i \notin S
  BY <1>1
<1>3. FirstNotIn(html, a, pieces) = Min(S \cup {L + 1})
  BY DEF FirstNotIn
<1> HIDE DEF S, L
<1>. QED  BY <1>1, <1>2, <1>3, EarliestAt

LEMMA FirstInIs ==
    ASSUME NEW B, NEW html \in Seq(B), NEW a \in 1..Len(html) + 1, NEW pieces
    PROVE  /\ FirstIn(html, a, pieces) \in a..Len(html) + 1
           /\ FirstIn(html, a, pieces) # Len(html) + 1 => html[FirstIn(html, a, pieces)] \in pieces
           /\ \A i \in a..FirstIn(html, a, pieces) - 1 : html[i] \notin pieces
<1> DEFINE L == Len(html)
           S == {i \in a..L : html[i] \in pieces}
           f == FirstIn(html, a, pieces)
<1>1. L \in Nat /\ S \in SUBSET (a..L)
  OBVIOUS
<1>2. f = Min(S \cup {L + 1})
  BY DEF FirstIn
<1>3. f \in a..L + 1 /\ f \in S \cup {L + 1} /\ \A i \in a..f - 1 : i \notin S
  <2> HIDE DEF S, L, f
  <2>. QED  BY <1>1, <1>2, EarliestIs DEF L
<1> HIDE DEF f
<1>4. \A i \in a..f - 1 : i \in a..L
  BY <1>1, <1>3
<1>. QED  BY <1>3, <1>4 DEF f

LEMMA FirstNotInIs ==
    ASSUME NEW B, NEW html \in Seq(B), NEW a \in 1..Len(html) + 1, NEW pieces
    PROVE  FirstNotIn(html, a, pieces) \in a..Len(html) + 1
<1> DEFINE L == Len(html)
           S == {i \in a..L : html[i] \notin pieces}
<1>1. L \in Nat /\ S \in SUBSET (a..L)
  OBVIOUS
<1>2. FirstNotIn(html, a, pieces) = Min(S \cup {L + 1})
  BY DEF FirstNotIn
<1>3. Min(S \cup {L + 1}) \in a..L + 1
  <2> HIDE DEF S, L
  <2>. QED  BY <1>1, EarliestIs DEF L
<1> HIDE DEF S
<1>. QED  BY <1>2, <1>3

\* What stands before the place can be left out of the search.
LEMMA FirstInLater ==
    ASSUME NEW B, NEW html \in Seq(B), NEW a \in 1..Len(html) + 1, NEW b \in a..Len(html) + 1, NEW pieces,
           \A i \in a..b - 1 : html[i] \notin pieces
    PROVE  FirstIn(html, a, pieces) = FirstIn(html, b, pieces)
<1> DEFINE k == FirstIn(html, b, pieces)
           L == Len(html)
<1>1. L \in Nat /\ b \in 1..L + 1
  OBVIOUS
<1>2. k \in b..L + 1 /\ (k = L + 1 \/ html[k] \in pieces) /\ \A i \in b..k - 1 : html[i] \notin pieces
  BY <1>1, FirstInIs
<1> HIDE DEF k
<1>3. k \in a..L + 1 /\ a \in Nat /\ a > 0 /\ \A i \in a..k - 1 : i \in a..b - 1 \/ i \in b..k - 1
  BY <1>1, <1>2
<1>4. \A i \in a..k - 1 : html[i] \notin pieces
  BY <1>2, <1>3
<1>5. FirstIn(html, a, pieces) = k
  BY <1>2, <1>3, <1>4, FirstInAt
<1>. QED  BY <1>5 DEF k

\* Where extract_links finds the value whose "=" stands at q, and what it makes
\* of a value that begins, with its quote if it has one, at j.
ValuePlace(html, q) == FirstNotIn(html, FirstNotIn(html, q + 1, {"blank"}), {"backslash"})
Closers(piece) == IF piece \in QuoteMarks THEN {piece} ELSE {"blank", ">"}
StartPlace(html, j) == IF html[j] \in QuoteMarks THEN j + 1 ELSE j
EndPlace(html, j) == FirstIn(html, StartPlace(html, j), Closers(html[j]))
NextPlace(html, j) == AfterValue(EndPlace(html, j), html[j] \in QuoteMarks)
LinkAt(html, j) == Link(html, StartPlace(html, j), EndPlace(html, j))
EqualsPlace(html, i) == FirstIn(html, FirstIn(html, i, {"href"}), {"="})
Then(link, rest) == IF rest.panics THEN Panic ELSE Found(link \o rest.links)
NoValue(html, q) == q = Len(html) + 1 \/ ValuePlace(html, q) = Len(html) + 1
FromEquals(from, html, q) ==
    IF NoValue(html, q) THEN Found(<<>>)
    ELSE Then(LinkAt(html, ValuePlace(html, q)), from[NextPlace(html, ValuePlace(html, q))])
ExtractsFrom(from, html) ==
    /\ from[Len(html) + 2] = Panic
    /\ \A i \in 1..Len(html) + 1 : from[i] = FromEquals(from, html, EqualsPlace(html, i))

LEMMA LinkIn ==
    ASSUME NEW B, NEW html \in Seq(B), NEW a \in 1..Len(html) + 1, NEW end \in a..Len(html) + 1
    PROVE  Link(html, a, end) \in Seq(Seq(B))
<1> DEFINE kept == {i \in a..end - 1 : html[i] # "backslash"} \cup {a}
           last == Max(kept)
<1>1. Link(html, a, end) = IF a < end /\ html[a] = "gurt://" THEN <<SubSeq(html, a, last)>> ELSE <<>>
  BY DEF Link
<1>2. CASE a < end
  <2>1. Len(html) \in Nat /\ kept # {} /\ kept \in SUBSET (1..Len(html)) /\ \A i \in kept : i >= a
    BY <1>2
  <2> HIDE DEF kept
  <2>2. last \in kept
    BY <2>1, GreatestIs
  <2> HIDE DEF last
  <2>3. a \in Nat \ {0} /\ last \in Nat /\ last <= Len(html) /\ a <= last + 1
    BY <2>1, <2>2
  <2>4. SubSeq(html, a, last) \in Seq(B)
    BY <2>3, SliceIs
  <2>5. <<SubSeq(html, a, last)>> \in Seq(Seq(B))
    BY <2>4
  <2>. QED  BY <1>1, <2>5
<1>3. CASE ~(a < end)
  BY <1>1, <1>3
<1>. QED  BY <1>2, <1>3

\* Where the places are.
LEMMA PlacesAre ==
    ASSUME NEW B, NEW html \in Seq(B), NEW q \in 1..Len(html), ~NoValue(html, q)
    PROVE  LET j == ValuePlace(html, q) IN
           /\ j \in q + 1..Len(html)
           /\ StartPlace(html, j) \in j..Len(html) + 1 /\ EndPlace(html, j) \in StartPlace(html, j)..Len(html) + 1
           /\ NextPlace(html, j) \in q + 1..Len(html) + 2
           /\ LinkAt(html, j) \in Seq(Seq(B))
<1> DEFINE L == Len(html)
           m == FirstNotIn(html, q + 1, {"blank"})
           j == ValuePlace(html, q)
           s == StartPlace(html, j)
           k == EndPlace(html, j)
<1>1. L \in Nat /\ q + 1 \in 1..L + 1
  OBVIOUS
<1>2. m \in q + 1..L + 1
  BY <1>1, FirstNotInIs
<1> HIDE DEF m
<1>3. m \in 1..L + 1
  BY <1>1, <1>2
<1>4. j \in m..L + 1
  BY <1>3, FirstNotInIs DEF ValuePlace, m
<1>5. j # L + 1
  BY DEF NoValue
<1> HIDE DEF j
<1>6. j \in q + 1..L
  BY <1>1, <1>2, <1>4, <1>5
<1>7. s \in j..L + 1 /\ s \in 1..L + 1
  BY <1>1, <1>6 DEF StartPlace
<1> HIDE DEF s
<1>8. k \in s..L + 1
  BY <1>7, FirstInIs DEF EndPlace, s
<1>9. LinkAt(html, j) \in Seq(Seq(B))
  BY <1>7, <1>8, LinkIn DEF LinkAt, s
<1> HIDE DEF k
<1>10. NextPlace(html, j) \in q + 1..L + 2
  BY <1>1, <1>6, <1>7, <1>8 DEF NextPlace, AfterValue, k
<1>. QED  BY <1>6, <1>7, <1>8, <1>9, <1>10 DEF j, s, k

LEMMA EqualsPlaceIs ==
    ASSUME NEW B, NEW html \in Seq(B), NEW i \in 1..Len(html) + 1
    PROVE  EqualsPlace(html, i) \in i..Len(html) + 1
<1> DEFINE L == Len(html)
           h == FirstIn(html, i, {"href"})
<1>1. L \in Nat
  OBVIOUS
<1>2. h \in i..L + 1
  BY FirstInIs
<1> HIDE DEF h
<1>3. h \in 1..L + 1
  BY <1>1, <1>2
<1>4. FirstIn(html, h, {"="}) \in h..L + 1
  BY <1>3, FirstInIs
<1>5. EqualsPlace(html, i) \in h..L + 1
  BY <1>4 DEF EqualsPlace, h
<1>. QED  BY <1>1, <1>2, <1>5

LEMMA ExtractsFromIs ==
    ASSUME NEW B, NEW html \in Seq(B)
    PROVE  \E from : ExtractsFrom(from, html) /\ ExtractLinks(html) = from[1]
<1> DEFINE L == Len(html)
           N == L + 2
           X == {Panic} \cup {Found(l) : l \in Seq(Seq(B))}
           After(f) ==
               [i \in 1..Len(html) + 1 + 1 |->
                   LET href == FirstIn(html, i, {"href"})
                       equals == FirstIn(html, href, {"="})
                       j == FirstNotIn(html, FirstNotIn(html, equals + 1, {"blank"}), {"backslash"})
                       quoted == html[j] \in QuoteMarks
                       start == IF quoted THEN j + 1 ELSE j
                       k == IF quoted THEN FirstIn(html, start, {html[j]}) ELSE FirstIn(html, start, {"blank", ">"})
                       rest == f[AfterValue(k, quoted)]
                   IN  IF i > Len(html) + 1 THEN Panic
                       ELSE IF href = Len(html) + 1 \/ equals = Len(html) + 1 \/ j >= Len(html) + 1 THEN Found(<<>>)
                       ELSE IF rest.panics THEN Panic
                       ELSE Found(Link(html, start, k) \o rest.links)]
           from == CHOOSE f : f = After(f)
           Q(i) == EqualsPlace(html, i)
           J(i) == ValuePlace(html, Q(i))
           On(i) == i \in 1..L + 1 /\ ~NoValue(html, Q(i))
           next == [i \in 0..N |-> IF On(i) THEN NextPlace(html, J(i)) ELSE 0]
           last == [i \in 0..N |-> IF i = N THEN Panic ELSE Found(<<>>)]
           step == [i \in 0..N |-> [x \in X |-> IF On(i) THEN Then(LinkAt(html, J(i)), x) ELSE x]]
           To(f, i) == IF i = N THEN Panic ELSE FromEquals(f, html, Q(i))
<1>1. ExtractLinks(html) = from[1]
  BY DEF ExtractLinks
<1>2. L \in Nat /\ N \in Nat /\ 1 \in 1..N /\ L + 1 + 1 = N
  OBVIOUS
<1>3. ASSUME NEW i \in 1..L + 1
      PROVE  /\ Q(i) \in i..L + 1
             /\ FirstIn(html, i, {"href"}) = L + 1 => Q(i) = L + 1
             /\ Q(i) # L + 1 => ValuePlace(html, Q(i)) \in 1..L + 1
             /\ On(i) => NextPlace(html, J(i)) \in i + 1..N /\ LinkAt(html, J(i)) \in Seq(Seq(B))
  <2>1. Q(i) \in i..L + 1
    BY EqualsPlaceIs
  <2>2. FirstIn(html, i, {"href"}) = L + 1 => Q(i) = L + 1
    <3>1. L + 1 \in 1..L + 1
      BY <1>2
    <3>2. FirstIn(html, L + 1, {"="}) \in L + 1..L + 1
      BY <3>1, FirstInIs
    <3>. QED  BY <1>2, <3>2 DEF EqualsPlace
  <2> HIDE DEF Q
  <2>3. ASSUME Q(i) # L + 1
        PROVE  ValuePlace(html, Q(i)) \in 1..L + 1
    <3> DEFINE m == FirstNotIn(html, Q(i) + 1, {"blank"})
    <3>1. Q(i) + 1 \in 1..L + 1
      BY <1>2, <2>1, <2>3
    <3>2. m \in Q(i) + 1..L + 1
      BY <3>1, FirstNotInIs
    <3> HIDE DEF m
    <3>3. m \in 1..L + 1
      BY <1>2, <3>1, <3>2
    <3>4. FirstNotIn(html, m, {"backslash"}) \in m..L + 1
      BY <3>3, FirstNotInIs
    <3>. QED  BY <1>2, <3>3, <3>4 DEF ValuePlace, m
  <2>4. ASSUME On(i)
        PROVE  NextPlace(html, J(i)) \in i + 1..N /\ LinkAt(html, J(i)) \in Seq(Seq(B))
    <3>1. Q(i) # L + 1 /\ ~NoValue(html, Q(i))
      BY <2>4 DEF NoValue
    <3>2. Q(i) \in 1..L
      BY <1>2, <2>1, <3>1
    <3>3. NextPlace(html, J(i)) \in Q(i) + 1..L + 2 /\ LinkAt(html, J(i)) \in Seq(Seq(B))
      BY <3>1, <3>2, PlacesAre
    <3>. QED  BY <1>2, <2>1, <3>3
  <2>. QED  BY <2>1, <2>2, <2>3, <2>4
<1>4. ASSUME NEW f, NEW i \in 1..N
      PROVE  After(f)[i] = To(f, i)
  <2>1. CASE i = N
    <3>1. i > Len(html) + 1 /\ i \in 1..Len(html) + 1 + 1
      BY <1>2, <2>1
    <3>. QED  BY <2>1, <3>1
  <2>2. CASE i # N
    <3>1. i \in 1..L + 1 /\ ~(i > Len(html) + 1) /\ i \in 1..Len(html) + 1 + 1
      BY <1>2, <2>2
    <3>2. (FirstIn(html, i, {"href"}) = L + 1 \/ Q(i) = L + 1 \/ J(i) >= L + 1) <=> NoValue(html, Q(i))
      <4>1. Q(i) # L + 1 => J(i) \in 1..L + 1
        BY <1>3, <3>1
      <4>2. FirstIn(html, i, {"href"}) = L + 1 => Q(i) = L + 1
        BY <1>3, <3>1
      <4> HIDE DEF Q, J
      <4>3. Q(i) # L + 1 => (J(i) >= L + 1 <=> J(i) = L + 1)
        BY <1>2, <4>1
      <4>. QED  BY <4>2, <4>3 DEF NoValue, J, L
    <3>3. After(f)[i] =
              IF FirstIn(html, i, {"href"}) = L + 1 \/ Q(i) = L + 1 \/ J(i) >= L + 1 THEN Found(<<>>)
              ELSE Then(LinkAt(html, J(i)), f[NextPlace(html, J(i))])
      <4> DEFINE j == J(i)
                 s == StartPlace(html, j)
                 k == IF html[j] \in QuoteMarks THEN FirstIn(html, s, {html[j]})
                      ELSE FirstIn(html, s, {"blank", ">"})
                 rest == f[AfterValue(k, html[j] \in QuoteMarks)]
      <4>1. After(f)[i] =
                IF FirstIn(html, i, {"href"}) = L + 1 \/ Q(i) = L + 1 \/ j >= L + 1 THEN Found(<<>>)
                ELSE IF rest.panics THEN Panic ELSE Found(Link(html, s, k) \o rest.links)
        BY <3>1 DEF EqualsPlace, ValuePlace, StartPlace
      <4> HIDE DEF After, Q, J, s, j
      <4>2. k = EndPlace(html, j)
        BY DEF EndPlace, Closers, s
      <4> HIDE DEF k
      <4>. QED  BY <4>1, <4>2 DEF Then, LinkAt, NextPlace, s, j, J
    <3> HIDE DEF After, Q
    <3>. QED  BY <2>2, <3>2, <3>3 DEF FromEquals
  <2>. QED  BY <2>1, <2>2
<1> HIDE DEF On, Q
<1>5. PICK g : Jumps(g, N, X, next, last, step)
  <2>1. next \in NextsOn(N)
    <3>1. \A i \in 0..N : On(i) => i \in 1..L + 1
      BY DEF On
    <3>2. ASSUME NEW i \in 0..N, On(i)
          PROVE  NextPlace(html, J(i)) \in 0..N /\ NextPlace(html, J(i)) > i
      BY <1>2, <1>3, <3>1, <3>2
    <3>3. \A i \in 0..N : next[i] \in 0..N /\ (next[i] = 0 \/ next[i] > i)
      BY <1>2, <3>2
    <3>4. next \in [0..N -> 0..N]
      BY <3>3
    <3> HIDE DEF next, N
    <3>. QED  BY <3>3, <3>4 DEF NextsOn
  <2>2. last \in LastsOn(N, X)
    <3>1. Found(<<>>) \in X /\ Panic \in X
      <4>1. <<>> \in Seq(Seq(B))
        OBVIOUS
      <4>. QED  BY <4>1
    <3> HIDE DEF X
    <3>. QED  BY <3>1 DEF LastsOn
  <2>3. step \in JumpsOn(N, X)
    <3>1. ASSUME NEW i \in 0..N, NEW x \in X
          PROVE  (IF On(i) THEN Then(LinkAt(html, J(i)), x) ELSE x) \in X
      <4>1. CASE On(i)
        <5>1. i \in 1..L + 1
          BY <4>1 DEF On
        <5>2. LinkAt(html, J(i)) \in Seq(Seq(B))
          BY <1>3, <4>1, <5>1
        <5>3. CASE x = Panic
          BY <4>1, <5>3 DEF Then, Panic
        <5>4. ASSUME NEW l \in Seq(Seq(B)), x = Found(l)
              PROVE  Then(LinkAt(html, J(i)), x) \in X
          <6>1. x.panics = FALSE /\ x.links = l
            BY <5>4 DEF Found
          <6>2. LinkAt(html, J(i)) \o l \in Seq(Seq(B))
            BY <5>2, ConcatIs
          <6>. QED  BY <6>1, <6>2 DEF Then
        <5>. QED  BY <4>1, <5>3, <5>4
      <4>. QED  BY <4>1
    <3> HIDE DEF N, X, J
    <3>. QED  BY <3>1 DEF JumpsOn
  <2> HIDE DEF next, last, step, X, N
  <2>. QED  BY <1>2, <2>1, <2>2, <2>3, JumpsExist
<1> DEFINE h == [i \in 1..N |-> g[i]]
<1>6. ASSUME NEW i \in 1..N
      PROVE  g[i] = To(h, i)
  <2>1. g \in [0..N -> X] /\ \A p \in 0..N : g[p] = IF next[p] = 0 THEN last[p] ELSE step[p][g[next[p]]]
    BY <1>5 DEF Jumps
  <2>2. i \in 0..N
    BY <1>2
  <2>3. CASE On(i)
    <3> DEFINE q == NextPlace(html, J(i))
    <3>1. i \in 1..L + 1 /\ i # N /\ ~NoValue(html, Q(i))
      BY <1>2, <2>3 DEF On
    <3>2. q \in i + 1..N
      BY <1>3, <2>3, <3>1
    <3>3. q \in 1..N /\ q \in 0..N /\ q # 0
      BY <1>2, <3>1, <3>2
    <3>4. next[i] = q
      BY <2>2, <2>3
    <3>5. h[q] = g[q] /\ g[q] \in X
      BY <2>1, <3>3
    <3> HIDE DEF q, h
    <3>6. g[i] = step[i][g[q]]
      BY <2>1, <2>2, <3>3, <3>4
    <3>7. g[i] = Then(LinkAt(html, J(i)), g[q])
      BY <2>2, <2>3, <3>5, <3>6
    <3>8. To(h, i) = Then(LinkAt(html, J(i)), h[q])
      BY <3>1 DEF FromEquals, q
    <3>. QED  BY <3>5, <3>7, <3>8
  <2>4. CASE ~On(i)
    <3>1. g[i] = last[i]
      BY <2>1, <2>2, <2>4
    <3>2. i = N \/ NoValue(html, Q(i))
      BY <1>2, <2>4 DEF On
    <3>. QED  BY <2>2, <3>1, <3>2 DEF FromEquals
  <2>. QED  BY <2>3, <2>4
<1>7. h = After(h)
  <2>1. \A i \in 1..N : h[i] = After(h)[i]
    <3> TAKE i \in 1..N
    <3>1. h[i] = g[i]
      OBVIOUS
    <3> HIDE DEF h, To, After
    <3>. QED  BY <1>4, <1>6, <3>1 DEF h
  <2>2. h = [i \in 1..N |-> h[i]] /\ After(h) = [i \in 1..N |-> After(h)[i]]
    OBVIOUS
  <2> HIDE DEF h, After, N
  <2>. QED  BY <2>1, <2>2
<1>8. from = After(from)
  <2>1. \E f : f = After(f)
    BY <1>7
  <2> HIDE DEF After
  <2>. QED  BY <2>1
<1> HIDE DEF from, After, To
<1>9. \A i \in 1..N : from[i] = To(from, i)
  BY <1>4, <1>8
<1>10. from[L + 2] = Panic
  <2>1. N \in 1..N
    BY <1>2
  <2>2. from[N] = To(from, N)
    BY <1>9, <2>1
  <2>. QED  BY <2>2 DEF To
<1>11. \A i \in 1..L + 1 : from[i] = FromEquals(from, html, EqualsPlace(html, i))
  <2> TAKE i \in 1..L + 1
  <2>1. i \in 1..N /\ i # N
    BY <1>2
  <2>. QED  BY <1>9, <2>1 DEF To, Q
<1>. QED  BY <1>1, <1>10, <1>11 DEF ExtractsFrom

\* The part h stands in the page after L.
Stands(html, h, L) == L + Len(h) <= Len(html) /\ \A i \in 1..Len(h) : html[L + i] = h[i]

LEMMA LinkStands ==
    ASSUME NEW B, NEW html \in Seq(B), NEW h \in Seq(B), NEW L \in Nat, Stands(html, h, L),
           NEW s \in 1..Len(h) + 1, NEW k \in s..Len(h) + 1
    PROVE  Link(html, L + s, L + k) = Link(h, s, k)
<1> DEFINE far == {i \in L + s..L + k - 1 : html[i] # "backslash"} \cup {L + s}
           near == {i \in s..k - 1 : h[i] # "backslash"} \cup {s}
           a == Max(far)
           b == Max(near)
<1>1. Len(h) \in Nat /\ Len(html) \in Nat /\ L + Len(h) <= Len(html)
  BY DEF Stands
<1>2. Link(html, L + s, L + k) =
          IF L + s < L + k /\ html[L + s] = "gurt://" THEN <<SubSeq(html, L + s, a)>> ELSE <<>>
  BY DEF Link
<1>3. Link(h, s, k) = IF s < k /\ h[s] = "gurt://" THEN <<SubSeq(h, s, b)>> ELSE <<>>
  BY DEF Link
<1>4. CASE ~(s < k)
  <2>1. ~(L + s < L + k)
    BY <1>1, <1>4
  <2> HIDE DEF a, b
  <2>. QED  BY <1>2, <1>3, <1>4, <2>1
<1>5. CASE s < k
  <2>1. s \in 1..Len(h) /\ k - 1 \in Nat /\ k - 1 <= Len(h) /\ L + s < L + k /\ s \in Nat \ {0}
    BY <1>1, <1>5
  <2>2. html[L + s] = h[s]
    BY <2>1 DEF Stands
  <2>3. ASSUME NEW i \in L + s..L + k - 1
        PROVE  i - L \in s..k - 1 /\ i \in 1..Len(html) /\ html[i] = h[i - L]
    <3>1. i - L \in s..k - 1 /\ i - L \in 1..Len(h) /\ i \in 1..Len(html) /\ L + (i - L) = i
      BY <1>1, <2>1
    <3>. QED  BY <3>1 DEF Stands
  <2>5. far \in SUBSET (1..Len(html)) /\ far # {} /\ \A i \in far : i >= L + s /\ i - L \in near
    <3>1. L + s \in 1..Len(html) /\ (L + s) - L = s
      BY <1>1, <2>1
    <3>2. \A i \in L + s..L + k - 1 : i >= L + s
      BY <1>1
    <3>. QED  BY <2>3, <3>1, <3>2
  <2>6. near \in SUBSET (1..Len(h)) /\ near # {} /\ \A i \in near : L + i \in far
    <3>1. ASSUME NEW i \in s..k - 1
          PROVE  L + i \in L + s..L + k - 1 /\ html[L + i] = h[i] /\ i \in 1..Len(h)
      <4>1. i \in 1..Len(h) /\ L + i \in L + s..L + k - 1
        BY <1>1, <2>1
      <4>. QED  BY <4>1 DEF Stands
    <3>. QED  BY <2>1, <3>1
  <2> HIDE DEF far, near
  <2>7. a \in far /\ \A i \in far : i <= a
    BY <1>1, <2>5, GreatestIs
  <2>8. b \in near /\ \A i \in near : i <= b
    BY <1>1, <2>6, GreatestIs
  <2> HIDE DEF a, b
  <2>9. a = L + b /\ b \in 1..Len(h) /\ s <= b
    <3>1. a \in Nat /\ b \in 1..Len(h) /\ a - L \in near /\ L + b \in far
      BY <2>5, <2>6, <2>7, <2>8
    <3>2. a - L <= b /\ L + b <= a
      BY <2>7, <2>8, <3>1
    <3>3. L + b >= L + s
      BY <2>5, <3>1
    <3>. QED  BY <2>1, <3>1, <3>2, <3>3
  <2> DEFINE u == SubSeq(html, L + s, L + b)
             v == SubSeq(h, s, b)
             n == b - s + 1
  <2>10. /\ L + s \in Nat \ {0} /\ L + b \in Nat /\ L + b <= Len(html) /\ L + s <= L + b + 1
         /\ L + b - (L + s) + 1 = n /\ b \in Nat /\ b <= Len(h) /\ s <= b + 1
    BY <1>1, <2>1, <2>9
  <2>11. u \in Seq(B) /\ Len(u) = L + b - (L + s) + 1 /\ \A i \in 1..L + b - (L + s) + 1 : u[i] = html[L + s + i - 1]
    BY <2>10, SliceIs
  <2>12. v \in Seq(B) /\ Len(v) = n /\ \A i \in 1..n : v[i] = h[s + i - 1]
    BY <2>1, <2>10, SliceIs
  <2>13. \A i \in 1..n : html[L + s + i - 1] = h[s + i - 1]
    <3> TAKE i \in 1..n
    <3>1. s + i - 1 \in 1..Len(h) /\ L + s + i - 1 = L + (s + i - 1)
      BY <2>1, <2>9
    <3>. QED  BY <3>1 DEF Stands
  <2> HIDE DEF u, v, n
  <2>14. u = v
    <3>1. Len(u) = Len(v) /\ \A i \in 1..Len(u) : u[i] = v[i]
      BY <2>10, <2>11, <2>12, <2>13
    <3>. QED  BY <2>11, <2>12, <3>1, SeqEqual
  <2>15. SubSeq(html, L + s, a) = SubSeq(h, s, b)
    BY <2>9, <2>14 DEF u, v
  <2>16. L + s < L + k /\ s < k /\ html[L + s] = h[s]
    BY <1>5, <2>1, <2>2
  <2> DEFINE x == SubSeq(html, L + s, a)
             y == SubSeq(h, s, b)
  <2>17. Link(html, L + s, L + k) = IF html[L + s] = "gurt://" THEN <<x>> ELSE <<>>
    BY <1>2, <2>16
  <2>18. Link(h, s, k) = IF h[s] = "gurt://" THEN <<y>> ELSE <<>>
    BY <1>3, <2>16
  <2>19. x = y
    BY <2>15
  <2> HIDE DEF x, y
  <2>. QED  BY <2>16, <2>17, <2>18, <2>19
<1>. QED  BY <1>4, <1>5

\* The first "=" of h stands at q, and the value it gives begins at j.
ValueIn(h, q, m, j) ==
    /\ q \in 1..Len(h) /\ m \in q + 1..Len(h) /\ j \in m..Len(h)
    /\ h[q] = "=" /\ \A i \in 1..q - 1 : h[i] # "="
    /\ h[m] # "blank" /\ \A i \in q + 1..m - 1 : h[i] = "blank"
    /\ h[j] # "backslash" /\ \A i \in m..j - 1 : h[i] = "backslash"
\* The value that begins at j ends at k, or, past the end of h, does not.
ClosesAt(h, j, k) ==
    /\ k \in StartPlace(h, j)..Len(h) + 1 /\ (k <= Len(h) => h[k] \in Closers(h[j]))
    /\ \A i \in StartPlace(h, j)..k - 1 : h[i] \notin Closers(h[j])

LEMMA ValueStands ==
    ASSUME NEW B, NEW html \in Seq(B), NEW h \in Seq(B), NEW L \in Nat, Stands(html, h, L),
           NEW q, NEW m, NEW j, ValueIn(h, q, m, j)
    PROVE  ValuePlace(html, L + q) = L + j /\ ~NoValue(html, L + q) /\ html[L + j] = h[j]
<1>1. Len(h) \in Nat /\ Len(html) \in Nat /\ L + Len(h) <= Len(html)
  BY DEF Stands
<1>2. /\ q \in 1..Len(h) /\ m \in q + 1..Len(h) /\ j \in m..Len(h)
      /\ h[m] # "blank" /\ \A i \in q + 1..m - 1 : h[i] = "blank"
      /\ h[j] # "backslash" /\ \A i \in m..j - 1 : h[i] = "backslash"
  BY DEF ValueIn
<1> DEFINE a == L + q + 1
           b == L + m
           c == L + j
<1>3. /\ a \in Nat /\ a > 0 /\ b \in a..Len(html) + 1 /\ b \in Nat /\ b > 0 /\ c \in b..Len(html) + 1
      /\ m \in 1..Len(h) /\ j \in 1..Len(h) /\ c # Len(html) + 1 /\ L + q # Len(html) + 1
  BY <1>1, <1>2
<1>4. html[b] = h[m] /\ html[c] = h[j]
  BY <1>3 DEF Stands
<1>5. \A i \in a..b - 1 : html[i] \in {"blank"}
  <2> TAKE i \in a..b - 1
  <2>1. i - L \in q + 1..m - 1 /\ i - L \in 1..Len(h) /\ L + (i - L) = i
    BY <1>1, <1>2
  <2>2. html[i] = h[i - L]
    BY <2>1 DEF Stands
  <2>. QED  BY <1>2, <2>1, <2>2
<1>6. \A i \in b..c - 1 : html[i] \in {"backslash"}
  <2> TAKE i \in b..c - 1
  <2>1. i - L \in m..j - 1 /\ i - L \in 1..Len(h) /\ L + (i - L) = i
    BY <1>1, <1>2
  <2>2. html[i] = h[i - L]
    BY <2>1 DEF Stands
  <2>. QED  BY <1>2, <2>1, <2>2
<1> HIDE DEF a, b, c
<1>7. FirstNotIn(html, a, {"blank"}) = b
  BY <1>2, <1>3, <1>4, <1>5, FirstNotInAt
<1>8. FirstNotIn(html, b, {"backslash"}) = c
  BY <1>2, <1>3, <1>4, <1>6, FirstNotInAt
<1>9. ValuePlace(html, L + q) = c
  BY <1>7, <1>8 DEF ValuePlace, a
<1>. QED  BY <1>3, <1>4, <1>9 DEF c, NoValue

LEMMA EndStands ==
    ASSUME NEW B, NEW html \in Seq(B), NEW h \in Seq(B), NEW L \in Nat, Stands(html, h, L),
           NEW j \in 1..Len(h), NEW k, ClosesAt(h, j, k), k <= Len(h) \/ Len(html) = L + Len(h)
    PROVE  /\ NextPlace(html, L + j) = L + AfterValue(k, h[j] \in QuoteMarks)
           /\ LinkAt(html, L + j) = Link(h, StartPlace(h, j), k)
<1> DEFINE s == StartPlace(h, j)
           t == L + s
           c == L + k
           P == Closers(h[j])
<1>1. Len(h) \in Nat /\ Len(html) \in Nat /\ L + Len(h) <= Len(html)
  BY DEF Stands
<1>2. html[L + j] = h[j]
  BY DEF Stands
<1>3. s \in 1..Len(h) + 1 /\ StartPlace(html, L + j) = t
  BY <1>1, <1>2 DEF StartPlace
<1>4. k \in s..Len(h) + 1 /\ (k <= Len(h) => h[k] \in P) /\ \A i \in s..k - 1 : h[i] \notin P
  BY DEF ClosesAt
<1> HIDE DEF s, P
<1>5. t \in Nat /\ t > 0 /\ c \in t..Len(html) + 1
  BY <1>1, <1>3, <1>4
<1>6. c = Len(html) + 1 \/ html[c] \in P
  <2>1. CASE k <= Len(h)
    <3>1. k \in 1..Len(h)
      BY <1>1, <1>3, <1>4, <2>1
    <3>. QED  BY <1>4, <2>1, <3>1 DEF Stands
  <2>2. CASE ~(k <= Len(h))
    BY <1>1, <1>4, <2>2
  <2>. QED  BY <2>1, <2>2
<1>7. \A i \in t..c - 1 : html[i] \notin P
  <2> TAKE i \in t..c - 1
  <2>1. i - L \in s..k - 1 /\ i - L \in 1..Len(h) /\ L + (i - L) = i
    BY <1>1, <1>3, <1>4
  <2>2. html[i] = h[i - L]
    BY <2>1 DEF Stands
  <2>. QED  BY <1>4, <2>1, <2>2
<1>8. Link(html, t, c) = Link(h, s, k)
  BY <1>3, <1>4, LinkStands
<1> HIDE DEF t, c
<1>9. FirstIn(html, t, P) = c
  BY <1>5, <1>6, <1>7, FirstInAt
<1>10. EndPlace(html, L + j) = c
  BY <1>2, <1>3, <1>9 DEF EndPlace, P
<1>11. NextPlace(html, L + j) = AfterValue(c, h[j] \in QuoteMarks)
  BY <1>2, <1>10 DEF NextPlace
<1>12. AfterValue(c, h[j] \in QuoteMarks) = L + AfterValue(k, h[j] \in QuoteMarks)
  <2>1. k \in Nat
    BY <1>1, <1>3, <1>4
  <2>. QED  BY <2>1 DEF AfterValue, c
<1>13. LinkAt(html, L + j) = Link(h, s, k)
  BY <1>3, <1>8, <1>10 DEF LinkAt
<1>. QED  BY <1>11, <1>12, <1>13 DEF s

LEMMA EqualsLater ==
    ASSUME NEW B, NEW html \in Seq(B), NEW a \in 1..Len(html) + 1, NEW b \in a..Len(html) + 1,
           \A i \in a..b - 1 : html[i] # "href"
    PROVE  EqualsPlace(html, a) = EqualsPlace(html, b)
<1>1. FirstIn(html, a, {"href"}) = FirstIn(html, b, {"href"})
  <2>1. \A i \in a..b - 1 : html[i] \notin {"href"}
    OBVIOUS
  <2>. QED  BY <2>1, FirstInLater
<1>. QED  BY <1>1 DEF EqualsPlace

\* Where the next "=" stands before which the search takes a value, begun if the
\* text href was found before p.
Seek(html, p, begun) == IF begun THEN FirstIn(html, p, {"="}) ELSE EqualsPlace(html, p)
\* The text href stands before the "=" at q, or before no "=" of the part.
Named(h, q) == \E p \in 1..q - 1 : h[p] = "href"
NoneAfterHref(h) == \A i, k \in 1..Len(h) : h[i] = "href" /\ i <= k => h[k] # "="

LEMMA ReadIfNamed ==
    ASSUME NEW B, NEW h \in Seq(B), NEW begun \in BOOLEAN,
           NEW q \in 1..Len(h), h[q] = "=", \A i \in 1..q - 1 : h[i] # "="
    PROVE  IsValueRead(h, begun) <=> begun \/ Named(h, q)
<1>1. DOMAIN h = 1..Len(h) /\ Len(h) \in Nat
  OBVIOUS
<1>2. Has(h, "=")
  BY <1>1 DEF Has
<1>3. ASSUME Named(h, q)
      PROVE  NamesHref(h)
  <2>1. PICK p \in 1..q - 1 : h[p] = "href"
    BY <1>3 DEF Named
  <2>2. p \in 1..Len(h) /\ \A i \in 1..p : i \in 1..q - 1
    BY <1>1
  <2>. QED  BY <1>1, <2>1, <2>2 DEF NamesHref
<1>4. ASSUME NamesHref(h)
      PROVE  Named(h, q)
  <2>1. PICK p \in 1..Len(h) : h[p] = "href" /\ \A i \in 1..p : h[i] # "="
    BY <1>1, <1>4 DEF NamesHref
  <2>2. p >= q => q \in 1..p
    BY <1>1
  <2>3. p \in 1..q - 1
    BY <1>1, <2>1, <2>2
  <2>. QED  BY <2>1, <2>3 DEF Named
<1>. QED  BY <1>2, <1>3, <1>4 DEF IsValueRead

\* The value that is read is that of the part's first "=".
LEMMA SeekFirst ==
    ASSUME NEW B, NEW html \in Seq(B), NEW h \in Seq(B), NEW L \in Nat, Stands(html, h, L),
           NEW q \in 1..Len(h), h[q] = "=", \A i \in 1..q - 1 : h[i] # "=",
           NEW begun \in BOOLEAN, IsValueRead(h, begun)
    PROVE  Seek(html, L + 1, begun) = L + q
<1> DEFINE a == L + 1
           c == L + q
           f == FirstIn(html, a, {"href"})
<1>1. Len(h) \in Nat /\ Len(html) \in Nat /\ L + Len(h) <= Len(html)
  BY DEF Stands
<1>2. a \in Nat /\ a > 0 /\ a \in 1..Len(html) + 1 /\ c \in a..Len(html) + 1
  BY <1>1
<1>3. html[c] \in {"="}
  BY DEF Stands
<1>4. \A i \in a..c - 1 : html[i] \notin {"="}
  <2> TAKE i \in a..c - 1
  <2>1. i - L \in 1..q - 1 /\ i - L \in 1..Len(h) /\ L + (i - L) = i
    BY <1>1
  <2>2. html[i] = h[i - L]
    BY <2>1 DEF Stands
  <2>. QED  BY <2>1, <2>2
<1>5. ASSUME Named(h, q)
      PROVE  f \in a..c - 1
  <2>1. PICK p \in 1..q - 1 : h[p] = "href"
    BY <1>5 DEF Named
  <2>2. p \in 1..Len(h) /\ L + p \in a..c - 1
    BY <1>1
  <2>3. html[L + p] = "href"
    BY <2>1, <2>2 DEF Stands
  <2>4. f \in a..Len(html) + 1 /\ \A i \in a..f - 1 : html[i] \notin {"href"}
    BY <1>2, FirstInIs
  <2> HIDE DEF f, a, c
  <2>5. f > L + p => L + p \in a..f - 1
    BY <1>1, <2>2, <2>4 DEF a
  <2>6. f <= L + p
    BY <1>1, <2>2, <2>3, <2>4, <2>5 DEF a
  <2>. QED  BY <1>1, <2>2, <2>4, <2>6 DEF a, c
<1>6. begun \/ Named(h, q)
  BY ReadIfNamed
<1> HIDE DEF a, c, f
<1>7. FirstIn(html, a, {"="}) = c
  BY <1>2, <1>3, <1>4, FirstInAt
<1>8. ASSUME Named(h, q)
      PROVE  EqualsPlace(html, a) = c
  <2>1. f \in Nat /\ f > 0 /\ c \in f..Len(html) + 1 /\ \A i \in f..c - 1 : i \in a..c - 1
    BY <1>1, <1>2, <1>5, <1>8
  <2>2. \A i \in f..c - 1 : html[i] \notin {"="}
    BY <1>4, <2>1
  <2>3. FirstIn(html, f, {"="}) = c
    BY <1>3, <2>1, <2>2, FirstInAt
  <2>. QED  BY <2>3 DEF EqualsPlace, f
<1>. QED  BY <1>6, <1>7, <1>8 DEF Seek, a, c

\* A part whose value is not read leaves open whether the text href was found.
LEMMA SeekPast ==
    ASSUME NEW B, NEW html \in Seq(B), NEW h \in Seq(B), NEW L \in Nat, Stands(html, h, L),
           NEW begun \in BOOLEAN, ~IsValueRead(h, begun), NoneAfterHref(h)
    PROVE  Seek(html, L + 1, begun) = Seek(html, L + Len(h) + 1, BegunAfter(h, begun))
<1> DEFINE a == L + 1
           b == L + Len(h) + 1
           f == FirstIn(html, a, {"href"})
<1>1. Len(h) \in Nat /\ Len(html) \in Nat /\ L + Len(h) <= Len(html) /\ DOMAIN h = 1..Len(h)
  BY DEF Stands
<1>2. a \in 1..Len(html) + 1 /\ b \in a..Len(html) + 1
  BY <1>1
<1>3. \A i \in a..b - 1 : i - L \in 1..Len(h) /\ html[i] = h[i - L]
  <2> TAKE i \in a..b - 1
  <2>1. i - L \in 1..Len(h) /\ L + (i - L) = i
    BY <1>1
  <2>. QED  BY <2>1 DEF Stands
<1>4. BegunAfter(h, begun) <=> begun \/ Has(h, "href")
  BY DEF BegunAfter
<1>5. f \in a..Len(html) + 1 /\ (f # Len(html) + 1 => html[f] \in {"href"}) /\ \A i \in a..f - 1 : html[i] \notin {"href"}
  BY <1>2, FirstInIs
<1>6. CASE begun
  <2>1. ~Has(h, "=")
    BY <1>6 DEF IsValueRead
  <2>2. \A i \in a..b - 1 : html[i] \notin {"="}
    BY <1>1, <1>3, <2>1 DEF Has
  <2> HIDE DEF a, b
  <2>3. FirstIn(html, a, {"="}) = FirstIn(html, b, {"="})
    BY <1>2, <2>2, FirstInLater
  <2>4. BegunAfter(h, begun)
    BY <1>4, <1>6
  <2>. QED  BY <1>6, <2>3, <2>4 DEF Seek, a, b
<1>7. CASE ~begun /\ ~Has(h, "href")
  <2>1. \A i \in a..b - 1 : html[i] # "href"
    BY <1>1, <1>3, <1>7 DEF Has
  <2> HIDE DEF a, b
  <2>2. EqualsPlace(html, a) = EqualsPlace(html, b)
    BY <1>2, <2>1, EqualsLater
  <2>3. ~BegunAfter(h, begun)
    BY <1>4, <1>7
  <2>. QED  BY <1>7, <2>2, <2>3 DEF Seek, a, b
<1>8. CASE ~begun /\ Has(h, "href")
  <2>1. PICK p \in 1..Len(h) : h[p] = "href"
    BY <1>1, <1>8 DEF Has
  <2>2. L + p \in a..b - 1 /\ html[L + p] = "href"
    BY <1>1, <2>1 DEF Stands
  <2> HIDE DEF f
  <2>3. f <= L + p
    <3>1. f > L + p => L + p \in a..f - 1
      BY <1>1, <1>5, <2>2
    <3> HIDE DEF a, b
    <3>. QED  BY <1>1, <1>2, <1>5, <2>2, <3>1
  <2>4. f \in a..b - 1 /\ f # Len(html) + 1 /\ f \in 1..Len(html) + 1 /\ b \in f..Len(html) + 1
    BY <1>1, <1>2, <1>5, <2>2, <2>3
  <2>5. f - L \in 1..Len(h) /\ h[f - L] = "href"
    BY <1>3, <1>5, <2>4
  <2>6. ASSUME NEW i \in f..b - 1
        PROVE  html[i] \notin {"="}
    <3>1. i \in a..b - 1 /\ f - L <= i - L
      BY <1>1, <1>2, <2>4
    <3>2. i - L \in 1..Len(h) /\ html[i] = h[i - L]
      BY <1>3, <3>1
    <3>3. h[i - L] # "="
      BY <2>5, <3>1, <3>2 DEF NoneAfterHref
    <3>. QED  BY <3>2, <3>3
  <2> HIDE DEF a, b
  <2>7. FirstIn(html, f, {"="}) = FirstIn(html, b, {"="})
    BY <2>4, <2>6, FirstInLater
  <2>8. EqualsPlace(html, a) = FirstIn(html, b, {"="})
    BY <2>7 DEF EqualsPlace, f
  <2>9. BegunAfter(h, begun)
    BY <1>4, <1>8
  <2>. QED  BY <1>8, <2>8, <2>9 DEF Seek, a, b
<1>. QED  BY <1>6, <1>7, <1>8

\* What the rest of the page from p on gives.
Goes(from, html, p, begun, r) == FromEquals(from, html, Seek(html, p, begun)) = r
IsResult(B, r) == r = Panic \/ \E l \in Seq(Seq(B)) : r = Found(l)

LEMMA ThenNothing == ASSUME NEW B, NEW r, IsResult(B, r) PROVE Then(<<>>, r) = r
<1>1. CASE r = Panic
  BY <1>1 DEF Then, Panic
<1>2. ASSUME NEW l \in Seq(Seq(B)), r = Found(l)
      PROVE  Then(<<>>, r) = r
  <2>1. r.panics = FALSE /\ r.links = l
    BY <1>2 DEF Found
  <2>2. <<>> \o l = l
    OBVIOUS
  <2>. QED  BY <1>2, <2>1, <2>2 DEF Then
<1>. QED  BY <1>1, <1>2 DEF IsResult

\* Parts of a page, and what they give if they are read: text, or one attribute,
\* of any name, whose value ends.
IsText(h, links) == links = <<>> /\ \A i \in 1..Len(h) : h[i] # "="
HasValue(h, links, q, m, j, k) ==
    /\ ValueIn(h, q, m, j) /\ ClosesAt(h, j, k) /\ k <= Len(h)
    /\ links = Link(h, StartPlace(h, j), k)
    /\ Named(h, q) \/ NoneAfterHref(h)
    /\ \A i \in AfterValue(k, h[j] \in QuoteMarks)..Len(h) : h[i] # "href"
IsPart(h, links) == IsText(h, links) \/ \E q, m, j, k \in 1..Len(h) : HasValue(h, links, q, m, j, k)
Given(h, links, begun) == IF IsValueRead(h, begun) THEN links ELSE <<>>

LEMMA PartRead ==
    ASSUME NEW B, NEW html \in Seq(B), NEW h \in Seq(B), NEW L \in Nat, Stands(html, h, L),
           NEW links, IsPart(h, links), NEW from, ExtractsFrom(from, html), NEW begun \in BOOLEAN,
           NEW r, IsResult(B, r), Goes(from, html, L + Len(h) + 1, BegunAfter(h, begun), r)
    PROVE  Goes(from, html, L + 1, begun, Then(Given(h, links, begun), r))
<1> DEFINE b == L + Len(h) + 1
<1>1. Len(h) \in Nat /\ Len(html) \in Nat /\ L + Len(h) <= Len(html) /\ DOMAIN h = 1..Len(h)
  BY DEF Stands
<1>2. ASSUME ~IsValueRead(h, begun), NoneAfterHref(h)
      PROVE  Goes(from, html, L + 1, begun, Then(Given(h, links, begun), r))
  <2>1. Seek(html, L + 1, begun) = Seek(html, L + Len(h) + 1, BegunAfter(h, begun))
    BY <1>2, SeekPast
  <2>2. Then(Given(h, links, begun), r) = r
    BY <1>2, ThenNothing DEF Given
  <2>. QED  BY <2>1, <2>2 DEF Goes
<1>3. CASE IsText(h, links)
  <2>1. ~IsValueRead(h, begun) /\ NoneAfterHref(h)
    BY <1>1, <1>3 DEF IsText, IsValueRead, Has, NoneAfterHref
  <2>. QED  BY <1>2, <2>1
<1> HIDE DEF b
<1>4. ASSUME NEW q \in 1..Len(h), NEW m \in 1..Len(h), NEW j \in 1..Len(h), NEW k \in 1..Len(h),
             HasValue(h, links, q, m, j, k), IsValueRead(h, begun)
      PROVE  Goes(from, html, L + 1, begun, Then(Given(h, links, begun), r))
  <2> DEFINE n == AfterValue(k, h[j] \in QuoteMarks)
  <2>1. /\ ValueIn(h, q, m, j) /\ ClosesAt(h, j, k) /\ k <= Len(h) /\ links = Link(h, StartPlace(h, j), k)
        /\ \A i \in n..Len(h) : h[i] # "href"
    BY <1>4 DEF HasValue
  <2>2. n \in 1..Len(h) + 1
    BY <1>1 DEF AfterValue
  <2>3. ValuePlace(html, L + q) = L + j /\ ~NoValue(html, L + q)
    BY <2>1, ValueStands
  <2>4. NextPlace(html, L + j) = L + n /\ LinkAt(html, L + j) = links
    BY <2>1, EndStands
  <2>5. Seek(html, L + 1, begun) = L + q
    BY <1>4, <2>1, SeekFirst DEF ValueIn
  <2> HIDE DEF n
  <2>6. FromEquals(from, html, L + q) = Then(links, from[L + n])
    BY <2>3, <2>4 DEF FromEquals
  <2>7. from[L + n] = r
    <3>1. L + n \in 1..Len(html) + 1 /\ b \in L + n..Len(html) + 1
      BY <1>1, <2>2 DEF b
    <3>2. \A i \in L + n..b - 1 : html[i] # "href"
      <4> TAKE i \in L + n..b - 1
      <4>1. i - L \in n..Len(h) /\ i - L \in 1..Len(h) /\ L + (i - L) = i
        BY <1>1, <2>2 DEF b
      <4>2. html[i] = h[i - L]
        BY <4>1 DEF Stands
      <4>. QED  BY <2>1, <4>1, <4>2
    <3> DEFINE a == L + n
    <3> HIDE DEF a
    <3>3. EqualsPlace(html, a) = EqualsPlace(html, b)
      BY <3>1, <3>2, EqualsLater DEF a
    <3>4. from[a] = FromEquals(from, html, EqualsPlace(html, a))
      BY <3>1 DEF ExtractsFrom, a
    <3>5. FromEquals(from, html, EqualsPlace(html, b)) = r
      <4>1. ~BegunAfter(h, begun)
        BY <1>4 DEF BegunAfter
      <4>. QED  BY <4>1 DEF Goes, Seek, b
    <3>. QED  BY <3>3, <3>4, <3>5 DEF a
  <2>8. Given(h, links, begun) = links
    BY <1>4 DEF Given
  <2>. QED  BY <2>5, <2>6, <2>7, <2>8 DEF Goes
<1>5. ASSUME NEW q \in 1..Len(h), NEW m \in 1..Len(h), NEW j \in 1..Len(h), NEW k \in 1..Len(h),
             HasValue(h, links, q, m, j, k), ~IsValueRead(h, begun)
      PROVE  NoneAfterHref(h)
  <2>1. ~Named(h, q)
    BY <1>5, ReadIfNamed DEF HasValue, ValueIn
  <2>. QED  BY <1>5, <2>1 DEF HasValue
<1>. QED  BY <1>2, <1>3, <1>4, <1>5 DEF IsPart

LEMMA PartLinks ==
    ASSUME NEW B, NEW h \in Seq(B), NEW links, IsPart(h, links)
    PROVE  links \in Seq(Seq(B))
<1>1. CASE IsText(h, links)
  BY <1>1 DEF IsText
<1>2. ASSUME NEW q \in 1..Len(h), NEW m \in 1..Len(h), NEW j \in 1..Len(h), NEW k \in 1..Len(h),
             HasValue(h, links, q, m, j, k)
      PROVE  links \in Seq(Seq(B))
  <2>1. ClosesAt(h, j, k) /\ links = Link(h, StartPlace(h, j), k)
    BY <1>2 DEF HasValue
  <2>2. StartPlace(h, j) \in 1..Len(h) + 1 /\ k \in StartPlace(h, j)..Len(h) + 1
    BY <2>1 DEF ClosesAt, StartPlace
  <2>. QED  BY <2>1, <2>2, LinkIn
<1>. QED  BY <1>1, <1>2 DEF IsPart

\* The last part of a page may end within a value: one without quotes is a link,
\* one within quotes makes the code panic, one that is missing is none.
EndsWithin(h, links, q, m, j, quoted) ==
    /\ ValueIn(h, q, m, j) /\ ClosesAt(h, j, Len(h) + 1) /\ (Named(h, q) \/ NoneAfterHref(h))
    /\ (quoted <=> h[j] \in QuoteMarks)
    /\ ~quoted => links = Link(h, StartPlace(h, j), Len(h) + 1)
IsMissing(h, links, q, m) ==
    /\ links = <<>> /\ h[q] = "=" /\ (\A i \in 1..q - 1 : h[i] # "=") /\ Named(h, q)
    /\ m \in q + 1..Len(h) + 1 /\ (m <= Len(h) => h[m] # "blank")
    /\ (\A i \in q + 1..m - 1 : h[i] = "blank") /\ \A i \in m..Len(h) : h[i] = "backslash"
Unclosed(h, links) == \E q, m, j \in 1..Len(h) : EndsWithin(h, links, q, m, j, TRUE)
IsEnd(h, links) ==
    \/ IsPart(h, links)
    \/ \E q, m, j \in 1..Len(h) : EndsWithin(h, links, q, m, j, FALSE)
    \/ \E q \in 1..Len(h) : \E m \in 1..Len(h) + 1 : IsMissing(h, links, q, m)

LEMMA AtTheEnd ==
    ASSUME NEW B, NEW html \in Seq(B), NEW from, NEW begun
    PROVE  Goes(from, html, Len(html) + 1, begun, Found(<<>>))
<1> DEFINE e == Len(html) + 1
<1>1. Len(html) \in Nat /\ e \in Nat /\ e > 0 /\ e \in 1..e /\ e \in e..e
  OBVIOUS
<1>2. EqualsPlace(html, e) \in e..e
  BY <1>1, EqualsPlaceIs
<1>3. FirstIn(html, e, {"="}) \in e..e
  BY <1>1, FirstInIs
<1>4. NoValue(html, e)
  BY DEF NoValue
<1>5. EqualsPlace(html, e) = e /\ FirstIn(html, e, {"="}) = e
  BY <1>1, <1>2, <1>3
<1> HIDE DEF e
<1>6. FromEquals(from, html, e) = Found(<<>>)
  BY <1>4 DEF FromEquals
<1>. QED  BY <1>5, <1>6 DEF Goes, Seek, e

LEMMA AfterTheEnd ==
    ASSUME NEW B, NEW html \in Seq(B), NEW from, ExtractsFrom(from, html)
    PROVE  from[Len(html) + 1] = Found(<<>>)
<1> DEFINE e == Len(html) + 1
<1>1. e \in 1..e
  OBVIOUS
<1>2. from[e] = FromEquals(from, html, EqualsPlace(html, e))
  BY <1>1 DEF ExtractsFrom
<1>3. Goes(from, html, e, FALSE, Found(<<>>))
  BY AtTheEnd
<1>. QED  BY <1>2, <1>3 DEF Goes, Seek

\* A value that ends with the page.
CutGives(B, from, html, p, h, begun, links, quoted) ==
    /\ ~quoted => links \in Seq(Seq(B))
    /\ quoted /\ IsValueRead(h, begun) => Goes(from, html, p, begun, Panic)
    /\ ~quoted /\ IsValueRead(h, begun) => Goes(from, html, p, begun, Found(links))
    /\ ~IsValueRead(h, begun) => Goes(from, html, p, begun, Found(<<>>))

LEMMA CutRead ==
    ASSUME NEW B, NEW html \in Seq(B), NEW h \in Seq(B), NEW L \in Nat, Stands(html, h, L),
           Len(html) = L + Len(h), NEW from, ExtractsFrom(from, html), NEW links, NEW quoted \in BOOLEAN,
           NEW q \in 1..Len(h), NEW m \in 1..Len(h), NEW j \in 1..Len(h), EndsWithin(h, links, q, m, j, quoted),
           NEW begun \in BOOLEAN
    PROVE  CutGives(B, from, html, L + 1, h, begun, links, quoted)
<1> DEFINE E == Len(h) + 1
           s == StartPlace(h, j)
           link == Link(h, s, E)
           n == AfterValue(E, h[j] \in QuoteMarks)
<1>1. ValueIn(h, q, m, j) /\ ClosesAt(h, j, E) /\ (Named(h, q) \/ NoneAfterHref(h))
  BY DEF EndsWithin
<1>2. (quoted <=> h[j] \in QuoteMarks) /\ (~quoted => links = link)
  BY DEF EndsWithin
<1>3. ValuePlace(html, L + q) = L + j /\ ~NoValue(html, L + q)
  BY <1>1, ValueStands
<1>4. NextPlace(html, L + j) = L + n /\ LinkAt(html, L + j) = link
  BY <1>1, EndStands
<1>5. IsValueRead(h, begun) => Seek(html, L + 1, begun) = L + q
  BY <1>1, SeekFirst DEF ValueIn
<1>6. s \in 1..Len(h) + 1 /\ E \in s..Len(h) + 1
  BY <1>1 DEF ClosesAt, StartPlace
<1>7. link \in Seq(Seq(B))
  <2> HIDE DEF s, E
  <2>. QED  BY <1>6, LinkIn
<1>8. Len(h) \in Nat /\ L + E = Len(html) + 1 /\ L + (E + 1) = Len(html) + 2
  OBVIOUS
<1> HIDE DEF link, E, s
<1>9. FromEquals(from, html, L + q) = Then(link, from[L + n])
  BY <1>3, <1>4 DEF FromEquals
<1>10. ASSUME quoted, IsValueRead(h, begun)
       PROVE  Goes(from, html, L + 1, begun, Panic)
  <2>1. n = E + 1
    BY <1>2, <1>10 DEF AfterValue
  <2>2. from[L + n] = Panic
    BY <1>8, <2>1 DEF ExtractsFrom
  <2> HIDE DEF n
  <2>3. Then(link, from[L + n]) = Panic
    BY <2>2 DEF Then, Panic
  <2>. QED  BY <1>5, <1>9, <1>10, <2>3 DEF Goes
<1>11. ASSUME ~quoted, IsValueRead(h, begun)
       PROVE  Goes(from, html, L + 1, begun, Found(links))
  <2>1. n = E
    BY <1>2, <1>11 DEF AfterValue
  <2>2. from[L + n] = Found(<<>>)
    BY <1>8, <2>1, AfterTheEnd
  <2> HIDE DEF n
  <2>3. Then(link, Found(<<>>)) = Found(link)
    <3>1. link \o <<>> = link
      BY <1>7
    <3>. QED  BY <3>1 DEF Then, Found
  <2>. QED  BY <1>2, <1>5, <1>9, <1>11, <2>2, <2>3 DEF Goes
<1>12. ~quoted => links \in Seq(Seq(B))
  BY <1>2, <1>7
<1>13. ASSUME ~IsValueRead(h, begun)
       PROVE  Goes(from, html, L + 1, begun, Found(<<>>))
  <2>1. NoneAfterHref(h)
    BY <1>1, <1>13, ReadIfNamed DEF ValueIn
  <2>2. Seek(html, L + 1, begun) = Seek(html, L + Len(h) + 1, BegunAfter(h, begun))
    BY <1>13, <2>1, SeekPast
  <2>3. Goes(from, html, Len(html) + 1, BegunAfter(h, begun), Found(<<>>))
    BY AtTheEnd
  <2>4. L + Len(h) + 1 = Len(html) + 1
    OBVIOUS
  <2>. QED  BY <2>2, <2>3, <2>4 DEF Goes
<1>. QED  BY <1>10, <1>11, <1>12, <1>13 DEF CutGives

\* An attribute whose value does not come before the end.
LEMMA MissingRead ==
    ASSUME NEW B, NEW html \in Seq(B), NEW h \in Seq(B), NEW L \in Nat, Stands(html, h, L),
           Len(html) = L + Len(h), NEW from, NEW links,
           NEW q \in 1..Len(h), NEW m \in 1..Len(h) + 1, IsMissing(h, links, q, m),
           NEW begun \in BOOLEAN
    PROVE  links = <<>> /\ Goes(from, html, L + 1, begun, Found(<<>>))
<1> DEFINE a == L + q + 1
           b == L + m
           e == Len(html) + 1
<1>1. /\ links = <<>> /\ h[q] = "=" /\ (\A i \in 1..q - 1 : h[i] # "=") /\ Named(h, q)
      /\ m \in q + 1..Len(h) + 1 /\ (m <= Len(h) => h[m] # "blank")
      /\ (\A i \in q + 1..m - 1 : h[i] = "blank") /\ \A i \in m..Len(h) : h[i] = "backslash"
  BY DEF IsMissing
<1>2. Seek(html, L + 1, begun) = L + q
  BY <1>1, ReadIfNamed, SeekFirst
<1>3. /\ Len(h) \in Nat /\ Len(html) \in Nat /\ a \in Nat /\ a > 0 /\ b \in a..e /\ b \in Nat /\ b > 0
      /\ e \in b..e /\ e \in Nat
  BY <1>1
<1>4. b = e \/ html[b] \notin {"blank"}
  <2>1. CASE m <= Len(h)
    <3>1. m \in 1..Len(h)
      BY <1>3, <2>1
    <3>. QED  BY <1>1, <2>1, <3>1 DEF Stands
  <2>2. CASE ~(m <= Len(h))
    BY <1>1, <1>3, <2>2
  <2>. QED  BY <2>1, <2>2
<1>5. \A i \in a..b - 1 : html[i] \in {"blank"}
  <2> TAKE i \in a..b - 1
  <2>1. i - L \in q + 1..m - 1 /\ i - L \in 1..Len(h) /\ L + (i - L) = i
    BY <1>1, <1>3
  <2>2. html[i] = h[i - L]
    BY <2>1 DEF Stands
  <2>. QED  BY <1>1, <2>1, <2>2
<1>6. \A i \in b..e - 1 : html[i] \in {"backslash"}
  <2> TAKE i \in b..e - 1
  <2>1. i - L \in m..Len(h) /\ i - L \in 1..Len(h) /\ L + (i - L) = i
    BY <1>1, <1>3
  <2>2. html[i] = h[i - L]
    BY <2>1 DEF Stands
  <2>. QED  BY <1>1, <2>1, <2>2
<1>7. e = Len(html) + 1
  OBVIOUS
<1> HIDE DEF a, b, e
<1>8. FirstNotIn(html, a, {"blank"}) = b
  BY <1>3, <1>4, <1>5, <1>7, FirstNotInAt
<1>9. FirstNotIn(html, b, {"backslash"}) = e
  BY <1>3, <1>6, <1>7, FirstNotInAt
<1>10. NoValue(html, L + q)
  BY <1>7, <1>8, <1>9 DEF NoValue, ValuePlace, a
<1>11. FromEquals(from, html, L + q) = Found(<<>>)
  BY <1>10 DEF FromEquals
<1>. QED  BY <1>1, <1>2, <1>11 DEF Goes

\* What the last part of a page gives.
LEMMA EndRead ==
    ASSUME NEW B, NEW html \in Seq(B), NEW h \in Seq(B), NEW L \in Nat, Stands(html, h, L),
           Len(html) = L + Len(h), NEW from, ExtractsFrom(from, html), NEW links, NEW begun \in BOOLEAN
    PROVE  /\ IsEnd(h, links) =>
                  links \in Seq(Seq(B)) /\ Goes(from, html, L + 1, begun, Found(Given(h, links, begun)))
           /\ Unclosed(h, links) =>
                  Goes(from, html, L + 1, begun, IF IsValueRead(h, begun) THEN Panic ELSE Found(<<>>))
<1>1. ASSUME IsPart(h, links)
      PROVE  links \in Seq(Seq(B)) /\ Goes(from, html, L + 1, begun, Found(Given(h, links, begun)))
  <2> DEFINE given == Given(h, links, begun)
  <2>1. L + Len(h) + 1 = Len(html) + 1
    OBVIOUS
  <2>2. Goes(from, html, L + Len(h) + 1, BegunAfter(h, begun), Found(<<>>))
    BY <2>1, AtTheEnd
  <2>3. IsResult(B, Found(<<>>))
    <3>1. <<>> \in Seq(Seq(B))
      OBVIOUS
    <3>. QED  BY <3>1 DEF IsResult
  <2>4. Goes(from, html, L + 1, begun, Then(given, Found(<<>>)))
    BY <1>1, <2>2, <2>3, PartRead
  <2>5. links \in Seq(Seq(B))
    BY <1>1, PartLinks
  <2>6. given \in Seq(Seq(B))
    BY <2>5 DEF Given
  <2> HIDE DEF given
  <2>7. Then(given, Found(<<>>)) = Found(given)
    <3>1. given \o <<>> = given
      BY <2>6
    <3>. QED  BY <3>1 DEF Then, Found
  <2>. QED  BY <2>4, <2>5, <2>7 DEF given
<1>2. ASSUME NEW q \in 1..Len(h), NEW m \in 1..Len(h), NEW j \in 1..Len(h), EndsWithin(h, links, q, m, j, FALSE)
      PROVE  links \in Seq(Seq(B)) /\ Goes(from, html, L + 1, begun, Found(Given(h, links, begun)))
  <2>1. /\ links \in Seq(Seq(B))
        /\ IsValueRead(h, begun) => Goes(from, html, L + 1, begun, Found(links))
        /\ ~IsValueRead(h, begun) => Goes(from, html, L + 1, begun, Found(<<>>))
    <3>1. CutGives(B, from, html, L + 1, h, begun, links, FALSE)
      BY <1>2, CutRead
    <3>. QED  BY <3>1 DEF CutGives
  <2>. QED  BY <2>1 DEF Given
<1>3. ASSUME NEW q \in 1..Len(h), NEW m \in 1..Len(h) + 1, IsMissing(h, links, q, m)
      PROVE  links \in Seq(Seq(B)) /\ Goes(from, html, L + 1, begun, Found(Given(h, links, begun)))
  <2>1. links = <<>> /\ Goes(from, html, L + 1, begun, Found(<<>>))
    BY <1>3, MissingRead
  <2>2. <<>> \in Seq(Seq(B))
    OBVIOUS
  <2>. QED  BY <2>1, <2>2 DEF Given
<1>4. ASSUME NEW q \in 1..Len(h), NEW m \in 1..Len(h), NEW j \in 1..Len(h), EndsWithin(h, links, q, m, j, TRUE)
      PROVE  Goes(from, html, L + 1, begun, IF IsValueRead(h, begun) THEN Panic ELSE Found(<<>>))
  <2>1. /\ IsValueRead(h, begun) => Goes(from, html, L + 1, begun, Panic)
        /\ ~IsValueRead(h, begun) => Goes(from, html, L + 1, begun, Found(<<>>))
    <3>1. CutGives(B, from, html, L + 1, h, begun, links, TRUE)
      BY <1>4, CutRead
    <3>. QED  BY <3>1 DEF CutGives
  <2>. QED  BY <2>1
<1>5. IsEnd(h, links) =>
          links \in Seq(Seq(B)) /\ Goes(from, html, L + 1, begun, Found(Given(h, links, begun)))
  BY <1>1, <1>2, <1>3 DEF IsEnd
<1>6. Unclosed(h, links) =>
          Goes(from, html, L + 1, begun, IF IsValueRead(h, begun) THEN Panic ELSE Found(<<>>))
  BY <1>4 DEF Unclosed
<1>. QED  BY <1>5, <1>6

LEMMA PartStands ==
    ASSUME NEW B, NEW hs \in Seq(Seq(B)), NEW n \in 1..Len(hs)
    PROVE  /\ hs[n] \in Seq(B) /\ Len(Read(hs, n - 1)) \in Nat
           /\ Stands(Read(hs, Len(hs)), hs[n], Len(Read(hs, n - 1)))
           /\ Len(Read(hs, n)) = Len(Read(hs, n - 1)) + Len(hs[n])
<1> DEFINE N == Len(hs)
           before == Read(hs, n - 1)
           through == Read(hs, n)
           all == Read(hs, N)
           h == hs[n]
<1>1. N \in Nat /\ n \in 0..N /\ n - 1 \in 0..N /\ N \in 0..N
  OBVIOUS
<1>2. before \in Seq(B) /\ through \in Seq(B) /\ all \in Seq(B) /\ h \in Seq(B) /\ through = before \o h
  <2>1. \A k \in 0..N : Read(hs, k) \in Seq(B)
    BY ReadIs
  <2>2. hs[n] \in Seq(B) /\ Read(hs, n) = Read(hs, n - 1) \o hs[n]
    BY ReadIs
  <2>. QED  BY <1>1, <2>1, <2>2
<1>3. Len(through) <= Len(all) /\ through = SubSeq(all, 1, Len(through))
  <2> HIDE DEF through, all
  <2>1. Fronts(hs, n, N)
    BY <1>1, ReadsGrow
  <2>. QED  BY <2>1 DEF Fronts, through, all
<1> HIDE DEF N, before, through, all, h
<1>4. /\ Len(before) \in Nat /\ Len(h) \in Nat /\ Len(through) = Len(before) + Len(h) /\ Len(through) \in Nat
      /\ \A j \in Len(before) + 1..Len(before) + Len(h) : through[j] = h[j - Len(before)]
  <2>1. Len(before) \in Nat /\ Len(h) \in Nat
    BY <1>2, LenProperties
  <2>2. /\ Len(before \o h) = Len(before) + Len(h)
        /\ \A j \in Len(before) + 1..Len(before) + Len(h) : (before \o h)[j] = h[j - Len(before)]
    BY <1>2, ConcatIs
  <2>3. Len(before) + Len(h) \in Nat
    BY <2>1
  <2>. QED  BY <1>2, <2>1, <2>2, <2>3
<1>5. \A j \in 1..Len(through) : all[j] = through[j]
  <2>1. /\ SubSeq(all, 1, Len(through)) \in Seq(B)
        /\ \A j \in 1..Len(through) : SubSeq(all, 1, Len(through))[j] = all[j]
    BY <1>2, <1>3, <1>4, PrefixIs
  <2>. QED  BY <1>3, <2>1
<1>6. \A j \in 1..Len(h) : all[Len(before) + j] = h[j]
  <2> TAKE j \in 1..Len(h)
  <2>1. /\ Len(before) + j \in 1..Len(through) /\ (Len(before) + j) - Len(before) = j
        /\ Len(before) + j \in Len(before) + 1..Len(before) + Len(h)
    BY <1>4
  <2>. QED  BY <1>4, <1>5, <2>1
<1>7. Stands(all, h, Len(before))
  BY <1>3, <1>4, <1>6 DEF Stands
<1>. QED  BY <1>2, <1>4, <1>7 DEF N, before, through, all, h

\* hs are the parts of a page, ls the links that each gives if it is read, bs
\* whether the text href was found before the part after the n-th, and gs what
\* each gives.
IsPaged(B, hs, ls, gs, bs) ==
    /\ hs \in Seq(Seq(B)) /\ Len(hs) > 0
    /\ ls \in Seq(Seq(Seq(B))) /\ Len(ls) = Len(hs)
    /\ \A n \in 1..Len(hs) - 1 : IsPart(hs[n], ls[n])
    /\ gs \in Seq(Seq(Seq(B))) /\ Len(gs) = Len(hs) /\ bs[0] = FALSE
    /\ \A n \in 0..Len(hs) : bs[n] \in BOOLEAN
    /\ \A n \in 1..Len(hs) : bs[n] = BegunAfter(hs[n], bs[n - 1]) /\ gs[n] = Given(hs[n], ls[n], bs[n - 1])

\* From the links of what follows the n-th part to those of what follows the one
\* before it.
LEMMA PartAdds ==
    ASSUME NEW B, NEW hs, NEW ls, NEW gs, NEW bs, IsPaged(B, hs, ls, gs, bs), NEW n \in 1..Len(hs) - 1,
           NEW from, ExtractsFrom(from, Read(hs, Len(hs))), NEW r, IsResult(B, r),
           Goes(from, Read(hs, Len(hs)), Len(Read(hs, n)) + 1, bs[n], r)
    PROVE  Goes(from, Read(hs, Len(hs)), Len(Read(hs, n - 1)) + 1, bs[n - 1], Then(gs[n], r))
<1> DEFINE N == Len(hs)
           html == Read(hs, N)
           L == Len(Read(hs, n - 1))
           h == hs[n]
           before == bs[n - 1]
<1>1. /\ hs \in Seq(Seq(B)) /\ N \in Nat /\ n \in 1..N /\ n - 1 \in 0..N /\ IsPart(h, ls[n])
      /\ before \in BOOLEAN /\ bs[n] = BegunAfter(h, before) /\ gs[n] = Given(h, ls[n], before)
  <2>1. hs \in Seq(Seq(B)) /\ IsPart(h, ls[n])
    BY DEF IsPaged
  <2>2. N \in Nat /\ n \in 1..N /\ n - 1 \in 0..N
    BY <2>1
  <2> HIDE DEF N
  <2>3. before \in BOOLEAN /\ bs[n] = BegunAfter(h, before) /\ gs[n] = Given(h, ls[n], before)
    BY <2>2 DEF IsPaged, N
  <2>. QED  BY <2>1, <2>2, <2>3
<1>2. h \in Seq(B) /\ L \in Nat /\ Stands(html, h, L) /\ Len(Read(hs, n)) = L + Len(h)
  <2> HIDE DEF L, html, h, N
  <2>. QED  BY <1>1, PartStands DEF L, html, h, N
<1>3. html \in Seq(B)
  <2>1. N \in 0..N
    BY <1>1
  <2>. QED  BY <1>1, <2>1, ReadIs
<1>4. Goes(from, html, L + Len(h) + 1, BegunAfter(h, before), r) /\ ExtractsFrom(from, html)
  BY <1>1, <1>2
<1> HIDE DEF L, html, h, N, before
<1>5. Goes(from, html, L + 1, before, Then(Given(h, ls[n], before), r))
  BY <1>1, <1>2, <1>3, <1>4, PartRead
<1>. QED  BY <1>1, <1>5 DEF L, html, N, before

\* The links of a page are those of its parts that are read, in their order; a
\* page that ends within the quotes of a value that is read makes the code panic.
LEMMA LinksFound ==
    ASSUME NEW B, NEW hs, NEW ls, NEW gs, NEW bs, IsPaged(B, hs, ls, gs, bs)
    PROVE  LET N == Len(hs) IN
           /\ IsEnd(hs[N], ls[N]) => ExtractLinks(Read(hs, N)) = Found(Read(gs, N))
           /\ Unclosed(hs[N], ls[N]) /\ ls[N] = <<>> =>
                  ExtractLinks(Read(hs, N)) =
                      IF IsValueRead(hs[N], bs[N - 1]) THEN Panic ELSE Found(Read(gs, N))
<1> DEFINE N == Len(hs)
           html == Read(hs, N)
           U(n) == Len(Read(hs, n))
<1>1. /\ hs \in Seq(Seq(B)) /\ N \in Nat /\ N > 0 /\ gs \in Seq(Seq(Seq(B))) /\ Len(gs) = N
      /\ N \in 1..N /\ N \in 0..N /\ 0 \in 0..N - 1 /\ N - 1 \in Nat /\ N - 1 \in 0..N
      /\ bs[0] = FALSE /\ bs[N - 1] \in BOOLEAN /\ gs[N] = Given(hs[N], ls[N], bs[N - 1])
  BY DEF IsPaged
<1>2. html \in Seq(B) /\ Len(html) \in Nat /\ U(0) = 0
  <2>1. html \in Seq(B) /\ Read(hs, 0) = <<>>
    BY <1>1, ReadIs
  <2>. QED  BY <2>1, LenProperties
<1>3. PICK from : ExtractsFrom(from, html) /\ ExtractLinks(html) = from[1]
  BY <1>2, ExtractsFromIs
<1>4. ASSUME NEW r, Goes(from, html, U(0) + 1, bs[0], r)
      PROVE  ExtractLinks(html) = r
  <2>1. 1 \in 1..Len(html) + 1 /\ U(0) + 1 = 1
    BY <1>2
  <2>2. from[1] = FromEquals(from, html, EqualsPlace(html, 1))
    BY <1>3, <2>1 DEF ExtractsFrom
  <2>. QED  BY <1>1, <1>3, <1>4, <2>1, <2>2 DEF Goes, Seek
<1>5. /\ hs[N] \in Seq(B) /\ U(N - 1) \in Nat /\ Stands(html, hs[N], U(N - 1))
      /\ Len(html) = U(N - 1) + Len(hs[N])
  BY <1>1, PartStands
<1>6. ASSUME NEW n \in 1..N - 1, NEW r, IsResult(B, r), Goes(from, html, U(n) + 1, bs[n], r)
      PROVE  Goes(from, html, U(n - 1) + 1, bs[n - 1], Then(gs[n], r))
  BY <1>3, <1>6, PartAdds
<1>7. /\ \A n \in 0..N : Read(gs, n) \in Seq(Seq(B))
      /\ \A n \in 1..N : gs[n] \in Seq(Seq(B)) /\ Read(gs, n) = Read(gs, n - 1) \o gs[n]
      /\ Read(gs, 0) = <<>>
  BY <1>1, ReadIs
<1> DEFINE h == hs[N]
<1> HIDE DEF html, U, N, h
<1>8. ASSUME gs[N] \in Seq(Seq(B)), Goes(from, html, U(N - 1) + 1, bs[N - 1], Found(gs[N]))
      PROVE  ExtractLinks(html) = Found(Read(gs, N))
  <2> DEFINE Rest(n, l) == Goes(from, html, U(n) + 1, bs[n], Found(l)) /\ Read(gs, n) \o l = Read(gs, N)
             T == {k \in 0..N - 1 : \E l \in Seq(Seq(B)) : Rest(N - 1 - k, l)}
  <2>1. 0 \in T
    <3>1. Read(gs, N - 1) \o gs[N] = Read(gs, N)
      BY <1>1, <1>7
    <3>2. Rest(N - 1, gs[N])
      BY <1>8, <3>1
    <3>3. N - 1 - 0 = N - 1
      BY <1>1
    <3> HIDE DEF Rest
    <3>. QED  BY <1>1, <1>8, <3>2, <3>3
  <2>2. ASSUME NEW k \in 0..N - 1, k \in T, k < N - 1
        PROVE  k + 1 \in T
    <3> DEFINE n == N - 1 - k
    <3>1. n \in 1..N - 1 /\ n \in 1..N /\ n - 1 \in 0..N /\ k + 1 \in 0..N - 1 /\ N - 1 - (k + 1) = n - 1
      BY <1>1, <2>2
    <3>2. PICK l \in Seq(Seq(B)) : Rest(n, l)
      BY <2>2
    <3> HIDE DEF n
    <3>3. IsResult(B, Found(l)) /\ Goes(from, html, U(n) + 1, bs[n], Found(l))
      BY <3>2 DEF IsResult
    <3>4. Goes(from, html, U(n - 1) + 1, bs[n - 1], Then(gs[n], Found(l)))
      BY <1>6, <3>1, <3>3
    <3>5. Then(gs[n], Found(l)) = Found(gs[n] \o l)
      BY DEF Then, Found
    <3>6. /\ Read(gs, n - 1) \in Seq(Seq(B)) /\ gs[n] \in Seq(Seq(B))
          /\ Read(gs, n) = Read(gs, n - 1) \o gs[n]
      BY <1>7, <3>1
    <3>7. gs[n] \o l \in Seq(Seq(B))
      BY <3>6, ConcatIs
    <3>8. Read(gs, n - 1) \o (gs[n] \o l) = Read(gs, N)
      <4> DEFINE a == Read(gs, n - 1)
                 b == gs[n]
                 X == Seq(B)
      <4>1. a \in Seq(X) /\ b \in Seq(X) /\ l \in Seq(X)
        BY <3>2, <3>6
      <4>2. Read(gs, n) = a \o b
        BY <3>6
      <4> HIDE DEF a, b, X
      <4>3. (a \o b) \o l = a \o (b \o l)
        BY <4>1, ConcatAssociative
      <4>. QED  BY <3>2, <4>2, <4>3 DEF a, b
    <3>9. Rest(n - 1, gs[n] \o l)
      BY <3>4, <3>5, <3>8
    <3> HIDE DEF Rest
    <3>. QED  BY <3>1, <3>7, <3>9
  <2>3. \A k \in 0..N - 1 : k \in T
    <3> HIDE DEF T
    <3>. QED  BY <1>1, <2>1, <2>2, UpTo
  <2>4. PICK l \in Seq(Seq(B)) : Rest(0, l)
    <3>1. N - 1 \in 0..N - 1 /\ N - 1 - (N - 1) = 0
      BY <1>1
    <3>2. N - 1 \in T
      BY <2>3, <3>1
    <3> HIDE DEF Rest
    <3>. QED  BY <3>1, <3>2
  <2>5. l = Read(gs, N)
    <3>1. <<>> \o l = l
      OBVIOUS
    <3>2. Read(gs, 0) \o l = Read(gs, N)
      BY <2>4
    <3>. QED  BY <1>7, <3>1, <3>2
  <2>. QED  BY <1>4, <2>4, <2>5
<1>9. /\ IsEnd(h, ls[N]) => Goes(from, html, U(N - 1) + 1, bs[N - 1], Found(Given(h, ls[N], bs[N - 1])))
      /\ Unclosed(h, ls[N]) =>
             Goes(from, html, U(N - 1) + 1, bs[N - 1], IF IsValueRead(h, bs[N - 1]) THEN Panic ELSE Found(<<>>))
  <2> DEFINE links == ls[N]
             begun == bs[N - 1]
             L == U(N - 1)
  <2>1. h \in Seq(B) /\ L \in Nat /\ Stands(html, h, L) /\ Len(html) = L + Len(h) /\ begun \in BOOLEAN
    BY <1>1, <1>5 DEF h
  <2> HIDE DEF links, begun, L
  <2>2. /\ IsEnd(h, links) => Goes(from, html, L + 1, begun, Found(Given(h, links, begun)))
        /\ Unclosed(h, links) =>
               Goes(from, html, L + 1, begun, IF IsValueRead(h, begun) THEN Panic ELSE Found(<<>>))
    BY <1>2, <1>3, <2>1, EndRead
  <2>. QED  BY <2>2 DEF links, begun, L
<1>10. ASSUME IsEnd(h, ls[N])
       PROVE  ExtractLinks(html) = Found(Read(gs, N))
  <2>1. Goes(from, html, U(N - 1) + 1, bs[N - 1], Found(Given(h, ls[N], bs[N - 1])))
    BY <1>10, <1>9
  <2>2. gs[N] = Given(h, ls[N], bs[N - 1]) /\ gs[N] \in Seq(Seq(B))
    BY <1>1, <1>7 DEF h
  <2>. QED  BY <1>8, <2>1, <2>2
<1>11. ASSUME Unclosed(h, ls[N]), ls[N] = <<>>, ~IsValueRead(h, bs[N - 1])
       PROVE  ExtractLinks(html) = Found(Read(gs, N))
  <2>1. Goes(from, html, U(N - 1) + 1, bs[N - 1], Found(<<>>))
    BY <1>11, <1>9
  <2>2. gs[N] = <<>> /\ gs[N] \in Seq(Seq(B))
    BY <1>1, <1>7, <1>11 DEF h, Given
  <2>. QED  BY <1>8, <2>1, <2>2
<1>12. ASSUME Unclosed(h, ls[N]), IsValueRead(h, bs[N - 1])
       PROVE  ExtractLinks(html) = Panic
  <2> DEFINE T == {k \in 0..N - 1 : Goes(from, html, U(N - 1 - k) + 1, bs[N - 1 - k], Panic)}
  <2>1. 0 \in T
    <3>1. Goes(from, html, U(N - 1) + 1, bs[N - 1], Panic)
      BY <1>12, <1>9
    <3>2. N - 1 - 0 = N - 1
      BY <1>1
    <3>. QED  BY <1>1, <3>1, <3>2
  <2>2. ASSUME NEW k \in 0..N - 1, k \in T, k < N - 1
        PROVE  k + 1 \in T
    <3> DEFINE n == N - 1 - k
    <3>1. n \in 1..N - 1 /\ k + 1 \in 0..N - 1 /\ N - 1 - (k + 1) = n - 1
      BY <1>1, <2>2
    <3>2. Goes(from, html, U(n) + 1, bs[n], Panic)
      BY <2>2
    <3> HIDE DEF n
    <3>3. Then(gs[n], Panic) = Panic /\ IsResult(B, Panic)
      BY DEF Then, Panic, IsResult
    <3>4. Goes(from, html, U(n - 1) + 1, bs[n - 1], Panic)
      BY <1>6, <3>1, <3>2, <3>3
    <3>. QED  BY <3>1, <3>4
  <2>3. \A k \in 0..N - 1 : k \in T
    <3> HIDE DEF T
    <3>. QED  BY <1>1, <2>1, <2>2, UpTo
  <2>4. N - 1 \in 0..N - 1 /\ N - 1 - (N - 1) = 0
    BY <1>1
  <2>5. Goes(from, html, U(0) + 1, bs[0], Panic)
    BY <2>3, <2>4
  <2>. QED  BY <1>4, <2>5
<1>. QED  BY <1>10, <1>11, <1>12 DEF h, html, N

\* What a value gives: its text, without the backslashes at its end, if that
\* starts with gurt://.
LEMMA ValueLink ==
    ASSUME NEW B, NEW h \in Seq(B), NEW s \in 1..Len(h), NEW v \in Seq(B), NEW k \in s..Len(h) + 1,
           Len(v) > 0, s + Len(v) <= k, \A i \in 1..Len(v) : v[i] = h[s + i - 1], v[1] = "gurt://",
           v[Len(v)] # "backslash", \A i \in s + Len(v)..k - 1 : h[i] = "backslash"
    PROVE  Link(h, s, k) = <<v>>
<1> DEFINE kept == {i \in s..k - 1 : h[i] # "backslash"} \cup {s}
           last == Max(kept)
           e == s + Len(v) - 1
<1>1. /\ Len(h) \in Nat /\ Len(v) \in Nat /\ s < k /\ s \in 1..Len(h) /\ e \in s..k - 1 /\ e \in Nat
      /\ Len(v) \in 1..Len(v) /\ 1 \in 1..Len(v) /\ s + 1 - 1 = s /\ e <= Len(h) /\ s \in Nat \ {0}
      /\ e - s + 1 = Len(v) /\ s <= e + 1
  OBVIOUS
<1>2. h[e] # "backslash" /\ h[s] = "gurt://"
  BY <1>1
<1>3. kept \in SUBSET (1..Len(h)) /\ e \in kept /\ \A i \in kept : i <= e
  <2>1. ASSUME NEW i \in kept, i > e
        PROVE  FALSE
    <3>1. i \in s + Len(v)..k - 1
      BY <1>1, <2>1
    <3>. QED  BY <1>1, <2>1, <3>1
  <2>2. \A i \in kept : i \in 1..Len(h)
    BY <1>1
  <2>. QED  BY <1>1, <1>2, <2>1, <2>2
<1> HIDE DEF kept, e
<1>4. last \in kept /\ \A i \in kept : i <= last
  BY <1>1, <1>3, GreatestIs
<1> HIDE DEF last
<1>5. last = e
  <2>1. last \in Nat /\ last <= e /\ e <= last
    BY <1>3, <1>4
  <2>. QED  BY <1>1, <2>1
<1>6. Link(h, s, k) = <<SubSeq(h, s, e)>>
  BY <1>1, <1>2, <1>5 DEF Link, last, kept
<1> DEFINE u == SubSeq(h, s, e)
<1>7. u \in Seq(B) /\ Len(u) = e - s + 1 /\ \A i \in 1..e - s + 1 : u[i] = h[s + i - 1]
  <2>1. s \in Nat \ {0} /\ e \in Nat /\ e <= Len(h) /\ s <= e + 1
    BY <1>1
  <2>. QED  BY <2>1, SliceIs
<1> HIDE DEF u
<1>8. u = v
  <2>1. Len(u) = Len(v) /\ \A i \in 1..Len(u) : u[i] = v[i]
    BY <1>1, <1>7
  <2>. QED  BY <1>7, <2>1, SeqEqual
<1>. QED  BY <1>6, <1>8 DEF u

LEMMA NoLink ==
    ASSUME NEW h, NEW s \in Nat, NEW k \in Nat, s = k \/ h[s] # "gurt://"
    PROVE  Link(h, s, k) = <<>>
BY DEF Link

HtmlPieces == {"href", "=", ">", "dquote", "quote", "blank", "backslash", "gurt://", "word"}

\* Of the ends, only those that are not closed have a double quote as third piece.
Closed(h) == Len(h) > 2 => h[3] # "dquote"
IsFragment(h, links) == h \in Seq(HtmlPieces) /\ IsPart(h, links)
IsLast(h, links) == h \in Seq(HtmlPieces) /\ Closed(h) /\ links \in Seq(Seq(HtmlPieces)) /\ IsEnd(h, links)

\* The value at j, named by the "=" at q, is the only one of the part, and
\* ends at k; and the pieces of a link from s on, before the one at k.
Valued(h, q, m, j, k) ==
    /\ q \in 1..Len(h) /\ m \in 1..Len(h) /\ j \in 1..Len(h) /\ k \in 1..Len(h)
    /\ ValueIn(h, q, m, j) /\ ClosesAt(h, j, k) /\ (Named(h, q) \/ NoneAfterHref(h))
    /\ \A i \in AfterValue(k, h[j] \in QuoteMarks)..Len(h) : h[i] # "href"
Reads(h, s, k, v) ==
    /\ s \in 1..Len(h) /\ k \in s..Len(h) + 1 /\ Len(v) > 0 /\ s + Len(v) <= k
    /\ (\A i \in 1..Len(v) : v[i] = h[s + i - 1]) /\ v[1] = "gurt://" /\ v[Len(v)] # "backslash"
    /\ \A i \in s + Len(v)..k - 1 : h[i] = "backslash"

LEMMA ReadsLink ==
    ASSUME NEW B, NEW h \in Seq(B), NEW v \in Seq(B), NEW s, NEW k, Reads(h, s, k, v)
    PROVE  Link(h, s, k) = <<v>>
BY ValueLink DEF Reads

LEMMA ValuedPart ==
    ASSUME NEW h \in Seq(HtmlPieces), NEW q, NEW m, NEW j, NEW k, Valued(h, q, m, j, k), NEW links,
           links = Link(h, StartPlace(h, j), k)
    PROVE  IsFragment(h, links)
<1>1. HasValue(h, links, q, m, j, k)
  BY DEF Valued, HasValue
<1>2. q \in 1..Len(h) /\ m \in 1..Len(h) /\ j \in 1..Len(h) /\ k \in 1..Len(h)
  BY DEF Valued
<1>. QED  BY <1>1, <1>2 DEF IsPart, IsFragment

LEMMA LinkedPart ==
    ASSUME NEW h \in Seq(HtmlPieces), NEW v \in Seq(HtmlPieces),
           NEW q, NEW m, NEW j, NEW k, Valued(h, q, m, j, k), Reads(h, StartPlace(h, j), k, v)
    PROVE  IsFragment(h, <<v>>)
BY ReadsLink, ValuedPart

\* The parts that pages are put together from.
LEMMA Part1 == IsFragment(<<"href", "=", "dquote", "gurt://", "dquote">>, <<<<"gurt://">>>>)
<1> DEFINE h == <<"href", "=", "dquote", "gurt://", "dquote">>
           v == <<"gurt://">>
<1>1. /\ h \in Seq(HtmlPieces) /\ Len(h) = 5
      /\ h[1] = "href" /\ h[2] = "=" /\ h[3] = "dquote" /\ h[4] = "gurt://"
      /\ h[5] = "dquote"
  BY DEF HtmlPieces
<1>2. v \in Seq(HtmlPieces) /\ Len(v) = 1 /\ v[1] = "gurt://"
  BY DEF HtmlPieces
<1> HIDE DEF h, v
<1>3. StartPlace(h, 3) = 4 /\ Closers(h[3]) = {"dquote"} /\ AfterValue(5, h[3] \in QuoteMarks) = 6
  BY <1>1 DEF StartPlace, Closers, QuoteMarks, AfterValue
<1>4. Valued(h, 2, 3, 3, 5)
  BY <1>1, <1>3 DEF Valued, ValueIn, ClosesAt, Named
<1>5. Reads(h, 4, 5, v)
  BY <1>1, <1>2 DEF Reads
<1>6. IsFragment(h, <<v>>)
  BY <1>1, <1>2, <1>3, <1>4, <1>5, LinkedPart
<1>. QED  BY <1>6 DEF h, v

LEMMA Part2 ==
    IsFragment(<<"href", "blank", "=", "blank", "quote", "gurt://", "word", "backslash", "quote">>,
               <<<<"gurt://", "word">>>>)
<1> DEFINE h == <<"href", "blank", "=", "blank", "quote", "gurt://", "word", "backslash", "quote">>
           v == <<"gurt://", "word">>
<1>1. /\ h \in Seq(HtmlPieces) /\ Len(h) = 9
      /\ h[1] = "href" /\ h[2] = "blank" /\ h[3] = "=" /\ h[4] = "blank" /\ h[5] = "quote"
      /\ h[6] = "gurt://" /\ h[7] = "word" /\ h[8] = "backslash" /\ h[9] = "quote"
  BY DEF HtmlPieces
<1>2. v \in Seq(HtmlPieces) /\ Len(v) = 2 /\ v[1] = "gurt://" /\ v[2] = "word"
  BY DEF HtmlPieces
<1> HIDE DEF h, v
<1>3. StartPlace(h, 5) = 6 /\ Closers(h[5]) = {"quote"} /\ AfterValue(9, h[5] \in QuoteMarks) = 10
  BY <1>1 DEF StartPlace, Closers, QuoteMarks, AfterValue
<1>4. Valued(h, 3, 5, 5, 9)
  BY <1>1, <1>3 DEF Valued, ValueIn, ClosesAt, Named
<1>5. Reads(h, 6, 9, v)
  BY <1>1, <1>2 DEF Reads
<1>6. IsFragment(h, <<v>>)
  BY <1>1, <1>2, <1>3, <1>4, <1>5, LinkedPart
<1>. QED  BY <1>6 DEF h, v

LEMMA Part3 ==
    IsFragment(<<"href", "=", "backslash", "dquote", "gurt://", "quote", "word", "dquote">>,
               <<<<"gurt://", "quote", "word">>>>)
<1> DEFINE h == <<"href", "=", "backslash", "dquote", "gurt://", "quote", "word", "dquote">>
           v == <<"gurt://", "quote", "word">>
<1>1. /\ h \in Seq(HtmlPieces) /\ Len(h) = 8
      /\ h[1] = "href" /\ h[2] = "=" /\ h[3] = "backslash" /\ h[4] = "dquote"
      /\ h[5] = "gurt://" /\ h[6] = "quote" /\ h[7] = "word" /\ h[8] = "dquote"
  BY DEF HtmlPieces
<1>2. v \in Seq(HtmlPieces) /\ Len(v) = 3 /\ v[1] = "gurt://" /\ v[2] = "quote" /\ v[3] = "word"
  BY DEF HtmlPieces
<1> HIDE DEF h, v
<1>3. StartPlace(h, 4) = 5 /\ Closers(h[4]) = {"dquote"} /\ AfterValue(8, h[4] \in QuoteMarks) = 9
  BY <1>1 DEF StartPlace, Closers, QuoteMarks, AfterValue
<1>4. Valued(h, 2, 3, 4, 8)
  BY <1>1, <1>3 DEF Valued, ValueIn, ClosesAt, Named
<1>5. Reads(h, 5, 8, v)
  BY <1>1, <1>2 DEF Reads
<1>6. IsFragment(h, <<v>>)
  BY <1>1, <1>2, <1>3, <1>4, <1>5, LinkedPart
<1>. QED  BY <1>6 DEF h, v

LEMMA Part4 ==
    IsFragment(<<"href", "=", "dquote", "gurt://", "href", "=", "word", "dquote">>,
               <<<<"gurt://", "href", "=", "word">>>>)
<1> DEFINE h == <<"href", "=", "dquote", "gurt://", "href", "=", "word", "dquote">>
           v == <<"gurt://", "href", "=", "word">>
<1>1. /\ h \in Seq(HtmlPieces) /\ Len(h) = 8
      /\ h[1] = "href" /\ h[2] = "=" /\ h[3] = "dquote" /\ h[4] = "gurt://" /\ h[5] = "href"
      /\ h[6] = "=" /\ h[7] = "word" /\ h[8] = "dquote"
  BY DEF HtmlPieces
<1>2. /\ v \in Seq(HtmlPieces) /\ Len(v) = 4
      /\ v[1] = "gurt://" /\ v[2] = "href" /\ v[3] = "=" /\ v[4] = "word"
  BY DEF HtmlPieces
<1> HIDE DEF h, v
<1>3. StartPlace(h, 3) = 4 /\ Closers(h[3]) = {"dquote"} /\ AfterValue(8, h[3] \in QuoteMarks) = 9
  BY <1>1 DEF StartPlace, Closers, QuoteMarks, AfterValue
<1>4. Valued(h, 2, 3, 3, 8)
  BY <1>1, <1>3 DEF Valued, ValueIn, ClosesAt, Named
<1>5. Reads(h, 4, 8, v)
  BY <1>1, <1>2 DEF Reads
<1>6. IsFragment(h, <<v>>)
  BY <1>1, <1>2, <1>3, <1>4, <1>5, LinkedPart
<1>. QED  BY <1>6 DEF h, v

LEMMA Part5 == IsFragment(<<"href", "=", "gurt://", ">">>, <<<<"gurt://">>>>)
<1> DEFINE h == <<"href", "=", "gurt://", ">">>
           v == <<"gurt://">>
<1>1. /\ h \in Seq(HtmlPieces) /\ Len(h) = 4
      /\ h[1] = "href" /\ h[2] = "=" /\ h[3] = "gurt://" /\ h[4] = ">"
  BY DEF HtmlPieces
<1>2. v \in Seq(HtmlPieces) /\ Len(v) = 1 /\ v[1] = "gurt://"
  BY DEF HtmlPieces
<1> HIDE DEF h, v
<1>3. StartPlace(h, 3) = 3 /\ Closers(h[3]) = {"blank", ">"} /\ AfterValue(4, h[3] \in QuoteMarks) = 4
  BY <1>1 DEF StartPlace, Closers, QuoteMarks, AfterValue
<1>4. Valued(h, 2, 3, 3, 4)
  BY <1>1, <1>3 DEF Valued, ValueIn, ClosesAt, Named
<1>5. Reads(h, 3, 4, v)
  BY <1>1, <1>2 DEF Reads
<1>6. IsFragment(h, <<v>>)
  BY <1>1, <1>2, <1>3, <1>4, <1>5, LinkedPart
<1>. QED  BY <1>6 DEF h, v

LEMMA Part6 == IsFragment(<<"href", "=", "gurt://", "dquote", "blank">>, <<<<"gurt://", "dquote">>>>)
<1> DEFINE h == <<"href", "=", "gurt://", "dquote", "blank">>
           v == <<"gurt://", "dquote">>
<1>1. /\ h \in Seq(HtmlPieces) /\ Len(h) = 5
      /\ h[1] = "href" /\ h[2] = "=" /\ h[3] = "gurt://" /\ h[4] = "dquote" /\ h[5] = "blank"
  BY DEF HtmlPieces
<1>2. v \in Seq(HtmlPieces) /\ Len(v) = 2 /\ v[1] = "gurt://" /\ v[2] = "dquote"
  BY DEF HtmlPieces
<1> HIDE DEF h, v
<1>3. StartPlace(h, 3) = 3 /\ Closers(h[3]) = {"blank", ">"} /\ AfterValue(5, h[3] \in QuoteMarks) = 5
  BY <1>1 DEF StartPlace, Closers, QuoteMarks, AfterValue
<1>4. Valued(h, 2, 3, 3, 5)
  BY <1>1, <1>3 DEF Valued, ValueIn, ClosesAt, Named
<1>5. Reads(h, 3, 5, v)
  BY <1>1, <1>2 DEF Reads
<1>6. IsFragment(h, <<v>>)
  BY <1>1, <1>2, <1>3, <1>4, <1>5, LinkedPart
<1>. QED  BY <1>6 DEF h, v

LEMMA Part7 == IsFragment(<<"href", "=", "dquote", "word", "gurt://", "dquote">>, <<>>)
<1> DEFINE h == <<"href", "=", "dquote", "word", "gurt://", "dquote">>
<1>1. /\ h \in Seq(HtmlPieces) /\ Len(h) = 6
      /\ h[1] = "href" /\ h[2] = "=" /\ h[3] = "dquote" /\ h[4] = "word" /\ h[5] = "gurt://"
      /\ h[6] = "dquote"
  BY DEF HtmlPieces
<1> HIDE DEF h
<1>2. StartPlace(h, 3) = 4 /\ Closers(h[3]) = {"dquote"} /\ AfterValue(6, h[3] \in QuoteMarks) = 7
  BY <1>1 DEF StartPlace, Closers, QuoteMarks, AfterValue
<1>3. Valued(h, 2, 3, 3, 6)
  BY <1>1, <1>2 DEF Valued, ValueIn, ClosesAt, Named
<1>4. Link(h, 4, 6) = <<>>
  BY <1>1, NoLink
<1>5. IsFragment(h, <<>>)
  BY <1>1, <1>2, <1>3, <1>4, ValuedPart
<1>. QED  BY <1>5 DEF h

LEMMA Part8 == IsFragment(<<"href", "=", "dquote", "dquote">>, <<>>)
<1> DEFINE h == <<"href", "=", "dquote", "dquote">>
<1>1. /\ h \in Seq(HtmlPieces) /\ Len(h) = 4
      /\ h[1] = "href" /\ h[2] = "=" /\ h[3] = "dquote" /\ h[4] = "dquote"
  BY DEF HtmlPieces
<1> HIDE DEF h
<1>2. StartPlace(h, 3) = 4 /\ Closers(h[3]) = {"dquote"} /\ AfterValue(4, h[3] \in QuoteMarks) = 5
  BY <1>1 DEF StartPlace, Closers, QuoteMarks, AfterValue
<1>3. Valued(h, 2, 3, 3, 4)
  BY <1>1, <1>2 DEF Valued, ValueIn, ClosesAt, Named
<1>4. Link(h, 4, 4) = <<>>
  BY <1>1, NoLink
<1>5. IsFragment(h, <<>>)
  BY <1>1, <1>2, <1>3, <1>4, ValuedPart
<1>. QED  BY <1>5 DEF h

LEMMA Part9 == IsFragment(<<"word", "=", "quote", "word", "quote">>, <<>>)
<1> DEFINE h == <<"word", "=", "quote", "word", "quote">>
<1>1. /\ h \in Seq(HtmlPieces) /\ Len(h) = 5
      /\ h[1] = "word" /\ h[2] = "=" /\ h[3] = "quote" /\ h[4] = "word" /\ h[5] = "quote"
  BY DEF HtmlPieces
<1> HIDE DEF h
<1>2. StartPlace(h, 3) = 4 /\ Closers(h[3]) = {"quote"} /\ AfterValue(5, h[3] \in QuoteMarks) = 6
  BY <1>1 DEF StartPlace, Closers, QuoteMarks, AfterValue
<1>3. Valued(h, 2, 3, 3, 5)
  BY <1>1, <1>2 DEF Valued, ValueIn, ClosesAt, NoneAfterHref
<1>4. Link(h, 4, 5) = <<>>
  BY <1>1, NoLink
<1>5. IsFragment(h, <<>>)
  BY <1>1, <1>2, <1>3, <1>4, ValuedPart
<1>. QED  BY <1>5 DEF h

LEMMA Part10 == IsFragment(<<"gurt://">>, <<>>)
<1> DEFINE h == <<"gurt://">>
<1>1. h \in Seq(HtmlPieces) /\ Len(h) = 1 /\ h[1] = "gurt://"
  BY DEF HtmlPieces
<1> HIDE DEF h
<1>2. IsPart(h, <<>>)
  BY <1>1 DEF IsPart, IsText
<1>. QED  BY <1>1, <1>2 DEF IsFragment, h

LEMMA Part11 == IsFragment(<<"href", "blank">>, <<>>)
<1> DEFINE h == <<"href", "blank">>
<1>1. h \in Seq(HtmlPieces) /\ Len(h) = 2 /\ h[1] = "href" /\ h[2] = "blank"
  BY DEF HtmlPieces
<1> HIDE DEF h
<1>2. IsPart(h, <<>>)
  BY <1>1 DEF IsPart, IsText
<1>. QED  BY <1>1, <1>2 DEF IsFragment, h

LEMMA Part12 == IsLast(<<>>, <<>>)
<1> DEFINE h == <<>>
<1>1. h \in Seq(HtmlPieces) /\ Len(h) = 0
  BY DEF HtmlPieces
<1> HIDE DEF h
<1>2. IsPart(h, <<>>)
  BY <1>1 DEF IsPart, IsText
<1>3. Closed(h) /\ <<>> \in Seq(Seq(HtmlPieces))
  BY <1>1 DEF Closed
<1>. QED  BY <1>1, <1>2, <1>3 DEF IsLast, IsEnd, h

LEMMA Part13 == IsLast(<<"href">>, <<>>)
<1> DEFINE h == <<"href">>
<1>1. h \in Seq(HtmlPieces) /\ Len(h) = 1 /\ h[1] = "href"
  BY DEF HtmlPieces
<1> HIDE DEF h
<1>2. IsPart(h, <<>>)
  BY <1>1 DEF IsPart, IsText
<1>3. Closed(h) /\ <<>> \in Seq(Seq(HtmlPieces))
  BY <1>1 DEF Closed
<1>. QED  BY <1>1, <1>2, <1>3 DEF IsLast, IsEnd, h

LEMMA Part14 == IsFragment(<<"word", "=", "dquote", "gurt://", "dquote">>, <<<<"gurt://">>>>)
<1> DEFINE h == <<"word", "=", "dquote", "gurt://", "dquote">>
           v == <<"gurt://">>
<1>1. /\ h \in Seq(HtmlPieces) /\ Len(h) = 5
      /\ h[1] = "word" /\ h[2] = "=" /\ h[3] = "dquote" /\ h[4] = "gurt://"
      /\ h[5] = "dquote"
  BY DEF HtmlPieces
<1>2. v \in Seq(HtmlPieces) /\ Len(v) = 1 /\ v[1] = "gurt://"
  BY DEF HtmlPieces
<1> HIDE DEF h, v
<1>3. StartPlace(h, 3) = 4 /\ Closers(h[3]) = {"dquote"} /\ AfterValue(5, h[3] \in QuoteMarks) = 6
  BY <1>1 DEF StartPlace, Closers, QuoteMarks, AfterValue
<1>4. Valued(h, 2, 3, 3, 5)
  BY <1>1, <1>3 DEF Valued, ValueIn, ClosesAt, NoneAfterHref
<1>5. Reads(h, 4, 5, v)
  BY <1>1, <1>2 DEF Reads
<1>6. IsFragment(h, <<v>>)
  BY <1>1, <1>2, <1>3, <1>4, <1>5, LinkedPart
<1>. QED  BY <1>6 DEF h, v

LEMMA Part15 == IsFragment(<<"word", "=", "dquote", "href", "dquote">>, <<>>)
<1> DEFINE h == <<"word", "=", "dquote", "href", "dquote">>
<1>1. /\ h \in Seq(HtmlPieces) /\ Len(h) = 5
      /\ h[1] = "word" /\ h[2] = "=" /\ h[3] = "dquote" /\ h[4] = "href" /\ h[5] = "dquote"
  BY DEF HtmlPieces
<1> HIDE DEF h
<1>2. StartPlace(h, 3) = 4 /\ Closers(h[3]) = {"dquote"} /\ AfterValue(5, h[3] \in QuoteMarks) = 6
  BY <1>1 DEF StartPlace, Closers, QuoteMarks, AfterValue
<1>3. Valued(h, 2, 3, 3, 5)
  BY <1>1, <1>2 DEF Valued, ValueIn, ClosesAt, NoneAfterHref
<1>4. Link(h, 4, 5) = <<>>
  BY <1>1, NoLink
<1>5. IsFragment(h, <<>>)
  BY <1>1, <1>2, <1>3, <1>4, ValuedPart
<1>. QED  BY <1>5 DEF h

LEMMA Part16 == IsFragment(<<"word", "href", "=", "quote", "gurt://", "quote">>, <<<<"gurt://">>>>)
<1> DEFINE h == <<"word", "href", "=", "quote", "gurt://", "quote">>
           v == <<"gurt://">>
<1>1. /\ h \in Seq(HtmlPieces) /\ Len(h) = 6
      /\ h[1] = "word" /\ h[2] = "href" /\ h[3] = "=" /\ h[4] = "quote" /\ h[5] = "gurt://"
      /\ h[6] = "quote"
  BY DEF HtmlPieces
<1>2. v \in Seq(HtmlPieces) /\ Len(v) = 1 /\ v[1] = "gurt://"
  BY DEF HtmlPieces
<1> HIDE DEF h, v
<1>3. StartPlace(h, 4) = 5 /\ Closers(h[4]) = {"quote"} /\ AfterValue(6, h[4] \in QuoteMarks) = 7
  BY <1>1 DEF StartPlace, Closers, QuoteMarks, AfterValue
<1>4. Valued(h, 3, 4, 4, 6)
  BY <1>1, <1>3 DEF Valued, ValueIn, ClosesAt, Named
<1>5. Reads(h, 5, 6, v)
  BY <1>1, <1>2 DEF Reads
<1>6. IsFragment(h, <<v>>)
  BY <1>1, <1>2, <1>3, <1>4, <1>5, LinkedPart
<1>. QED  BY <1>6 DEF h, v

\* The ends that are no parts, and those that are not closed.
LEMMA End1 == IsLast(<<"href", "=", "gurt://">>, <<<<"gurt://">>>>)
<1> DEFINE h == <<"href", "=", "gurt://">>
           v == <<"gurt://">>
<1>1. h \in Seq(HtmlPieces) /\ Len(h) = 3 /\ h[1] = "href" /\ h[2] = "=" /\ h[3] = "gurt://"
  BY DEF HtmlPieces
<1>2. v \in Seq(HtmlPieces) /\ Len(v) = 1 /\ v[1] = "gurt://"
  BY DEF HtmlPieces
<1> HIDE DEF h, v
<1>3. StartPlace(h, 3) = 3 /\ Closers(h[3]) = {"blank", ">"} /\ h[3] \notin QuoteMarks
  BY <1>1 DEF StartPlace, Closers, QuoteMarks
<1>4. Link(h, 3, 4) = <<v>>
  <2>1. Reads(h, 3, 4, v)
    BY <1>1, <1>2 DEF Reads
  <2>. QED  BY <1>1, <1>2, <2>1, ReadsLink
<1>5. EndsWithin(h, <<v>>, 2, 3, 3, FALSE)
  BY <1>1, <1>3, <1>4 DEF EndsWithin, ValueIn, ClosesAt, Named
<1>6. IsEnd(h, <<v>>)
  <2>1. 2 \in 1..Len(h) /\ 3 \in 1..Len(h)
    BY <1>1
  <2>. QED  BY <1>5, <2>1 DEF IsEnd
<1>7. <<v>> \in Seq(Seq(HtmlPieces))
  BY <1>2
<1>. QED  BY <1>1, <1>6, <1>7 DEF IsLast, Closed, h, v

LEMMA End2 == IsLast(<<"href", "=", "blank", "backslash">>, <<>>)
<1> DEFINE h == <<"href", "=", "blank", "backslash">>
<1>1. /\ h \in Seq(HtmlPieces) /\ Len(h) = 4
      /\ h[1] = "href" /\ h[2] = "=" /\ h[3] = "blank" /\ h[4] = "backslash"
  BY DEF HtmlPieces
<1> HIDE DEF h
<1>2. Named(h, 2)
  BY <1>1 DEF Named
<1>3. /\ h[2] = "=" /\ 4 \in 2 + 1..Len(h) + 1 /\ (4 <= Len(h) => h[4] # "blank") /\ \A i \in 1..2 - 1 : h[i] # "="
      /\ (\A i \in 2 + 1..4 - 1 : h[i] = "blank") /\ \A i \in 4..Len(h) : h[i] = "backslash"
  BY <1>1
<1>4. IsMissing(h, <<>>, 2, 4)
  BY <1>2, <1>3 DEF IsMissing
<1>5. 2 \in 1..Len(h) /\ 4 \in 1..Len(h) + 1
  BY <1>1
<1>6. IsEnd(h, <<>>)
  BY <1>4, <1>5 DEF IsEnd
<1>. QED  BY <1>1, <1>6 DEF IsLast, Closed, h

IsOpen(h) == h \in Seq(HtmlPieces) /\ ~Closed(h) /\ Unclosed(h, <<>>)

LEMMA End3 == IsOpen(<<"href", "=", "dquote", "gurt://", "word">>)
<1> DEFINE h == <<"href", "=", "dquote", "gurt://", "word">>
<1>1. /\ h \in Seq(HtmlPieces) /\ Len(h) = 5
      /\ h[1] = "href" /\ h[2] = "=" /\ h[3] = "dquote" /\ h[4] = "gurt://" /\ h[5] = "word"
  BY DEF HtmlPieces
<1> HIDE DEF h
<1>2. StartPlace(h, 3) = 4 /\ Closers(h[3]) = {"dquote"} /\ h[3] \in QuoteMarks
  BY <1>1 DEF StartPlace, Closers, QuoteMarks
<1>3. EndsWithin(h, <<>>, 2, 3, 3, TRUE)
  BY <1>1, <1>2 DEF EndsWithin, ValueIn, ClosesAt, Named
<1>4. Unclosed(h, <<>>)
  <2>1. 2 \in 1..Len(h) /\ 3 \in 1..Len(h)
    BY <1>1
  <2>. QED  BY <1>3, <2>1 DEF Unclosed
<1>. QED  BY <1>1, <1>4 DEF IsOpen, Closed, h

LEMMA End4 == IsOpen(<<"word", "=", "dquote", "gurt://">>)
<1> DEFINE h == <<"word", "=", "dquote", "gurt://">>
<1>1. /\ h \in Seq(HtmlPieces) /\ Len(h) = 4
      /\ h[1] = "word" /\ h[2] = "=" /\ h[3] = "dquote" /\ h[4] = "gurt://"
  BY DEF HtmlPieces
<1> HIDE DEF h
<1>2. StartPlace(h, 3) = 4 /\ Closers(h[3]) = {"dquote"} /\ h[3] \in QuoteMarks
  BY <1>1 DEF StartPlace, Closers, QuoteMarks
<1>3. EndsWithin(h, <<>>, 2, 3, 3, TRUE)
  BY <1>1, <1>2 DEF EndsWithin, ValueIn, ClosesAt, NoneAfterHref
<1>4. Unclosed(h, <<>>)
  <2>1. 2 \in 1..Len(h) /\ 3 \in 1..Len(h)
    BY <1>1
  <2>. QED  BY <1>3, <2>1 DEF Unclosed
<1>. QED  BY <1>1, <1>4 DEF IsOpen, Closed, h

LEMMA FragmentsAre ==
    /\ \A f \in Fragments : IsFragment(f.html, f.links)
    /\ \A f \in Ends : IsLast(f.html, f.links)
    /\ \A f \in OpenEnds : IsOpen(f.html) /\ f.links = <<>>
<1>1. \A h, l : Fragment(h, l).html = h /\ Fragment(h, l).links = l
  BY DEF Fragment
<1>2. ASSUME NEW f \in Fragments
      PROVE  IsFragment(f.html, f.links)
  BY <1>1, Part1, Part2, Part3, Part4, Part5, Part6, Part7, Part8, Part9, Part10, Part11, Part14, Part15, Part16
     DEF Fragments
<1>3. ASSUME NEW f \in Ends
      PROVE  IsLast(f.html, f.links)
  BY <1>1, Part12, Part13, End1, End2 DEF Ends
<1>4. ASSUME NEW f \in OpenEnds
      PROVE  IsOpen(f.html) /\ f.links = <<>>
  BY <1>1, End3, End4 DEF OpenEnds
<1>. QED  BY <1>2, <1>3, <1>4

LEMMA LinkedAre ==
    ASSUME NEW in, IsLinked(in)
    PROVE  LET parts == in.parts
               N == Len(parts)
           IN  /\ N \in Nat \ {0} /\ DOMAIN parts = 1..N
               /\ \A n \in 1..N - 1 : parts[n] \in Fragments
               /\ parts[N] \in Ends \cup OpenEnds
<1> DEFINE X == Fragments \cup Ends \cup OpenEnds
           parts == in.parts
<1>1. PICK n \in 0..MaxFragments : \E p \in [1..n -> Fragments], end \in Ends \cup OpenEnds :
          in = [of |-> "links", parts |-> p \o <<end>>]
  BY DEF IsLinked
<1>2. PICK p \in [1..n -> Fragments], end \in Ends \cup OpenEnds :
          in = [of |-> "links", parts |-> p \o <<end>>]
  BY <1>1
<1>3. n \in Nat
  BY PageAssumption
<1> DEFINE e == <<end>>
<1>4. p \in Seq(X) /\ Len(p) = n /\ e \in Seq(X) /\ Len(e) = 1 /\ e[1] = end /\ parts = p \o e
  BY <1>2, <1>3
<1> HIDE DEF e, X, parts
<1>5. /\ parts \in Seq(X) /\ Len(parts) = n + 1
      /\ \A i \in 1..n : parts[i] = p[i]
      /\ \A i \in n + 1..n + 1 : parts[i] = e[i - n]
  <2>1. /\ p \o e \in Seq(X) /\ Len(p \o e) = Len(p) + Len(e)
        /\ \A i \in 1..Len(p) : (p \o e)[i] = p[i]
        /\ \A i \in Len(p) + 1..Len(p) + Len(e) : (p \o e)[i] = e[i - Len(p)]
    BY <1>4, ConcatIs
  <2>. QED  BY <1>4, <2>1
<1>6. parts[n + 1] = end
  <2>1. n + 1 \in n + 1..n + 1 /\ (n + 1) - n = 1
    BY <1>3
  <2>. QED  BY <1>4, <1>5, <2>1
<1>7. (n + 1) - 1 = n /\ n + 1 \in Nat \ {0} /\ DOMAIN parts = 1..n + 1
  BY <1>3, <1>5
<1>8. \A i \in 1..n : parts[i] \in Fragments
  BY <1>5
<1>. QED  BY <1>5, <1>6, <1>7, <1>8 DEF parts

\* A page that ends within the quotes of a value that is read.
Panics(parts) ==
    /\ parts[Len(parts)] \in OpenEnds
    /\ IsValueRead(parts[Len(parts)].html, Begun(Htmls(parts))[Len(parts) - 1])

\* Whether the text href was found, before and after each part.
LEMMA BegunIs ==
    ASSUME NEW B, NEW hs \in Seq(B)
    PROVE  /\ Begun(hs)[0] = FALSE /\ \A n \in 0..Len(hs) : Begun(hs)[n] \in BOOLEAN
           /\ \A n \in 1..Len(hs) : Begun(hs)[n] = BegunAfter(hs[n], Begun(hs)[n - 1])
<1> DEFINE N == Len(hs)
           After(f) == [n \in 0..Len(hs) |-> IF n = 0 THEN FALSE ELSE BegunAfter(hs[n], f[n - 1])]
           step == [n \in 1..N |-> [x \in BOOLEAN |-> BegunAfter(hs[n], x)]]
           b == CHOOSE f : f = After(f)
<1>1. Begun(hs) = b
  BY DEF Begun
<1>2. N \in Nat
  OBVIOUS
<1>3. \A h, x : BegunAfter(h, x) \in BOOLEAN
  BY DEF BegunAfter
<1>4. \E g : g = After(g)
  <2>1. step \in StepsOn(N, BOOLEAN)
    BY <1>3 DEF StepsOn
  <2>2. PICK g : Follows(g, N, BOOLEAN, FALSE, step)
    <3> HIDE DEF step, N
    <3>. QED  BY <1>2, <2>1, RecursionExists
  <2>3. ASSUME NEW n \in 0..N
        PROVE  g[n] = After(g)[n]
    <3>1. CASE n = 0
      BY <2>2, <3>1 DEF Follows
    <3>2. CASE n # 0
      <4>1. n \in 1..N /\ n - 1 \in 0..N
        BY <1>2, <3>2
      <4>2. g[n - 1] \in BOOLEAN /\ g[n] = step[n][g[n - 1]]
        BY <2>2, <4>1 DEF Follows
      <4>3. g[n] = BegunAfter(hs[n], g[n - 1])
        BY <4>1, <4>2
      <4>. QED  BY <3>2, <4>3
    <3>. QED  BY <3>1, <3>2
  <2>4. g \in [0..N -> BOOLEAN]
    BY <2>2 DEF Follows
  <2>. QED  BY <2>3, <2>4
<1>5. b = After(b)
  <2> HIDE DEF After
  <2>. QED  BY <1>4
<1> HIDE DEF b
<1>6. b[0] = FALSE
  BY <1>2, <1>5
<1>7. ASSUME NEW n \in 1..N
      PROVE  b[n] = BegunAfter(hs[n], b[n - 1])
  <2>1. n \in 0..N /\ n # 0
    BY <1>2
  <2>. QED  BY <1>5, <2>1
<1>8. \A n \in 0..N : b[n] \in BOOLEAN
  <2> TAKE n \in 0..N
  <2>1. n = 0 \/ n \in 1..N
    BY <1>2
  <2>. QED  BY <1>3, <1>6, <1>7, <2>1
<1>. QED  BY <1>1, <1>6, <1>7, <1>8

\* The links of a page, for any number of parts.
LEMMA PagesLinked ==
    ASSUME NEW parts, NEW N \in Nat \ {0}, Len(parts) = N, DOMAIN parts = 1..N,
           \A n \in 1..N - 1 : parts[n] \in Fragments, parts[N] \in Ends \cup OpenEnds
    PROVE  ExtractLinks(Html(parts)) = IF Panics(parts) THEN Panic ELSE Found(LinksIn(parts))
<1> DEFINE B == HtmlPieces
           hs == [n \in DOMAIN parts |-> parts[n].html]
           ls == [n \in DOMAIN parts |-> parts[n].links]
           bs == Begun(hs)
           gs == [n \in DOMAIN parts |-> Given(parts[n].html, parts[n].links, bs[n - 1])]
<1>1. N \in 1..N /\ N - 1 \in 0..N /\ \A n \in 1..N : n \in 1..N - 1 \/ n = N
  OBVIOUS
<1>2. \A n \in 1..N - 1 : IsFragment(parts[n].html, parts[n].links)
  BY FragmentsAre
<1>3. /\ parts[N] \in Ends => IsLast(parts[N].html, parts[N].links)
      /\ parts[N] \in OpenEnds => IsOpen(parts[N].html) /\ parts[N].links = <<>>
  BY FragmentsAre
<1>4. parts[N] \in Ends => parts[N] \notin OpenEnds
  BY <1>3 DEF IsLast, IsOpen
<1>5. \A n \in 1..N : parts[n].html \in Seq(B) /\ parts[n].links \in Seq(Seq(B))
  <2>1. ASSUME NEW n \in 1..N - 1
        PROVE  parts[n].html \in Seq(B) /\ parts[n].links \in Seq(Seq(B))
    <3>1. IsFragment(parts[n].html, parts[n].links)
      BY <1>2
    <3>2. parts[n].html \in Seq(B) /\ IsPart(parts[n].html, parts[n].links)
      BY <3>1 DEF IsFragment
    <3>. QED  BY <3>2, PartLinks
  <2>2. parts[N].html \in Seq(B) /\ parts[N].links \in Seq(Seq(B))
    <3>1. <<>> \in Seq(Seq(B))
      OBVIOUS
    <3>. QED  BY <1>3, <3>1 DEF IsLast, IsOpen
  <2>. QED  BY <1>1, <2>1, <2>2
<1>6. hs \in Seq(Seq(B)) /\ Len(hs) = N /\ \A n \in 1..N : hs[n] = parts[n].html
  BY <1>5
<1>7. ls \in Seq(Seq(Seq(B))) /\ Len(ls) = N /\ \A n \in 1..N : ls[n] = parts[n].links
  BY <1>5
<1>8. gs \in Seq(Seq(Seq(B))) /\ Len(gs) = N /\ \A n \in 1..N : gs[n] = Given(parts[n].html, parts[n].links, bs[n - 1])
  <2>1. \A n \in 1..N : Given(parts[n].html, parts[n].links, bs[n - 1]) \in Seq(Seq(B))
    <3>1. <<>> \in Seq(Seq(B))
      OBVIOUS
    <3> HIDE DEF B, bs
    <3>. QED  BY <1>5, <3>1 DEF Given
  <2> HIDE DEF B, bs
  <2>. QED  BY <2>1
<1>9. Html(parts) = Read(hs, N) /\ LinksIn(parts) = Read(gs, N) /\ Htmls(parts) = hs
  BY DEF Html, Htmls, LinksIn, Given
<1>10. /\ bs[0] = FALSE /\ \A n \in 0..N : bs[n] \in BOOLEAN
       /\ \A n \in 1..N : bs[n] = BegunAfter(hs[n], bs[n - 1])
  <2> HIDE DEF hs, B
  <2>. QED  BY <1>6, BegunIs DEF bs
<1> HIDE DEF hs, ls, gs, bs, B
<1>11. IsPaged(B, hs, ls, gs, bs)
  <2>1. \A n \in 1..N - 1 : n \in 1..N
    OBVIOUS
  <2>2. \A n \in 1..N - 1 : IsPart(hs[n], ls[n])
    BY <1>2, <1>6, <1>7, <2>1 DEF IsFragment
  <2>3. \A n \in 1..N : gs[n] = Given(hs[n], ls[n], bs[n - 1])
    BY <1>6, <1>7, <1>8
  <2>. QED  BY <1>6, <1>7, <1>8, <1>10, <2>2, <2>3 DEF IsPaged
<1>12. /\ IsEnd(hs[N], ls[N]) => ExtractLinks(Read(hs, N)) = Found(Read(gs, N))
       /\ Unclosed(hs[N], ls[N]) /\ ls[N] = <<>> =>
              ExtractLinks(Read(hs, N)) = IF IsValueRead(hs[N], bs[N - 1]) THEN Panic ELSE Found(Read(gs, N))
  <2>1. LET M == Len(hs) IN
            /\ IsEnd(hs[M], ls[M]) => ExtractLinks(Read(hs, M)) = Found(Read(gs, M))
            /\ Unclosed(hs[M], ls[M]) /\ ls[M] = <<>> =>
                   ExtractLinks(Read(hs, M)) = IF IsValueRead(hs[M], bs[M - 1]) THEN Panic ELSE Found(Read(gs, M))
    BY <1>11, LinksFound
  <2>. QED  BY <1>6, <2>1
<1>13. Panics(parts) <=> parts[N] \in OpenEnds /\ IsValueRead(hs[N], bs[N - 1])
  BY <1>1, <1>6, <1>9 DEF Panics, bs
<1>14. CASE parts[N] \in Ends
  <2>1. IsEnd(hs[N], ls[N])
    BY <1>1, <1>3, <1>6, <1>7, <1>14 DEF IsLast
  <2>2. ~Panics(parts)
    BY <1>4, <1>13, <1>14
  <2>. QED  BY <1>9, <1>12, <2>1, <2>2
<1>15. CASE parts[N] \in OpenEnds
  <2>1. Unclosed(hs[N], ls[N]) /\ ls[N] = <<>>
    BY <1>1, <1>3, <1>6, <1>7, <1>15 DEF IsOpen
  <2>. QED  BY <1>9, <1>12, <1>13, <1>15, <2>1
<1>. QED  BY <1>14, <1>15

-----------------------------------------------------------------------------
(* The runs of the functions.                                              *)

Gathered ==
    input.of = "gather" =>
        input \in Gathers /\ (done => result = Gather(input.delay, input.panics, Timeout))

LEMMA LinkedInputs == ASSUME NEW in, IsLinked(in) PROVE in.of = "links"
<1>1. \A parts : [of |-> "links", parts |-> parts].of = "links"
  OBVIOUS
<1>. QED  BY <1>1 DEF IsLinked

LEMMA InputsAreTyped == Init => done = FALSE /\ (input.of = "gather" => input \in Gathers)
BY LinkedInputs DEF Init, Merges, Gathers, IsStream, Fetches, IsSitemap, IsPage

LEMMA GatheredAlways == Spec => []Gathered
<1>1. Init => Gathered
  BY InputsAreTyped DEF Gathered
<1>2. Gathered /\ [Next]_vars => Gathered'
  BY DEF Gathered, Next, vars, Merge, GatherAll, ReadStream, ObeyRobots, AskSearch, FetchPage,
         CollectCandidates, IndexPage, FindLinks
<1>. QED  BY <1>1, <1>2, PTL DEF Spec

LEMMA GatherInputs == ASSUME input \in Gathers PROVE input.delay \in Seq(Nat) /\ Len(input.delay) = NumShards
BY GatherAssumption DEF Gathers

\* gather_with_timeout never drops a shard whose search ends within the timeout,
\* for any number of shards and any timeout.
THEOREM PromptAlwaysKept == Spec => []PromptShardsKept
<1>1. Gathered => PromptShardsKept
  BY GatherInputs, GatherKeepsPrompt, GatherAssumption DEF Gathered, PromptShardsKept, Returned
<1>. QED  BY <1>1, GatheredAlways, PTL

\* gather_with_timeout returns after one timeout per shard at the latest, for
\* any number of shards and any timeout.
THEOREM GatherAlwaysBounded == Spec => []GatherIsBounded
<1>1. Gathered => GatherIsBounded
  BY GatherInputs, GatherKeepsPrompt, GatherAssumption DEF Gathered, GatherIsBounded, Returned
<1>. QED  BY <1>1, GatheredAlways, PTL

Fetched ==
    input.of = "fetch" =>
        input \in Fetches /\ (done => result = FetchWithRetries(input.scripts, Len(input.scripts) - 1))

LEMMA FetchesAreTyped == Init => done = FALSE /\ (input.of = "fetch" => input \in Fetches)
BY LinkedInputs DEF Init, Merges, Gathers, IsStream, Fetches, IsSitemap, IsPage

LEMMA FetchedAlways == Spec => []Fetched
<1>1. Init => Fetched
  BY FetchesAreTyped DEF Fetched
<1>2. Fetched /\ [Next]_vars => Fetched'
  BY DEF Fetched, Next, vars, Merge, GatherAll, ReadStream, ObeyRobots, AskSearch, FetchPage,
         CollectCandidates, IndexPage, FindLinks
<1>. QED  BY <1>1, <1>2, PTL DEF Spec

LEMMA FetchInputs ==
    ASSUME input \in Fetches
    PROVE  \E N \in Nat \ {0} : /\ DOMAIN input.scripts = 1..N /\ Len(input.scripts) = N
                                /\ \A n \in 1..N : IsScript(input.scripts[n])
<1>1. ASSUME NEW m \in Nat, NEW script \in Deviating(m)
      PROVE  IsScript(script)
  <2>1. \A n \in DOMAIN Steps : Steps[n] \in DOMAIN script
    BY DEF Deviating
  <2>. QED  BY <2>1 DEF Deviating, IsScript
<1>2. ASSUME NEW N \in Nat \ {0}, NEW m \in Nat, input.scripts \in [1..N -> Deviating(m)]
      PROVE  /\ DOMAIN input.scripts = 1..N /\ Len(input.scripts) = N
             /\ \A n \in 1..N : IsScript(input.scripts[n])
  BY <1>1, <1>2
<1>3. input.scripts \in [1..2 -> Deviating(2)] \/ input.scripts \in [1..3 -> Deviating(1)]
  BY DEF Fetches
<1>4. 1 \in Nat /\ 2 \in Nat \ {0} /\ 3 \in Nat \ {0}
  OBVIOUS
<1>. QED  BY <1>2, <1>3, <1>4

\* A fetch with retries ends as its attempts' scripts say, retries what may be
\* retried and nothing else; FetchesSettle says it for any number of retries.
THEOREM FetchAlwaysSettles == Spec => []FetchSettles
<1>1. Fetched => FetchSettles
  BY FetchInputs, FetchesSettle DEF Fetched, FetchSettles, Returned
<1>. QED  BY <1>1, FetchedAlways, PTL

MergeReturned ==
    input.of = "merge" => input \in Merges /\ (done => result = MergeTopK(input.lists, input.k))

LEMMA MergesAreTyped == Init => done = FALSE /\ (input.of = "merge" => input \in Merges)
BY LinkedInputs DEF Init, Merges, Gathers, IsStream, Fetches, IsSitemap, IsPage

LEMMA MergeReturnedAlways == Spec => []MergeReturned
<1>1. Init => MergeReturned
  BY MergesAreTyped DEF MergeReturned
<1>2. MergeReturned /\ [Next]_vars => MergeReturned'
  BY DEF MergeReturned, Next, vars, Merge, GatherAll, ReadStream, ObeyRobots, AskSearch, FetchPage,
         CollectCandidates, IndexPage, FindLinks
<1>. QED  BY <1>1, <1>2, PTL DEF Spec

LEMMA MergeInputs == ASSUME input \in Merges PROVE Ranked(input.lists) /\ input.k \in Nat
<1>1. input.lists \in [1..NumShards -> Lists] /\ input.k \in Nat
  BY MergeAssumption DEF Merges
<1>2. \A list \in Lists : list \in Seq(Nat) /\ Sorted(list)
  BY MergeAssumption DEF Lists
<1>3. input.lists \in Seq(Seq(Nat)) /\ DOMAIN input.lists = 1..NumShards
  BY <1>1, <1>2, GatherAssumption
<1>. QED  BY <1>1, <1>2, <1>3 DEF Ranked

\* merge_topk returns the k best items of all shards in order, none lost and none
\* twice, for any number of shards, any scores and any k.
THEOREM MergeAlwaysBest == Spec => []MergesTheBest
<1>1. MergeReturned => MergesTheBest
  BY MergeInputs, MergesBest DEF MergeReturned, MergesTheBest, Returned
<1>. QED  BY <1>1, MergeReturnedAlways, PTL

Answered(query) ==
    LET pq == ParseQuery(query) IN [pq |-> pq, key |-> NormalizeKey(pq), tokens |-> AnalyzeTerms(pq.terms)]
Asked == input.of = "query" => input.query \in Queries /\ (done => result = Answered(input.query))

LEMMA QueriesAreTyped == Init => done = FALSE /\ (input.of = "query" => input.query \in Queries)
BY LinkedInputs DEF Init, Merges, Gathers, IsStream, Fetches, IsSitemap, IsPage

LEMMA AskedAlways == Spec => []Asked
<1>1. Init => Asked
  BY QueriesAreTyped DEF Asked
<1>2. Asked /\ [Next]_vars => Asked'
  BY DEF Asked, Answered, Next, vars, Merge, GatherAll, ReadStream, ObeyRobots, AskSearch, FetchPage,
         CollectCandidates, IndexPage, FindLinks
<1>. QED  BY <1>1, <1>2, PTL DEF Spec

LEMMA QueriesAre == Queries \subseteq Seq(Seq(Symbols))
<1>1. KeyTokens \subseteq Seq(Symbols)
  BY DEF KeyTokens, Symbols, AllWords
<1>2. RawTokens \subseteq Seq(Symbols)
  <2>1. /\ "gurt" \in Symbols /\ "GURT" \in Symbols /\ "the" \in Symbols /\ "THE" \in Symbols
        /\ "site" \in Symbols /\ "SITE" \in Symbols /\ "filetype" \in Symbols
        /\ "pdf" \in Symbols /\ "PDF" \in Symbols /\ "eacute" \in Symbols
        /\ "-" \in Symbols /\ ":" \in Symbols /\ "=" \in Symbols
        /\ "dquote" \in Symbols /\ "quote" \in Symbols /\ "U+001F" \in Symbols
    BY DEF Symbols, AllWords
  <2>2. {<<"the">>, <<"THE">>, <<"eacute">>, <<"site">>, <<"-">>, <<"gurt", "-",
         "pdf">>, <<"THE", "-", "gurt">>} \subseteq Seq(Symbols)
    BY <2>1
  <2>3. {<<"gurt", ":", "pdf">>, <<":", "gurt">>, <<"dquote", "gurt", "dquote">>,
         <<"SITE", "=", "GURT">>, <<"SITE", ":", "GURT">>, <<"site", ":", "dquote",
         "gurt", "dquote">>, <<"site", ":", "dquote", "gurt">>} \subseteq Seq(Symbols)
    BY <2>1
  <2>4. {<<"site", ":", "dquote", "dquote">>, <<"site", ":", "dquote">>, <<"site",
         ":", "gurt", ":", "pdf">>, <<"filetype", ":", "quote", "pdf", "quote">>,
         <<"filetype", ":", "dquote", "pdf", "quote">>} \subseteq Seq(Symbols)
    BY <2>1
  <2>5. {<<"U+001F">>, <<"gurt", "U+001F", "site", "=", "gurt">>,
         <<"site", ":", "gurt", "U+001F", "filetype", "=", "pdf">>} \subseteq Seq(Symbols)
    BY <2>1
  <2>. QED  BY <1>1, <2>2, <2>3, <2>4, <2>5 DEF RawTokens
<1>3. \A n \in Nat : [1..n -> RawTokens] \subseteq Seq(Seq(Symbols)) /\ [1..n -> KeyTokens] \subseteq Seq(Seq(Symbols))
  BY <1>1, <1>2
<1>4. ASSUME NEW q \in Queries
      PROVE  q \in Seq(Seq(Symbols))
  <2>1. CASE q \in [1..3 -> KeyTokens]
    <3>1. 3 \in Nat
      OBVIOUS
    <3>. QED  BY <1>3, <2>1, <3>1
  <2>2. CASE \E n \in 0..2 : q \in [1..n -> RawTokens]
    <3>1. PICK n \in 0..2 : q \in [1..n -> RawTokens]
      BY <2>2
    <3>2. n \in Nat
      OBVIOUS
    <3>. QED  BY <1>3, <3>1, <3>2
  <2>3. q \in UNION {[1..n -> RawTokens] : n \in 0..2} \/ q \in [1..3 -> KeyTokens]
    BY DEF Queries
  <2>. QED  BY <2>1, <2>2, <2>3
<1>. QED  BY <1>4

LEMMA RawTokensAre == \A raw \in RawTokens : Len(raw) > 0
<1>1. \A raw \in KeyTokens : Len(raw) > 0
  BY DEF KeyTokens
<1>2. \A raw \in {<<"the">>, <<"THE">>, <<"eacute">>, <<"site">>, <<"-">>, <<"gurt", "-", "pdf">>,
                   <<"THE", "-", "gurt">>, <<"gurt", ":", "pdf">>, <<":", "gurt">>} : Len(raw) > 0
  OBVIOUS
<1>3. \A raw \in {<<"dquote", "gurt", "dquote">>, <<"SITE", "=", "GURT">>, <<"SITE", ":", "GURT">>,
                   <<"site", ":", "dquote", "gurt", "dquote">>, <<"site", ":", "dquote", "gurt">>,
                   <<"site", ":", "dquote", "dquote">>, <<"site", ":", "dquote">>} : Len(raw) > 0
  OBVIOUS
<1>4. \A raw \in {<<"site", ":", "gurt", ":", "pdf">>, <<"filetype", ":", "quote", "pdf", "quote">>,
                   <<"filetype", ":", "dquote", "pdf", "quote">>, <<"U+001F">>,
                   <<"gurt", "U+001F", "site", "=", "gurt">>,
                   <<"site", ":", "gurt", "U+001F", "filetype", "=", "pdf">>} : Len(raw) > 0
  OBVIOUS
<1>. QED  BY <1>1, <1>2, <1>3, <1>4 DEF RawTokens

LEMMA TermsAre == ASSUME NEW query \in Queries PROVE NoTermEmpty(ParseQuery(query))
<1> DEFINE terms == ParseQuery(query).terms
<1>1. query \in Seq(Seq(Symbols))
  BY QueriesAre
<1>2. DOMAIN query = 1..Len(query) /\ \A i \in 1..Len(query) : query[i] \in RawTokens
  <2>1. \E n \in Nat : query \in [1..n -> RawTokens]
    <3>1. KeyTokens \subseteq RawTokens /\ \A n \in 0..2 : n \in Nat
      BY DEF RawTokens
    <3>2. query \in (UNION {[1..n -> RawTokens] : n \in 0..2}) \cup [1..3 -> RawTokens]
      BY <3>1 DEF Queries
    <3>. QED  BY <3>1, <3>2
  <2>. QED  BY <1>1, <2>1, LenProperties
<1>3. /\ terms \in Seq(Seq(Symbols))
      /\ \A x : IsIn(terms, x) => IsIn(query, x)
  BY <1>1, OnlyIs DEF ParseQuery
<1> HIDE DEF terms
<1>4. ASSUME NEW i \in 1..Len(terms)
      PROVE  Len(terms[i]) > 0
  <2>1. IsIn(terms, terms[i])
    BY <1>3, LenProperties DEF IsIn
  <2>2. PICK k \in 1..Len(query) : query[k] = terms[i]
    BY <1>2, <1>3, <2>1 DEF IsIn
  <2>. QED  BY <1>2, <2>2, RawTokensAre
<1>. QED  BY <1>4 DEF NoTermEmpty, terms

\* The hot cache takes the answer of one search for that of another only if one
\* of them has a term that reads like a filter or the separator of the key's
\* parts in it: if normalize_key gives two others one key, the engine looks up the
\* same tokens and the filters are the same; KeysTell says it for any words.
THEOREM KeysAlwaysTell == Spec => []KeysTellQueries
<1>1. Asked => KeysTellQueries
  <2> SUFFICES ASSUME Asked, Returned("query"), Unambiguous(result.pq), NEW other \in Known,
                      other.key = result.key, Unambiguous(other.pq)
               PROVE  /\ other.tokens = result.tokens
                      /\ other.pq.site = result.pq.site /\ other.pq.filetype = result.pq.filetype
    BY DEF KeysTellQueries
  <2>1. input.query \in Queries /\ result = Answered(input.query)
    BY DEF Asked, Returned
  <2>2. PICK q \in Queries : other = Answered(q)
    BY DEF Known, Answered
  <2> DEFINE p == ParseQuery(input.query)
             o == ParseQuery(q)
  <2>3. Parsed(p) /\ Parsed(o)
    BY <2>1, <2>2, QueriesAre, ParseQueryIs
  <2>4. NoTermEmpty(p) /\ NoTermEmpty(o)
    BY <2>1, <2>2, TermsAre
  <2>5. /\ result.pq = p /\ result.key = NormalizeKey(p) /\ result.tokens = AnalyzeTerms(p.terms)
        /\ other.pq = o /\ other.key = NormalizeKey(o) /\ other.tokens = AnalyzeTerms(o.terms)
    BY <2>1, <2>2 DEF Answered
  <2> HIDE DEF p, o
  <2>. QED  BY <2>3, <2>4, <2>5, KeysTell
<1>. QED  BY <1>1, AskedAlways, PTL

\* A page is found by a search for its text and by each of its words that is no
\* stop word; WordsFind says it for all texts that both foldings lower alike.
THEOREM WordsAlwaysFind == Spec => []WordsFindPages
<1>1. Asked => WordsFindPages
  <2> SUFFICES ASSUME Asked, Returned("query"), OnlyAsciiCase(Text(result.pq.terms))
               PROVE  LET text == Text(result.pq.terms)
                      IN  /\ result.tokens = IndexTokens(text)
                          /\ \A i \in DOMAIN text, word \in Words :
                                text[i] \in Words /\ AsciiLower[word] = AsciiLower[text[i]] =>
                                    (Matches([terms |-> <<<<word>>>>], [title |-> <<>>, content |-> text])
                                        <=> AsciiLower[word] \notin Stopwords)
    BY DEF WordsFindPages
  <2>1. input.query \in Queries /\ result = Answered(input.query)
    BY DEF Asked, Returned
  <2> DEFINE p == ParseQuery(input.query)
  <2>2. Parsed(p) /\ result.pq = p /\ result.tokens = AnalyzeTerms(p.terms)
    BY <2>1, QueriesAre, ParseQueryIs DEF Answered
  <2> HIDE DEF p
  <2>. QED  BY <2>2, WordsFind DEF Parsed
<1>. QED  BY <1>1, AskedAlways, PTL

RobotsRead ==
    input.of = "robots" =>
        /\ \E n \in 0..MaxLines : input.lines \in [1..n -> RobotsLines]
        /\ done => /\ result.allowed = IsAllowed(Parse(input.lines))
                   /\ result.delay = CrawlDelay(Parse(input.lines))

LEMMA RobotsAreTyped ==
    Init => /\ done = FALSE
            /\ input.of = "robots" => \E n \in 0..MaxLines : input.lines \in [1..n -> RobotsLines]
BY LinkedInputs DEF Init, Merges, Gathers, IsStream, Fetches, IsSitemap, IsPage

LEMMA RobotsReadAlways == Spec => []RobotsRead
<1>1. Init => RobotsRead
  BY RobotsAreTyped DEF RobotsRead
<1>2. RobotsRead /\ [Next]_vars => RobotsRead'
  BY DEF RobotsRead, Next, vars, Merge, GatherAll, ReadStream, ObeyRobots, AskSearch, FetchPage,
         CollectCandidates, IndexPage, FindLinks
<1>. QED  BY <1>1, <1>2, PTL DEF Spec

LEMMA RobotsInputs == ASSUME NEW n \in 0..MaxLines, NEW lines \in [1..n -> RobotsLines] PROVE IsLines(lines)
<1>1. n \in Nat /\ DOMAIN lines = 1..n /\ Len(lines) = n
  BY LinesAssumption
<1>2. \A line \in RobotsLines :
          /\ line.key \in {"user-agent", "allow", "disallow", "crawl-delay"}
          /\ line.key = "user-agent" => line.value \in Agents
          /\ line.key \in {"allow", "disallow"} => line.value \in Patterns
  BY DEF RobotsLines, Line, Patterns
<1>. QED  BY <1>1, <1>2 DEF IsLines

\* Parsing robots.txt into groups and looking up the best one obeys the groups of
\* the longest token of ours, or else of "*", unless a group after ours has a rule
\* as long as our longest; ObeysGroups says it for any lines, agents and patterns.
THEOREM RobotsAlwaysObeyed == Spec => []RobotsObeyed
<1>1. RobotsRead => RobotsObeyed
  <2> SUFFICES ASSUME RobotsRead, Returned("robots")
               PROVE  GroupsObeyed(input.lines, result.allowed, result.delay)
    BY DEF RobotsObeyed, GroupsObeyed
  <2>1. IsLines(input.lines)
    BY RobotsInputs DEF RobotsRead, Returned
  <2>2. result.allowed = IsAllowed(Parse(input.lines)) /\ result.delay = CrawlDelay(Parse(input.lines))
    BY DEF RobotsRead, Returned
  <2>. QED  BY <2>1, <2>2, LinesObeyed, ObeysGroups
<1>. QED  BY <1>1, RobotsReadAlways, PTL

BodyRead ==
    input.of = "read" =>
        /\ IsStream(input)
        /\ done => /\ result.fetch = ReadResponse(input.stream)
                   /\ input.stream.ending # "silence" => result.crawl = ReadResponseLike(input.stream)

LEMMA BodiesAreTyped == Init => done = FALSE /\ (input.of = "read" => IsStream(input))
BY LinkedInputs DEF Init, Merges, Gathers, Fetches, IsSitemap, IsPage

LEMMA BodyReadAlways == Spec => []BodyRead
<1>1. Init => BodyRead
  BY BodiesAreTyped DEF BodyRead
<1>2. BodyRead /\ [Next]_vars => BodyRead'
  BY DEF BodyRead, Next, vars, Merge, GatherAll, ReadStream, ObeyRobots, AskSearch, FetchPage,
         CollectCandidates, IndexPage, FindLinks
<1>. QED  BY <1>1, <1>2, PTL DEF Spec

\* However the bytes of a response are cut into reads and however the stream
\* ends, both clients read of it what a reader of all its bytes would; a bound on
\* messages may refuse what is longer.  StreamsRead says it for any stream.
THEOREM BodyAlwaysWhatWasSent == Spec => []BodyIsWhatWasSent
<1>1. BodyRead => BodyIsWhatWasSent
  <2> SUFFICES ASSUME BodyRead, Returned("read")
               PROVE  ReadsWhole(input.stream, result.fetch, result.crawl)
    BY DEF BodyIsWhatWasSent, ReadsWhole
  <2>1. input.stream.chunks \in Seq(Seq(Bytes))
    BY StreamsAre DEF BodyRead, Returned
  <2>2. /\ result.fetch = ReadResponse(input.stream)
        /\ input.stream.ending # "silence" => result.crawl = ReadResponseLike(input.stream)
    BY DEF BodyRead, Returned
  <2>. QED  BY <2>1, <2>2, StreamsRead
<1>. QED  BY <1>1, BodyReadAlways, PTL

PageIndexed ==
    input.of = "page" => IsPage(input) /\ (done => result = IndexSingleUrl(input))

LEMMA PagesAreTyped == Init => done = FALSE /\ (input.of = "page" => IsPage(input))
BY LinkedInputs DEF Init, Merges, Gathers, IsStream, Fetches, IsSitemap

LEMMA PageIndexedAlways == Spec => []PageIndexed
<1>1. Init => PageIndexed
  BY PagesAreTyped DEF PageIndexed
<1>2. PageIndexed /\ [Next]_vars => PageIndexed'
  BY DEF PageIndexed, Next, vars, Merge, GatherAll, ReadStream, ObeyRobots, AskSearch, FetchPage,
         CollectCandidates, IndexPage, FindLinks
<1>. QED  BY <1>1, <1>2, PTL DEF Spec

LEMMA PagesAre ==
    ASSUME NEW page, IsPage(page)
    PROVE  /\ page.html \in Seq(Pieces) /\ page.fetched \in BOOLEAN
           /\ page.code2xx \in BOOLEAN /\ page.slow \in BOOLEAN
<1>1. PICK n \in 0..MaxHtml, slow, fetched, code2xx \in BOOLEAN, type \in {"none", "html", "other"} :
          \E html \in Pages(n) :
              page = [of |-> "page", html |-> html, slow |-> slow, fetched |-> fetched, code2xx |-> code2xx,
                      contentType |-> type]
  BY DEF IsPage
<1>2. n \in Nat
  BY PageAssumption
<1>3. Pages(n) \subseteq Seq(Pieces)
  BY <1>2 DEF Pages
<1>. QED  BY <1>1, <1>3

\* An accepted page gives one document: the page without its scripts if it was
\* rendered, under the first title, and one note if rendering took too long;
\* PagesIndexed says it for pages of any length.
THEOREM PageAlwaysIndexed == Spec => []PageIsIndexed
<1>1. PageIndexed => PageIsIndexed
  <2> SUFFICES ASSUME PageIndexed, Returned("page")
               PROVE  Indexes(input, result)
    BY DEF PageIsIndexed, Indexes, Scripted, Titled
  <2>1. IsPage(input) /\ result = IndexSingleUrl(input)
    BY DEF PageIndexed, Returned
  <2>. QED  BY <2>1, PagesAre, PagesIndexed
<1>. QED  BY <1>1, PageIndexedAlways, PTL

AnswerOf(in) == [fetched |-> in.answer.fetched, code2xx |-> in.answer.code2xx, utf8 |-> in.answer.utf8,
                 xml |-> SubSeq(Sitemap(in.texts), 1, in.cut)]
CandidatesCollected ==
    input.of = "sitemap" => IsSitemap(input) /\ (done => result = CandidateUrls(AnswerOf(input)))

LEMMA SitemapsAreTyped == Init => done = FALSE /\ (input.of = "sitemap" => IsSitemap(input))
BY LinkedInputs DEF Init, Merges, Gathers, IsStream, Fetches, IsPage

LEMMA CandidatesCollectedAlways == Spec => []CandidatesCollected
<1>1. Init => CandidatesCollected
  BY SitemapsAreTyped DEF CandidatesCollected
<1>2. CollectCandidates => result' = CandidateUrls(AnswerOf(input))
  BY DEF CollectCandidates, AnswerOf
<1>3. Next /\ input.of = "sitemap" => CollectCandidates /\ input' = input
  BY DEF Next, Merge, GatherAll, ReadStream, ObeyRobots, AskSearch, FetchPage, IndexPage, FindLinks
<1>4. Next => input' = input
  BY DEF Next
<1>5. CandidatesCollected /\ [Next]_vars => CandidatesCollected'
  BY <1>2, <1>3, <1>4 DEF CandidatesCollected, vars
<1>. QED  BY <1>1, <1>5, PTL DEF Spec

LEMMA SitemapsAre ==
    ASSUME NEW in, IsSitemap(in)
    PROVE  IsTexts(in.texts) /\ in.cut \in 0..Len(Sitemap(in.texts)) /\ in.answer \in Answers
<1>1. PICK n \in 0..MaxEntries : \E texts \in [1..n -> EntryTexts] : \E cut \in 0..Len(Sitemap(texts)) :
          \E answer \in Answers : in = [of |-> "sitemap", texts |-> texts, cut |-> cut, answer |-> answer]
  BY DEF IsSitemap
<1>2. PICK texts \in [1..n -> EntryTexts] : \E cut \in 0..Len(Sitemap(texts)) :
          \E answer \in Answers : in = [of |-> "sitemap", texts |-> texts, cut |-> cut, answer |-> answer]
  BY <1>1
<1>3. in.texts = texts /\ in.cut \in 0..Len(Sitemap(in.texts)) /\ in.answer \in Answers
  BY <1>2
<1>4. n \in Nat
  BY PageAssumption
<1>5. texts \in Seq(EntryTexts)
  BY <1>4
<1>. QED  BY <1>3, <1>5 DEF IsTexts

\* A crawl visits the root and, if there is a sitemap, the pages of its first
\* entries that are complete and not empty, as many as the limit leaves room for;
\* CandidatesListed says it for sitemaps of any length and any limit.
THEOREM CandidatesAlwaysListed == Spec => []CandidatesAreListed
<1>1. CandidatesCollected => CandidatesAreListed
  <2> SUFFICES ASSUME CandidatesCollected, Returned("sitemap")
               PROVE  result = {RootAddress} \cup
                          IF input.answer = GoodAnswer
                          THEN {Address[input.texts[n][2]] : n \in Listed(input.texts, input.cut)} ELSE {}
    BY DEF CandidatesAreListed, Listed, Complete
  <2> DEFINE a == input.answer
             answer == AnswerOf(input)
  <2>1. IsSitemap(input) /\ result = CandidateUrls(answer)
    BY DEF CandidatesCollected, Returned
  <2>2. IsTexts(input.texts) /\ input.cut \in 0..Len(Sitemap(input.texts)) /\ input.answer \in Answers
    BY <2>1, SitemapsAre
  <2>3. /\ answer.xml = SubSeq(Sitemap(input.texts), 1, input.cut)
        /\ answer.fetched = a.fetched /\ answer.code2xx = a.code2xx /\ answer.utf8 = a.utf8
    BY DEF AnswerOf
  <2> HIDE DEF answer
  <2>4. a = GoodAnswer <=> answer.fetched /\ answer.code2xx /\ answer.utf8
    <3>1. a.fetched \in BOOLEAN /\ a.code2xx \in BOOLEAN /\ a.utf8 \in BOOLEAN
      BY <2>2 DEF Answers
    <3>2. a = [fetched |-> a.fetched, code2xx |-> a.code2xx, utf8 |-> a.utf8]
      BY <2>2 DEF Answers
    <3> HIDE DEF a
    <3>3. a = GoodAnswer => a.fetched /\ a.code2xx /\ a.utf8
      BY DEF GoodAnswer
    <3>4. a.fetched /\ a.code2xx /\ a.utf8 => a = GoodAnswer
      <4> SUFFICES ASSUME a.fetched, a.code2xx, a.utf8
                   PROVE  a = GoodAnswer
        OBVIOUS
      <4>1. a.fetched = TRUE /\ a.code2xx = TRUE /\ a.utf8 = TRUE
        BY <3>1
      <4>. QED  BY <3>2, <4>1 DEF GoodAnswer
    <3>. QED  BY <2>3, <3>3, <3>4
  <2>5. CandidateUrls(answer) = {RootAddress} \cup
            IF answer.fetched /\ answer.code2xx /\ answer.utf8
            THEN {Address[input.texts[n][2]] : n \in Listed(input.texts, input.cut)} ELSE {}
    BY <2>2, <2>3, CandidatesListed
  <2>. QED  BY <2>1, <2>4, <2>5
<1>. QED  BY <1>1, CandidatesCollectedAlways, PTL

LinksExtracted ==
    input.of = "links" => IsLinked(input) /\ (done => result = ExtractLinks(Html(input.parts)))

LEMMA LinkedAreTyped == Init => done = FALSE /\ (input.of = "links" => IsLinked(input))
BY DEF Init, Merges, Gathers, IsStream, Fetches, IsSitemap, IsPage

LEMMA LinksExtractedAlways == Spec => []LinksExtracted
<1>1. Init => LinksExtracted
  BY LinkedAreTyped DEF LinksExtracted
<1>2. FindLinks => result' = ExtractLinks(Html(input.parts))
  BY DEF FindLinks
<1>3. Next /\ input.of = "links" => FindLinks /\ input' = input
  BY DEF Next, Merge, GatherAll, ReadStream, ObeyRobots, AskSearch, FetchPage, CollectCandidates, IndexPage
<1>4. Next => input' = input
  BY DEF Next
<1>5. LinksExtracted /\ [Next]_vars => LinksExtracted'
  BY <1>2, <1>3, <1>4 DEF LinksExtracted, vars
<1>. QED  BY <1>1, <1>5, PTL DEF Spec

\* The links of a page are the gurt:// values, in their order, of the attributes
\* before whose "=" the text href stands after the value read last, whatever the
\* attributes' names, and a page that ends within the quotes of such a value makes
\* the code panic; PagesLinked says it for any number of parts.
THEOREM LinksAlwaysFound == Spec => []LinksAreFound
<1>1. LinksExtracted => LinksAreFound
  <2> SUFFICES ASSUME LinksExtracted, Returned("links")
               PROVE  result = IF Panics(input.parts) THEN Panic ELSE Found(LinksIn(input.parts))
    BY DEF LinksAreFound, Panics
  <2>1. IsLinked(input) /\ result = ExtractLinks(Html(input.parts))
    BY DEF LinksExtracted, Returned
  <2> DEFINE parts == input.parts
             N == Len(parts)
  <2>2. /\ N \in Nat \ {0} /\ DOMAIN parts = 1..N
        /\ \A n \in 1..N - 1 : parts[n] \in Fragments
        /\ parts[N] \in Ends \cup OpenEnds
    BY <2>1, LinkedAre
  <2> HIDE DEF parts
  <2>3. ExtractLinks(Html(parts)) = IF Panics(parts) THEN Panic ELSE Found(LinksIn(parts))
    BY <2>2, PagesLinked
  <2>. QED  BY <2>1, <2>3 DEF parts
<1>. QED  BY <1>1, LinksExtractedAlways, PTL
=============================================================================
