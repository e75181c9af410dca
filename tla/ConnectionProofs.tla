-------------------------- MODULE ConnectionProofs --------------------------
(***************************************************************************)
(* Theorems about Connection for any heads, limits, chunk size and number  *)
(* of requests: its types, that the cutting of the bytes into reads makes  *)
(* no difference to any answer, and that nothing of an answered request is *)
(* taken for the start of the next.                                        *)
(***************************************************************************)
EXTENDS Connection, WellFoundedInduction, SequenceTheorems, TLAPS

(***************************************************************************)
(* A set of numbers has a least element, and a bounded one a greatest: the *)
(* choices by which Framing finds a position are of something.             *)
(***************************************************************************)

LEMMA LeastOf ==
    ASSUME NEW T \in SUBSET Nat, T # {}
    PROVE  \E m \in T : \A n \in T : m <= n
<1> DEFINE Less == {p \in Nat \X Nat : p[1] < p[2]}
<1>1. IsWellFoundedOn(Less, Nat)
    BY NatLessThanWellFounded DEF OpToRel
<1>2. PICK m \in T : \A n \in T : <<n, m>> \notin Less
    <2> HIDE DEF Less
    <2>. QED  BY <1>1, WFMin
<1>3. ASSUME NEW n \in T, n < m
      PROVE  FALSE
    <2>1. <<n, m>> \in Less
        BY <1>3
    <2> HIDE DEF Less
    <2>. QED  BY <1>2, <2>1
<1>4. \A n \in T : m \in Nat /\ n \in Nat
    OBVIOUS
<1>. QED  BY <1>3, <1>4

LEMMA GreatestOf ==
    ASSUME NEW b \in Nat, NEW T \in SUBSET (0..b), T # {}
    PROVE  \E m \in T : \A n \in T : n <= m
<1> DEFINE U == {k \in 0..b : b - k \in T}
<1>1. U \in SUBSET Nat
    OBVIOUS
<1>2. U # {}
    <2>1. PICK t \in T : TRUE
        OBVIOUS
    <2>2. b - t \in 0..b /\ b - (b - t) = t
        BY <2>1
    <2>. QED  BY <2>1, <2>2
<1>3. PICK u \in U : \A k \in U : u <= k
    <2> HIDE DEF U
    <2>. QED  BY <1>1, <1>2, LeastOf
<1>4. ASSUME NEW n \in T
      PROVE  n <= b - u
    <2>1. b - n \in 0..b /\ b - (b - n) = n
        OBVIOUS
    <2>2. b - n \in U
        BY <2>1
    <2>3. u <= b - n /\ u \in Int /\ n \in Int
        BY <1>3, <2>2
    <2>. QED  BY <2>3
<1>5. b - u \in T
    BY <1>3
<1>. QED  BY <1>4, <1>5

-----------------------------------------------------------------------------
(* The parts of a sequence of bytes.                                       *)

\* A part, by its length and elements.
LEMMA PartOf ==
    ASSUME NEW s \in Seq(Bytes), NEW m \in 1..Len(s) + 1, NEW n \in m - 1..Len(s)
    PROVE  /\ SubSeq(s, m, n) \in Seq(Bytes)
           /\ Len(SubSeq(s, m, n)) = n - m + 1
           /\ \A i \in 1..n - m + 1 : SubSeq(s, m, n)[i] = s[m + i - 1]
<1>1. m \in Int /\ n \in Int /\ Len(s) \in Nat
    OBVIOUS
<1>2. ASSUME NEW i \in m..n
      PROVE  s[i] \in Bytes
    <2>1. i \in 1..Len(s)
        BY <1>1
    <2>. QED  BY <2>1, ElementOfSeq
<1>3. /\ SubSeq(s, m, n) \in Seq(Bytes)
      /\ Len(SubSeq(s, m, n)) = IF m <= n THEN n - m + 1 ELSE 0
      /\ \A i \in 1..n - m + 1 : SubSeq(s, m, n)[i] = s[m + i - 1]
    BY <1>1, <1>2, SubSeqProperties
<1>. QED  BY <1>1, <1>3

\* What is left after its first k bytes.
LEMMA RestOf ==
    ASSUME NEW s \in Seq(Bytes), NEW k \in 0..Len(s)
    PROVE  /\ From(s, k + 1) \in Seq(Bytes)
           /\ Len(From(s, k + 1)) = Len(s) - k
           /\ \A i \in 1..Len(s) - k : From(s, k + 1)[i] = s[k + i]
<1> DEFINE m == k + 1
           n == Len(s)
           r == SubSeq(s, m, n)
<1>1. k \in Nat /\ Len(s) \in Nat /\ k <= Len(s)
    OBVIOUS
<1>2. m \in 1..Len(s) + 1 /\ n \in m - 1..Len(s) /\ n - m + 1 = Len(s) - k
    BY <1>1
<1>3. r \in Seq(Bytes) /\ Len(r) = n - m + 1 /\ \A i \in 1..n - m + 1 : r[i] = s[m + i - 1]
    <2> HIDE DEF m, n
    <2>. QED  BY <1>2, PartOf
<1>4. \A i \in 1..Len(s) - k : r[i] = s[k + i]
    <2>1. ASSUME NEW i \in 1..Len(s) - k
          PROVE  r[i] = s[k + i]
        <3>1. r[i] = s[m + i - 1]
            BY <1>2, <1>3
        <3>2. m + i - 1 = k + i
            BY <1>1
        <3> HIDE DEF r, m
        <3>. QED  BY <3>1, <3>2
    <2>. QED  BY <2>1
<1>5. r = From(s, k + 1)
    BY DEF From
<1> HIDE DEF r, m, n
<1>. QED  BY <1>2, <1>3, <1>4, <1>5

\* A read that delivers n of the bytes still on the wire extends the part that
\* was read.
LEMMA ReadExtends ==
    ASSUME NEW s \in Seq(Bytes), NEW m \in 1..Len(s) + 1, NEW k \in m - 1..Len(s),
           NEW n \in 1..Len(From(s, k + 1))
    PROVE  /\ k + n \in m - 1..Len(s)
           /\ SubSeq(s, m, k) \o SubSeq(From(s, k + 1), 1, n) = SubSeq(s, m, k + n)
           /\ From(From(s, k + 1), n + 1) = From(s, k + n + 1)
<1> DEFINE w == From(s, k + 1)
           p == SubSeq(w, 1, n)
           q == From(w, n + 1)
           t == From(s, (k + n) + 1)
           r == SubSeq(s, k + 1, k + n)
<1>0. m \in Nat /\ k \in Nat /\ Len(s) \in Nat /\ m - 1 <= k /\ k <= Len(s) /\ k \in 0..Len(s)
    OBVIOUS
<1>1. w \in Seq(Bytes) /\ Len(w) = Len(s) - k /\ \A i \in 1..Len(s) - k : w[i] = s[k + i]
    BY <1>0, RestOf
<1> HIDE DEF w
<1>2. n \in Nat /\ n >= 1 /\ n <= Len(s) - k /\ n \in 0..Len(w)
    BY <1>0, <1>1 DEF w
<1>3. k + n \in m - 1..Len(s) /\ k + n \in k..Len(s) /\ k + n \in 0..Len(s)
    BY <1>0, <1>2
<1>4. p \in Seq(Bytes) /\ Len(p) = n /\ \A i \in 1..n : p[i] = s[k + i]
    <2>1. 1 \in 1..Len(w) + 1 /\ n \in 1 - 1..Len(w)
        BY <1>0, <1>1, <1>2
    <2>2. p \in Seq(Bytes) /\ Len(p) = n - 1 + 1 /\ \A i \in 1..n - 1 + 1 : p[i] = w[1 + i - 1]
        BY <1>1, <2>1, PartOf
    <2> HIDE DEF p
    <2>. QED  BY <1>0, <1>1, <1>2, <2>2
<1>5. /\ q \in Seq(Bytes) /\ Len(q) = Len(s) - (k + n)
      /\ \A i \in 1..Len(s) - (k + n) : q[i] = s[(k + n) + i]
    <2>1. q \in Seq(Bytes) /\ Len(q) = Len(w) - n /\ \A i \in 1..Len(w) - n : q[i] = w[n + i]
        BY <1>1, <1>2, RestOf
    <2> HIDE DEF q
    <2>. QED  BY <1>0, <1>1, <1>2, <2>1
<1>6. r = p
    <2>1. k + 1 \in 1..Len(s) + 1 /\ k + n \in (k + 1) - 1..Len(s) /\ (k + n) - (k + 1) + 1 = n
        BY <1>0, <1>2
    <2>2. r \in Seq(Bytes) /\ Len(r) = n /\ \A i \in 1..n : r[i] = s[(k + 1) + i - 1]
        BY <2>1, PartOf
    <2>3. \A i \in 1..n : (k + 1) + i - 1 = k + i
        BY <1>0, <1>2
    <2> HIDE DEF r, p
    <2>4. \A i \in 1..n : r[i] = p[i]
        BY <1>4, <2>2, <2>3
    <2>. QED  BY <1>4, <2>2, <2>4, SeqEqual
<1>7. SubSeq(s, m, k) \o r = SubSeq(s, m, k + n)
    BY <1>0, <1>3, ConcatAdjacentSubSeq
<1>8. q = t
    <2>1. /\ t \in Seq(Bytes) /\ Len(t) = Len(s) - (k + n)
          /\ \A i \in 1..Len(s) - (k + n) : t[i] = s[(k + n) + i]
        BY <1>3, RestOf
    <2> HIDE DEF t, q
    <2>. QED  BY <1>5, <2>1, SeqEqual
<1>. QED  BY <1>3, <1>6, <1>7, <1>8 DEF w

-----------------------------------------------------------------------------
(* Ends of heads.                                                          *)

LEMMA EndIsFourBytes ==
    ASSUME NEW s \in Seq(Bytes), NEW i \in Int
    PROVE  EndsAt(s, i) <=> /\ i >= 4 /\ i <= Len(s)
                            /\ s[i - 3] = "r" /\ s[i - 2] = "n" /\ s[i - 1] = "r" /\ s[i] = "n"
<1> SUFFICES ASSUME i >= 4, i <= Len(s)
             PROVE  SubSeq(s, i - 3, i) = End <=>
                        s[i - 3] = "r" /\ s[i - 2] = "n" /\ s[i - 1] = "r" /\ s[i] = "n"
    BY DEF EndsAt
<1> DEFINE m == i - 3
           last == SubSeq(s, m, i)
<1>1. m \in 1..Len(s) + 1 /\ i \in m - 1..Len(s) /\ i - m + 1 = 4
    OBVIOUS
<1>2. last \in Seq(Bytes) /\ Len(last) = 4 /\ \A j \in 1..4 : last[j] = s[m + j - 1]
    <2> HIDE DEF m
    <2>. QED  BY <1>1, PartOf
<1>3. last[1] = s[i - 3] /\ last[2] = s[i - 2] /\ last[3] = s[i - 1] /\ last[4] = s[i]
    <2>1. m + 1 - 1 = i - 3 /\ m + 2 - 1 = i - 2 /\ m + 3 - 1 = i - 1 /\ m + 4 - 1 = i
        OBVIOUS
    <2>2. last[1] = s[m + 1 - 1] /\ last[2] = s[m + 2 - 1] /\ last[3] = s[m + 3 - 1] /\ last[4] = s[m + 4 - 1]
        <3> HIDE DEF last, m
        <3>. QED  BY <1>2
    <2> HIDE DEF last, m
    <2>. QED  BY <2>1, <2>2
<1>4. End \in Seq(Bytes) /\ Len(End) = 4 /\ End[1] = "r" /\ End[2] = "n" /\ End[3] = "r" /\ End[4] = "n"
    BY DEF End, Bytes
<1>5. \A j \in 1..4 : j = 1 \/ j = 2 \/ j = 3 \/ j = 4
    OBVIOUS
<1>6. ASSUME last[1] = End[1], last[2] = End[2], last[3] = End[3], last[4] = End[4]
      PROVE  last = End
    <2>1. \A j \in 1..Len(last) : last[j] = End[j]
        <3> HIDE DEF last
        <3>. QED  BY <1>2, <1>5, <1>6
    <2> HIDE DEF last
    <2>. QED  BY <1>2, <1>4, <2>1, SeqEqual
<1> HIDE DEF last
<1>7. last = End <=> s[i - 3] = "r" /\ s[i - 2] = "n" /\ s[i - 1] = "r" /\ s[i] = "n"
    BY <1>3, <1>4, <1>6
<1>. QED  BY <1>7 DEF last, m

\* The ends in the first k bytes are those of the whole up to k.
LEMMA EndInPart ==
    ASSUME NEW s \in Seq(Bytes), NEW k \in 0..Len(s), NEW i \in Int
    PROVE  EndsAt(SubSeq(s, 1, k), i) <=> i <= k /\ EndsAt(s, i)
<1> DEFINE p == SubSeq(s, 1, k)
<1>1. 1 \in 1..Len(s) + 1 /\ k \in 1 - 1..Len(s) /\ k - 1 + 1 = k /\ k <= Len(s)
    OBVIOUS
<1>2. p \in Seq(Bytes) /\ Len(p) = k /\ \A j \in 1..k : p[j] = s[1 + j - 1]
    BY <1>1, PartOf
<1>3. \A j \in 1..k : p[j] = s[j]
    <2> HIDE DEF p
    <2>. QED  BY <1>2
<1> HIDE DEF p
<1>4. EndsAt(p, i) <=> /\ i >= 4 /\ i <= Len(p)
                       /\ p[i - 3] = "r" /\ p[i - 2] = "n" /\ p[i - 1] = "r" /\ p[i] = "n"
    BY <1>2, EndIsFourBytes
<1>5. i >= 4 /\ i <= k =>
        p[i - 3] = s[i - 3] /\ p[i - 2] = s[i - 2] /\ p[i - 1] = s[i - 1] /\ p[i] = s[i]
    BY <1>3
<1>6. EndsAt(s, i) <=> /\ i >= 4 /\ i <= Len(s)
                       /\ s[i - 3] = "r" /\ s[i - 2] = "n" /\ s[i - 1] = "r" /\ s[i] = "n"
    BY EndIsFourBytes
<1>7. EndsAt(p, i) <=> i <= k /\ EndsAt(s, i)
    BY <1>1, <1>2, <1>4, <1>5, <1>6
<1>. QED  BY <1>7 DEF p

\* The ends after the first k bytes are those of the whole that start there.
LEMMA EndInRest ==
    ASSUME NEW s \in Seq(Bytes), NEW k \in 0..Len(s), NEW i \in Int
    PROVE  EndsAt(From(s, k + 1), i) <=> i >= 4 /\ EndsAt(s, k + i)
<1> DEFINE r == From(s, k + 1)
<1>1. r \in Seq(Bytes) /\ Len(r) = Len(s) - k /\ \A j \in 1..Len(s) - k : r[j] = s[k + j]
    BY RestOf
<1> HIDE DEF r
<1>2. EndsAt(r, i) <=> /\ i >= 4 /\ i <= Len(r)
                       /\ r[i - 3] = "r" /\ r[i - 2] = "n" /\ r[i - 1] = "r" /\ r[i] = "n"
    BY <1>1, EndIsFourBytes
<1>3. i >= 4 /\ i <= Len(s) - k =>
        r[i - 3] = s[(k + i) - 3] /\ r[i - 2] = s[(k + i) - 2] /\ r[i - 1] = s[(k + i) - 1] /\ r[i] = s[k + i]
    <2> SUFFICES ASSUME i >= 4, i <= Len(s) - k
                 PROVE  r[i - 3] = s[(k + i) - 3] /\ r[i - 2] = s[(k + i) - 2]
                        /\ r[i - 1] = s[(k + i) - 1] /\ r[i] = s[k + i]
        OBVIOUS
    <2>1. r[i - 3] = s[k + (i - 3)] /\ r[i - 2] = s[k + (i - 2)] /\ r[i - 1] = s[k + (i - 1)] /\ r[i] = s[k + i]
        <3>1. /\ i - 3 \in 1..Len(s) - k /\ i - 2 \in 1..Len(s) - k
              /\ i - 1 \in 1..Len(s) - k /\ i \in 1..Len(s) - k
            OBVIOUS
        <3>. QED  BY <1>1, <3>1
    <2>2. k + (i - 3) = (k + i) - 3 /\ k + (i - 2) = (k + i) - 2 /\ k + (i - 1) = (k + i) - 1
        OBVIOUS
    <2>. QED  BY <2>1, <2>2
<1>4. EndsAt(s, k + i) <=> /\ k + i >= 4 /\ k + i <= Len(s)
                           /\ s[(k + i) - 3] = "r" /\ s[(k + i) - 2] = "n"
                           /\ s[(k + i) - 1] = "r" /\ s[k + i] = "n"
    <2>1. k + i \in Int
        OBVIOUS
    <2>. QED  BY <2>1, EndIsFourBytes
<1>5. (i <= Len(r) <=> k + i <= Len(s)) /\ (i <= Len(r) <=> i <= Len(s) - k)
    BY <1>1
<1>6. i >= 4 => k + i >= 4
    OBVIOUS
<1>7. EndsAt(r, i) <=> i >= 4 /\ EndsAt(s, k + i)
    BY <1>2, <1>3, <1>4, <1>5, <1>6
<1>. QED  BY <1>7 DEF r

\* HeadEnd finds the first end there is.
LEMMA HeadEndFound ==
    ASSUME NEW s \in Seq(Bytes)
    PROVE  /\ HeadEnd(s) \in 0..Len(s)
           /\ HeadEnd(s) # 0 => EndsAt(s, HeadEnd(s)) /\ \A j \in 1..HeadEnd(s) - 1 : ~EndsAt(s, j)
           /\ HeadEnd(s) = 0 => \A i \in Int : ~EndsAt(s, i)
<1> DEFINE First(i) == EndsAt(s, i) /\ \A j \in 1..i - 1 : ~EndsAt(s, j)
           Ends == {i \in DOMAIN s : EndsAt(s, i)}
<1>1. DOMAIN s = 1..Len(s) /\ Len(s) \in Nat
    OBVIOUS
<1>2. \A i \in Int : EndsAt(s, i) => i \in DOMAIN s
    BY <1>1 DEF EndsAt
<1>3. CASE Ends = {}
    <2>1. ~ \E i \in DOMAIN s : EndsAt(s, i)
        BY <1>3
    <2>2. HeadEnd(s) = 0
        BY <2>1 DEF HeadEnd
    <2>3. \A i \in Int : ~EndsAt(s, i)
        BY <1>2, <2>1
    <2>. QED  BY <1>1, <2>2, <2>3
<1>4. CASE Ends # {}
    <2>1. Ends \in SUBSET Nat
        BY <1>1
    <2>2. PICK m \in Ends : \A n \in Ends : m <= n
        <3> HIDE DEF Ends
        <3>. QED  BY <1>4, <2>1, LeastOf
    <2>3. First(m)
        <3>1. ASSUME NEW j \in 1..m - 1, EndsAt(s, j)
              PROVE  FALSE
            <4>1. j \in Ends
                BY <1>1, <1>2, <2>1, <3>1
            <4>. QED  BY <2>1, <2>2, <3>1, <4>1
        <3>. QED  BY <3>1
    <2>4. HeadEnd(s) = CHOOSE i \in DOMAIN s : First(i)
        BY <1>4 DEF HeadEnd
    <2>5. HeadEnd(s) \in DOMAIN s /\ First(HeadEnd(s))
        <3>1. \E i \in DOMAIN s : First(i)
            BY <2>2, <2>3
        <3> HIDE DEF First
        <3>. QED  BY <2>4, <3>1
    <2>. QED  BY <1>1, <2>5
<1>. QED  BY <1>3, <1>4

LEMMA HeadEndIs ==
    ASSUME NEW s \in Seq(Bytes), NEW e \in Nat,
           EndsAt(s, e), \A j \in 1..e - 1 : ~EndsAt(s, j)
    PROVE  HeadEnd(s) = e
<1>1. /\ HeadEnd(s) \in 0..Len(s)
      /\ HeadEnd(s) # 0 => EndsAt(s, HeadEnd(s)) /\ \A j \in 1..HeadEnd(s) - 1 : ~EndsAt(s, j)
      /\ HeadEnd(s) = 0 => \A i \in Int : ~EndsAt(s, i)
    BY HeadEndFound
<1> DEFINE h == HeadEnd(s)
<1>2. h \in Nat /\ h # 0 /\ e >= 4
    BY <1>1 DEF EndsAt
<1>3. ~(h < e)
    <2>1. h < e => h \in 1..e - 1
        BY <1>2
    <2>. QED  BY <1>1, <1>2, <2>1
<1>4. ~(e < h)
    <2>1. e < h => e \in 1..h - 1
        BY <1>2
    <2>. QED  BY <1>1, <1>2, <2>1
<1>. QED  BY <1>2, <1>3, <1>4

LEMMA NoHeadEnd ==
    ASSUME NEW s \in Seq(Bytes), \A i \in Int : ~EndsAt(s, i)
    PROVE  HeadEnd(s) = 0
<1>1. HeadEnd(s) \in Int /\ (HeadEnd(s) # 0 => EndsAt(s, HeadEnd(s)))
    BY HeadEndFound
<1>. QED  BY <1>1

\* The head of the first k bytes is that of the whole, if it is that short.
LEMMA HeadEndOfPart ==
    ASSUME NEW s \in Seq(Bytes), NEW k \in 0..Len(s)
    PROVE  HeadEnd(SubSeq(s, 1, k)) = IF HeadEnd(s) <= k THEN HeadEnd(s) ELSE 0
<1> DEFINE p == SubSeq(s, 1, k)
           h == HeadEnd(s)
<1>1. p \in Seq(Bytes) /\ k \in Nat
    BY PartOf
<1>2. /\ h \in Nat
      /\ h # 0 => EndsAt(s, h) /\ \A j \in 1..h - 1 : ~EndsAt(s, j)
      /\ h = 0 => \A i \in Int : ~EndsAt(s, i)
    BY HeadEndFound
<1>3. \A i \in Int : EndsAt(p, i) <=> i <= k /\ EndsAt(s, i)
    BY EndInPart
<1> HIDE DEF p, h
<1>4. CASE h # 0 /\ h <= k
    <2>1. EndsAt(p, h) /\ \A j \in 1..h - 1 : ~EndsAt(p, j)
        BY <1>2, <1>3, <1>4
    <2>2. HeadEnd(p) = h
        BY <1>1, <1>2, <2>1, HeadEndIs
    <2>. QED  BY <1>4, <2>2 DEF p, h
<1>5. CASE h = 0 \/ ~(h <= k)
    <2>1. \A i \in Int : ~EndsAt(p, i)
        <3>1. CASE h = 0
            BY <1>2, <1>3, <3>1
        <3>2. CASE h # 0 /\ ~(h <= k)
            <4>1. ASSUME NEW i \in Int, EndsAt(p, i)
                  PROVE  FALSE
                <5>1. i <= k /\ EndsAt(s, i) /\ i >= 4
                    BY <1>3, <4>1 DEF EndsAt
                <5>2. i \in 1..h - 1
                    BY <1>1, <1>2, <3>2, <5>1
                <5>. QED  BY <1>2, <3>2, <5>1, <5>2
            <4>. QED  BY <4>1
        <3>. QED  BY <1>5, <3>1, <3>2
    <2>2. HeadEnd(p) = 0
        BY <1>1, <2>1, NoHeadEnd
    <2>. QED  BY <1>5, <2>2 DEF p, h
<1>. QED  BY <1>4, <1>5

\* Resuming the scan three bytes before where it stopped misses no end.
LEMMA ScanMissesNothing ==
    ASSUME NEW got \in Seq(Bytes), NEW from \in 0..Len(got), HeadEnd(SubSeq(got, 1, from)) = 0
    PROVE  Scan(got, from) = HeadEnd(got)
<1> DEFINE start == IF from < 3 THEN 0 ELSE from - 3
           r == From(got, start + 1)
           h == HeadEnd(got)
<1>1. start \in 0..Len(got) /\ start \in Nat /\ from \in Nat /\ start <= from /\ (start = 0 \/ from = start + 3)
    OBVIOUS
<1>2. Scan(got, from) = IF HeadEnd(r) = 0 THEN 0 ELSE start + HeadEnd(r)
    BY DEF Scan, ScanFrom
<1> HIDE DEF start
<1>3. r \in Seq(Bytes)
    BY <1>1, RestOf
<1>4. \A i \in Int : EndsAt(r, i) <=> i >= 4 /\ EndsAt(got, start + i)
    BY <1>1, EndInRest
<1> HIDE DEF r
<1>5. /\ h \in Nat
      /\ h # 0 => EndsAt(got, h) /\ \A j \in 1..h - 1 : ~EndsAt(got, j)
      /\ h = 0 => \A i \in Int : ~EndsAt(got, i)
    BY HeadEndFound
<1>6. h # 0 => h > from /\ h >= 4
    <2>1. h # 0 => ~(h <= from)
        BY HeadEndOfPart
    <2>. QED  BY <1>1, <1>5, <2>1 DEF EndsAt
<1> HIDE DEF h
<1>7. CASE h # 0
    <2>1. h - start \in Nat /\ h - start >= 4 /\ start + (h - start) = h
        BY <1>1, <1>5, <1>6, <1>7
    <2>2. EndsAt(r, h - start)
        BY <1>4, <1>5, <1>7, <2>1
    <2>3. \A j \in 1..(h - start) - 1 : ~EndsAt(r, j)
        <3>1. ASSUME NEW j \in 1..(h - start) - 1, EndsAt(r, j)
              PROVE  FALSE
            <4>1. start + j \in 1..h - 1 /\ j \in Int
                BY <1>1, <1>5, <2>1
            <4>2. EndsAt(got, start + j)
                BY <1>4, <3>1, <4>1
            <4>. QED  BY <1>5, <1>7, <4>1, <4>2
        <3>. QED  BY <3>1
    <2>4. HeadEnd(r) = h - start
        BY <1>3, <2>1, <2>2, <2>3, HeadEndIs
    <2>. QED  BY <1>2, <2>1, <2>4 DEF h
<1>8. CASE h = 0
    <2>1. \A i \in Int : ~EndsAt(r, i)
        <3>1. ASSUME NEW i \in Int, EndsAt(r, i)
              PROVE  FALSE
            <4>1. EndsAt(got, start + i) /\ start + i \in Int
                BY <1>1, <1>4, <3>1
            <4>. QED  BY <1>5, <1>8, <4>1
        <3>. QED  BY <3>1
    <2>2. HeadEnd(r) = 0
        BY <1>3, <2>1, NoHeadEnd
    <2>. QED  BY <1>2, <1>8, <2>2 DEF h
<1>. QED  BY <1>7, <1>8

\* What a head announces is a number of bytes.
LEMMA AnnouncedIsLength ==
    ASSUME NEW head \in Seq(Bytes)
    PROVE  ContentLength(head) \in Nat
<1> DEFINE at == {i \in DOMAIN head : head[i] \in Digits}
           last == CHOOSE i \in at : \A j \in at : j <= i
<1>1. CASE at = {}
    BY <1>1 DEF ContentLength
<1>2. CASE at # {}
    <2>1. ContentLength(head) = Value(head[last])
        BY <1>2 DEF ContentLength
    <2>2. Len(head) \in Nat /\ at \in SUBSET (0..Len(head))
        OBVIOUS
    <2>3. last \in at
        <3>1. \E i \in at : \A j \in at : j <= i
            <4> HIDE DEF at
            <4>. QED  BY <1>2, <2>2, GreatestOf
        <3> HIDE DEF at
        <3>. QED  BY <3>1
    <2>4. head[last] \in Digits
        <3> HIDE DEF last
        <3>. QED  BY <2>3
    <2> HIDE DEF last
    <2>. QED  BY <2>1, <2>4 DEF Digits, Value
<1>. QED  BY <1>1, <1>2

(***************************************************************************)
(* The inductive invariant: at every stage, what was read and what is on   *)
(* the wire are the two parts of what the client sent.                     *)
(***************************************************************************)

\* A client sends no more than its head announces.
Honest(s) ==
    /\ s \in Seq(Bytes) /\ s # <<>>
    /\ HeadEnd(s) # 0 => Len(s) <= HeadEnd(s) + ContentLength(SubSeq(s, 1, HeadEnd(s)))

\* The first k bytes of s were read for the message at hand, the others not.
ReadUpTo(s, k) == k \in 0..Len(s) /\ wire = From(s, k + 1)

Fresh == buf = <<>> /\ searchFrom = 0 /\ headEnd = 0 /\ body = <<>>
Unasked == requests = 0 /\ answers = 0 /\ answer.code = "none"
Pending == requests = answers + 1 /\ answer.code = "none" /\ Honest(sent)

Greeting ==
    stage = "handshake" =>
        /\ Unasked
        /\ searchFrom = 0 /\ headEnd = 0 /\ body = <<>>
        /\ \E hello \in Hellos :
              /\ ReadUpTo(hello, Len(buf))
              /\ buf = SubSeq(hello, 1, Len(buf)) /\ HeadEnd(buf) = 0

Upgrading == stage = "tls" => Unasked /\ Fresh /\ wire = <<>>

Idle == requests = answers /\ Fresh /\ wire = <<>>

ReadingHead ==
    /\ Pending
    /\ ReadUpTo(sent, Len(buf))
    /\ buf = SubSeq(sent, 1, Len(buf)) /\ HeadEnd(buf) = 0
    /\ searchFrom = Len(buf) /\ headEnd = 0 /\ body = <<>>

\* The head is acceptable, and the body is what follows it in what was read.
HeadAccepted ==
    /\ headEnd = HeadEnd(sent) /\ headEnd # 0 /\ headEnd <= MaxMessage
    /\ Head1 = SubSeq(sent, 1, headEnd) /\ WellFormed(Head1)
    /\ ContentLength(Head1) > 0 => headEnd + ContentLength(Head1) <= MaxMessage
    /\ body = SubSeq(sent, headEnd + 1, headEnd + Len(body))

ReadingBody ==
    stage \in {"body", "reply"} =>
        /\ Pending /\ HeadAccepted
        /\ ReadUpTo(sent, headEnd + Len(body))
        /\ stage = "reply" => wire = <<>>

CInv ==
    /\ TypeOK /\ ChunksDoNotMatter
    /\ Greeting /\ Upgrading
    /\ stage = "head" => Idle \/ ReadingHead
    /\ ReadingBody

-----------------------------------------------------------------------------
(* What a client sends is honest, and what is sent is read in one of the   *)
(* ways the invariant names.                                               *)

LEMMA MessageIsHonest ==
    ASSUME NEW head \in Heads, NEW n \in 1..Len(head \o BodyOf(head))
    PROVE  Honest(SubSeq(head \o BodyOf(head), 1, n))
<1> DEFINE b == BodyOf(head)
           m == head \o b
           s == SubSeq(m, 1, n)
           L == Len(head)
           C == ContentLength(head)
<1>1. head \in Seq(Bytes) /\ HeadEnd(head) = L /\ L \in Nat /\ L # 0
    BY ClientAssumption
<1>2. C \in Nat
    BY <1>1, AnnouncedIsLength
<1>3. b \in Seq(Bytes) /\ Len(b) = C
    BY <1>2 DEF BodyOf, Bytes
<1> HIDE DEF b, C
<1>4. m \in Seq(Bytes) /\ Len(m) = L + C /\ \A i \in 1..L + C : m[i] = IF i <= L THEN head[i] ELSE b[i - L]
    BY <1>1, <1>3, ConcatProperties
<1>5. n \in 1..Len(m) /\ n \in Nat /\ n # 0
    BY DEF b
<1> HIDE DEF m
<1>6. s \in Seq(Bytes) /\ Len(s) = n
    <2>1. 1 \in 1..Len(m) + 1 /\ n \in 1 - 1..Len(m) /\ n - 1 + 1 = n
        BY <1>4, <1>5
    <2>. QED  BY <1>4, <2>1, PartOf
<1>7. SubSeq(m, 1, L) = head
    <2> DEFINE p == SubSeq(m, 1, L)
    <2>1. 1 \in 1..Len(m) + 1 /\ L \in 1 - 1..Len(m) /\ L - 1 + 1 = L
        BY <1>1, <1>2, <1>4
    <2>2. p \in Seq(Bytes) /\ Len(p) = L /\ \A i \in 1..L : p[i] = m[1 + i - 1]
        BY <1>4, <2>1, PartOf
    <2>3. \A i \in 1..L : 1 + i - 1 = i /\ i \in 1..L + C /\ i <= L
        BY <1>1, <1>2
    <2> HIDE DEF p
    <2>4. \A i \in 1..L : p[i] = head[i]
        BY <1>4, <2>2, <2>3
    <2>5. p = head
        BY <1>1, <2>2, <2>4, SeqEqual
    <2>. QED  BY <2>5 DEF p
<1>8. HeadEnd(m) = L
    <2>1. L \in 0..Len(m)
        BY <1>1, <1>2, <1>4
    <2>2. HeadEnd(head) = IF HeadEnd(m) <= L THEN HeadEnd(m) ELSE 0
        BY <1>4, <1>7, <2>1, HeadEndOfPart
    <2>. QED  BY <1>1, <2>2
<1>9. HeadEnd(s) = IF L <= n THEN L ELSE 0
    <2>1. n \in 0..Len(m)
        BY <1>4, <1>5
    <2>. QED  BY <1>4, <1>8, <2>1, HeadEndOfPart
<1>10. L <= n => SubSeq(s, 1, L) = head
    <2> SUFFICES ASSUME L <= n
                 PROVE  SubSeq(s, 1, L) = head
        OBVIOUS
    <2>1. 1 \in 1..Len(m) /\ n \in 1..Len(m) /\ 1 \in 1..n - 1 + 1 /\ L \in 1..n - 1 + 1
        BY <1>1, <1>4, <1>5
    <2>2. SubSeq(SubSeq(m, 1, n), 1, L) = SubSeq(m, 1 + 1 - 1, 1 + L - 1)
        BY <1>4, <2>1, SubSeqOfSubSeq
    <2>3. 1 + 1 - 1 = 1 /\ 1 + L - 1 = L
        BY <1>1
    <2>. QED  BY <1>7, <2>2, <2>3
<1>11. n <= L + C
    BY <1>1, <1>2, <1>4, <1>5
<1>12. s # <<>>
    <2>1. Len(<<>>) = 0
        OBVIOUS
    <2> HIDE DEF s
    <2>. QED  BY <1>5, <1>6, <2>1
<1>13. Honest(s)
    <2> HIDE DEF s, L
    <2>1. HeadEnd(s) # 0 => HeadEnd(s) = L /\ SubSeq(s, 1, L) = head
        BY <1>9, <1>10
    <2>. QED  BY <1>6, <1>11, <1>12, <2>1 DEF Honest, C
<1>. QED  BY <1>13 DEF s, m, b

LEMMA SentIsTyped ==
    ASSUME NEW s, Honest(s)
    PROVE  /\ s \in Seq(Bytes) /\ Len(s) \in Nat
           /\ HeadEnd(s) \in 0..Len(s)
           /\ SubSeq(s, 1, HeadEnd(s)) \in Seq(Bytes)
           /\ ContentLength(SubSeq(s, 1, HeadEnd(s))) \in Nat
<1>1. s \in Seq(Bytes) /\ Len(s) \in Nat
    BY DEF Honest
<1> DEFINE h == HeadEnd(s)
<1>2. h \in 0..Len(s)
    BY <1>1, HeadEndFound
<1> HIDE DEF h
<1>3. SubSeq(s, 1, h) \in Seq(Bytes)
    <2>1. 1 \in 1..Len(s) + 1 /\ h \in 1 - 1..Len(s)
        BY <1>1, <1>2
    <2>. QED  BY <1>1, <2>1, PartOf
<1>. QED  BY <1>1, <1>2, <1>3, AnnouncedIsLength DEF h

\* A message over the limit deserves to be refused for it, whatever it is.
LEMMA OverLimitIsDeserved ==
    ASSUME ConnectionAssumption, Honest(sent), Len(sent) > MaxMessage
    PROVE  Error("RequestEntityTooLarge") \in Deserved(sent)
<1> DEFINE end == HeadEnd(sent)
           head == SubSeq(sent, 1, end)
           over == ContentLength(head) > 0 /\ end + ContentLength(head) > MaxMessage
<1>1. /\ sent \in Seq(Bytes) /\ Len(sent) \in Nat /\ end \in Nat /\ ContentLength(head) \in Nat
      /\ MaxMessage \in Nat
    BY SentIsTyped DEF ConnectionAssumption
<1>2. end # 0 => Len(sent) <= end + ContentLength(head)
    BY DEF Honest
<1>3. end = 0 \/ end > MaxMessage \/ over
    <2> HIDE DEF end, head
    <2>. QED  BY <1>1, <1>2
<1>4. Deserved(sent) =
        IF end = 0 \/ end > MaxMessage
        THEN {Error(IF Len(sent) > MaxMessage THEN "RequestEntityTooLarge" ELSE "BadRequest")}
        ELSE IF ~WellFormed(head)
        THEN {Error("BadRequest"), Error(IF Len(sent) > MaxMessage THEN "RequestEntityTooLarge" ELSE "BadRequest")}
        ELSE IF over THEN {Error("RequestEntityTooLarge")}
        ELSE {Ok(From(sent, end + 1))}
    BY DEF Deserved
<1> HIDE DEF end, head, over
<1>. QED  BY <1>3, <1>4

-----------------------------------------------------------------------------
(* The ways a connection ends.                                             *)

LEMMA ClosedIsFinal ==
    ASSUME CInv, stage' = "closed", Reset, wire' \in Seq(Bytes), eof' \in BOOLEAN,
           UNCHANGED <<requests, sent>>, answers' \in 0..requests + 1,
           answer' \in [code : Codes \cup {"none"}, body : Seq(Bytes)],
           ChunksDoNotMatter'
    PROVE  CInv'
<1>1. TypeOK'
    <2>1. TypeOK
        BY DEF CInv
    <2>2. MaxMessage \in Nat
        BY ConnectionAssumption
    <2>3. <<>> \in Seq(Bytes) /\ Len(<<>>) = 0
        OBVIOUS
    <2>. QED  BY <2>1, <2>2, <2>3 DEF TypeOK, Reset
<1>2. Greeting' /\ Upgrading' /\ (stage = "head" => Idle \/ ReadingHead)' /\ ReadingBody'
    BY DEF Greeting, Upgrading, ReadingBody
<1>. QED  BY <1>1, <1>2 DEF CInv

\* Ending without an answer changes none.
LEMMA CloseKeeps ==
    ASSUME CInv, Close, wire' \in Seq(Bytes), UNCHANGED <<client, outcome>>
    PROVE  CInv'
<1>1. ChunksDoNotMatter'
    BY DEF CInv, ChunksDoNotMatter, client, outcome
<1>2. /\ UNCHANGED <<requests, sent>> /\ eof' \in BOOLEAN /\ answers' \in 0..requests + 1
      /\ answer' \in [code : Codes \cup {"none"}, body : Seq(Bytes)]
    BY DEF CInv, TypeOK, client, outcome
<1>. QED  BY <1>1, <1>2, ClosedIsFinal DEF Close

\* Answering an error ends the connection with the outcome the request deserves.
LEMMA FailKeeps ==
    ASSUME CInv, NEW code \in Codes, Fail(code), wire' \in Seq(Bytes), UNCHANGED client,
           requests = answers \/ requests = answers + 1,
           code = "InternalServerError"
           \/ (requests = answers + 1 /\ Error(code) \in Deserved(sent))
           \/ (requests = answers /\ code = "BadRequest")
    PROVE  CInv'
<1>1. answer' = Error(code) /\ answers' = answers + 1 /\ UNCHANGED <<eof, requests, sent>>
    BY DEF Fail, Answer, client
<1>2. requests \in Nat /\ answers \in Nat
    BY DEF CInv, TypeOK
<1>3. ChunksDoNotMatter'
    BY <1>1, <1>2 DEF ChunksDoNotMatter
<1>4. eof' \in BOOLEAN /\ answers' \in 0..requests + 1
    BY <1>1, <1>2 DEF CInv, TypeOK
<1>5. answer' \in [code : Codes \cup {"none"}, body : Seq(Bytes)]
    BY <1>1 DEF Error
<1>. QED  BY <1>1, <1>3, <1>4, <1>5, ClosedIsFinal DEF Fail, Close

-----------------------------------------------------------------------------
(* Every step keeps the invariant.                                         *)

LEMMA SendKeeps ==
    ASSUME CInv, NEW head \in Heads, SendRequest(head)
    PROVE  CInv'
<1> DEFINE m == head \o BodyOf(head)
<1>1. PICK n \in 1..Len(m) : eof' = (n < Len(m)) /\ wire' = wire \o SubSeq(m, 1, n) /\ sent' = SubSeq(m, 1, n)
    BY DEF SendRequest
<1>2. /\ stage = "head" /\ requests = answers /\ requests < MaxRequests /\ requests' = requests + 1
      /\ answer' = Error("none") /\ UNCHANGED <<stage, answers, reader>>
    BY DEF SendRequest
<1>3. TypeOK /\ MaxMessage \in Nat /\ MaxRequests \in Nat
    BY ConnectionAssumption DEF CInv
<1>4. Idle
    <2>1. ~ReadingHead
        BY <1>2, <1>3 DEF ReadingHead, Pending, TypeOK
    <2>. QED  BY <1>2, <2>1 DEF CInv
<1>5. Honest(SubSeq(m, 1, n))
    BY MessageIsHonest
<1>6. sent' \in Seq(Bytes) /\ Len(sent') \in Nat /\ Honest(sent')
    BY <1>1, <1>5, SentIsTyped
<1> HIDE DEF m
<1>7. wire' = sent'
    BY <1>1, <1>4, <1>6, ConcatEmptySeq DEF Idle
<1>8. wire' = From(sent', 1) /\ SubSeq(sent', 1, 0) = <<>>
    BY <1>6, <1>7, SubSeqFull, SubSeqEmpty DEF From
<1>9. buf' = <<>> /\ searchFrom' = 0 /\ headEnd' = 0 /\ body' = <<>>
    BY <1>2, <1>4 DEF Idle, Fresh, reader
<1>10. HeadEnd(<<>>) = 0
    BY DEF HeadEnd
<1>11. Len(<<>>) = 0 /\ <<>> \in Seq(Bytes)
    OBVIOUS
<1>12. requests \in Nat /\ answers \in Nat
    BY <1>3 DEF TypeOK
<1>13. TypeOK'
    <2>1. eof' \in BOOLEAN
        BY <1>1
    <2>2. requests' \in 0..MaxRequests /\ answers' \in 0..requests' + 1
        BY <1>2, <1>3, <1>12
    <2>3. answer' \in [code : Codes \cup {"none"}, body : Seq(Bytes)]
        BY <1>2, <1>11 DEF Error
    <2>. QED  BY <1>2, <1>3, <1>6, <1>7, <1>9, <1>11, <2>1, <2>2, <2>3 DEF TypeOK
<1>14. ReadingHead'
    <2>1. Pending'
        BY <1>2, <1>6, <1>12 DEF Pending, Error
    <2>2. ReadUpTo(sent, Len(buf))'
        <3>1. 0 \in 0..Len(sent') /\ 0 + 1 = 1
            BY <1>6
        <3>. QED  BY <1>8, <1>9, <1>11, <3>1 DEF ReadUpTo
    <2>3. (buf = SubSeq(sent, 1, Len(buf)) /\ HeadEnd(buf) = 0)'
        BY <1>8, <1>9, <1>10, <1>11
    <2>. QED  BY <1>9, <1>11, <2>1, <2>2, <2>3 DEF ReadingHead
<1>15. ChunksDoNotMatter'
    BY <1>2 DEF ChunksDoNotMatter, Error
<1>16. Greeting' /\ Upgrading' /\ ReadingBody'
    BY <1>2 DEF Greeting, Upgrading, ReadingBody
<1>. QED  BY <1>13, <1>14, <1>15, <1>16 DEF CInv

LEMMA HandshakeKeeps ==
    ASSUME CInv, ReadHandshake
    PROVE  CInv'
<1>1. stage = "handshake" /\ Unasked /\ searchFrom = 0 /\ headEnd = 0 /\ body = <<>>
    BY DEF CInv, Greeting, ReadHandshake
<1>2. PICK hello \in Hellos :
          /\ ReadUpTo(hello, Len(buf))
          /\ buf = SubSeq(hello, 1, Len(buf)) /\ HeadEnd(buf) = 0
    BY <1>1 DEF CInv, Greeting
<1>3. PICK n \in Reads :
          /\ wire' = From(wire, n + 1)
          /\ LET got == buf \o SubSeq(wire, 1, n) IN
             IF Len(got) > MaxHandshake THEN Close
             ELSE IF HeadEnd(got) = 0 THEN
                buf' = got /\ UNCHANGED <<stage, searchFrom, headEnd, body>>
             ELSE IF "h" \in InSeq(StartLine(got)) THEN stage' = "tls" /\ Reset
             ELSE Close
    BY DEF ReadHandshake
<1>4. TypeOK /\ UNCHANGED <<client, outcome>>
    BY DEF CInv, ReadHandshake
<1> DEFINE k == Len(buf)
           got == buf \o SubSeq(wire, 1, n)
<1>5. hello \in Seq(Bytes) /\ hello # <<>> /\ HeadEnd(hello) = Len(hello) /\ Len(hello) \in Nat
    BY ClientAssumption
<1>6. k \in 0..Len(hello) /\ wire = From(hello, k + 1) /\ n \in 1..Len(From(hello, k + 1)) /\ n \in Nat
    <2>1. k \in 0..Len(hello) /\ wire = From(hello, k + 1)
        BY <1>2 DEF ReadUpTo
    <2>2. Len(wire) \in Nat /\ Chunk \in Nat
        BY <1>4, ConnectionAssumption DEF TypeOK
    <2>3. n \in 1..Len(wire)
        BY <2>2 DEF Reads
    <2>. QED  BY <2>1, <2>3
<1> HIDE DEF k
<1>7. /\ k + n \in 0..Len(hello) /\ got = SubSeq(hello, 1, k + n)
      /\ wire' = From(hello, k + n + 1)
    <2>1. 1 \in 1..Len(hello) + 1 /\ k \in 1 - 1..Len(hello)
        BY <1>5, <1>6
    <2>2. /\ k + n \in 1 - 1..Len(hello)
          /\ SubSeq(hello, 1, k) \o SubSeq(From(hello, k + 1), 1, n) = SubSeq(hello, 1, k + n)
          /\ From(From(hello, k + 1), n + 1) = From(hello, k + n + 1)
        BY <1>5, <1>6, <2>1, ReadExtends
    <2>. QED  BY <1>2, <1>3, <1>6, <2>2 DEF k
<1> HIDE DEF got
<1>8. got \in Seq(Bytes) /\ Len(got) = k + n /\ wire' \in Seq(Bytes) /\ Len(wire') = Len(hello) - (k + n)
    <2>1. 1 \in 1..Len(hello) + 1 /\ k + n \in 1 - 1..Len(hello) /\ (k + n) - 1 + 1 = k + n
        BY <1>5, <1>6, <1>7
    <2>. QED  BY <1>5, <1>7, <2>1, PartOf, RestOf
<1>9. CASE Close
    BY <1>4, <1>8, <1>9, CloseKeeps
<1>10. CASE HeadEnd(got) = 0 /\ buf' = got /\ UNCHANGED <<stage, searchFrom, headEnd, body>>
    <2>1. Greeting'
        <3>1. Unasked'
            BY <1>1, <1>4 DEF Unasked, client, outcome
        <3>2. ReadUpTo(hello, Len(buf))'
            BY <1>7, <1>8, <1>10 DEF ReadUpTo
        <3>3. (buf = SubSeq(hello, 1, Len(buf)) /\ HeadEnd(buf) = 0)'
            BY <1>7, <1>8, <1>10
        <3>. QED  BY <1>1, <1>10, <3>1, <3>2, <3>3 DEF Greeting
    <2>2. TypeOK'
        <3>1. Len(buf') \in Nat
            BY <1>8, <1>10
        <3>. QED  BY <1>1, <1>4, <1>8, <1>10, <3>1 DEF TypeOK, client, outcome
    <2>3. ChunksDoNotMatter'
        BY <1>4 DEF CInv, ChunksDoNotMatter, client, outcome
    <2>4. Upgrading' /\ (stage = "head" => Idle \/ ReadingHead)' /\ ReadingBody'
        BY <1>1, <1>10 DEF Upgrading, ReadingBody
    <2>. QED  BY <2>1, <2>2, <2>3, <2>4 DEF CInv
<1>11. CASE HeadEnd(got) # 0 /\ stage' = "tls" /\ Reset
    <2>1. HeadEnd(got) = IF Len(hello) <= k + n THEN Len(hello) ELSE 0
        BY <1>5, <1>7, HeadEndOfPart
    <2>2. Len(wire') = 0
        BY <1>5, <1>7, <1>8, <1>11, <2>1
    <2>3. wire' = <<>>
        BY <1>8, <2>2, EmptySeq
    <2>4. Upgrading'
        BY <1>1, <1>4, <1>11, <2>3 DEF Upgrading, Unasked, Fresh, Reset, client, outcome
    <2>5. TypeOK'
        <3>1. <<>> \in Seq(Bytes) /\ Len(<<>>) = 0 /\ MaxMessage \in Nat
            BY ConnectionAssumption
        <3>. QED  BY <1>4, <1>8, <1>11, <3>1 DEF TypeOK, Reset, client, outcome
    <2>6. ChunksDoNotMatter'
        BY <1>4 DEF CInv, ChunksDoNotMatter, client, outcome
    <2>7. Greeting' /\ (stage = "head" => Idle \/ ReadingHead)' /\ ReadingBody'
        BY <1>11 DEF Greeting, ReadingBody
    <2>. QED  BY <2>4, <2>5, <2>6, <2>7 DEF CInv
<1>. QED  BY <1>3, <1>9, <1>10, <1>11 DEF got

\* What a read of n bytes makes of the k bytes read before, from the m-th on.
LEMMA ReadOfSent ==
    ASSUME CInv, Honest(sent), NEW m \in 1..Len(sent) + 1, NEW k \in m - 1..Len(sent),
           wire = From(sent, k + 1), NEW n \in Reads, wire' = From(wire, n + 1)
    PROVE  /\ n \in Nat /\ n # 0 /\ k + n \in m - 1..Len(sent)
           /\ SubSeq(sent, m, k) \o SubSeq(wire, 1, n) = SubSeq(sent, m, k + n)
           /\ SubSeq(sent, m, k + n) \in Seq(Bytes)
           /\ Len(SubSeq(sent, m, k + n)) = (k + n) - m + 1
           /\ wire' = From(sent, k + n + 1) /\ wire' \in Seq(Bytes)
<1>1. sent \in Seq(Bytes) /\ Len(sent) \in Nat
    BY SentIsTyped
<1>2. Len(wire) \in Nat /\ Chunk \in Nat
    BY ConnectionAssumption DEF CInv, TypeOK
<1>3. n \in Nat /\ n # 0 /\ n \in 1..Len(From(sent, k + 1))
    BY <1>2 DEF Reads
<1>4. /\ k + n \in m - 1..Len(sent)
      /\ SubSeq(sent, m, k) \o SubSeq(From(sent, k + 1), 1, n) = SubSeq(sent, m, k + n)
      /\ From(From(sent, k + 1), n + 1) = From(sent, k + n + 1)
    BY <1>1, <1>3, ReadExtends
<1>5. /\ SubSeq(sent, m, k + n) \in Seq(Bytes)
      /\ Len(SubSeq(sent, m, k + n)) = (k + n) - m + 1
    BY <1>1, <1>4, PartOf
<1>6. wire' \in Seq(Bytes)
    <2>1. k + n \in 0..Len(sent)
        BY <1>1, <1>4
    <2>. QED  BY <1>1, <1>4, <2>1, RestOf
<1>. QED  BY <1>3, <1>4, <1>5, <1>6

LEMMA ReadHeadKeeps ==
    ASSUME CInv, ReadHead
    PROVE  CInv'
<1> DEFINE k == Len(buf)
           h == HeadEnd(sent)
<1>1. stage = "head" /\ UNCHANGED client /\ TypeOK
    BY DEF ReadHead, CInv
<1>2. PICK n \in Reads :
          /\ wire' = From(wire, n + 1)
          /\ LET got == buf \o SubSeq(wire, 1, n)
                 end == Scan(got, searchFrom)
             IN
             IF Len(got) > MaxMessage THEN Fail("RequestEntityTooLarge")
             ELSE IF end # 0 THEN HeadRead(got, end)
             ELSE /\ buf' = got /\ searchFrom' = Len(got)
                  /\ UNCHANGED <<stage, outcome, headEnd, body>>
    BY DEF ReadHead
<1> DEFINE got == buf \o SubSeq(wire, 1, n)
<1>3. ReadingHead
    <2>1. ASSUME wire = <<>>
          PROVE  FALSE
        <3>1. Len(wire) = 0 /\ Chunk \in Nat
            BY <2>1, ConnectionAssumption
        <3>. QED  BY <3>1 DEF Reads
    <2>. QED  BY <1>1, <2>1 DEF CInv, Idle
<1>4. /\ Honest(sent) /\ requests = answers + 1 /\ answer.code = "none"
      /\ k \in 0..Len(sent) /\ wire = From(sent, k + 1)
      /\ buf = SubSeq(sent, 1, k) /\ HeadEnd(buf) = 0
      /\ searchFrom = k /\ headEnd = 0 /\ body = <<>>
    BY <1>3 DEF ReadingHead, Pending, ReadUpTo
<1>5. /\ sent \in Seq(Bytes) /\ Len(sent) \in Nat /\ h \in 0..Len(sent)
      /\ SubSeq(sent, 1, h) \in Seq(Bytes) /\ ContentLength(SubSeq(sent, 1, h)) \in Nat
    BY <1>4, SentIsTyped
<1>6. MaxMessage \in Nat
    BY ConnectionAssumption
<1>7. /\ n \in Nat /\ n # 0 /\ k + n \in 0..Len(sent)
      /\ got = SubSeq(sent, 1, k + n) /\ got \in Seq(Bytes) /\ Len(got) = k + n
      /\ wire' = From(sent, k + n + 1) /\ wire' \in Seq(Bytes)
    <2>1. 1 \in 1..Len(sent) + 1 /\ k \in 1 - 1..Len(sent)
        BY <1>4, <1>5
    <2>2. /\ n \in Nat /\ n # 0 /\ k + n \in 1 - 1..Len(sent)
          /\ SubSeq(sent, 1, k) \o SubSeq(wire, 1, n) = SubSeq(sent, 1, k + n)
          /\ SubSeq(sent, 1, k + n) \in Seq(Bytes)
          /\ Len(SubSeq(sent, 1, k + n)) = (k + n) - 1 + 1
          /\ wire' = From(sent, k + n + 1) /\ wire' \in Seq(Bytes)
        BY <1>2, <1>4, <2>1, ReadOfSent
    <2>3. (k + n) - 1 + 1 = k + n /\ 1 - 1 = 0
        BY <1>4, <2>2
    <2>4. got = SubSeq(sent, 1, k) \o SubSeq(wire, 1, n)
        BY <1>4
    <2> HIDE DEF k, got
    <2>. QED  BY <2>2, <2>3, <2>4
<1>8. SubSeq(got, 1, k) = buf
    <2>1. k = 0 => buf = <<>> /\ SubSeq(got, 1, k) = <<>>
        BY <1>4, SubSeqEmpty
    <2>2. ASSUME k # 0
          PROVE  SubSeq(got, 1, k) = buf
        <3>1. 1 \in 1..Len(sent) /\ k + n \in 1..Len(sent) /\ 1 \in 1..(k + n) - 1 + 1 /\ k \in 1..(k + n) - 1 + 1
            BY <1>4, <1>5, <1>7, <2>2
        <3>2. SubSeq(SubSeq(sent, 1, k + n), 1, k) = SubSeq(sent, 1 + 1 - 1, 1 + k - 1)
            BY <1>5, <3>1, SubSeqOfSubSeq
        <3>3. 1 + 1 - 1 = 1 /\ 1 + k - 1 = k
            BY <1>4
        <3> HIDE DEF k, got
        <3>. QED  BY <1>4, <1>7, <3>2, <3>3
    <2>. QED  BY <2>1, <2>2
<1>9. Scan(got, searchFrom) = HeadEnd(got)
    <2>1. k \in 0..Len(got)
        BY <1>4, <1>7
    <2>. QED  BY <1>4, <1>7, <1>8, <2>1, ScanMissesNothing
<1>10. HeadEnd(got) = IF h <= k + n THEN h ELSE 0
    BY <1>5, <1>7, HeadEndOfPart
<1> HIDE DEF got
<1>11. CASE Len(got) > MaxMessage
    <2>1. Fail("RequestEntityTooLarge")
        BY <1>2, <1>11 DEF got
    <2>2. Len(sent) > MaxMessage
        BY <1>5, <1>6, <1>7, <1>11
    <2>3. Error("RequestEntityTooLarge") \in Deserved(sent)
        BY <1>4, <2>2, ConnectionAssumption, OverLimitIsDeserved
    <2>. QED  BY <1>1, <1>4, <1>7, <2>1, <2>3, FailKeeps DEF Codes
<1>12. CASE ~(Len(got) > MaxMessage) /\ HeadEnd(got) = 0
    <2>1. buf' = got /\ searchFrom' = Len(got) /\ UNCHANGED <<stage, outcome, headEnd, body>>
        BY <1>2, <1>9, <1>12 DEF got
    <2>2. /\ Len(buf') = k + n /\ UNCHANGED <<eof, requests, sent, answers, answer, stage, headEnd, body>>
          /\ k + n \in Nat /\ k + n <= MaxMessage
        BY <1>1, <1>4, <1>6, <1>7, <1>12, <2>1 DEF client, outcome
    <2>3. TypeOK'
        BY <1>1, <1>4, <1>6, <1>7, <2>1, <2>2 DEF TypeOK
    <2>4. ReadingHead'
        <3>1. Pending'
            BY <1>4, <2>2 DEF Pending
        <3>2. ReadUpTo(sent, Len(buf))'
            BY <1>7, <2>1, <2>2 DEF ReadUpTo
        <3>3. (buf = SubSeq(sent, 1, Len(buf)) /\ HeadEnd(buf) = 0)'
            BY <1>7, <1>12, <2>1, <2>2
        <3>. QED  BY <1>4, <2>1, <2>2, <3>1, <3>2, <3>3 DEF ReadingHead
    <2>5. ChunksDoNotMatter'
        BY <2>2 DEF CInv, ChunksDoNotMatter
    <2>6. Greeting' /\ Upgrading' /\ ReadingBody'
        BY <1>1, <2>2 DEF Greeting, Upgrading, ReadingBody
    <2>. QED  BY <2>3, <2>4, <2>5, <2>6 DEF CInv
<1>13. CASE ~(Len(got) > MaxMessage) /\ HeadEnd(got) # 0
    <2> DEFINE head == SubSeq(sent, 1, h)
               C == ContentLength(head)
    <2>1. HeadRead(got, h) /\ h # 0 /\ h <= k + n /\ k + n <= MaxMessage /\ h \in Nat /\ C \in Nat
        BY <1>2, <1>4, <1>5, <1>6, <1>7, <1>9, <1>10, <1>13 DEF got
    <2>2. SubSeq(got, 1, h) = head
        <3>1. 1 \in 1..Len(sent) /\ k + n \in 1..Len(sent) /\ 1 \in 1..(k + n) - 1 + 1 /\ h \in 1..(k + n) - 1 + 1
            BY <1>4, <1>5, <1>7, <2>1
        <3>2. SubSeq(SubSeq(sent, 1, k + n), 1, h) = SubSeq(sent, 1 + 1 - 1, 1 + h - 1)
            BY <1>5, <3>1, SubSeqOfSubSeq
        <3>3. 1 + 1 - 1 = 1 /\ 1 + h - 1 = h
            BY <2>1
        <3> HIDE DEF h
        <3>. QED  BY <1>7, <3>2, <3>3
    <2>3. Len(sent) <= h + C
        BY <1>4, <2>1 DEF Honest
    <2>4. Deserved(sent) =
            IF ~WellFormed(head)
            THEN {Error("BadRequest"), Error(IF Len(sent) > MaxMessage THEN "RequestEntityTooLarge" ELSE "BadRequest")}
            ELSE IF C > 0 /\ h + C > MaxMessage THEN {Error("RequestEntityTooLarge")}
            ELSE {Ok(From(sent, h + 1))}
        <3>1. ~(h = 0 \/ h > MaxMessage)
            BY <1>4, <1>6, <1>7, <2>1
        <3>. QED  BY <3>1 DEF Deserved
    <2> HIDE DEF h, head, C
    <2>5. CASE ~WellFormed(head)
        <3>1. Fail("BadRequest")
            BY <2>1, <2>2, <2>5 DEF HeadRead
        <3>2. Error("BadRequest") \in Deserved(sent)
            BY <2>4, <2>5
        <3>. QED  BY <1>1, <1>4, <1>7, <3>1, <3>2, FailKeeps DEF Codes
    <2>6. CASE WellFormed(head) /\ C > 0 /\ h + C > MaxMessage
        <3>1. Fail("RequestEntityTooLarge")
            BY <2>1, <2>2, <2>6 DEF HeadRead, C
        <3>2. Error("RequestEntityTooLarge") \in Deserved(sent)
            BY <2>4, <2>6
        <3>. QED  BY <1>1, <1>4, <1>7, <3>1, <3>2, FailKeeps DEF Codes
    <2>7. CASE WellFormed(head) /\ ~(C > 0 /\ h + C > MaxMessage)
        <3>1. /\ stage' = "body" /\ buf' = got /\ headEnd' = h
              /\ body' = Rest(got, h)
              /\ UNCHANGED <<searchFrom, outcome>>
            BY <2>1, <2>2, <2>7 DEF HeadRead, C
        <3>2. h \in 0..Len(got) /\ From(got, h + 1) = SubSeq(got, h + 1, k + n)
            BY <1>4, <1>7, <2>1 DEF From
        <3>3. From(got, h + 1) = SubSeq(sent, h + 1, k + n)
            <4>1. /\ From(got, h + 1) \in Seq(Bytes) /\ Len(From(got, h + 1)) = (k + n) - h
                  /\ \A i \in 1..(k + n) - h : From(got, h + 1)[i] = got[h + i]
                BY <1>7, <3>2, RestOf
            <4>2. \A i \in 1..k + n : got[i] = sent[i]
                <5>1. 1 \in 1..Len(sent) + 1 /\ k + n \in 1 - 1..Len(sent) /\ (k + n) - 1 + 1 = k + n
                    BY <1>4, <1>5, <1>7
                <5>2. \A i \in 1..k + n : SubSeq(sent, 1, k + n)[i] = sent[1 + i - 1]
                    BY <1>5, <5>1, PartOf
                <5>3. \A i \in 1..k + n : 1 + i - 1 = i
                    BY <1>4, <1>7
                <5>. QED  BY <1>7, <5>2, <5>3
            <4> DEFINE r == SubSeq(sent, h + 1, k + n)
            <4>3. h + 1 \in 1..Len(sent) + 1 /\ k + n \in (h + 1) - 1..Len(sent) /\ (k + n) - (h + 1) + 1 = (k + n) - h
                BY <1>4, <1>5, <1>7, <2>1
            <4>4. /\ r \in Seq(Bytes) /\ Len(r) = (k + n) - h
                  /\ \A i \in 1..(k + n) - h : r[i] = sent[(h + 1) + i - 1]
                BY <1>5, <4>3, PartOf
            <4>5. \A i \in 1..(k + n) - h : (h + 1) + i - 1 = h + i /\ h + i \in 1..k + n
                BY <1>4, <1>7, <2>1
            <4> HIDE DEF r
            <4>6. \A i \in 1..(k + n) - h : r[i] = From(got, h + 1)[i]
                BY <4>1, <4>2, <4>4, <4>5
            <4>7. r = From(got, h + 1)
                BY <4>1, <4>4, <4>6, SeqEqual
            <4>. QED  BY <4>7 DEF r
        <3>4. body' = SubSeq(sent, h + 1, k + n)
            <4>1. CASE C = 0
                <5>1. k + n = h
                    BY <1>4, <1>5, <1>7, <2>1, <2>3, <4>1
                <5>2. SubSeq(sent, h + 1, k + n) = <<>>
                    BY <2>1, <5>1, SubSeqEmpty
                <5>3. Rest(got, h) = <<>>
                    BY <2>2, <4>1 DEF Rest, C
                <5>. QED  BY <3>1, <5>2, <5>3
            <4>2. CASE C # 0
                BY <2>2, <3>1, <3>3, <4>2 DEF Rest, C
            <4>. QED  BY <4>1, <4>2
        <3>5. body' \in Seq(Bytes) /\ Len(body') = (k + n) - h
            <4>1. h + 1 \in 1..Len(sent) + 1 /\ k + n \in (h + 1) - 1..Len(sent) /\ (k + n) - (h + 1) + 1 = (k + n) - h
                BY <1>4, <1>5, <1>7, <2>1
            <4>. QED  BY <1>5, <3>4, <4>1, PartOf
        <3>6. UNCHANGED <<eof, requests, sent, answers, answer, searchFrom>>
            BY <1>1, <3>1 DEF client, outcome
        <3>7. h + Len(body') = k + n
            BY <1>4, <1>7, <2>1, <3>5
        <3>8. TypeOK'
            BY <1>1, <1>7, <3>1, <3>2, <3>5, <3>6 DEF TypeOK
        <3>9. HeadAccepted'
            <4>1. headEnd' = HeadEnd(sent') /\ headEnd' # 0 /\ headEnd' <= MaxMessage
                BY <1>4, <1>6, <1>7, <2>1, <3>1, <3>6 DEF h
            <4>2. Head1' = head
                BY <2>2, <3>1 DEF Head1
            <4>3. head = SubSeq(sent', 1, headEnd')
                BY <3>1, <3>6 DEF head
            <4>4. WellFormed(Head1')
                BY <2>7, <4>2
            <4>5. ContentLength(Head1') > 0 => headEnd' + ContentLength(Head1') <= MaxMessage
                BY <1>6, <2>1, <2>7, <3>1, <4>2 DEF C
            <4>6. body' = SubSeq(sent', headEnd' + 1, headEnd' + Len(body'))
                BY <3>1, <3>4, <3>6, <3>7
            <4>. QED  BY <4>1, <4>2, <4>3, <4>4, <4>5, <4>6 DEF HeadAccepted
        <3>10. ReadingBody'
            <4>1. Pending'
                BY <1>4, <3>6 DEF Pending
            <4>2. ReadUpTo(sent, headEnd + Len(body))'
                BY <1>7, <3>1, <3>6, <3>7 DEF ReadUpTo
            <4>. QED  BY <3>1, <3>9, <4>1, <4>2 DEF ReadingBody
        <3>11. ChunksDoNotMatter'
            BY <3>6 DEF CInv, ChunksDoNotMatter
        <3>12. Greeting' /\ Upgrading' /\ (stage = "head" => Idle \/ ReadingHead)'
            BY <3>1 DEF Greeting, Upgrading
        <3>. QED  BY <3>8, <3>10, <3>11, <3>12 DEF CInv
    <2>. QED  BY <2>5, <2>6, <2>7
<1>. QED  BY <1>11, <1>12, <1>13

\* In the body and the reply: what the invariant says of them, in one place.
LEMMA InBody ==
    ASSUME CInv, stage \in {"body", "reply"}
    PROVE  /\ TypeOK /\ Honest(sent) /\ requests = answers + 1 /\ answer.code = "none"
           /\ sent \in Seq(Bytes) /\ Len(sent) \in Nat /\ MaxMessage \in Nat
           /\ headEnd = HeadEnd(sent) /\ headEnd \in Nat /\ headEnd # 0 /\ headEnd <= MaxMessage
           /\ Head1 = SubSeq(sent, 1, headEnd) /\ WellFormed(Head1)
           /\ ContentLength(Head1) \in Nat
           /\ ContentLength(Head1) > 0 => headEnd + ContentLength(Head1) <= MaxMessage
           /\ Len(sent) <= headEnd + ContentLength(Head1)
           /\ body = SubSeq(sent, headEnd + 1, headEnd + Len(body))
           /\ Len(body) \in Nat /\ headEnd + Len(body) \in 0..Len(sent)
           /\ wire = From(sent, headEnd + Len(body) + 1)
           /\ Len(wire) = Len(sent) - (headEnd + Len(body))
<1>1. TypeOK /\ Pending /\ HeadAccepted /\ ReadUpTo(sent, headEnd + Len(body))
    BY DEF CInv, ReadingBody
<1>2. /\ sent \in Seq(Bytes) /\ Len(sent) \in Nat /\ HeadEnd(sent) \in 0..Len(sent)
      /\ ContentLength(SubSeq(sent, 1, HeadEnd(sent))) \in Nat
    BY <1>1, SentIsTyped DEF Pending
<1>3. Len(body) \in Nat
    BY <1>1 DEF TypeOK
<1>4. Len(From(sent, headEnd + Len(body) + 1)) = Len(sent) - (headEnd + Len(body))
    BY <1>1, <1>2, RestOf DEF ReadUpTo
<1>5. Len(sent) <= headEnd + ContentLength(Head1)
    BY <1>1 DEF Pending, HeadAccepted, Honest
<1>. QED  BY <1>1, <1>2, <1>3, <1>4, <1>5, ConnectionAssumption DEF Pending, HeadAccepted, ReadUpTo

LEMMA ReadBodyKeeps ==
    ASSUME CInv, ReadBody
    PROVE  CInv'
<1> DEFINE k == headEnd + Len(body)
           C == ContentLength(Head1)
<1>1. stage = "body" /\ Missing > 0 /\ UNCHANGED client
    BY DEF ReadBody
<1>2. PICK n \in Reads :
          /\ wire' = From(wire, n + 1)
          /\ LET got == body \o SubSeq(wire, 1, n) IN
             IF headEnd + Len(got) > MaxMessage THEN Fail("RequestEntityTooLarge")
             ELSE body' = got /\ UNCHANGED <<stage, outcome, buf, searchFrom, headEnd>>
    BY DEF ReadBody
<1> DEFINE got == body \o SubSeq(wire, 1, n)
<1>3. /\ TypeOK /\ Honest(sent) /\ requests = answers + 1 /\ answer.code = "none"
      /\ sent \in Seq(Bytes) /\ Len(sent) \in Nat /\ MaxMessage \in Nat
      /\ headEnd = HeadEnd(sent) /\ headEnd \in Nat /\ headEnd # 0 /\ headEnd <= MaxMessage
      /\ Head1 = SubSeq(sent, 1, headEnd) /\ WellFormed(Head1)
      /\ C \in Nat /\ (C > 0 => headEnd + C <= MaxMessage) /\ Len(sent) <= headEnd + C
      /\ body = SubSeq(sent, headEnd + 1, k)
      /\ Len(body) \in Nat /\ k \in 0..Len(sent)
      /\ wire = From(sent, k + 1)
    BY <1>1, InBody
<1>4. /\ C > 0 /\ k \in Nat /\ C \in Nat /\ headEnd <= k /\ k <= Len(sent)
      /\ Len(sent) <= headEnd + C /\ headEnd + C <= MaxMessage
    <2>1. Len(body) \in Nat /\ headEnd \in Nat /\ C \in Nat
        BY <1>3
    <2>2. C > 0
        BY <1>1, <2>1 DEF Missing
    <2>3. k \in Nat /\ headEnd <= k
        BY <2>1
    <2>4. k <= Len(sent) /\ Len(sent) <= headEnd + C /\ headEnd + C <= MaxMessage
        <3> HIDE DEF k, C
        <3>. QED  BY <1>3, <2>2
    <2>. QED  BY <2>1, <2>2, <2>3, <2>4
<1> HIDE DEF k, C
<1>5. /\ n \in Nat /\ n # 0 /\ k + n \in 0..Len(sent)
      /\ got = SubSeq(sent, headEnd + 1, k + n) /\ got \in Seq(Bytes)
      /\ Len(got) = (k + n) - headEnd
      /\ wire' = From(sent, k + n + 1) /\ wire' \in Seq(Bytes)
    <2> DEFINE m == headEnd + 1
    <2>1. m \in 1..Len(sent) + 1 /\ k \in m - 1..Len(sent)
        <3>1. headEnd \in Nat /\ Len(sent) \in Nat
            BY <1>3
        <3>. QED  BY <1>4, <3>1
    <2>2. /\ n \in Nat /\ n # 0 /\ k + n \in m - 1..Len(sent)
          /\ SubSeq(sent, m, k) \o SubSeq(wire, 1, n) = SubSeq(sent, m, k + n)
          /\ SubSeq(sent, m, k + n) \in Seq(Bytes)
          /\ Len(SubSeq(sent, m, k + n)) = (k + n) - m + 1
          /\ wire' = From(sent, k + n + 1) /\ wire' \in Seq(Bytes)
        <3> HIDE DEF m
        <3>. QED  BY <1>2, <1>3, <2>1, ReadOfSent
    <2>3. (k + n) - m + 1 = (k + n) - headEnd /\ m - 1 = headEnd /\ k + n \in 0..Len(sent)
        <3>1. headEnd \in Nat /\ Len(sent) \in Nat /\ n \in Nat /\ k + n \in m - 1..Len(sent)
            BY <1>3, <2>2
        <3>. QED  BY <1>4, <3>1
    <2>4. got = SubSeq(sent, m, k) \o SubSeq(wire, 1, n)
        BY <1>3
    <2> HIDE DEF got
    <2>. QED  BY <2>2, <2>3, <2>4
<1>6. headEnd + Len(got) = k + n /\ k + n <= MaxMessage
    <2>1. headEnd \in Nat /\ Len(sent) \in Nat /\ MaxMessage \in Nat
        BY <1>3
    <2>2. n \in Nat /\ k + n \in 0..Len(sent) /\ Len(got) = (k + n) - headEnd
        BY <1>5
    <2> HIDE DEF got
    <2>. QED  BY <1>4, <2>1, <2>2
<1>7. body' = got /\ UNCHANGED <<stage, outcome, buf, searchFrom, headEnd>>
    <2>1. ~(headEnd + Len(got) > MaxMessage)
        <3>1. MaxMessage \in Nat /\ k \in Nat /\ n \in Nat
            BY <1>3, <1>4, <1>5
        <3> HIDE DEF got
        <3>. QED  BY <1>6, <3>1
    <2>. QED  BY <1>2, <2>1
<1>8. UNCHANGED <<eof, requests, sent, answers, answer, stage, buf, searchFrom, headEnd>>
    BY <1>1, <1>7 DEF client, outcome
<1> HIDE DEF got
<1>9. headEnd' + Len(body') = k + n
    BY <1>6, <1>7, <1>8
<1>10. TypeOK'
    BY <1>1, <1>3, <1>5, <1>7, <1>8 DEF TypeOK
<1>11. HeadAccepted'
    <2>1. Head1' = Head1
        BY <1>8 DEF Head1
    <2>2. headEnd' = HeadEnd(sent') /\ headEnd' # 0 /\ headEnd' <= MaxMessage
        BY <1>3, <1>8
    <2>3. Head1' = SubSeq(sent', 1, headEnd') /\ WellFormed(Head1')
        BY <1>3, <1>8, <2>1
    <2>4. ContentLength(Head1') > 0 => headEnd' + ContentLength(Head1') <= MaxMessage
        BY <1>3, <1>8, <2>1 DEF C
    <2>5. body' = SubSeq(sent', headEnd' + 1, headEnd' + Len(body'))
        BY <1>5, <1>7, <1>8, <1>9
    <2>. QED  BY <2>2, <2>3, <2>4, <2>5 DEF HeadAccepted
<1>12. ReadingBody'
    <2>1. Pending'
        BY <1>3, <1>8 DEF Pending
    <2>2. ReadUpTo(sent, headEnd + Len(body))'
        BY <1>5, <1>8, <1>9 DEF ReadUpTo
    <2>. QED  BY <1>1, <1>8, <1>11, <2>1, <2>2 DEF ReadingBody
<1>13. ChunksDoNotMatter'
    BY <1>8 DEF CInv, ChunksDoNotMatter
<1>14. Greeting' /\ Upgrading' /\ (stage = "head" => Idle \/ ReadingHead)'
    BY <1>1, <1>8 DEF Greeting, Upgrading
<1>. QED  BY <1>10, <1>12, <1>13, <1>14 DEF CInv

LEMMA RequestReadKeeps ==
    ASSUME CInv, RequestRead
    PROVE  CInv'
<1>1. /\ stage = "body" /\ stage' = "reply" /\ (Missing <= 0 \/ wire = <<>>)
      /\ body' = IF Missing < 0 THEN SubSeq(body, 1, ContentLength(Head1)) ELSE body
      /\ UNCHANGED <<wire, eof, requests, sent, answers, answer, buf, searchFrom, headEnd>>
    BY DEF RequestRead, client, outcome
<1>2. /\ TypeOK /\ ContentLength(Head1) \in Nat /\ Len(body) \in Nat /\ headEnd \in Nat /\ Len(sent) \in Nat
      /\ Len(sent) <= headEnd + ContentLength(Head1) /\ headEnd + Len(body) \in 0..Len(sent)
      /\ Len(wire) = Len(sent) - (headEnd + Len(body))
    BY <1>1, InBody
<1>3. body' = body
    <2>1. ~(Missing < 0)
        BY <1>2 DEF Missing
    <2>. QED  BY <1>1, <2>1
<1>4. wire' = <<>>
    <2>1. Missing <= 0 => Len(wire) = 0
        BY <1>2 DEF Missing
    <2>2. wire \in Seq(Bytes)
        BY <1>2 DEF TypeOK
    <2>. QED  BY <1>1, <2>1, <2>2, EmptySeq
<1>5. TypeOK'
    BY <1>1, <1>2, <1>3 DEF TypeOK
<1>6. ReadingBody'
    BY <1>1, <1>3, <1>4 DEF CInv, ReadingBody, Pending, HeadAccepted, ReadUpTo, Head1
<1>7. ChunksDoNotMatter'
    BY <1>1 DEF CInv, ChunksDoNotMatter
<1>8. Greeting' /\ Upgrading' /\ (stage = "head" => Idle \/ ReadingHead)'
    BY <1>1 DEF Greeting, Upgrading
<1>. QED  BY <1>5, <1>6, <1>7, <1>8 DEF CInv

LEMMA ReplyKeeps ==
    ASSUME CInv, Reply
    PROVE  CInv'
<1>1. /\ stage = "reply" /\ stage' \in {"head", "closed"} /\ Reset
      /\ answers' = answers + 1 /\ answer' = Ok(body)
      /\ UNCHANGED <<wire, eof, requests, sent>>
    BY DEF Reply, Answer, client
<1> DEFINE C == ContentLength(Head1)
<1>2. /\ TypeOK /\ requests = answers + 1
      /\ sent \in Seq(Bytes) /\ Len(sent) \in Nat /\ MaxMessage \in Nat
      /\ headEnd = HeadEnd(sent) /\ headEnd \in Nat /\ headEnd # 0 /\ headEnd <= MaxMessage
      /\ Head1 = SubSeq(sent, 1, headEnd) /\ WellFormed(Head1)
      /\ C \in Nat /\ (C > 0 => headEnd + C <= MaxMessage)
      /\ body = SubSeq(sent, headEnd + 1, headEnd + Len(body))
      /\ Len(body) \in Nat /\ headEnd + Len(body) \in 0..Len(sent)
      /\ Len(wire) = Len(sent) - (headEnd + Len(body))
    BY <1>1, InBody
<1>3. wire = <<>>
    BY <1>1 DEF CInv, ReadingBody
<1>4. headEnd + Len(body) = Len(sent)
    <2> DEFINE k == headEnd + Len(body)
    <2>1. Len(wire) = 0
        BY <1>3
    <2>2. k \in 0..Len(sent) /\ Len(wire) = Len(sent) - k /\ Len(sent) \in Nat
        BY <1>2
    <2>3. k = Len(sent)
        <3> HIDE DEF k
        <3>. QED  BY <2>1, <2>2
    <2>. QED  BY <2>3
<1>5. body = From(sent, headEnd + 1)
    BY <1>2, <1>4 DEF From
<1>6. Deserved(sent) = {Ok(body)}
    <2>1. ~(HeadEnd(sent) = 0 \/ HeadEnd(sent) > MaxMessage)
        BY <1>2
    <2>2. ~(ContentLength(SubSeq(sent, 1, HeadEnd(sent))) > 0
            /\ HeadEnd(sent) + ContentLength(SubSeq(sent, 1, HeadEnd(sent))) > MaxMessage)
        <3>1. C \in Nat /\ headEnd \in Nat /\ MaxMessage \in Nat /\ (C > 0 => headEnd + C <= MaxMessage)
            BY <1>2
        <3>2. C = ContentLength(SubSeq(sent, 1, HeadEnd(sent))) /\ headEnd = HeadEnd(sent)
            BY <1>2
        <3> HIDE DEF C
        <3>3. ~(C > 0 /\ headEnd + C > MaxMessage)
            BY <3>1
        <3>. QED  BY <3>2, <3>3
    <2>3. WellFormed(SubSeq(sent, 1, HeadEnd(sent)))
        BY <1>2
    <2>. QED  BY <1>2, <1>5, <2>1, <2>2, <2>3 DEF Deserved
<1>7. requests \in Nat /\ answers \in Nat
    BY <1>2 DEF TypeOK
<1>8. answers' = requests'
    BY <1>1, <1>2
<1>9. ChunksDoNotMatter'
    BY <1>1, <1>6, <1>8 DEF ChunksDoNotMatter
<1>10. TypeOK'
    <2>1. answer' \in [code : Codes \cup {"none"}, body : Seq(Bytes)]
        BY <1>1, <1>2 DEF TypeOK, Ok, Codes
    <2>2. answers' \in 0..requests' + 1
        BY <1>1, <1>2, <1>7
    <2>3. <<>> \in Seq(Bytes) /\ Len(<<>>) = 0
        OBVIOUS
    <2>. QED  BY <1>1, <1>2, <2>1, <2>2, <2>3 DEF TypeOK, Reset
<1>11. Idle'
    BY <1>1, <1>3, <1>8 DEF Idle, Fresh, Reset
<1>12. Greeting' /\ Upgrading' /\ ReadingBody'
    BY <1>1 DEF Greeting, Upgrading, ReadingBody
<1>. QED  BY <1>9, <1>10, <1>11, <1>12 DEF CInv

LEMMA EndOfStreamKeeps ==
    ASSUME CInv, EndOfStream
    PROVE  CInv'
<1>1. wire = <<>> /\ UNCHANGED <<wire, client>> /\ wire' \in Seq(Bytes)
    BY DEF EndOfStream, CInv, TypeOK
<1>2. CASE Close /\ UNCHANGED outcome
    BY <1>1, <1>2, CloseKeeps
<1>3. CASE stage = "head" /\ Fail("BadRequest")
    <2>1. CASE Idle
        BY <1>1, <1>3, <2>1, FailKeeps DEF Idle, Codes
    <2>2. CASE ReadingHead
        <3> DEFINE k == Len(buf)
        <3>1. /\ Honest(sent) /\ requests = answers + 1
              /\ k \in 0..Len(sent) /\ wire = From(sent, k + 1)
              /\ buf = SubSeq(sent, 1, k) /\ HeadEnd(buf) = 0 /\ searchFrom = k
            BY <2>2 DEF ReadingHead, Pending, ReadUpTo
        <3>2. sent \in Seq(Bytes) /\ Len(sent) \in Nat
            BY <3>1, SentIsTyped
        <3>3. k = Len(sent)
            <4>1. Len(wire) = Len(sent) - k /\ Len(wire) = 0
                BY <1>1, <3>1, <3>2, RestOf
            <4>2. k \in 0..Len(sent)
                BY <3>1
            <4> HIDE DEF k
            <4>. QED  BY <3>2, <4>1, <4>2
        <3>4. buf = sent
            BY <3>1, <3>2, <3>3, SubSeqFull
        <3>5. ~(Len(sent) > MaxMessage)
            BY <3>1, <3>2, <3>3, ConnectionAssumption DEF CInv, TypeOK
        <3>6. Error("BadRequest") \in Deserved(sent)
            BY <3>1, <3>4, <3>5 DEF Deserved
        <3>. QED  BY <1>1, <1>3, <3>1, <3>6, FailKeeps DEF Codes
    <2>. QED  BY <1>3, <2>1, <2>2 DEF CInv
<1>. QED  BY <1>2, <1>3 DEF EndOfStream

LEMMA OtherStepsKeep ==
    ASSUME CInv, HangUp \/ UpgradeToTls \/ ReadError \/ Timeout \/ UNCHANGED vars
    PROVE  CInv'
<1>1. wire \in Seq(Bytes) /\ TypeOK
    BY DEF CInv, TypeOK
<1>2. CASE HangUp \/ UNCHANGED vars
    <2>1. /\ eof' \in BOOLEAN
          /\ UNCHANGED <<stage, wire, requests, sent, answers, answer, buf, searchFrom, headEnd, body>>
        BY <1>1, <1>2 DEF HangUp, vars, outcome, reader, TypeOK
    <2>2. TypeOK'
        BY <1>1, <2>1 DEF TypeOK
    <2>3. ChunksDoNotMatter'
        BY <2>1 DEF CInv, ChunksDoNotMatter
    <2>4. Greeting' /\ Upgrading'
        BY <2>1 DEF CInv, Greeting, Upgrading, Unasked, Fresh, ReadUpTo
    <2>5. (stage = "head" => Idle \/ ReadingHead)'
        BY <2>1 DEF CInv, Idle, ReadingHead, Pending, Fresh, ReadUpTo
    <2>6. ReadingBody'
        BY <2>1 DEF CInv, ReadingBody, Pending, HeadAccepted, ReadUpTo, Head1
    <2>. QED  BY <2>2, <2>3, <2>4, <2>5, <2>6 DEF CInv
<1>3. CASE UpgradeToTls
    <2>1. /\ stage = "tls" /\ stage' \in {"head", "closed"}
          /\ UNCHANGED <<wire, eof, requests, sent, answers, answer, buf, searchFrom, headEnd, body>>
        BY <1>3 DEF UpgradeToTls, client, outcome, reader
    <2>2. Unasked /\ Fresh /\ wire = <<>>
        BY <2>1 DEF CInv, Upgrading
    <2>3. TypeOK'
        BY <1>1, <2>1, <2>2 DEF TypeOK, Fresh
    <2>4. ChunksDoNotMatter'
        BY <2>1 DEF CInv, ChunksDoNotMatter
    <2>5. Idle'
        BY <2>1, <2>2 DEF Idle, Unasked, Fresh
    <2>6. Greeting' /\ Upgrading' /\ ReadingBody'
        BY <2>1 DEF Greeting, Upgrading, ReadingBody
    <2>. QED  BY <2>3, <2>4, <2>5, <2>6 DEF CInv
<1>4. CASE ReadError
    <2>1. UNCHANGED <<wire, client>> /\ wire' \in Seq(Bytes)
        BY <1>1, <1>4 DEF ReadError
    <2>2. CASE Close /\ UNCHANGED outcome
        BY <2>1, <2>2, CloseKeeps
    <2>3. CASE stage \in {"head", "body"} /\ Fail("InternalServerError")
        <3>1. requests = answers \/ requests = answers + 1
            BY <2>3 DEF CInv, Idle, ReadingHead, ReadingBody, Pending
        <3>. QED  BY <2>1, <2>3, <3>1, FailKeeps DEF Codes
    <2>. QED  BY <1>4, <2>2, <2>3 DEF ReadError
<1>5. CASE Timeout
    BY <1>1, <1>5, CloseKeeps DEF Timeout
<1>. QED  BY <1>2, <1>3, <1>4, <1>5

\* Whatever the chunks, the stages follow the bytes that were sent.
LEMMA ReadingFollowsWhatWasSent == Spec => []CInv
<1>1. Init => CInv
    <2> SUFFICES ASSUME Init
                 PROVE  CInv
        OBVIOUS
    <2>1. wire \in Seq(Bytes) /\ Len(wire) \in Nat
        BY ClientAssumption DEF Init
    <2>2. <<>> \in Seq(Bytes) /\ Len(<<>>) = 0 /\ MaxMessage \in Nat /\ MaxRequests \in Nat
        BY ConnectionAssumption
    <2>3. TypeOK
        <3>1. answer \in [code : Codes \cup {"none"}, body : Seq(Bytes)]
            BY <2>2 DEF Init, Error
        <3>2. requests \in 0..MaxRequests /\ answers \in 0..requests + 1 /\ searchFrom \in 0..MaxMessage
            BY <2>2 DEF Init
        <3>3. buf \in Seq(Bytes) /\ body \in Seq(Bytes) /\ sent \in Seq(Bytes) /\ headEnd \in 0..Len(buf)
            BY <2>2 DEF Init
        <3>. QED  BY <2>1, <3>1, <3>2, <3>3 DEF Init, TypeOK
    <2>4. answer.code = "none"
        BY DEF Init, Error
    <2>5. wire = From(wire, 1) /\ SubSeq(wire, 1, 0) = <<>>
        BY <2>1, SubSeqFull, SubSeqEmpty DEF From
    <2>6. HeadEnd(<<>>) = 0
        BY DEF HeadEnd
    <2>7. Greeting
        <3>1. Unasked
            BY <2>4 DEF Init, Unasked
        <3>2. ReadUpTo(wire, 0)
            <4>1. 0 + 1 = 1 /\ 0 \in 0..Len(wire)
                BY <2>1
            <4>. QED  BY <2>5, <4>1 DEF ReadUpTo
        <3>3. buf = <<>> /\ Len(buf) = 0
            BY <2>2 DEF Init
        <3>4. wire \in Hellos /\ searchFrom = 0 /\ headEnd = 0 /\ body = <<>>
            BY DEF Init
        <3>. QED  BY <2>5, <2>6, <3>1, <3>2, <3>3, <3>4 DEF Greeting
    <2>8. ChunksDoNotMatter /\ Upgrading /\ (stage = "head" => Idle \/ ReadingHead) /\ ReadingBody
        BY <2>4 DEF Init, ChunksDoNotMatter, Upgrading, ReadingBody
    <2>. QED  BY <2>3, <2>7, <2>8 DEF CInv
<1>2. CInv /\ [Next]_vars => CInv'
    BY SendKeeps, HandshakeKeeps, ReadHeadKeeps, ReadBodyKeeps, RequestReadKeeps, ReplyKeeps,
       EndOfStreamKeeps, OtherStepsKeep DEF Next, ServerStep
<1>. QED  BY <1>1, <1>2, PTL DEF Spec

\* Every variable keeps its type: in particular the resumed scan starts inside
\* the limit, and the head found lies inside buf (read_request).
THEOREM ConnectionTypes == Spec => []TypeOK
<1>1. CInv => TypeOK
    BY DEF CInv
<1>. QED  BY <1>1, ReadingFollowsWhatWasSent, PTL

\* However the bytes of a request are cut into reads, for any limit and any
\* number of requests, read_request and the loop around it give each the outcome
\* that a parse of all its bytes gives.
THEOREM ChunksNeverMatter == Spec => []ChunksDoNotMatter
<1>1. CInv => ChunksDoNotMatter
    BY DEF CInv
<1>. QED  BY <1>1, ReadingFollowsWhatWasSent, PTL

\* Whenever handle_conn waits for the next request of a connection it keeps
\* alive, nothing of the one before is left, read or unread.
THEOREM NothingIsLeftOver == Spec => []NothingLeftOver
<1>1. CInv => NothingLeftOver
    <2>1. CInv => requests \in Nat /\ answers \in Nat
        BY DEF CInv, TypeOK
    <2>. QED  BY <2>1 DEF CInv, NothingLeftOver, Idle, ReadingHead, Pending, Fresh
<1>. QED  BY <1>1, ReadingFollowsWhatWasSent, PTL

=============================================================================
