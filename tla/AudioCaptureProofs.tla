------------------------- MODULE AudioCaptureProofs -------------------------
(***************************************************************************)
(* Proofs about the samples of a capture stream: its buffers hold what is  *)
(* written to them, no frame is repeated or left out, each path gives the  *)
(* frames in the order they were captured, and no turn of a call is vain.  *)
(***************************************************************************)
EXTENDS AudioCapture, SequenceTheorems, TLAPS

(***************************************************************************)
(* Sequences of frames, where a frame is a set of numbers                  *)
(***************************************************************************)

\* the numbers in the frames of s
Numbers(s) == UNION Elements(s)

\* every number of A is less than every number of B
Less(A, B) == \A a \in A, b \in B : a < b

Sorted(s) == \A j, k \in DOMAIN s : j < k => Less(s[j], s[k])
Apart(s)  == \A j, k \in DOMAIN s : j # k => s[j] \intersect s[k] = {}

LEMMA NumbersIn ==
    ASSUME NEW s
    PROVE  \A x : x \in Numbers(s) <=> \E k \in DOMAIN s : x \in s[k]
BY DEF Numbers, Elements

LEMMA NumbersEmpty == Numbers(<< >>) = {}
BY DEF Numbers, Elements

LEMMA NumbersConcat ==
    ASSUME NEW S, NEW s \in Seq(S), NEW t \in Seq(S)
    PROVE  Numbers(s \o t) = Numbers(s) \union Numbers(t)
<1> DEFINE u == s \o t
<1>1. /\ u \in Seq(S) /\ Len(u) = Len(s) + Len(t)
      /\ \A i \in 1..Len(s) + Len(t) : u[i] = IF i <= Len(s) THEN s[i] ELSE t[i - Len(s)]
      BY ConcatProperties
<1>2. /\ DOMAIN u = 1..Len(u) /\ DOMAIN s = 1..Len(s) /\ DOMAIN t = 1..Len(t)
      /\ Len(s) \in Nat /\ Len(t) \in Nat
      BY <1>1, LenProperties
<1> HIDE DEF u
<1>3. ASSUME NEW x \in Numbers(u) PROVE x \in Numbers(s) \union Numbers(t)
  <2>1. PICK k \in DOMAIN u : x \in u[k]
        BY <1>3, NumbersIn
  <2>2. CASE k <= Len(s)
        BY <1>1, <1>2, <2>1, <2>2, NumbersIn
  <2>3. CASE k > Len(s)
    <3>1. k - Len(s) \in DOMAIN t /\ x \in t[k - Len(s)]
          BY <1>1, <1>2, <2>1, <2>3
    <3> QED BY <3>1, NumbersIn
  <2> QED BY <1>2, <2>2, <2>3
<1>4. ASSUME NEW x \in Numbers(s) PROVE x \in Numbers(u)
  <2>1. PICK k \in DOMAIN s : x \in s[k]
        BY <1>4, NumbersIn
  <2>2. k \in DOMAIN u /\ x \in u[k]
        BY <1>1, <1>2, <2>1
  <2> QED BY <2>2, NumbersIn
<1>5. ASSUME NEW x \in Numbers(t) PROVE x \in Numbers(u)
  <2>1. PICK k \in DOMAIN t : x \in t[k]
        BY <1>5, NumbersIn
  <2>2. k + Len(s) \in DOMAIN u /\ u[k + Len(s)] = t[k]
        BY <1>1, <1>2, <2>1
  <2> QED BY <2>1, <2>2, NumbersIn
<1> QED BY <1>3, <1>4, <1>5 DEF u

LEMMA SortedConcat ==
    ASSUME NEW S, NEW s \in Seq(S), NEW t \in Seq(S)
    PROVE  Sorted(s \o t) <=> Sorted(s) /\ Sorted(t) /\ Less(Numbers(s), Numbers(t))
<1> DEFINE u == s \o t
<1>1. /\ u \in Seq(S) /\ Len(u) = Len(s) + Len(t)
      /\ \A i \in 1..Len(s) + Len(t) : u[i] = IF i <= Len(s) THEN s[i] ELSE t[i - Len(s)]
      BY ConcatProperties
<1>2. /\ DOMAIN u = 1..Len(u) /\ DOMAIN s = 1..Len(s) /\ DOMAIN t = 1..Len(t)
      /\ Len(s) \in Nat /\ Len(t) \in Nat
      BY <1>1, LenProperties
<1>3. /\ \A k \in DOMAIN s : k \in DOMAIN u /\ u[k] = s[k]
      /\ \A k \in DOMAIN t : k + Len(s) \in DOMAIN u /\ u[k + Len(s)] = t[k]
      BY <1>1, <1>2
<1> HIDE DEF u
<1>4. ASSUME Sorted(u) PROVE Sorted(s) /\ Sorted(t) /\ Less(Numbers(s), Numbers(t))
  <2>1. Sorted(s)
        BY <1>2, <1>3, <1>4 DEF Sorted
  <2>2. ASSUME NEW j \in DOMAIN t, NEW k \in DOMAIN t, j < k PROVE Less(t[j], t[k])
    <3>1. j + Len(s) < k + Len(s)
          BY <1>2, <2>2
    <3> QED BY <1>3, <1>4, <2>2, <3>1 DEF Sorted
  <2>3. ASSUME NEW a \in Numbers(s), NEW b \in Numbers(t) PROVE a < b
    <3>1. PICK j \in DOMAIN s : a \in s[j]
          BY <2>3, NumbersIn
    <3>2. PICK k \in DOMAIN t : b \in t[k]
          BY <2>3, NumbersIn
    <3>3. j < k + Len(s)
          BY <1>2
    <3>4. Less(s[j], t[k])
          BY <1>3, <1>4, <3>3 DEF Sorted
    <3> QED BY <3>1, <3>2, <3>4 DEF Less
  <2> QED BY <2>1, <2>2, <2>3 DEF Sorted, Less
<1>5. ASSUME Sorted(s), Sorted(t), Less(Numbers(s), Numbers(t)),
             NEW j \in DOMAIN u, NEW k \in DOMAIN u, j < k
      PROVE  Less(u[j], u[k])
  <2>1. CASE k <= Len(s)
        BY <1>1, <1>2, <1>5, <2>1 DEF Sorted
  <2>2. CASE j > Len(s)
    <3>1. /\ j - Len(s) \in DOMAIN t /\ k - Len(s) \in DOMAIN t
          /\ j - Len(s) < k - Len(s)
          /\ u[j] = t[j - Len(s)] /\ u[k] = t[k - Len(s)]
          BY <1>1, <1>2, <1>5, <2>2
    <3> QED BY <1>5, <3>1 DEF Sorted
  <2>3. CASE j <= Len(s) /\ k > Len(s)
    <3>1. /\ j \in DOMAIN s /\ k - Len(s) \in DOMAIN t
          /\ u[j] = s[j] /\ u[k] = t[k - Len(s)]
          BY <1>1, <1>2, <2>3
    <3>2. u[j] \subseteq Numbers(s) /\ u[k] \subseteq Numbers(t)
          BY <3>1, NumbersIn
    <3> QED BY <1>5, <3>2 DEF Less
  <2> QED BY <1>2, <2>1, <2>2, <2>3
<1> QED BY <1>4, <1>5 DEF u, Sorted

LEMMA ApartConcat ==
    ASSUME NEW S, NEW s \in Seq(S), NEW t \in Seq(S)
    PROVE  Apart(s \o t) <=>
               Apart(s) /\ Apart(t) /\ Numbers(s) \intersect Numbers(t) = {}
<1> DEFINE u == s \o t
<1>1. /\ u \in Seq(S) /\ Len(u) = Len(s) + Len(t)
      /\ \A i \in 1..Len(s) + Len(t) : u[i] = IF i <= Len(s) THEN s[i] ELSE t[i - Len(s)]
      BY ConcatProperties
<1>2. /\ DOMAIN u = 1..Len(u) /\ DOMAIN s = 1..Len(s) /\ DOMAIN t = 1..Len(t)
      /\ Len(s) \in Nat /\ Len(t) \in Nat
      BY <1>1, LenProperties
<1>3. /\ \A k \in DOMAIN s : k \in DOMAIN u /\ u[k] = s[k]
      /\ \A k \in DOMAIN t : k + Len(s) \in DOMAIN u /\ u[k + Len(s)] = t[k]
      BY <1>1, <1>2
<1> HIDE DEF u
<1>4. ASSUME Apart(u)
      PROVE  Apart(s) /\ Apart(t) /\ Numbers(s) \intersect Numbers(t) = {}
  <2>1. Apart(s)
        BY <1>2, <1>3, <1>4 DEF Apart
  <2>2. ASSUME NEW j \in DOMAIN t, NEW k \in DOMAIN t, j # k
        PROVE  t[j] \intersect t[k] = {}
    <3>1. j + Len(s) # k + Len(s)
          BY <1>2, <2>2
    <3>2. u[j + Len(s)] \intersect u[k + Len(s)] = {}
          BY <1>3, <1>4, <3>1 DEF Apart
    <3> QED BY <1>3, <3>2
  <2>3. ASSUME NEW x \in Numbers(s), x \in Numbers(t) PROVE FALSE
    <3>1. PICK j \in DOMAIN s : x \in s[j]
          BY <2>3, NumbersIn
    <3>2. PICK k \in DOMAIN t : x \in t[k]
          BY <2>3, NumbersIn
    <3>3. j # k + Len(s)
          BY <1>2
    <3>4. s[j] \intersect t[k] = {}
          BY <1>3, <1>4, <3>3 DEF Apart
    <3> QED BY <3>1, <3>2, <3>4
  <2> QED BY <2>1, <2>2, <2>3 DEF Apart
<1>5. ASSUME Apart(s), Apart(t), Numbers(s) \intersect Numbers(t) = {},
             NEW j \in DOMAIN u, NEW k \in DOMAIN u, j < k
      PROVE  u[j] \intersect u[k] = {}
  <2>1. CASE k <= Len(s)
        BY <1>1, <1>2, <1>5, <2>1 DEF Apart
  <2>2. CASE j > Len(s)
    <3>1. /\ j - Len(s) \in DOMAIN t /\ k - Len(s) \in DOMAIN t
          /\ j - Len(s) # k - Len(s)
          /\ u[j] = t[j - Len(s)] /\ u[k] = t[k - Len(s)]
          BY <1>1, <1>2, <1>5, <2>2
    <3> QED BY <1>5, <3>1 DEF Apart
  <2>3. CASE j <= Len(s) /\ k > Len(s)
    <3>1. /\ j \in DOMAIN s /\ k - Len(s) \in DOMAIN t
          /\ u[j] = s[j] /\ u[k] = t[k - Len(s)]
          BY <1>1, <1>2, <2>3
    <3>2. u[j] \subseteq Numbers(s) /\ u[k] \subseteq Numbers(t)
          BY <3>1, NumbersIn
    <3> QED BY <1>5, <3>2
  <2> QED BY <1>2, <2>1, <2>2, <2>3
<1>6. ASSUME Apart(s), Apart(t), Numbers(s) \intersect Numbers(t) = {}
      PROVE  Apart(u)
  <2> SUFFICES ASSUME NEW j \in DOMAIN u, NEW k \in DOMAIN u, j # k
               PROVE  u[j] \intersect u[k] = {}
      BY DEF Apart
  <2>1. CASE j < k
        BY <1>5, <1>6, <2>1
  <2>2. CASE k < j
        BY <1>5, <1>6, <2>2
  <2> QED BY <1>2, <2>1, <2>2
<1> QED BY <1>4, <1>6 DEF u

-----------------------------------------------------------------------------
(* The operators of the model *)

LEMMA FirstDrop ==
    ASSUME NEW S, NEW s \in Seq(S), NEW n \in 0..Len(s)
    PROVE  /\ First(s, n) \in Seq(S) /\ Len(First(s, n)) = n
           /\ \A k \in 1..n : First(s, n)[k] = s[k]
           /\ Drop(s, n) \in Seq(S) /\ Len(Drop(s, n)) = Len(s) - n
           /\ First(s, n) \o Drop(s, n) = s
<1>1. Len(s) \in Nat /\ \A k \in 1..Len(s) : s[k] \in S
      BY LenProperties, ElementOfSeq
<1>2. /\ SubSeq(s, 1, n) \in Seq(S)
      /\ Len(SubSeq(s, 1, n)) = IF 1 <= n THEN n - 1 + 1 ELSE 0
      /\ \A k \in 1..n - 1 + 1 : SubSeq(s, 1, n)[k] = s[1 + k - 1]
      BY <1>1, SubSeqProperties, 1 \in Int, n \in Int, \A k \in 1..n : s[k] \in S
<1>3. /\ SubSeq(s, n + 1, Len(s)) \in Seq(S)
      /\ Len(SubSeq(s, n + 1, Len(s))) = IF n + 1 <= Len(s) THEN Len(s) - (n + 1) + 1 ELSE 0
  <2>1. n + 1 \in Int /\ Len(s) \in Int /\ \A k \in n + 1..Len(s) : s[k] \in S
        BY <1>1
  <2> QED BY <2>1, SubSeqProperties
<1>4. SubSeq(s, 1, n) \o SubSeq(s, n + 1, Len(s)) = SubSeq(s, 1, Len(s))
  <2>1. 1 \in 1..Len(s) + 1 /\ n \in (1 - 1)..Len(s) /\ Len(s) \in n..Len(s)
        BY <1>1
  <2> QED BY <2>1, ConcatAdjacentSubSeq
<1>5. SubSeq(s, 1, Len(s)) = s
      BY SubSeqFull
<1>6. Len(SubSeq(s, 1, n)) = n /\ Len(SubSeq(s, n + 1, Len(s))) = Len(s) - n
      BY <1>1, <1>2, <1>3
<1>7. ASSUME NEW k \in 1..n PROVE SubSeq(s, 1, n)[k] = s[k]
  <2>1. k \in 1..n - 1 + 1 /\ 1 + k - 1 = k
        OBVIOUS
  <2> QED BY <1>2, <2>1
<1> QED BY <1>2, <1>3, <1>4, <1>5, <1>6, <1>7 DEF First, Drop

LEMMA SinglesFacts ==
    ASSUME NEW S, NEW s \in Seq(S)
    PROVE  /\ Singles(s) \in Seq(SUBSET S) /\ Len(Singles(s)) = Len(s)
           /\ \A k \in 1..Len(s) : Singles(s)[k] = {s[k]}
           /\ Numbers(Singles(s)) = Elements(s)
<1>1. DOMAIN s = 1..Len(s) /\ Len(s) \in Nat /\ \A k \in 1..Len(s) : s[k] \in S
      BY LenProperties, ElementOfSeq
<1>2. Singles(s) \in [1..Len(s) -> SUBSET S]
      BY <1>1 DEF Singles
<1>3. Singles(s) \in Seq(SUBSET S)
      BY <1>1, <1>2, SeqDef
<1>4. DOMAIN Singles(s) = 1..Len(Singles(s)) /\ Len(Singles(s)) \in Nat
      BY <1>3, LenProperties
<1>5. Len(Singles(s)) = Len(s)
      BY <1>1, <1>2, <1>4
<1>6. Numbers(Singles(s)) = Elements(s)
      BY <1>1 DEF Numbers, Elements, Singles
<1> QED BY <1>1, <1>3, <1>5, <1>6 DEF Singles

LEMMA SinglesConcat ==
    ASSUME NEW S, NEW s \in Seq(S), NEW t \in Seq(S)
    PROVE  Singles(s \o t) = Singles(s) \o Singles(t)
<1> DEFINE T == SUBSET S
           u == s \o t
           a == Singles(s)
           b == Singles(t)
           c == Singles(u)
           v == a \o b
<1>1. /\ u \in Seq(S) /\ Len(u) = Len(s) + Len(t)
      /\ \A i \in 1..Len(s) + Len(t) : u[i] = IF i <= Len(s) THEN s[i] ELSE t[i - Len(s)]
      BY ConcatProperties
<1>2. a \in Seq(T) /\ Len(a) = Len(s) /\ \A k \in 1..Len(s) : a[k] = {s[k]}
      BY SinglesFacts
<1>3. b \in Seq(T) /\ Len(b) = Len(t) /\ \A k \in 1..Len(t) : b[k] = {t[k]}
      BY SinglesFacts
<1>4. c \in Seq(T) /\ Len(c) = Len(u) /\ \A k \in 1..Len(u) : c[k] = {u[k]}
      BY <1>1, SinglesFacts
<1>5. Len(s) \in Nat /\ Len(t) \in Nat
      BY LenProperties
<1> HIDE DEF T, u, a, b, c
<1>6. /\ v \in Seq(T) /\ Len(v) = Len(a) + Len(b)
      /\ \A i \in 1..Len(a) + Len(b) : v[i] = IF i <= Len(a) THEN a[i] ELSE b[i - Len(a)]
  <2>1. a \in Seq(T) /\ b \in Seq(T)
        BY <1>2, <1>3
  <2> QED BY ONLY <2>1, ConcatProperties, Zenon
<1> HIDE DEF v
<1>7. ASSUME NEW i \in 1..Len(c) PROVE c[i] = v[i]
  <2>1. CASE i <= Len(s)
    <3>1. i \in 1..Len(s) /\ i \in 1..Len(a) + Len(b) /\ i \in 1..Len(u)
          BY <1>1, <1>2, <1>3, <1>4, <1>5, <2>1
    <3>2. u[i] = s[i] /\ v[i] = a[i]
          BY <1>1, <1>2, <1>3, <1>6, <2>1, <3>1
    <3> QED BY <1>2, <1>4, <3>1, <3>2
  <2>2. CASE i > Len(s)
    <3>1. /\ i - Len(s) \in 1..Len(t) /\ i \in 1..Len(a) + Len(b) /\ i \in 1..Len(u)
          /\ ~ (i <= Len(s))
          BY <1>1, <1>2, <1>3, <1>4, <1>5, <2>2
    <3>2. u[i] = t[i - Len(s)] /\ v[i] = b[i - Len(s)]
          BY <1>1, <1>2, <1>3, <1>6, <3>1
    <3> QED BY <1>3, <1>4, <3>1, <3>2
  <2> QED BY <1>1, <1>4, <1>5, <2>1, <2>2
<1>8. Len(c) = Len(v)
      BY <1>1, <1>2, <1>3, <1>4, <1>6
<1>9. c = v
      BY <1>4, <1>6, <1>7, <1>8, SeqEqual
<1> QED BY <1>9 DEF u, a, b, c, v

LEMMA Times ==
    ASSUME NEW r \in Nat, NEW a \in Nat, NEW b \in Nat
    PROVE  /\ r * a \in Nat
           /\ a <= b => r * a <= r * b
           /\ r * (a + 1) = r * a + r
OBVIOUS

LEMMA Quotient ==
    ASSUME NEW r \in Nat \ {0}, NEW n \in Nat
    PROVE  /\ n \div r \in Nat
           /\ r * (n \div r) <= n
           /\ n < r * (n \div r) + r
OBVIOUS

\* a whole number of groups, and no more than were asked for
LEMMA QuotientBound ==
    ASSUME NEW r \in Nat \ {0}, NEW n \in Nat, NEW w \in Nat, n <= r * w
    PROVE  n \div r <= w
<1> DEFINE q == n \div r
<1>1. q \in Nat /\ r * q <= n
      BY Quotient
<1> HIDE DEF q
<1>2. ASSUME q >= w + 1 PROVE FALSE
  <2>1. r * (w + 1) <= r * q
        BY <1>1, <1>2, Times
  <2>2. r * (w + 1) = r * w + r /\ r * w \in Nat /\ r * q \in Nat
        BY <1>1, Times
  <2> QED BY <1>1, <2>1, <2>2
<1> QED BY <1>1, <1>2 DEF q

LEMMA TakenFacts ==
    ASSUME NEW S, NEW b \in Seq(S), Len(b) = period_size,
           NEW left \in 0..period_size, NEW n \in 0..left
    PROVE  /\ Taken(b, left, n) \in Seq(S) /\ Len(Taken(b, left, n)) = n
           /\ SubSeq(b, Len(b) - (left - n) + 1, Len(b)) \in Seq(S)
           /\ SubSeq(b, Len(b) - left + 1, Len(b)) \in Seq(S)
           /\ Taken(b, left, n) \o SubSeq(b, Len(b) - (left - n) + 1, Len(b))
                = SubSeq(b, Len(b) - left + 1, Len(b))
<1> DEFINE p == period_size
<1>1. p \in Nat /\ \A k \in 1..p : b[k] \in S
      BY CaptureAssumption, ElementOfSeq
<1>2. ASSUME NEW l \in 1..p + 1, NEW h \in l - 1..p
      PROVE  SubSeq(b, l, h) \in Seq(S) /\ Len(SubSeq(b, l, h)) = h - l + 1
  <2>1. l \in Int /\ h \in Int /\ \A k \in l..h : b[k] \in S
        BY <1>1
  <2>2. /\ SubSeq(b, l, h) \in Seq(S)
        /\ Len(SubSeq(b, l, h)) = IF l <= h THEN h - l + 1 ELSE 0
        BY <2>1, SubSeqProperties
  <2> QED BY <1>1, <2>2
<1>3. /\ p - left + 1 \in 1..p + 1 /\ p - left + n \in (p - left + 1) - 1..p
      /\ p - (left - n) + 1 \in 1..p + 1 /\ p \in (p - (left - n) + 1) - 1..p
      /\ p \in (p - left + 1) - 1..p /\ p \in p - left + n..p
      /\ (p - left + n) - (p - left + 1) + 1 = n
      /\ p - (left - n) + 1 = p - left + n + 1
      BY <1>1
<1>4. SubSeq(b, p - left + 1, p - left + n) \o SubSeq(b, p - left + n + 1, p)
        = SubSeq(b, p - left + 1, p)
      BY <1>3, ConcatAdjacentSubSeq
<1>5. SubSeq(b, p - left + 1, p - left + n) \in Seq(S)
      /\ Len(SubSeq(b, p - left + 1, p - left + n)) = n
      BY <1>2, <1>3
<1>6. SubSeq(b, p - (left - n) + 1, p) \in Seq(S) /\ SubSeq(b, p - left + 1, p) \in Seq(S)
      BY <1>2, <1>3
<1> QED BY <1>3, <1>4, <1>5, <1>6 DEF Taken

\* the resampler leaves out nothing but the rest that does not make a frame
LEMMA ResampledFacts ==
    ASSUME NEW S, NEW g \in Seq(S), ratio \in Nat \ {0},
           NEW m, m = Len(g) \div ratio
    PROVE  /\ m \in Nat /\ ratio * m \in 0..Len(g) /\ Len(g) - ratio * m < ratio
           /\ Resampled(g) \in Seq(SUBSET S) /\ Len(Resampled(g)) = m
           /\ \A k \in 1..m :
                /\ Resampled(g)[k] = {g[j] : j \in (ratio * (k - 1) + 1)..(ratio * k)}
                /\ ratio * (k - 1) \in Nat /\ ratio * k \in Nat
                /\ ratio * k <= ratio * m
           /\ Numbers(Resampled(g)) = Elements(First(g, ratio * m))
<1> DEFINE f == First(g, ratio * m)
<1>1. /\ Len(g) \in Nat /\ m \in Nat /\ ratio * m \in Nat
      /\ ratio * m <= Len(g) /\ Len(g) < ratio * m + ratio
      BY LenProperties, Quotient, Times
<1>2. ASSUME NEW k \in 1..m
      PROVE  /\ ratio * (k - 1) \in Nat /\ ratio * k \in Nat
             /\ ratio * k <= ratio * m
             /\ ratio * k = ratio * (k - 1) + ratio
  <2>1. k - 1 \in Nat /\ k \in Nat /\ k <= m /\ k = (k - 1) + 1
        BY <1>1
  <2> QED BY <1>1, <2>1, Times
<1>3. ASSUME NEW k \in 1..m, NEW j \in (ratio * (k - 1) + 1)..(ratio * k)
      PROVE  j \in 1..ratio * m /\ j \in 1..Len(g)
  <2>1. /\ ratio * (k - 1) \in Nat /\ ratio * k \in Nat /\ ratio * k <= ratio * m
        /\ ratio * (k - 1) + 1 <= j /\ j <= ratio * k /\ j \in Int
        BY <1>2
  <2> QED BY ONLY <1>1, <2>1
<1>4. \A j \in 1..Len(g) : g[j] \in S
      BY ElementOfSeq
<1>5. Resampled(g) \in [1..m -> SUBSET S]
      BY <1>3, <1>4 DEF Resampled
<1>6. Resampled(g) \in Seq(SUBSET S) /\ Len(Resampled(g)) = m
  <2>1. Resampled(g) \in Seq(SUBSET S)
        BY <1>1, <1>5, SeqDef
  <2>2. DOMAIN Resampled(g) = 1..Len(Resampled(g)) /\ Len(Resampled(g)) \in Nat
        BY <2>1, LenProperties
  <2> QED BY <1>1, <1>5, <2>1, <2>2
<1>7. ASSUME NEW k \in 1..m
      PROVE  Resampled(g)[k] = {g[j] : j \in (ratio * (k - 1) + 1)..(ratio * k)}
      BY DEF Resampled
<1>8. /\ DOMAIN f = 1..ratio * m
      /\ \A j \in 1..ratio * m : f[j] = g[j]
  <2>1. ratio * m \in 0..Len(g)
        BY <1>1
  <2>2. f \in Seq(S) /\ Len(f) = ratio * m /\ \A j \in 1..ratio * m : f[j] = g[j]
        BY <2>1, FirstDrop
  <2> HIDE DEF f
  <2> QED BY <2>2, LenProperties
<1> HIDE DEF f
<1>9. ASSUME NEW x \in Numbers(Resampled(g)) PROVE x \in Elements(f)
  <2>1. DOMAIN Resampled(g) = 1..m
        BY <1>5
  <2>2. PICK k \in 1..m : x \in Resampled(g)[k]
        BY <1>9, <2>1, NumbersIn
  <2>3. PICK j \in (ratio * (k - 1) + 1)..(ratio * k) : x = g[j]
        BY <1>7, <2>2
  <2>4. j \in 1..ratio * m
        BY <1>3
  <2> QED BY <1>8, <2>3, <2>4 DEF Elements
<1>10. ASSUME NEW x \in Elements(f) PROVE x \in Numbers(Resampled(g))
  <2>1. PICK j \in 1..ratio * m : x = g[j]
        BY <1>8, <1>10 DEF Elements
  <2> DEFINE q == (j - 1) \div ratio
  <2>2. q \in Nat /\ ratio * q <= j - 1 /\ j - 1 < ratio * q + ratio
        BY <1>1, Quotient, j - 1 \in Nat
  <2> HIDE DEF q
  <2>3. q + 1 <= m
    <3>1. ASSUME m <= q PROVE FALSE
          BY <1>1, <2>2, <3>1, Times
    <3> QED BY <1>1, <2>2, <3>1
  <2>4. q + 1 \in 1..m /\ (q + 1) - 1 = q
        BY <1>1, <2>2, <2>3
  <2>5. ratio * (q + 1) = ratio * q + ratio
        BY <2>2, Times
  <2>6. j \in (ratio * q + 1)..(ratio * (q + 1))
        BY <1>1, <2>2, <2>5, Times
  <2>7. x \in Resampled(g)[q + 1]
        BY <1>7, <2>1, <2>4, <2>6
  <2>8. q + 1 \in DOMAIN Resampled(g)
        BY <1>5, <2>4
  <2> QED BY <2>7, <2>8, NumbersIn
<1> QED BY <1>1, <1>2, <1>6, <1>7, <1>9, <1>10 DEF f

-----------------------------------------------------------------------------
(* Types, the course of a call, and the buffers *)

\* TypeOK, but for the frames dropped
Typed ==
    /\ ratio \in Ratios /\ effects \in {0, 1}
    /\ running \in BOOLEAN /\ aec \in BOOLEAN
    /\ captured \in 0..MaxCaptured
    /\ buffer \in Seq(1..MaxCaptured) /\ frames_in \in 0..Len(buffer)
    /\ pending \in Seq(1..MaxCaptured) /\ Len(pending) < ratio
    /\ proc \in Seq(Frame) /\ fxIn \in Seq(Frame) /\ fxOut \in Seq(Frame)
    /\ read \in Seq(Frame) /\ out \in Seq(Frame)
    /\ Len(fxIn) < Chunk
    /\ proc_buf_size \in Nat /\ ref_frames_in \in Nat /\ ref_buf_size \in Nat
    /\ frames \in Nat /\ want \in Nat
    /\ pc \in {"idle", "direct", "process", "read", "effect", "return"}
    /\ delivered \in [{"plain", "processed"} -> Seq(Frame)]

(* What a call has in hand at each place, and what in->buffer and the      *)
(* effect hold between calls.                                              *)
CallInv ==
    /\ pc # "read" => read = << >>
    /\ pc \in {"idle", "direct"} => out = << >>
    /\ pc = "read" /\ effects = 0 => ratio > 1 /\ out = << >>
    /\ pc = "direct" => effects = 0 /\ ratio = 1
    /\ pc \in {"process", "effect"} => effects = 1
    /\ pc = "read" => Len(read) <= want
    /\ frames_in > 0 => Len(buffer) = period_size
    /\ effects = 0 => fxIn = << >> /\ fxOut = << >>
    /\ pc \in {"process", "effect"} \/ (pc = "read" /\ effects = 1) => Len(out) < frames

BufferInv == Typed /\ CallInv /\ BuffersHold

LEMMA EmptyFrames == << >> \in Seq(Frame) /\ << >> \in Seq(1..MaxCaptured) /\ Len(<< >>) = 0
BY EmptySeq

LEMMA BufferInit == Init => BufferInv
<1> SUFFICES ASSUME Init PROVE BufferInv
    OBVIOUS
<1>1. ratio \in Nat \ {0} /\ Chunk \in Nat \ {0} /\ MaxCaptured \in Nat
      BY CaptureAssumption DEF Init
<1>2. /\ frames_in \in 0..Len(buffer) /\ Len(pending) < ratio /\ Len(fxIn) < Chunk
      /\ captured \in 0..MaxCaptured
      BY <1>1, EmptyFrames DEF Init
<1>3. delivered \in [{"plain", "processed"} -> Seq(Frame)]
      BY EmptyFrames DEF Init
<1>4. Typed
      BY <1>2, <1>3, EmptyFrames DEF Init, Typed
<1>5. CallInv /\ BuffersHold
      BY EmptyFrames DEF Init, CallInv, BuffersHold
<1> QED BY <1>4, <1>5 DEF BufferInv

LEMMA FitStandby ==
    ASSUME BufferInv, standby \/ in_add_audio_effect PROVE BufferInv'
<1> USE DEF sourceVars, procVars, callVars
<1>1. Typed'
      BY DEF BufferInv, Typed, standby, in_add_audio_effect
<1>2. CallInv' /\ BuffersHold'
      BY DEF BufferInv, Typed, CallInv, BuffersHold, standby, in_add_audio_effect
<1> QED BY <1>1, <1>2 DEF BufferInv

LEMMA FitRemove ==
    ASSUME BufferInv, in_remove_audio_effect PROVE BufferInv'
<1> USE DEF sourceVars, callVars
<1>1. fxIn' \in Seq(Frame) /\ fxOut' \in Seq(Frame) /\ Len(fxIn') < Chunk
      BY EmptyFrames, CaptureAssumption DEF in_remove_audio_effect
<1>2. Typed'
      BY <1>1 DEF BufferInv, Typed, in_remove_audio_effect
<1>3. CallInv' /\ BuffersHold'
      BY DEF BufferInv, CallInv, BuffersHold, in_remove_audio_effect
<1> QED BY <1>2, <1>3 DEF BufferInv

LEMMA FitStart ==
    ASSUME BufferInv, start_input_stream PROVE BufferInv'
<1> USE DEF procVars, callVars
<1>1. Len(buffer) \in Nat /\ ratio \in Nat \ {0}
      BY LenProperties, CaptureAssumption DEF BufferInv, Typed
<1>2. /\ frames_in' \in 0..Len(buffer) /\ pending' \in Seq(1..MaxCaptured)
      /\ Len(pending') < ratio
  <2>1. (frames_in' = 0 /\ pending' = << >>) \/ UNCHANGED <<frames_in, pending, lost>>
        BY Zenon DEF start_input_stream
  <2>2. frames_in \in 0..Len(buffer) /\ pending \in Seq(1..MaxCaptured) /\ Len(pending) < ratio
        BY DEF BufferInv, Typed
  <2>3. CASE frames_in' = 0 /\ pending' = << >>
    <3>1. Len(pending') = 0 /\ pending' \in Seq(1..MaxCaptured)
          BY <2>3, EmptyFrames, Zenon
    <3> QED BY <1>1, <2>3, <3>1
  <2>4. CASE UNCHANGED <<frames_in, pending, lost>>
        BY <2>2, <2>4
  <2> QED BY <2>1, <2>3, <2>4
<1>3. aec' \in BOOLEAN
  <2>1. aec' = FALSE \/ aec' = (effects > 0)
        BY Zenon DEF start_input_stream
  <2>2. (effects > 0) = TRUE \/ (effects > 0) = FALSE
        BY SMT DEF BufferInv, Typed
  <2> QED BY <2>1, <2>2, Zenon
<1>4. Typed'
  <2>1. /\ running' = TRUE
        /\ UNCHANGED <<ratio, effects, captured, buffer, procVars, callVars, delivered>>
        BY DEF start_input_stream
  <2> QED BY <1>2, <1>3, <2>1 DEF BufferInv, Typed
<1>5. CallInv' /\ BuffersHold'
      BY DEF BufferInv, CallInv, BuffersHold, start_input_stream
<1> QED BY <1>4, <1>5 DEF BufferInv

LEMMA FitInRead ==
    ASSUME BufferInv, NEW n \in Requests, in_read(n) PROVE BufferInv'
<1> USE DEF streamVars, sourceVars, procVars
<1>1. n \in Nat \ {0} /\ ratio \in Nat \ {0}
      BY CaptureAssumption DEF BufferInv, Typed
<1>2. Typed'
      BY <1>1 DEF BufferInv, Typed, in_read
<1>3. CallInv'
      BY <1>1, EmptyFrames DEF BufferInv, Typed, CallInv, in_read
<1>4. BuffersHold'
  <2>1. ~ (pc' = "read" /\ effects' > 0)
        BY DEF BufferInv, Typed, in_read
  <2> QED BY <2>1 DEF BufferInv, BuffersHold, in_read
<1> QED BY <1>2, <1>3, <1>4 DEF BufferInv

LEMMA NewFrames ==
    ASSUME Typed, NEW n \in Nat, captured + n <= MaxCaptured
    PROVE  /\ NextFrames(n) \in Seq(1..MaxCaptured) /\ Len(NextFrames(n)) = n
           /\ \A k \in 1..n : NextFrames(n)[k] = captured + k
           /\ Elements(NextFrames(n)) = captured + 1..captured + n
<1>1. captured \in Nat /\ MaxCaptured \in Nat
      BY CaptureAssumption DEF Typed
<1>2. NextFrames(n) \in [1..n -> 1..MaxCaptured]
      BY <1>1 DEF NextFrames
<1>3. NextFrames(n) \in Seq(1..MaxCaptured)
      BY <1>2, SeqDef
<1>4. Len(NextFrames(n)) = n
  <2>1. DOMAIN NextFrames(n) = 1..Len(NextFrames(n)) /\ Len(NextFrames(n)) \in Nat
        BY <1>3, LenProperties
  <2> QED BY <1>2, <2>1
<1>5. \A k \in 1..n : NextFrames(n)[k] = captured + k
      BY DEF NextFrames
<1>6. ASSUME NEW x \in captured + 1..captured + n PROVE x \in Elements(NextFrames(n))
  <2>1. x - captured \in 1..n /\ captured + (x - captured) = x
        BY <1>1
  <2>2. x = NextFrames(n)[x - captured]
        BY <1>5, <2>1
  <2> QED BY <1>2, <2>1, <2>2 DEF Elements
<1>7. Elements(NextFrames(n)) \subseteq captured + 1..captured + n
      BY <1>1, <1>2, <1>5 DEF Elements
<1> QED BY <1>3, <1>4, <1>5, <1>6, <1>7

LEMMA FitPcmRead ==
    ASSUME BufferInv, pcm_read PROVE BufferInv'
<1> USE DEF streamVars, procVars
<1>1. captured \in Nat /\ frames \in Nat /\ MaxCaptured \in Nat
      BY CaptureAssumption DEF BufferInv, Typed
<1>2. ASSUME captured + frames <= MaxCaptured
      PROVE  Singles(NextFrames(frames)) \in Seq(Frame)
      BY <1>1, <1>2, NewFrames, SinglesFacts DEF BufferInv, Frame
<1>3. out' \in Seq(Frame) /\ captured' \in 0..MaxCaptured
      BY <1>1, <1>2, SMTT(30) DEF BufferInv, Typed, pcm_read
<1>4. Typed'
      BY <1>3 DEF BufferInv, Typed, pcm_read
<1>5. CallInv' /\ BuffersHold'
      BY DEF BufferInv, CallInv, BuffersHold, pcm_read
<1> QED BY <1>4, <1>5 DEF BufferInv

LEMMA FitProcess ==
    ASSUME BufferInv, process_frames PROVE BufferInv'
<1> USE DEF streamVars, sourceVars
<1>1. Len(proc) \in Nat /\ frames \in Nat /\ proc_buf_size \in Nat
      BY LenProperties DEF BufferInv, Typed
<1>2. Typed'
  <2>1. /\ proc_buf_size' \in Nat /\ want' \in Nat /\ pc' \in {"read", "effect"}
    <3>1. want \in Nat
          BY DEF BufferInv, Typed
    <3>2. CASE Len(proc) < frames
          BY ONLY <1>1, <3>2, process_frames DEF process_frames, Max2
    <3>3. CASE ~(Len(proc) < frames)
          BY ONLY <1>1, <3>1, <3>3, process_frames DEF process_frames
    <3> QED BY <3>2, <3>3
  <2>2. UNCHANGED <<streamVars, sourceVars, proc, ref_frames_in, ref_buf_size, fxIn, fxOut,
                    frames, read, out, delivered, lost>>
        BY DEF process_frames
  <2> QED BY ONLY <2>1, <2>2, BufferInv DEF BufferInv, Typed
<1>3. CallInv'
      BY <1>1, EmptyFrames DEF BufferInv, Typed, CallInv, process_frames
<1>4. BuffersHold'
      BY <1>1, SMTT(30) DEF BufferInv, Typed, BuffersHold, process_frames, Max2
<1> QED BY <1>2, <1>3, <1>4 DEF BufferInv

LEMMA FitError ==
    ASSUME BufferInv, read_error PROVE BufferInv'
<1> USE DEF streamVars, sourceVars, procVars
<1>1. Typed'
      BY EmptyFrames DEF BufferInv, Typed, read_error
<1>2. CallInv' /\ BuffersHold'
      BY DEF BufferInv, CallInv, BuffersHold, read_error
<1> QED BY <1>1, <1>2 DEF BufferInv

LEMMA FitReadDone ==
    ASSUME BufferInv, frames_read PROVE BufferInv'
<1> USE DEF streamVars, sourceVars
<1>1. proc \o read \in Seq(Frame) /\ Len(proc \o read) = Len(proc) + Len(read)
      BY ConcatProperties DEF BufferInv, Typed
<1>2. Len(proc) \in Nat /\ Len(read) \in Nat /\ want \in Nat /\ proc_buf_size \in Nat
      BY LenProperties DEF BufferInv, Typed
<1>3. Typed'
      BY <1>1, EmptyFrames DEF BufferInv, Typed, frames_read
<1>4. CallInv'
      BY EmptyFrames DEF BufferInv, Typed, CallInv, frames_read
<1>5. BuffersHold'
      BY <1>1, <1>2, SMTT(30) DEF BufferInv, Typed, CallInv, BuffersHold, frames_read
<1> QED BY <1>3, <1>4, <1>5 DEF BufferInv

LEMMA FitReturn ==
    ASSUME BufferInv, return PROVE BufferInv'
<1> USE DEF streamVars, sourceVars, procVars
<1>1. Path \in {"plain", "processed"}
      BY DEF Path
<1>2. delivered[Path] \o out \in Seq(Frame)
      BY <1>1, ConcatProperties DEF BufferInv, Typed
<1>3. delivered' \in [{"plain", "processed"} -> Seq(Frame)]
      BY <1>1, <1>2 DEF BufferInv, Typed, return
<1>4. Typed'
      BY <1>3, EmptyFrames DEF BufferInv, Typed, return
<1>5. CallInv' /\ BuffersHold'
      BY DEF BufferInv, CallInv, BuffersHold, return
<1> QED BY <1>4, <1>5 DEF BufferInv

(* The effect takes frames off the start of proc_buf, behind those of its  *)
(* unfinished chunk, and gives the finished ones from the start.           *)
LEMMA EffectMoves ==
    ASSUME BufferInv, process_effects
    PROVE  /\ proc' \in Seq(Frame) /\ fxIn' \in Seq(Frame) /\ fxOut' \in Seq(Frame)
           /\ out' \in Seq(Frame) /\ Len(fxIn') < Chunk /\ Len(proc') <= Len(proc)
           /\ \E taken, ready, given \in Seq(Frame) :
                /\ proc = taken \o proc'
                /\ ready \o fxIn' = fxOut \o (fxIn \o taken)
                /\ ready = given \o fxOut'
                /\ out' = out \o given
<1> DEFINE room     == frames - Len(out)
           consumed == EffectTakes(Len(proc), room)
           taken    == First(proc, consumed)
           in       == fxIn \o taken
           ready    == IF Len(in) = Chunk THEN fxOut \o in ELSE fxOut
           produced == Min2(Len(ready), room)
           given    == First(ready, produced)
<1>1. /\ proc \in Seq(Frame) /\ fxIn \in Seq(Frame) /\ fxOut \in Seq(Frame)
      /\ out \in Seq(Frame) /\ Len(fxIn) < Chunk /\ frames \in Nat /\ Chunk \in Nat \ {0}
      /\ Len(out) < frames
      BY CaptureAssumption DEF BufferInv, Typed, CallInv, process_effects
<1>2. Len(proc) \in Nat /\ Len(fxIn) \in Nat /\ Len(fxOut) \in Nat /\ Len(out) \in Nat
      BY <1>1, LenProperties
<1>3. /\ proc' = Drop(proc, consumed)
      /\ fxIn' = IF Len(in) = Chunk THEN << >> ELSE in
      /\ fxOut' = Drop(ready, produced)
      /\ out' = out \o given
      BY DEF process_effects
<1>4. room \in Nat \ {0}
      BY <1>1, <1>2
<1> HIDE DEF room
<1>5. consumed \in 0..Len(proc) /\ Len(fxIn) + consumed <= Chunk
      BY <1>1, <1>2 DEF EffectTakes, Min2
<1> HIDE DEF consumed
<1>6. /\ taken \in Seq(Frame) /\ Len(taken) = consumed
      /\ proc' \in Seq(Frame) /\ Len(proc') = Len(proc) - consumed
      /\ proc = taken \o proc'
      BY <1>1, <1>3, <1>5, FirstDrop
<1> HIDE DEF taken
<1>7. in \in Seq(Frame) /\ Len(in) = Len(fxIn) + consumed
      BY <1>1, <1>6, ConcatProperties
<1>8. fxOut \o in \in Seq(Frame)
      BY <1>1, <1>7, ConcatProperties
<1>9. ready \in Seq(Frame) /\ ready \o fxIn' = fxOut \o (fxIn \o taken)
  <2>1. CASE Len(in) = Chunk
    <3>1. ready = fxOut \o in /\ fxIn' = << >>
          BY <1>3, <2>1
    <3>2. (fxOut \o in) \o << >> = fxOut \o in
          BY <1>8, ConcatEmptySeq
    <3> QED BY <1>8, <3>1, <3>2
  <2>2. CASE Len(in) # Chunk
        BY <1>1, <1>3, <2>2
  <2> QED BY <2>1, <2>2
<1>10. fxIn' \in Seq(Frame) /\ Len(fxIn') < Chunk
  <2>1. CASE Len(in) = Chunk
        BY <1>1, <1>3, <2>1, EmptyFrames
  <2>2. CASE Len(in) # Chunk
    <3>1. fxIn' = in
          BY <1>3, <2>2
    <3> HIDE DEF in
    <3>2. Len(in) < Chunk
          BY <1>1, <1>2, <1>5, <1>7, <2>2
    <3> QED BY <1>7, <3>1, <3>2
  <2> QED BY <2>1, <2>2
<1> HIDE DEF ready
<1>11. produced \in 0..Len(ready)
      BY <1>4, <1>9, LenProperties DEF Min2
<1> HIDE DEF produced
<1>12. given \in Seq(Frame) /\ fxOut' \in Seq(Frame) /\ ready = given \o fxOut'
      BY <1>3, <1>9, <1>11, FirstDrop
<1> HIDE DEF given
<1>13. out' \in Seq(Frame)
      BY <1>1, <1>3, <1>12, ConcatProperties
<1>14. Len(proc') <= Len(proc)
      BY <1>2, <1>5, <1>6
<1>15. /\ proc = taken \o proc' /\ ready \o fxIn' = fxOut \o (fxIn \o taken)
       /\ ready = given \o fxOut' /\ out' = out \o given
       BY <1>3, <1>6, <1>9, <1>12
<1> QED BY <1>6, <1>9, <1>10, <1>12, <1>13, <1>14, <1>15, Zenon

LEMMA FitEffects ==
    ASSUME BufferInv, process_effects PROVE BufferInv'
<1>1. /\ UNCHANGED <<ratio, running, effects, aec, captured, buffer, frames_in, pending>>
      /\ UNCHANGED <<proc_buf_size, frames, want, read, delivered>>
      /\ pc = "effect" /\ pc' = IF Len(out') < frames THEN "process" ELSE "return"
      BY DEF process_effects, streamVars, sourceVars
<1>2. /\ ref_frames_in' \in Nat /\ ref_buf_size' \in Nat /\ ref_frames_in' <= ref_buf_size'
  <2>1. Len(proc) \in Nat
        BY LenProperties DEF BufferInv, Typed
  <2>2. ref_frames_in \in Nat /\ ref_buf_size \in Nat /\ ref_frames_in <= ref_buf_size
        BY DEF BufferInv, Typed, BuffersHold
  <2>3. ASSUME NEW n \in Nat, push_echo_reference(n)
        PROVE  /\ ref_frames_in' \in Nat /\ ref_buf_size' \in Nat
               /\ ref_frames_in' <= ref_buf_size'
        BY <2>2, <2>3 DEF push_echo_reference, RefFilled, Min2, Max2
  <2>4. push_echo_reference(Len(proc)) \/ UNCHANGED <<ref_frames_in, ref_buf_size>>
        BY Zenon DEF process_effects
  <2> QED BY <2>1, <2>2, <2>3, <2>4
<1>3. Typed'
      BY <1>1, <1>2, EffectMoves DEF BufferInv, Typed
<1>4. CallInv'
  <2>1. effects = 1 /\ read = << >>
        BY <1>1 DEF BufferInv, CallInv
  <2> QED BY <1>1, <2>1 DEF BufferInv, CallInv
<1>5. BuffersHold'
  <2>1. Len(proc) \in Nat /\ Len(proc') \in Nat /\ Len(proc') <= Len(proc) /\ proc_buf_size \in Nat
        BY LenProperties, EffectMoves DEF BufferInv, Typed
  <2> QED BY <1>1, <1>2, <2>1 DEF BufferInv, BuffersHold
<1> QED BY <1>3, <1>4, <1>5 DEF BufferInv

(* How many frames are taken: at least one, at most what is in in->buffer,  *)
(* and no more than make the frames asked for.                             *)
LEMMA AskedBounds ==
    ASSUME BufferInv, pc = "read", Len(read) < want, NEW left \in Nat \ {0}
    PROVE  /\ Min2(Asked, left) \in 1..left
           /\ Len(pending) + Min2(Asked, left) <= ratio * (want - Len(read))
           /\ want - Len(read) \in Nat
<1> DEFINE w == want - Len(read)
<1>1. /\ Len(read) \in Nat /\ Len(pending) \in Nat /\ Len(pending) < ratio
      /\ want \in Nat /\ ratio \in Nat \ {0}
      BY LenProperties, CaptureAssumption DEF BufferInv, Typed
<1>2. w \in Nat \ {0}
      BY <1>1
<1>3. Asked = w * ratio - Len(pending)
      BY DEF Asked
<1> HIDE DEF w
<1>4. w * ratio = ratio * w /\ ratio * w \in Nat /\ ratio <= ratio * w
  <2>1. ratio * 1 <= ratio * w /\ ratio * w \in Nat
        BY <1>1, <1>2, Times
  <2> QED BY <1>1, <1>2, <2>1
<1> DEFINE a == ratio * w
<1> HIDE DEF a
<1>5. a \in Nat /\ ratio <= a /\ Asked = a - Len(pending)
      BY <1>3, <1>4 DEF a
<1>6. Min2(Asked, left) \in 1..left /\ Len(pending) + Min2(Asked, left) <= a
      BY <1>1, <1>5 DEF Min2
<1> QED BY <1>2, <1>6 DEF a, w

\* the buffer that read_frames takes from, and how much of it is left
LEMMA ReadSource ==
    ASSUME BufferInv, read_frames
    PROVE  \E b \in Seq(1..MaxCaptured), left \in 1..period_size :
              /\ Len(b) = period_size /\ provide(b, left)
              /\ \/ /\ frames_in > 0 /\ b = buffer /\ left = frames_in
                    /\ captured' = captured
                 \/ /\ frames_in = 0 /\ b = NextFrames(period_size) /\ left = period_size
                    /\ captured + period_size <= MaxCaptured
                    /\ captured' = captured + period_size
<1>1. /\ period_size \in Nat \ {0} /\ Typed /\ frames_in \in 0..Len(buffer)
      /\ buffer \in Seq(1..MaxCaptured) /\ Len(buffer) \in Nat
      BY CaptureAssumption, LenProperties DEF BufferInv, Typed
<1>2. CASE frames_in = 0
  <2>1. /\ captured + period_size <= MaxCaptured
        /\ provide(NextFrames(period_size), period_size)
        /\ captured' = captured + period_size
        BY <1>2, Zenon DEF read_frames
  <2>2. NextFrames(period_size) \in Seq(1..MaxCaptured)
        /\ Len(NextFrames(period_size)) = period_size
        BY <1>1, <2>1, NewFrames
  <2>3. period_size \in 1..period_size
        BY <1>1
  <2> QED BY <1>2, <2>1, <2>2, <2>3, Zenon
<1>3. CASE frames_in # 0
  <2>1. provide(buffer, frames_in) /\ captured' = captured
        BY <1>3, Zenon DEF read_frames
  <2>2. frames_in > 0 /\ frames_in \in 1..period_size /\ Len(buffer) = period_size
        BY <1>1, <1>3 DEF BufferInv, CallInv
  <2> QED BY <1>1, <2>1, <2>2, Zenon
<1> QED BY <1>2, <1>3

(* read_frames: the resampler gets the frames it holds and some of those    *)
(* left in in->buffer, where there are now the rest of these.              *)
LEMMA ReadMoves ==
    ASSUME BufferInv, read_frames
    PROVE  /\ buffer' \in Seq(1..MaxCaptured) /\ Len(buffer') = period_size
           /\ frames_in' \in 0..period_size
           /\ captured' \in 0..MaxCaptured
           /\ pending' \in Seq(1..MaxCaptured) /\ Len(pending') < ratio
           /\ read' \in Seq(Frame) /\ Len(read') <= want
           /\ Left' \in Seq(1..MaxCaptured)
           /\ \E old, got \in Seq(1..MaxCaptured) :
                /\ \/ captured' = captured /\ old = Left
                   \/ /\ frames_in = 0 /\ old = NextFrames(period_size)
                      /\ captured + period_size <= MaxCaptured
                      /\ captured' = captured + period_size
                /\ got \o Left' = pending \o old
                /\ read' = read \o Resampled(got)
                /\ pending' = Drop(got, ratio * (Len(got) \div ratio))
<1>1. PICK buf \in Seq(1..MaxCaptured), avail \in 1..period_size :
              /\ Len(buf) = period_size /\ provide(buf, avail)
              /\ \/ /\ frames_in > 0 /\ buf = buffer /\ avail = frames_in
                    /\ captured' = captured
                 \/ /\ frames_in = 0 /\ buf = NextFrames(period_size) /\ avail = period_size
                    /\ captured + period_size <= MaxCaptured
                    /\ captured' = captured + period_size
      BY ReadSource
<1> DEFINE size    == Min2(Asked, avail)
           part    == Taken(buf, avail, size)
           got  == pending \o part
           whole    == Len(got) \div ratio
           old  == SubSeq(buf, Len(buf) - avail + 1, Len(buf))
           rest == SubSeq(buf, Len(buf) - (avail - size) + 1, Len(buf))
           due    == want - Len(read)
<1>2. /\ ratio \in Nat \ {0} /\ period_size \in Nat \ {0} /\ MaxCaptured \in Nat
      /\ pending \in Seq(1..MaxCaptured) /\ read \in Seq(Frame) /\ captured \in 0..MaxCaptured
      /\ pc = "read" /\ Len(read) < want /\ want \in Nat
      /\ Len(read) \in Nat /\ Len(pending) \in Nat
      BY CaptureAssumption, LenProperties DEF BufferInv, Typed, read_frames
<1>3. size \in 1..avail /\ Len(pending) + size <= ratio * due /\ due \in Nat
  <2>1. avail \in Nat \ {0}
        BY <1>2
  <2> QED BY <1>2, <2>1, AskedBounds
<1>4. /\ buffer' = buf /\ frames_in' = avail - size
      /\ read' = read \o Resampled(got) /\ pending' = Drop(got, ratio * whole)
      BY <1>1 DEF provide
<1> HIDE DEF size
<1>5. avail \in 0..period_size /\ size \in 0..avail /\ avail - size \in 0..period_size
      BY <1>2, <1>3
<1>6. /\ part \in Seq(1..MaxCaptured) /\ Len(part) = size
      /\ rest \in Seq(1..MaxCaptured) /\ old \in Seq(1..MaxCaptured)
      /\ part \o rest = old
  <2>1. buf \in Seq(1..MaxCaptured) /\ Len(buf) = period_size
        BY <1>1
  <2>2. avail \in 0..period_size /\ size \in 0..avail
        BY <1>5
  <2> HIDE DEF part, old, rest
  <2>3. \A n \in 0..avail :
          /\ Taken(buf, avail, n) \in Seq(1..MaxCaptured) /\ Len(Taken(buf, avail, n)) = n
          /\ SubSeq(buf, Len(buf) - (avail - n) + 1, Len(buf)) \in Seq(1..MaxCaptured)
          /\ SubSeq(buf, Len(buf) - avail + 1, Len(buf)) \in Seq(1..MaxCaptured)
          /\ Taken(buf, avail, n) \o SubSeq(buf, Len(buf) - (avail - n) + 1, Len(buf))
               = SubSeq(buf, Len(buf) - avail + 1, Len(buf))
        BY <2>1, <2>2, TakenFacts
  <2> QED BY <2>2, <2>3 DEF part, old, rest
<1>7. Left' = rest
      BY <1>4 DEF Left
<1> HIDE DEF part, old, rest
<1>8. got \in Seq(1..MaxCaptured) /\ Len(got) = Len(pending) + size
      BY <1>2, <1>6, ConcatProperties
<1>9. got \o Left' = pending \o old
  <2>1. /\ pending \in Seq(1..MaxCaptured) /\ part \in Seq(1..MaxCaptured)
        /\ rest \in Seq(1..MaxCaptured)
        BY <1>2, <1>6
  <2>2. (pending \o part) \o rest = pending \o (part \o rest)
        BY ONLY <2>1, ConcatAssociative, SMTT(30)
  <2>3. got \o rest = (pending \o part) \o rest
        BY DEF got
  <2> QED BY ONLY <1>6, <1>7, <2>2, <2>3
<1> HIDE DEF got
<1> HIDE DEF whole, due
<1>10. /\ whole \in Nat /\ ratio * whole \in 0..Len(got) /\ Len(got) - ratio * whole < ratio
       /\ Resampled(got) \in Seq(SUBSET (1..MaxCaptured)) /\ Len(Resampled(got)) = whole
       BY <1>2, <1>8, ResampledFacts DEF whole
<1>11. whole <= due
  <2>1. Len(got) \in Nat /\ Len(got) <= ratio * due
        BY <1>3, <1>8, LenProperties
  <2> QED BY <1>2, <1>3, <2>1, QuotientBound DEF whole
<1>12. read' \in Seq(Frame) /\ Len(read') = Len(read) + whole
      BY <1>2, <1>4, <1>10, ConcatProperties DEF Frame
<1>13. Len(read') <= want
      BY <1>2, <1>10, <1>11, <1>12 DEF due
<1>14. pending' \in Seq(1..MaxCaptured) /\ Len(pending') < ratio
  <2>1. pending' \in Seq(1..MaxCaptured) /\ Len(pending') = Len(got) - ratio * whole
        BY <1>4, <1>8, <1>10, FirstDrop
  <2> QED BY <1>10, <2>1
<1>15. captured' \in 0..MaxCaptured
      BY <1>1, <1>2
<1>16. \/ captured' = captured /\ old = Left
       \/ /\ frames_in = 0 /\ old = NextFrames(period_size)
          /\ captured + period_size <= MaxCaptured
          /\ captured' = captured + period_size
  <2>1. CASE frames_in > 0 /\ buf = buffer /\ avail = frames_in /\ captured' = captured
        BY <2>1 DEF old, Left
  <2>2. CASE /\ frames_in = 0 /\ buf = NextFrames(period_size) /\ avail = period_size
             /\ captured + period_size <= MaxCaptured
             /\ captured' = captured + period_size
    <3>1. old = SubSeq(buf, 1, Len(buf))
          BY <1>1, <1>2, <2>2 DEF old
    <3>2. old = buf
          BY <3>1, SubSeqFull
    <3> QED BY <2>2, <3>2
  <2> QED BY <1>1, <2>1, <2>2
<1>17. /\ buffer' \in Seq(1..MaxCaptured) /\ Len(buffer') = period_size
       /\ frames_in' \in 0..period_size /\ Left' \in Seq(1..MaxCaptured)
      BY <1>1, <1>4, <1>5, <1>6, <1>7
<1>18. pending' = Drop(got, ratio * (Len(got) \div ratio))
      BY <1>4 DEF whole
<1>19. /\ old \in Seq(1..MaxCaptured) /\ got \in Seq(1..MaxCaptured)
       /\ read' = read \o Resampled(got)
      BY <1>4, <1>6, <1>8
<1>20. \E o, g \in Seq(1..MaxCaptured) :
                /\ \/ captured' = captured /\ o = Left
                   \/ /\ frames_in = 0 /\ o = NextFrames(period_size)
                      /\ captured + period_size <= MaxCaptured
                      /\ captured' = captured + period_size
                /\ g \o Left' = pending \o o
                /\ read' = read \o Resampled(g)
                /\ pending' = Drop(g, ratio * (Len(g) \div ratio))
      BY <1>9, <1>16, <1>18, <1>19, Zenon
<1> QED BY <1>12, <1>13, <1>14, <1>15, <1>17, <1>20

LEMMA FitReadFrames ==
    ASSUME BufferInv, read_frames PROVE BufferInv'
<1>1. /\ UNCHANGED <<ratio, running, effects, aec, proc, proc_buf_size, ref_frames_in>>
      /\ UNCHANGED <<ref_buf_size, fxIn, fxOut, pc, frames, want, out, delivered>>
      /\ pc = "read"
      BY DEF read_frames, streamVars, procVars
<1>2. frames_in' \in 0..Len(buffer')
      BY ReadMoves
<1>3. Typed'
      BY <1>1, <1>2, ReadMoves DEF BufferInv, Typed
<1>4. CallInv'
      BY <1>1, ReadMoves DEF BufferInv, CallInv
<1>5. BuffersHold'
      BY <1>1 DEF BufferInv, BuffersHold
<1> QED BY <1>3, <1>4, <1>5 DEF BufferInv

LEMMA BufferKeeps ==
    ASSUME BufferInv, [Next]_vars PROVE BufferInv'
<1>1. CASE UNCHANGED vars
  <2>1. Typed'
        BY <1>1 DEF vars, streamVars, sourceVars, procVars, callVars, BufferInv, Typed
  <2>2. CallInv' /\ BuffersHold'
        BY <1>1 DEF vars, streamVars, sourceVars, procVars, callVars, BufferInv, CallInv,
                    BuffersHold
  <2> QED BY <2>1, <2>2 DEF BufferInv
<1>2. CASE Next
      BY <1>2, FitStandby, FitRemove, FitStart, FitInRead, FitPcmRead, FitProcess, FitError,
         FitReadFrames, FitReadDone, FitEffects, FitReturn DEF Next, ReadStep
<1> QED BY <1>1, <1>2

(* What read_frames, process_frames and push_echo_reference write stays    *)
(* within proc_buf and ref_buf, for any sizes of the requests, the period, *)
(* the effect's chunk and the resampler's ratio, through errors, restarts, *)
(* and effects added and removed.                                          *)
THEOREM CaptureBuffersHold == Spec => []BuffersHold
<1>1. BufferInv => BuffersHold
      BY DEF BufferInv
<1> QED BY <1>1, BufferInit, BufferKeeps, PTL DEF Spec

-----------------------------------------------------------------------------
(* Where frames are: what stays true when they move *)

\* t has no frames that s has not, and stays in order and apart if s is
Within(t, s) ==
    /\ Numbers(t) \subseteq Numbers(s)
    /\ Sorted(s) => Sorted(t)
    /\ Apart(s) => Apart(t)

LEMMA WithinConcat ==
    ASSUME NEW S, NEW s \in Seq(S), NEW t \in Seq(S), NEW a \in Seq(S), Within(t, s)
    PROVE  Within(a \o t, a \o s) /\ Within(t \o a, s \o a)
<1>1. /\ Numbers(a \o t) = Numbers(a) \union Numbers(t)
      /\ Numbers(a \o s) = Numbers(a) \union Numbers(s)
      /\ Numbers(t \o a) = Numbers(t) \union Numbers(a)
      /\ Numbers(s \o a) = Numbers(s) \union Numbers(a)
      BY NumbersConcat
<1>2. /\ Sorted(a \o t) <=> Sorted(a) /\ Sorted(t) /\ Less(Numbers(a), Numbers(t))
      /\ Sorted(a \o s) <=> Sorted(a) /\ Sorted(s) /\ Less(Numbers(a), Numbers(s))
      /\ Sorted(t \o a) <=> Sorted(t) /\ Sorted(a) /\ Less(Numbers(t), Numbers(a))
      /\ Sorted(s \o a) <=> Sorted(s) /\ Sorted(a) /\ Less(Numbers(s), Numbers(a))
      BY SortedConcat
<1>3. /\ Apart(a \o t) <=> Apart(a) /\ Apart(t) /\ Numbers(a) \intersect Numbers(t) = {}
      /\ Apart(a \o s) <=> Apart(a) /\ Apart(s) /\ Numbers(a) \intersect Numbers(s) = {}
      /\ Apart(t \o a) <=> Apart(t) /\ Apart(a) /\ Numbers(t) \intersect Numbers(a) = {}
      /\ Apart(s \o a) <=> Apart(s) /\ Apart(a) /\ Numbers(s) \intersect Numbers(a) = {}
      BY ApartConcat
<1>4. Less(Numbers(a), Numbers(s)) => Less(Numbers(a), Numbers(t))
      BY DEF Less, Within
<1>5. Less(Numbers(s), Numbers(a)) => Less(Numbers(t), Numbers(a))
      BY DEF Less, Within
<1>6. Numbers(t) \subseteq Numbers(s) /\ (Sorted(s) => Sorted(t)) /\ (Apart(s) => Apart(t))
      BY DEF Within
<1>7. Within(a \o t, a \o s)
      BY <1>1, <1>2, <1>3, <1>4, <1>6 DEF Within
<1>8. Within(t \o a, s \o a)
      BY <1>1, <1>2, <1>3, <1>5, <1>6 DEF Within
<1> QED BY <1>7, <1>8

LEMMA WithinEmpty == ASSUME NEW s PROVE Within(<< >>, s)
<1>1. Sorted(<< >>) /\ Apart(<< >>)
      BY DEF Sorted, Apart
<1> QED BY <1>1, NumbersEmpty DEF Within

LEMMA WithinSteps ==
    ASSUME NEW s, NEW t, NEW u, Within(u, t), Within(t, s) PROVE Within(u, s)
BY DEF Within

\* named, so that it is used where it is asked for
Assoc(s, t, u) == (s \o t) \o u = s \o (t \o u)

\* joining two lines joins what they carry
LEMMA Joined ==
    ASSUME NEW s \in Seq(Frame), NEW t \in Seq(Frame)
    PROVE  s \o t \in Seq(Frame) /\ Numbers(s \o t) = Numbers(s) \union Numbers(t)
<1>1. s \o t \in Seq(Frame)
      BY ConcatProperties
<1>2. Numbers(s \o t) = Numbers(s) \union Numbers(t)
      BY NumbersConcat
<1> QED BY <1>1, <1>2

LEMMA ConcatAssoc ==
    ASSUME NEW S, NEW s \in Seq(S), NEW t \in Seq(S), NEW u \in Seq(S)
    PROVE  Assoc(s, t, u)
BY ConcatAssociative DEF Assoc

\* moving frames from the start of one buffer to the end of the one before it
LEMMA MoveSame ==
    ASSUME NEW S, NEW a \in Seq(S), NEW b \in Seq(S), NEW c \in Seq(S), NEW d \in Seq(S),
           NEW x \in Seq(S), c \o d = a \o b
    PROVE  c \o (d \o x) = a \o (b \o x)
<1>1. Assoc(c, d, x) /\ Assoc(a, b, x)
      BY ConcatAssoc
<1> QED BY ONLY <1>1, c \o d = a \o b DEF Assoc

(* A sequence of new frames goes behind any frames captured before. *)
LEMMA CapturedBehind ==
    ASSUME NEW S, NEW s \in Seq(S), NEW t \in Seq(S), NEW n \in Nat, NEW m \in Nat,
           Numbers(s) \subseteq 1..n, Numbers(t) = n + 1..m, Sorted(t), Apart(t)
    PROVE  /\ Sorted(s) => Sorted(s \o t)
           /\ Apart(s) => Apart(s \o t)
           /\ Less(Numbers(s), Numbers(t)) /\ Numbers(s) \intersect Numbers(t) = {}
<1>1. Less(1..n, n + 1..m) /\ (1..n) \intersect (n + 1..m) = {}
      BY DEF Less
<1>2. Less(Numbers(s), Numbers(t)) /\ Numbers(s) \intersect Numbers(t) = {}
      BY <1>1 DEF Less
<1>3. /\ Sorted(s \o t) <=> Sorted(s) /\ Sorted(t) /\ Less(Numbers(s), Numbers(t))
      /\ Apart(s \o t) <=> Apart(s) /\ Apart(t) /\ Numbers(s) \intersect Numbers(t) = {}
      BY SortedConcat, ApartConcat
<1> QED BY <1>2, <1>3

LEMMA NewSingles ==
    ASSUME Typed, NEW n \in Nat, captured + n <= MaxCaptured
    PROVE  /\ Singles(NextFrames(n)) \in Seq(Frame)
           /\ Numbers(Singles(NextFrames(n))) = captured + 1..captured + n
           /\ Sorted(Singles(NextFrames(n))) /\ Apart(Singles(NextFrames(n)))
<1> DEFINE f == NextFrames(n)
           s == Singles(f)
<1>1. /\ f \in Seq(1..MaxCaptured) /\ Len(f) = n
      /\ \A k \in 1..n : f[k] = captured + k
      /\ Elements(f) = captured + 1..captured + n
      BY NewFrames
<1> HIDE DEF f
<1>2. /\ s \in Seq(SUBSET (1..MaxCaptured)) /\ Len(s) = n
      /\ \A k \in 1..n : s[k] = {f[k]}
      /\ Numbers(s) = captured + 1..captured + n
      BY <1>1, SinglesFacts
<1> HIDE DEF s
<1>3. DOMAIN s = 1..n /\ \A k \in 1..n : s[k] = {captured + k}
      BY <1>1, <1>2, LenProperties
<1>4. captured \in Nat
      BY CaptureAssumption DEF Typed
<1>5. Sorted(s)
      BY <1>3, <1>4 DEF Sorted, Less
<1>6. Apart(s)
      BY <1>3, <1>4 DEF Apart
<1> QED BY <1>2, <1>5, <1>6 DEF s, f, Frame

(* The resampler keeps the order of the frames it has used up. *)
LEMMA ResampledWithin ==
    ASSUME NEW S, NEW g \in Seq(S), ratio \in Nat \ {0}
    PROVE  LET f == First(g, ratio * (Len(g) \div ratio)) IN
           /\ f \in Seq(S)
           /\ Within(Resampled(g), Singles(f))
           /\ Numbers(Resampled(g)) = Numbers(Singles(f))
<1> DEFINE m == Len(g) \div ratio
           f == First(g, ratio * m)
           s == Singles(f)
           r == Resampled(g)
<1>1. /\ m \in Nat /\ ratio * m \in 0..Len(g)
      /\ r \in Seq(SUBSET S) /\ Len(r) = m
      /\ \A k \in 1..m :
            /\ r[k] = {g[j] : j \in (ratio * (k - 1) + 1)..(ratio * k)}
            /\ ratio * (k - 1) \in Nat /\ ratio * k \in Nat
            /\ ratio * k <= ratio * m
      /\ Numbers(r) = Elements(f)
      BY ResampledFacts
<1>2. f \in Seq(S) /\ Len(f) = ratio * m /\ \A k \in 1..ratio * m : f[k] = g[k]
      BY <1>1, FirstDrop
<1> HIDE DEF m, r, f
<1>3. /\ s \in Seq(SUBSET S) /\ Len(s) = Len(f)
      /\ \A k \in 1..Len(f) : s[k] = {f[k]}
      /\ Numbers(s) = Elements(f)
      BY <1>2, SinglesFacts
<1> HIDE DEF s
<1>4. /\ DOMAIN s = 1..ratio * m /\ \A k \in 1..ratio * m : s[k] = {g[k]}
      /\ DOMAIN r = 1..m
      BY <1>1, <1>2, <1>3, LenProperties
<1>5. ASSUME NEW j \in 1..m, NEW k \in 1..m, j < k, NEW x \in r[j], NEW y \in r[k]
      PROVE  /\ Sorted(s) => x < y
             /\ Apart(s) => x # y
  <2>1. PICK a \in (ratio * (j - 1) + 1)..(ratio * j) : x = g[a]
        BY <1>1
  <2>2. PICK b \in (ratio * (k - 1) + 1)..(ratio * k) : y = g[b]
        BY <1>1
  <2>3. ratio * j <= ratio * (k - 1)
    <3>1. j \in Nat /\ k - 1 \in Nat /\ j <= k - 1 /\ ratio \in Nat
          BY <1>5
    <3> QED BY <3>1, Times
  <2>4. /\ ratio * (j - 1) \in Nat /\ ratio * j \in Nat /\ ratio * j <= ratio * m
        /\ ratio * (k - 1) \in Nat /\ ratio * k \in Nat /\ ratio * k <= ratio * m
        BY <1>1
  <2>5. a \in 1..ratio * m /\ b \in 1..ratio * m /\ a < b /\ a # b
    <3>1. /\ a \in Int /\ ratio * (j - 1) + 1 <= a /\ a <= ratio * j
          /\ b \in Int /\ ratio * (k - 1) + 1 <= b /\ b <= ratio * k
          BY <2>4
    <3>2. ratio * m \in Nat
          BY <1>1
    <3> QED BY ONLY <2>3, <2>4, <3>1, <3>2
  <2>6. a \in DOMAIN s /\ b \in DOMAIN s /\ s[a] = {x} /\ s[b] = {y}
        BY <1>4, <2>1, <2>2, <2>5
  <2> QED BY <2>5, <2>6 DEF Sorted, Apart, Less
<1>6. ASSUME Sorted(s) PROVE Sorted(r)
      BY <1>4, <1>5, <1>6 DEF Sorted, Less
<1>8. ASSUME Apart(s) PROVE Apart(r)
  <2> SUFFICES ASSUME NEW j \in 1..m, NEW k \in 1..m, j # k, NEW x \in r[j], x \in r[k]
               PROVE  FALSE
      BY <1>4 DEF Apart
  <2>1. CASE j < k
        BY <1>5, <1>8, <2>1
  <2>2. CASE k < j
        BY <1>5, <1>8, <2>2
  <2> QED BY <1>1, <2>1, <2>2
<1>9. Within(r, s)
      BY <1>1, <1>3, <1>6, <1>8 DEF Within
<1> QED BY <1>1, <1>2, <1>3, <1>9 DEF m, f, r, s

-----------------------------------------------------------------------------
(* The way of the frames *)

\* what is in hand belongs to the path of the call
Of(path, s) == IF Path = path THEN s ELSE << >>

Source == Singles(pending) \o Singles(Left)
Held   == fxOut \o (fxIn \o proc)

ProcHere  == delivered["processed"] \o (Of("processed", out) \o (Held \o Of("processed", read)))
PlainHere == delivered["plain"] \o (Of("plain", out) \o Of("plain", read))
AllHere   == delivered["plain"] \o (delivered["processed"] \o (out \o (Held \o read)))

(* Each path's frames are in order all along its way.  Without a resampler *)
(* a call of the plain path leaves in->buffer alone.                       *)
OrderInv ==
    /\ Sorted(ProcHere \o Source)
    /\ Sorted(PlainHere \o IF ratio > 1 THEN Source ELSE << >>)

\* ExactlyOnce, with the frames grouped as above
Once ==
    /\ Apart(AllHere \o Source)
    /\ Numbers(AllHere \o Source) \intersect lost = {}
    /\ Numbers(AllHere \o Source) \union lost = 1..captured

LEMMA WayTypes ==
    ASSUME Typed
    PROVE  /\ Left \in Seq(1..MaxCaptured)
           /\ Singles(pending) \in Seq(Frame) /\ Singles(Left) \in Seq(Frame)
           /\ Source \in Seq(Frame) /\ Held \in Seq(Frame)
           /\ \A p \in {"plain", "processed"} : delivered[p] \in Seq(Frame)
           /\ \A p \in {"plain", "processed"} :
                 Of(p, out) \in Seq(Frame) /\ Of(p, read) \in Seq(Frame)
           /\ ProcHere \in Seq(Frame) /\ PlainHere \in Seq(Frame) /\ AllHere \in Seq(Frame)
<1>1. /\ buffer \in Seq(1..MaxCaptured) /\ frames_in \in 0..Len(buffer) /\ Len(buffer) \in Nat
      /\ pending \in Seq(1..MaxCaptured)
      /\ fxIn \in Seq(Frame) /\ fxOut \in Seq(Frame) /\ proc \in Seq(Frame)
      /\ out \in Seq(Frame) /\ read \in Seq(Frame)
      /\ \A p \in {"plain", "processed"} : delivered[p] \in Seq(Frame)
      BY LenProperties DEF Typed
<1>2. Left \in Seq(1..MaxCaptured)
  <2> DEFINE start == Len(buffer) - frames_in + 1
             last  == Len(buffer)
  <2>1. start \in Int /\ last \in Int /\ start >= 1
        BY <1>1
  <2>2. \A k \in 1..last : buffer[k] \in 1..MaxCaptured
        BY <1>1, ElementOfSeq
  <2> HIDE DEF start, last
  <2>3. \A k \in start..last : buffer[k] \in 1..MaxCaptured
        BY <2>1, <2>2
  <2>4. SubSeq(buffer, start, last) \in Seq(1..MaxCaptured)
        BY <2>1, <2>3, SubSeqProperties
  <2> QED BY <2>4 DEF Left, start, last
<1>3. Singles(pending) \in Seq(Frame) /\ Singles(Left) \in Seq(Frame)
      BY <1>1, <1>2, SinglesFacts DEF Frame
<1>4. Source \in Seq(Frame)
      BY <1>3, ConcatProperties DEF Source
<1>5. fxIn \o proc \in Seq(Frame)
      BY <1>1, ConcatProperties
<1>6. Held \in Seq(Frame)
      BY <1>1, <1>5, ConcatProperties DEF Held
<1>7. \A p \in {"plain", "processed"} :
          Of(p, out) \in Seq(Frame) /\ Of(p, read) \in Seq(Frame)
      BY <1>1, EmptyFrames DEF Of
<1>8. Held \o Of("processed", read) \in Seq(Frame) /\ Held \o read \in Seq(Frame)
      BY <1>1, <1>6, <1>7, ConcatProperties
<1>9. /\ Of("processed", out) \o (Held \o Of("processed", read)) \in Seq(Frame)
      /\ Of("plain", out) \o Of("plain", read) \in Seq(Frame)
      /\ out \o (Held \o read) \in Seq(Frame)
      BY <1>1, <1>7, <1>8, ConcatProperties
<1>10. delivered["processed"] \o (out \o (Held \o read)) \in Seq(Frame)
      BY <1>1, <1>9, ConcatProperties
<1>11. ProcHere \in Seq(Frame) /\ PlainHere \in Seq(Frame) /\ AllHere \in Seq(Frame)
      BY <1>1, <1>9, <1>10, ConcatProperties DEF ProcHere, PlainHere, AllHere
<1> QED BY <1>1, <1>2, <1>3, <1>4, <1>6, <1>7, <1>11

LEMMA HereTypes ==
    Typed => /\ Source \in Seq(Frame) /\ ProcHere \in Seq(Frame)
             /\ PlainHere \in Seq(Frame) /\ AllHere \in Seq(Frame)
BY WayTypes

LEMMA HereTypesNext ==
    (Typed => /\ Source \in Seq(Frame) /\ ProcHere \in Seq(Frame)
              /\ PlainHere \in Seq(Frame) /\ AllHere \in Seq(Frame))'
BY HereTypes, PTL

LEMMA HeldNext == (Typed => Held \in Seq(Frame))'
<1>1. Typed => Held \in Seq(Frame)
      BY WayTypes
<1> QED BY <1>1, PTL

LEMMA EverywhereIs == ASSUME Typed PROVE Everywhere = AllHere \o Source
<1> DEFINE dp  == delivered["plain"]
           dx  == delivered["processed"]
           sp  == Singles(pending)
           sl  == Singles(Left)
<1>1. /\ dp \in Seq(Frame) /\ dx \in Seq(Frame) /\ sp \in Seq(Frame) /\ sl \in Seq(Frame)
      /\ fxIn \in Seq(Frame) /\ fxOut \in Seq(Frame) /\ proc \in Seq(Frame)
      /\ out \in Seq(Frame) /\ read \in Seq(Frame)
      /\ Held \in Seq(Frame) /\ Source \in Seq(Frame)
      BY WayTypes DEF Typed
<1> HIDE DEF dp, dx, sp, sl
<1>2. Assoc(fxOut, fxIn, proc)
      BY <1>1, ConcatAssoc
<1>3. Held \o read \in Seq(Frame) /\ dp \o dx \in Seq(Frame)
      BY <1>1, ConcatProperties
<1>4. Assoc(Held \o read, sp, sl)
      BY <1>1, <1>3, ConcatAssoc
<1>5. OnTheWay = (Held \o read) \o Source
      BY ONLY <1>2, <1>4 DEF OnTheWay, Source, Held, Assoc, sp, sl
<1>6. out \o (Held \o read) \in Seq(Frame) /\ (Held \o read) \o Source \in Seq(Frame)
      BY <1>1, <1>3, ConcatProperties
<1>7. /\ dx \o (out \o (Held \o read)) \in Seq(Frame)
      /\ (out \o (Held \o read)) \o Source \in Seq(Frame)
      BY <1>1, <1>6, ConcatProperties
<1>8. Assoc(dp \o dx, out, (Held \o read) \o Source)
      BY <1>1, <1>3, <1>6, ConcatAssoc
<1>9. Assoc(out, Held \o read, Source)
      BY <1>1, <1>3, ConcatAssoc
<1>10. Assoc(dp, dx, (out \o (Held \o read)) \o Source)
      BY <1>1, <1>7, ConcatAssoc
<1>11. Assoc(dx, out \o (Held \o read), Source)
      BY <1>1, <1>6, ConcatAssoc
<1>12. Assoc(dp, dx \o (out \o (Held \o read)), Source)
      BY <1>1, <1>7, ConcatAssoc
<1>13. ((dp \o dx) \o out) \o ((Held \o read) \o Source)
         = (dp \o (dx \o (out \o (Held \o read)))) \o Source
      BY ONLY <1>8, <1>9, <1>10, <1>11, <1>12 DEF Assoc
<1> QED BY ONLY <1>5, <1>13 DEF Everywhere, AllHere, dp, dx

-----------------------------------------------------------------------------
(* Frames in order *)

LEMMA OrderInit == Init => OrderInv
<1> SUFFICES ASSUME Init PROVE OrderInv
    OBVIOUS
<1> DEFINE e == << >>
<1>1. /\ e \in Seq(Frame) /\ e \o e = e
      /\ Sorted(e) /\ Singles(e) = e
  <2>1. e \in Seq(Frame) /\ e \o e = e
        BY EmptyFrames, ConcatEmptySeq
  <2>2. Sorted(e)
        BY DEF Sorted
  <2>3. Singles(e) = e
        BY DEF Singles
  <2> QED BY <2>1, <2>2, <2>3
<1>2. Left = e
  <2>1. Left = SubSeq(e, Len(e) - 0 + 1, Len(e))
        BY DEF Init, Left
  <2>2. Len(e) = 0
        BY EmptyFrames
  <2>3. SubSeq(e, 1, 0) = e
        BY SubSeqEmpty
  <2> QED BY <2>1, <2>2, <2>3
<1>3. /\ Of("processed", out) = e /\ Of("processed", read) = e
      /\ Of("plain", out) = e /\ Of("plain", read) = e
      /\ delivered["plain"] = e /\ delivered["processed"] = e
      /\ fxIn = e /\ fxOut = e /\ proc = e /\ pending = e
      BY DEF Init, Of
<1> HIDE DEF e
<1>4. Held = e /\ Source = e
      BY <1>1, <1>2, <1>3 DEF Held, Source
<1>5. ProcHere = e /\ PlainHere = e
      BY <1>1, <1>3, <1>4 DEF ProcHere, PlainHere
<1> QED BY <1>1, <1>4, <1>5 DEF OrderInv, e

LEMMA WithinSame == ASSUME NEW s PROVE Within(s, s)
BY DEF Within

LEMMA OrderKept ==
    ASSUME Typed, Typed', OrderInv, ratio' = ratio, Source' = Source,
           Within(ProcHere', ProcHere), Within(PlainHere', PlainHere)
    PROVE  OrderInv'
<1>1. /\ ProcHere \in Seq(Frame) /\ PlainHere \in Seq(Frame) /\ Source \in Seq(Frame)
      BY WayTypes
<1>2. ProcHere' \in Seq(Frame) /\ PlainHere' \in Seq(Frame)
      BY HereTypesNext
<1>3. Within(ProcHere' \o Source, ProcHere \o Source)
      BY <1>1, <1>2, WithinConcat
<1>4. Within(PlainHere' \o Source, PlainHere \o Source)
      BY <1>1, <1>2, WithinConcat
<1>5. PlainHere \o << >> = PlainHere /\ PlainHere' \o << >> = PlainHere'
      BY <1>1, <1>2, ConcatEmptySeq
<1> QED BY <1>3, <1>4, <1>5 DEF OrderInv, Within

\* of the two paths, the one of the call holds what is in hand
LEMMA OfPath ==
    Typed => /\ effects = 1 => \A s : Of("processed", s) = s /\ Of("plain", s) = << >>
             /\ effects = 0 => \A s : Of("processed", s) = << >> /\ Of("plain", s) = s
<1>1. ASSUME Typed, effects = 1 PROVE \A s : Of("processed", s) = s /\ Of("plain", s) = << >>
      BY <1>1 DEF Of, Path
<1>2. ASSUME Typed, effects = 0 PROVE \A s : Of("processed", s) = << >> /\ Of("plain", s) = s
      BY <1>2 DEF Of, Path
<1> QED BY <1>1, <1>2

LEMMA OfPathNext ==
    (Typed => /\ effects = 1 => \A s : Of("processed", s) = s /\ Of("plain", s) = << >>
              /\ effects = 0 => \A s : Of("processed", s) = << >> /\ Of("plain", s) = s)'
BY OfPath, PTL

\* the steps that leave every buffer, and the frames in hand, alone
Steady ==
    /\ UNCHANGED <<ratio, captured, buffer, frames_in, pending>>
    /\ UNCHANGED <<fxIn, fxOut, proc, read, out, delivered, lost>>
    /\ effects' = effects \/ (read = << >> /\ out = << >>)

LEMMA SteadySteps ==
    ASSUME BufferInv,
           \/ standby \/ in_add_audio_effect \/ (\E n \in Requests : in_read(n))
           \/ process_frames \/ UNCHANGED vars
    PROVE  Steady
<1> USE DEF vars, streamVars, sourceVars, procVars, callVars, Steady
<1>1. CASE standby
      BY <1>1 DEF standby
<1>2. CASE in_add_audio_effect
      BY <1>2 DEF in_add_audio_effect, BufferInv, CallInv
<1>3. CASE \E n \in Requests : in_read(n)
      BY <1>3 DEF in_read
<1>4. CASE process_frames
      BY <1>4 DEF process_frames
<1>5. CASE UNCHANGED vars
      BY <1>5
<1> QED BY <1>1, <1>2, <1>3, <1>4, <1>5

LEMMA SteadySame ==
    ASSUME Steady
    PROVE  /\ Source' = Source /\ Held' = Held
           /\ ProcHere' = ProcHere /\ PlainHere' = PlainHere /\ AllHere' = AllHere
<1>1. Source' = Source /\ Held' = Held /\ delivered' = delivered
      BY DEF Steady, Source, Held, Left
<1>2. /\ Of("processed", out)' = Of("processed", out)
      /\ Of("processed", read)' = Of("processed", read)
      /\ Of("plain", out)' = Of("plain", out)
      /\ Of("plain", read)' = Of("plain", read)
  <2>1. CASE effects' = effects
        BY <2>1 DEF Steady, Of, Path
  <2>2. CASE read = << >> /\ out = << >>
        BY <2>2 DEF Steady, Of
  <2> QED BY <2>1, <2>2 DEF Steady
<1>3. AllHere' = AllHere
      BY <1>1 DEF AllHere, Steady
<1> QED BY <1>1, <1>2, <1>3 DEF ProcHere, PlainHere

LEMMA OrderSteady ==
    ASSUME OrderInv, Steady PROVE OrderInv'
BY SteadySame DEF OrderInv, Steady

(* The rest of a step of a call: what is in hand, at the effect and        *)
(* delivered changes, on the path of the call.                             *)
LEMMA EffectHolds ==
    ASSUME BufferInv, process_effects
    PROVE  out' \o Held' = out \o Held
<1>1. /\ proc' \in Seq(Frame) /\ fxIn' \in Seq(Frame) /\ fxOut' \in Seq(Frame)
      /\ proc \in Seq(Frame) /\ fxIn \in Seq(Frame) /\ fxOut \in Seq(Frame)
      /\ out \in Seq(Frame)
      BY EffectMoves DEF BufferInv, Typed
<1>2. PICK taken \in Seq(Frame), ready \in Seq(Frame), given \in Seq(Frame) :
         /\ proc = taken \o proc'
         /\ ready \o fxIn' = fxOut \o (fxIn \o taken)
         /\ ready = given \o fxOut'
         /\ out' = out \o given
      BY EffectMoves
<1> DEFINE x == fxIn'
           y == fxOut'
           z == proc'
<1>3. /\ x \in Seq(Frame) /\ y \in Seq(Frame) /\ z \in Seq(Frame)
      /\ proc = taken \o z /\ ready \o x = fxOut \o (fxIn \o taken)
      /\ ready = given \o y /\ out' = out \o given /\ Held' = y \o (x \o z)
      BY <1>1, <1>2 DEF Held
<1> HIDE DEF x, y, z
<1>4. x \o z \in Seq(Frame) /\ y \o (x \o z) \in Seq(Frame) /\ fxIn \o taken \in Seq(Frame)
      BY <1>1, <1>3, ConcatProperties
<1>5. /\ Assoc(out, given, y \o (x \o z))
      /\ Assoc(given, y, x \o z)
      /\ Assoc(ready, x, z)
      BY <1>1, <1>3, <1>4, ConcatAssoc
<1>6. /\ Assoc(fxOut, fxIn \o taken, z)
      /\ Assoc(fxIn, taken, z)
      BY <1>1, <1>3, <1>4, ConcatAssoc
<1>7. (out \o given) \o (y \o (x \o z)) = out \o (ready \o (x \o z))
      BY ONLY <1>3, <1>5 DEF Assoc
<1>8. ready \o (x \o z) = (fxOut \o (fxIn \o taken)) \o z
      BY ONLY <1>3, <1>5 DEF Assoc
<1>9. (fxOut \o (fxIn \o taken)) \o z = Held
      BY ONLY <1>3, <1>6 DEF Assoc, Held
<1> QED BY ONLY <1>3, <1>7, <1>8, <1>9

LEMMA OrderEffects ==
    ASSUME BufferInv, BufferInv', OrderInv, process_effects PROVE OrderInv'
<1>1. /\ effects = 1 /\ effects' = 1 /\ ratio' = ratio /\ delivered' = delivered
      /\ read = << >> /\ read' = << >> /\ Source' = Source
      BY DEF process_effects, streamVars, sourceVars, BufferInv, CallInv, Source, Left
<1>2. Typed /\ Typed'
      BY DEF BufferInv
<1>3. PlainHere' = PlainHere
      BY <1>1, <1>2, OfPath, OfPathNext DEF PlainHere
<1>4. ProcHere' = ProcHere
  <2>1. out' \o Held' = out \o Held
        BY EffectHolds
  <2>2. /\ ProcHere = delivered["processed"] \o (out \o (Held \o << >>))
        /\ ProcHere' = delivered["processed"] \o (out' \o (Held' \o << >>))
        BY <1>1, <1>2, OfPath, OfPathNext DEF ProcHere
  <2>3. Held \o << >> = Held /\ Held' \o << >> = Held'
        BY <1>2, WayTypes, HeldNext, ConcatEmptySeq
  <2> QED BY <2>1, <2>2, <2>3
<1> QED BY <1>1, <1>2, <1>3, <1>4, WithinSame, OrderKept

\* what is read goes behind what is held, or to AudioFlinger's buffer
LEMMA OrderReadDone ==
    ASSUME BufferInv, BufferInv', OrderInv, frames_read PROVE OrderInv'
<1>1. /\ effects' = effects /\ ratio' = ratio /\ delivered' = delivered /\ Source' = Source
      /\ fxIn' = fxIn /\ fxOut' = fxOut /\ read' = << >> /\ pc = "read"
      BY DEF frames_read, streamVars, sourceVars, Source, Left
<1>2. /\ Typed /\ Typed' /\ Held \in Seq(Frame) /\ Held' \in Seq(Frame)
      /\ fxIn \in Seq(Frame) /\ fxOut \in Seq(Frame) /\ proc \in Seq(Frame)
      /\ read \in Seq(Frame)
      BY WayTypes, HeldNext DEF BufferInv, Typed
<1>3. CASE effects = 1
  <2>1. proc' = proc \o read /\ out' = out
        BY <1>3 DEF frames_read
  <2>2. Held' = Held \o read
    <3>1. proc \o read \in Seq(Frame) /\ fxIn \o proc \in Seq(Frame)
          BY <1>2, ConcatProperties
    <3>2. Assoc(fxIn, proc, read) /\ Assoc(fxOut, fxIn \o proc, read)
          BY <1>2, <3>1, ConcatAssoc
    <3> QED BY <1>1, <2>1, <3>2 DEF Assoc, Held
  <2>3. /\ ProcHere = delivered["processed"] \o (out \o (Held \o read))
        /\ ProcHere' = delivered["processed"] \o (out \o (Held' \o << >>))
        BY <1>1, <1>2, <1>3, <2>1, OfPath, OfPathNext DEF ProcHere
  <2>4. Held' \o << >> = Held'
        BY <1>2, ConcatEmptySeq
  <2>5. ProcHere' = ProcHere
        BY <2>2, <2>3, <2>4
  <2>6. PlainHere' = PlainHere
        BY <1>1, <1>2, <1>3, OfPath, OfPathNext DEF PlainHere
  <2> QED BY <1>1, <1>2, <2>5, <2>6, WithinSame, OrderKept
<1>4. CASE effects = 0
  <2>1. proc' = proc /\ out' = read /\ out = << >>
        BY <1>1, <1>4 DEF frames_read, BufferInv, CallInv
  <2>2. ProcHere' = ProcHere
        BY <1>1, <1>2, <1>4, <2>1, OfPath, OfPathNext DEF ProcHere, Held
  <2>3. /\ PlainHere = delivered["plain"] \o (<< >> \o read)
        /\ PlainHere' = delivered["plain"] \o (read \o << >>)
        BY <1>1, <1>2, <1>4, <2>1, OfPath, OfPathNext DEF PlainHere
  <2>4. << >> \o read = read /\ read \o << >> = read
        BY <1>2, ConcatEmptySeq
  <2>5. PlainHere' = PlainHere
        BY <2>3, <2>4
  <2> QED BY <1>1, <1>2, <2>2, <2>5, WithinSame, OrderKept
<1> QED BY <1>2, <1>3, <1>4 DEF Typed

LEMMA OrderError ==
    ASSUME BufferInv, BufferInv', OrderInv, read_error PROVE OrderInv'
<1>1. /\ effects' = effects /\ ratio' = ratio /\ delivered' = delivered /\ Source' = Source
      /\ Held' = Held /\ read' = << >> /\ pc = "read"
      BY DEF read_error, streamVars, sourceVars, procVars, Source, Left, Held
<1>2. /\ Typed /\ Typed' /\ Held \in Seq(Frame) /\ out \in Seq(Frame)
      /\ read \in Seq(Frame) /\ << >> \in Seq(Frame)
      /\ delivered["processed"] \in Seq(Frame)
      BY WayTypes, EmptyFrames DEF BufferInv, Typed
<1>3. CASE effects = 1
  <2>1. out' = out
        BY <1>3 DEF read_error
  <2>2. /\ ProcHere = delivered["processed"] \o (out \o (Held \o read))
        /\ ProcHere' = delivered["processed"] \o (out \o (Held \o << >>))
        BY <1>1, <1>2, <1>3, <2>1, OfPath, OfPathNext DEF ProcHere
  <2>3. Within(Held \o << >>, Held \o read)
        BY <1>2, WithinEmpty, WithinConcat
  <2>4. /\ Held \o << >> \in Seq(Frame) /\ Held \o read \in Seq(Frame)
        /\ out \o (Held \o << >>) \in Seq(Frame) /\ out \o (Held \o read) \in Seq(Frame)
    <3>1. Held \o << >> \in Seq(Frame) /\ Held \o read \in Seq(Frame)
          BY <1>2, ConcatProperties
    <3> QED BY <1>2, <3>1, ConcatProperties
  <2>5. Within(out \o (Held \o << >>), out \o (Held \o read))
        BY <1>2, <2>3, <2>4, WithinConcat
  <2>6. Within(ProcHere', ProcHere)
        BY <1>2, <2>2, <2>4, <2>5, WithinConcat
  <2>7. PlainHere' = PlainHere
        BY <1>1, <1>2, <1>3, OfPath, OfPathNext DEF PlainHere
  <2> QED BY <1>1, <1>2, <2>6, <2>7, WithinSame, OrderKept
<1>4. CASE effects = 0
  <2>1. out' = read /\ out = << >>
        BY <1>1, <1>4 DEF read_error, BufferInv, CallInv
  <2>2. ProcHere' = ProcHere
        BY <1>1, <1>2, <1>4, <2>1, OfPath, OfPathNext DEF ProcHere
  <2>3. /\ PlainHere = delivered["plain"] \o (<< >> \o read)
        /\ PlainHere' = delivered["plain"] \o (read \o << >>)
        BY <1>1, <1>2, <1>4, <2>1, OfPath, OfPathNext DEF PlainHere
  <2>4. << >> \o read = read /\ read \o << >> = read
        BY <1>2, ConcatEmptySeq
  <2>5. PlainHere' = PlainHere
        BY <2>3, <2>4
  <2> QED BY <1>1, <1>2, <2>2, <2>5, WithinSame, OrderKept
<1> QED BY <1>2, <1>3, <1>4 DEF Typed

LEMMA OrderReturn ==
    ASSUME BufferInv, BufferInv', OrderInv, return PROVE OrderInv'
<1>1. /\ effects' = effects /\ ratio' = ratio /\ Source' = Source
      /\ Held' = Held /\ read' = << >> /\ read = << >> /\ out' = << >>
      /\ delivered' = [delivered EXCEPT ![Path] = @ \o out]
      BY DEF return, streamVars, sourceVars, procVars, Source, Left, Held, BufferInv, CallInv
<1>2. /\ Typed /\ Typed' /\ Held \in Seq(Frame) /\ out \in Seq(Frame)
      /\ << >> \in Seq(Frame)
      /\ delivered["processed"] \in Seq(Frame) /\ delivered["plain"] \in Seq(Frame)
      /\ delivered \in [{"plain", "processed"} -> Seq(Frame)]
      BY WayTypes, EmptyFrames DEF BufferInv, Typed
<1>3. CASE effects = 1
  <2>1. /\ delivered'["processed"] = delivered["processed"] \o out
        /\ delivered'["plain"] = delivered["plain"]
        BY <1>1, <1>2, <1>3 DEF Path
  <2>2. /\ ProcHere = delivered["processed"] \o (out \o (Held \o << >>))
        /\ ProcHere' = (delivered["processed"] \o out) \o (<< >> \o (Held \o << >>))
        BY <1>1, <1>2, <1>3, <2>1, OfPath, OfPathNext DEF ProcHere
  <2>3. Held \o << >> \in Seq(Frame)
        BY <1>2, ConcatProperties
  <2>4. << >> \o (Held \o << >>) = Held \o << >>
        BY <2>3, ConcatEmptySeq
  <2>5. Assoc(delivered["processed"], out, Held \o << >>)
        BY <1>2, <2>3, ConcatAssoc
  <2>6. ProcHere' = ProcHere
        BY <2>2, <2>4, <2>5 DEF Assoc
  <2>7. PlainHere' = PlainHere
        BY <1>1, <1>2, <1>3, <2>1, OfPath, OfPathNext DEF PlainHere
  <2> QED BY <1>1, <1>2, <2>6, <2>7, WithinSame, OrderKept
<1>4. CASE effects = 0
  <2>1. /\ delivered'["plain"] = delivered["plain"] \o out
        /\ delivered'["processed"] = delivered["processed"]
        BY <1>1, <1>2, <1>4 DEF Path
  <2>2. /\ PlainHere = delivered["plain"] \o (out \o << >>)
        /\ PlainHere' = (delivered["plain"] \o out) \o (<< >> \o << >>)
        BY <1>1, <1>2, <1>4, <2>1, OfPath, OfPathNext DEF PlainHere
  <2>3. << >> \o << >> = << >>
        BY <1>2, ConcatEmptySeq
  <2>4. Assoc(delivered["plain"], out, << >>)
        BY <1>2, ConcatAssoc
  <2>5. PlainHere' = PlainHere
        BY <2>2, <2>3, <2>4 DEF Assoc
  <2>6. ProcHere' = ProcHere
        BY <1>1, <1>2, <1>4, <2>1, OfPath, OfPathNext DEF ProcHere
  <2> QED BY <1>1, <1>2, <2>5, <2>6, WithinSame, OrderKept
<1> QED BY <1>2, <1>3, <1>4 DEF Typed

\* the effect's frames are gone, the others stay in order
LEMMA OrderRemove ==
    ASSUME BufferInv, BufferInv', OrderInv, in_remove_audio_effect PROVE OrderInv'
<1>1. /\ effects = 1 /\ effects' = 0 /\ ratio' = ratio /\ delivered' = delivered
      /\ Source' = Source /\ fxIn' = << >> /\ fxOut' = << >> /\ proc' = proc
      /\ out = << >> /\ read = << >> /\ out' = << >> /\ read' = << >>
      BY DEF in_remove_audio_effect, sourceVars, callVars, Source, Left, BufferInv, CallInv
<1>2. /\ Typed /\ Typed' /\ Held \in Seq(Frame) /\ Held' \in Seq(Frame)
      /\ fxIn \in Seq(Frame) /\ fxOut \in Seq(Frame) /\ proc \in Seq(Frame)
      /\ << >> \in Seq(Frame) /\ delivered["processed"] \in Seq(Frame)
      BY WayTypes, HeldNext, EmptyFrames DEF BufferInv, Typed
<1>3. Within(Held', Held)
  <2>1. Within(<< >> \o proc, fxIn \o proc)
        BY <1>2, WithinEmpty, WithinConcat
  <2>2. << >> \o proc \in Seq(Frame) /\ fxIn \o proc \in Seq(Frame)
        BY <1>2, ConcatProperties
  <2>3. Within(<< >> \o (<< >> \o proc), << >> \o (fxIn \o proc))
        BY <1>2, <2>1, <2>2, WithinConcat
  <2>4. Within(<< >> \o (fxIn \o proc), fxOut \o (fxIn \o proc))
        BY <1>2, <2>2, WithinEmpty, WithinConcat
  <2> QED BY <1>1, <2>3, <2>4, WithinSteps DEF Held
<1>4. /\ ProcHere = delivered["processed"] \o (<< >> \o (Held \o << >>))
      /\ ProcHere' = delivered["processed"] \o (<< >> \o (Held' \o << >>))
      BY <1>1, <1>2, OfPath, OfPathNext DEF ProcHere
<1>5. /\ Held \o << >> = Held /\ Held' \o << >> = Held'
      /\ << >> \o Held = Held /\ << >> \o Held' = Held'
      BY <1>2, ConcatEmptySeq
<1>6. Within(ProcHere', ProcHere)
      BY <1>2, <1>3, <1>4, <1>5, WithinConcat
<1>7. PlainHere' = PlainHere
      BY <1>1, <1>2, OfPath, OfPathNext DEF PlainHere
<1> QED BY <1>1, <1>2, <1>6, <1>7, WithinSame, OrderKept

\* the frames left in in->buffer after a step are frames of the buffer
LEMMA LeftNext == (Typed => Left \in Seq(1..MaxCaptured))'
<1>1. Typed => Left \in Seq(1..MaxCaptured)
      BY WayTypes
<1> QED BY <1>1, PTL

LEMMA NothingLeft ==
    ASSUME Typed, frames_in = 0 PROVE Left = << >>
<1>1. Len(buffer) \in Nat
      BY LenProperties DEF Typed
<1>2. Left = SubSeq(buffer, Len(buffer) + 1, Len(buffer))
      BY <1>1 DEF Left
<1> QED BY <1>1, <1>2, SubSeqEmpty

LEMMA NothingLeftNext == (Typed /\ frames_in = 0 => Left = << >>)'
<1>1. Typed /\ frames_in = 0 => Left = << >>
      BY NothingLeft
<1> QED BY <1>1, PTL

LEMMA SinglesEmpty == Singles(<< >>) = << >>
BY DEF Singles

(* What read_frames does to a line of frames X that ends where in->buffer  *)
(* and the resampler go on: what is read goes to its end, and the line as  *)
(* a whole, with what was captured for it, is in order and apart as before. *)
LEMMA ReadLine ==
    ASSUME BufferInv, BufferInv', read_frames
    PROVE  \E r \in Seq(Frame) :
              /\ read' = read \o r
              /\ \A X \in Seq(Frame) :
                    Numbers(X \o Source) \subseteq 1..captured =>
                      /\ Sorted(X \o Source) =>
                            Sorted((X \o r) \o Source') /\ Sorted(X \o Source')
                      /\ Apart(X \o Source) => Apart((X \o r) \o Source')
                      /\ Numbers((X \o r) \o Source')
                           = Numbers(X \o Source) \union (captured + 1..captured')
<1>1. PICK old \in Seq(1..MaxCaptured), got \in Seq(1..MaxCaptured) :
                /\ \/ captured' = captured /\ old = Left
                   \/ /\ frames_in = 0 /\ old = NextFrames(period_size)
                      /\ captured + period_size <= MaxCaptured
                      /\ captured' = captured + period_size
                /\ got \o Left' = pending \o old
                /\ read' = read \o Resampled(got)
                /\ pending' = Drop(got, ratio * (Len(got) \div ratio))
      BY ReadMoves
<1> DEFINE f   == First(got, ratio * (Len(got) \div ratio))
           d   == pending'
           l   == Left'
           r   == Resampled(got)
           sf  == Singles(f)
           sd  == Singles(d)
           sl  == Singles(l)
           sp  == Singles(pending)
           so  == Singles(old)
           now == Source'
<1>2. /\ Typed /\ Typed' /\ ratio \in Nat \ {0} /\ period_size \in Nat /\ captured \in Nat
      /\ pending \in Seq(1..MaxCaptured) /\ l \in Seq(1..MaxCaptured)
      /\ Source \in Seq(Frame)
      BY CaptureAssumption, WayTypes, LeftNext DEF BufferInv, Typed
<1>3. /\ f \in Seq(1..MaxCaptured) /\ Within(r, sf) /\ Numbers(r) = Numbers(sf)
      BY <1>2, ResampledWithin
<1>4. r \in Seq(Frame)
      BY <1>2, ResampledFacts DEF Frame
<1>5. got = f \o d /\ d \in Seq(1..MaxCaptured)
  <2>1. ratio * (Len(got) \div ratio) \in 0..Len(got)
        BY <1>2, ResampledFacts
  <2> QED BY <1>1, <2>1, FirstDrop
<1>6. now = sd \o sl
      BY DEF Source
<1>7. read' = read \o r
      BY <1>1
<1>8. (f \o d) \o l = pending \o old
      BY <1>1, <1>5
<1> HIDE DEF f, d, l, r, now
<1>9. /\ sf \in Seq(Frame) /\ sd \in Seq(Frame) /\ sl \in Seq(Frame)
      /\ sp \in Seq(Frame) /\ so \in Seq(Frame)
      BY <1>2, <1>3, <1>5, SinglesFacts DEF Frame
<1>10. sp \o so = sf \o now
  <2>1. d \o l \in Seq(1..MaxCaptured) /\ Assoc(f, d, l)
        BY <1>2, <1>3, <1>5, ConcatAssoc, ConcatProperties
  <2>2. f \o (d \o l) = pending \o old
        BY ONLY <1>8, <2>1 DEF Assoc
  <2>3. Singles(pending \o old) = sp \o so
        BY <1>2, SinglesConcat
  <2>4. Singles(f \o (d \o l)) = sf \o Singles(d \o l)
        BY <1>3, <2>1, SinglesConcat
  <2>5. Singles(d \o l) = sd \o sl
        BY <1>2, <1>5, SinglesConcat
  <2> QED BY ONLY <1>6, <2>2, <2>3, <2>4, <2>5
<1> HIDE DEF sf, sd, sl, sp, so
<1>11. now \in Seq(Frame)
      BY <1>6, <1>9, ConcatProperties
<1>12. r \o now \in Seq(Frame) /\ sf \o now \in Seq(Frame)
      BY <1>4, <1>9, <1>11, ConcatProperties
<1>13. Within(r \o now, sf \o now) /\ Numbers(r \o now) = Numbers(sf \o now)
  <2>1. Within(r \o now, sf \o now)
        BY <1>3, <1>4, <1>9, <1>11, WithinConcat
  <2>2. /\ Numbers(r \o now) = Numbers(r) \union Numbers(now)
        /\ Numbers(sf \o now) = Numbers(sf) \union Numbers(now)
        BY <1>4, <1>9, <1>11, NumbersConcat
  <2> QED BY <1>3, <2>1, <2>2
<1>14. Within(now, sf \o now)
  <2>1. Within(<< >> \o now, sf \o now)
        BY <1>9, <1>11, EmptyFrames, WithinEmpty, WithinConcat
  <2> QED BY <1>11, <2>1, ConcatEmptySeq
<1>15. ASSUME NEW X \in Seq(Frame), Numbers(X \o Source) \subseteq 1..captured
       PROVE  /\ Sorted(X \o Source) => Sorted(X \o (sp \o so))
              /\ Apart(X \o Source) => Apart(X \o (sp \o so))
              /\ Numbers(X \o (sp \o so)) = Numbers(X \o Source) \union (captured + 1..captured')
  <2>1. CASE captured' = captured /\ old = Left
    <3>1. sp \o so = Source
          BY <2>1 DEF sp, so, Source
    <3>2. captured + 1..captured' = {}
          BY <1>2, <2>1
    <3> QED BY <3>1, <3>2
  <2>2. CASE /\ frames_in = 0 /\ old = NextFrames(period_size)
             /\ captured + period_size <= MaxCaptured
             /\ captured' = captured + period_size
    <3>1. Source = sp
      <4>1. Left = << >>
            BY <1>2, <2>2, NothingLeft
      <4>2. Source = sp \o << >>
            BY <4>1, SinglesEmpty DEF sp, Source
      <4> QED BY <1>9, <4>2, ConcatEmptySeq
    <3>2. X \o sp \in Seq(Frame) /\ Assoc(X, sp, so)
      <4>1. sp \in Seq(Frame) /\ so \in Seq(Frame)
            BY <1>9
      <4> HIDE DEF sp, so
      <4>2. X \o sp \in Seq(Frame)
            BY <4>1, ConcatProperties
      <4>3. Assoc(X, sp, so)
            BY <4>1, ConcatAssoc
      <4> QED BY <4>2, <4>3
    <3>3. Numbers(so) = captured + 1..captured' /\ Sorted(so) /\ Apart(so)
          BY <1>2, <2>2, NewSingles DEF so
    <3>4. Numbers((X \o sp) \o so) = Numbers(X \o sp) \union Numbers(so)
      <4> DEFINE x == X \o sp
      <4>1. x \in Seq(Frame) /\ so \in Seq(Frame)
            BY <1>9, <3>2
      <4> HIDE DEF x, so
      <4>2. Numbers(x \o so) = Numbers(x) \union Numbers(so)
            BY <4>1, Joined
      <4> QED BY <4>2 DEF x
    <3>5. captured' \in Nat /\ Numbers(X \o sp) \subseteq 1..captured
          BY <1>2, <1>15, <2>2, <3>1
    <3>6. /\ Sorted(X \o sp) => Sorted((X \o sp) \o so)
          /\ Apart(X \o sp) => Apart((X \o sp) \o so)
          BY <1>2, <1>9, <3>2, <3>3, <3>5, CapturedBehind
    <3> QED BY ONLY <3>1, <3>2, <3>3, <3>4, <3>6 DEF Assoc
  <2> QED BY <1>1, <2>1, <2>2
<1>16. ASSUME NEW X \in Seq(Frame), Numbers(X \o Source) \subseteq 1..captured
       PROVE  /\ Sorted(X \o Source) => Sorted((X \o r) \o now) /\ Sorted(X \o now)
              /\ Apart(X \o Source) => Apart((X \o r) \o now)
              /\ Numbers((X \o r) \o now)
                   = Numbers(X \o Source) \union (captured + 1..captured')
  <2>1. Assoc(X, r, now)
        BY <1>4, <1>11, ConcatAssoc
  <2>2. Within(X \o (r \o now), X \o (sf \o now)) /\ Within(X \o now, X \o (sf \o now))
        BY <1>11, <1>12, <1>13, <1>14, WithinConcat
  <2>3. /\ Numbers(X \o (r \o now)) = Numbers(X) \union Numbers(r \o now)
        /\ Numbers(X \o (sf \o now)) = Numbers(X) \union Numbers(sf \o now)
    <3> DEFINE p == r \o now
               q == sf \o now
    <3>1. X \in Seq(Frame) /\ p \in Seq(Frame) /\ q \in Seq(Frame)
          BY <1>12
    <3> HIDE DEF p, q
    <3>2. /\ Numbers(X \o p) = Numbers(X) \union Numbers(p)
          /\ Numbers(X \o q) = Numbers(X) \union Numbers(q)
          BY ONLY <3>1, NumbersConcat
    <3> QED BY <3>2 DEF p, q
  <2>4. /\ Sorted(X \o Source) => Sorted(X \o (sf \o now))
        /\ Apart(X \o Source) => Apart(X \o (sf \o now))
        /\ Numbers(X \o (sf \o now)) = Numbers(X \o Source) \union (captured + 1..captured')
        BY ONLY <1>10, <1>15, <1>16
  <2>5. /\ Sorted(X \o Source) => Sorted(X \o (r \o now)) /\ Sorted(X \o now)
        /\ Apart(X \o Source) => Apart(X \o (r \o now))
        /\ Numbers(X \o (r \o now)) = Numbers(X \o Source) \union (captured + 1..captured')
        BY ONLY <1>13, <2>2, <2>3, <2>4 DEF Within
  <2> QED BY ONLY <2>1, <2>5 DEF Assoc
<1> QED BY <1>4, <1>7, <1>16 DEF now

LEMMA HereNumbers ==
    ASSUME Typed
    PROVE  /\ Numbers(AllHere) =
                Numbers(delivered["plain"]) \union (Numbers(delivered["processed"]) \union
                  (Numbers(out) \union (Numbers(Held) \union Numbers(read))))
           /\ Numbers(AllHere \o Source) = Numbers(AllHere) \union Numbers(Source)
           /\ Numbers(ProcHere \o Source) \subseteq Numbers(AllHere \o Source)
           /\ Numbers(PlainHere \o Source) \subseteq Numbers(AllHere \o Source)
<1> DEFINE a == delivered["plain"]
           b == delivered["processed"]
           c == Of("processed", out)
           d == Of("processed", read)
           g == Of("plain", out)
           h == Of("plain", read)
<1>1. /\ a \in Seq(Frame) /\ b \in Seq(Frame) /\ c \in Seq(Frame) /\ d \in Seq(Frame)
      /\ g \in Seq(Frame) /\ h \in Seq(Frame) /\ out \in Seq(Frame) /\ read \in Seq(Frame)
      /\ Held \in Seq(Frame) /\ Source \in Seq(Frame)
      /\ ProcHere \in Seq(Frame) /\ PlainHere \in Seq(Frame) /\ AllHere \in Seq(Frame)
      BY WayTypes DEF Typed
<1>2. /\ Numbers(c) \subseteq Numbers(out) /\ Numbers(d) \subseteq Numbers(read)
      /\ Numbers(g) \subseteq Numbers(out) /\ Numbers(h) \subseteq Numbers(read)
      BY NumbersEmpty DEF Of
<1>3. /\ AllHere = a \o (b \o (out \o (Held \o read)))
      /\ ProcHere = b \o (c \o (Held \o d))
      /\ PlainHere = a \o (g \o h)
      BY DEF AllHere, ProcHere, PlainHere
<1> HIDE DEF a, b, c, d, g, h
<1> DEFINE hr  == Held \o read
           hd  == Held \o d
           gh  == g \o h
           ohr == out \o hr
           chd == c \o hd
           all == b \o ohr
<1>4. /\ hr \in Seq(Frame) /\ Numbers(hr) = Numbers(Held) \union Numbers(read)
      /\ hd \in Seq(Frame) /\ Numbers(hd) = Numbers(Held) \union Numbers(d)
      /\ gh \in Seq(Frame) /\ Numbers(gh) = Numbers(g) \union Numbers(h)
      BY <1>1, Joined DEF hr, hd, gh
<1>5. AllHere = a \o all /\ ProcHere = b \o chd /\ PlainHere = a \o gh
      BY <1>3
<1> HIDE DEF hr, hd, gh
<1>6. /\ ohr \in Seq(Frame) /\ Numbers(ohr) = Numbers(out) \union Numbers(hr)
      /\ chd \in Seq(Frame) /\ Numbers(chd) = Numbers(c) \union Numbers(hd)
      BY <1>1, <1>4, Joined DEF ohr, chd
<1> HIDE DEF ohr, chd
<1>7. /\ all \in Seq(Frame) /\ Numbers(all) = Numbers(b) \union Numbers(ohr)
      /\ Numbers(b \o chd) = Numbers(b) \union Numbers(chd)
      /\ Numbers(a \o gh) = Numbers(a) \union Numbers(gh)
  <2>1. all \in Seq(Frame) /\ Numbers(all) = Numbers(b) \union Numbers(ohr)
        BY ONLY <1>1, <1>6, Joined DEF all
  <2>2. Numbers(b \o chd) = Numbers(b) \union Numbers(chd)
        BY ONLY <1>1, <1>6, Joined
  <2>3. Numbers(a \o gh) = Numbers(a) \union Numbers(gh)
        BY ONLY <1>1, <1>4, Joined
  <2> QED BY ONLY <2>1, <2>2, <2>3
<1> HIDE DEF all
<1>8. Numbers(a \o all) = Numbers(a) \union Numbers(all)
      BY <1>1, <1>7, NumbersConcat
<1>9. /\ Numbers(AllHere \o Source) = Numbers(AllHere) \union Numbers(Source)
      /\ Numbers(ProcHere \o Source) = Numbers(ProcHere) \union Numbers(Source)
      /\ Numbers(PlainHere \o Source) = Numbers(PlainHere) \union Numbers(Source)
      BY <1>1, NumbersConcat
<1>10. /\ Numbers(AllHere) = Numbers(a) \union (Numbers(b) \union
           (Numbers(out) \union (Numbers(Held) \union Numbers(read))))
       /\ Numbers(ProcHere) \subseteq Numbers(AllHere)
       /\ Numbers(PlainHere) \subseteq Numbers(AllHere)
      BY ONLY <1>2, <1>4, <1>5, <1>6, <1>7, <1>8
<1> QED BY <1>9, <1>10 DEF a, b

LEMMA OrderRead ==
    ASSUME BufferInv, BufferInv', OrderInv, Once, read_frames PROVE OrderInv'
<1>1. PICK r \in Seq(Frame) :
              /\ read' = read \o r
              /\ \A X \in Seq(Frame) :
                    Numbers(X \o Source) \subseteq 1..captured /\ Sorted(X \o Source) =>
                      Sorted((X \o r) \o Source') /\ Sorted(X \o Source')
      BY ReadLine
<1>2. /\ effects' = effects /\ ratio' = ratio /\ delivered' = delivered /\ Held' = Held
      /\ out' = out /\ pc = "read"
      BY DEF read_frames, streamVars, procVars, Held
<1>3. /\ Typed /\ Typed' /\ Held \in Seq(Frame) /\ out \in Seq(Frame) /\ read \in Seq(Frame)
      /\ ProcHere \in Seq(Frame) /\ PlainHere \in Seq(Frame) /\ Source \in Seq(Frame)
      /\ delivered["processed"] \in Seq(Frame) /\ delivered["plain"] \in Seq(Frame)
      /\ << >> \in Seq(Frame) /\ Source' \in Seq(Frame)
      BY WayTypes, HereTypesNext, EmptyFrames DEF BufferInv, Typed
<1>4. /\ Numbers(ProcHere \o Source) \subseteq 1..captured
      /\ Numbers(PlainHere \o Source) \subseteq 1..captured
      BY <1>3, HereNumbers DEF Once
<1>5. Sorted(ProcHere \o Source)
      BY DEF OrderInv
<1>6. CASE effects = 1
  <2>1. ProcHere' = ProcHere \o r
    <3> DEFINE d == delivered["processed"]
    <3>1. ProcHere = d \o (out \o (Held \o read)) /\ ProcHere' = d \o (out \o (Held \o (read \o r)))
          BY <1>1, <1>2, <1>3, <1>6, OfPath, OfPathNext DEF ProcHere
    <3>2. d \in Seq(Frame)
          BY <1>3
    <3> HIDE DEF d
    <3>3. Held \o read \in Seq(Frame) /\ out \o (Held \o read) \in Seq(Frame)
      <4>1. Held \o read \in Seq(Frame)
            BY <1>3, ConcatProperties
      <4> QED BY <1>3, <4>1, ConcatProperties
    <3>4. /\ Assoc(Held, read, r) /\ Assoc(out, Held \o read, r)
          /\ Assoc(d, out \o (Held \o read), r)
          BY <1>3, <3>2, <3>3, ConcatAssoc
    <3> QED BY ONLY <3>1, <3>4 DEF Assoc
  <2>2. PlainHere' = PlainHere
        BY <1>2, <1>3, <1>6, OfPath, OfPathNext DEF PlainHere
  <2>3. Sorted(ProcHere' \o Source')
        BY <1>1, <1>3, <1>4, <1>5, <2>1
  <2>4. CASE ratio > 1
    <3>1. Sorted(PlainHere \o Source)
          BY <2>4 DEF OrderInv
    <3>2. Sorted(PlainHere \o Source')
          BY <1>1, <1>3, <1>4, <3>1
    <3> QED BY <1>2, <2>2, <2>3, <2>4, <3>2 DEF OrderInv
  <2>5. CASE ~ (ratio > 1)
        BY <1>2, <2>2, <2>3, <2>5 DEF OrderInv
  <2> QED BY <2>4, <2>5
<1>7. CASE effects = 0
  <2>1. ratio > 1 /\ out = << >>
        BY <1>2, <1>7 DEF BufferInv, CallInv
  <2>2. PlainHere' = PlainHere \o r
    <3> DEFINE d == delivered["plain"]
    <3>1. PlainHere = d \o (out \o read) /\ PlainHere' = d \o (out \o (read \o r))
          BY <1>1, <1>2, <1>3, <1>7, OfPath, OfPathNext DEF PlainHere
    <3>2. d \in Seq(Frame)
          BY <1>3
    <3> HIDE DEF d
    <3>3. out \o read \in Seq(Frame)
          BY <1>3, ConcatProperties
    <3>4. Assoc(out, read, r) /\ Assoc(d, out \o read, r)
          BY <1>3, <3>2, <3>3, ConcatAssoc
    <3> QED BY ONLY <3>1, <3>4 DEF Assoc
  <2>3. ProcHere' = ProcHere
        BY <1>2, <1>3, <1>7, OfPath, OfPathNext DEF ProcHere
  <2>4. Sorted(PlainHere \o Source)
        BY <2>1 DEF OrderInv
  <2>5. Sorted(PlainHere' \o Source')
        BY <1>1, <1>3, <1>4, <2>2, <2>4
  <2>6. Sorted(ProcHere' \o Source')
        BY <1>1, <1>3, <1>4, <1>5, <2>3
  <2> QED BY <1>2, <2>1, <2>5, <2>6 DEF OrderInv
<1> QED BY <1>3, <1>6, <1>7 DEF Typed

LEMMA SourceEmptyNext == (Typed /\ frames_in = 0 /\ pending = << >> => Source = << >>)'
<1>1. ASSUME Typed, frames_in = 0, pending = << >> PROVE Source = << >>
  <2>1. Source = << >> \o << >>
        BY <1>1, NothingLeft, SinglesEmpty DEF Source
  <2> QED BY <2>1, EmptyFrames, ConcatEmptySeq
<1> QED BY <1>1, PTL

\* with the resampler, what it and in->buffer still had is forgotten
LEMMA StartCases ==
    ASSUME BufferInv, BufferInv', start_input_stream
    PROVE  \/ Steady
           \/ /\ ratio > 1 /\ Source' = << >>
              /\ UNCHANGED <<ratio, effects, captured, fxIn, fxOut, proc, read, out, delivered>>
              /\ lost' = lost \union Elements(Left) \union Elements(pending)
<1>1. /\ UNCHANGED <<ratio, effects, captured, buffer, delivered>>
      /\ UNCHANGED <<fxIn, fxOut, proc, read, out>>
  <2>1. UNCHANGED <<ratio, effects, captured, buffer, procVars, callVars, delivered>>
        BY Zenon DEF start_input_stream
  <2> QED BY <2>1 DEF procVars, callVars
<1>2. CASE ratio > 1
  <2>1. /\ frames_in' = 0 /\ pending' = << >>
        /\ lost' = lost \union Elements(Left) \union Elements(pending)
        BY <1>2, Zenon DEF start_input_stream
  <2>2. Source' = << >>
        BY <2>1, SourceEmptyNext DEF BufferInv
  <2> QED BY <1>1, <1>2, <2>1, <2>2
<1>3. CASE ~ (ratio > 1)
  <2>1. UNCHANGED <<frames_in, pending, lost>>
        BY <1>3, Zenon DEF start_input_stream
  <2> QED BY <1>1, <2>1 DEF Steady
<1> QED BY <1>2, <1>3

LEMMA OrderStart ==
    ASSUME BufferInv, BufferInv', OrderInv, start_input_stream PROVE OrderInv'
<1>1. CASE Steady
      BY <1>1, OrderSteady
<1>2. CASE /\ ratio > 1 /\ Source' = << >>
           /\ UNCHANGED <<ratio, effects, captured, fxIn, fxOut, proc, read, out, delivered>>
  <2>1. /\ ProcHere \in Seq(Frame) /\ PlainHere \in Seq(Frame) /\ Source \in Seq(Frame)
        /\ << >> \in Seq(Frame)
        BY WayTypes, EmptyFrames DEF BufferInv
  <2>2. ProcHere' = ProcHere /\ PlainHere' = PlainHere
        BY <1>2 DEF ProcHere, PlainHere, Held, Of, Path
  <2>3. Sorted(ProcHere \o Source) /\ Sorted(PlainHere \o Source)
        BY <1>2 DEF OrderInv
  <2>4. Within(ProcHere \o << >>, ProcHere \o Source) /\ Within(PlainHere \o << >>, PlainHere \o Source)
        BY <2>1, WithinEmpty, WithinConcat
  <2> QED BY <1>2, <2>2, <2>3, <2>4 DEF OrderInv, Within
<1> QED BY <1>1, <1>2, StartCases

LEMMA PcmCases ==
    ASSUME BufferInv, pcm_read
    PROVE  /\ ratio = 1 /\ effects = 0 /\ read = << >> /\ out = << >>
           /\ UNCHANGED <<ratio, effects, Source, Held, read, delivered, lost>>
           /\ \/ Steady
              \/ /\ captured + frames <= MaxCaptured /\ captured' = captured + frames
                 /\ out' = Singles(NextFrames(frames))
<1>1. /\ pc = "direct" /\ UNCHANGED <<ratio, effects, buffer, frames_in, pending>>
      /\ UNCHANGED <<fxIn, fxOut, proc, read, delivered, lost>>
      BY DEF pcm_read, streamVars, procVars
<1>2. ratio = 1 /\ effects = 0 /\ read = << >> /\ out = << >>
      BY <1>1 DEF BufferInv, CallInv
<1>3. Source' = Source /\ Held' = Held
      BY <1>1 DEF Source, Held, Left
<1>4. \/ UNCHANGED <<out, captured>>
      \/ /\ captured + frames <= MaxCaptured /\ captured' = captured + frames
         /\ out' = Singles(NextFrames(frames))
      BY DEF pcm_read
<1> QED BY <1>1, <1>2, <1>3, <1>4 DEF Steady

LEMMA OrderPcm ==
    ASSUME BufferInv, BufferInv', OrderInv, Once, pcm_read PROVE OrderInv'
<1>1. /\ ratio = 1 /\ effects = 0 /\ read = << >> /\ out = << >>
      /\ UNCHANGED <<ratio, effects, Source, Held, read, delivered, lost>>
      BY PcmCases
<1>2. CASE Steady
      BY <1>2, OrderSteady
<1>3. CASE /\ captured + frames <= MaxCaptured /\ captured' = captured + frames
           /\ out' = Singles(NextFrames(frames))
  <2> DEFINE d == delivered["plain"]
             n == Singles(NextFrames(frames))
  <2>1. /\ Typed /\ Typed' /\ d \in Seq(Frame) /\ << >> \in Seq(Frame)
        /\ frames \in Nat /\ captured \in Nat /\ captured' \in Nat
        BY <1>3, EmptyFrames DEF BufferInv, Typed
  <2>2. /\ n \in Seq(Frame) /\ Numbers(n) = captured + 1..captured'
        /\ Sorted(n) /\ Apart(n)
        BY <1>3, <2>1, NewSingles
  <2>3. ProcHere' = ProcHere
        BY <1>1, <2>1, OfPath, OfPathNext DEF ProcHere
  <2>4. PlainHere = d \o (<< >> \o << >>) /\ PlainHere' = d \o (n \o << >>)
        BY <1>1, <1>3, <2>1, OfPath, OfPathNext DEF PlainHere
  <2>5. Numbers(d) \subseteq 1..captured
        BY <2>1, HereNumbers DEF Once
  <2> HIDE DEF d, n
  <2>6. /\ << >> \o << >> = << >> /\ d \o << >> = d /\ n \o << >> = n
        /\ d \o n \in Seq(Frame) /\ (d \o n) \o << >> = d \o n
    <3>1. d \o n \in Seq(Frame)
          BY <2>1, <2>2, ConcatProperties
    <3> QED BY <2>1, <2>2, <3>1, ConcatEmptySeq
  <2>7. Sorted(d)
        BY <1>1, <2>4, <2>6 DEF OrderInv
  <2>8. Sorted(d \o n)
        BY <2>1, <2>2, <2>5, <2>7, CapturedBehind
  <2> QED BY <1>1, <2>3, <2>4, <2>6, <2>8 DEF OrderInv
<1> QED BY <1>2, <1>3, PcmCases

-----------------------------------------------------------------------------
(* Frames in one place *)

\* Once, place by place
Pieces ==
    LET dp   == Numbers(delivered["plain"])
        dx   == Numbers(delivered["processed"])
        o    == Numbers(out)
        h    == Numbers(Held)
        r    == Numbers(read)
        s    == Numbers(Source)
        here == dp \union (dx \union (o \union (h \union r))) IN
    /\ Apart(delivered["plain"]) /\ Apart(delivered["processed"])
    /\ Apart(out) /\ Apart(Held) /\ Apart(read) /\ Apart(Source)
    /\ h \intersect r = {}
    /\ o \intersect (h \union r) = {}
    /\ dx \intersect (o \union (h \union r)) = {}
    /\ dp \intersect (dx \union (o \union (h \union r))) = {}
    /\ here \intersect s = {}
    /\ (here \union s) \intersect lost = {}
    /\ (here \union s) \union lost = 1..captured

LEMMA OncePieces == Typed => (Once <=> Pieces)
<1> SUFFICES ASSUME Typed PROVE Once <=> Pieces
    OBVIOUS
<1> DEFINE a   == delivered["plain"]
           b   == delivered["processed"]
           hr  == Held \o read
           ohr == out \o hr
           all == b \o ohr
<1>1. /\ a \in Seq(Frame) /\ b \in Seq(Frame) /\ out \in Seq(Frame) /\ read \in Seq(Frame)
      /\ Held \in Seq(Frame) /\ Source \in Seq(Frame) /\ AllHere \in Seq(Frame)
      BY WayTypes DEF Typed
<1>2. AllHere = a \o all
      BY DEF AllHere
<1> HIDE DEF a, b
<1>3. /\ hr \in Seq(Frame) /\ Numbers(hr) = Numbers(Held) \union Numbers(read)
      /\ Apart(hr) <=> Apart(Held) /\ Apart(read) /\ Numbers(Held) \intersect Numbers(read) = {}
      BY <1>1, NumbersConcat, ApartConcat, ConcatProperties
<1> HIDE DEF hr
<1>4. /\ ohr \in Seq(Frame) /\ Numbers(ohr) = Numbers(out) \union Numbers(hr)
      /\ Apart(ohr) <=> Apart(out) /\ Apart(hr) /\ Numbers(out) \intersect Numbers(hr) = {}
      BY <1>1, <1>3, NumbersConcat, ApartConcat, ConcatProperties
<1> HIDE DEF ohr
<1>5. /\ all \in Seq(Frame) /\ Numbers(all) = Numbers(b) \union Numbers(ohr)
      /\ Apart(all) <=> Apart(b) /\ Apart(ohr) /\ Numbers(b) \intersect Numbers(ohr) = {}
      BY <1>1, <1>4, NumbersConcat, ApartConcat, ConcatProperties
<1> HIDE DEF all
<1>6. /\ Numbers(a \o all) = Numbers(a) \union Numbers(all)
      /\ Apart(a \o all) <=> Apart(a) /\ Apart(all) /\ Numbers(a) \intersect Numbers(all) = {}
      BY <1>1, <1>5, NumbersConcat, ApartConcat
<1>7. /\ Numbers(AllHere \o Source) = Numbers(AllHere) \union Numbers(Source)
      /\ Apart(AllHere \o Source) <=>
             Apart(AllHere) /\ Apart(Source) /\ Numbers(AllHere) \intersect Numbers(Source) = {}
      BY <1>1, NumbersConcat, ApartConcat
<1>8. Numbers(AllHere) = Numbers(a) \union (Numbers(b) \union
           (Numbers(out) \union (Numbers(Held) \union Numbers(read))))
      BY ONLY <1>2, <1>3, <1>4, <1>5, <1>6
<1>9. Apart(AllHere) <=>
        /\ Apart(a) /\ Apart(b) /\ Apart(out) /\ Apart(Held) /\ Apart(read)
        /\ Numbers(Held) \intersect Numbers(read) = {}
        /\ Numbers(out) \intersect (Numbers(Held) \union Numbers(read)) = {}
        /\ Numbers(b) \intersect (Numbers(out) \union (Numbers(Held) \union Numbers(read))) = {}
        /\ Numbers(a) \intersect
             (Numbers(b) \union (Numbers(out) \union (Numbers(Held) \union Numbers(read)))) = {}
      BY ONLY <1>2, <1>3, <1>4, <1>5, <1>6
<1> QED BY ONLY <1>7, <1>8, <1>9 DEF Once, Pieces, a, b

LEMMA OncePiecesNext == (Typed => (Once <=> Pieces))'
BY OncePieces, PTL

LEMMA OnceInit == Init => Once
<1> SUFFICES ASSUME Init PROVE Once
    OBVIOUS
<1> DEFINE e == << >>
<1>1. /\ Typed /\ frames_in = 0 /\ pending = << >>
      BY BufferInit DEF BufferInv, Init
<1>2. e \o e = e
      BY EmptyFrames, ConcatEmptySeq
<1>3. /\ delivered["plain"] = e /\ delivered["processed"] = e
      /\ fxIn = e /\ fxOut = e /\ proc = e /\ pending = e /\ out = e /\ read = e
      /\ captured = 0 /\ lost = {}
      BY DEF Init
<1>4. Source = e
      BY <1>1, <1>2, NothingLeft, SinglesEmpty DEF Source
<1> HIDE DEF e
<1>5. Held = e /\ AllHere \o Source = e
      BY <1>2, <1>3, <1>4 DEF Held, AllHere
<1>6. Apart(e) /\ Numbers(e) = {}
      BY NumbersEmpty DEF e, Apart
<1>7. 1..captured = {}
      BY <1>3
<1> QED BY <1>3, <1>5, <1>6, <1>7 DEF Once

LEMMA OnceSteady ==
    ASSUME Once, Steady PROVE Once'
BY SteadySame DEF Once, Steady

LEMMA OnceEffects ==
    ASSUME BufferInv, BufferInv', Once, process_effects PROVE Once'
<1>1. /\ UNCHANGED <<captured, delivered, read, lost>> /\ Source' = Source
      BY DEF process_effects, streamVars, sourceVars, Source, Left
<1>2. /\ Held \in Seq(Frame) /\ Held' \in Seq(Frame) /\ read \in Seq(Frame)
      /\ out \in Seq(Frame) /\ out' \in Seq(Frame)
      BY WayTypes, HeldNext DEF BufferInv, Typed
<1>3. out' \o Held' = out \o Held
      BY EffectHolds
<1> DEFINE o == out'
           h == Held'
<1>4. o \in Seq(Frame) /\ h \in Seq(Frame) /\ o \o h = out \o Held
      BY <1>2, <1>3
<1>5. /\ AllHere = delivered["plain"] \o (delivered["processed"] \o (out \o (Held \o read)))
      /\ AllHere' = delivered["plain"] \o (delivered["processed"] \o (o \o (h \o read)))
      BY <1>1 DEF AllHere
<1> HIDE DEF o, h
<1>6. o \o (h \o read) = out \o (Held \o read)
  <2>1. Assoc(o, h, read) /\ Assoc(out, Held, read)
        BY <1>2, <1>4, ConcatAssoc
  <2> QED BY ONLY <1>4, <2>1 DEF Assoc
<1>7. AllHere' = AllHere
      BY ONLY <1>5, <1>6
<1> QED BY <1>1, <1>7 DEF Once

LEMMA ApartEmpty == Apart(<< >>)
BY DEF Apart

\* what is read for the plain path changes its place
LEMMA OnceToOut ==
    ASSUME BufferInv, BufferInv', Once,
           UNCHANGED <<captured, delivered, Held, Source, lost>>,
           out = << >>, out' = read, read' = << >>
    PROVE  Once'
<1>1. Pieces
      BY OncePieces DEF BufferInv
<1>2. /\ Numbers(out) = {} /\ Numbers(out') = Numbers(read) /\ Numbers(read') = {}
      /\ Apart(read') /\ Apart(out') <=> Apart(read)
      BY NumbersEmpty, ApartEmpty
<1>3. Pieces'
      BY <1>1, <1>2 DEF Pieces
<1> QED BY <1>3, OncePiecesNext DEF BufferInv

LEMMA OnceReadDone ==
    ASSUME BufferInv, BufferInv', Once, frames_read PROVE Once'
<1>1. /\ captured' = captured /\ delivered' = delivered /\ Source' = Source /\ lost' = lost
      /\ fxIn' = fxIn /\ fxOut' = fxOut /\ read' = << >> /\ pc = "read"
      BY DEF frames_read, streamVars, sourceVars, Source, Left
<1>2. /\ Typed /\ Held \in Seq(Frame) /\ read \in Seq(Frame)
      /\ fxIn \in Seq(Frame) /\ fxOut \in Seq(Frame) /\ proc \in Seq(Frame)
      BY WayTypes DEF BufferInv, Typed
<1>3. CASE effects = 1
  <2>1. proc' = proc \o read /\ out' = out
        BY <1>3 DEF frames_read
  <2>2. Held' = Held \o read
    <3>1. proc \o read \in Seq(Frame) /\ fxIn \o proc \in Seq(Frame)
          BY <1>2, ConcatProperties
    <3>2. Assoc(fxIn, proc, read) /\ Assoc(fxOut, fxIn \o proc, read)
          BY <1>2, <3>1, ConcatAssoc
    <3> QED BY <1>1, <2>1, <3>2 DEF Assoc, Held
  <2>3. (Held \o read) \o << >> = Held \o read
    <3>1. Held \o read \in Seq(Frame)
          BY <1>2, ConcatProperties
    <3> QED BY <3>1, ConcatEmptySeq
  <2>4. AllHere' = AllHere
        BY <1>1, <2>1, <2>2, <2>3 DEF AllHere
  <2> QED BY <1>1, <2>4 DEF Once
<1>4. CASE effects = 0
  <2>1. proc' = proc /\ out' = read /\ out = << >>
        BY <1>1, <1>4 DEF frames_read, BufferInv, CallInv
  <2>2. Held' = Held
        BY <1>1, <2>1 DEF Held
  <2> QED BY <1>1, <2>1, <2>2, OnceToOut
<1> QED BY <1>2, <1>3, <1>4 DEF Typed

LEMMA OnceError ==
    ASSUME BufferInv, BufferInv', Once, read_error PROVE Once'
<1>1. /\ captured' = captured /\ delivered' = delivered /\ Source' = Source
      /\ Held' = Held /\ read' = << >> /\ pc = "read" /\ effects \in {0, 1}
      BY DEF read_error, streamVars, sourceVars, procVars, Source, Left, Held, BufferInv, Typed
<1>2. CASE effects = 1
  <2>1. out' = out /\ lost' = lost \union Numbers(read)
        BY <1>2 DEF read_error, Numbers
  <2>2. Pieces
        BY OncePieces DEF BufferInv
  <2>3. Numbers(read') = {} /\ Apart(read')
        BY <1>1, NumbersEmpty, ApartEmpty
  <2>4. Pieces'
        BY <1>1, <2>1, <2>2, <2>3 DEF Pieces
  <2> QED BY <2>4, OncePiecesNext DEF BufferInv
<1>3. CASE effects = 0
  <2>1. out' = read /\ out = << >> /\ lost' = lost
        BY <1>1, <1>3 DEF read_error, BufferInv, CallInv
  <2> QED BY <1>1, <2>1, OnceToOut
<1> QED BY <1>1, <1>2, <1>3

LEMMA OnceReturn ==
    ASSUME BufferInv, BufferInv', Once, return PROVE Once'
<1>1. /\ captured' = captured /\ Source' = Source /\ lost' = lost
      /\ Held' = Held /\ read' = read /\ out' = << >>
      /\ delivered' = [delivered EXCEPT ![Path] = @ \o out]
      BY DEF return, streamVars, sourceVars, procVars, Source, Left, Held
<1>2. /\ out \in Seq(Frame) /\ effects \in {0, 1}
      /\ delivered["processed"] \in Seq(Frame) /\ delivered["plain"] \in Seq(Frame)
      /\ delivered \in [{"plain", "processed"} -> Seq(Frame)]
      BY DEF BufferInv, Typed
<1>3. Pieces
      BY OncePieces DEF BufferInv
<1>4. Numbers(out') = {} /\ Apart(out')
      BY <1>1, NumbersEmpty, ApartEmpty
<1>5. CASE effects = 1
  <2>1. /\ delivered'["processed"] = delivered["processed"] \o out
        /\ delivered'["plain"] = delivered["plain"]
        BY <1>1, <1>2, <1>5 DEF Path
  <2>2. /\ Numbers(delivered'["processed"]) = Numbers(delivered["processed"]) \union Numbers(out)
        /\ Apart(delivered'["processed"]) <=>
             /\ Apart(delivered["processed"]) /\ Apart(out)
             /\ Numbers(delivered["processed"]) \intersect Numbers(out) = {}
        BY <1>2, <2>1, NumbersConcat, ApartConcat
  <2>3. Pieces'
        BY ONLY <1>1, <1>3, <1>4, <2>1, <2>2 DEF Pieces
  <2> QED BY <2>3, OncePiecesNext DEF BufferInv
<1>6. CASE effects = 0
  <2>1. /\ delivered'["plain"] = delivered["plain"] \o out
        /\ delivered'["processed"] = delivered["processed"]
        BY <1>1, <1>2, <1>6 DEF Path
  <2>2. /\ Numbers(delivered'["plain"]) = Numbers(delivered["plain"]) \union Numbers(out)
        /\ Apart(delivered'["plain"]) <=>
             /\ Apart(delivered["plain"]) /\ Apart(out)
             /\ Numbers(delivered["plain"]) \intersect Numbers(out) = {}
        BY <1>2, <2>1, NumbersConcat, ApartConcat
  <2>3. Pieces'
        BY ONLY <1>1, <1>3, <1>4, <2>1, <2>2 DEF Pieces
  <2> QED BY <2>3, OncePiecesNext DEF BufferInv
<1> QED BY <1>2, <1>5, <1>6

LEMMA OnceRemove ==
    ASSUME BufferInv, BufferInv', Once, in_remove_audio_effect PROVE Once'
<1>1. /\ UNCHANGED <<captured, delivered, out, read>> /\ Source' = Source
      /\ fxIn' = << >> /\ fxOut' = << >> /\ proc' = proc
      /\ lost' = lost \union Numbers(fxIn \o fxOut)
      BY DEF in_remove_audio_effect, sourceVars, callVars, Source, Left, Numbers
<1>2. /\ fxIn \in Seq(Frame) /\ fxOut \in Seq(Frame) /\ proc \in Seq(Frame)
      BY DEF BufferInv, Typed
<1>3. Held' = proc
  <2>1. << >> \o proc = proc
        BY <1>2, ConcatEmptySeq
  <2> QED BY <1>1, <2>1 DEF Held
<1>4. fxIn \o proc \in Seq(Frame)
      BY <1>2, ConcatProperties
<1>5. /\ Numbers(fxIn \o fxOut) = Numbers(fxIn) \union Numbers(fxOut)
      /\ Numbers(fxIn \o proc) = Numbers(fxIn) \union Numbers(proc)
      /\ Apart(fxIn \o proc) <=>
            Apart(fxIn) /\ Apart(proc) /\ Numbers(fxIn) \intersect Numbers(proc) = {}
      BY <1>2, NumbersConcat, ApartConcat
<1>6. /\ Numbers(Held) = Numbers(fxOut) \union Numbers(fxIn \o proc)
      /\ Apart(Held) <=> /\ Apart(fxOut) /\ Apart(fxIn \o proc)
                         /\ Numbers(fxOut) \intersect Numbers(fxIn \o proc) = {}
  <2> DEFINE x == fxIn \o proc
  <2>1. x \in Seq(Frame) /\ Held = fxOut \o x
        BY <1>4 DEF Held
  <2> HIDE DEF x
  <2>2. /\ Numbers(fxOut \o x) = Numbers(fxOut) \union Numbers(x)
        /\ Apart(fxOut \o x) <=>
              Apart(fxOut) /\ Apart(x) /\ Numbers(fxOut) \intersect Numbers(x) = {}
        BY <1>2, <2>1, NumbersConcat, ApartConcat
  <2> QED BY <2>1, <2>2 DEF x
<1>7. Pieces
      BY OncePieces DEF BufferInv
<1>8. /\ Numbers(Held') \union Numbers(fxIn \o fxOut) = Numbers(Held)
      /\ Apart(Held')
      /\ Numbers(Held') \intersect Numbers(fxIn \o fxOut) = {}
      BY ONLY <1>3, <1>5, <1>6, <1>7 DEF Pieces
<1>9. Pieces'
      BY ONLY <1>1, <1>7, <1>8 DEF Pieces
<1> QED BY <1>9, OncePiecesNext DEF BufferInv

LEMMA OnceStart ==
    ASSUME BufferInv, BufferInv', Once, start_input_stream PROVE Once'
<1>1. CASE Steady
      BY <1>1, OnceSteady
<1>2. CASE /\ Source' = << >>
           /\ UNCHANGED <<ratio, effects, captured, fxIn, fxOut, proc, read, out, delivered>>
           /\ lost' = lost \union Elements(Left) \union Elements(pending)
  <2>1. /\ Numbers(Source) = Elements(pending) \union Elements(Left)
    <3>1. /\ pending \in Seq(1..MaxCaptured) /\ Left \in Seq(1..MaxCaptured)
          /\ Singles(pending) \in Seq(Frame) /\ Singles(Left) \in Seq(Frame)
          BY WayTypes DEF BufferInv, Typed
    <3>2. /\ Numbers(Singles(pending)) = Elements(pending)
          /\ Numbers(Singles(Left)) = Elements(Left)
          BY <3>1, SinglesFacts
    <3> QED BY <3>1, <3>2, NumbersConcat DEF Source
  <2>2. Pieces
        BY OncePieces DEF BufferInv
  <2>3. Numbers(Source') = {} /\ Apart(Source') /\ Held' = Held
        BY <1>2, NumbersEmpty, ApartEmpty DEF Held
  <2>4. lost' = lost \union Numbers(Source) /\ UNCHANGED <<captured, read, out, delivered>>
        BY <1>2, <2>1
  <2>5. Pieces'
        BY ONLY <2>2, <2>3, <2>4 DEF Pieces
  <2> QED BY <2>5, OncePiecesNext DEF BufferInv
<1> QED BY <1>1, <1>2, StartCases

LEMMA OncePcm ==
    ASSUME BufferInv, BufferInv', Once, pcm_read PROVE Once'
<1>1. out = << >> /\ UNCHANGED <<Source, Held, read, delivered, lost>>
      BY PcmCases
<1>2. CASE Steady
      BY <1>2, OnceSteady
<1>3. CASE /\ captured + frames <= MaxCaptured /\ captured' = captured + frames
           /\ out' = Singles(NextFrames(frames))
  <2>1. Typed /\ frames \in Nat /\ captured \in Nat
        BY DEF BufferInv, Typed
  <2>2. Numbers(out') = captured + 1..captured' /\ Apart(out')
        BY <1>3, <2>1, NewSingles
  <2>3. /\ (1..captured) \intersect (captured + 1..captured') = {}
        /\ 1..captured' = (1..captured) \union (captured + 1..captured')
        BY <1>3, <2>1
  <2>4. Pieces /\ Numbers(out) = {}
        BY <1>1, NumbersEmpty, OncePieces DEF BufferInv
  <2>5. /\ (1..captured) \intersect Numbers(out') = {}
        /\ 1..captured' = (1..captured) \union Numbers(out')
        BY <2>2, <2>3
  <2>6. Pieces'
        BY ONLY <1>1, <2>2, <2>4, <2>5 DEF Pieces
  <2> QED BY <2>6, OncePiecesNext DEF BufferInv
<1> QED BY <1>2, <1>3, PcmCases

LEMMA OnceRead ==
    ASSUME BufferInv, BufferInv', Once, read_frames PROVE Once'
<1>1. PICK r \in Seq(Frame) :
              /\ read' = read \o r
              /\ \A X \in Seq(Frame) :
                    Numbers(X \o Source) \subseteq 1..captured =>
                      /\ Apart(X \o Source) => Apart((X \o r) \o Source')
                      /\ Numbers((X \o r) \o Source')
                           = Numbers(X \o Source) \union (captured + 1..captured')
      BY ReadLine
<1>2. /\ delivered' = delivered /\ Held' = Held /\ out' = out /\ lost' = lost
      BY DEF read_frames, streamVars, procVars, Held
<1>3. /\ Held \in Seq(Frame) /\ out \in Seq(Frame) /\ read \in Seq(Frame)
      /\ AllHere \in Seq(Frame)
      /\ delivered["processed"] \in Seq(Frame) /\ delivered["plain"] \in Seq(Frame)
      BY WayTypes DEF BufferInv, Typed
<1>4. AllHere' = AllHere \o r
  <2> DEFINE a   == delivered["plain"]
             b   == delivered["processed"]
             hr  == Held \o read
             ohr == out \o hr
             all == b \o ohr
  <2>1. a \in Seq(Frame) /\ b \in Seq(Frame)
        BY <1>3
  <2>2. AllHere = a \o all /\ AllHere' = a \o (b \o (out \o (Held \o (read \o r))))
        BY <1>1, <1>2 DEF AllHere
  <2> HIDE DEF a, b
  <2>3. hr \in Seq(Frame)
        BY <1>3, ConcatProperties
  <2>4. ohr \in Seq(Frame)
        BY <1>3, <2>3, ConcatProperties
  <2>5. all \in Seq(Frame)
        BY <2>1, <2>4, ConcatProperties
  <2>6. Assoc(Held, read, r) /\ Assoc(out, hr, r) /\ Assoc(b, ohr, r) /\ Assoc(a, all, r)
        BY <1>3, <2>1, <2>3, <2>4, <2>5, ConcatAssoc
  <2> QED BY ONLY <2>2, <2>6 DEF Assoc
<1>5. Numbers(AllHere \o Source) \subseteq 1..captured /\ Apart(AllHere \o Source)
      BY DEF Once
<1>6. /\ Apart(AllHere' \o Source')
      /\ Numbers(AllHere' \o Source') = Numbers(AllHere \o Source) \union (captured + 1..captured')
      BY <1>1, <1>3, <1>4, <1>5
<1>7. /\ (1..captured) \intersect (captured + 1..captured') = {}
      /\ 1..captured' = (1..captured) \union (captured + 1..captured')
  <2>1. /\ captured \in Nat /\ period_size \in Nat
        /\ captured' = captured \/ captured' = captured + period_size
        BY CaptureAssumption, ReadMoves DEF BufferInv, Typed
  <2> QED BY <2>1
<1>8. /\ Numbers(AllHere \o Source) \intersect lost = {}
      /\ Numbers(AllHere \o Source) \union lost = 1..captured
      BY DEF Once
<1> QED BY ONLY <1>2, <1>6, <1>7, <1>8 DEF Once
-----------------------------------------------------------------------------
CaptureInv == BufferInv /\ OrderInv /\ Once

LEMMA CaptureInit == Init => CaptureInv
BY BufferInit, OrderInit, OnceInit DEF CaptureInv

LEMMA CaptureKeeps ==
    ASSUME CaptureInv, [Next]_vars PROVE CaptureInv'
<1>1. BufferInv /\ OrderInv /\ Once
      BY DEF CaptureInv
<1>2. BufferInv'
      BY <1>1, BufferKeeps
<1>3. CASE \/ standby \/ in_add_audio_effect \/ (\E n \in Requests : in_read(n))
           \/ process_frames \/ UNCHANGED vars
  <2>1. Steady
        BY <1>1, <1>3, SteadySteps
  <2> QED BY <1>1, <1>2, <2>1, OrderSteady, OnceSteady DEF CaptureInv
<1>4. CASE in_remove_audio_effect
      BY <1>1, <1>2, <1>4, OrderRemove, OnceRemove DEF CaptureInv
<1>5. CASE start_input_stream
      BY <1>1, <1>2, <1>5, OrderStart, OnceStart DEF CaptureInv
<1>6. CASE pcm_read
      BY <1>1, <1>2, <1>6, OrderPcm, OncePcm DEF CaptureInv
<1>7. CASE read_error
      BY <1>1, <1>2, <1>7, OrderError, OnceError DEF CaptureInv
<1>8. CASE read_frames
      BY <1>1, <1>2, <1>8, OrderRead, OnceRead DEF CaptureInv
<1>9. CASE frames_read
      BY <1>1, <1>2, <1>9, OrderReadDone, OnceReadDone DEF CaptureInv
<1>10. CASE process_effects
      BY <1>1, <1>2, <1>10, OrderEffects, OnceEffects DEF CaptureInv
<1>11. CASE return
      BY <1>1, <1>2, <1>11, OrderReturn, OnceReturn DEF CaptureInv
<1> QED BY <1>3, <1>4, <1>5, <1>6, <1>7, <1>8, <1>9, <1>10, <1>11 DEF Next, ReadStep

THEOREM CaptureAlways == Spec => []CaptureInv
BY CaptureInit, CaptureKeeps, PTL DEF Spec

\* Every variable of the capture stream keeps its type.
THEOREM CaptureTypes == Spec => []TypeOK
<1>1. CaptureInv => TypeOK
  <2> SUFFICES ASSUME CaptureInv PROVE TypeOK
      OBVIOUS
  <2>1. lost \subseteq 1..captured
        BY DEF CaptureInv, Once
  <2>2. Typed
        BY DEF CaptureInv, BufferInv
  <2>3. frames_in \in 0..Len(buffer)
        BY <2>2 DEF Typed
  <2> QED BY <2>1, <2>2 DEF Typed, TypeOK
<1> QED BY <1>1, CaptureAlways, PTL

(* Every frame the PCM has given is in exactly one place, returned, on its *)
(* way or dropped, whatever the sizes of the requests, the period, the     *)
(* effect's chunk and the resampler's ratio, and for any number of frames. *)
THEOREM CaptureExactlyOnce == Spec => []ExactlyOnce
<1>1. CaptureInv => ExactlyOnce
  <2> SUFFICES ASSUME CaptureInv PROVE ExactlyOnce
      OBVIOUS
  <2>1. Everywhere = AllHere \o Source
        BY EverywhereIs DEF CaptureInv, BufferInv
  <2>2. Once
        BY DEF CaptureInv
  <2>3. /\ Apart(Everywhere)
        /\ Numbers(Everywhere) \intersect lost = {}
        /\ Numbers(Everywhere) \union lost = 1..captured
        BY <2>1, <2>2 DEF Once
  <2>4. \A j, k \in DOMAIN Everywhere : j # k => Everywhere[j] \intersect Everywhere[k] = {}
        BY <2>3 DEF Apart
  <2>5. /\ (UNION Elements(Everywhere)) \intersect lost = {}
        /\ (UNION Elements(Everywhere)) \union lost = 1..captured
        BY <2>3 DEF Numbers
  <2> QED BY <2>4, <2>5 DEF ExactlyOnce
<1> QED BY <1>1, CaptureAlways, PTL

(* AudioFlinger gets the frames of each path in the order in which they    *)
(* were captured: the buffers on the way never let one overtake another.   *)
THEOREM CaptureInOrder == Spec => []InOrder
<1>1. CaptureInv => InOrder
  <2> SUFFICES ASSUME CaptureInv PROVE InOrder
      OBVIOUS
  <2>1. Typed /\ OrderInv
        BY DEF CaptureInv, BufferInv
  <2>2. /\ DOMAIN delivered = {"plain", "processed"}
        /\ delivered["plain"] \in Seq(Frame) /\ delivered["processed"] \in Seq(Frame)
        /\ ProcHere \in Seq(Frame) /\ PlainHere \in Seq(Frame) /\ Source \in Seq(Frame)
        /\ Held \in Seq(Frame) /\ << >> \in Seq(Frame)
        /\ Of("processed", out) \in Seq(Frame) /\ Of("processed", read) \in Seq(Frame)
        /\ Of("plain", out) \in Seq(Frame) /\ Of("plain", read) \in Seq(Frame)
        BY <2>1, WayTypes, EmptyFrames DEF Typed
  <2>3. Sorted(ProcHere)
        BY <2>1, <2>2, SortedConcat DEF OrderInv
  <2>4. Sorted(PlainHere)
    <3>1. (IF ratio > 1 THEN Source ELSE << >>) \in Seq(Frame)
          BY <2>2
    <3> QED BY <2>1, <2>2, <3>1, SortedConcat DEF OrderInv
  <2>5. Sorted(delivered["processed"])
    <3> DEFINE x == Held \o Of("processed", read)
               y == Of("processed", out) \o x
    <3>1. x \in Seq(Frame)
          BY <2>2, ConcatProperties
    <3>2. y \in Seq(Frame)
          BY <2>2, <3>1, ConcatProperties
    <3>3. ProcHere = delivered["processed"] \o y
          BY DEF ProcHere
    <3> HIDE DEF y
    <3> QED BY <2>2, <2>3, <3>2, <3>3, SortedConcat
  <2>6. Sorted(delivered["plain"])
    <3> DEFINE y == Of("plain", out) \o Of("plain", read)
    <3>1. y \in Seq(Frame)
          BY <2>2, ConcatProperties
    <3>2. PlainHere = delivered["plain"] \o y
          BY DEF PlainHere
    <3> HIDE DEF y
    <3> QED BY <2>2, <2>4, <3>1, <3>2, SortedConcat
  <2> QED BY <2>2, <2>5, <2>6 DEF InOrder, Sorted, Less
<1> QED BY <1>1, CaptureAlways, PTL

-----------------------------------------------------------------------------
(***************************************************************************)
(* What ReadReturns rests on: a call that goes on gets nearer to its end   *)
(***************************************************************************)

\* the turns of process_frames' loop
Turn == [process |-> 3, read |-> 2, effect |-> 1]

\* what AudioFlinger's buffer and the effect's chunk still lack
Room == frames - Len(out)
Gap  == Chunk - Len(fxIn)

(* A step returns, or decides to, or gives AudioFlinger frames, or, if     *)
(* not, the effect frames, or, if neither, comes nearer to the effect,     *)
(* where read_frames comes nearer to what it was asked for.  Each of these *)
(* counts down to zero.                                                    *)
Nearer ==
    \/ pc = "return" /\ pc' = "idle"
    \/ pc # "return" /\ pc' = "return"
    \/ /\ pc \in DOMAIN Turn /\ pc' \in DOMAIN Turn
       /\ \/ Room > 0 /\ Room' < Room
          \/ Room' = Room /\ Gap > 0 /\ Gap' < Gap
          \/ Room' = Room /\ Gap' = Gap /\ Turn[pc'] < Turn[pc]
          \/ /\ Room' = Room /\ Gap' = Gap
             /\ pc = "read" /\ pc' = "read" /\ Asked > 0 /\ Asked' < Asked

ReadAdvances == [][pc # "idle" => Nearer]_vars

\* process_frames asks for what proc_buf lacks, so that the effect gets some
HandInv ==
    /\ pc # "idle" => frames > 0
    /\ pc = "effect" => Len(proc) >= frames
    /\ pc = "read" /\ effects = 1 => want + Len(proc) = frames

LEMMA HandInit == Init => HandInv
BY DEF Init, HandInv

LEMMA HandKeeps ==
    ASSUME BufferInv, HandInv, [Next]_vars PROVE HandInv'
<1>1. /\ Len(proc) \in Nat /\ Len(read) \in Nat /\ frames \in Nat /\ want \in Nat
      /\ effects \in {0, 1} /\ proc \in Seq(Frame) /\ read \in Seq(Frame)
      BY LenProperties DEF BufferInv, Typed
<1>2. CASE UNCHANGED vars
      BY <1>2 DEF vars, streamVars, procVars, callVars, HandInv
<1>3. CASE standby \/ in_add_audio_effect \/ in_remove_audio_effect \/ start_input_stream
      BY <1>3 DEF standby, in_add_audio_effect, in_remove_audio_effect, start_input_stream,
                  callVars, HandInv
<1>4. ASSUME NEW n \in Requests, in_read(n) PROVE HandInv'
  <2>1. n > 0
        BY CaptureAssumption
  <2> QED BY <1>1, <1>4, <2>1 DEF in_read, streamVars, procVars, HandInv
<1>5. CASE pcm_read \/ read_error
      BY <1>5 DEF pcm_read, read_error, HandInv
<1>6. CASE process_frames
  <2>1. pc = "process" /\ frames > 0 /\ frames' = frames /\ proc' = proc
        BY <1>6 DEF process_frames, HandInv
  <2>2. CASE Len(proc) < frames
        BY <1>1, <1>6, <2>1, <2>2 DEF process_frames, HandInv
  <2>3. CASE ~ (Len(proc) < frames)
        BY <1>1, <1>6, <2>1, <2>3 DEF process_frames, HandInv
  <2> QED BY <2>2, <2>3
<1>7. CASE read_frames
      BY <1>7 DEF read_frames, streamVars, procVars, HandInv
<1>8. CASE frames_read
  <2>1. /\ pc = "read" /\ Len(read) >= want /\ frames > 0 /\ frames' = frames
        /\ effects' = effects
        BY <1>8 DEF frames_read, streamVars, HandInv
  <2>2. CASE effects = 1
    <3>1. pc' = "effect" /\ proc' = proc \o read /\ want + Len(proc) = frames
          BY <1>8, <2>1, <2>2 DEF frames_read, HandInv
    <3>2. Len(proc') = Len(proc) + Len(read)
          BY <1>1, <3>1, ConcatProperties
    <3> QED BY <1>1, <2>1, <3>1, <3>2 DEF HandInv
  <2>3. CASE effects # 1
    <3>1. pc' = "return"
          BY <1>1, <1>8, <2>3 DEF frames_read
    <3> QED BY <2>1, <3>1 DEF HandInv
  <2> QED BY <2>2, <2>3
<1>9. CASE process_effects
  <2>1. pc = "effect" /\ pc' \in {"process", "return"} /\ frames' = frames
        BY <1>9 DEF process_effects
  <2> QED BY <2>1 DEF HandInv
<1>10. CASE return
      BY <1>10 DEF return, HandInv
<1> QED BY <1>2, <1>3, <1>4, <1>5, <1>6, <1>7, <1>8, <1>9, <1>10 DEF Next, ReadStep

(* read_frames takes at least one frame, and is asked for as many fewer:   *)
(* what the resampler makes of them is used up, and the rest is pending.   *)
LEMMA AskedFalls ==
    ASSUME BufferInv, read_frames PROVE Asked > 0 /\ Asked' < Asked
<1>1. PICK b \in Seq(1..MaxCaptured), left \in 1..period_size :
        Len(b) = period_size /\ provide(b, left)
      BY ReadSource
<1> DEFINE n   == Min2(Asked, left)
           got == pending \o Taken(b, left, n)
           m   == Len(got) \div ratio
<1>2. /\ ratio \in Nat \ {0} /\ period_size \in Nat \ {0} /\ pc = "read" /\ Len(read) < want
      /\ Len(read) \in Nat /\ Len(pending) \in Nat /\ want \in Nat
      /\ pending \in Seq(1..MaxCaptured) /\ read \in Seq(Frame)
      /\ ratio' = ratio /\ want' = want
      BY CaptureAssumption, LenProperties DEF BufferInv, Typed, read_frames, streamVars
<1>3. left \in Nat \ {0} /\ left \in 0..period_size
      BY <1>2
<1>4. n \in 1..left
      BY <1>2, <1>3, AskedBounds
<1>5. Asked > 0
  <2>1. Asked \in Int
        BY <1>2, SMT DEF Asked
  <2> QED BY <1>3, <1>4, <2>1 DEF Min2
<1>6. read' = read \o Resampled(got) /\ pending' = Drop(got, ratio * m)
      BY <1>1 DEF provide
<1> HIDE DEF n
<1>7. Taken(b, left, n) \in Seq(1..MaxCaptured) /\ Len(Taken(b, left, n)) = n
  <2>1. b \in Seq(1..MaxCaptured) /\ Len(b) = period_size
        BY <1>1
  <2>2. left \in 0..period_size /\ n \in 0..left
        BY <1>3, <1>4
  <2>3. \A k \in 0..left :
          /\ Taken(b, left, k) \in Seq(1..MaxCaptured) /\ Len(Taken(b, left, k)) = k
          /\ SubSeq(b, Len(b) - (left - k) + 1, Len(b)) \in Seq(1..MaxCaptured)
          /\ SubSeq(b, Len(b) - left + 1, Len(b)) \in Seq(1..MaxCaptured)
          /\ Taken(b, left, k) \o SubSeq(b, Len(b) - (left - k) + 1, Len(b))
               = SubSeq(b, Len(b) - left + 1, Len(b))
        BY <2>1, <2>2, TakenFacts
  <2> QED BY <2>2, <2>3
<1>8. got \in Seq(1..MaxCaptured) /\ Len(got) = Len(pending) + n
      BY <1>2, <1>7, ConcatProperties
<1> HIDE DEF got
<1> HIDE DEF m
<1>9. /\ m \in Nat /\ ratio * m \in 0..Len(got)
      /\ Resampled(got) \in Seq(SUBSET (1..MaxCaptured)) /\ Len(Resampled(got)) = m
      BY <1>2, <1>8, ResampledFacts DEF m
<1>10. Len(read') = Len(read) + m
      BY <1>2, <1>6, <1>9, ConcatProperties DEF Frame
<1>11. Len(pending') = Len(pending) + n - ratio * m
  <2>1. pending' \in Seq(1..MaxCaptured) /\ Len(pending') = Len(got) - ratio * m
        BY <1>6, <1>8, <1>9, FirstDrop
  <2>2. ratio * m \in Int /\ n \in Int /\ Len(pending) \in Int
        BY <1>2, <1>3, <1>4, <1>9
  <2> QED BY <1>8, <2>1, <2>2
<1>12. Asked' = (want - (Len(read) + m)) * ratio - (Len(pending) + n - ratio * m)
      BY <1>2, <1>10, <1>11 DEF Asked
<1>13. (want - (Len(read) + m)) * ratio = (want - Len(read)) * ratio - ratio * m
      BY <1>2, <1>9
<1> DEFINE x == (want - Len(read)) * ratio
           y == ratio * m
<1>14. x \in Int /\ y \in Int /\ n \in Int /\ n >= 1
      BY <1>2, <1>3, <1>4, <1>9
<1>15. Asked = x - Len(pending) /\ Asked' = x - y - (Len(pending) + n - y)
      BY <1>12, <1>13 DEF Asked
<1> HIDE DEF x, y
<1>16. Asked' < Asked
      BY <1>2, <1>14, <1>15
<1> QED BY <1>5, <1>16

(* The effect has frames to take unless it has finished ones; it takes     *)
(* some, and gives some if that completes its chunk.                       *)
LEMMA EffectNearer ==
    ASSUME BufferInv, HandInv, process_effects
    PROVE  Nearer
<1> DEFINE room     == frames - Len(out)
           consumed == EffectTakes(Len(proc), room)
           taken    == First(proc, consumed)
           in       == fxIn \o taken
           ready    == IF Len(in) = Chunk THEN fxOut \o in ELSE fxOut
           produced == Min2(Len(ready), room)
           given    == First(ready, produced)
<1>1. /\ proc \in Seq(Frame) /\ fxIn \in Seq(Frame) /\ fxOut \in Seq(Frame)
      /\ out \in Seq(Frame) /\ Len(fxIn) < Chunk /\ frames \in Nat /\ Chunk \in Nat \ {0}
      /\ Len(out) < frames /\ Len(proc) >= frames /\ frames > 0
      BY CaptureAssumption DEF BufferInv, Typed, CallInv, HandInv, process_effects
<1>2. Len(proc) \in Nat /\ Len(fxIn) \in Nat /\ Len(fxOut) \in Nat /\ Len(out) \in Nat
      BY <1>1, LenProperties
<1>3. /\ fxIn' = IF Len(in) = Chunk THEN << >> ELSE in
      /\ out' = out \o given /\ frames' = frames
      /\ pc = "effect" /\ pc' \in {"process", "return"}
      BY DEF process_effects
<1>4. room \in Nat \ {0} /\ room = Room
      BY <1>1, <1>2 DEF Room
<1> HIDE DEF room
<1>5. /\ consumed \in 0..Len(proc) /\ Len(fxIn) + consumed <= Chunk
      /\ Len(fxOut) = 0 => consumed > 0
      BY <1>1, <1>2, <1>4 DEF EffectTakes, Min2
<1> HIDE DEF consumed
<1>6. taken \in Seq(Frame) /\ Len(taken) = consumed
      BY <1>1, <1>5, FirstDrop
<1> HIDE DEF taken
<1>7. in \in Seq(Frame) /\ Len(in) = Len(fxIn) + consumed
      BY <1>1, <1>6, ConcatProperties
<1> HIDE DEF in
<1>8. ready \in Seq(Frame) /\ Len(ready) \in Nat
      /\ (Len(in) = Chunk => Len(ready) = Len(fxOut) + Chunk)
      /\ (Len(in) # Chunk => ready = fxOut)
  <2>1. fxOut \o in \in Seq(Frame) /\ Len(fxOut \o in) = Len(fxOut) + Len(in)
        BY <1>1, <1>7, ConcatProperties
  <2>2. ready \in Seq(Frame)
        BY <1>1, <2>1
  <2> QED BY <2>1, <2>2, LenProperties
<1> HIDE DEF ready
<1>9. produced \in 0..Len(ready) /\ produced <= room /\ (Len(ready) > 0 => produced > 0)
      /\ (Len(ready) = 0 => produced = 0)
      BY <1>4, <1>8 DEF Min2
<1> HIDE DEF produced
<1>10. given \in Seq(Frame) /\ Len(given) = produced
      BY <1>8, <1>9, FirstDrop
<1> HIDE DEF given
<1>11. Len(out') = Len(out) + produced
      BY <1>1, <1>3, <1>10, ConcatProperties
<1>12. Room' = Room - produced
      BY <1>1, <1>2, <1>3, <1>9, <1>11 DEF Room
<1>13. CASE Len(ready) > 0
  <2>1. Room > 0 /\ Room' < Room
        BY <1>4, <1>9, <1>12, <1>13
  <2> QED BY <1>3, <2>1 DEF Nearer, Turn
<1>14. CASE Len(ready) = 0
  <2>1. Len(in) # Chunk /\ Len(fxOut) = 0
        BY <1>1, <1>2, <1>8, <1>14
  <2>2. Room' = Room
        BY <1>4, <1>9, <1>12, <1>14
  <2>3. Len(fxIn') = Len(fxIn) + consumed /\ consumed > 0
        BY <1>3, <1>5, <1>7, <2>1
  <2>4. Gap > 0 /\ Gap' < Gap
        BY <1>1, <1>2, <1>5, <2>3 DEF Gap
  <2> QED BY <1>3, <2>2, <2>4 DEF Nearer, Turn
<1> QED BY <1>8, <1>13, <1>14

LEMMA StepNearer ==
    ASSUME BufferInv, HandInv, Next, pc # "idle" PROVE Nearer
<1>1. CASE process_frames
  <2>1. Room' = Room /\ Gap' = Gap /\ pc = "process" /\ pc' \in {"read", "effect"}
        BY <1>1, Zenon DEF process_frames, Room, Gap
  <2>2. \A p \in {"read", "effect"} : Turn[p] < Turn["process"]
        BY DEF Turn
  <2> QED BY <2>1, <2>2 DEF Nearer, Turn
<1>2. CASE read_frames
  <2>1. Room' = Room /\ Gap' = Gap /\ pc = "read" /\ pc' = "read"
        BY <1>2, Zenon DEF read_frames, procVars, Room, Gap
  <2> QED BY <1>2, <2>1, AskedFalls DEF Nearer, Turn
<1>3. CASE frames_read
  <2>1. CASE effects > 0
    <3>1. Room' = Room /\ Gap' = Gap /\ pc = "read" /\ pc' = "effect"
          BY <1>3, <2>1, Zenon DEF frames_read, Room, Gap
    <3>2. Turn["effect"] < Turn["read"]
          BY DEF Turn
    <3> QED BY <3>1, <3>2 DEF Nearer, Turn
  <2>2. CASE ~ (effects > 0)
        BY <1>3, <2>2 DEF frames_read, Nearer
  <2> QED BY <2>1, <2>2
<1>4. CASE process_effects
      BY <1>4, EffectNearer
<1>5. CASE pcm_read \/ read_error
      BY <1>5 DEF pcm_read, read_error, Nearer
<1>6. CASE return
      BY <1>6 DEF return, Nearer
<1>7. ~ (\/ standby \/ in_add_audio_effect \/ in_remove_audio_effect \/ start_input_stream
         \/ \E n \in Requests : in_read(n))
      BY DEF standby, in_add_audio_effect, in_remove_audio_effect, start_input_stream, in_read
<1> QED BY <1>1, <1>2, <1>3, <1>4, <1>5, <1>6, <1>7 DEF Next, ReadStep

(* However much the effect keeps, whatever is left over in the buffers and *)
(* whatever fails, no turn of a call is in vain: AudioFlinger's buffer, or *)
(* the effect's chunk, is fuller, or read_frames is closer to what it was  *)
(* asked for.  What in_read does in a call is therefore bounded.           *)
THEOREM CaptureReadAdvances == Spec => ReadAdvances
<1>1. Init => BufferInv /\ HandInv
      BY BufferInit, HandInit
<1>2. BufferInv /\ HandInv /\ [Next]_vars => (BufferInv /\ HandInv)'
      BY BufferKeeps, HandKeeps
<1>3. BufferInv /\ HandInv /\ [Next]_vars => [pc # "idle" => Nearer]_vars
      BY StepNearer
<1> QED BY <1>1, <1>2, <1>3, PTL DEF Spec, ReadAdvances

=============================================================================
