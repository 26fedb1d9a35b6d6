------------------------- MODULE PromptedHostProofs -------------------------
(***************************************************************************)
(* What PromptedHost says, for every limit, grace period, number of tries  *)
(* and of other Hosts' prompts, every marker, every cap and every bound: a *)
(* Host has all of its limit and no more, and its stderr is kept as it was *)
(* printed and asked about as its sudo asks.                               *)
(*                                                                         *)
(* First what MarkerFilter's operators do to a text, for every marker that *)
(* does not overlap itself and every way the text is cut into chunks.  For *)
(* the stream the argument is that, repeated for one chunk after another;  *)
(* for the limit it is the sum that own_time makes: what the clock has     *)
(* added up since the wait began is exactly the time that was not the      *)
(* Host's.                                                                 *)
(***************************************************************************)
EXTENDS PromptedHost, SequenceTheorems, FiniteSetTheorems, TLAPS

L == Len(Marker)

\* A marker ends at the n-th symbol of the text.
EndsAt(text, n) ==
    n \in L..Len(text) /\ \A i \in 1..L : text[n - L + i] = Marker[i]

\* The text ends in the first k symbols of a marker.
EndsInStart(text, k) ==
    k <= Len(text) /\ \A i \in 1..k : text[Len(text) - k + i] = Marker[i]

-----------------------------------------------------------------------------
(* The marker *)

LEMMA MarkerLength ==
    ASSUME NEW A, Marker \in Seq(A)
    PROVE  L \in Nat /\ L > 0
BY MarkerAssumption DEF L

\* No proper start of a marker is also an end of it.
LEMMA NoOverlap ==
    ASSUME NEW A, Marker \in Seq(A), NEW k \in 1..(L - 1)
    PROVE  \E i \in 1..k : Marker[i] # Marker[L - k + i]
<1> SUFFICES ASSUME \A i \in 1..k : Marker[i] = Marker[L - k + i]
             PROVE  FALSE
  OBVIOUS
<1>1. L \in Nat /\ k \in Nat /\ k < L
  BY MarkerLength
<1> DEFINE s == SubSeq(Marker, 1, k)
           t == SubSeq(Marker, L - k + 1, L)
<1>2. /\ s \in Seq(A) /\ Len(s) = k /\ \A i \in 1..k : s[i] = Marker[i]
  BY <1>1, SubSeqProperties DEF L
<1>3. /\ t \in Seq(A) /\ Len(t) = k /\ \A i \in 1..k : t[i] = Marker[L - k + i]
  BY <1>1, SubSeqProperties DEF L
<1>4. s = t
  <2> HIDE DEF s, t
  <2> QED BY <1>2, <1>3, SeqEqual
<1> QED
  BY <1>4, MarkerAssumption DEF L

LEMMA EndsAreFound ==
    ASSUME NEW A, Marker \in Seq(A), NEW text \in Seq(A)
    PROVE  \A n : n \in MarkerEnds(text) <=> EndsAt(text, n)
<1> SUFFICES ASSUME NEW n \in L..Len(text)
             PROVE  SubSeq(text, n - L + 1, n) = Marker
                        <=> \A i \in 1..L : text[n - L + i] = Marker[i]
  BY DEF MarkerEnds, EndsAt, L
<1>1. L \in Nat /\ L > 0 /\ Len(text) \in Nat /\ n \in Nat
  BY MarkerLength
<1> DEFINE s == SubSeq(text, n - L + 1, n)
<1>2. s \in Seq(A) /\ Len(s) = L /\ \A i \in 1..L : s[i] = text[n - L + i]
  BY <1>1, SubSeqProperties
<1>3. Marker \in Seq(A) /\ Len(Marker) = L
  BY DEF L
<1>4. s = Marker <=> \A i \in 1..L : s[i] = Marker[i]
  <2> HIDE DEF s
  <2> QED BY <1>2, <1>3, SeqEqual
<1> QED
  BY <1>2, <1>4

LEMMA StartsAreFound ==
    ASSUME NEW A, Marker \in Seq(A), NEW text \in Seq(A), NEW k \in 1..L
    PROVE  k <= Len(text) /\ IsSuffix(SubSeq(Marker, 1, k), text)
               <=> EndsInStart(text, k)
<1>1. L \in Nat /\ L > 0 /\ Len(text) \in Nat /\ k \in Nat /\ k <= L
  BY MarkerLength
<1> SUFFICES ASSUME k <= Len(text)
             PROVE  IsSuffix(SubSeq(Marker, 1, k), text)
                        <=> \A i \in 1..k : text[Len(text) - k + i] = Marker[i]
  BY DEF EndsInStart
<1> DEFINE s == SubSeq(Marker, 1, k)
           n == Len(text)
           r == Reverse(s)
           t == Reverse(text)
           u == SubSeq(t, 1, k)
<1>2. s \in Seq(A) /\ Len(s) = k /\ \A i \in 1..k : s[i] = Marker[i]
  BY <1>1, SubSeqProperties DEF L
<1>3. r \in Seq(A) /\ Len(r) = k /\ \A i \in 1..k : r[i] = s[k - i + 1]
  <2> HIDE DEF s
  <2>1. r = [i \in 1..k |-> s[k - i + 1]]
    BY <1>2 DEF Reverse
  <2>2. r \in [1..k -> A]
    BY <2>1, <1>2, <1>1
  <2> QED BY <2>1, <2>2, <1>1
<1>4. t \in Seq(A) /\ Len(t) = n /\ \A i \in 1..n : t[i] = text[n - i + 1]
  <2>1. t = [i \in 1..n |-> text[n - i + 1]]
    BY DEF Reverse
  <2>2. t \in [1..n -> A]
    BY <2>1, <1>1
  <2> QED BY <2>1, <2>2, <1>1
<1>5. u \in Seq(A) /\ Len(u) = k /\ \A i \in 1..k : u[i] = t[i]
  <2> HIDE DEF t
  <2> QED BY <1>1, <1>4, SubSeqProperties
<1>6. IsSuffix(s, text) <=> r = u
  <2>1. IsSuffix(s, text) <=> Len(r) <= Len(t) /\ SubSeq(r, 1, Len(r)) = SubSeq(t, 1, Len(r))
    BY DEF IsSuffix, IsPrefix
  <2>2. SubSeq(r, 1, Len(r)) = r
    <3> HIDE DEF r
    <3> QED BY <1>3, SubSeqFull
  <2> HIDE DEF r, t
  <2> QED BY <2>1, <2>2, <1>1, <1>3, <1>4
<1>7. r = u <=> \A i \in 1..k : r[i] = u[i]
  <2> HIDE DEF r, u
  <2> QED BY <1>3, <1>5, SeqEqual
<1>8. (\A i \in 1..k : r[i] = u[i]) <=> \A i \in 1..k : Marker[k - i + 1] = text[n - i + 1]
  <2>1. ASSUME NEW i \in 1..k
        PROVE  r[i] = Marker[k - i + 1] /\ u[i] = text[n - i + 1]
    <3>1. k - i + 1 \in 1..k /\ i \in 1..n
      BY <1>1
    <3> HIDE DEF r, s, t, u
    <3> QED BY <3>1, <1>2, <1>3, <1>4, <1>5
  <2>2. ASSUME NEW i \in 1..k
        PROVE  (r[i] = u[i]) <=> (Marker[k - i + 1] = text[n - i + 1])
    <3> HIDE DEF r, s, t, u, n
    <3> QED BY ONLY <2>1, i \in 1..k
  <2> HIDE DEF r, s, t, u, n
  <2> QED BY ONLY <2>2
<1>9. (\A i \in 1..k : Marker[k - i + 1] = text[n - i + 1])
          <=> \A i \in 1..k : text[n - k + i] = Marker[i]
  <2>1. ASSUME \A i \in 1..k : Marker[k - i + 1] = text[n - i + 1], NEW j \in 1..k
        PROVE  text[n - k + j] = Marker[j]
    <3>1. k - j + 1 \in 1..k
      BY <1>1
    <3>2. Marker[k - (k - j + 1) + 1] = text[n - (k - j + 1) + 1]
      BY <2>1, <3>1
    <3> QED BY <3>2, <1>1
  <2>2. ASSUME \A i \in 1..k : text[n - k + i] = Marker[i], NEW j \in 1..k
        PROVE  Marker[k - j + 1] = text[n - j + 1]
    <3>1. k - j + 1 \in 1..k
      BY <1>1
    <3>2. text[n - k + (k - j + 1)] = Marker[k - j + 1]
      BY <2>2, <3>1
    <3> QED BY <3>2, <1>1
  <2> QED BY <2>1, <2>2
<1> HIDE DEF r, u, s
<1> QED
  BY <1>6, <1>7, <1>8, <1>9 DEF s

-----------------------------------------------------------------------------
(* Places *)

UpTo(S, i) == {j \in S : j <= i}

\* Some places are numbered by how many of them there are up to each: this is
\* a bijection, so no induction is needed to count them.
LEMMA PlacesAreNumbered ==
    ASSUME NEW n \in Nat, NEW S \in SUBSET (0..n)
    PROVE  /\ IsFiniteSet(S) /\ Cardinality(S) \in Nat
           /\ \A i \in S : Cardinality(UpTo(S, i)) \in 1..Cardinality(S)
           /\ \A i, j \in S : i < j => Cardinality(UpTo(S, i)) < Cardinality(UpTo(S, j))
           /\ \A k \in 1..Cardinality(S) : \E i \in S : Cardinality(UpTo(S, i)) = k
<1>1. IsFiniteSet(S)
  <2>1. IsFiniteSet(0..n)
    BY FS_Interval
  <2> QED BY <2>1, FS_Subset
<1> DEFINE c == Cardinality(S)
<1>2. c \in Nat
  BY <1>1, FS_CardinalityType
<1>3. ASSUME NEW i \in S
      PROVE  Cardinality(UpTo(S, i)) \in 1..c
  <2>1. UpTo(S, i) \in SUBSET S /\ i \in UpTo(S, i)
    BY DEF UpTo
  <2>2. IsFiniteSet(UpTo(S, i)) /\ Cardinality(UpTo(S, i)) <= c
    BY <1>1, <2>1, FS_Subset
  <2>3. Cardinality(UpTo(S, i)) \in Nat /\ Cardinality(UpTo(S, i)) # 0
    BY <2>1, <2>2, FS_CardinalityType, FS_EmptySet
  <2> QED BY <1>2, <2>2, <2>3
<1>4. ASSUME NEW i \in S, NEW j \in S, i < j
      PROVE  Cardinality(UpTo(S, i)) < Cardinality(UpTo(S, j))
  <2>0. i \in Int /\ j \in Int /\ \A x \in S : x \in Int
    OBVIOUS
  <2>1. /\ UpTo(S, i) \in SUBSET UpTo(S, j)
        /\ j \in UpTo(S, j) /\ j \notin UpTo(S, i)
        /\ UpTo(S, j) \in SUBSET S
    <3>1. \A x \in S : x <= i => x <= j
      BY <2>0, <1>4
    <3>2. j <= j /\ ~(j <= i)
      BY <2>0, <1>4
    <3> QED BY <3>1, <3>2 DEF UpTo
  <2>2. IsFiniteSet(UpTo(S, j))
    BY <1>1, <2>1, FS_Subset
  <2>3. /\ Cardinality(UpTo(S, i)) <= Cardinality(UpTo(S, j))
        /\ Cardinality(UpTo(S, i)) # Cardinality(UpTo(S, j))
    BY <2>1, <2>2, FS_Subset
  <2> QED BY <1>3, <2>3
<1> DEFINE f == [i \in S |-> Cardinality(UpTo(S, i))]
<1>5. f \in Injection(S, 1..c)
  <2>1. f \in [S -> 1..c]
    BY <1>3
  <2>2. \A i, j \in S : f[i] = f[j] => i = j
    <3> SUFFICES ASSUME NEW i \in S, NEW j \in S, i < j
                 PROVE  f[i] # f[j]
      OBVIOUS
    <3> QED BY <1>3, <1>4
  <2> HIDE DEF f
  <2> QED BY <2>1, <2>2 DEF Injection, IsInjective
<1>6. f \in Surjection(S, 1..c)
  <2>1. IsFiniteSet(1..c) /\ Cardinality(1..c) = c
    BY <1>2, FS_Interval
  <2> HIDE DEF f
  <2> QED BY <1>5, <2>1, FS_Injection
<1>7. \A k \in 1..c : \E i \in S : Cardinality(UpTo(S, i)) = k
  <2>1. \A k \in 1..c : \E i \in S : f[i] = k
    <3> HIDE DEF f
    <3> QED BY <1>6 DEF Surjection
  <2> QED BY <2>1
<1> QED
  BY <1>1, <1>2, <1>3, <1>4, <1>7

\* Kth finds the place that has that number.
LEMMA KthIsNumbered ==
    ASSUME NEW n \in Nat, NEW S \in SUBSET (0..n), NEW i \in S
    PROVE  Kth(S, Cardinality(UpTo(S, i))) = i
<1> DEFINE k == Cardinality(UpTo(S, i))
<1>1. \A j \in S : Cardinality(UpTo(S, j)) = k => j = i
  <2> TAKE j \in S
  <2>1. i \in Int /\ j \in Int
    OBVIOUS
  <2>2. i < j => Cardinality(UpTo(S, i)) < Cardinality(UpTo(S, j))
    BY PlacesAreNumbered
  <2>3. j < i => Cardinality(UpTo(S, j)) < Cardinality(UpTo(S, i))
    BY PlacesAreNumbered
  <2>4. Cardinality(UpTo(S, i)) \in Int /\ Cardinality(UpTo(S, j)) \in Int
    <3>1. \A x \in S : Cardinality(UpTo(S, x)) \in 1..Cardinality(S)
      BY PlacesAreNumbered
    <3> QED BY <3>1
  <2> QED BY <2>1, <2>2, <2>3, <2>4
<1>2. Kth(S, k) = CHOOSE j \in S : Cardinality(UpTo(S, j)) = k
  BY DEF Kth, UpTo
<1> QED
  BY <1>1, <1>2

\* A set of numbers that is bounded has a greatest one.
LEMMA GreatestIs ==
    ASSUME NEW n \in Nat, NEW S \in SUBSET (0..n), S # {}
    PROVE  Max(S) \in S /\ \A x \in S : x <= Max(S)
<1>1. IsFiniteSet(S) /\ Cardinality(S) \in Nat /\ Cardinality(S) # 0
  BY PlacesAreNumbered, FS_EmptySet
<1>2. PICK m \in S : Cardinality(UpTo(S, m)) = Cardinality(S)
  BY <1>1, PlacesAreNumbered
<1>3. UpTo(S, m) = S
  BY <1>1, <1>2, FS_Subset DEF UpTo
<1>4. \A x \in S : x <= m
  BY <1>3 DEF UpTo
<1>5. \A x \in S : m >= x
  BY <1>4
<1> QED
  BY <1>5 DEF Max

LEMMA LeastOfTwo ==
    ASSUME NEW a \in Int, NEW b \in Int
    PROVE  Min({a, b}) = IF a <= b THEN a ELSE b
<1> DEFINE m == IF a <= b THEN a ELSE b
<1>1. m \in {a, b} /\ m <= a /\ m <= b
  OBVIOUS
<1>2. \A x \in {a, b} : (\A y \in {a, b} : x =< y) => x = m
  OBVIOUS
<1> QED
  BY <1>1, <1>2 DEF Min

-----------------------------------------------------------------------------
(* What is held back *)

\* As much is held back as may be the start of a marker, and no less.
LEMMA StartedIsLongest ==
    ASSUME NEW A, Marker \in Seq(A), NEW tail \in Seq(A)
    PROVE  LET k == Started(tail, L - 1)
           IN  /\ k \in 0..(L - 1) /\ k <= Len(tail)
               /\ EndsInStart(tail, k)
               /\ \A j \in 1..(L - 1) : EndsInStart(tail, j) => j <= k
<1> DEFINE starts == {k \in 1..(L - 1) : /\ k <= Len(tail)
                                         /\ IsSuffix(SubSeq(Marker, 1, k), tail)}
           S == {0} \cup starts
           k == Max(S)
<1>1. L \in Nat /\ L > 0 /\ Len(tail) \in Nat /\ L - 1 \in Nat
  BY MarkerLength
<1>2. \A j \in 1..(L - 1) : j \in starts <=> EndsInStart(tail, j)
  <2> TAKE j \in 1..(L - 1)
  <2>1. j \in 1..L
    BY <1>1
  <2> QED BY <2>1, StartsAreFound
<1>3. S \in SUBSET (0..(L - 1)) /\ S # {}
  BY <1>1
<1>4. k \in S /\ \A x \in S : x <= k
  <2> HIDE DEF S
  <2> QED BY <1>1, <1>3, GreatestIs
<1>5. k \in 0..(L - 1)
  BY <1>3, <1>4
<1>6. EndsInStart(tail, k)
  <2> HIDE DEF k
  <2>1. CASE k = 0
    BY <2>1, <1>1 DEF EndsInStart
  <2>2. CASE k # 0
    BY <2>2, <1>2, <1>4, <1>5
  <2> QED BY <2>1, <2>2
<1>7. \A j \in 1..(L - 1) : EndsInStart(tail, j) => j <= k
  <2> HIDE DEF k
  <2> QED BY <1>2, <1>4
<1>8. Started(tail, L - 1) = k
  BY DEF Started
<1> HIDE DEF k
<1> QED
  BY <1>5, <1>6, <1>7, <1>8 DEF EndsInStart

\* Moving places moves nothing past another.
LEMMA MovedPlaces ==
    ASSUME NEW n \in Nat, NEW S \in SUBSET (0..n), NEW m \in Nat
    PROVE  /\ IsFiniteSet({m + j : j \in S})
           /\ Cardinality({m + j : j \in S}) = Cardinality(S)
<1> DEFINE T == {m + j : j \in S}
           f == [j \in S |-> m + j]
<1>1. f \in [S -> T] /\ \A i, j \in S : f[i] = f[j] => i = j
  OBVIOUS
<1>2. \A t \in T : \E j \in S : f[j] = t
  OBVIOUS
<1>3. f \in Bijection(S, T)
  <2> HIDE DEF f, T
  <2> QED BY <1>1, <1>2 DEF Bijection, Injection, Surjection, IsInjective
<1>4. IsFiniteSet(S)
  BY PlacesAreNumbered
<1> HIDE DEF f, T
<1>5. IsFiniteSet(T) /\ Cardinality(T) = Cardinality(S)
  BY <1>3, <1>4, FS_Bijection DEF ExistsBijection
<1> QED
  BY <1>5 DEF T

LEMMA BesideTypes ==
    ASSUME NEW A, Marker \in Seq(A), NEW text \in Seq(A)
    PROVE  /\ Len(text) \in Nat
           /\ Beside(text) \in SUBSET (1..Len(text))
           /\ Beside(text) \in SUBSET (0..Len(text))
           /\ \A i \in 1..Len(text) :
                  i \in Beside(text) <=> \A n : EndsAt(text, n) => i > n \/ i <= n - L
BY EndsAreFound DEF Beside, L

-----------------------------------------------------------------------------
(* What is left of a text *)

\* What is left of a text, symbol by symbol.
LEMMA LeftOver ==
    ASSUME NEW A, Marker \in Seq(A), NEW text \in Seq(A)
    PROVE  /\ WithoutMarkers(text) \in Seq(A)
           /\ Len(WithoutMarkers(text)) = Cardinality(Beside(text))
           /\ \A i \in Beside(text) :
                  WithoutMarkers(text)[Cardinality(UpTo(Beside(text), i))] = text[i]
<1> DEFINE S == Beside(text)
           c == Cardinality(S)
           W == [k \in 1..c |-> text[Kth(S, k)]]
<1>1. Len(text) \in Nat /\ S \in SUBSET (0..Len(text)) /\ S \in SUBSET (1..Len(text))
  BY BesideTypes
<1>2. c \in Nat
  <2> HIDE DEF S
  <2> QED BY <1>1, PlacesAreNumbered
<1>3. \A k \in 1..c : Kth(S, k) \in S
  <2> HIDE DEF S
  <2> TAKE k \in 1..c
  <2>1. PICK i \in S : Cardinality(UpTo(S, i)) = k
    BY <1>1, PlacesAreNumbered
  <2>2. Kth(S, k) = i
    BY <1>1, <2>1, KthIsNumbered
  <2> QED BY <2>2
<1>4. W \in Seq(A) /\ Len(W) = c
  <2>1. W \in [1..c -> A]
    <3>1. \A i \in 1..Len(text) : text[i] \in A
      BY ElementOfSeq
    <3>2. \A k \in 1..c : text[Kth(S, k)] \in A
      <4> HIDE DEF S, c
      <4> QED BY <1>1, <1>3, <3>1
    <3> HIDE DEF S, c
    <3> QED BY <3>2
  <2> HIDE DEF c
  <2> QED BY <2>1, <1>2
<1>5. \A i \in S : W[Cardinality(UpTo(S, i))] = text[i]
  <2> HIDE DEF S
  <2> TAKE i \in S
  <2>1. Cardinality(UpTo(S, i)) \in 1..c
    BY <1>1, PlacesAreNumbered
  <2>2. Kth(S, Cardinality(UpTo(S, i))) = i
    BY <1>1, KthIsNumbered
  <2> QED BY <2>1, <2>2
<1>6. CASE MarkerEnds(text) # {}
  <2>1. WithoutMarkers(text) = W
    BY <1>6 DEF WithoutMarkers
  <2> HIDE DEF W, S
  <2> QED BY <2>1, <1>4, <1>5 DEF S
<1>7. CASE MarkerEnds(text) = {}
  <2>1. S = 1..Len(text)
    BY <1>1, <1>7 DEF Beside
  <2>2. \A i \in S : Cardinality(UpTo(S, i)) = i
    <3> HIDE DEF S
    <3> TAKE i \in S
    <3>1. UpTo(S, i) = 1..i
      BY <1>1, <2>1 DEF UpTo
    <3> QED BY <1>1, <2>1, <3>1, FS_Interval
  <2>3. Cardinality(S) = Len(text)
    <3>1. \A n \in Nat : Cardinality(1..n) = n
      BY FS_Interval
    <3>2. Cardinality(1..Len(text)) = Len(text)
      BY <1>1, <3>1
    <3> QED BY <2>1, <3>2
  <2>4. WithoutMarkers(text) = text
    BY <1>7 DEF WithoutMarkers
  <2> HIDE DEF S
  <2> QED BY <2>2, <2>3, <2>4 DEF S
<1> QED
  BY <1>6, <1>7

LEMMA LeftOverAlone ==
    ASSUME NEW A, Marker \in Seq(A), NEW text \in Seq(A), \A n : ~EndsAt(text, n)
    PROVE  WithoutMarkers(text) = text
BY EndsAreFound DEF WithoutMarkers

\* Nothing is left of a marker.
LEMMA NothingOfAMarker ==
    ASSUME NEW A, Marker \in Seq(A)
    PROVE  WithoutMarkers(Marker) = << >>
<1>1. L \in Nat /\ L > 0 /\ Len(Marker) = L
  BY MarkerLength DEF L
<1>2. EndsAt(Marker, L)
  BY <1>1 DEF EndsAt
<1>3. \A i \in 1..Len(Marker) : i \notin Beside(Marker)
  BY <1>1, <1>2, BesideTypes
<1>4. Beside(Marker) = {}
  BY <1>3, BesideTypes
<1>5. Cardinality(Beside(Marker)) = 0
  BY <1>4, FS_EmptySet
<1> QED
  BY <1>5, LeftOver, EmptySeq

\* Two texts that share no marker where they meet.
Unsplit(a, b) ==
    \A n \in (Len(a) + 1)..(Len(a) + L - 1) : ~EndsAt(a \o b, n)

LEMMA EndsOfBoth ==
    ASSUME NEW A, Marker \in Seq(A), NEW a \in Seq(A), NEW b \in Seq(A), Unsplit(a, b)
    PROVE  \A n : EndsAt(a \o b, n) <=>
               \/ EndsAt(a, n)
               \/ n \in Int /\ EndsAt(b, n - Len(a))
<1> DEFINE m == Len(a)
<1>1. /\ L \in Nat /\ L > 0 /\ m \in Nat /\ Len(b) \in Nat
      /\ a \o b \in Seq(A) /\ Len(a \o b) = m + Len(b)
      /\ \A i \in 1..m : (a \o b)[i] = a[i]
      /\ \A i \in 1..Len(b) : (a \o b)[m + i] = b[i]
  BY MarkerLength, ConcatProperties
<1>0. \A n : EndsAt(a \o b, n) \/ EndsAt(a, n) => n \in Int
  BY <1>1 DEF EndsAt
<1> SUFFICES ASSUME NEW n \in Int
             PROVE  EndsAt(a \o b, n) <=> EndsAt(a, n) \/ EndsAt(b, n - m)
  BY <1>0
<1>2. CASE n <= m
  <2>1. ~EndsAt(b, n - m)
    BY <1>1, <1>2 DEF EndsAt
  <2>2. EndsAt(a \o b, n) <=> EndsAt(a, n)
    <3>1. n \in L..m => \A i \in 1..L : (a \o b)[n - L + i] = a[n - L + i]
      BY <1>1, <1>2
    <3> QED BY <1>1, <1>2, <3>1 DEF EndsAt
  <2> QED BY <2>1, <2>2
<1>3. CASE n > m /\ n < m + L
  <2>1. ~EndsAt(a, n) /\ ~EndsAt(b, n - m)
    BY <1>1, <1>3 DEF EndsAt
  <2>2. ~EndsAt(a \o b, n)
    BY <1>1, <1>3 DEF Unsplit
  <2> QED BY <2>1, <2>2
<1>4. CASE n >= m + L
  <2>1. ~EndsAt(a, n)
    BY <1>1, <1>4 DEF EndsAt
  <2>2. EndsAt(a \o b, n) <=> EndsAt(b, n - m)
    <3>1. n - m \in L..Len(b) =>
              \A i \in 1..L : (a \o b)[n - L + i] = b[n - m - L + i]
      <4> SUFFICES ASSUME n - m \in L..Len(b), NEW i \in 1..L
                   PROVE  (a \o b)[n - L + i] = b[n - m - L + i]
        OBVIOUS
      <4>1. n - m - L + i \in 1..Len(b)
        BY <1>1
      <4>2. (a \o b)[m + (n - m - L + i)] = b[n - m - L + i]
        BY <1>1, <4>1
      <4>3. m + (n - m - L + i) = n - L + i
        BY <1>1
      <4> QED BY <4>2, <4>3
    <3>2. n \in L..Len(a \o b) <=> n - m \in L..Len(b)
      BY <1>1, <1>4
    <3> QED BY <3>1, <3>2 DEF EndsAt
  <2> QED BY <2>1, <2>2
<1> QED
  BY <1>1, <1>2, <1>3, <1>4

\* The markers of two texts that share none go from each of them.
LEMMA LeftOverOfBoth ==
    ASSUME NEW A, Marker \in Seq(A), NEW a \in Seq(A), NEW b \in Seq(A), Unsplit(a, b)
    PROVE  WithoutMarkers(a \o b) = WithoutMarkers(a) \o WithoutMarkers(b)
<1> DEFINE m == Len(a)
           t == a \o b
           P == Beside(a)
           Q == Beside(b)
           M == {m + j : j \in Q}
           R == Beside(t)
<1>1. /\ L \in Nat /\ L > 0 /\ m \in Nat /\ Len(b) \in Nat
      /\ t \in Seq(A) /\ Len(t) = m + Len(b)
      /\ \A i \in 1..m : t[i] = a[i]
      /\ \A i \in 1..Len(b) : t[m + i] = b[i]
  BY MarkerLength, ConcatProperties
<1>2. /\ P \in SUBSET (1..m) /\ P \in SUBSET (0..m)
      /\ Q \in SUBSET (1..Len(b)) /\ Q \in SUBSET (0..Len(b))
      /\ R \in SUBSET (1..Len(t)) /\ R \in SUBSET (0..Len(t))
  BY <1>1, BesideTypes
<1>3. \A n : EndsAt(t, n) <=> EndsAt(a, n) \/ (n \in Int /\ EndsAt(b, n - m))
  BY EndsOfBoth
<1>4. R = P \cup M
  <2>1. ASSUME NEW i \in 1..m
        PROVE  i \in R <=> i \in P
    <3>1. \A n : n \in Int /\ EndsAt(b, n - m) => i <= n - L
      BY <1>1 DEF EndsAt
    <3>2. i \in R <=> \A n : EndsAt(t, n) => i > n \/ i <= n - L
      <4>1. i \in 1..Len(t)
        BY <1>1
      <4> HIDE DEF t
      <4> QED BY <1>1, <4>1, BesideTypes
    <3>3. i \in P <=> \A n : EndsAt(a, n) => i > n \/ i <= n - L
      BY BesideTypes
    <3> HIDE DEF t
    <3> QED BY <1>3, <3>1, <3>2, <3>3
  <2>2. ASSUME NEW j \in 1..Len(b)
        PROVE  m + j \in R <=> j \in Q
    <3>1. \A n : EndsAt(a, n) => m + j > n
      BY <1>1 DEF EndsAt
    <3>2. m + j \in R <=> \A n : EndsAt(t, n) => m + j > n \/ m + j <= n - L
      <4>1. m + j \in 1..Len(t)
        BY <1>1
      <4> HIDE DEF t
      <4> QED BY <1>1, <4>1, BesideTypes
    <3>3. j \in Q <=> \A n : EndsAt(b, n) => j > n \/ j <= n - L
      BY BesideTypes
    <3>4. \A n : EndsAt(b, n) => n \in Int
      BY <1>1 DEF EndsAt
    <3>5. ASSUME m + j \in R PROVE j \in Q
      <4> SUFFICES ASSUME NEW n, EndsAt(b, n)
                   PROVE  j > n \/ j <= n - L
        BY <3>3
      <4>1. n \in Int /\ n + m \in Int /\ (n + m) - m = n
        BY <1>1, <3>4
      <4>2. EndsAt(t, n + m)
        BY <1>3, <4>1
      <4>3. m + j > n + m \/ m + j <= (n + m) - L
        BY <3>2, <3>5, <4>2
      <4> QED BY <1>1, <4>1, <4>3
    <3>6. ASSUME j \in Q PROVE m + j \in R
      <4> SUFFICES ASSUME NEW n, n \in Int, EndsAt(b, n - m)
                   PROVE  m + j > n \/ m + j <= n - L
        BY <1>3, <3>1, <3>2
      <4>1. j > n - m \/ j <= n - m - L
        BY <3>3, <3>6
      <4> QED BY <1>1, <4>1
    <3> QED BY <3>5, <3>6
  <2>3. \A i \in 1..Len(t) : i \in 1..m \/ \E j \in 1..Len(b) : i = m + j
    <3> HIDE DEF t
    <3> TAKE i \in 1..Len(t)
    <3>1. i > m => i - m \in 1..Len(b) /\ i = m + (i - m)
      BY <1>1
    <3>2. i \in Int /\ 1 <= i
      OBVIOUS
    <3>3. CASE i > m
      <4>1. \E j \in 1..Len(b) : i = m + j
        BY <3>1, <3>3
      <4> QED BY <4>1
    <3>4. CASE i <= m
      BY <1>1, <3>2, <3>4
    <3> QED BY <1>1, <3>2, <3>3, <3>4
  <2>4. \A i \in R : i \in P \cup M
    BY <1>2, <2>1, <2>2, <2>3
  <2>5. \A i \in P \cup M : i \in R
    BY <1>2, <2>1, <2>2
  <2> QED BY <2>4, <2>5
<1> DEFINE p == Cardinality(P)
<1> HIDE DEF P, Q, R, t
<1>5. IsFiniteSet(P) /\ p \in Nat /\ IsFiniteSet(Q) /\ Cardinality(Q) \in Nat
  BY <1>1, <1>2, PlacesAreNumbered
<1>6. \A S \in SUBSET Q :
          Cardinality(P \cup {m + j : j \in S}) = p + Cardinality(S)
  <2> TAKE S \in SUBSET Q
  <2> DEFINE T == {m + j : j \in S}
  <2>1. S \in SUBSET (0..Len(b))
    BY <1>2
  <2>2. IsFiniteSet(T) /\ Cardinality(T) = Cardinality(S) /\ Cardinality(S) \in Nat
    <3>1. IsFiniteSet(T) /\ Cardinality(T) = Cardinality(S)
      BY <1>1, <2>1, MovedPlaces
    <3>2. Cardinality(S) \in Nat
      BY <1>1, <2>1, PlacesAreNumbered
    <3> QED BY <3>1, <3>2
  <2>3. P \cap T = {}
    BY <1>1, <1>2
  <2> HIDE DEF T
  <2>4. Cardinality(P \cup T) = p + Cardinality(T) - Cardinality(P \cap T)
    BY <1>5, <2>2, FS_Union
  <2>5. Cardinality(P \cap T) = 0
    BY <2>3, FS_EmptySet
  <2> QED BY <1>5, <2>2, <2>4, <2>5 DEF T
<1>7. Cardinality(R) = p + Cardinality(Q)
  BY <1>4, <1>6
<1>8. \A i \in P : UpTo(R, i) = UpTo(P, i)
  <2> TAKE i \in P
  <2>1. \A x \in M : ~(x <= i)
    BY <1>1, <1>2
  <2> QED BY <1>4, <2>1 DEF UpTo
<1>9. \A j \in Q : Cardinality(UpTo(R, m + j)) = p + Cardinality(UpTo(Q, j))
  <2> TAKE j \in Q
  <2>1. UpTo(R, m + j) = P \cup {m + x : x \in UpTo(Q, j)}
    <3>1. \A x \in P : x <= m + j
      BY <1>1, <1>2
    <3>2. \A x \in Q : m + x <= m + j <=> x <= j
      BY <1>1, <1>2
    <3> QED BY <1>4, <3>1, <3>2 DEF UpTo
  <2>2. UpTo(Q, j) \in SUBSET Q
    BY DEF UpTo
  <2> QED BY <1>6, <2>1, <2>2
<1> DEFINE U == WithoutMarkers(a)
           V == WithoutMarkers(b)
           W == WithoutMarkers(t)
<1>10. /\ U \in Seq(A) /\ Len(U) = p
       /\ \A i \in P : U[Cardinality(UpTo(P, i))] = a[i]
  BY LeftOver DEF P
<1>11. /\ V \in Seq(A) /\ Len(V) = Cardinality(Q)
       /\ \A j \in Q : V[Cardinality(UpTo(Q, j))] = b[j]
  BY LeftOver DEF Q
<1>12. /\ W \in Seq(A) /\ Len(W) = p + Cardinality(Q)
       /\ \A i \in R : W[Cardinality(UpTo(R, i))] = t[i]
  BY <1>1, <1>7, LeftOver DEF R
<1> HIDE DEF U, V, W
<1>13. /\ U \o V \in Seq(A) /\ Len(U \o V) = p + Cardinality(Q)
       /\ \A k \in 1..p + Cardinality(Q) :
              (U \o V)[k] = IF k <= p THEN U[k] ELSE V[k - p]
  <2>1. /\ U \o V \in Seq(A) /\ Len(U \o V) = Len(U) + Len(V)
        /\ \A k \in 1..Len(U) + Len(V) :
               (U \o V)[k] = IF k <= Len(U) THEN U[k] ELSE V[k - Len(U)]
    BY <1>10, <1>11, ConcatProperties
  <2> QED BY <2>1, <1>10, <1>11
<1>14. ASSUME NEW k \in 1..p + Cardinality(Q)
       PROVE  W[k] = (U \o V)[k]
  <2>1. PICK i \in R : Cardinality(UpTo(R, i)) = k
    <3>1. k \in 1..Cardinality(R) /\ Len(t) \in Nat
      BY <1>1, <1>7
    <3> QED BY <3>1, <1>2, PlacesAreNumbered
  <2>2. W[k] = t[i]
    BY <1>12, <2>1
  <2>3. CASE i \in P
    <3>1. Cardinality(UpTo(P, i)) = k /\ k <= p
      <4>1. Cardinality(UpTo(P, i)) \in 1..p
        BY <1>1, <1>2, <2>3, PlacesAreNumbered
      <4>2. UpTo(R, i) = UpTo(P, i)
        BY <1>8, <2>3
      <4> QED BY <1>5, <2>1, <4>1, <4>2
    <3>2. (U \o V)[k] = a[i]
      BY <1>10, <1>13, <2>3, <3>1
    <3>3. t[i] = a[i]
      BY <1>1, <1>2, <2>3
    <3> QED BY <2>2, <3>2, <3>3
  <2>4. CASE i \in M
    <3>1. PICK j \in Q : i = m + j
      BY <2>4
    <3>2. k = p + Cardinality(UpTo(Q, j)) /\ Cardinality(UpTo(Q, j)) \in 1..Cardinality(Q)
      BY <1>1, <1>2, <1>9, <2>1, <3>1, PlacesAreNumbered
    <3>3. ~(k <= p) /\ k - p = Cardinality(UpTo(Q, j))
      BY <1>5, <3>2
    <3>4. (U \o V)[k] = b[j]
      BY <1>11, <1>13, <3>3
    <3>5. t[i] = b[j]
      BY <1>1, <1>2, <3>1
    <3> QED BY <2>2, <3>4, <3>5
  <2> QED BY <1>4, <2>1, <2>3, <2>4
<1>15. W = U \o V
  BY <1>12, <1>13, <1>14, SeqEqual
<1> QED
  BY <1>15 DEF W, U, V, t

-----------------------------------------------------------------------------
(* What is held back of a text, and what is let through *)

\* What is held back is the longest end of the text that may be the start of a
\* marker.
Held(text, held) ==
    /\ Len(held) < L
    /\ \A i \in 1..Len(held) : held[i] = Marker[i]
    /\ EndsInStart(text, Len(held))
    /\ \A j \in 1..(L - 1) : EndsInStart(text, j) => j <= Len(held)

Through(text, held) == SubSeq(text, 1, Len(text) - Len(held))

LEMMA HeldAndThrough ==
    ASSUME NEW A, Marker \in Seq(A), NEW text \in Seq(A), NEW held \in Seq(A),
           Held(text, held)
    PROVE  /\ Through(text, held) \in Seq(A)
           /\ Len(Through(text, held)) = Len(text) - Len(held)
           /\ Len(held) <= Len(text)
           /\ text = Through(text, held) \o held
<1> DEFINE m == Len(text) - Len(held)
           t == Through(text, held)
<1>1. /\ L \in Nat /\ Len(text) \in Nat /\ Len(held) \in Nat
      /\ Len(held) <= Len(text) /\ m \in Nat
      /\ \A i \in 1..Len(held) : text[m + i] = held[i]
  BY MarkerLength DEF Held, EndsInStart
<1>2. t \in Seq(A) /\ Len(t) = m /\ \A i \in 1..m : t[i] = text[i]
  <2>1. \A i \in 1..m : text[i] \in A
    BY <1>1, ElementOfSeq
  <2> QED BY <1>1, <2>1, SubSeqProperties DEF Through
<1>3. /\ t \o held \in Seq(A) /\ Len(t \o held) = Len(text)
      /\ \A i \in 1..Len(text) :
             (t \o held)[i] = IF i <= m THEN t[i] ELSE held[i - m]
  <2>1. /\ t \o held \in Seq(A) /\ Len(t \o held) = Len(t) + Len(held)
        /\ \A i \in 1..Len(t) + Len(held) :
               (t \o held)[i] = IF i <= Len(t) THEN t[i] ELSE held[i - Len(t)]
    BY <1>2, ConcatProperties
  <2>2. Len(t) + Len(held) = Len(text)
    BY <1>1, <1>2
  <2> HIDE DEF t
  <2> QED BY <1>2, <2>1, <2>2
<1>4. ASSUME NEW i \in 1..Len(text)
      PROVE  text[i] = (t \o held)[i]
  <2>1. CASE i <= m
    BY <1>1, <1>2, <1>3, <2>1
  <2>2. CASE i > m
    <3>1. i - m \in 1..Len(held) /\ m + (i - m) = i
      BY <1>1, <2>2
    <3>2. text[m + (i - m)] = held[i - m]
      BY <1>1, <3>1
    <3>3. (t \o held)[i] = held[i - m]
      BY <1>1, <1>3, <2>2
    <3> QED BY <3>1, <3>2, <3>3
  <2>3. i <= m \/ i > m
    <3>1. i \in Int /\ m \in Int
      BY <1>1
    <3> QED BY <3>1
  <2> HIDE DEF t, m
  <2> QED BY <2>1, <2>2, <2>3
<1>5. text = t \o held
  <2> HIDE DEF t
  <2> QED BY <1>3, <1>4, SeqEqual
<1> QED
  BY <1>1, <1>2, <1>5

\* No marker lies across what has been let through, whatever comes next: its
\* start would have been held back.
LEMMA NothingAcross ==
    ASSUME NEW A, Marker \in Seq(A), NEW text \in Seq(A), NEW held \in Seq(A),
           Held(text, held), NEW more \in Seq(A)
    PROVE  /\ Through(text, held) \o (held \o more) = text \o more
           /\ Unsplit(Through(text, held), held \o more)
<1> DEFINE t == Through(text, held)
           o == Len(t)
           all == text \o more
<1>1. /\ t \in Seq(A) /\ o = Len(text) - Len(held) /\ Len(held) <= Len(text)
      /\ text = t \o held
  BY HeldAndThrough
<1>2. t \o (held \o more) = all
  <2> HIDE DEF t
  <2> QED BY <1>1, ConcatAssociative
<1>3. /\ L \in Nat /\ L > 0 /\ Len(text) \in Nat /\ Len(held) \in Nat
      /\ Len(more) \in Nat /\ o \in Nat
      /\ all \in Seq(A) /\ Len(all) = Len(text) + Len(more)
      /\ \A i \in 1..Len(text) : all[i] = text[i]
  <2>1. /\ all \in Seq(A) /\ Len(all) = Len(text) + Len(more)
        /\ \A i \in 1..Len(text) + Len(more) :
               all[i] = IF i <= Len(text) THEN text[i] ELSE more[i - Len(text)]
    BY ConcatProperties
  <2>2. Len(text) \in Nat /\ Len(held) \in Nat /\ Len(more) \in Nat /\ o \in Nat
    BY <1>1
  <2>3. \A i \in 1..Len(text) : all[i] = text[i]
    <3> HIDE DEF all
    <3> TAKE i \in 1..Len(text)
    <3>1. i \in 1..Len(text) + Len(more) /\ i <= Len(text)
      BY <2>2
    <3> QED BY <2>1, <3>1
  <2>4. L \in Nat /\ L > 0
    BY MarkerLength
  <2> HIDE DEF all, o
  <2> QED BY <2>1, <2>2, <2>3, <2>4
<1>4. ASSUME NEW n \in (o + 1)..(o + L - 1), EndsAt(all, n)
      PROVE  FALSE
  <2>1. n \in L..Len(all) /\ \A i \in 1..L : all[n - L + i] = Marker[i]
    BY <1>4 DEF EndsAt
  <2>2. CASE n <= Len(text)
    <3> DEFINE j == n - o
    <3>1. j \in 1..(L - 1) /\ j <= Len(held)
      BY <1>1, <1>3, <2>2 DEF Held
    <3>2. ASSUME NEW i \in 1..j
          PROVE  Marker[i] = Marker[L - j + i]
      <4>1. o + i \in 1..Len(text) /\ L - j + i \in 1..L /\ i \in 1..Len(held)
        BY <1>1, <1>3, <2>2, <3>1
      <4>2. text[o + i] = Marker[i]
        <5>1. text[Len(text) - Len(held) + i] = Marker[i]
          BY <4>1 DEF Held, EndsInStart
        <5> QED BY <1>1, <5>1
      <4>3. all[n - L + (L - j + i)] = Marker[L - j + i]
        BY <2>1, <4>1
      <4>4. n - L + (L - j + i) = o + i
        BY <1>3, <3>1
      <4>5. all[o + i] = text[o + i]
        BY <1>3, <4>1
      <4> QED BY <4>2, <4>3, <4>4, <4>5
    <3> HIDE DEF j
    <3> QED BY <3>1, <3>2, NoOverlap
  <2>3. CASE n > Len(text)
    <3> DEFINE k == Len(text) + L - n
    <3>1. k \in 1..(L - 1) /\ k <= Len(text) /\ k > Len(held)
      BY <1>1, <1>3, <2>1, <2>3
    <3>2. ASSUME NEW i \in 1..k
          PROVE  text[Len(text) - k + i] = Marker[i]
      <4>1. i \in 1..L /\ Len(text) - k + i \in 1..Len(text)
            /\ n - L + i = Len(text) - k + i
        BY <1>3, <3>1
      <4>2. all[n - L + i] = Marker[i]
        BY <2>1, <4>1
      <4> QED BY <1>3, <4>1, <4>2
    <3>3. EndsInStart(text, k)
      BY <3>1, <3>2 DEF EndsInStart
    <3>4. k <= Len(held)
      BY <3>1, <3>3 DEF Held
    <3> QED BY <1>3, <3>1, <3>4
  <2> QED BY <1>3, <2>1, <2>2, <2>3
<1>5. Unsplit(t, held \o more)
  BY <1>2, <1>4 DEF Unsplit
<1> QED
  BY <1>2, <1>5

\* Before anything is read nothing is held back.
LEMMA NothingHeld ==
    ASSUME NEW A, Marker \in Seq(A)
    PROVE  Held(<< >>, << >>)
<1>1. L \in Nat /\ L > 0 /\ Len(<< >>) = 0
  BY MarkerLength
<1> QED
  BY <1>1 DEF Held, EndsInStart

\* At the end of a stream, what is held back is no marker any more.
LEMMA LastOfAText ==
    ASSUME NEW A, Marker \in Seq(A), NEW text \in Seq(A), NEW held \in Seq(A),
           Held(text, held)
    PROVE  WithoutMarkers(text) = WithoutMarkers(Through(text, held)) \o held
<1> DEFINE t == Through(text, held)
<1>1. t \in Seq(A) /\ text = t \o held
  BY HeldAndThrough
<1>2. Unsplit(t, held)
  <2>1. << >> \in Seq(A) /\ held \o << >> = held
    BY EmptySeq, ConcatEmptySeq
  <2>2. Unsplit(t, held \o << >>)
    BY <2>1, NothingAcross
  <2> QED BY <2>1, <2>2
<1>3. WithoutMarkers(held) = held
  <2>1. \A n : ~EndsAt(held, n)
    BY MarkerLength DEF EndsAt, Held
  <2> QED BY <2>1, LeftOverAlone
<1> HIDE DEF t
<1>4. WithoutMarkers(t \o held) = WithoutMarkers(t) \o WithoutMarkers(held)
  BY <1>1, <1>2, LeftOverOfBoth
<1> QED
  BY <1>1, <1>3, <1>4 DEF t

\* One text after another, with their lengths by name.
LEMMA Joined ==
    ASSUME NEW A, NEW a \in Seq(A), NEW b \in Seq(A),
           NEW c, c = a \o b, NEW m, m = Len(a), NEW n, n = Len(b)
    PROVE  /\ c \in Seq(A) /\ Len(c) = m + n
           /\ \A i \in 1..(m + n) : c[i] = IF i <= m THEN a[i] ELSE b[i - m]
BY ConcatProperties

\* The beginning of a text.
LEMMA Beginning ==
    ASSUME NEW A, NEW a \in Seq(A), NEW m \in 0..Len(a), NEW b, b = SubSeq(a, 1, m)
    PROVE  b \in Seq(A) /\ Len(b) = m /\ \A i \in 1..m : b[i] = a[i]
<1>1. \A i \in 1..m : a[i] \in A
  BY ElementOfSeq
<1>2. /\ b \in Seq(A)
      /\ Len(b) = IF 1 <= m THEN m - 1 + 1 ELSE 0
      /\ \A i \in 1..m - 1 + 1 : b[i] = a[1 + i - 1]
  BY <1>1, SubSeqProperties
<1>3. m - 1 + 1 = m /\ (1 <= m \/ m = 0) /\ \A i \in 1..m : 1 + i - 1 = i
  OBVIOUS
<1> QED
  BY <1>2, <1>3

\* What `push` makes of a chunk: where the last marker ends, what goes through
\* and what is held back.
After(text) == Max({0} \cup MarkerEnds(text))
Safe(text) == After(text) + SafePrefix(SubSeq(text, After(text) + 1, Len(text)))

\* After a chunk as after any: the longest start of a marker is held back, and
\* what has gone through has the markers of all the text taken out of it.
THEOREM PushedOn ==
    ASSUME NEW A, Marker \in Seq(A), NEW text \in Seq(A), NEW held \in Seq(A),
           Held(text, held), NEW chunk \in Seq(A)
    PROVE  LET new == held \o chunk
               rest == SubSeq(new, Safe(new) + 1, Len(new))
               out == SubSeq(new, 1, Safe(new))
           IN  /\ rest \in Seq(A)
               /\ Held(text \o chunk, rest)
               /\ WithoutMarkers(Through(text \o chunk, rest))
                      = WithoutMarkers(Through(text, held)) \o WithoutMarkers(out)
               /\ WithoutMarkers(out) \in Seq(A)
               /\ MarkerEnds(new) # {} <=>
                      \E n : n > Len(text) /\ EndsAt(text \o chunk, n)
<1> DEFINE t == Through(text, held)
           o == Len(t)
           new == held \o chunk
           all == text \o chunk
           s == Len(new)
           a == After(new)
           tail == SubSeq(new, a + 1, s)
           k == Started(tail, L - 1)
           rest == SubSeq(new, Safe(new) + 1, s)
           out == SubSeq(new, 1, Safe(new))
<1>1. /\ t \in Seq(A) /\ o = Len(text) - Len(held) /\ Len(held) <= Len(text)
      /\ t \o new = all /\ Unsplit(t, new)
  <2>1. t \o new = all /\ Unsplit(t, new)
    BY NothingAcross
  <2>2. t \in Seq(A) /\ o = Len(text) - Len(held) /\ Len(held) <= Len(text)
    BY HeldAndThrough
  <2> QED BY <2>1, <2>2
<1>2. /\ new \in Seq(A) /\ s = Len(held) + Len(chunk)
      /\ all \in Seq(A) /\ Len(all) = Len(text) + Len(chunk)
  BY ConcatProperties
<1>3. /\ L \in Nat /\ L > 0 /\ Len(text) \in Nat /\ Len(held) \in Nat
      /\ Len(chunk) \in Nat /\ o \in Nat /\ s \in Nat /\ Len(all) = o + s
  <2>1. Len(text) \in Nat /\ Len(held) \in Nat /\ Len(chunk) \in Nat
    OBVIOUS
  <2> HIDE DEF o, s, all
  <2> QED BY <2>1, <1>1, <1>2, MarkerLength
<1>4. /\ \A i \in 1..(o + s) : all[i] = IF i <= o THEN t[i] ELSE new[i - o]
      /\ \A i \in 1..s : all[o + i] = new[i]
  <2>1. o = Len(t) /\ s = Len(new)
    OBVIOUS
  <2> HIDE DEF new, t, o, s, all
  <2>2. \A i \in 1..(o + s) : all[i] = IF i <= o THEN t[i] ELSE new[i - o]
    <3>1. all = t \o new
      BY <1>1
    <3>2. t \in Seq(A) /\ new \in Seq(A)
      BY <1>1, <1>2
    <3>3. /\ all \in Seq(A) /\ Len(all) = o + s
          /\ \A i \in 1..(o + s) : all[i] = IF i <= o THEN t[i] ELSE new[i - o]
      BY <2>1, <3>1, <3>2, Joined
    <3> QED BY <3>3
  <2>3. ASSUME NEW i \in 1..s
        PROVE  all[o + i] = new[i]
    <3>1. o + i \in 1..(o + s) /\ ~(o + i <= o) /\ (o + i) - o = i
      BY <1>3
    <3> QED BY <2>2, <3>1
  <2> QED BY <2>2, <2>3
<1>5. \A i \in 1..Len(text) : all[i] = text[i]
  <2>1. \A i \in 1..Len(text) + Len(chunk) :
            all[i] = IF i <= Len(text) THEN text[i] ELSE chunk[i - Len(text)]
    BY ConcatProperties
  <2> HIDE DEF all
  <2> TAKE i \in 1..Len(text)
  <2>2. i \in 1..Len(text) + Len(chunk) /\ i <= Len(text)
    BY <1>3
  <2> QED BY <2>1, <2>2
<1> HIDE DEF t, o, new, all, s
\* Where the last marker ends.
<1>6. /\ a \in 0..s
      /\ a = 0 \/ EndsAt(new, a)
      /\ \A n : EndsAt(new, n) => n \in Nat /\ n > 0 /\ n <= a
  <2> DEFINE S == {0} \cup MarkerEnds(new)
  <2>1. \A n : n \in MarkerEnds(new) <=> EndsAt(new, n)
    BY <1>2, EndsAreFound
  <2>2. \A n : EndsAt(new, n) => n \in L..s
    BY DEF EndsAt, s
  <2>3. S \in SUBSET (0..s) /\ S # {}
    BY <1>3, <2>1, <2>2
  <2>4. Max(S) \in S /\ \A x \in S : x <= Max(S)
    <3> HIDE DEF S
    <3> QED BY <1>3, <2>3, GreatestIs
  <2>5. a = Max(S)
    BY DEF After
  <2>6. a \in S /\ \A x \in S : x <= a
    BY <2>4, <2>5
  <2> HIDE DEF a
  <2> QED BY <1>3, <2>1, <2>2, <2>3, <2>6
<1> HIDE DEF a
<1>7. tail \in Seq(A) /\ Len(tail) = s - a /\ \A i \in 1..(s - a) : tail[i] = new[a + i]
  <2>1. \A i \in (a + 1)..s : new[i] \in A
    BY <1>2, <1>3, <1>6, ElementOfSeq DEF s
  <2>2. /\ SubSeq(new, a + 1, s) \in Seq(A)
        /\ Len(SubSeq(new, a + 1, s)) = IF a + 1 <= s THEN s - (a + 1) + 1 ELSE 0
        /\ \A i \in 1..s - (a + 1) + 1 : SubSeq(new, a + 1, s)[i] = new[(a + 1) + i - 1]
    <3>1. a + 1 \in Int /\ s \in Int
      BY <1>3, <1>6
    <3> QED BY <2>1, <3>1, SubSeqProperties
  <2> HIDE DEF tail
  <2>3. /\ tail \in Seq(A)
        /\ Len(tail) = IF a + 1 <= s THEN s - (a + 1) + 1 ELSE 0
        /\ \A i \in 1..s - (a + 1) + 1 : tail[i] = new[(a + 1) + i - 1]
    BY <2>2 DEF tail
  <2>4. a \in Int /\ s \in Int /\ a <= s
    BY <1>3, <1>6
  <2>5. \A i \in 1..(s - a) : (a + 1) + i - 1 = a + i
    BY <2>4
  <2>6. s - (a + 1) + 1 = s - a
    BY <2>4
  <2> QED BY <2>3, <2>4, <2>5, <2>6
<1> HIDE DEF tail
<1>8. /\ k \in 0..(L - 1) /\ k <= s - a
      /\ EndsInStart(tail, k)
      /\ \A j \in 1..(L - 1) : EndsInStart(tail, j) => j <= k
  BY <1>7, StartedIsLongest
<1>9. Safe(new) = s - k
  <2>1. SafePrefix(tail) = Len(tail) - k
    BY DEF SafePrefix, L
  <2>2. Safe(new) = a + SafePrefix(tail)
    BY DEF Safe, a, tail, s
  <2> HIDE DEF k
  <2> QED BY <1>3, <1>6, <1>7, <1>8, <2>1, <2>2
<1> HIDE DEF k
<1>10. rest \in Seq(A) /\ Len(rest) = k /\ \A i \in 1..k : rest[i] = new[s - k + i]
  <2>1. \A i \in (s - k + 1)..s : new[i] \in A
    BY <1>2, <1>3, <1>6, <1>8, ElementOfSeq DEF s
  <2>2. s - k + 1 \in Int /\ s \in Int /\ k \in Nat
    BY <1>3, <1>8
  <2> DEFINE b == s - k + 1
  <2>3. /\ SubSeq(new, b, s) \in Seq(A)
        /\ Len(SubSeq(new, b, s)) = IF b <= s THEN s - b + 1 ELSE 0
        /\ \A i \in 1..s - b + 1 : SubSeq(new, b, s)[i] = new[b + i - 1]
    <3>1. b \in Int /\ s \in Int /\ \A i \in b..s : new[i] \in A
      BY <2>1, <2>2
    <3> HIDE DEF b
    <3> QED BY <3>1, SubSeqProperties
  <2>4. rest = SubSeq(new, b, s)
    BY <1>9
  <2>5. s - b + 1 = k /\ (b <= s <=> k > 0) /\ \A i \in 1..k : b + i - 1 = s - k + i
    BY <2>2, <1>3
  <2> HIDE DEF rest, b
  <2>6. rest \in Seq(A)
    BY <2>3, <2>4
  <2>7. Len(rest) = k
    BY <2>2, <2>3, <2>4, <2>5
  <2>8. ASSUME NEW i \in 1..k
        PROVE  rest[i] = new[s - k + i]
    BY <2>3, <2>4, <2>5
  <2> QED BY <2>6, <2>7, <2>8
<1>11. out \in Seq(A) /\ Len(out) = s - k /\ \A i \in 1..(s - k) : out[i] = new[i]
  <2>1. s - k \in Nat /\ s - k <= s
    BY <1>3, <1>6, <1>8
  <2>2. out = SubSeq(new, 1, s - k)
    BY <1>9
  <2>3. s - k \in 0..Len(new)
    BY <2>1, <1>3 DEF s
  <2> HIDE DEF out
  <2> QED BY <1>2, <2>2, <2>3, Beginning
<1> HIDE DEF rest, out
\* What is held back is a start of a marker, ...
<1>12. \A i \in 1..k : new[s - k + i] = Marker[i]
  <2> TAKE i \in 1..k
  <2>1. tail[(s - a) - k + i] = Marker[i]
    BY <1>7, <1>8 DEF EndsInStart
  <2>2. (s - a) - k + i \in 1..(s - a) /\ a + ((s - a) - k + i) = s - k + i
    BY <1>3, <1>6, <1>8
  <2>3. tail[(s - a) - k + i] = new[a + ((s - a) - k + i)]
    BY <1>7, <2>2
  <2> QED BY <2>1, <2>2, <2>3
<1>13. EndsInStart(all, k)
  <2> SUFFICES ASSUME NEW i \in 1..k
               PROVE  k <= Len(all) /\ all[Len(all) - k + i] = Marker[i]
    BY <1>3, <1>6, <1>8 DEF EndsInStart
  <2>1. s - k + i \in 1..s /\ o + (s - k + i) = Len(all) - k + i /\ k <= Len(all)
    BY <1>3, <1>6, <1>8
  <2>2. all[o + (s - k + i)] = new[s - k + i]
    BY <1>4, <2>1
  <2> QED BY <1>12, <2>1, <2>2
\* ... and the longest one.
<1>14. ASSUME NEW j \in 1..(L - 1), EndsInStart(all, j)
       PROVE  j <= k
  <2>1. j <= Len(all) /\ \A i \in 1..j : all[Len(all) - j + i] = Marker[i]
    BY <1>14 DEF EndsInStart
  <2>2. j <= s
    <3> SUFFICES ASSUME j > s
                 PROVE  FALSE
      BY <1>3
    <3> DEFINE r == j - Len(chunk)
    <3>1. r \in 1..(L - 1) /\ r > Len(held) /\ r <= Len(text)
      BY <1>2, <1>3, <2>1
    <3>2. ASSUME NEW i \in 1..r
          PROVE  text[Len(text) - r + i] = Marker[i]
      <4>1. /\ i \in 1..j /\ Len(all) - j + i = Len(text) - r + i
            /\ Len(text) - r + i \in 1..Len(text)
        BY <1>2, <1>3, <3>1
      <4>2. all[Len(all) - j + i] = Marker[i]
        BY <2>1, <4>1
      <4> QED BY <1>5, <4>1, <4>2
    <3>3. EndsInStart(text, r)
      BY <3>1, <3>2 DEF EndsInStart
    <3>4. r <= Len(held)
      BY <3>1, <3>3 DEF Held
    <3> QED BY <1>3, <3>1, <3>4
  <2>3. \A i \in 1..j : new[s - j + i] = Marker[i]
    <3> TAKE i \in 1..j
    <3>1. s - j + i \in 1..s /\ o + (s - j + i) = Len(all) - j + i
      BY <1>3, <2>2
    <3>2. all[o + (s - j + i)] = new[s - j + i]
      BY <1>4, <3>1
    <3>3. all[Len(all) - j + i] = Marker[i]
      BY <2>1
    <3> QED BY <3>1, <3>2, <3>3
  <2>4. j <= s - a
    <3> SUFFICES ASSUME j > s - a
                 PROVE  FALSE
      BY <1>3, <1>6
    <3>1. a # 0 /\ EndsAt(new, a)
      BY <1>3, <1>6, <2>2
    <3>2. a \in L..s /\ \A i \in 1..L : new[a - L + i] = Marker[i]
      BY <3>1 DEF EndsAt, s
    <3> DEFINE r == a - (s - j)
    <3>3. r \in 1..(L - 1) /\ r <= j
      BY <1>3, <1>6, <2>2
    <3>4. ASSUME NEW i \in 1..r
          PROVE  Marker[i] = Marker[L - r + i]
      <4>1. L - r + i \in 1..L /\ a - L + (L - r + i) = s - j + i /\ i \in 1..j
        BY <1>3, <1>6, <2>2, <3>3
      <4>2. new[a - L + (L - r + i)] = Marker[L - r + i]
        BY <3>2, <4>1
      <4> QED BY <2>3, <4>1, <4>2
    <3> HIDE DEF r
    <3> QED BY <3>3, <3>4, NoOverlap
  <2>5. EndsInStart(tail, j)
    <3> SUFFICES ASSUME NEW i \in 1..j
                 PROVE  tail[(s - a) - j + i] = Marker[i]
      BY <1>7, <2>4 DEF EndsInStart
    <3>1. (s - a) - j + i \in 1..(s - a) /\ a + ((s - a) - j + i) = s - j + i
      BY <1>3, <1>6, <2>4
    <3>2. tail[(s - a) - j + i] = new[a + ((s - a) - j + i)]
      BY <1>7, <3>1
    <3> QED BY <2>3, <3>1, <3>2
  <2> QED BY <1>8, <2>5
<1>15. Held(all, rest)
  <2>1. \A i \in 1..k : rest[i] = Marker[i]
    BY <1>10, <1>12
  <2>2. k < L
    BY <1>3, <1>8
  <2> QED BY <1>10, <1>13, <1>14, <2>1, <2>2 DEF Held
\* What has gone through is what had, and what goes through now.
<1>16. /\ Len(t \o out) = o + (s - k)
       /\ \A i \in 1..(o + (s - k)) :
              (t \o out)[i] = IF i <= o THEN t[i] ELSE out[i - o]
  <2> DEFINE v == t \o out
  <2>1. o = Len(t) /\ s - k = Len(out) /\ v = t \o out
    BY <1>11 DEF o
  <2> DEFINE m == s - k
  <2> HIDE DEF v, m
  <2>3. t \in Seq(A) /\ out \in Seq(A) /\ m = Len(out)
    BY <1>1, <1>11, <2>1 DEF m
  <2>4. /\ v \in Seq(A) /\ Len(v) = o + m
        /\ \A i \in 1..(o + m) : v[i] = IF i <= o THEN t[i] ELSE out[i - o]
    <3> HIDE DEF o, s
    <3> QED BY ONLY <2>1, <2>3, Joined
  <2>2. /\ v \in Seq(A) /\ Len(v) = o + (s - k)
        /\ \A i \in 1..(o + (s - k)) : v[i] = IF i <= o THEN t[i] ELSE out[i - o]
    BY <2>4 DEF m
  <2> QED BY <2>2 DEF v
<1>17. Through(all, rest) = t \o out
  <2> DEFINE u == Through(all, rest)
             v == t \o out
  <2>1. u \in Seq(A) /\ Len(u) = o + (s - k) /\ \A i \in 1..(o + (s - k)) : u[i] = all[i]
    <3> DEFINE b == Len(all) - Len(rest)
    <3>1. b = o + (s - k) /\ b \in Nat /\ b <= Len(all)
      BY <1>3, <1>6, <1>8, <1>10
    <3>2. u = SubSeq(all, 1, b)
      BY DEF Through
    <3>3. b \in 0..Len(all)
      BY <1>2, <3>1
    <3> HIDE DEF u, b
    <3>4. u \in Seq(A) /\ Len(u) = b /\ \A i \in 1..b : u[i] = all[i]
      BY <1>2, <3>2, <3>3, Beginning
    <3> QED BY <3>1, <3>4
  <2>2. /\ v \in Seq(A) /\ Len(v) = o + (s - k)
        /\ \A i \in 1..(o + (s - k)) : v[i] = IF i <= o THEN t[i] ELSE out[i - o]
    <3>1. v \in Seq(A)
      BY <1>1, <1>11, ConcatProperties
    <3> QED BY <1>16, <3>1
  <2>3. \A i \in 1..o : all[i] = t[i]
    <3> TAKE i \in 1..o
    <3>1. i \in 1..(o + s) /\ i <= o
      BY <1>3
    <3> QED BY <1>4, <3>1
  <2> HIDE DEF u, v
  <2>4. ASSUME NEW i \in 1..(o + (s - k))
        PROVE  u[i] = v[i]
    <3>1. s - k \in Nat /\ s - k <= s
      BY <1>3, <1>6, <1>8
    <3>2. CASE i <= o
      <4>1. i \in 1..o
        BY <1>3, <3>1, <3>2
      <4> QED BY <2>1, <2>2, <2>3, <3>2, <4>1
    <3>3. CASE i > o
      <4>1. i - o \in 1..(s - k) /\ i - o \in 1..s /\ o + (i - o) = i /\ ~(i <= o)
        BY <1>3, <3>1, <3>3
      <4>2. all[o + (i - o)] = new[i - o]
        BY <1>4, <4>1
      <4>3. out[i - o] = new[i - o]
        BY <1>11, <4>1
      <4>4. v[i] = out[i - o]
        BY <2>2, <4>1
      <4> QED BY <2>1, <4>1, <4>2, <4>3, <4>4
    <3>4. i <= o \/ i > o
      BY <1>3, <3>1
    <3> QED BY <3>2, <3>3, <3>4
  <2>5. u = v
    BY <2>1, <2>2, <2>4, SeqEqual
  <2> QED BY <2>5 DEF u, v
<1>18. Unsplit(t, out)
  <2> SUFFICES ASSUME NEW n \in (o + 1)..(o + L - 1), EndsAt(t \o out, n)
               PROVE  FALSE
    BY DEF Unsplit, o
  <2> DEFINE v == t \o out
  <2>1. /\ Len(v) = o + (s - k)
        /\ \A i \in 1..(o + (s - k)) : v[i] = IF i <= o THEN t[i] ELSE out[i - o]
    BY <1>16
  <2>2. /\ Len(all) = o + s
        /\ \A i \in 1..(o + s) : all[i] = IF i <= o THEN t[i] ELSE new[i - o]
    BY <1>3, <1>4
  <2>3. EndsAt(v, n)
    OBVIOUS
  <2> HIDE DEF v
  <2>4. s - k \in Nat /\ s - k <= s
    BY <1>3, <1>6, <1>8
  <2>5. ASSUME NEW i \in 1..(o + (s - k))
        PROVE  v[i] = all[i]
    <3>1. i \in 1..(o + s)
      BY <1>3, <2>4
    <3>2. CASE i <= o
      BY <2>1, <2>2, <3>1, <3>2
    <3>3. CASE ~(i <= o)
      <4>1. i - o \in 1..(s - k)
        BY <1>3, <2>4, <3>3
      <4> QED BY <1>11, <2>1, <2>2, <3>1, <3>3, <4>1
    <3> QED BY <3>2, <3>3
  <2>6. n \in L..(o + (s - k)) /\ \A i \in 1..L : v[n - L + i] = Marker[i]
    BY <2>1, <2>3 DEF EndsAt
  <2>7. \A i \in 1..L : all[n - L + i] = Marker[i]
    <3> TAKE i \in 1..L
    <3>1. n - L + i \in 1..(o + (s - k))
      <4>1. /\ n \in Int /\ i \in Int /\ s - k \in Int /\ o \in Int /\ L \in Int
            /\ L <= n /\ n <= o + (s - k) /\ 1 <= i /\ i <= L
        BY <1>3, <2>4, <2>6
      <4> QED BY <4>1
    <3> QED BY <2>5, <2>6, <3>1
  <2>8. EndsAt(all, n)
    <3>1. n \in L..Len(all)
      BY <1>3, <2>4, <2>6
    <3> QED BY <2>7, <3>1 DEF EndsAt
  <2> QED BY <1>1, <2>8 DEF Unsplit, o
<1>19. WithoutMarkers(Through(all, rest)) = WithoutMarkers(t) \o WithoutMarkers(out)
  BY <1>1, <1>11, <1>17, <1>18, LeftOverOfBoth
\* A marker that has come to its end has come to it in this chunk.
<1>20. MarkerEnds(new) # {} <=> \E n : n > Len(text) /\ EndsAt(all, n)
  <2>1. \A n : n \in MarkerEnds(new) <=> EndsAt(new, n)
    BY <1>2, EndsAreFound
  <2>2. \A n : EndsAt(all, n) <=> EndsAt(t, n) \/ (n \in Int /\ EndsAt(new, n - o))
    BY <1>1, <1>2, EndsOfBoth DEF o
  <2>3. ASSUME NEW n, EndsAt(new, n)
        PROVE  o + n > Len(text) /\ EndsAt(all, o + n)
    <3>1. n \in Nat /\ n >= L
      BY <1>3, <2>3 DEF EndsAt
    <3>2. o + n \in Int /\ (o + n) - o = n /\ o + n > Len(text)
      BY <1>1, <1>3, <3>1 DEF Held
    <3> QED BY <2>2, <2>3, <3>2
  <2>4. ASSUME NEW n, n > Len(text), EndsAt(all, n)
        PROVE  EndsAt(new, n - o)
    <3>1. n \in L..Len(all)
      BY <2>4 DEF EndsAt
    <3>2. ~EndsAt(t, n)
      BY <1>1, <1>3, <2>4, <3>1 DEF EndsAt, o
    <3> QED BY <2>2, <2>4, <3>2
  <2> QED BY <2>1, <2>3, <2>4
<1> QED
  BY <1>10, <1>11, <1>15, <1>19, <1>20, LeftOver DEF rest, out, new, all, t, s

-----------------------------------------------------------------------------
(* The cap *)

Capped(text) == SubSeq(text, 1, Min({Cap, Len(text)}))

\* What is kept is the beginning of the text, and whether it is all is known.
KeepsUpTo(text) == kept = Capped(text) /\ truncated = (Len(text) > Cap)

LEMMA CappedIs ==
    ASSUME NEW A, NEW text \in Seq(A)
    PROVE  /\ Capped(text) \in Seq(A)
           /\ Len(Capped(text)) = IF Len(text) <= Cap THEN Len(text) ELSE Cap
           /\ \A i \in 1..Len(Capped(text)) : Capped(text)[i] = text[i]
           /\ Len(text) <= Cap <=> Capped(text) = text
<1> DEFINE m == Min({Cap, Len(text)})
           b == Capped(text)
<1>1. Cap \in Nat /\ Len(text) \in Nat
  BY MarkerAssumption
<1>2. m = IF Len(text) <= Cap THEN Len(text) ELSE Cap
  BY <1>1, LeastOfTwo
<1>3. m \in 0..Len(text) /\ (Len(text) <= Cap \/ Len(text) > Cap)
  BY <1>1, <1>2
<1>4. b = SubSeq(text, 1, m)
  BY DEF Capped
<1> HIDE DEF m, b
<1>5. b \in Seq(A) /\ Len(b) = m /\ \A i \in 1..m : b[i] = text[i]
  BY <1>3, <1>4, Beginning
<1>6. m = Len(text) => b = text
  BY <1>5, SeqEqual
<1>7. b = text => m = Len(text)
  BY <1>5
<1>8. Len(text) <= Cap <=> m = Len(text)
  BY <1>1, <1>2
<1> QED
  BY <1>2, <1>5, <1>6, <1>7, <1>8 DEF b

\* However a text comes in, what is kept is the beginning of all of it.
LEMMA KeepIsCapped ==
    ASSUME NEW A, NEW text \in Seq(A), NEW more \in Seq(A),
           KeepsUpTo(text), Keep(more)
    PROVE  kept' = Capped(text \o more) /\ truncated' = (Len(text \o more) > Cap)
<1> DEFINE c == text \o more
           b == Capped(text)
           all == b \o more
           m == Len(text)
           n == Len(more)
<1>1. Cap \in Nat /\ m \in Nat /\ n \in Nat
  BY MarkerAssumption
<1>2. kept' = Capped(all) /\ truncated' = (truncated \/ Len(all) > Cap)
  BY DEF Keep, KeepsUpTo, Capped
<1>3. /\ b \in Seq(A) /\ Len(b) = IF m <= Cap THEN m ELSE Cap
      /\ \A i \in 1..Len(b) : b[i] = text[i]
      /\ m <= Cap <=> b = text
  BY CappedIs
<1>4. truncated = (m > Cap)
  BY DEF KeepsUpTo
<1>5. /\ c \in Seq(A) /\ Len(c) = m + n
      /\ \A i \in 1..(m + n) : c[i] = IF i <= m THEN text[i] ELSE more[i - m]
  <2> HIDE DEF c, m, n
  <2> QED BY Joined DEF c, m, n
<1> HIDE DEF b, c, m, n
<1>6. CASE m <= Cap
  <2>1. all = c
    BY <1>3, <1>6 DEF c
  <2>2. truncated = FALSE
    <3>1. (m > Cap) = FALSE
      BY <1>1, <1>6
    <3> QED BY <1>4, <3>1
  <2>3. kept' = Capped(c) /\ truncated' = (truncated \/ Len(c) > Cap)
    BY <1>2, <2>1
  <2>4. truncated' = (Len(c) > Cap)
    BY <2>2, <2>3
  <2> QED BY <2>3, <2>4 DEF c
<1>7. CASE m > Cap
  <2>1. Len(b) = Cap
    BY <1>1, <1>3, <1>7
  <2>2. /\ all \in Seq(A) /\ Len(all) = Cap + n
        /\ \A i \in 1..(Cap + n) : all[i] = IF i <= Cap THEN b[i] ELSE more[i - Cap]
    <3>1. all = b \o more /\ Cap = Len(b) /\ n = Len(more)
      BY <2>1 DEF n
    <3> HIDE DEF all
    <3>2. /\ all \in Seq(A) /\ Len(all) = Cap + n
          /\ \A i \in 1..(Cap + n) : all[i] = IF i <= Cap THEN b[i] ELSE more[i - Cap]
      BY <1>3, <3>1, Joined
    <3> QED BY <3>2
  <2> HIDE DEF all
  <2> DEFINE u == Capped(all)
             v == Capped(c)
  <2>3. u \in Seq(A) /\ Len(u) = Cap /\ \A i \in 1..Len(u) : u[i] = all[i]
    <3>1. /\ u \in Seq(A) /\ Len(u) = IF Len(all) <= Cap THEN Len(all) ELSE Cap
          /\ \A i \in 1..Len(u) : u[i] = all[i]
      BY <2>2, CappedIs
    <3> HIDE DEF u
    <3> QED BY <1>1, <2>2, <3>1
  <2>4. v \in Seq(A) /\ Len(v) = Cap /\ \A i \in 1..Len(v) : v[i] = c[i]
    <3>1. /\ v \in Seq(A) /\ Len(v) = IF Len(c) <= Cap THEN Len(c) ELSE Cap
          /\ \A i \in 1..Len(v) : v[i] = c[i]
      BY <1>5, CappedIs
    <3> HIDE DEF v
    <3> QED BY <1>1, <1>5, <1>7, <3>1
  <2> HIDE DEF u, v
  <2>5. ASSUME NEW i \in 1..Cap
        PROVE  u[i] = v[i]
    <3>1. i \in 1..(Cap + n) /\ i \in 1..(m + n) /\ i <= Cap /\ i <= m
      BY <1>1, <1>7
    <3>2. all[i] = b[i] /\ c[i] = text[i] /\ b[i] = text[i]
      BY <1>3, <1>5, <2>1, <2>2, <3>1
    <3> QED BY <2>3, <2>4, <3>2
  <2>6. u = v
    BY <2>3, <2>4, <2>5, SeqEqual
  <2>7. Len(c) > Cap
    BY <1>1, <1>5, <1>7
  <2> QED BY <1>2, <1>4, <1>7, <2>6, <2>7 DEF u, v, c
<1>8. m <= Cap \/ m > Cap
  BY <1>1
<1> QED
  BY <1>6, <1>7, <1>8

-----------------------------------------------------------------------------
(* The filter's operations, on what has come in so far *)

LEMMA PushIs ==
    ASSUME NEW A, Marker \in Seq(A), NEW text \in Seq(A), heldBack \in Seq(A),
           Held(text, heldBack),
           KeepsUpTo(WithoutMarkers(Through(text, heldBack))),
           NEW chunk \in Seq(A), Push(chunk)
    PROVE  /\ heldBack' \in Seq(A)
           /\ Held(text \o chunk, heldBack')
           /\ LET x == WithoutMarkers(Through(text \o chunk, heldBack'))
              IN  kept' = Capped(x) /\ truncated' = (Len(x) > Cap)
           /\ Asked(chunk) <=> \E n : n > Len(text) /\ EndsAt(text \o chunk, n)
<1> DEFINE new == heldBack \o chunk
           rest == SubSeq(new, Safe(new) + 1, Len(new))
           out == SubSeq(new, 1, Safe(new))
           w == WithoutMarkers(out)
           x == WithoutMarkers(Through(text, heldBack))
<1>1. Keep(w) /\ heldBack' = rest
  BY DEF Push, Safe, After
<1>2. /\ rest \in Seq(A)
      /\ Held(text \o chunk, rest)
      /\ WithoutMarkers(Through(text \o chunk, rest)) = x \o w
      /\ w \in Seq(A)
      /\ MarkerEnds(new) # {} <=> \E n : n > Len(text) /\ EndsAt(text \o chunk, n)
  BY PushedOn
<1>3. x \in Seq(A)
  BY HeldAndThrough, LeftOver
<1>4. KeepsUpTo(x)
  OBVIOUS
<1> HIDE DEF w, x, rest
<1>5. kept' = Capped(x \o w) /\ truncated' = (Len(x \o w) > Cap)
  BY <1>1, <1>2, <1>3, <1>4, KeepIsCapped
<1> QED
  BY <1>1, <1>2, <1>5 DEF Asked

LEMMA FinishIs ==
    ASSUME NEW A, Marker \in Seq(A), NEW text \in Seq(A), heldBack \in Seq(A),
           Held(text, heldBack),
           KeepsUpTo(WithoutMarkers(Through(text, heldBack))),
           FinishFilter
    PROVE  LET x == WithoutMarkers(text)
           IN  kept' = Capped(x) /\ truncated' = (Len(x) > Cap)
<1> DEFINE x == WithoutMarkers(Through(text, heldBack))
<1>1. x \in Seq(A)
  BY HeldAndThrough, LeftOver
<1>2. WithoutMarkers(text) = x \o heldBack
  BY LastOfAText
<1>3. KeepsUpTo(x) /\ Keep(heldBack)
  BY DEF FinishFilter
<1> HIDE DEF x
<1> QED
  BY <1>1, <1>2, <1>3, KeepIsCapped

-----------------------------------------------------------------------------
(* The limit *)

ClockTypes ==
    /\ now \in Nat /\ own \in Int /\ spent \in Int
    /\ started \in Int /\ before \in Int /\ deadline \in Int
    /\ since \in Int /\ since <= now
    /\ wait \in Waits
    /\ reader \in {"reading", "asking", "ended"}

\* The reader's mark is on the clock exactly while its ask is out.
MarkIsTheReaders == reader = "asking" <=> Asking

\* own_time is the time that was the Host's own, and no wait starts with any.
OwnTimeIsOwn ==
    /\ wait = "unstarted" => own = 0
    /\ wait \notin {"unstarted", "over"} => own = OwnTime

\* The sleep that was decided on is never longer than what is left, also when
\* asks went out and came back before anybody listened for them.
SleepIsShort ==
    wait \in {"arm", "select"} => own + (deadline - now) <= Limit

\* A wait that sleeps through an ask is asleep only while the ask is out.
AskWakes == wait \in {"asleep", "asleepAgain"} /\ ~heard => Asking

GraceIsAfterTerm == wait = "grace" => sent # "none"

ClockInv ==
    /\ ClockTypes
    /\ MarkIsTheReaders
    /\ OwnTimeIsOwn
    /\ SleepIsShort
    /\ AskWakes
    /\ GraceIsAfterTerm

\* Limits and grace periods are numbers.
LEMMA Constants == Limit \in Nat /\ Grace \in Nat
BY TimeAssumption

-----------------------------------------------------------------------------
LEMMA ClockInvInit == Init => ClockInv
BY Constants DEF Init, ClockInv, ClockTypes, MarkIsTheReaders, OwnTimeIsOwn,
                 SleepIsShort, AskWakes, GraceIsAfterTerm, Asking, NotAsking,
                 Waits

\* The remote side and the terminal leave the clock and the wait alone, but for
\* a notification that may have been meant for another Host.
LEMMA OutsideKeepsClockInv ==
    ASSUME ClockInv,
           Prints \/ SudoAsks \/ Ends \/ TakeRequest \/ OtherPrompt \/ PromptEnds
               \/ StreamEnds
    PROVE  ClockInv'
<1>1. /\ UNCHANGED <<now, clockVars, waitVars, own>>
      /\ heard => heard'
      /\ reader' = reader \/ (reader = "reading" /\ reader' = "ended")
  <2> USE DEF readerVars
  <2>1. CASE Prints BY <2>1 DEF Prints
  <2>2. CASE SudoAsks BY <2>2 DEF SudoAsks
  <2>3. CASE Ends BY <2>3 DEF Ends
  <2>4. CASE TakeRequest BY <2>4 DEF TakeRequest
  <2>5. CASE OtherPrompt BY <2>5 DEF OtherPrompt, Overheard
  <2>6. CASE PromptEnds BY <2>6 DEF PromptEnds, Overheard
  <2>7. CASE StreamEnds BY <2>7 DEF StreamEnds
  <2> QED BY <2>1, <2>2, <2>3, <2>4, <2>5, <2>6, <2>7
<1> QED
  BY <1>1 DEF ClockInv, ClockTypes, MarkIsTheReaders, OwnTimeIsOwn, SleepIsShort,
              AskWakes, GraceIsAfterTerm, Asking, OwnTime, SpentBy, clockVars,
              waitVars

LEMMA ReaderKeepsClockInv ==
    ASSUME ClockInv, ReadChunk \/ ReaderAnswered
    PROVE  ClockInv'
<1>1. UNCHANGED <<now, waitVars, own>>
  BY DEF ReadChunk, ReaderAnswered, waitVars
<1>2. CASE UNCHANGED <<reader, clockVars>> /\ (heard => heard')
  BY <1>1, <1>2 DEF ClockInv, ClockTypes, MarkIsTheReaders, OwnTimeIsOwn,
     SleepIsShort, AskWakes, GraceIsAfterTerm, Asking, OwnTime, SpentBy,
     clockVars, waitVars
<1>3. CASE reader = "reading" /\ reader' = "asking" /\ AskGoesOut
  BY <1>1, <1>3 DEF ClockInv, ClockTypes, MarkIsTheReaders, OwnTimeIsOwn,
     SleepIsShort, AskWakes, GraceIsAfterTerm, Asking, NotAsking, OwnTime,
     SpentBy, waitVars, AskGoesOut
<1>4. CASE reader = "asking" /\ reader' = "reading" /\ AskComesBack
  BY <1>1, <1>4 DEF ClockInv, ClockTypes, MarkIsTheReaders, OwnTimeIsOwn,
     SleepIsShort, AskWakes, GraceIsAfterTerm, Asking, NotAsking, OwnTime,
     SpentBy, waitVars, AskComesBack
<1>5. ReadChunk => \/ UNCHANGED <<reader, clockVars>> /\ (heard => heard')
                   \/ reader = "reading" /\ reader' = "asking" /\ AskGoesOut
  BY DEF ReadChunk, Asks, clockVars
<1>6. ReaderAnswered => reader = "asking" /\ reader' = "reading" /\ AskComesBack
  BY DEF ReaderAnswered
<1> QED
  BY <1>2, <1>3, <1>4, <1>5, <1>6

LEMMA WaitKeepsClockInv ==
    ASSUME ClockInv, Wait
    PROVE  ClockInv'
<1> USE Constants DEF ClockInv, ClockTypes, MarkIsTheReaders, OwnTimeIsOwn,
        SleepIsShort, AskWakes, GraceIsAfterTerm, Asking, NotAsking, OwnTime,
        SpentBy, Waits, waitRest, readerVars, clockVars, Goto, Listen
<1>1. CASE Begins        BY <1>1 DEF Begins
<1>2. CASE HoldForAsk    BY <1>2 DEF HoldForAsk
<1>3. CASE Woken         BY <1>3 DEF Woken
<1>4. CASE Decide        BY <1>4 DEF Decide
<1>5. CASE Arm           BY <1>5 DEF Arm
<1>6. CASE ChildSeen     BY <1>6 DEF ChildSeen
<1>7. CASE SleepOver     BY <1>7 DEF SleepOver
<1>8. CASE PromptChanged BY <1>8 DEF PromptChanged
<1>9. CASE Recheck       BY <1>9 DEF Recheck, TermSent
<1>10. CASE GraceOver    BY <1>10 DEF GraceOver
<1> QED
  BY <1>1, <1>2, <1>3, <1>4, <1>5, <1>6, <1>7, <1>8, <1>9, <1>10 DEF Wait

LEMMA TickKeepsClockInv ==
    ASSUME ClockInv, Tick
    PROVE  ClockInv'
<1> USE DEF ClockInv, Asking, clockVars, waitVars, readerVars
<1>1. now' = now + 1 /\ UNCHANGED <<reader, clockVars, waitVars, heard>>
  BY DEF Tick
<1>2. own' = IF wait \in {"unstarted", "over"} \/ Asking THEN own ELSE own + 1
  BY DEF Tick
<1>3. ClockTypes'
  BY <1>1, <1>2 DEF ClockTypes
<1>4. OwnTimeIsOwn'
  BY <1>1, <1>2 DEF ClockTypes, OwnTimeIsOwn, OwnTime, SpentBy
<1>5. SleepIsShort'
  BY Constants, <1>1, <1>2 DEF ClockTypes, SleepIsShort
<1> QED
  BY <1>1, <1>3, <1>4, <1>5 DEF MarkIsTheReaders, AskWakes, GraceIsAfterTerm

LEMMA NextKeepsClockInv ==
    ASSUME ClockInv, [Next]_vars
    PROVE  ClockInv'
<1>1. CASE UNCHANGED vars
  BY <1>1 DEF vars, readerVars, clockVars, waitVars, ClockInv, ClockTypes,
     MarkIsTheReaders, OwnTimeIsOwn, SleepIsShort, AskWakes, GraceIsAfterTerm,
     Asking, OwnTime, SpentBy
<1>2. CASE Next
  BY <1>1, <1>2, OutsideKeepsClockInv, ReaderKeepsClockInv, WaitKeepsClockInv,
     TickKeepsClockInv DEF Next, Reader
<1> QED
  BY <1>1, <1>2

-----------------------------------------------------------------------------
\* The clock and the wait always agree on what was the Host's own time.
THEOREM ClockInvHolds == Spec => []ClockInv
<1>1. ClockInv /\ [Next]_vars => ClockInv'
  BY NextKeepsClockInv
<1> QED
  BY ClockInvInit, <1>1, PTL DEF Spec

\* No Host is cut short before all of its limit was its own time, whatever asks
\* went out and came back meanwhile.
THEOREM AllOfItsLimit == Spec => NeverCutEarly
<1>1. ClockInv /\ [Next]_vars
          => [sent = "none" /\ sent' # "none" => own >= Limit]_vars
  <2> SUFFICES ASSUME ClockInv, Next, sent = "none", sent' # "none"
               PROVE  own >= Limit
    OBVIOUS
  <2>1. Recheck \/ GraceOver
    BY DEF Next, Prints, SudoAsks, Ends, Reader, ReadChunk, ReaderAnswered,
       StreamEnds, TakeRequest, OtherPrompt, PromptEnds, Wait, Begins,
       HoldForAsk, Woken, Decide, Arm, ChildSeen, SleepOver, PromptChanged,
       Goto, Listen, Tick, waitVars, vars
  <2>2. CASE Recheck
    BY <2>2 DEF Recheck, Goto, Listen, ClockInv, OwnTimeIsOwn
  <2>3. CASE GraceOver
    BY <2>3 DEF GraceOver, ClockInv, GraceIsAfterTerm
  <2> QED
    BY <2>1, <2>2, <2>3
<1> QED
  BY ClockInvHolds, <1>1, PTL DEF Spec, NeverCutEarly

\* No Host has more than its limit: the wait never sleeps on with nothing to
\* wake it.
THEOREM NoMoreThanItsLimit == Spec => []NeverOverslept
<1>1. ClockInv => NeverOverslept
  BY Constants DEF ClockInv, ClockTypes, SleepIsShort, AskWakes, NeverOverslept
<1> QED
  BY ClockInvHolds, <1>1, PTL

-----------------------------------------------------------------------------
(* The stream: what is kept of it, and who is asked for it *)

StreamTypes ==
    /\ stream \in Seq(Symbols) /\ visible \in Seq(Symbols)
    /\ heldBack \in Seq(Symbols)
    /\ read \in 0..Len(stream)
    /\ {prompted, answerable} \subseteq BOOLEAN
    /\ child \in {"alive", "ended"}
    /\ sudo \in {"quiet", "blocked"}
    /\ reader \in {"reading", "asking", "ended"}

\* What has been read of the stream, and what the filter has let through of it.
Seen == SubSeq(stream, 1, read)
LetThrough == IF prompted THEN WithoutMarkers(Through(Seen, heldBack)) ELSE Seen

\* What the remote side printed is what it sent without its markers.
SentIsPrinted ==
    /\ WithoutMarkers(stream) = visible
    /\ ~prompted => stream = visible

\* At any time what is kept is what has been let through, and at the end it is
\* all that was printed.
KeptSoFar ==
    /\ reader # "ended" /\ prompted => Held(Seen, heldBack)
    /\ reader # "ended" => KeepsUpTo(LetThrough)
    /\ reader = "ended" =>
           child = "ended" /\ heldBack = << >> /\ KeepsUpTo(visible)
    /\ ~prompted => heldBack = << >>

\* A marker that has not been read yet is the last thing in the stream: the sudo
\* that sent it waits, and is asked for as soon as it is read.
OneMarkerAtATime ==
    /\ \A n \in (read + 1)..Len(stream) :
           EndsAt(stream, n) => n = Len(stream) /\ sudo = "blocked"
    /\ sudo = "blocked" => prompted /\ EndsAt(stream, Len(stream))
    /\ reader = "asking" => sudo = "blocked" /\ read = Len(stream)
    /\ sudo = "blocked" /\ read = Len(stream) /\ child = "alive" =>
           reader = "asking" \/ ~answerable

StreamInv == StreamTypes /\ SentIsPrinted /\ KeptSoFar /\ OneMarkerAtATime

LEMMA MarkerType == Marker \in Seq(Symbols) /\ L \in Nat /\ L > 0
BY TimeAssumption, MarkerLength

LEMMA StreamInvInit == Init => StreamInv
<1> SUFFICES ASSUME Init PROVE StreamInv
  OBVIOUS
<1> DEFINE e == << >>
<1>1. e \in Seq(Symbols) /\ Len(e) = 0 /\ SubSeq(e, 1, 0) = e
  BY EmptySeq
<1>2. /\ stream = e /\ visible = e /\ heldBack = e /\ kept = e
      /\ truncated = FALSE /\ read = 0
      /\ reader = "reading" /\ sudo = "quiet" /\ child = "alive"
      /\ {prompted, answerable} \subseteq BOOLEAN
  BY DEF Init, FilterInit
<1> HIDE DEF e
<1>3. \A n : ~EndsAt(e, n)
  BY <1>1, MarkerType DEF EndsAt
<1>4. WithoutMarkers(e) = e
  BY <1>1, <1>3, MarkerType, LeftOverAlone
<1>5. Seen = e /\ Through(e, e) = e /\ LetThrough = e
  <2>1. Seen = e
    BY <1>1, <1>2 DEF Seen
  <2>2. Through(e, e) = e
    <3>1. Len(e) - Len(e) = 0
      BY <1>1
    <3> QED BY <1>1, <3>1 DEF Through
  <2>3. LetThrough = e
    BY <1>2, <1>4, <2>1, <2>2 DEF LetThrough
  <2> QED BY <2>1, <2>2, <2>3
<1>6. Held(e, e)
  BY NothingHeld, MarkerType DEF e
<1>7. KeepsUpTo(e)
  <2>1. Cap \in Nat
    BY MarkerAssumption
  <2>2. Len(e) <= Cap /\ (Len(e) > Cap) = FALSE
    BY <1>1, <2>1
  <2>3. Len(e) <= Cap <=> Capped(e) = e
    BY <1>1, CappedIs
  <2>4. Capped(e) = e
    BY <2>2, <2>3
  <2> QED BY <1>2, <2>2, <2>4 DEF KeepsUpTo
<1>8. StreamTypes
  BY <1>1, <1>2 DEF StreamTypes
<1>9. SentIsPrinted
  BY <1>2, <1>4 DEF SentIsPrinted
<1>10. KeptSoFar
  BY <1>2, <1>5, <1>6, <1>7 DEF KeptSoFar, e
<1>11. OneMarkerAtATime
  BY <1>1, <1>2 DEF OneMarkerAtATime
<1> QED
  BY <1>8, <1>9, <1>10, <1>11 DEF StreamInv

-----------------------------------------------------------------------------
(* The remote side *)

\* What comes after what has been read changes nothing of that.
LEMMA SeenStays ==
    ASSUME StreamTypes, NEW x \in Seq(Symbols)
    PROVE  /\ stream \o x \in Seq(Symbols)
           /\ Len(stream \o x) = Len(stream) + Len(x)
           /\ read \in 0..Len(stream \o x)
           /\ SubSeq(stream \o x, 1, read) = Seen
<1> DEFINE y == stream \o x
           a == SubSeq(y, 1, read)
<1>1. /\ stream \in Seq(Symbols) /\ read \in 0..Len(stream)
      /\ Len(stream) \in Nat /\ Len(x) \in Nat
  BY DEF StreamTypes
<1>2. /\ y \in Seq(Symbols) /\ Len(y) = Len(stream) + Len(x)
      /\ \A i \in 1..(Len(stream) + Len(x)) :
             y[i] = IF i <= Len(stream) THEN stream[i] ELSE x[i - Len(stream)]
  BY <1>1, Joined
<1> HIDE DEF y
<1>3. read \in 0..Len(y)
  BY <1>1, <1>2
<1>4. a \in Seq(Symbols) /\ Len(a) = read /\ \A i \in 1..read : a[i] = y[i]
  BY <1>2, <1>3, Beginning
<1>5. /\ Seen \in Seq(Symbols) /\ Len(Seen) = read
      /\ \A i \in 1..read : Seen[i] = stream[i]
  BY <1>1, Beginning DEF Seen
<1>6. \A i \in 1..read : a[i] = Seen[i]
  <2> TAKE i \in 1..read
  <2>1. i \in 1..(Len(stream) + Len(x)) /\ i <= Len(stream)
    BY <1>1
  <2> QED BY <1>2, <1>4, <1>5, <2>1
<1> HIDE DEF a
<1>7. a = Seen
  BY <1>4, <1>5, <1>6, SeqEqual
<1> QED
  BY <1>2, <1>3, <1>7 DEF a, y

\* The stream grows by something that shares no marker with it.
LEMMA StreamGrows ==
    ASSUME StreamInv, child = "alive", sudo = "quiet",
           NEW x \in Seq(Symbols), Unsplit(stream, x),
           stream' = stream \o x, visible' = visible \o WithoutMarkers(x),
           ~prompted => WithoutMarkers(x) = x,
           UNCHANGED <<prompted, child, readerVars>>,
           sudo' \in {"quiet", "blocked"}
    PROVE  /\ StreamTypes' /\ SentIsPrinted' /\ KeptSoFar'
           /\ \A n \in (read + 1)..Len(stream') :
                  EndsAt(stream', n) => EndsAt(x, n - Len(stream))
<1>1. /\ StreamTypes /\ SentIsPrinted /\ KeptSoFar /\ OneMarkerAtATime
      /\ stream \in Seq(Symbols) /\ visible \in Seq(Symbols)
      /\ UNCHANGED <<heldBack, kept, truncated, reader, read, answerable>>
  BY DEF StreamInv, StreamTypes, readerVars, filterVars
<1>2. /\ stream' \in Seq(Symbols) /\ read' \in 0..Len(stream')
      /\ Len(stream') = Len(stream) + Len(x) /\ Seen' = Seen
  BY <1>1, SeenStays DEF Seen
<1>3. WithoutMarkers(x) \in Seq(Symbols)
  BY MarkerType, LeftOver
<1>4. visible' \in Seq(Symbols)
  BY <1>1, <1>3, ConcatProperties
<1>5. StreamTypes'
  BY <1>1, <1>2, <1>4 DEF StreamTypes
<1>6. SentIsPrinted'
  <2>1. WithoutMarkers(stream \o x) = WithoutMarkers(stream) \o WithoutMarkers(x)
    BY <1>1, MarkerType, LeftOverOfBoth
  <2> QED BY <1>1, <2>1 DEF SentIsPrinted
<1>7. KeptSoFar'
  <2>1. reader # "ended"
    BY <1>1 DEF KeptSoFar
  <2>2. LetThrough' = LetThrough
    BY <1>1, <1>2 DEF LetThrough
  <2> QED BY <1>1, <1>2, <2>1, <2>2 DEF KeptSoFar, KeepsUpTo
<1>8. ASSUME NEW n \in (read + 1)..Len(stream'), EndsAt(stream', n)
      PROVE  EndsAt(x, n - Len(stream))
  <2>1. EndsAt(stream, n) \/ EndsAt(x, n - Len(stream))
    BY <1>1, <1>8, MarkerType, EndsOfBoth
  <2>2. ~EndsAt(stream, n)
    <3>1. \A m \in (read + 1)..Len(stream) : ~EndsAt(stream, m)
      BY <1>1 DEF OneMarkerAtATime
    <3>2. n \in Int /\ n >= read + 1
      BY <1>1 DEF StreamTypes
    <3>3. EndsAt(stream, n) => n <= Len(stream)
      BY <3>2, MarkerType DEF EndsAt
    <3> QED BY <1>1, <3>1, <3>2, <3>3 DEF StreamTypes
  <2> QED BY <2>1, <2>2
<1> QED
  BY <1>5, <1>6, <1>7, <1>8

LEMMA PrintsKeepsStreamInv ==
    ASSUME StreamInv, Prints
    PROVE  StreamInv'
<1>1. PICK s \in Symbols : /\ ~IsSuffix(Marker, Append(stream, s))
                           /\ stream' = Append(stream, s)
                           /\ visible' = Append(visible, s)
  BY DEF Prints
<1>2. /\ StreamTypes /\ OneMarkerAtATime
      /\ stream \in Seq(Symbols) /\ visible \in Seq(Symbols) /\ Len(stream) \in Nat
  BY DEF StreamInv, StreamTypes
<1>3. /\ child = "alive" /\ sudo = "quiet"
      /\ UNCHANGED <<prompted, child, sudo, readerVars>>
  BY DEF Prints
<1> DEFINE x == <<s>>
<1>4. /\ x \in Seq(Symbols) /\ Len(x) = 1
      /\ stream' = stream \o x /\ visible' = visible \o x
  BY <1>1, <1>2, AppendIsConcat
<1> HIDE DEF x
<1>5. stream' \in Seq(Symbols) /\ Len(stream') = Len(stream) + 1
  BY <1>2, <1>4, SeenStays
<1>6. ~EndsAt(stream', Len(stream) + 1)
  <2>1. SubSeq(Marker, 1, L) = Marker
    BY MarkerType, SubSeqFull DEF L
  <2>2. L \in 1..L
    BY MarkerType
  <2>3. L <= Len(stream') /\ IsSuffix(Marker, stream') <=> EndsInStart(stream', L)
    BY <1>5, <2>1, <2>2, MarkerType, StartsAreFound
  <2>4. ~EndsInStart(stream', L)
    BY <1>1, <2>3
  <2>5. EndsAt(stream', Len(stream')) => EndsInStart(stream', L)
    BY <1>2, <1>5, MarkerType DEF EndsAt, EndsInStart
  <2> QED BY <1>5, <2>4, <2>5
<1>7. Unsplit(stream, x)
  <2> SUFFICES ASSUME NEW n \in (Len(stream) + 1)..(Len(stream) + L - 1),
                      EndsAt(stream', n)
               PROVE  FALSE
    BY <1>4 DEF Unsplit
  <2>1. n \in Int /\ n >= Len(stream) + 1
    BY <1>2, MarkerType
  <2>2. n <= Len(stream')
    BY <1>2, <1>5, MarkerType DEF EndsAt
  <2> QED BY <1>2, <1>5, <1>6, <2>1, <2>2
<1>8. \A n : ~EndsAt(x, n)
  <2> SUFFICES ASSUME NEW n, EndsAt(x, n) PROVE FALSE
    OBVIOUS
  <2>1. n = 1
    BY <1>4, MarkerType DEF EndsAt
  <2>2. Len(stream) + 1 \in Int /\ (Len(stream) + 1) - Len(stream) = 1
    BY <1>2
  <2>3. EndsAt(stream \o x, Len(stream) + 1)
    BY <1>2, <1>4, <1>7, <2>1, <2>2, MarkerType, EndsOfBoth
  <2> QED BY <1>4, <1>6, <2>3
<1>9. WithoutMarkers(x) = x
  BY <1>4, <1>8, MarkerType, LeftOverAlone
<1>10. /\ StreamTypes' /\ SentIsPrinted' /\ KeptSoFar'
       /\ \A n \in (read + 1)..Len(stream') :
              EndsAt(stream', n) => EndsAt(x, n - Len(stream))
  BY <1>3, <1>4, <1>7, <1>9, StreamGrows
<1>11. OneMarkerAtATime'
  <2>1. reader # "asking"
    BY <1>2, <1>3 DEF OneMarkerAtATime
  <2> QED BY <1>3, <1>8, <1>10, <2>1 DEF OneMarkerAtATime, readerVars
<1> QED
  BY <1>10, <1>11 DEF StreamInv

LEMMA SudoAsksKeepsStreamInv ==
    ASSUME StreamInv, SudoAsks
    PROVE  StreamInv'
<1>1. /\ StreamTypes /\ OneMarkerAtATime /\ stream \in Seq(Symbols)
      /\ visible \in Seq(Symbols) /\ Len(stream) \in Nat
      /\ read \in 0..Len(stream)
  BY DEF StreamInv, StreamTypes
<1>2. /\ prompted /\ child = "alive" /\ sudo = "quiet"
      /\ stream' = stream \o Marker /\ sudo' = "blocked" /\ visible' = visible
      /\ UNCHANGED <<prompted, child, readerVars>>
  BY DEF SudoAsks
<1>3. /\ L \in Nat /\ L > 0 /\ Len(Marker) = L /\ Marker \in Seq(Symbols)
  BY MarkerType DEF L
<1>4. /\ Len(stream') = Len(stream) + L
      /\ \A i \in 1..(Len(stream) + L) :
             stream'[i] = IF i <= Len(stream) THEN stream[i] ELSE Marker[i - Len(stream)]
  <2> DEFINE y == stream \o Marker
             m == Len(stream)
  <2>1. y = stream \o Marker /\ m = Len(stream) /\ L = Len(Marker)
    BY <1>3
  <2>2. stream \in Seq(Symbols) /\ Marker \in Seq(Symbols)
    BY <1>1, <1>3
  <2> HIDE DEF y, m
  <2>3. /\ y \in Seq(Symbols) /\ Len(y) = m + L
        /\ \A i \in 1..(m + L) : y[i] = IF i <= m THEN stream[i] ELSE Marker[i - m]
    BY <2>1, <2>2, Joined
  <2> QED BY <1>2, <2>3 DEF y, m
<1>5. Unsplit(stream, Marker)
  <2> SUFFICES ASSUME NEW n \in (Len(stream) + 1)..(Len(stream) + L - 1),
                      EndsAt(stream', n)
               PROVE  FALSE
    BY <1>2 DEF Unsplit
  <2> DEFINE k == n - Len(stream)
  <2>1. k \in 1..(L - 1) /\ n = Len(stream) + k
    BY <1>1, <1>3
  <2> HIDE DEF k
  <2>2. ASSUME NEW i \in 1..k
        PROVE  Marker[i] = Marker[L - k + i]
    <3>1. L - k + i \in 1..L /\ n - L + (L - k + i) = Len(stream) + i
      BY <1>1, <1>3, <2>1
    <3>2. stream'[Len(stream) + i] = Marker[L - k + i]
      BY <3>1 DEF EndsAt
    <3>3. /\ Len(stream) + i \in 1..(Len(stream) + L)
          /\ ~(Len(stream) + i <= Len(stream))
          /\ (Len(stream) + i) - Len(stream) = i
      BY <1>1, <1>3, <2>1
    <3>4. stream'[Len(stream) + i] = Marker[i]
      BY <1>4, <3>3
    <3> QED BY <3>2, <3>4
  <2> QED BY <1>3, <2>1, <2>2, NoOverlap
<1>6. WithoutMarkers(Marker) = << >> /\ visible \o << >> = visible
  BY <1>1, <1>3, NothingOfAMarker, ConcatEmptySeq
<1>7. /\ StreamTypes' /\ SentIsPrinted' /\ KeptSoFar'
      /\ \A n \in (read + 1)..Len(stream') :
             EndsAt(stream', n) => EndsAt(Marker, n - Len(stream))
  BY <1>2, <1>3, <1>5, <1>6, StreamGrows
<1>8. EndsAt(Marker, L)
  BY <1>3 DEF EndsAt
<1>9. EndsAt(stream', Len(stream'))
  <2>1. Len(stream) + L \in Int /\ (Len(stream) + L) - Len(stream) = L
    BY <1>1, <1>3
  <2>2. EndsAt(stream \o Marker, Len(stream) + L)
    BY <1>1, <1>3, <1>5, <1>8, <2>1, EndsOfBoth
  <2> QED BY <1>2, <1>4, <2>2
<1>10. ASSUME NEW n \in (read + 1)..Len(stream'), EndsAt(stream', n)
       PROVE  n = Len(stream')
  <2>1. EndsAt(Marker, n - Len(stream))
    BY <1>7, <1>10
  <2>2. n - Len(stream) = L
    BY <1>3, <2>1 DEF EndsAt
  <2>3. n \in Int
    BY <1>1, <1>4
  <2> QED BY <1>1, <1>3, <1>4, <2>2, <2>3
<1>11. OneMarkerAtATime'
  <2>1. reader # "asking" /\ read # Len(stream')
    BY <1>1, <1>2, <1>3, <1>4 DEF OneMarkerAtATime
  <2>2. UNCHANGED <<reader, read, answerable>>
    BY <1>2 DEF readerVars
  <2> QED BY <1>2, <1>9, <1>10, <2>1, <2>2 DEF OneMarkerAtATime
<1> QED
  BY <1>7, <1>11 DEF StreamInv

-----------------------------------------------------------------------------
(* The reader *)

\* What one read adds to what has been seen.
LEMMA ChunkIsNext ==
    ASSUME StreamTypes, NEW n \in (read + 1)..Len(stream)
    PROVE  LET chunk == SubSeq(stream, read + 1, n)
               seen == SubSeq(stream, 1, n)
           IN  /\ chunk \in Seq(Symbols)
               /\ Seen \in Seq(Symbols) /\ Len(Seen) = read
               /\ Seen \o chunk = seen
               /\ seen \in Seq(Symbols) /\ Len(seen) = n
               /\ \A m : EndsAt(seen, m) <=> EndsAt(stream, m) /\ m <= n
<1>1. /\ stream \in Seq(Symbols) /\ read \in 0..Len(stream)
      /\ Len(stream) \in Nat /\ n \in 1..Len(stream) /\ n \in 0..Len(stream)
  BY DEF StreamTypes
<1> DEFINE seen == SubSeq(stream, 1, n)
<1>2. Seen \o SubSeq(stream, read + 1, n) = seen
  <2>1. /\ 1 \in 1..(Len(stream) + 1) /\ read \in (1 - 1)..Len(stream)
        /\ n \in read..Len(stream)
    BY <1>1
  <2> QED BY <1>1, <2>1, ConcatAdjacentSubSeq DEF Seen
<1>3. SubSeq(stream, read + 1, n) \in Seq(Symbols)
  <2>1. \A i \in (read + 1)..n : stream[i] \in Symbols
    BY <1>1, ElementOfSeq
  <2>2. read + 1 \in Int /\ n \in Int
    BY <1>1
  <2> QED BY <2>1, <2>2, SubSeqProperties
<1>4. Seen \in Seq(Symbols) /\ Len(Seen) = read
  BY <1>1, Beginning DEF Seen
<1>5. seen \in Seq(Symbols) /\ Len(seen) = n /\ \A i \in 1..n : seen[i] = stream[i]
  BY <1>1, Beginning
<1> HIDE DEF seen
<1>6. ASSUME NEW m \in L..n
      PROVE  EndsAt(seen, m) <=> EndsAt(stream, m)
  <2>1. \A i \in 1..L : m - L + i \in 1..n
    BY <1>1, MarkerType
  <2>2. \A i \in 1..L : seen[m - L + i] = stream[m - L + i]
    BY <1>5, <2>1
  <2>3. m \in L..Len(seen) /\ m \in L..Len(stream)
    BY <1>1, <1>5, MarkerType
  <2> QED BY <2>2, <2>3 DEF EndsAt
<1>7. \A m : EndsAt(seen, m) <=> EndsAt(stream, m) /\ m <= n
  <2>1. \A m : EndsAt(seen, m) => m \in L..n
    BY <1>5 DEF EndsAt
  <2>2. \A m : EndsAt(stream, m) /\ m <= n => m \in L..n
    BY <1>1, MarkerType DEF EndsAt
  <2>3. \A m \in L..n : m <= n
    BY <1>1, MarkerType
  <2> QED BY <1>6, <2>1, <2>2, <2>3
<1> QED
  BY <1>2, <1>3, <1>4, <1>5, <1>7 DEF seen

LEMMA ReadChunkKeepsStreamInv ==
    ASSUME StreamInv, ReadChunk
    PROVE  StreamInv'
<1>1. PICK n \in (read + 1)..Len(stream) :
          LET chunk == SubSeq(stream, read + 1, n)
          IN  /\ read' = n
              /\ IF prompted THEN Push(chunk) ELSE ReadCapped(chunk)
              /\ IF prompted /\ Asked(chunk) /\ answerable THEN Asks
                 ELSE UNCHANGED <<reader, answerable, request, clockVars, heard>>
  BY DEF ReadChunk
<1> DEFINE chunk == SubSeq(stream, read + 1, n)
           seen == SubSeq(stream, 1, n)
<1>2. /\ StreamTypes /\ SentIsPrinted /\ KeptSoFar /\ OneMarkerAtATime
      /\ stream \in Seq(Symbols) /\ read \in 0..Len(stream)
      /\ Len(stream) \in Nat /\ heldBack \in Seq(Symbols)
      /\ prompted \in BOOLEAN /\ answerable \in BOOLEAN
  BY DEF StreamInv, StreamTypes
<1>3. /\ reader = "reading"
      /\ UNCHANGED <<prompted, child, sudo, stream, visible>>
  BY DEF ReadChunk, remoteVars
<1>4. /\ chunk \in Seq(Symbols)
      /\ Seen \in Seq(Symbols) /\ Len(Seen) = read
      /\ Seen \o chunk = seen
      /\ seen \in Seq(Symbols) /\ Len(seen) = n
      /\ \A m : EndsAt(seen, m) <=> EndsAt(stream, m) /\ m <= n
  BY <1>2, ChunkIsNext
<1>5. /\ read' = n
      /\ prompted => Push(chunk)
      /\ ~prompted => ReadCapped(chunk)
      /\ prompted /\ Asked(chunk) /\ answerable => Asks
      /\ ~(prompted /\ Asked(chunk) /\ answerable) => UNCHANGED <<reader, answerable>>
  BY <1>1
<1>6. Seen' = seen
  BY <1>3, <1>5 DEF Seen
<1> HIDE DEF chunk, seen
<1>7. KeepsUpTo(LetThrough)
  BY <1>2, <1>3 DEF KeptSoFar
<1>8. CASE prompted
  <2>1. Held(Seen, heldBack) /\ KeepsUpTo(WithoutMarkers(Through(Seen, heldBack)))
    BY <1>2, <1>3, <1>7, <1>8 DEF KeptSoFar, LetThrough
  <2>2. Push(chunk) /\ Marker \in Seq(Symbols)
    BY <1>5, <1>8, MarkerType
  <2> DEFINE x == WithoutMarkers(Through(seen, heldBack'))
  <2>3. /\ heldBack' \in Seq(Symbols) /\ Held(seen, heldBack')
        /\ kept' = Capped(x) /\ truncated' = (Len(x) > Cap)
        /\ Asked(chunk) <=> \E m : m > read /\ EndsAt(seen, m)
    <3> DEFINE all == Seen \o chunk
    <3>1. /\ heldBack' \in Seq(Symbols)
          /\ Held(all, heldBack')
          /\ LET y == WithoutMarkers(Through(all, heldBack'))
             IN  kept' = Capped(y) /\ truncated' = (Len(y) > Cap)
          /\ Asked(chunk) <=> \E m : m > Len(Seen) /\ EndsAt(all, m)
      BY <1>2, <1>4, <2>1, <2>2, PushIs
    <3> QED BY <1>4, <3>1
  <2>4. LetThrough' = x
    BY <1>3, <1>6, <1>8 DEF LetThrough
  <2>5. KeptSoFar'
    <3>1. KeepsUpTo(LetThrough)'
      BY <2>3, <2>4 DEF KeepsUpTo
    <3>2. reader' # "ended"
      BY <1>3, <1>5 DEF Asks
    <3> QED BY <1>3, <1>6, <1>8, <2>3, <3>1, <3>2 DEF KeptSoFar
  <2>6. Asked(chunk) <=> sudo = "blocked" /\ n = Len(stream)
    <3>1. ASSUME NEW m, m > read, EndsAt(seen, m)
          PROVE  sudo = "blocked" /\ n = Len(stream)
      <4>1. EndsAt(stream, m) /\ m <= n
        BY <1>4, <3>1
      <4>2. m \in L..Len(stream)
        BY <4>1 DEF EndsAt
      <4>3. m \in (read + 1)..Len(stream)
        BY <1>2, <3>1, <4>2, MarkerType
      <4>4. m = Len(stream) /\ sudo = "blocked"
        BY <1>2, <4>1, <4>3 DEF OneMarkerAtATime
      <4> QED BY <1>2, <4>1, <4>4
    <3>2. ASSUME sudo = "blocked", n = Len(stream)
          PROVE  n > read /\ EndsAt(seen, n)
      <4>1. EndsAt(stream, n)
        BY <1>2, <3>2 DEF OneMarkerAtATime
      <4>2. n > read /\ n <= n
        BY <1>2
      <4> QED BY <1>4, <4>1, <4>2
    <3> QED BY <2>3, <3>1, <3>2
  <2>7. StreamTypes'
    <3>1. /\ reader' \in {"reading", "asking", "ended"} /\ answerable' \in BOOLEAN
      BY <1>2, <1>3, <1>5 DEF Asks
    <3>2. read' \in 0..Len(stream)
      BY <1>2, <1>5
    <3> QED BY <1>2, <1>3, <2>3, <3>1, <3>2 DEF StreamTypes
  <2>8. OneMarkerAtATime'
    <3>1. \A m \in (n + 1)..Len(stream) :
              EndsAt(stream, m) => m = Len(stream) /\ sudo = "blocked"
      BY <1>2 DEF OneMarkerAtATime
    <3>2. \/ Asked(chunk) /\ reader' = "asking"
          \/ Asked(chunk) /\ reader' = reader /\ answerable' = FALSE
          \/ ~Asked(chunk) /\ UNCHANGED <<reader, answerable>>
      BY <1>2, <1>5, <1>8 DEF Asks
    <3> QED BY <1>2, <1>3, <1>5, <2>6, <3>1, <3>2 DEF OneMarkerAtATime
  <2> QED BY <1>2, <1>3, <2>5, <2>7, <2>8 DEF StreamInv, SentIsPrinted
<1>9. CASE ~prompted
  <2>1. /\ Keep(chunk) /\ UNCHANGED <<heldBack, reader, answerable>>
    BY <1>5, <1>9 DEF ReadCapped
  <2>2. KeepsUpTo(Seen) /\ LetThrough' = seen
    BY <1>3, <1>6, <1>7, <1>9 DEF LetThrough
  <2>3. kept' = Capped(seen) /\ truncated' = (Len(seen) > Cap)
    BY <1>4, <2>1, <2>2, KeepIsCapped
  <2>4. KeepsUpTo(LetThrough)'
    BY <2>2, <2>3 DEF KeepsUpTo
  <2>5. KeptSoFar'
    BY <1>2, <1>3, <1>9, <2>1, <2>4 DEF KeptSoFar
  <2>6. StreamTypes'
    <3>1. read' \in 0..Len(stream)
      BY <1>2, <1>5
    <3> QED BY <1>2, <1>3, <2>1, <3>1 DEF StreamTypes
  <2>7. OneMarkerAtATime'
    <3>1. \A m \in (n + 1)..Len(stream) :
              EndsAt(stream, m) => m = Len(stream) /\ sudo = "blocked"
      BY <1>2 DEF OneMarkerAtATime
    <3> QED BY <1>2, <1>3, <1>5, <1>9, <2>1, <3>1 DEF OneMarkerAtATime
  <2> QED BY <1>2, <1>3, <2>5, <2>6, <2>7 DEF StreamInv, SentIsPrinted
<1> QED
  BY <1>8, <1>9

LEMMA ReaderAnsweredKeepsStreamInv ==
    ASSUME StreamInv, ReaderAnswered
    PROVE  StreamInv'
<1>1. /\ reader = "asking" /\ reader' = "reading"
      /\ answerable' \in BOOLEAN
      /\ \/ sudo' = "quiet"
         \/ sudo' = sudo /\ answerable' = FALSE
      /\ UNCHANGED <<prompted, child, stream, visible, read, heldBack, kept, truncated>>
  BY DEF ReaderAnswered, filterVars
<1>2. /\ StreamTypes /\ SentIsPrinted /\ KeptSoFar /\ OneMarkerAtATime
      /\ read = Len(stream) /\ Len(stream) \in Nat
  BY <1>1 DEF StreamInv, StreamTypes, OneMarkerAtATime
<1>3. StreamTypes'
  BY <1>1, <1>2 DEF StreamTypes
<1>4. LetThrough' = LetThrough /\ Seen' = Seen
  BY <1>1 DEF LetThrough, Seen
<1>5. SentIsPrinted' /\ KeptSoFar'
  BY <1>1, <1>2, <1>4 DEF SentIsPrinted, KeptSoFar, KeepsUpTo
<1>6. OneMarkerAtATime'
  <2>1. \A n \in (read + 1)..Len(stream) : FALSE
    BY <1>2
  <2> QED BY <1>1, <1>2, <2>1 DEF OneMarkerAtATime
<1> QED
  BY <1>3, <1>5, <1>6 DEF StreamInv

LEMMA StreamEndsKeepsStreamInv ==
    ASSUME StreamInv, StreamEnds
    PROVE  StreamInv'
<1>1. /\ reader = "reading" /\ child = "ended" /\ read = Len(stream)
      /\ FinishFilter /\ reader' = "ended"
      /\ UNCHANGED <<read, answerable, prompted, child, sudo, stream, visible>>
  BY DEF StreamEnds, remoteVars
<1>2. /\ StreamTypes /\ SentIsPrinted /\ KeptSoFar /\ OneMarkerAtATime
      /\ stream \in Seq(Symbols) /\ heldBack \in Seq(Symbols)
  BY DEF StreamInv, StreamTypes
<1>3. Seen = stream
  BY <1>1, <1>2, SubSeqFull DEF Seen
<1>4. KeepsUpTo(LetThrough)
  BY <1>1, <1>2 DEF KeptSoFar
<1>5. kept' = Capped(visible) /\ truncated' = (Len(visible) > Cap)
  <2>1. CASE prompted
    <3>1. /\ Held(stream, heldBack)
          /\ KeepsUpTo(WithoutMarkers(Through(stream, heldBack)))
      BY <1>1, <1>2, <1>3, <1>4, <2>1 DEF KeptSoFar, LetThrough
    <3>2. WithoutMarkers(stream) = visible
      BY <1>2 DEF SentIsPrinted
    <3>3. LET x == WithoutMarkers(stream)
          IN  kept' = Capped(x) /\ truncated' = (Len(x) > Cap)
      BY <1>1, <1>2, <3>1, MarkerType, FinishIs
    <3> QED BY <3>2, <3>3
  <2>2. CASE ~prompted
    <3>1. stream = visible /\ heldBack = << >> /\ KeepsUpTo(stream) /\ Keep(heldBack)
      BY <1>1, <1>2, <1>3, <1>4, <2>2
         DEF SentIsPrinted, KeptSoFar, LetThrough, FinishFilter
    <3>2. kept' = Capped(stream \o heldBack) /\ truncated' = (Len(stream \o heldBack) > Cap)
      BY <1>2, <3>1, KeepIsCapped
    <3>3. stream \o heldBack = stream
      BY <1>2, <3>1, ConcatEmptySeq
    <3> QED BY <3>1, <3>2, <3>3
  <2> QED BY <2>1, <2>2
<1>6. heldBack' = << >> /\ heldBack' \in Seq(Symbols)
  BY <1>1, EmptySeq DEF FinishFilter
<1>7. StreamTypes'
  BY <1>1, <1>2, <1>6 DEF StreamTypes
<1>8. KeptSoFar'
  BY <1>1, <1>5, <1>6 DEF KeptSoFar, KeepsUpTo
<1>9. OneMarkerAtATime' /\ SentIsPrinted'
  BY <1>1, <1>2 DEF OneMarkerAtATime, SentIsPrinted
<1> QED
  BY <1>7, <1>8, <1>9 DEF StreamInv

LEMMA NextKeepsStreamInv ==
    ASSUME StreamInv, [Next]_vars
    PROVE  StreamInv'
<1>1. CASE UNCHANGED <<readerVars, remoteVars>>
  BY <1>1 DEF readerVars, filterVars, remoteVars, StreamInv, StreamTypes,
     SentIsPrinted, KeptSoFar, OneMarkerAtATime, LetThrough, Seen, KeepsUpTo
<1>2. CASE Ends
  <2>1. /\ child' = "ended"
        /\ UNCHANGED <<prompted, sudo, stream, visible, heldBack, kept, truncated,
                       reader, read, answerable>>
    BY <1>2 DEF Ends, readerVars, filterVars
  <2>2. Seen' = Seen /\ LetThrough' = LetThrough
    BY <2>1 DEF Seen, LetThrough
  <2> QED BY <2>1, <2>2 DEF StreamInv, StreamTypes, SentIsPrinted, KeptSoFar,
                            OneMarkerAtATime, KeepsUpTo
<1>3. \/ UNCHANGED <<readerVars, remoteVars>>
      \/ Ends \/ Prints \/ SudoAsks \/ ReadChunk \/ ReaderAnswered \/ StreamEnds
  BY DEF Next, vars, Reader, TakeRequest, OtherPrompt, PromptEnds, Wait, Begins,
         HoldForAsk, Woken, Decide, Arm, ChildSeen, SleepOver, PromptChanged,
         Recheck, GraceOver, waitRest, Tick
<1> QED
  BY <1>1, <1>2, <1>3, PrintsKeepsStreamInv, SudoAsksKeepsStreamInv,
     ReadChunkKeepsStreamInv, ReaderAnsweredKeepsStreamInv,
     StreamEndsKeepsStreamInv

-----------------------------------------------------------------------------
\* At any time what is kept is what has been let through, and no marker has been
\* read past.
THEOREM StreamInvHolds == Spec => []StreamInv
<1>1. StreamInv /\ [Next]_vars => StreamInv'
  BY NextKeepsStreamInv
<1> QED
  BY StreamInvInit, <1>1, PTL DEF Spec

\* The report shows what was printed beside the markers up to the cap, and says
\* so when that is not all, however the stream was cut into reads.
THEOREM StderrIsKept == Spec => []KeptAsPrinted
<1>1. StreamInv => KeptAsPrinted
  <2> SUFFICES ASSUME StreamInv, reader = "ended"
               PROVE  /\ kept = Capped(visible)
                      /\ truncated = (Capped(visible) # visible)
    BY DEF KeptAsPrinted, Capped
  <2>1. visible \in Seq(Symbols) /\ KeepsUpTo(visible)
    BY DEF StreamInv, StreamTypes, KeptSoFar
  <2>2. Len(visible) \in Nat /\ Cap \in Nat
    BY <2>1, MarkerAssumption
  <2>3. Len(visible) > Cap <=> ~(Len(visible) <= Cap)
    BY <2>2
  <2>4. Len(visible) <= Cap <=> Capped(visible) = visible
    BY <2>1, CappedIs
  <2> QED BY <2>1, <2>3, <2>4 DEF KeepsUpTo
<1> QED
  BY StreamInvHolds, <1>1, PTL

\* A sudo that waits is asked for as soon as its marker is read, unless nobody
\* can be asked any more; and nobody is asked for without one.
THEOREM SudoIsAskedFor == Spec => []AskedAsSudoAsks
<1>1. StreamInv => AskedAsSudoAsks
  BY DEF StreamInv, OneMarkerAtATime, AskedAsSudoAsks
<1> QED
  BY StreamInvHolds, <1>1, PTL

-----------------------------------------------------------------------------
(* Types *)

\* No mark on the clock is ahead of time, and what an ask takes is not counted
\* before it comes back.
TimeTypes ==
    /\ now \in Nat
    /\ since = NotAsking \/ since \in 0..now
    /\ spent \in 0..now /\ started \in 0..now
    /\ before \in 0..now /\ own \in 0..now
    /\ Asking => spent <= since

OtherTypes ==
    /\ open \in BOOLEAN /\ heard \in BOOLEAN /\ timedOut \in BOOLEAN
    /\ sent \in {"none", "term", "kill"}
    /\ request \in {"none", "queued", "given", "refused"}
    /\ prompt \in {"none", "mine", "other"}

LEMMA TimeTypesInit == Init => TimeTypes /\ OtherTypes
<1> SUFFICES ASSUME Init PROVE TimeTypes /\ OtherTypes
  OBVIOUS
<1>1. /\ now = 0 /\ since = NotAsking /\ spent = 0
      /\ started = 0 /\ before = 0 /\ own = 0
  BY DEF Init
<1>2. TimeTypes
  BY <1>1 DEF TimeTypes, Asking
<1>3. OtherTypes
  BY DEF Init, OtherTypes
<1> QED
  BY <1>2, <1>3

LEMMA NextKeepsTimeTypes ==
    ASSUME TimeTypes, ClockInv, [Next]_vars
    PROVE  TimeTypes'
<1>1. CASE UNCHANGED <<now, clockVars, started, before, own>>
  BY <1>1 DEF TimeTypes, clockVars, Asking
<1>2. CASE ReadChunk
  <2>1. UNCHANGED <<now, started, before, own>>
    BY <1>2 DEF ReadChunk, waitVars
  <2>2. UNCHANGED clockVars \/ AskGoesOut
    BY <1>2 DEF ReadChunk, Asks
  <2> QED BY <2>1, <2>2 DEF TimeTypes, clockVars, Asking, NotAsking, AskGoesOut
<1>3. CASE ReaderAnswered
  <2>1. UNCHANGED <<now, started, before, own>> /\ AskComesBack
    BY <1>3 DEF ReaderAnswered, waitVars
  <2>2. Asking
    BY <1>3 DEF ReaderAnswered, ClockInv, MarkIsTheReaders
  <2> QED BY <2>1, <2>2 DEF TimeTypes, Asking, NotAsking, AskComesBack
<1>4. CASE Begins
  <2>1. UNCHANGED <<now, clockVars, own>> /\ started' = now /\ before' = SpentBy
    BY <1>4 DEF Begins, waitRest
  <2> QED BY <2>1 DEF TimeTypes, clockVars, Asking, NotAsking, SpentBy
<1>5. CASE Tick
  <2>1. /\ now' = now + 1 /\ UNCHANGED <<clockVars, started, before>>
        /\ own' = own \/ own' = own + 1
    BY <1>5 DEF Tick, waitVars
  <2> QED BY <2>1 DEF TimeTypes, clockVars, Asking
<1>6. \/ UNCHANGED <<now, clockVars, started, before, own>>
      \/ ReadChunk \/ ReaderAnswered \/ Begins \/ Tick
  BY DEF Next, vars, waitVars, Reader, Prints, SudoAsks, Ends, StreamEnds,
         TakeRequest, OtherPrompt, PromptEnds, Wait, HoldForAsk, Woken, Decide,
         Arm, ChildSeen, SleepOver, PromptChanged, Recheck, GraceOver, waitRest
<1> QED
  BY <1>1, <1>2, <1>3, <1>4, <1>5, <1>6

LEMMA NextKeepsOtherTypes ==
    ASSUME OtherTypes, StreamTypes, [Next]_vars
    PROVE  OtherTypes'
<1> USE DEF OtherTypes
<1>1. CASE UNCHANGED vars
  BY <1>1 DEF vars, waitVars, askVars
<1>2. CASE Prints \/ SudoAsks \/ Ends \/ StreamEnds \/ Tick
  BY <1>2 DEF Prints, SudoAsks, Ends, StreamEnds, Tick, waitVars, askVars
<1>3. CASE ReadChunk
  BY <1>3 DEF ReadChunk, Asks, AskGoesOut, waitVars
<1>4. CASE ReaderAnswered
  BY <1>4 DEF ReaderAnswered, AskComesBack, waitVars
<1>5. CASE TakeRequest
  BY <1>5 DEF TakeRequest, waitVars
<1>6. CASE OtherPrompt
  BY <1>6 DEF OtherPrompt, Overheard, StreamTypes, waitVars
<1>7. CASE PromptEnds
  <2>1. heard' \in BOOLEAN
    BY <1>7 DEF PromptEnds, Overheard, StreamTypes
  <2> QED BY <1>7, <2>1 DEF PromptEnds, waitVars
<1>8. CASE Wait
  <2>1. UNCHANGED askVars
    BY <1>8 DEF Wait, waitRest, Begins, HoldForAsk, Woken, Decide, Arm,
       ChildSeen, SleepOver, PromptChanged, Recheck, GraceOver
  <2>2. heard' \in BOOLEAN /\ timedOut' \in BOOLEAN /\ sent' \in {"none", "term", "kill"}
    BY <1>8 DEF Wait, Begins, HoldForAsk, Woken, Decide, Arm, ChildSeen,
       SleepOver, PromptChanged, Recheck, TermSent, GraceOver, Goto, Listen
  <2> QED BY <2>1, <2>2 DEF askVars
<1> QED
  BY <1>1, <1>2, <1>3, <1>4, <1>5, <1>6, <1>7, <1>8 DEF Next, Reader

\* Every variable keeps to its type: less than a marker is held back, no more
\* than the cap is kept, and no mark on the clock is ahead of time.
THEOREM PromptedHostTypeCorrect == Spec => []TypeOK
<1> DEFINE Types == StreamInv /\ ClockInv /\ TimeTypes /\ OtherTypes
<1>1. Init => Types
  BY StreamInvInit, ClockInvInit, TimeTypesInit
<1>2. Types /\ [Next]_vars => Types'
  BY NextKeepsStreamInv, NextKeepsClockInv, NextKeepsTimeTypes,
     NextKeepsOtherTypes DEF StreamInv
<1>3. Types => TypeOK
  <2> SUFFICES ASSUME StreamInv, ClockInv, TimeTypes, OtherTypes
               PROVE  TypeOK
    OBVIOUS
  <2>1. Len(heldBack) < Len(Marker)
    <3>1. CASE heldBack = << >>
      BY <3>1, MarkerType DEF L
    <3>2. CASE Held(Seen, heldBack)
      BY <3>2 DEF Held, L
    <3> QED BY <3>1, <3>2 DEF StreamInv, StreamTypes, KeptSoFar
  <2>2. Len(kept) <= Cap
    <3>1. \E x \in Seq(Symbols) : kept = Capped(x)
      <4>1. visible \in Seq(Symbols)
        BY DEF StreamInv, StreamTypes
      <4>2. Seen \in Seq(Symbols)
        BY Beginning DEF StreamInv, StreamTypes, Seen
      <4>3. reader # "ended" => LetThrough \in Seq(Symbols)
        <5>1. CASE prompted /\ reader # "ended"
          BY <4>2, <5>1, MarkerType, HeldAndThrough, LeftOver
             DEF StreamInv, StreamTypes, KeptSoFar, LetThrough
        <5> QED BY <4>2, <5>1 DEF LetThrough
      <4> QED BY <4>1, <4>3 DEF StreamInv, KeptSoFar, KeepsUpTo
    <3>2. PICK x \in Seq(Symbols) : kept = Capped(x)
      BY <3>1
    <3>3. Len(Capped(x)) = IF Len(x) <= Cap THEN Len(x) ELSE Cap
      BY CappedIs
    <3>4. Cap \in Nat /\ Len(x) \in Nat
      BY MarkerAssumption
    <3>5. Len(Capped(x)) <= Cap
      BY <3>3, <3>4
    <3> QED BY <3>2, <3>5
  <2>3. since \in {NotAsking} \cup 0..now /\ {spent, started, before, own} \subseteq 0..now
    BY DEF TimeTypes
  <2>4. wait \in Waits /\ reader \in {"reading", "asking", "ended"}
    BY DEF ClockInv, ClockTypes
  <2>5. /\ {prompted, answerable} \subseteq BOOLEAN /\ child \in {"alive", "ended"}
        /\ sudo \in {"quiet", "blocked"} /\ stream \in Seq(Symbols)
        /\ read \in 0..Len(stream)
    BY DEF StreamInv, StreamTypes
  <2>6. /\ {open, heard, timedOut} \subseteq BOOLEAN /\ sent \in {"none", "term", "kill"}
        /\ request \in {"none", "queued", "given", "refused"}
        /\ prompt \in {"none", "mine", "other"}
    BY DEF OtherTypes
  <2> HIDE DEF Types
  <2> QED BY <2>1, <2>2, <2>3, <2>4, <2>5, <2>6 DEF TypeOK
<1> HIDE DEF Types
<1> QED
  BY <1>1, <1>2, <1>3, PTL DEF Spec
=============================================================================
