------------------------------ MODULE Folding ------------------------------
(***************************************************************************)
(* What FoldLeft computes, one element after another: the lemma that every *)
(* proof about a loop of src/host.rs and src/run/list.rs cites, instead of *)
(* an induction of its own.  Step is the body of the loop, and its first   *)
(* argument what the loop reads and does not change.                       *)
(***************************************************************************)
EXTENDS Integers, SequencesExt, WellFoundedInduction, TLAPS

CONSTANT Step(_, _, _)

Folded(c, base, s) == FoldLeft(LAMBDA acc, x : Step(c, acc, x), base, s)

\* acc goes from the base to what is folded by one Step for each element.
Stepped(c, base, s, n, acc) ==
    /\ acc[0] = base
    /\ \A k \in 1..n : acc[k] = Step(c, acc[k - 1], s[k])
    /\ Folded(c, base, s) = acc[n]

\* Induction, for a set rather than for a predicate.
LEMMA UpTo ==
    ASSUME NEW S, NEW n \in Nat, 0 \in S, \A k \in 1..n : k - 1 \in S => k \in S
    PROVE  0..n \subseteq S
<1> DEFINE T == (0..n) \ S
           R == OpToRel(<, Nat)
<1> SUFFICES ASSUME T # {}
             PROVE  FALSE
  OBVIOUS
<1>1. IsWellFoundedOn(R, Nat)
  BY Zenon, NatLessThanWellFounded
<1>2. \A i, j \in Nat : i < j => <<i, j>> \in R
  BY DEF OpToRel
<1> HIDE DEF R
<1>3. T \subseteq Nat
  OBVIOUS
<1>4. PICK x \in T : \A y \in T : ~(<<y, x>> \in R)
  BY <1>1, <1>3, WFMin
<1>5. x \in 1..n /\ x - 1 \in 0..n /\ x - 1 < x
  OBVIOUS
<1>6. x - 1 \in S
  <2>1. x \in Nat /\ x - 1 \in Nat
    BY <1>5
  <2>2. <<x - 1, x>> \in R
    BY <1>2, <1>5, <2>1
  <2> QED BY <1>4, <1>5, <2>2
<1> QED BY <1>5, <1>6

\* The greatest number of a set below a bound.
LEMMA MaxOfUpTo ==
    ASSUME NEW n \in Nat, NEW t \in SUBSET (1..n), t # {}
    PROVE  Max(t) \in t /\ \A i \in t : Max(t) >= i
<1> DEFINE B == {m \in 0..n : \A u \in SUBSET (1..m) :
                     u # {} => \E i \in u : \A j \in u : i >= j}
<1>1. 0 \in B
  <2>1. 1..0 = {}
    OBVIOUS
  <2>2. \A u \in SUBSET (1..0) : u = {}
    BY <2>1
  <2>3. 0 \in 0..n
    OBVIOUS
  <2> QED BY <2>2, <2>3
<1>2. ASSUME NEW m \in 1..n, m - 1 \in B
      PROVE  m \in B
  <2> SUFFICES ASSUME NEW u \in SUBSET (1..m), u # {}
               PROVE  \E i \in u : \A j \in u : i >= j
    OBVIOUS
  <2>1. CASE m \in u
    BY <2>1
  <2>2. CASE m \notin u
    <3>1. u \in SUBSET (1..(m - 1))
      BY <2>2
    <3> QED BY <1>2, <3>1
  <2> QED BY <2>1, <2>2
<1> HIDE DEF B
<1>3. n \in B
  BY <1>1, <1>2, UpTo
<1>4. \E i \in t : \A j \in t : i >= j
  BY <1>3 DEF B
<1> QED BY <1>4 DEF Max

\* A fold goes from its base to its result by one Step for each element.
LEMMA StepByStep ==
    ASSUME NEW c, NEW base, NEW s, NEW n \in Nat, DOMAIN s = 1..n
    PROVE  \E acc : Stepped(c, base, s, n, acc)
<1> DEFINE Is(f, m) == f = [t \in SUBSET (1..m) |->
                               IF t = {} THEN base
                               ELSE Step(c, f[t \ {Max(t)}], s[Max(t)])]
           Some == {m \in 0..n : \E f : Is(f, m)}
<1>1. PICK h : h = CHOOSE f : Is(f, n)
  OBVIOUS
<1>2. Folded(c, base, s) = h[1..n]
  BY <1>1 DEF Folded, FoldLeft, MapThenFoldSet
<1>3. 0 \in Some
  <2> DEFINE f == [t \in SUBSET (1..0) |-> base]
  <2>1. Is(f, 0)
    OBVIOUS
  <2> QED BY <2>1
<1>4. ASSUME NEW m \in 1..n, m - 1 \in Some
      PROVE  m \in Some
  <2>1. PICK g : Is(g, m - 1)
    BY <1>4
  <2> DEFINE f == [t \in SUBSET (1..m) |->
                      IF m \in t THEN Step(c, g[t \ {m}], s[m]) ELSE g[t]]
             F(t) == IF t = {} THEN base ELSE Step(c, f[t \ {Max(t)}], s[Max(t)])
  <2>2. ASSUME NEW t \in SUBSET (1..m)
        PROVE  f[t] = F(t)
    <3>1. CASE m \in t
      <4>1. Max(t) = m
        <5>1. Max(t) \in t /\ \A i \in t : Max(t) >= i
          BY <3>1, MaxOfUpTo
        <5>2. Max(t) \in 1..m /\ Max(t) >= m
          BY <3>1, <5>1
        <5> HIDE DEF F, f
        <5> QED BY <5>2
      <4>2. t \ {m} \in SUBSET (1..m) /\ m \notin t \ {m}
        OBVIOUS
      <4>3. f[t \ {m}] = g[t \ {m}]
        BY <4>2
      <4> QED BY <3>1, <4>1, <4>3
    <3>2. CASE t = {}
      <4>1. t \in SUBSET (1..(m - 1)) /\ m \notin t
        BY <3>2
      <4> QED BY <2>1, <3>2, <4>1
    <3>3. CASE m \notin t /\ t # {}
      <4>1. t \in SUBSET (1..(m - 1))
        BY <3>3
      <4> DEFINE u == t \ {Max(t)}
      <4>2. u \in SUBSET (1..m) /\ m \notin u
        BY <3>3
      <4>3. f[u] = g[u] /\ f[t] = g[t]
        BY <3>3, <4>2
      <4> HIDE DEF u, f
      <4>4. g[t] = Step(c, g[t \ {Max(t)}], s[Max(t)])
        BY <2>1, <3>3, <4>1
      <4> QED BY <3>3, <4>3, <4>4 DEF u
    <3> QED BY <3>1, <3>2, <3>3
  <2>3. f = [t \in SUBSET (1..m) |-> F(t)]
    <3> HIDE DEF F
    <3> QED BY <2>2
  <2>4. Is(f, m)
    BY <2>3
  <2> HIDE DEF Is, f
  <2>5. m \in 0..n
    OBVIOUS
  <2> QED BY <2>4, <2>5
<1>5. \E f : Is(f, n)
  <2> HIDE DEF Is
  <2> HIDE DEF Some
  <2>1. n \in Some
    BY <1>3, <1>4, UpTo
  <2> QED BY <2>1 DEF Some
<1>6. Is(h, n)
  <2> HIDE DEF Is
  <2> QED BY <1>1, <1>5
<1> DEFINE acc == [k \in 0..n |-> h[1..k]]
<1>7. acc[0] = base
  BY <1>6
<1>8. ASSUME NEW k \in 1..n
      PROVE  acc[k] = Step(c, acc[k - 1], s[k])
  <2>1. 1..k \in SUBSET (1..n) /\ k \in 1..k /\ (1..k) \ {k} = 1..(k - 1)
    OBVIOUS
  <2>2. Max(1..k) = k
    <3> DEFINE t == 1..k
    <3>1. t \in SUBSET (1..n) /\ t # {}
      BY <2>1
    <3> HIDE DEF t
    <3>2. Max(t) \in t /\ \A i \in t : Max(t) >= i
      BY <3>1, MaxOfUpTo
    <3> QED BY <3>2 DEF t
  <2>3. h[1..k] = Step(c, h[1..(k - 1)], s[k])
    BY <1>6, <2>1, <2>2
  <2> QED BY <2>3
<1> HIDE DEF acc
<1>9. acc[n] = h[1..n]
  BY DEF acc
<1> QED BY <1>2, <1>7, <1>8, <1>9 DEF Stepped
=============================================================================
