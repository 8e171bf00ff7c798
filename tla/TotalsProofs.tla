----------------------------- MODULE TotalsProofs -----------------------------
(***************************************************************************)
(* What Total does under Append and Tail.  Induction over the natural      *)
(* numbers is used in the form of sets of numbers, which the provers can   *)
(* handle: the least number outside of the set would have a predecessor.   *)
(***************************************************************************)
EXTENDS Totals, WellFoundedInduction, TLAPS

Smaller == {p \in Nat \X Nat : p[1] < p[2]}

LEMMA LeastNatural ==
    ASSUME NEW T, T \subseteq Nat, T # {}
    PROVE  \E n \in T : \A m \in T : n <= m
<1>1. IsWellFoundedOn(Smaller, Nat)
  BY NatLessThanWellFounded DEF OpToRel, Smaller
<1>2. PICK n \in T : \A m \in T : <<m, n>> \notin Smaller
  BY <1>1, WFMin
<1>3. \A m \in T : ~(m < n)
  BY <1>2 DEF Smaller
<1> QED BY <1>3

\* A set with 0 in it, and with every successor of a number in it, has all of them.
LEMMA SetInduction ==
    ASSUME NEW T, 0 \in T, \A n \in Nat : n \in T => n + 1 \in T
    PROVE  Nat \subseteq T
<1> SUFFICES ASSUME Nat \ T # {} PROVE FALSE
  OBVIOUS
<1>1. PICK n \in Nat \ T : \A m \in Nat \ T : n <= m
  BY LeastNatural
<1>2. n - 1 \in Nat /\ n - 1 \in T
  BY <1>1
<1> QED BY <1>1, <1>2

-----------------------------------------------------------------------------

\* f holds the partial sums of s, up to the first n elements.
SumsUpTo(f, s, n) ==
    /\ f \in [0 .. n -> Int]
    /\ f[0] = 0
    /\ \A i \in 1 .. n : f[i] = f[i - 1] + s[i]

LEMMA SumsExist ==
    ASSUME NEW s \in Seq(Int)
    PROVE  \E f : SumsUpTo(f, s, Len(s))
<1> DEFINE T == {n \in Nat : n <= Len(s) => \E f : SumsUpTo(f, s, n)}
<1>1. 0 \in T
  <2>1. SumsUpTo([i \in 0 .. 0 |-> 0], s, 0)
    BY DEF SumsUpTo
  <2> QED BY <2>1
<1>2. ASSUME NEW n \in Nat, n \in T PROVE n + 1 \in T
  <2> SUFFICES ASSUME n + 1 <= Len(s) PROVE \E f : SumsUpTo(f, s, n + 1)
    OBVIOUS
  <2>1. s[n + 1] \in Int /\ Len(s) \in Nat
    OBVIOUS
  <2>2. PICK f : SumsUpTo(f, s, n)
    BY <1>2, <2>1
  <2> DEFINE g == [i \in 0 .. n + 1 |-> IF i <= n THEN f[i] ELSE f[n] + s[n + 1]]
  <2>3. g \in [0 .. n + 1 -> Int] /\ g[0] = 0
    BY <2>1, <2>2 DEF SumsUpTo
  <2>4. ASSUME NEW i \in 1 .. n + 1 PROVE g[i] = g[i - 1] + s[i]
    <3>1. i - 1 \in 0 .. n /\ g[i - 1] = f[i - 1]
      OBVIOUS
    <3>2. CASE i <= n
      BY <2>2, <3>1, <3>2 DEF SumsUpTo
    <3>3. CASE i = n + 1
      BY <3>1, <3>3
    <3> QED BY <3>2, <3>3
  <2> QED BY <2>3, <2>4 DEF SumsUpTo
<1>3. Len(s) \in T
  <2> HIDE DEF T
  <2> QED BY <1>1, <1>2, SetInduction
<1> QED BY <1>3

LEMMA SumsUnique ==
    ASSUME NEW s, NEW n \in Nat, NEW f, NEW g, SumsUpTo(f, s, n), SumsUpTo(g, s, n)
    PROVE  f[n] = g[n]
<1> DEFINE T == {i \in Nat : i <= n => f[i] = g[i]}
<1>1. 0 \in T
  BY DEF SumsUpTo
<1>2. ASSUME NEW i \in Nat, i \in T PROVE i + 1 \in T
  <2> SUFFICES ASSUME i + 1 <= n PROVE f[i + 1] = g[i + 1]
    OBVIOUS
  <2>1. f[i] = g[i] /\ i + 1 \in 1 .. n /\ (i + 1) - 1 = i
    BY <1>2
  <2> QED BY <2>1 DEF SumsUpTo
<1>3. n \in T
  <2> HIDE DEF T
  <2> QED BY <1>1, <1>2, SetInduction
<1> QED BY <1>3

\* The recursive definition defines the partial sums.
LEMMA PartialIsRight ==
    ASSUME NEW s \in Seq(Int)
    PROVE  SumsUpTo(Partial(s), s, Len(s))
<1> DEFINE Defines(f) == f = [n \in 0 .. Len(s) |-> IF n = 0 THEN 0 ELSE f[n - 1] + s[n]]
<1>1. Len(s) \in Nat
  OBVIOUS
<1>2. PICK f : SumsUpTo(f, s, Len(s))
  BY SumsExist
<1>3. Defines(f)
  BY <1>1, <1>2 DEF SumsUpTo
<1>4. Partial(s) = CHOOSE g : Defines(g)
  BY DEF Partial
<1>5. Defines(Partial(s))
  <2> HIDE DEF Defines
  <2> QED BY <1>3, <1>4
<1> DEFINE g == Partial(s)
<1> HIDE DEF g
<1>6. g = [n \in 0 .. Len(s) |-> IF n = 0 THEN 0 ELSE g[n - 1] + s[n]]
  BY <1>5 DEF g
<1>7. g[0] = 0 /\ \A i \in 1 .. Len(s) : g[i] = g[i - 1] + s[i]
  BY <1>1, <1>6
<1>8. g \in [0 .. Len(s) -> Int]
  <2> DEFINE T == {n \in Nat : n <= Len(s) => g[n] \in Int}
  <2>1. 0 \in T
    BY <1>7
  <2>2. ASSUME NEW n \in Nat, n \in T PROVE n + 1 \in T
    <3> SUFFICES ASSUME n + 1 <= Len(s) PROVE g[n + 1] \in Int
      OBVIOUS
    <3>1. n + 1 \in 1 .. Len(s) /\ (n + 1) - 1 = n /\ g[n] \in Int /\ s[n + 1] \in Int
      BY <1>1, <2>2
    <3> QED BY <1>7, <3>1
  <2>3. Nat \subseteq T
    <3> HIDE DEF T
    <3> QED BY <2>1, <2>2, SetInduction
  <2>4. \A n \in 0 .. Len(s) : g[n] \in Int
    BY <1>1, <2>3
  <2>5. \E h : g = [n \in 0 .. Len(s) |-> h[n]]
    <3> DEFINE h == [n \in 0 .. Len(s) |-> IF n = 0 THEN 0 ELSE g[n - 1] + s[n]]
    <3>1. g = h /\ h = [n \in 0 .. Len(s) |-> h[n]]
      BY <1>6
    <3> QED BY <3>1
  <2> QED BY <2>4, <2>5
<1> QED BY <1>7, <1>8 DEF SumsUpTo, g

-----------------------------------------------------------------------------

\* Nothing adds up to zero.
THEOREM TotalOfEmpty == Total(<<>>) = 0
<1>1. <<>> \in Seq(Int) /\ Len(<<>>) = 0
  OBVIOUS
<1> QED BY <1>1, PartialIsRight DEF Total, SumsUpTo

\* The total of integers is one.
THEOREM TotalIsInteger ==
    ASSUME NEW s \in Seq(Int)
    PROVE  Total(s) \in Int
<1>1. Len(s) \in 0 .. Len(s)
  OBVIOUS
<1> QED BY <1>1, PartialIsRight DEF Total, SumsUpTo

\* Any partial sums will do to find the total.
LEMMA TotalFrom ==
    ASSUME NEW s \in Seq(Int), NEW f, SumsUpTo(f, s, Len(s))
    PROVE  Total(s) = f[Len(s)]
<1>1. Len(s) \in Nat
  OBVIOUS
<1> QED BY <1>1, PartialIsRight, SumsUnique DEF Total

\* One more element at the end adds itself to the total.
THEOREM TotalOfAppend ==
    ASSUME NEW s \in Seq(Int), NEW e \in Int
    PROVE  Total(Append(s, e)) = Total(s) + e
<1> DEFINE f == Partial(s)
           n == Len(s)
           g == [i \in 0 .. n + 1 |-> IF i <= n THEN f[i] ELSE f[n] + e]
           t == Append(s, e)
<1>1. SumsUpTo(f, s, n)
  BY PartialIsRight
<1>2. /\ n \in Nat /\ t \in Seq(Int) /\ Len(t) = n + 1
      /\ t[n + 1] = e /\ \A i \in 1 .. n : t[i] = s[i]
  OBVIOUS
<1> HIDE DEF f, n, t
<1>3. g \in [0 .. n + 1 -> Int] /\ g[0] = 0
  BY <1>1, <1>2 DEF SumsUpTo
<1>4. ASSUME NEW i \in 1 .. n + 1 PROVE g[i] = g[i - 1] + t[i]
  <2>1. i - 1 \in 0 .. n /\ g[i - 1] = f[i - 1]
    BY <1>2
  <2>2. CASE i <= n
    BY <1>1, <1>2, <2>1, <2>2 DEF SumsUpTo
  <2>3. CASE i = n + 1
    BY <1>2, <2>1, <2>3
  <2> QED BY <1>2, <2>2, <2>3
<1>5. Total(t) = g[n + 1]
  BY <1>2, <1>3, <1>4, TotalFrom DEF SumsUpTo
<1>6. g[n + 1] = f[n] + e
  BY <1>2
<1> QED BY <1>5, <1>6 DEF Total, f, n, t

\* Without its first element, a sequence has that much less in total.
THEOREM TotalOfTail ==
    ASSUME NEW s \in Seq(Int), s # <<>>
    PROVE  Total(s) = Head(s) + Total(Tail(s))
<1> DEFINE f == Partial(s)
           n == Len(s)
           g == [i \in 0 .. n - 1 |-> f[i + 1] - s[1]]
           t == Tail(s)
<1>1. SumsUpTo(f, s, n)
  BY PartialIsRight
<1>2. /\ n \in Nat /\ n >= 1 /\ t \in Seq(Int) /\ Len(t) = n - 1
      /\ s[1] \in Int /\ Head(s) = s[1] /\ \A i \in 1 .. n - 1 : t[i] = s[i + 1]
  OBVIOUS
<1> HIDE DEF f, n, t
<1>3. ASSUME NEW i \in 0 .. n - 1 PROVE i + 1 \in 0 .. n /\ f[i + 1] \in Int /\ g[i] = f[i + 1] - s[1]
  BY <1>1, <1>2 DEF SumsUpTo
<1>4. g \in [0 .. n - 1 -> Int]
  BY <1>2, <1>3
<1>5. g[0] = 0
  <2>1. f[1] = f[1 - 1] + s[1] /\ f[0] = 0
    BY <1>1, <1>2 DEF SumsUpTo
  <2> QED BY <1>2, <1>3, <2>1
<1>6. ASSUME NEW i \in 1 .. n - 1 PROVE g[i] = g[i - 1] + t[i]
  <2>1. g[i] = f[i + 1] - s[1] /\ g[i - 1] = f[i] - s[1] /\ f[i] \in Int /\ f[i + 1] \in Int
    <3>1. i - 1 \in 0 .. n - 1 /\ i \in 0 .. n - 1 /\ (i - 1) + 1 = i
      BY <1>2
    <3> QED BY <1>3, <3>1
  <2>2. f[i + 1] = f[i] + s[i + 1]
    <3>1. i + 1 \in 1 .. n /\ (i + 1) - 1 = i
      BY <1>2
    <3> QED BY <1>1, <3>1 DEF SumsUpTo
  <2>3. t[i] = s[i + 1] /\ s[i + 1] \in Int
    BY <1>2 DEF n
  <2>4. s[1] \in Int
    BY <1>2
  <2> HIDE DEF g
  <2> QED BY <2>1, <2>2, <2>3, <2>4
<1>7. Total(t) = g[n - 1]
  BY <1>2, <1>4, <1>5, <1>6, TotalFrom DEF SumsUpTo
<1>8. g[n - 1] = f[n] - s[1] /\ f[n] \in Int
  <2>1. n - 1 \in 0 .. n - 1 /\ (n - 1) + 1 = n
    BY <1>2
  <2> QED BY <1>3, <2>1
<1> QED BY <1>2, <1>7, <1>8 DEF Total, f, n, t
===============================================================================
