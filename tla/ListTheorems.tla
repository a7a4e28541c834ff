---------------------------- MODULE ListTheorems ----------------------------
(***************************************************************************)
(* Facts about lists without repeats: the keys of a dict in the order they *)
(* were inserted, as the models keep the addresses of peers and clients;   *)
(* and about the first and the last of a set of numbers.                   *)
(***************************************************************************)
EXTENDS Integers, Sequences, SequencesExt, SequenceTheorems, WellFoundedInduction, TLAPS

\* The elements of a list.
LEMMA ListFacts ==
    ASSUME NEW S, NEW s \in Seq(S)
    PROVE  /\ Len(s) \in Nat /\ DOMAIN s = 1..Len(s) /\ Range(s) \subseteq S
           /\ \A i \in 1..Len(s) : s[i] \in S /\ s[i] \in Range(s)
           /\ \A x \in Range(s) : \E i \in 1..Len(s) : s[i] = x
  <1>1. Len(s) \in Nat /\ DOMAIN s = 1..Len(s)
    BY LenProperties
  <1>2. \A i \in 1..Len(s) : s[i] \in S
    BY ElementOfSeq
  <1> QED
    BY <1>1, <1>2 DEF Range

\* The two names of the set of a list's elements.
LEMMA SetOfList ==
    ASSUME NEW s
    PROVE  ToSet(s) = Range(s)
  BY DEF ToSet, Range

\* The empty list.
LEMMA EmptyList == Range(<<>>) = {} /\ IsInjective(<<>>) /\ Len(<<>>) = 0
  BY DEF Range, IsInjective

\* A new element at the end.
LEMMA Appended ==
    ASSUME NEW S, NEW s \in Seq(S), NEW x \in S
    PROVE  /\ Append(s, x) \in Seq(S) /\ Len(Append(s, x)) = Len(s) + 1
           /\ Range(Append(s, x)) = Range(s) \cup {x}
           /\ IsInjective(s) /\ x \notin Range(s) => IsInjective(Append(s, x))
  <1> DEFINE t == Append(s, x)
  <1>1. /\ t \in Seq(S) /\ Len(t) = Len(s) + 1 /\ t[Len(s) + 1] = x
        /\ \A i \in 1..Len(s) : t[i] = s[i]
    BY AppendProperties
  <1> HIDE DEF t
  <1>2. Len(s) \in Nat /\ DOMAIN s = 1..Len(s) /\ DOMAIN t = 1..(Len(s) + 1)
    BY <1>1, ListFacts
  <1>3. DOMAIN t = DOMAIN s \cup {Len(s) + 1}
    BY <1>2
  <1>4. Range(t) = Range(s) \cup {x}
    BY <1>1, <1>2, <1>3 DEF Range
  <1>5. ASSUME IsInjective(s), x \notin Range(s) PROVE IsInjective(t)
    <2>1. \A i \in 1..Len(s) : t[i] \in Range(s)
      BY <1>1, ListFacts
    <2> QED
      BY <1>1, <1>2, <1>3, <1>5, <2>1 DEF IsInjective
  <1> QED
    BY <1>1, <1>4, <1>5 DEF t

\* A list without its first element.
LEMMA Shifted ==
    ASSUME NEW S, NEW s \in Seq(S), s # <<>>
    PROVE  /\ Tail(s) \in Seq(S) /\ Len(Tail(s)) = Len(s) - 1
           /\ Range(Tail(s)) \subseteq Range(s)
           /\ IsInjective(s) => IsInjective(Tail(s))
  <1> DEFINE t == Tail(s)
  <1>1. t \in Seq(S) /\ Len(t) = Len(s) - 1 /\ \A i \in 1..Len(t) : t[i] = s[i + 1]
    BY HeadTailProperties
  <1> HIDE DEF t
  <1>2. /\ Len(s) \in Nat /\ DOMAIN s = 1..Len(s) /\ DOMAIN t = 1..Len(t)
        /\ \A i \in 1..Len(s) : s[i] \in Range(s)
    BY <1>1, ListFacts
  <1>3. \A i \in 1..Len(t) : i + 1 \in 1..Len(s)
    BY <1>1, <1>2
  <1>4. Range(t) \subseteq Range(s)
    BY <1>1, <1>2, <1>3 DEF Range
  <1>5. ASSUME IsInjective(s), NEW i \in DOMAIN t, NEW j \in DOMAIN t, t[i] = t[j] PROVE i = j
    <2>1. i + 1 = j + 1
      BY <1>1, <1>2, <1>3, <1>5 DEF IsInjective
    <2> QED
      BY <1>2, <2>1
  <1> QED
    BY <1>1, <1>4, <1>5 DEF t, IsInjective

\* What taking an element out of a sequence leaves.
LEMMA RemovedAt ==
    ASSUME NEW S, NEW s \in Seq(S), NEW p \in 1..Len(s)
    PROVE  /\ RemoveAt(s, p) \in Seq(S) /\ Len(RemoveAt(s, p)) = Len(s) - 1
           /\ \A i \in 1..(Len(s) - 1) : RemoveAt(s, p)[i] = IF i < p THEN s[i] ELSE s[i + 1]
  <1> DEFINE a == SubSeq(s, 1, p - 1)   b == SubSeq(s, p + 1, Len(s))
  <1>1. Len(s) \in Nat /\ p \in Nat /\ p >= 1 /\ p <= Len(s) /\ \A i \in 1..Len(s) : s[i] \in S
    BY LenProperties, ElementOfSeq
  <1>2. a \in Seq(S) /\ Len(a) = p - 1 /\ \A i \in 1..(p - 1) : a[i] = s[i]
    <2>1. /\ a \in Seq(S) /\ Len(a) = IF 1 <= p - 1 THEN (p - 1) - 1 + 1 ELSE 0
          /\ \A i \in 1..(p - 1) - 1 + 1 : a[i] = s[1 + i - 1]
      <3>1. 1 \in Int /\ p - 1 \in Int /\ \A i \in 1..(p - 1) : s[i] \in S
        BY <1>1
      <3> HIDE DEF a
      <3> QED
        BY <3>1, SubSeqProperties DEF a
    <2> HIDE DEF a
    <2> QED
      BY <1>1, <2>1
  <1>3. b \in Seq(S) /\ Len(b) = Len(s) - p /\ \A i \in 1..(Len(s) - p) : b[i] = s[p + i]
    <2>1. /\ b \in Seq(S) /\ Len(b) = IF p + 1 <= Len(s) THEN Len(s) - (p + 1) + 1 ELSE 0
          /\ \A i \in 1..Len(s) - (p + 1) + 1 : b[i] = s[p + 1 + i - 1]
      <3>1. p + 1 \in Int /\ Len(s) \in Int /\ \A i \in (p + 1)..Len(s) : s[i] \in S
        BY <1>1
      <3> HIDE DEF b
      <3> QED
        BY <3>1, SubSeqProperties DEF b
    <2> HIDE DEF b
    <2> QED
      BY <1>1, <2>1
  <1>4. RemoveAt(s, p) = a \o b
    BY DEF RemoveAt
  <1> HIDE DEF a, b
  <1>5. /\ a \o b \in Seq(S) /\ Len(a \o b) = Len(a) + Len(b)
        /\ \A i \in 1..Len(a) + Len(b) : (a \o b)[i] = IF i <= Len(a) THEN a[i] ELSE b[i - Len(a)]
    BY <1>2, <1>3, ConcatProperties
  <1> DEFINE c == a \o b
  <1> HIDE DEF c
  <1>6. ASSUME NEW i \in 1..(Len(s) - 1) PROVE c[i] = IF i < p THEN s[i] ELSE s[i + 1]
    <2>1. c[i] = IF i <= Len(a) THEN a[i] ELSE b[i - Len(a)]
      BY <1>1, <1>2, <1>3, <1>5 DEF c
    <2>2. CASE i < p
      <3>1. i \in 1..(p - 1) /\ i <= p - 1
        BY <1>1, <2>2
      <3> QED
        BY <1>2, <2>1, <2>2, <3>1
    <2>3. CASE ~(i < p)
      <3>1. i - (p - 1) \in 1..(Len(s) - p) /\ ~(i <= p - 1) /\ p + (i - (p - 1)) = i + 1
        BY <1>1, <2>3
      <3> QED
        BY <1>2, <1>3, <2>1, <2>3, <3>1
    <2> QED
      BY <2>2, <2>3
  <1> QED
    BY <1>1, <1>2, <1>3, <1>4, <1>5, <1>6 DEF c

\* An element taken out of a list without repeats.
LEMMA Removed ==
    ASSUME NEW S, NEW s \in Seq(S), IsInjective(s), NEW p \in DOMAIN s
    PROVE  /\ RemoveAt(s, p) \in Seq(S) /\ Len(RemoveAt(s, p)) = Len(s) - 1
           /\ IsInjective(RemoveAt(s, p))
           /\ Range(RemoveAt(s, p)) \subseteq Range(s) \ {s[p]}
  <1> DEFINE t == RemoveAt(s, p)
             From(i) == IF i < p THEN i ELSE i + 1
  <1>1. /\ Len(s) \in Nat /\ DOMAIN s = 1..Len(s) /\ p \in Nat
        /\ \A i \in 1..Len(s) : s[i] \in Range(s)
    BY ListFacts
  <1>2. /\ t \in Seq(S) /\ Len(t) = Len(s) - 1
        /\ \A i \in 1..(Len(s) - 1) : t[i] = IF i < p THEN s[i] ELSE s[i + 1]
    BY <1>1, RemovedAt
  <1> HIDE DEF t
  <1>3. DOMAIN t = 1..(Len(s) - 1)
    BY <1>2, ListFacts
  <1>4. ASSUME NEW i \in DOMAIN t PROVE From(i) \in DOMAIN s \ {p} /\ t[i] = s[From(i)]
    BY <1>1, <1>2, <1>3
  <1>5. ASSUME NEW i \in DOMAIN t, NEW j \in DOMAIN t, From(i) = From(j) PROVE i = j
    BY <1>1, <1>3, <1>5
  <1> HIDE DEF From
  <1>6. IsInjective(t)
    BY <1>4, <1>5 DEF IsInjective
  <1>7. \A i \in DOMAIN t : t[i] \in Range(s) \ {s[p]}
    BY <1>1, <1>4 DEF IsInjective
  <1> QED
    BY <1>2, <1>6, <1>7 DEF Range, t

\* A list without its last element, which is then the only one missing.
LEMMA Popped ==
    ASSUME NEW S, NEW s \in Seq(S), s # <<>>
    PROVE  /\ Front(s) \in Seq(S)
           /\ Range(s) = Range(Front(s)) \cup {Last(s)}
  <1>1. Len(s) \in Nat /\ DOMAIN s = 1..Len(s) /\ Len(s) >= 1
    <2>1. Len(s) # 0
      BY EmptySeq
    <2> QED
      BY <2>1, ListFacts
  <1> DEFINE t == Front(s)
  <1>2. t \in Seq(S) /\ Len(t) = Len(s) - 1 /\ \A i \in 1..(Len(s) - 1) : t[i] = s[i]
    <2>1. t = SubSeq(s, 1, Len(s) - 1)
      BY DEF Front
    <2>2. 1 \in Int /\ Len(s) - 1 \in Int /\ \A i \in 1..(Len(s) - 1) : s[i] \in S
      BY <1>1, ElementOfSeq
    <2> HIDE DEF t
    <2>3. /\ t \in Seq(S) /\ Len(t) = IF 1 <= Len(s) - 1 THEN (Len(s) - 1) - 1 + 1 ELSE 0
          /\ \A i \in 1..(Len(s) - 1) - 1 + 1 : t[i] = s[1 + i - 1]
      BY <2>1, <2>2, SubSeqProperties
    <2>4. ASSUME NEW n \in Nat, n >= 1
          PROVE  /\ (IF 1 <= n - 1 THEN (n - 1) - 1 + 1 ELSE 0) = n - 1
                 /\ (n - 1) - 1 + 1 = n - 1
      BY <2>4
    <2>5. \A i \in 1..(Len(s) - 1) : 1 + i - 1 = i
      BY <1>1
    <2> QED
      BY <1>1, <2>3, <2>4, <2>5
  <1> HIDE DEF t
  <1>3. DOMAIN t = 1..(Len(s) - 1)
    BY <1>2, ListFacts
  <1>4. ASSUME NEW i \in DOMAIN s PROVE s[i] \in Range(t) \cup {s[Len(s)]}
    <2>1. i = Len(s) \/ i \in DOMAIN t
      BY <1>1, <1>3
    <2> QED
      BY <1>2, <1>3, <2>1 DEF Range
  <1>5. Range(t) \subseteq Range(s) /\ s[Len(s)] \in Range(s)
    BY <1>1, <1>2, <1>3 DEF Range
  <1> QED
    BY <1>2, <1>4, <1>5 DEF Range, Last, t

\* The first element is the only one that is not in the rest.
LEMMA HeadOrTail ==
    ASSUME NEW S, NEW s \in Seq(S), s # <<>>
    PROVE  Range(s) = {Head(s)} \cup Range(Tail(s))
  <1> DEFINE t == Tail(s)
  <1>1. t \in Seq(S) /\ Len(t) = Len(s) - 1 /\ \A i \in 1..Len(t) : t[i] = s[i + 1]
    BY HeadTailProperties
  <1> HIDE DEF t
  <1>2. Len(s) \in Nat /\ DOMAIN s = 1..Len(s) /\ DOMAIN t = 1..Len(t)
    BY <1>1, ListFacts
  <1>3. ASSUME NEW i \in DOMAIN s PROVE s[i] \in {s[1]} \cup Range(t)
    <2>1. i = 1 \/ (i - 1 \in DOMAIN t /\ (i - 1) + 1 = i)
      BY <1>1, <1>2
    <2> QED
      BY <1>1, <1>2, <2>1 DEF Range
  <1>4. Head(s) = s[1]
    OBVIOUS
  <1>5. 1 \in DOMAIN s
    BY <1>2, EmptySeq
  <1>6. {s[1]} \cup Range(t) \subseteq Range(s)
    BY <1>1, <1>5, Shifted DEF Range, t
  <1> QED
    BY <1>3, <1>4, <1>6 DEF Range, t

-----------------------------------------------------------------------------
(* Numbers *)

\* A set of natural numbers has a least element.
LEMMA LeastNumber ==
    ASSUME NEW T \in SUBSET Nat, T # {}
    PROVE  \E x \in T : \A y \in T : x <= y
  <1> DEFINE R == OpToRel(<, Nat)
  <1>1. IsWellFoundedOn(R, Nat)
    BY NatLessThanWellFounded
  <1>2. \A x, y \in Nat : x < y => <<x, y>> \in R
    BY DEF OpToRel
  <1> HIDE DEF R
  <1>3. PICK x \in T : \A y \in T : ~(<<y, x>> \in R)
    BY <1>1, WFMin
  <1>4. ASSUME NEW y \in T PROVE x <= y
    <2>1. x \in Nat /\ y \in Nat
      OBVIOUS
    <2>2. ~(y < x)
      BY <1>2, <1>3, <2>1
    <2> QED
      BY <2>1, <2>2
  <1> QED
    BY <1>4

\* ... and a set of integers with a bound has a greatest element.
LEMMA GreatestNumber ==
    ASSUME NEW T \in SUBSET Int, T # {}, NEW n \in Int, \A x \in T : x <= n
    PROVE  \E x \in T : \A y \in T : y <= x
  <1> DEFINE U == {u \in Nat : \E x \in T : u = n - x}
  <1>1. \A x \in T : x \in Int /\ n - x \in Nat /\ n - x \in U
    OBVIOUS
  <1>2. PICK u \in U : \A v \in U : u <= v
    <2>1. U \in SUBSET Nat /\ U # {}
      BY <1>1
    <2> HIDE DEF U
    <2> QED
      BY <2>1, LeastNumber
  <1>3. PICK x \in T : u = n - x
    OBVIOUS
  <1>4. ASSUME NEW y \in T PROVE y <= x
    <2>1. u <= n - y
      BY <1>1, <1>2
    <2> QED
      BY <1>1, <1>3, <2>1
  <1> QED
    BY <1>4

-----------------------------------------------------------------------------
(* Functions defined step by step *)

\* Induction from m up to n, over a set of numbers.
LEMMA UpTo ==
    ASSUME NEW m \in Int, NEW n \in Int, NEW T,
           m \in T, \A i \in m..(n - 1) : i \in T => i + 1 \in T
    PROVE  m..n \subseteq T
  <1> DEFINE U == {k \in Nat : m + k <= n /\ m + k \notin T}
  <1>1. ASSUME U # {} PROVE FALSE
    <2>1. PICK k \in U : \A j \in U : k <= j
      <3>1. U \in SUBSET Nat
        OBVIOUS
      <3> HIDE DEF U
      <3> QED
        BY <1>1, <3>1, LeastNumber
    <2>2. k \in Nat /\ m + k <= n /\ m + k \notin T
      BY <2>1
    <2>3. k # 0
      BY <2>2
    <2> DEFINE i == m + (k - 1)
    <2>4. k - 1 \in Nat /\ i \in m..(n - 1) /\ i + 1 = m + k
      BY <2>2, <2>3
    <2>5. i \notin T
      BY <2>2, <2>4
    <2>6. k - 1 \in U
      BY <2>2, <2>4, <2>5
    <2> QED
      BY <2>1, <2>2, <2>6
  <1>2. ASSUME NEW x \in m..n PROVE x \in T
    <2>1. x - m \in Nat /\ m + (x - m) = x /\ x <= n
      OBVIOUS
    <2> QED
      BY <1>1, <2>1
  <1> QED
    BY <1>2

\* ... and from n down to m.
LEMMA DownTo ==
    ASSUME NEW m \in Int, NEW n \in Int, NEW T,
           n \in T, \A i \in (m + 1)..n : i \in T => i - 1 \in T
    PROVE  m..n \subseteq T
  <1> DEFINE V == {k \in Nat : n - k \in T}
  <1>1. 0..(n - m) \subseteq V
    <2>1. 0 \in V
      OBVIOUS
    <2>2. ASSUME NEW k \in 0..((n - m) - 1), k \in V PROVE k + 1 \in V
      <3>1. n - k \in (m + 1)..n /\ n - k \in T /\ (n - k) - 1 = n - (k + 1)
        BY <2>2
      <3> QED
        BY <3>1
    <2>3. 0 \in Int /\ n - m \in Int
      OBVIOUS
    <2> HIDE DEF V
    <2>4. \A k \in 0..((n - m) - 1) : k \in V => k + 1 \in V
      BY <2>2
    <2> DEFINE N == n - m
    <2>5. N \in Int /\ \A k \in 0..(N - 1) : k \in V => k + 1 \in V
      BY <2>3, <2>4
    <2> HIDE DEF N
    <2>6. 0..N \subseteq V
      BY <2>1, <2>3, <2>5, UpTo
    <2> QED
      BY <2>6 DEF N
  <1>2. ASSUME NEW x \in m..n PROVE x \in T
    <2>1. n - x \in 0..(n - m) /\ n - (n - x) = x
      OBVIOUS
    <2> QED
      BY <1>1, <2>1
  <1> QED
    BY <1>2

\* f starts with base and goes on, by op, along the first n elements of s.
Follows(f, n, base, s, op) ==
    f[0] = base /\ \A i \in 1..n : f[i] = op[<<f[i - 1], s[i]>>]

\* A function that is defined step by step along a list exists, and stays in a
\* set that its steps keep.
LEMMA Stepwise ==
    ASSUME NEW n \in Nat, NEW S, NEW E, NEW base \in S, NEW s \in [1..n -> E],
           NEW op \in [S \X E -> S]
    PROVE  \E f \in [0..n -> S] : Follows(f, n, base, s, op)
  <1> DEFINE Good(k, f) == /\ f \in [0..k -> S]
                           /\ f[0] = base
                           /\ \A i \in 1..k : f[i] = op[<<f[i - 1], s[i]>>]
             T == {k \in Nat : \E f : Good(k, f)}
  <1>1. 0 \in T
    <2>1. Good(0, [i \in 0..0 |-> base])
      OBVIOUS
    <2> HIDE DEF Good
    <2> QED
      BY <2>1
  <1>2. ASSUME NEW k \in 0..(n - 1), k \in T PROVE k + 1 \in T
    <2> HIDE DEF Good
    <2>1. PICK f : Good(k, f)
      BY <1>2
    <2> USE DEF Good
    <2>2. /\ f \in [0..k -> S] /\ f[0] = base /\ k \in Nat /\ k + 1 \in 1..n
          /\ \A i \in 1..k : f[i] = op[<<f[i - 1], s[i]>>]
      BY <2>1
    <2>3. f[k] \in S /\ s[k + 1] \in E
      BY <2>2
    <2> DEFINE y == op[<<f[k], s[k + 1]>>]
    <2>4. y \in S
      BY <2>3
    <2>5. y = op[<<f[k], s[k + 1]>>]
      OBVIOUS
    <2> HIDE DEF y
    <2> DEFINE g == [i \in 0..(k + 1) |-> IF i = k + 1 THEN y ELSE f[i]]
    <2>6. g \in [0..(k + 1) -> S]
      BY <2>2, <2>4
    <2>7. /\ g[0] = base /\ g[k + 1] = y /\ g[k] = f[k]
          /\ \A i \in 1..k : g[i] = f[i] /\ g[i - 1] = f[i - 1]
      BY <2>2
    <2> HIDE DEF g
    <2>8. ASSUME NEW i \in 1..(k + 1) PROVE g[i] = op[<<g[i - 1], s[i]>>]
      <3>1. CASE i = k + 1
        <4>1. i - 1 = k
          BY <3>1, <2>2
        <4> QED
          BY <3>1, <4>1, <2>5, <2>7
      <3>2. CASE i # k + 1
        <4>1. i \in 1..k
          BY <3>2, <2>2
        <4> QED
          BY <2>2, <2>7, <4>1
      <3> QED
        BY <3>1, <3>2
    <2>9. Good(k + 1, g)
      BY <2>6, <2>7, <2>8
    <2> HIDE DEF Good
    <2> QED
      BY <2>2, <2>9
  <1>3. n \in T
    <2> HIDE DEF T
    <2>1. \A k \in 0..(n - 1) : k \in T => k + 1 \in T
      BY <1>2
    <2>2. 0 \in Int /\ n \in Int /\ n \in 0..n
      OBVIOUS
    <2>3. 0..n \subseteq T
      BY <1>1, <2>1, <2>2, UpTo
    <2> QED
      BY <2>2, <2>3
  <1>4. PICK f : Good(n, f)
    <2> HIDE DEF Good
    <2> QED
      BY <1>3
  <1> QED
    BY <1>4 DEF Follows
=============================================================================
