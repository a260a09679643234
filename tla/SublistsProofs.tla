--------------------------- MODULE SublistsProofs ---------------------------
(*****************************************************************************)
(* What a sublist contains, for any list and any of its places; and induction*)
(* over the numbers.                                                        *)
(*****************************************************************************)
EXTENDS Sublists, SequenceTheorems, FiniteSetTheorems, WellFoundedInduction, TLAPS

(* Induction over the numbers, for a set of them: the theorems of the library     *)
(* take an operator.                                                       *)
Below == {ss \in Nat \X Nat : ss[1] < ss[2]}

(* The order of the numbers has no infinite descent. *)
LEMMA BelowIsWellFounded == IsWellFoundedOn(Below, Nat)
  BY NatLessThanWellFounded, Zenon DEF OpToRel, Below

(* A set of numbers that is not empty has a least element. *)
LEMMA LeastNumber ==
  ASSUME NEW T \in SUBSET Nat, T # {}
  PROVE  \E x \in T : \A y \in T : x <= y
<1>1. PICK x \in T : \A y \in T : <<y, x>> \notin Below
  BY BelowIsWellFounded, WFMin
<1>2. ASSUME NEW y \in T PROVE x <= y
  <2>1. y \in Nat /\ x \in Nat
    OBVIOUS
  <2>2. y < x => <<y, x>> \in Below
    BY <2>1 DEF Below
  <2> QED
    BY <1>1, <2>1, <2>2
<1> QED
  BY <1>2

(* Induction: the set that has 0 and the successor of each of its elements is Nat. *)
LEMMA AllNumbers ==
  ASSUME NEW T \in SUBSET Nat, 0 \in T, \A n \in T : n + 1 \in T
  PROVE  T = Nat
<1> SUFFICES ASSUME Nat \ T # {} PROVE FALSE
  OBVIOUS
<1>1. PICK x \in Nat \ T : \A y \in Nat \ T : x <= y
  BY LeastNumber
<1>2. x - 1 \in Nat /\ x - 1 \in T
  BY <1>1
<1> QED
  BY <1>1, <1>2

(* There are n numbers up to n. *)
LEMMA CountUpTo ==
  ASSUME NEW n \in Nat
  PROVE  IsFiniteSet(1..n) /\ Cardinality(1..n) = n
  BY FS_Interval

-----------------------------------------------------------------------------
(* An enumeration of places from the least to the greatest *)
Enumerates(f, m, places) ==
  /\ f \in [1..m -> places]
  /\ \A a, b \in 1..m : a < b => f[a] < f[b]
  /\ \A p \in places : \E a \in 1..m : f[a] = p

(* Every set of numbers up to some n has one: a greater number comes last. *)
LEMMA Enumerable ==
  ASSUME NEW n \in Nat, NEW places \in SUBSET (1..n)
  PROVE  \E m \in Nat : \E f : Enumerates(f, m, places)
<1> DEFINE Has(ps) == \E m \in Nat : \E f : Enumerates(f, m, ps)
           T == {k \in Nat : \A ps \in SUBSET (1..k) : Has(ps)}
<1>1. 0 \in T
  <2>1. \A ps \in SUBSET (1..0) : ps = {}
    OBVIOUS
  <2>2. Has({})
    <3> DEFINE f == [a \in 1..0 |-> a]
    <3>1. f \in [1..0 -> {}] /\ Enumerates(f, 0, {})
      BY DEF Enumerates
    <3> QED
      BY <3>1
  <2> HIDE DEF Has
  <2> QED
    BY <2>1, <2>2
<1>2. ASSUME NEW k \in T PROVE k + 1 \in T
  <2>1. ASSUME NEW ps \in SUBSET (1..(k + 1)) PROVE Has(ps)
    <3> DEFINE less == ps \ {k + 1}
    <3>1. less \in SUBSET (1..k) /\ k \in Nat
      OBVIOUS
    <3>2. PICK m \in Nat : \E f : Enumerates(f, m, less)
      BY <1>2, <3>1
    <3>0. PICK f : Enumerates(f, m, less)
      BY <3>2
    <3>3. CASE k + 1 \notin ps
      <4>1. less = ps
        BY <3>3
      <4> QED
        BY <3>2, <4>1
    <3>4. CASE k + 1 \in ps
      <4> DEFINE g == [a \in 1..(m + 1) |-> IF a = m + 1 THEN k + 1 ELSE f[a]]
      <4>1. \A a \in 1..m : f[a] \in less /\ f[a] \in 1..k
        BY <3>1, <3>0 DEF Enumerates
      <4>2. \A a \in 1..(m + 1) : a = m + 1 \/ (a \in 1..m /\ a # m + 1)
        OBVIOUS
      <4>3. \A a \in 1..m : g[a] = f[a] /\ a \in 1..(m + 1)
        OBVIOUS
      <4>4. g[m + 1] = k + 1 /\ m + 1 \in 1..(m + 1)
        OBVIOUS
      <4>5. g \in [1..(m + 1) -> ps]
        BY <3>4, <4>1, <4>2
      <4> HIDE DEF g
      <4>6. ASSUME NEW a \in 1..(m + 1), NEW b \in 1..(m + 1), a < b PROVE g[a] < g[b]
        <5>1. a \in 1..m
          BY <4>6
        <5>2. CASE b = m + 1
          BY <3>1, <4>1, <4>3, <4>4, <5>1, <5>2
        <5>3. CASE b \in 1..m
          BY <3>0, <4>3, <5>1, <5>3, <4>6 DEF Enumerates
        <5> QED
          BY <4>2, <5>2, <5>3
      <4>7. ASSUME NEW p \in ps PROVE \E a \in 1..(m + 1) : g[a] = p
        <5>1. CASE p = k + 1
          BY <4>4, <5>1
        <5>2. CASE p # k + 1
          <6>1. PICK a \in 1..m : f[a] = p
            BY <3>0, <5>2 DEF Enumerates
          <6> QED
            BY <4>3, <6>1
        <5> QED
          BY <5>1, <5>2
      <4>8. Enumerates(g, m + 1, ps)
        BY <4>5, <4>6, <4>7 DEF Enumerates
      <4> QED
        BY <4>5, <4>8
    <3> QED
      BY <3>3, <3>4
  <2> HIDE DEF Has
  <2> QED
    BY <2>1
<1> HIDE DEF Has
<1>3. T = Nat
  <2> HIDE DEF T
  <2>1. T \in SUBSET Nat
    BY DEF T
  <2> QED
    BY <1>1, <1>2, <2>1, AllNumbers
<1> QED
  BY <1>3 DEF Has

(* An enumeration counts its places. *)
LEMMA EnumerationCounts ==
  ASSUME NEW m \in Nat, NEW places \in SUBSET Nat, NEW f, Enumerates(f, m, places)
  PROVE  IsFiniteSet(places) /\ Cardinality(places) = m
<1>1. IsInjective(f)
  <2>1. DOMAIN f = 1..m
    BY DEF Enumerates
  <2>2. ASSUME NEW a \in 1..m, NEW b \in 1..m, f[a] = f[b] PROVE a = b
    <3>1. f[a] \in Nat /\ f[b] \in Nat
      BY DEF Enumerates
    <3>2. ~(a < b) /\ ~(b < a)
      BY <2>2, <3>1 DEF Enumerates
    <3> QED
      BY <3>2
  <2> QED
    BY <2>1, <2>2 DEF IsInjective
<1>2. f \in Bijection(1..m, places)
  BY <1>1 DEF Enumerates, Bijection, Injection, Surjection
<1>3. ExistsBijection(1..m, places)
  BY <1>2 DEF ExistsBijection
<1>4. IsFiniteSet(1..m) /\ Cardinality(1..m) = m
  BY FS_Interval
<1> QED
  BY <1>3, <1>4, FS_Bijection

(* What InOrder() and Sublist() are, of the places of a list *)
LEMMA InOrderEnumerates ==
  ASSUME NEW n \in Nat, NEW places \in SUBSET (1..n)
  PROVE  /\ IsFiniteSet(places) /\ Cardinality(places) \in Nat
         /\ Enumerates(InOrder(places), Cardinality(places), places)
<1> PICK m \in Nat : \E f : Enumerates(f, m, places)
  BY Enumerable
<1>1. PICK f : Enumerates(f, m, places)
  OBVIOUS
<1>2. places \in SUBSET Nat
  OBVIOUS
<1>3. IsFiniteSet(places) /\ Cardinality(places) = m
  BY <1>1, <1>2, EnumerationCounts
<1> DEFINE g == InOrder(places)
<1>4. g \in [1..m -> places] /\ \A a, b \in 1..m : a < b => g[a] < g[b]
  BY <1>1, <1>3 DEF InOrder, Enumerates
<1> HIDE DEF g
<1>5. IsInjective(g)
  <2>1. ASSUME NEW a \in 1..m, NEW b \in 1..m, g[a] = g[b] PROVE a = b
    <3>1. g[a] \in Nat /\ g[b] \in Nat
      BY <1>2, <1>4
    <3>2. ~(a < b) /\ ~(b < a)
      BY <1>4, <2>1, <3>1
    <3> QED
      BY <3>2
  <2> QED
    BY <1>4, <2>1 DEF IsInjective
<1>6. g \in Injection(1..m, places)
  BY <1>4, <1>5 DEF Injection
<1>7. IsFiniteSet(1..m) /\ Cardinality(1..m) = m
  BY FS_Interval
<1>8. g \in Surjection(1..m, places)
  BY <1>3, <1>6, <1>7, FS_Injection
<1>9. Enumerates(g, m, places)
  BY <1>4, <1>8 DEF Enumerates, Surjection
<1> QED
  BY <1>3, <1>9 DEF g

(* A sublist has the elements at the places, as many as there are places. *)
LEMMA SublistProperties ==
  ASSUME NEW S, NEW list \in Seq(S), NEW places \in SUBSET (1..Len(list))
  PROVE  /\ Sublist(list, places) \in Seq(S)
         /\ Len(Sublist(list, places)) = Cardinality(places)
         /\ Cardinality(places) \in Nat /\ Cardinality(places) <= Len(list)
         /\ \A k \in 1..Len(Sublist(list, places)) :
              \E p \in places : Sublist(list, places)[k] = list[p]
         /\ \A p \in places : \E k \in 1..Len(Sublist(list, places)) :
              Sublist(list, places)[k] = list[p]
<1> DEFINE n == Cardinality(places)
           f == InOrder(places)
           sub == Sublist(list, places)
<1>1. Len(list) \in Nat /\ \A i \in 1..Len(list) : list[i] \in S
  BY LenProperties, ElementOfSeq
<1>2. n \in Nat /\ Enumerates(f, n, places)
  BY <1>1, InOrderEnumerates
<1>3. n <= Len(list)
  <2>1. IsFiniteSet(1..Len(list)) /\ Cardinality(1..Len(list)) = Len(list)
    BY <1>1, CountUpTo
  <2> QED
    BY <2>1, FS_Subset
<1>4. sub = [k \in 1..n |-> list[f[k]]]
  BY DEF Sublist
<1> HIDE DEF n, f, sub
<1>5. \A k \in 1..n : f[k] \in places /\ f[k] \in 1..Len(list)
  BY <1>2 DEF Enumerates
<1>6. sub \in Seq(S) /\ Len(sub) = n
  <2>1. sub \in [1..n -> S]
    BY <1>1, <1>4, <1>5
  <2> QED
    BY <1>2, <1>4, <2>1, SeqDef, IsASeq
<1>7. \A k \in 1..n : sub[k] = list[f[k]]
  BY <1>4
<1>8. \A p \in places : \E k \in 1..n : f[k] = p
  BY <1>2 DEF Enumerates
<1> QED
  BY <1>2, <1>3, <1>5, <1>6, <1>7, <1>8 DEF n, sub

-----------------------------------------------------------------------------
(* A sequence is its first elements and the others. *)
LEMMA Parts ==
  ASSUME NEW S, NEW seq \in Seq(S), NEW m \in Nat, m <= Len(seq)
  PROVE  /\ SubSeq(seq, m + 1, Len(seq)) \in Seq(S) /\ SubSeq(seq, 1, m) \in Seq(S)
         /\ Len(SubSeq(seq, m + 1, Len(seq))) = Len(seq) - m /\ Len(SubSeq(seq, 1, m)) = m
         /\ \A i \in 1..Len(seq) - m : SubSeq(seq, m + 1, Len(seq))[i] = seq[m + i]
         /\ \A i \in 1..m : SubSeq(seq, 1, m)[i] = seq[i]
         /\ seq = SubSeq(seq, 1, m) \o SubSeq(seq, m + 1, Len(seq))
<1> DEFINE n == Len(seq)
           back == SubSeq(seq, m + 1, n)
           front == SubSeq(seq, 1, m)
<1>1. n \in Nat /\ \A i \in 1..n : seq[i] \in S
  BY LenProperties, ElementOfSeq
<1>2. back \in Seq(S) /\ Len(back) = n - m /\ \A i \in 1..n - m : back[i] = seq[m + i]
  <2>1. \A i \in (m + 1)..n : seq[i] \in S
    BY <1>1
  <2>2. m + 1 \in Int /\ n \in Int /\ n - (m + 1) + 1 = n - m
        /\ (IF m + 1 <= n THEN n - (m + 1) + 1 ELSE 0) = n - m
        /\ \A i \in 1..n - m : m + 1 + i - 1 = m + i
    BY <1>1
  <2> DEFINE k == m + 1
  <2>3. \A i \in k..n : seq[i] \in S
    BY <2>1
  <2>4. k \in Int /\ n \in Int
    BY <2>2
  <2> DEFINE from == SubSeq(seq, k, n)
  <2>5. from = back
    OBVIOUS
  <2> HIDE DEF k, n, back, from
  <2>6. from \in Seq(S) /\ Len(from) = (IF k <= n THEN n - k + 1 ELSE 0)
        /\ \A i \in 1..n - k + 1 : from[i] = seq[k + i - 1]
    BY <2>3, <2>4, SubSeqProperties DEF from
  <2> QED
    BY <2>2, <2>5, <2>6 DEF k
<1>3. front \in Seq(S) /\ Len(front) = m /\ \A i \in 1..m : front[i] = seq[i]
  <2>1. \A i \in 1..m : seq[i] \in S
    BY <1>1
  <2>2. 1 \in Int /\ m \in Int /\ m - 1 + 1 = m /\ (IF 1 <= m THEN m - 1 + 1 ELSE 0) = m
        /\ \A i \in 1..m : 1 + i - 1 = i
    OBVIOUS
  <2>3. front \in Seq(S) /\ Len(front) = (IF 1 <= m THEN m - 1 + 1 ELSE 0)
        /\ \A i \in 1..m - 1 + 1 : front[i] = seq[1 + i - 1]
    BY <2>1, <2>2, SubSeqProperties
  <2> HIDE DEF front
  <2> QED
    BY <2>2, <2>3
<1>4. seq = front \o back
  <2>1. front \o back \in Seq(S) /\ Len(front \o back) = Len(front) + Len(back)
        /\ \A i \in 1..Len(front) + Len(back) :
             (front \o back)[i] = IF i <= Len(front) THEN front[i] ELSE back[i - Len(front)]
    BY <1>2, <1>3, ConcatProperties
  <2> DEFINE both == front \o back
  <2>2. both \in Seq(S) /\ Len(both) = n
        /\ \A i \in 1..n : both[i] = IF i <= m THEN front[i] ELSE back[i - m]
    <3>1. Len(front) + Len(back) = n
      BY <1>1, <1>2, <1>3
    <3> HIDE DEF both, front, back, n
    <3>2. both \in Seq(S) /\ Len(both) = Len(front) + Len(back)
          /\ \A i \in 1..Len(front) + Len(back) :
               both[i] = IF i <= Len(front) THEN front[i] ELSE back[i - Len(front)]
      BY <2>1 DEF both
    <3> QED
      BY <1>3, <3>1, <3>2
  <2> HIDE DEF both, front, back, n
  <2>3. ASSUME NEW i \in 1..n PROVE both[i] = seq[i]
    <3>1. CASE i <= m
      <4>1. i \in 1..m
        BY <1>1, <3>1
      <4> QED
        BY <1>3, <2>2, <3>1, <4>1
    <3>2. CASE ~(i <= m)
      <4>1. i - m \in 1..n - m /\ m + (i - m) = i
        BY <1>1, <3>2
      <4> QED
        BY <1>2, <2>2, <3>2, <4>1
    <3> QED
      BY <3>1, <3>2
  <2>4. both = seq
    BY <2>2, <2>3, SeqEqual DEF n
  <2> QED
    BY <2>4 DEF both
<1> HIDE DEF back, front
<1> QED
  BY <1>2, <1>3, <1>4 DEF back, front

(* A number is its quotient and its remainder. *)
LEMMA Division ==
  ASSUME NEW b \in Nat \ {0}, NEW x \in Nat
  PROVE  /\ x \div b \in Nat /\ x % b \in Nat /\ x % b \in 0..(b - 1)
         /\ x = b * (x \div b) + (x % b)
  BY SMT

(* A product bounds the quotient. *)
LEMMA QuotientBelow ==
  ASSUME NEW b \in Nat \ {0}, NEW x \in Nat, NEW y \in Nat, x < b * y
  PROVE  x \div b < y
<1> DEFINE q == x \div b
<1>1. q \in Nat /\ x % b \in Nat /\ x = b * q + (x % b)
  BY Division
<1> HIDE DEF q
<1>2. ASSUME q >= y PROVE FALSE
  <2>1. b * (q - y) = b * q - b * y
    BY <1>1
  <2>2. b * (q - y) >= 0
    BY <1>1, <1>2
  <2>3. b * q \in Nat /\ b * y \in Nat
    BY <1>1
  <2>4. b * q >= b * y
    BY <2>1, <2>2, <2>3
  <2> DEFINE m == b * q
             n == b * y
             r == x % b
  <2>5. m \in Nat /\ n \in Nat /\ r \in Nat /\ x = m + r /\ m >= n /\ x < n
    BY <1>1, <2>3, <2>4
  <2> HIDE DEF m, n, r
  <2> QED
    BY <2>5
<1> QED
  BY <1>1, <1>2 DEF q

(* A number below the base is its own digit. *)
LEMMA OneDigit ==
  ASSUME NEW b \in Nat \ {0}, NEW x \in Nat, x < b
  PROVE  x % b = x
<1> DEFINE q == x \div b
<1>1. q \in Nat /\ x % b \in 0..(b - 1) /\ x = b * q + (x % b)
  BY Division
<1>2. x < b * 1 
  OBVIOUS
<1>3. q < 1
  BY <1>2, QuotientBelow
<1> HIDE DEF q
<1>4. q = 0
  BY <1>1, <1>3
<1>5. b * q = 0
  BY <1>4
<1> QED
  BY <1>1, <1>5
(* What f starts with and how it goes on, up to k *)
Iterates(f, step, start, k) ==
  /\ f[0] = start
  /\ \A n \in 1..k : f[n] = step[<<n, f[n - 1]>>]

(* What f starts with and how it goes on *)
Iterated(f, step, start) ==
  /\ f[0] = start
  /\ \A n \in Nat \ {0} : f[n] = step[<<n, f[n - 1]>>]

(* A step can be repeated any number of times, the number of the step known to it. *)
LEMMA Iterable ==
  ASSUME NEW S, NEW step \in [Nat \X S -> S], NEW start \in S
  PROVE  \E f \in [Nat -> S] : Iterated(f, step, start)
<1> DEFINE T == {k \in Nat : \E f \in [0..k -> S] : Iterates(f, step, start, k)}
<1>1. 0 \in T
  <2> DEFINE f == [n \in 0..0 |-> start]
  <2>1. f \in [0..0 -> S] /\ Iterates(f, step, start, 0)
    BY DEF Iterates
  <2> QED
    BY <2>1
<1>2. ASSUME NEW k \in T PROVE k + 1 \in T
  <2>1. PICK f \in [0..k -> S] : Iterates(f, step, start, k)
    OBVIOUS
  <2> DEFINE g == [n \in 0..(k + 1) |-> IF n = k + 1 THEN step[<<k + 1, f[k]>>] ELSE f[n]]
  <2>2. k \in Nat /\ k \in 0..k /\ f[k] \in S
    OBVIOUS
  <2>3. ASSUME NEW n \in 0..(k + 1) PROVE g[n] \in S
    <3>1. n = k + 1 \/ n \in 0..k
      BY <2>2
    <3> QED
      BY <2>2, <3>1
  <2>4. g \in [0..(k + 1) -> S]
    BY <2>3
  <2>5. g[0] = start
    BY <2>1, <2>2 DEF Iterates
  <2>6. ASSUME NEW n \in 1..(k + 1) PROVE g[n] = step[<<n, g[n - 1]>>]
    <3>1. CASE n = k + 1
      <4>1. g[n] = step[<<n, f[k]>>] /\ n - 1 = k /\ g[k] = f[k]
        BY <2>2, <3>1
      <4> QED
        BY <4>1
    <3>2. CASE n # k + 1
      <4>1. n \in 1..k /\ n - 1 \in 0..k /\ n \in 0..k
        BY <2>2, <3>2
      <4>2. g[n] = f[n] /\ g[n - 1] = f[n - 1]
        BY <2>2, <4>1
      <4> QED
        BY <2>1, <4>1, <4>2 DEF Iterates
    <3> QED
      BY <3>1, <3>2
  <2> HIDE DEF g
  <2>7. Iterates(g, step, start, k + 1)
    BY <2>5, <2>6 DEF Iterates
  <2> QED
    BY <2>2, <2>4, <2>7
<1>3. T = Nat
  <2>1. T \in SUBSET Nat
    OBVIOUS
  <2> HIDE DEF T
  <2> QED
    BY <1>1, <1>2, <2>1, AllNumbers
<1> DEFINE Upto(k) == CHOOSE f \in [0..k -> S] : Iterates(f, step, start, k)
           F == [k \in Nat |-> Upto(k)[k]]
<1>4. ASSUME NEW k \in Nat
      PROVE  Upto(k) \in [0..k -> S] /\ Iterates(Upto(k), step, start, k)
  BY <1>3
<1> HIDE DEF Upto, T
<1>5. ASSUME NEW k \in Nat, NEW n \in Nat, n <= k PROVE Upto(k)[n] = F[n]
  <2> DEFINE U == {m \in Nat : \A i, j \in Nat : m <= i /\ m <= j => Upto(i)[m] = Upto(j)[m]}
  <2>1. 0 \in U
    BY <1>4 DEF Iterates
  <2>2. ASSUME NEW m \in U PROVE m + 1 \in U
    <3>1. ASSUME NEW i \in Nat, NEW j \in Nat, m + 1 <= i, m + 1 <= j
          PROVE  Upto(i)[m + 1] = Upto(j)[m + 1]
      <4>1. m + 1 \in 1..i /\ m + 1 \in 1..j /\ (m + 1) - 1 = m /\ m <= i /\ m <= j
        BY <3>1
      <4>2. Upto(i)[m + 1] = step[<<m + 1, Upto(i)[m]>>] /\ Upto(j)[m + 1] = step[<<m + 1, Upto(j)[m]>>]
        BY <1>4, <4>1 DEF Iterates
      <4>3. Upto(i)[m] = Upto(j)[m]
        BY <2>2, <4>1
      <4> QED
        BY <4>2, <4>3
    <3> QED
      BY <3>1
  <2>3. U = Nat
    <3>1. U \in SUBSET Nat
      OBVIOUS
    <3> HIDE DEF U
    <3> QED
      BY <2>1, <2>2, <3>1, AllNumbers
  <2> QED
    BY <1>5, <2>3
<1>6. F \in [Nat -> S]
  <2>1. ASSUME NEW k \in Nat PROVE Upto(k)[k] \in S
    <3>1. k \in 0..k
      OBVIOUS
    <3> QED
      BY <1>4, <3>1
  <2> QED
    BY <2>1
<1>7. F[0] = start
  BY <1>4 DEF Iterates
<1>8. ASSUME NEW n \in Nat \ {0} PROVE F[n] = step[<<n, F[n - 1]>>]
  <2>1. n \in 1..n /\ n - 1 \in Nat /\ n - 1 <= n
    OBVIOUS
  <2>2. Upto(n)[n] = step[<<n, Upto(n)[n - 1]>>]
    BY <1>4, <2>1 DEF Iterates
  <2>3. Upto(n)[n - 1] = F[n - 1] /\ Upto(n)[n] = F[n]
    BY <1>5, <2>1
  <2> QED
    BY <2>2, <2>3
<1> HIDE DEF F
<1>9. Iterated(F, step, start)
  BY <1>7, <1>8 DEF Iterated
<1> QED
  BY <1>6, <1>9
=============================================================================
