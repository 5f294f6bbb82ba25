--------------------------- MODULE LuciPageProofs ---------------------------
(***************************************************************************)
(* Proofs about a page and what it shows.                                  *)
(*                                                                         *)
(* The page polls: for any functions, intervals and bounds, shared batches *)
(* lose, swap and invent no call and no answer (LuciTraffic's              *)
(* CallsAnswered), and the loop waits for exactly the calls that are under *)
(* way (LoopKept).                                                         *)
(*                                                                         *)
(* The parts of LuciPages: dismissing a form's dialog takes back what it   *)
(* did, the file picker shows what is on the router, and no network of the *)
(* wireless page comes on or goes off behind the user's back.              *)
(***************************************************************************)
EXTENDS LuciPages, LuciTraffic, FiniteSetTheorems, SequenceTheorems, WellFoundedInduction, TLAPS

-----------------------------------------------------------------------------
(* Subsequences                                                            *)

(* The positions of a sequence that are chosen are counted without a gap:  *)
(* each has a rank, and each rank a position.                              *)
LEMMA Ranked ==
  ASSUME NEW n \in Nat, NEW I \in SUBSET (1..n)
  PROVE  /\ Cardinality(I) \in Nat
         /\ \A i \in I : Rank(I, i) \in 1..Cardinality(I)
         /\ \A i, j \in I : Rank(I, i) = Rank(I, j) => i = j
         /\ \A k \in 1..Cardinality(I) : Nth(I, k) \in I /\ Rank(I, Nth(I, k)) = k
<1>. DEFINE UpTo(i) == {j \in I : j <= i}
            N == Cardinality(I)
            rank == [i \in I |-> Rank(I, i)]
<1>1. IsFiniteSet(I) /\ N \in Nat /\ I \subseteq Int
  <2>1. IsFiniteSet(1..n)
    BY FS_Interval
  <2>2. IsFiniteSet(I)
    BY <2>1, FS_Subset
  <2>3. N \in Nat
    BY <2>2, FS_CardinalityType
  <2> QED
    BY <2>2, <2>3
<1>2. ASSUME NEW i \in I
      PROVE  IsFiniteSet(UpTo(i)) /\ Rank(I, i) \in 1..N
  <2>1. IsFiniteSet(UpTo(i)) /\ Rank(I, i) \in Nat /\ Rank(I, i) <= N
    BY <1>1, FS_Subset, FS_CardinalityType DEF Rank
  <2>2. i \in UpTo(i)
    OBVIOUS
  <2>3. Rank(I, i) # 0
    BY <2>1, <2>2, FS_EmptySet DEF Rank
  <2> QED
    BY <1>1, <2>1, <2>3
<1>3. ASSUME NEW i \in I, NEW j \in I, i < j
      PROVE  Rank(I, i) < Rank(I, j)
  <2>1. UpTo(i) \subseteq UpTo(j) /\ UpTo(i) # UpTo(j)
    <3>1. i \in Int /\ j \in Int
      BY <1>1
    <3>2. j \in UpTo(j)
      BY <3>1
    <3>3. j \notin UpTo(i)
      BY <1>3, <3>1
    <3>4. ASSUME NEW l \in UpTo(i) PROVE l \in UpTo(j)
      BY <1>1, <1>3, <3>1
    <3> QED
      BY <3>2, <3>3, <3>4
  <2>2. Cardinality(UpTo(i)) < Cardinality(UpTo(j))
    BY <1>2, <2>1, FS_Subset, FS_CardinalityType
  <2> QED
    BY <2>2 DEF Rank
<1>4. \A i, j \in I : Rank(I, i) = Rank(I, j) => i = j
  <2> SUFFICES ASSUME NEW i \in I, NEW j \in I, i # j
               PROVE  Rank(I, i) # Rank(I, j)
    OBVIOUS
  <2>1. i < j \/ j < i
    BY <1>1
  <2>2. Rank(I, i) \in Int /\ Rank(I, j) \in Int
    <3>1. Rank(I, i) \in 1..N /\ Rank(I, j) \in 1..N
      BY <1>2
    <3> QED
      BY <3>1
  <2>3. CASE i < j
    BY <1>3, <2>2, <2>3
  <2>4. CASE j < i
    BY <1>3, <2>2, <2>4
  <2> QED
    BY <2>1, <2>3, <2>4
<1>5. rank \in Injection(I, 1..N)
  BY <1>2, <1>4 DEF Injection, IsInjective
<1>6. rank \in Surjection(I, 1..N)
  BY <1>1, <1>5, FS_Injection, FS_Interval
<1>7. ASSUME NEW k \in 1..N
      PROVE  Nth(I, k) \in I /\ Rank(I, Nth(I, k)) = k
  <2>1. PICK i \in I : rank[i] = k
    BY <1>6 DEF Surjection
  <2> QED
    BY <2>1 DEF Nth
<1> QED
  BY <1>1, <1>2, <1>4, <1>7

(* No element of a sequence occurs twice.                                  *)
Distinct(s) == \A i, j \in 1..Len(s) : s[i] = s[j] => i = j

(* A subsequence has the elements that are chosen and no others, and none  *)
(* of them twice.                                                          *)
LEMMA PickedElements ==
  ASSUME NEW S, NEW s \in Seq(S), NEW I \in SUBSET (1..Len(s))
  PROVE  /\ Picked(s, I) \in Seq(S)
         /\ \A e : Contains(Picked(s, I), e) <=> \E i \in I : s[i] = e
         /\ Distinct(s) => Distinct(Picked(s, I))
<1>. DEFINE p == Picked(s, I)
            N == Cardinality(I)
<1>1. /\ N \in Nat
      /\ \A i \in I : Rank(I, i) \in 1..N
      /\ \A i, j \in I : Rank(I, i) = Rank(I, j) => i = j
      /\ \A k \in 1..N : Nth(I, k) \in I /\ Rank(I, Nth(I, k)) = k
  <2>1. Len(s) \in Nat
    OBVIOUS
  <2> QED
    BY <2>1, Ranked
<1>2. p = [k \in 1..N |-> s[Nth(I, k)]]
  BY DEF Picked
<1>3. p \in Seq(S) /\ Len(p) = N
  <2>1. ASSUME NEW k \in 1..N
        PROVE  s[Nth(I, k)] \in S
    <3>1. Nth(I, k) \in 1..Len(s)
      BY <1>1
    <3> QED
      BY <3>1
  <2> HIDE DEF p
  <2> QED
    BY <1>1, <1>2, <2>1
<1>4. ASSUME NEW k \in 1..N
      PROVE  p[k] = s[Nth(I, k)] /\ Nth(I, k) \in I
  BY <1>1, <1>2
<1>5. ASSUME NEW e
      PROVE  Contains(p, e) <=> \E i \in I : s[i] = e
  <2>1. ASSUME NEW k \in 1..N, p[k] = e
        PROVE  \E i \in I : s[i] = e
    <3>1. p[k] = s[Nth(I, k)] /\ Nth(I, k) \in I
      BY <1>4
    <3> QED
      BY <2>1, <3>1
  <2>2. ASSUME NEW i \in I, s[i] = e
        PROVE  p[Rank(I, i)] = e /\ Rank(I, i) \in 1..N
    BY <1>1, <1>4, <2>2
  <2> QED
    BY <1>3, <2>1, <2>2 DEF Contains
<1>6. ASSUME Distinct(s), NEW k \in 1..N, NEW l \in 1..N, p[k] = p[l]
      PROVE  k = l
  <2>1. Nth(I, k) = Nth(I, l)
    BY <1>4, <1>6 DEF Distinct
  <2> QED
    BY <1>1, <2>1
<1> QED
  BY <1>3, <1>5, <1>6 DEF Distinct

(* Appending adds the element and no other.                                *)
LEMMA AppendElements ==
  ASSUME NEW S, NEW s \in Seq(S), NEW x \in S
  PROVE  /\ Append(s, x) \in Seq(S)
         /\ \A e : Contains(Append(s, x), e) <=> Contains(s, e) \/ e = x
BY DEF Contains

(* Two sequences that share nothing join into one that has the elements of *)
(* both, none of them twice.                                               *)
LEMMA ConcatElements ==
  ASSUME NEW S, NEW s \in Seq(S), NEW t \in Seq(S)
  PROVE  /\ s \o t \in Seq(S)
         /\ \A e : Contains(s \o t, e) <=> Contains(s, e) \/ Contains(t, e)
         /\ Distinct(s) /\ Distinct(t) /\ (\A e : ~(Contains(s, e) /\ Contains(t, e)))
              => Distinct(s \o t)
<1>1. /\ s \o t \in Seq(S) /\ Len(s \o t) = Len(s) + Len(t)
      /\ \A i \in 1..Len(s) : (s \o t)[i] = s[i]
      /\ \A i \in 1..Len(t) : (s \o t)[Len(s) + i] = t[i]
  OBVIOUS
<1>2. ASSUME NEW i \in 1..(Len(s) + Len(t)), i \notin 1..Len(s)
      PROVE  i - Len(s) \in 1..Len(t) /\ (s \o t)[i] = t[i - Len(s)]
  BY <1>2
<1>3. ASSUME NEW e
      PROVE  Contains(s \o t, e) <=> Contains(s, e) \/ Contains(t, e)
  <2>1. ASSUME NEW i \in 1..Len(s \o t), (s \o t)[i] = e
        PROVE  Contains(s, e) \/ Contains(t, e)
    BY <1>1, <1>2, <2>1 DEF Contains
  <2>2. ASSUME NEW i \in 1..Len(t), t[i] = e
        PROVE  Contains(s \o t, e)
    <3>1. Len(s) + i \in 1..Len(s \o t)
      BY <1>1
    <3> QED
      BY <1>1, <2>2, <3>1 DEF Contains
  <2>3. ASSUME NEW i \in 1..Len(s), s[i] = e
        PROVE  Contains(s \o t, e)
    BY <1>1, <2>3 DEF Contains
  <2> QED
    BY <2>1, <2>2, <2>3 DEF Contains
<1>4. ASSUME Distinct(s), Distinct(t), \A e : ~(Contains(s, e) /\ Contains(t, e)),
             NEW i \in 1..(Len(s) + Len(t)), NEW j \in 1..(Len(s) + Len(t)),
             (s \o t)[i] = (s \o t)[j]
      PROVE  i = j
  <2>1. CASE i \in 1..Len(s) /\ j \in 1..Len(s)
    BY <1>1, <1>4, <2>1 DEF Distinct
  <2>2. CASE i \notin 1..Len(s) /\ j \notin 1..Len(s)
    <3>1. i - Len(s) = j - Len(s)
      BY <1>2, <1>4, <2>2 DEF Distinct
    <3> QED
      BY <3>1
  <2>3. CASE i \in 1..Len(s) /\ j \notin 1..Len(s)
    <3>1. s[i] = t[j - Len(s)] /\ j - Len(s) \in 1..Len(t)
      BY <1>1, <1>2, <1>4, <2>3
    <3>2. Contains(s, s[i]) /\ Contains(t, s[i])
      BY <2>3, <3>1 DEF Contains
    <3> QED
      BY <1>4, <3>2
  <2>4. CASE i \notin 1..Len(s) /\ j \in 1..Len(s)
    <3>1. s[j] = t[i - Len(s)] /\ i - Len(s) \in 1..Len(t)
      BY <1>1, <1>2, <1>4, <2>4
    <3>2. Contains(s, s[j]) /\ Contains(t, s[j])
      BY <2>4, <3>1 DEF Contains
    <3> QED
      BY <1>4, <3>2
  <2> QED
    BY <2>1, <2>2, <2>3, <2>4
<1> QED
  BY <1>1, <1>3, <1>4 DEF Distinct

(* The first elements of a sequence in which none occurs twice do not have *)
(* the one that follows them.                                              *)
LEMMA PrefixElements ==
  ASSUME NEW S, NEW s \in Seq(S), NEW n \in 0..Len(s)
  PROVE  /\ SubSeq(s, 1, n) \in Seq(S) /\ Len(SubSeq(s, 1, n)) = n
         /\ \A i \in 1..n : SubSeq(s, 1, n)[i] = s[i]
         /\ \A e : Contains(SubSeq(s, 1, n), e) => Contains(s, e)
         /\ Distinct(s) => /\ Distinct(SubSeq(s, 1, n))
                           /\ n < Len(s) => ~Contains(SubSeq(s, 1, n), s[n + 1])
<1>1. /\ SubSeq(s, 1, n) \in Seq(S) /\ Len(SubSeq(s, 1, n)) = n
      /\ \A i \in 1..n : SubSeq(s, 1, n)[i] = s[i]
  OBVIOUS
<1>2. PICK t : t = SubSeq(s, 1, n)
  OBVIOUS
<1>3. ASSUME NEW e, Contains(t, e)
      PROVE  Contains(s, e)
  <2>1. PICK i \in 1..n : t[i] = e
    BY <1>1, <1>2, <1>3 DEF Contains
  <2>2. i \in 1..Len(s) /\ s[i] = e
    BY <1>1, <1>2, <2>1
  <2> QED
    BY <2>2 DEF Contains
<1>4. ASSUME Distinct(s)
      PROVE  Distinct(t)
  <2>1. \A i, j \in 1..n : s[i] = s[j] => i = j
    BY <1>4 DEF Distinct
  <2> QED
    BY <1>1, <1>2, <2>1 DEF Distinct
<1>5. ASSUME Distinct(s), n < Len(s), Contains(t, s[n + 1])
      PROVE  FALSE
  <2>1. PICK i \in 1..n : t[i] = s[n + 1]
    BY <1>1, <1>2, <1>5 DEF Contains
  <2>2. i \in 1..Len(s) /\ n + 1 \in 1..Len(s) /\ s[i] = s[n + 1] /\ i # n + 1
    BY <1>1, <1>2, <1>5, <2>1
  <2> QED
    BY <1>5, <2>2 DEF Distinct
<1> QED
  BY <1>1, <1>2, <1>3, <1>4, <1>5

(* The subsequence at the first positions is the beginning.                *)
LEMMA PickedPrefix ==
  ASSUME NEW k \in Nat, NEW s
  PROVE  Picked(s, 1..k) = [i \in 1..k |-> s[i]]
<1>1. ASSUME NEW i \in 1..k PROVE Rank(1..k, i) = i
  <2>1. {j \in 1..k : j <= i} = 1..i
    OBVIOUS
  <2>2. Cardinality(1..i) = i
    BY FS_Interval
  <2> QED
    BY <2>1, <2>2 DEF Rank
<1>2. ASSUME NEW i \in 1..k PROVE Nth(1..k, i) = i
  BY <1>1 DEF Nth
<1>3. Cardinality(1..k) = k
  BY FS_Interval
<1> QED
  BY <1>2, <1>3 DEF Picked

(* Inserting an element adds it and no other.                              *)
LEMMA ElementIn ==
  ASSUME NEW S, NEW s \in Seq(S), NEW p \in 1..(Len(s) + 1), NEW e \in S
  PROVE  LET t == InsertAt(s, p, e)
         IN /\ t \in Seq(S)
            /\ \A x : Contains(t, x) <=> Contains(s, x) \/ x = e
<1>0. PICK t : t = InsertAt(s, p, e)
  OBVIOUS
<1>1. PICK a, b, c : /\ a = SubSeq(s, 1, p - 1) /\ b = SubSeq(s, p, Len(s))
                     /\ c = a \o <<e>>
  OBVIOUS
<1>2. /\ a \in Seq(S) /\ Len(a) = p - 1
      /\ \A i \in 1..(p - 1) : a[i] = s[i]
  <2>1. \A i \in 1..(p - 1) : s[i] \in S /\ 1 + i - 1 = i
    OBVIOUS
  <2> QED
    BY <1>1, <2>1, SubSeqProperties
<1>3. /\ b \in Seq(S) /\ Len(b) = Len(s) - p + 1
      /\ \A i \in 1..(Len(s) - p + 1) : b[i] = s[p + i - 1]
  <2>1. \A i \in p..Len(s) : s[i] \in S
    OBVIOUS
  <2> QED
    BY <1>1, <2>1, SubSeqProperties
<1>4. <<e>> \in Seq(S) /\ Len(<<e>>) = 1 /\ <<e>>[1] = e
  OBVIOUS
<1>5. c \in Seq(S) /\ \A x : Contains(c, x) <=> Contains(a, x) \/ x = e
  <2>1. /\ c \in Seq(S) /\ Len(c) = Len(a) + 1
        /\ \A i \in 1..(Len(a) + 1) : c[i] = IF i <= Len(a) THEN a[i] ELSE <<e>>[i - Len(a)]
    BY <1>1, <1>2, <1>4, ConcatProperties
  <2>2. c[Len(a) + 1] = e /\ \A i \in 1..Len(a) : c[i] = a[i]
    BY <1>2, <1>4, <2>1
  <2> QED
    BY <1>2, <2>1, <2>2 DEF Contains
<1>6. t \in Seq(S) /\ \A x : Contains(t, x) <=> Contains(c, x) \/ Contains(b, x)
  <2>1. t = c \o b
    BY <1>0, <1>1 DEF InsertAt
  <2>2. /\ t \in Seq(S) /\ Len(t) = Len(c) + Len(b)
        /\ \A i \in 1..(Len(c) + Len(b)) : t[i] = IF i <= Len(c) THEN c[i] ELSE b[i - Len(c)]
    BY <1>3, <1>5, <2>1, ConcatProperties
  <2>3. PICK m, n \in Nat : m = Len(c) /\ n = Len(b)
    <3>1. Len(c) \in Nat /\ Len(b) \in Nat
      BY <1>3, <1>5, LenProperties
    <3> QED
      BY <3>1
  <2>4. Len(t) = m + n /\ \A i \in 1..(m + n) : t[i] = IF i <= m THEN c[i] ELSE b[i - m]
    BY <2>2, <2>3
  <2>5. ASSUME NEW x, NEW i \in 1..(m + n), t[i] = x
        PROVE  Contains(c, x) \/ Contains(b, x)
    <3>1. CASE i <= m
      BY <2>3, <2>4, <2>5, <3>1 DEF Contains
    <3>2. CASE i > m
      <4>1. i - m \in 1..n /\ b[i - m] = x
        BY <2>4, <2>5, <3>2
      <4> QED
        BY <2>3, <4>1 DEF Contains
    <3> QED
      BY <3>1, <3>2
  <2>6. ASSUME NEW x, NEW i \in 1..m, c[i] = x
        PROVE  Contains(t, x)
    <3>1. i \in 1..(m + n) /\ t[i] = x
      BY <2>4, <2>6
    <3> QED
      BY <2>4, <3>1 DEF Contains
  <2>7. ASSUME NEW x, NEW i \in 1..n, b[i] = x
        PROVE  Contains(t, x)
    <3>1. i + m \in 1..(m + n) /\ ~ (i + m <= m) /\ (i + m) - m = i
      OBVIOUS
    <3>2. t[i + m] = x
      BY <2>4, <2>7, <3>1
    <3> QED
      BY <2>4, <3>1, <3>2 DEF Contains
  <2> QED
    BY <2>2, <2>3, <2>4, <2>5, <2>6, <2>7 DEF Contains
<1>7. ASSUME NEW x PROVE Contains(s, x) <=> Contains(a, x) \/ Contains(b, x)
  <2>1. ASSUME NEW i \in 1..Len(s), s[i] = x
        PROVE  Contains(a, x) \/ Contains(b, x)
    <3>1. CASE i < p
      BY <1>2, <2>1, <3>1 DEF Contains
    <3>2. CASE i >= p
      <4>1. i - p + 1 \in 1..Len(b) /\ b[i - p + 1] = s[i]
        BY <1>3, <3>2
      <4> QED
        BY <2>1, <4>1 DEF Contains
    <3> QED
      BY <3>1, <3>2
  <2>2. ASSUME NEW i \in 1..Len(a), a[i] = x
        PROVE  Contains(s, x)
    <3>1. i \in 1..Len(s) /\ s[i] = x
      BY <1>2, <2>2
    <3> QED
      BY <3>1 DEF Contains
  <2>3. ASSUME NEW i \in 1..Len(b), b[i] = x
        PROVE  Contains(s, x)
    <3>1. p + i - 1 \in 1..Len(s) /\ s[p + i - 1] = x
      BY <1>3, <2>3
    <3> QED
      BY <3>1 DEF Contains
  <2> QED
    BY <2>1, <2>2, <2>3 DEF Contains
<1> QED
  BY <1>0, <1>5, <1>6, <1>7

(* The members of a finite set, in some order, each of them once.          *)
LEMMA SetListed ==
  ASSUME NEW S, IsFiniteSet(S)
  PROVE  /\ SetToSeq(S) \in Seq(S) /\ Distinct(SetToSeq(S))
         /\ \A x \in S : \E i \in 1..Len(SetToSeq(S)) : SetToSeq(S)[i] = x
<1>1. PICK n \in Nat : n = Cardinality(S) /\ ExistsBijection(1..n, S)
  BY FS_CardinalityType
<1>2. PICK f : f \in Bijection(1..n, S)
  BY <1>1 DEF ExistsBijection
<1>3. f \in [1..n -> S] /\ IsInjective(f)
  BY <1>2 DEF Bijection, Injection
<1>4. SetToSeq(S) \in [1..n -> S] /\ IsInjective(SetToSeq(S))
  BY <1>1, <1>3 DEF SetToSeq
<1>5. PICK s : s = SetToSeq(S)
  OBVIOUS
<1>6. s \in Seq(S) /\ Len(s) = n /\ s \in Injection(1..n, S)
  BY <1>4, <1>5 DEF Injection
<1>7. IsFiniteSet(1..n) /\ Cardinality(1..n) = n
  BY FS_Interval
<1>8. s \in Surjection(1..n, S)
  BY <1>1, <1>6, <1>7, FS_Injection
<1>9. Distinct(s)
  BY <1>6 DEF Distinct, Injection, IsInjective
<1>10. \A x \in S : \E i \in 1..n : s[i] = x
  BY <1>8 DEF Surjection
<1> QED
  BY <1>5, <1>6, <1>9, <1>10

-----------------------------------------------------------------------------
(* Numbers                                                                 *)

Less == {ss \in Nat \X Nat : ss[1] < ss[2]}

(* The natural numbers are well-founded.                                   *)
LEMMA LessWellFounded == IsWellFoundedOn(Less, Nat)
<1>1. Less = OpToRel(<, Nat)
  BY DEF OpToRel, Less
<1> QED  BY <1>1, NatLessThanWellFounded

(* A set of natural numbers has a least one.                               *)
LEMMA Least ==
  ASSUME NEW S \in SUBSET Nat, S # {}
  PROVE  \E m \in S : \A y \in S : m <= y
<1>1. PICK m \in S : \A y \in S : ~ (<<y, m>> \in Less)
  BY LessWellFounded, WFMin
<1>2. ASSUME NEW y \in S PROVE m <= y
  <2>1. <<y, m>> \in Nat \X Nat /\ <<y, m>>[1] = y /\ <<y, m>>[2] = m
    OBVIOUS
  <2>2. ~ (y < m)
    BY <1>1, <2>1 DEF Less
  <2> QED  BY <2>2
<1> QED  BY <1>2

(* What holds of the first element of a sequence and passes from each to   *)
(* the next holds of all.                                                  *)
LEMMA StepByStep ==
  ASSUME NEW A, NEW N \in Nat, NEW g, g[0] \in A,
         \A i \in 1..N : g[i - 1] \in A => g[i] \in A
  PROVE  \A i \in 0..N : g[i] \in A
<1> DEFINE Out == {i \in 0..N : g[i] \notin A}
<1> SUFFICES ASSUME Out # {} PROVE FALSE
  OBVIOUS
<1>1. PICK m \in Out : \A y \in Out : m <= y
  <2>1. Out \in SUBSET Nat
    OBVIOUS
  <2> HIDE DEF Out
  <2> QED  BY <2>1, Least
<1>2. m # 0
  OBVIOUS
<1>3. m \in 1..N /\ m - 1 \in 0..N /\ ~ (m <= m - 1)
  BY <1>2
<1>4. m - 1 \notin Out
  BY <1>1, <1>3
<1> QED  BY <1>3, <1>4

(* A function on the numbers up to N is defined by its first value and by  *)
(* how each value follows from the one before.                             *)
FollowsBy(h, A, b, n, F) ==
  /\ h \in [0..n -> A] /\ h[0] = b
  /\ \A i \in 1..n : h[i] = F[<<h[i - 1], i>>]

(* There is such a function, whatever step is given.                       *)
LEMMA Recursion ==
  ASSUME NEW A, NEW b \in A, NEW N \in Nat, NEW F \in [A \X (1..N) -> A]
  PROVE  \E h : FollowsBy(h, A, b, N, F)
<1> DEFINE Follows(h, n) == FollowsBy(h, A, b, n, F)
           Out == {n \in 0..N : ~ \E h : Follows(h, n)}
<1> USE DEF FollowsBy
<1>1. SUFFICES ASSUME Out # {} PROVE FALSE
  <2>1. CASE Out = {}
    <3>1. N \in 0..N
      OBVIOUS
    <3>2. PICK h : Follows(h, N)
      BY <2>1, <3>1
    <3> QED  BY <3>2
  <2> QED  BY <2>1
<1>2. PICK m \in Out : \A y \in Out : m <= y
  <2>1. Out \in SUBSET Nat
    OBVIOUS
  <2> HIDE DEF Out
  <2> QED  BY <1>1, <2>1, Least
<1>3. m # 0
  <2>1. Follows([i \in 0..0 |-> b], 0)
    OBVIOUS
  <2> QED  BY <2>1
<1>4. m \in 1..N /\ m - 1 \in 0..N /\ ~ (m <= m - 1)
  BY <1>3
<1>5. PICK h : Follows(h, m - 1)
  <2>1. m - 1 \notin Out
    BY <1>2, <1>4
  <2> QED  BY <1>4, <2>1
<1>6. PICK last \in A : last = F[<<h[m - 1], m>>]
  <2>1. h[m - 1] \in A
    BY <1>4, <1>5
  <2> QED  BY <1>4, <2>1
<1>7. PICK g : g = [i \in 0..m |-> IF i = m THEN last ELSE h[i]]
  OBVIOUS
<1>8. \A i \in 0..m : g[i] \in A
  BY <1>4, <1>5, <1>6, <1>7
<1>9. g[0] = b
  BY <1>4, <1>5, <1>7
<1>10. ASSUME NEW i \in 1..m PROVE g[i] = F[<<g[i - 1], i>>]
  <2>1. i - 1 \in 0..m /\ i - 1 # m /\ g[i - 1] = h[i - 1]
    BY <1>4, <1>7
  <2>2. CASE i = m
    BY <2>1, <2>2, <1>6, <1>7
  <2>3. CASE i # m
    <3>1. i \in 1..(m - 1) /\ g[i] = h[i]
      BY <1>4, <1>7, <2>3
    <3> QED  BY <1>5, <2>1, <3>1
  <2> QED  BY <2>2, <2>3
<1>11. Follows(g, m)
  BY <1>7, <1>8, <1>9, <1>10
<1> QED  BY <1>11

-----------------------------------------------------------------------------
(* The invariant                                                           *)

Reply == [of : Id, kind : {"ok", "denied"}]
Answer == [kind : {"none", "replies", "login"}, replies : Seq(Reply)]

(* An answer is in the order of the calls.  It is short only after a       *)
(* fault, and it refuses the check of a session, or asks for the login,    *)
(* only when the session has ended.                                        *)
RepliesFit(b, replies) ==
  /\ Len(replies) <= Len(b.calls)
  /\ Len(replies) < Len(b.calls) => faults > 0
  /\ \A i \in 1..Len(replies) :
       /\ replies[i].of = b.calls[i]
       /\ b.calls[i][2] = "check" /\ replies[i].kind # "ok" => ~session
AnswerFits(b) ==
  /\ b.answer.kind = "none" => b.answer = Unanswered
  /\ b.answer.kind = "login" => ~session
  /\ b.answer.kind = "replies" => RepliesFit(b, b.answer.replies)

BatchesFit ==
  \A b \in batches :
    b \in [calls : Seq(Id), answer : Answer] /\ Distinct(b.calls) /\ AnswerFits(b)

(* A call is where its status says, and nowhere else; the check made on    *)
(* behalf of a call is under way while the call waits for it.              *)
CallsPlaced ==
  /\ \A id \in Id : status[id] = "queued" <=> Contains(queue, id)
  /\ \A id \in Id : status[id] = "sent" <=> \E b \in batches : Contains(b.calls, id)
  /\ \A b, c \in batches : \A id \in Id :
       Contains(b.calls, id) /\ Contains(c.calls, id) => b = c
  /\ \A c \in Call : /\ status[Main(c)] = "checking" <=> status[Check(c)] # "idle"
                     /\ status[Check(c)] # "checking"

CallsInv ==
  /\ queue \in Seq(Id) /\ Distinct(queue)
  /\ status \in [Id -> {"idle", "queued", "sent", "checking"}]
  /\ BatchesFit /\ CallsPlaced
  /\ got \in [Call -> Id] /\ \A c \in Call : got[c] = Main(c)
  /\ session \in BOOLEAN /\ notice \in BOOLEAN /\ faults \in Nat
  /\ NoticeIsTrue

(* An entry is on the list once, or a pass would call it twice.            *)
ListInv ==
  entries \in Seq(Entry) /\ Distinct(entries) /\ gen \in [Fn -> Nat]

(* A loop that was paused has no tick, and one that runs has.              *)
TimerInv ==
  /\ timer \in BOOLEAN /\ paused \in BOOLEAN
  /\ tick \in {Unset} \cup (0..(Modulus - 1))
  /\ timer => tick # Unset
  /\ paused => ~timer /\ tick = Unset

(* An entry that threw has no call under way that would make it ready.     *)
ReadyInv ==
  /\ ready \in [Entry -> BOOLEAN] /\ threw \in SUBSET Entry
  /\ WaitsForCall
  /\ \A e \in threw : status[Main(e)] = "idle"

LoopInv == ListInv /\ TimerInv /\ ReadyInv

IInv == CallsInv /\ LoopInv

-----------------------------------------------------------------------------
(* The calls                                                               *)

(* Every request is the call of one entry, or the check made for it.       *)
LEMMA Ids ==
  /\ \A c \in Call : /\ Main(c) \in Id /\ Main(c)[1] = c /\ Main(c)[2] = "call"
                     /\ Check(c) \in Id /\ Check(c)[1] = c /\ Check(c)[2] = "check"
  /\ \A c, d \in Call : /\ Main(c) # Check(d)
                        /\ Main(c) = Main(d) => c = d
                        /\ Check(c) = Check(d) => c = d
  /\ \A id \in Id : \E c \in Call : id = Main(c) \/ id = Check(c)
BY DEF Id, Main, Check

(* A call that is queued was idle, so it is queued once.                   *)
LEMMA IssueKeeps ==
  ASSUME CallsInv, NEW called \in Seq(Call), Distinct(called), Issue(called)
  PROVE  /\ CallsInv'
         /\ \A c \in Call : /\ Contains(called, c) => status[Main(c)] = "idle"
                            /\ status'[Main(c)] = IF Contains(called, c) THEN "queued"
                                                  ELSE status[Main(c)]
<1>. DEFINE ids == [i \in 1..Len(called) |-> Main(called[i])]
<1>1. /\ ids \in Seq(Id) /\ Len(ids) = Len(called)
      /\ \A i \in 1..Len(called) : ids[i] = Main(called[i]) /\ called[i] \in Call
  BY Ids
<1>2. /\ queue' = queue \o ids
      /\ status' = [id \in Id |-> IF Contains(ids, id) THEN "queued" ELSE status[id]]
      /\ UNCHANGED <<batches, got, session, notice, faults>>
      /\ \A i \in 1..Len(called) : status[Main(called[i])] = "idle"
  <2>1. DOMAIN called = 1..Len(called)
    OBVIOUS
  <2> QED
    BY <2>1, Zenon DEF Issue, Queued
<1>. HIDE DEF ids
<1>3. Distinct(ids)
  BY <1>1, Ids DEF Distinct
<1>4. \A c \in Call : /\ Contains(ids, Main(c)) <=> Contains(called, c)
                      /\ ~Contains(ids, Check(c))
  BY <1>1, Ids DEF Contains
<1>5. \A id \in Id : Contains(ids, id) => status[id] = "idle"
  BY <1>1, <1>2 DEF Contains
<1>6. /\ queue' \in Seq(Id) /\ Distinct(queue')
      /\ \A id \in Id : Contains(queue', id) <=> Contains(queue, id) \/ Contains(ids, id)
  <2>1. \A id : Contains(queue, id) => id \in Id
    BY DEF CallsInv, Contains
  <2>2. \A id : ~(Contains(queue, id) /\ Contains(ids, id))
    BY <1>5, <2>1 DEF CallsInv, CallsPlaced
  <2> QED
    BY <1>1, <1>2, <1>3, <2>2, ConcatElements DEF CallsInv
<1>7. status' \in [Id -> {"idle", "queued", "sent", "checking"}]
  BY <1>2 DEF CallsInv
<1>8. CallsPlaced'
  <2>1. \A id \in Id : status'[id] = IF Contains(ids, id) THEN "queued" ELSE status[id]
    BY <1>2
  <2>2. \A id \in Id : status'[id] = "queued" <=> Contains(queue', id)
    BY <1>6, <2>1 DEF CallsInv, CallsPlaced
  <2>3. \A id \in Id : status'[id] = "sent" <=> status[id] = "sent"
    BY <1>5, <2>1
  <2>4. \A c \in Call : /\ status'[Main(c)] = "checking" <=> status[Main(c)] = "checking"
                        /\ status'[Check(c)] = status[Check(c)]
    BY <1>4, <1>5, <2>1, Ids
  <2> QED
    BY <1>2, <2>2, <2>3, <2>4, Ids DEF CallsInv, CallsPlaced
<1>9. BatchesFit'
  BY <1>2 DEF CallsInv, BatchesFit, AnswerFits, RepliesFit
<1> QED
  BY <1>2, <1>4, <1>5, <1>6, <1>7, <1>8, <1>9, Ids DEF CallsInv, NoticeIsTrue

(* The queue becomes a batch.                                              *)
LEMMA FlushKeeps ==
  ASSUME CallsInv, Flush
  PROVE  /\ CallsInv'
         /\ \A id \in Id : status'[id] = "idle" <=> status[id] = "idle"
<1>. DEFINE new == [calls |-> queue, answer |-> Unanswered]
<1>1. /\ batches' = batches \cup {new}
      /\ \A id \in Id : status'[id] = IF Contains(queue, id) THEN "sent" ELSE status[id]
      /\ status' \in [Id -> {"idle", "queued", "sent", "checking"}]
      /\ queue' = << >>
      /\ UNCHANGED <<got, session, notice, faults>>
  BY DEF Flush, CallsInv
<1>2. /\ new.calls = queue /\ new.answer = Unanswered
      /\ new \in [calls : Seq(Id), answer : Answer]
      /\ Unanswered.kind = "none"
  BY DEF CallsInv, Answer, Unanswered
<1>. HIDE DEF new
<1>3. queue' \in Seq(Id) /\ Distinct(queue') /\ \A id : ~Contains(queue', id)
  BY <1>1 DEF Distinct, Contains
<1>4. \A id \in Id : Contains(queue, id) => status[id] = "queued"
  BY DEF CallsInv, CallsPlaced
<1>5. CallsPlaced'
  <2>1. \A id \in Id : status'[id] # "queued"
    BY <1>1 DEF CallsInv, CallsPlaced
  <2>2. ASSUME NEW id \in Id
        PROVE  status'[id] = "sent" <=> \E b \in batches' : Contains(b.calls, id)
    BY <1>1, <1>2 DEF CallsInv, CallsPlaced
  <2>3. ASSUME NEW b \in batches', NEW c \in batches', NEW id \in Id,
               Contains(b.calls, id), Contains(c.calls, id)
        PROVE  b = c
    <3>1. CASE Contains(queue, id)
      <4>1. status[id] = "queued"
        BY <1>4, <3>1
      <4>2. \A d \in batches : ~Contains(d.calls, id)
        BY <4>1 DEF CallsInv, CallsPlaced
      <4> QED
        BY <1>1, <2>3, <4>2
    <3>2. CASE ~Contains(queue, id)
      <4>1. b \in batches /\ c \in batches
        BY <1>1, <1>2, <2>3, <3>2
      <4> QED
        BY <2>3, <4>1 DEF CallsInv, CallsPlaced
    <3> QED
      BY <3>1, <3>2
  <2>4. \A c \in Call : /\ status'[Main(c)] = "checking" <=> status[Main(c)] = "checking"
                        /\ status'[Check(c)] = "idle" <=> status[Check(c)] = "idle"
                        /\ status'[Check(c)] # "checking"
    BY <1>1, <1>4, Ids DEF CallsInv, CallsPlaced
  <2> QED
    BY <1>3, <2>1, <2>2, <2>3, <2>4 DEF CallsInv, CallsPlaced
<1>6. BatchesFit'
  <2>1. ASSUME NEW b \in batches'
        PROVE  b \in [calls : Seq(Id), answer : Answer] /\ Distinct(b.calls) /\ AnswerFits(b)'
    <3>1. CASE b \in batches
      BY <1>1, <3>1 DEF CallsInv, BatchesFit, AnswerFits, RepliesFit
    <3>2. CASE b = new
      BY <1>2, <3>2 DEF CallsInv, AnswerFits
    <3> QED
      BY <1>1, <3>1, <3>2
  <2> QED
    BY <2>1 DEF BatchesFit
<1> QED
  BY <1>1, <1>3, <1>4, <1>5, <1>6 DEF CallsInv, NoticeIsTrue

(* The session ends.                                                       *)
LEMMA ExpireKeeps ==
  ASSUME CallsInv, Expire
  PROVE  CallsInv' /\ UNCHANGED status
<1>1. session' = FALSE /\ UNCHANGED <<queue, batches, status, got, notice, faults>>
  BY DEF Expire
<1>2. BatchesFit'
  BY <1>1 DEF CallsInv, BatchesFit, AnswerFits, RepliesFit
<1> QED
  BY <1>1, <1>2 DEF CallsInv, CallsPlaced, NoticeIsTrue

(* The server answers a batch: the batch is still there, with an answer    *)
(* that fits.                                                              *)
LEMMA AnsweredKeeps ==
  ASSUME CallsInv, NEW b \in batches, NEW a \in Answer,
         batches' = (batches \ {b}) \cup {[b EXCEPT !.answer = a]},
         AnswerFits([b EXCEPT !.answer = a])',
         faults' \in Nat, faults' >= faults,
         UNCHANGED <<queue, status, got, session, notice>>
  PROVE  CallsInv'
<1>. DEFINE new == [b EXCEPT !.answer = a]
<1>1. b \in [calls : Seq(Id), answer : Answer] /\ Distinct(b.calls)
  BY DEF CallsInv, BatchesFit
<1>2. new \in [calls : Seq(Id), answer : Answer] /\ new.calls = b.calls
  BY <1>1
<1>3. batches' = (batches \ {b}) \cup {new} /\ AnswerFits(new)'
  OBVIOUS
<1>. HIDE DEF new
<1>4. BatchesFit'
  <2>1. ASSUME NEW c \in batches'
        PROVE  c \in [calls : Seq(Id), answer : Answer] /\ Distinct(c.calls) /\ AnswerFits(c)'
    <3>1. CASE c = new
      BY <1>1, <1>2, <1>3, <3>1
    <3>2. CASE c # new
      <4>1. c \in batches
        BY <1>3, <3>2
      <4>2. c \in [calls : Seq(Id), answer : Answer] /\ Distinct(c.calls) /\ AnswerFits(c)
        BY <4>1 DEF CallsInv, BatchesFit
      <4>3. AnswerFits(c)'
        <5>1. faults > 0 => faults' > 0
          BY DEF CallsInv
        <5> QED
          BY <4>2, <5>1 DEF AnswerFits, RepliesFit
      <4> QED
        BY <4>2, <4>3
    <3> QED
      BY <3>1, <3>2
  <2> QED
    BY <2>1 DEF BatchesFit
<1>5. CallsPlaced'
  <2>1. \A id \in Id : (\E c \in batches' : Contains(c.calls, id))
                         <=> (\E c \in batches : Contains(c.calls, id))
    BY <1>2, <1>3
  <2>2. ASSUME NEW c \in batches', NEW d \in batches', NEW id \in Id,
               Contains(c.calls, id), Contains(d.calls, id)
        PROVE  c = d
    <3>1. \E x \in batches : x.calls = c.calls /\ (x = b <=> c = new) /\ (x # b => x = c)
      BY <1>2, <1>3, <2>2 DEF CallsInv, CallsPlaced
    <3>2. \E x \in batches : x.calls = d.calls /\ (x = b <=> d = new) /\ (x # b => x = d)
      BY <1>2, <1>3, <2>2 DEF CallsInv, CallsPlaced
    <3> QED
      BY <2>2, <3>1, <3>2 DEF CallsInv, CallsPlaced
  <2> QED
    BY <2>1, <2>2 DEF CallsInv, CallsPlaced
<1>6. NoticeIsTrue'
  BY DEF CallsInv, NoticeIsTrue
<1> QED
  BY <1>4, <1>5, <1>6 DEF CallsInv

(* The server answers a call at its position, and refuses the check of a   *)
(* session only if the session has ended.                                  *)
LEMMA RepliesType ==
  ASSUME NEW calls \in Seq(Id), NEW refused \in SUBSET (1..Len(calls))
  PROVE  /\ Replies(calls, refused) \in Seq(Reply)
         /\ Len(Replies(calls, refused)) = Len(calls)
         /\ \A i \in 1..Len(calls) :
              /\ Replies(calls, refused)[i].of = calls[i]
              /\ Replies(calls, refused)[i].kind # "ok" => ~session \/ i \in refused
<1>. DEFINE r == Replies(calls, refused)
<1>1. DOMAIN calls = 1..Len(calls) /\ Len(calls) \in Nat
  OBVIOUS
<1>2. r = [i \in 1..Len(calls) |->
            [of |-> calls[i], kind |-> IF ~session \/ i \in refused THEN "denied" ELSE "ok"]]
  BY <1>1 DEF Replies
<1>. HIDE DEF r
<1>3. ASSUME NEW i \in 1..Len(calls)
      PROVE  /\ r[i] \in Reply /\ r[i].of = calls[i]
             /\ r[i].kind # "ok" => ~session \/ i \in refused
  BY <1>2 DEF Reply
<1>4. r \in Seq(Reply) /\ Len(r) = Len(calls)
  <2>1. r \in [1..Len(calls) -> Reply]
    BY <1>2, <1>3
  <2>2. Len(r) = Len(calls)
    BY <1>1, <1>2
  <2>3. r \in Seq(Reply)
    BY <1>1, <2>1
  <2> QED
    BY <2>2, <2>3
<1> QED
  BY <1>3, <1>4 DEF r

(* A batch that is answered in full, or with the page for the login.       *)
LEMMA ServeKeeps ==
  ASSUME CallsInv, NEW b \in batches, Serve(b)
  PROVE  CallsInv' /\ UNCHANGED status
<1>1. b.calls \in Seq(Id) /\ DOMAIN b.calls = 1..Len(b.calls)
      /\ b \in [calls : Seq(Id), answer : Answer]
  BY DEF CallsInv, BatchesFit
<1>2. UNCHANGED <<queue, status, got, session, notice, faults>>
  BY DEF Serve
<1>3. CASE \E refused \in {{}} \cup {{i} : i \in {j \in DOMAIN b.calls : b.calls[j][2] = "call"}} :
             batches' = (batches \ {b}) \cup {[b EXCEPT !.answer =
                          [kind |-> "replies", replies |-> Replies(b.calls, refused)]]}
  <2>1. PICK refused \in {{}} \cup {{i} : i \in {j \in DOMAIN b.calls : b.calls[j][2] = "call"}} :
          batches' = (batches \ {b}) \cup {[b EXCEPT !.answer =
                       [kind |-> "replies", replies |-> Replies(b.calls, refused)]]}
    BY <1>3
  <2>2. refused \in SUBSET (1..Len(b.calls)) /\ \A i \in refused : b.calls[i][2] = "call"
    BY <1>1, <2>1
  <2>3. PICK replies \in Seq(Reply) :
          /\ replies = Replies(b.calls, refused) /\ Len(replies) = Len(b.calls)
          /\ \A i \in 1..Len(b.calls) : /\ replies[i].of = b.calls[i]
                                        /\ replies[i].kind # "ok" => ~session \/ i \in refused
    <3>. DEFINE r == Replies(b.calls, refused)
    <3>1. /\ r \in Seq(Reply) /\ Len(r) = Len(b.calls)
          /\ \A i \in 1..Len(b.calls) : /\ r[i].of = b.calls[i]
                                        /\ r[i].kind # "ok" => ~session \/ i \in refused
      BY <1>1, <2>2, RepliesType
    <3>. HIDE DEF r
    <3> QED
      BY <3>1 DEF r
  <2>. DEFINE a == [kind |-> "replies", replies |-> replies]
              new == [b EXCEPT !.answer = a]
  <2>4. batches' = (batches \ {b}) \cup {new}
    BY <2>1, <2>3
  <2>5. a \in Answer /\ a.kind = "replies" /\ a.replies = replies
    BY <2>3 DEF Answer
  <2>. HIDE DEF a
  <2>6. new.answer = a /\ new.calls = b.calls
    BY <1>1
  <2>7. AnswerFits(new)'
    <3>. HIDE DEF new
    <3>1. session' = session /\ faults' = faults
      BY <1>2
    <3>2. Len(b.calls) \in Nat
      BY <1>1
    <3>3. \A i \in 1..Len(b.calls) : b.calls[i][2] = "check" /\ replies[i].kind # "ok" => ~session'
      BY <2>2, <2>3, <3>1
    <3>4. /\ Len(replies) <= Len(new.calls)
          /\ ~(Len(replies) < Len(new.calls))
          /\ \A i \in 1..Len(replies) :
               /\ replies[i].of = new.calls[i]
               /\ new.calls[i][2] = "check" /\ replies[i].kind # "ok" => ~session'
      BY <2>3, <2>6, <3>2, <3>3
    <3> QED
      BY <2>5, <2>6, <3>4 DEF AnswerFits, RepliesFit
  <2>8. faults' \in Nat /\ faults' >= faults
    BY <1>2 DEF CallsInv
  <2> QED
    BY <1>2, <2>4, <2>5, <2>7, <2>8, AnsweredKeeps
<1>4. CASE /\ ~session
           /\ batches' = (batches \ {b}) \cup
                {[b EXCEPT !.answer = [kind |-> "login", replies |-> << >>]]}
  <2>. DEFINE a == [kind |-> "login", replies |-> << >>]
              new == [b EXCEPT !.answer = a]
  <2>1. a \in Answer /\ a.kind = "login"
    BY DEF Answer
  <2>2. batches' = (batches \ {b}) \cup {new}
    BY <1>4
  <2>. HIDE DEF a
  <2>3. new.answer = a
    BY <1>1
  <2>4. AnswerFits(new)'
    BY <1>2, <1>4, <2>1, <2>3 DEF AnswerFits
  <2>5. faults' \in Nat /\ faults' >= faults
    BY <1>2 DEF CallsInv
  <2> QED
    BY <1>2, <2>1, <2>2, <2>4, <2>5, AnsweredKeeps
<1> QED
  BY <1>2, <1>3, <1>4 DEF Serve

(* A batch whose answer ends early: that is a fault, which is counted.     *)
LEMMA ServeBadlyKeeps ==
  ASSUME CallsInv, NEW b \in batches, ServeBadly(b)
  PROVE  CallsInv' /\ UNCHANGED status
<1>1. b.calls \in Seq(Id) /\ Len(b.calls) \in Nat /\ b \in [calls : Seq(Id), answer : Answer]
  BY DEF CallsInv, BatchesFit
<1>2. PICK full \in Seq(Reply) :
      /\ full = Replies(b.calls, {}) /\ Len(full) = Len(b.calls)
      /\ \A i \in 1..Len(b.calls) : /\ full[i].of = b.calls[i]
                                    /\ full[i].kind # "ok" => ~session
  <2>. DEFINE r == Replies(b.calls, {})
  <2>1. /\ r \in Seq(Reply) /\ Len(r) = Len(b.calls)
        /\ \A i \in 1..Len(b.calls) : r[i].of = b.calls[i] /\ (r[i].kind # "ok" => ~session)
    BY <1>1, RepliesType
  <2>. HIDE DEF r
  <2> QED
    BY <2>1 DEF r
<1>3. PICK n \in 0..(Len(b.calls) - 1) :
        batches' = (batches \ {b}) \cup {[b EXCEPT !.answer =
                     [kind |-> "replies", replies |-> SubSeq(full, 1, n)]]}
  BY <1>2 DEF ServeBadly
<1>4. faults' = faults + 1 /\ UNCHANGED <<queue, status, got, session, notice>>
  BY DEF ServeBadly
<1>. DEFINE short == SubSeq(full, 1, n)
            a == [kind |-> "replies", replies |-> short]
            new == [b EXCEPT !.answer = a]
<1>5. /\ short \in Seq(Reply) /\ Len(short) = n
      /\ \A i \in 1..n : short[i] = full[i]
  <2>1. n \in 0..Len(full)
    BY <1>1, <1>2
  <2> QED
    BY <1>2, <2>1, PrefixElements
<1>6. batches' = (batches \ {b}) \cup {new}
  BY <1>3
<1>. HIDE DEF short
<1>7. a \in Answer /\ a.kind = "replies" /\ a.replies = short
  BY <1>5 DEF Answer
<1>. HIDE DEF a
<1>8. new.answer = a /\ new.calls = b.calls
  BY <1>1
<1>. HIDE DEF new
<1>9. AnswerFits(new)'
  <2>1. faults' > 0
    BY <1>4 DEF CallsInv
  <2>2. n <= Len(b.calls) /\ \A i \in 1..n : i \in 1..Len(b.calls)
    BY <1>1
  <2>3. session' = session
    BY <1>4
  <2>4. \A i \in 1..n : short[i].of = new.calls[i] /\ (short[i].kind # "ok" => ~session')
    BY <1>2, <1>5, <1>8, <2>2, <2>3
  <2> QED
    BY <1>5, <1>7, <1>8, <2>1, <2>2, <2>4 DEF AnswerFits, RepliesFit
<1>10. faults' \in Nat /\ faults' >= faults
  BY <1>4 DEF CallsInv
<1> QED
  BY <1>4, <1>6, <1>7, <1>9, <1>10, AnsweredKeeps DEF new

(* The session checks made for a batch: one for each call it refuses.      *)
LEMMA ChecksElements ==
  ASSUME NEW b, b.calls \in Seq(Id), Distinct(b.calls)
  PROVE  /\ Checks(b) \in Seq(Id) /\ Distinct(Checks(b))
         /\ \A id : Contains(Checks(b), id) <=> \E c \in Refused(b) : id = Check(c)
<1>. DEFINE I == {i \in DOMAIN b.calls : b.calls[i][2] = "call" /\ b.calls[i][1] \in Refused(b)}
            refused == Picked(b.calls, I)
            checks == [i \in 1..Len(refused) |-> Check(refused[i][1])]
<1>1. DOMAIN b.calls = 1..Len(b.calls) /\ Refused(b) \subseteq Call
  BY DEF Refused
<1>2. I \in SUBSET (1..Len(b.calls))
  BY <1>1
<1>3. /\ refused \in Seq(Id)
      /\ \A e : Contains(refused, e) <=> \E i \in I : b.calls[i] = e
      /\ Distinct(refused)
  <2>. HIDE DEF I
  <2> QED
    BY <1>2, PickedElements
<1>4. ASSUME NEW e
      PROVE  Contains(refused, e) <=> \E c \in Refused(b) : e = Main(c)
  <2>1. ASSUME NEW i \in I, b.calls[i] = e
        PROVE  \E c \in Refused(b) : e = Main(c)
    <3>1. b.calls[i] \in Id
      BY <1>1
    <3>2. e = Main(e[1])
      BY <2>1, <3>1 DEF Id, Main
    <3> QED
      BY <2>1, <3>2
  <2>2. ASSUME NEW c \in Refused(b), e = Main(c)
        PROVE  \E i \in I : b.calls[i] = e
    <3>1. PICK i \in DOMAIN b.calls : b.calls[i] = Main(c)
      BY DEF Refused
    <3> QED
      BY <2>2, <3>1 DEF Main
  <2> QED
    BY <1>3, <2>1, <2>2
<1>5. Checks(b) = checks
  <2>1. DOMAIN refused = 1..Len(refused)
    BY <1>3
  <2> QED
    BY <2>1 DEF Checks
<1>. HIDE DEF I, refused
<1>6. ASSUME NEW i \in 1..Len(refused)
      PROVE  \E c \in Refused(b) : refused[i] = Main(c) /\ checks[i] = Check(c)
  <2>1. Contains(refused, refused[i])
    BY DEF Contains
  <2>2. PICK c \in Refused(b) : refused[i] = Main(c)
    BY <1>4, <2>1
  <2>3. refused[i][1] = c
    BY <2>2 DEF Main
  <2> QED
    BY <2>2, <2>3
<1>7. checks \in Seq(Id) /\ Len(checks) = Len(refused)
  <2>1. checks \in [1..Len(refused) -> Id]
    BY <1>1, <1>6, Ids
  <2>2. Len(refused) \in Nat
    BY <1>3
  <2>3. checks \in Seq(Id)
    BY <2>1, <2>2
  <2>4. Len(checks) = Len(refused)
    BY <2>2
  <2> QED
    BY <2>3, <2>4
<1>8. Distinct(checks)
  <2> SUFFICES ASSUME NEW i \in 1..Len(refused), NEW j \in 1..Len(refused),
                      checks[i] = checks[j]
               PROVE  i = j
    BY <1>7 DEF Distinct
  <2>1. refused[i] = refused[j]
    <3>1. PICK c \in Refused(b) : refused[i] = Main(c) /\ checks[i] = Check(c)
      BY <1>6
    <3>2. PICK d \in Refused(b) : refused[j] = Main(d) /\ checks[j] = Check(d)
      BY <1>6
    <3>3. Check(c) = Check(d)
      BY <3>1, <3>2
    <3>4. c = d
      BY <1>1, <3>3, Ids
    <3> QED
      BY <3>1, <3>2, <3>4
  <2> QED
    BY <1>3, <2>1 DEF Distinct
<1>9. ASSUME NEW id
      PROVE  Contains(checks, id) <=> \E c \in Refused(b) : id = Check(c)
  <2>1. ASSUME NEW i \in 1..Len(refused), checks[i] = id
        PROVE  \E c \in Refused(b) : id = Check(c)
    BY <1>6, <2>1
  <2>2. ASSUME NEW c \in Refused(b), id = Check(c)
        PROVE  \E i \in 1..Len(refused) : checks[i] = id
    <3>1. Contains(refused, Main(c))
      BY <1>4
    <3>2. PICK i \in 1..Len(refused) : refused[i] = Main(c)
      BY <3>1 DEF Contains
    <3>3. PICK d \in Refused(b) : refused[i] = Main(d) /\ checks[i] = Check(d)
      BY <1>6
    <3>4. Main(c) = Main(d)
      BY <3>2, <3>3
    <3>5. c = d
      BY <1>1, <3>4, Ids
    <3> QED
      BY <2>2, <3>3, <3>5
  <2>. HIDE DEF checks
  <2> QED
    BY <1>7, <2>1, <2>2 DEF Contains
<1>. HIDE DEF checks
<1> QED
  BY <1>5, <1>7, <1>8, <1>9

(* The answers of a batch are handed out.  A refused call waits for its    *)
(* check; every other call of the batch has settled, and each call that    *)
(* was answered has the answer to itself.                                  *)
LEMMA DeliverKeeps ==
  ASSUME CallsInv, NEW b \in batches, Deliver(b)
  PROVE  /\ CallsInv'
         /\ \A c \in Call :
              /\ c \in Settles(b) => status[Main(c)] # "idle" /\ status'[Main(c)] = "idle"
              /\ c \notin Settles(b) => (status'[Main(c)] = "idle" <=> status[Main(c)] = "idle")
<1>. DEFINE calls == b.calls
            R == Refused(b)
            S == Settles(b)
            K == Checks(b)
<1>1. /\ b \in [calls : Seq(Id), answer : Answer] /\ calls \in Seq(Id) /\ Distinct(calls)
      /\ AnswerFits(b) /\ DOMAIN calls = 1..Len(calls)
  BY DEF CallsInv, BatchesFit
<1>2. K \in Seq(Id) /\ Distinct(K) /\ \A id : Contains(K, id) <=> \E c \in R : id = Check(c)
  BY <1>1, ChecksElements
<1>3. /\ b.answer # Unanswered
      /\ batches' = batches \ {b}
      /\ queue' = queue \o K
      /\ status' = [id \in Id |-> IF Contains(K, id) THEN "queued"
                                 ELSE IF id[1] \in S THEN "idle"
                                 ELSE IF Contains(calls, id) THEN "checking"
                                 ELSE status[id]]
      /\ notice' = (notice \/ Expires(b))
      /\ UNCHANGED <<session, faults>>
  BY DEF Deliver
<1>4. /\ R \subseteq Call /\ S \subseteq Call
      /\ \A c \in R : Contains(calls, Main(c))
      /\ \A c \in Call : c \in S <=> \/ Contains(calls, Check(c))
                                     \/ Contains(calls, Main(c)) /\ c \notin R
  <2>1. R \subseteq Call /\ S \subseteq Call
    BY DEF Refused, Settles
  <2>2. \A c \in R : Contains(calls, Main(c))
    BY <1>1 DEF Refused, Contains
  <2> QED
    BY <2>1, <2>2 DEF Settles
<1>5. ASSUME NEW id \in Id, Contains(calls, id)
      PROVE  status[id] = "sent" /\ ~\E d \in batches' : Contains(d.calls, id)
  BY <1>3, <1>5 DEF CallsInv, CallsPlaced
<1>6. ASSUME NEW id \in Id, ~Contains(calls, id)
      PROVE  (\E d \in batches : Contains(d.calls, id)) <=> \E d \in batches' : Contains(d.calls, id)
  BY <1>3, <1>6
<1>7. ASSUME NEW c \in Call
      PROVE  /\ status'[Main(c)] = IF c \in S THEN "idle"
                                   ELSE IF Contains(calls, Main(c)) THEN "checking"
                                   ELSE status[Main(c)]
             /\ status'[Check(c)] = IF c \in R THEN "queued"
                                    ELSE IF c \in S THEN "idle"
                                    ELSE IF Contains(calls, Check(c)) THEN "checking"
                                    ELSE status[Check(c)]
             /\ Contains(K, Check(c)) <=> c \in R
             /\ ~Contains(K, Main(c))
  <2>1. ~Contains(K, Main(c)) /\ (Contains(K, Check(c)) <=> c \in R)
    BY <1>2, <1>4, Ids
  <2>2. Main(c) \in Id /\ Check(c) \in Id /\ Main(c)[1] = c /\ Check(c)[1] = c
    BY Ids
  <2>. HIDE DEF R, S, K, calls
  <2> QED
    BY <1>3, <2>1, <2>2
<1>8. queue' \in Seq(Id) /\ \A id : Contains(queue', id) <=> Contains(queue, id) \/ Contains(K, id)
  <2>1. queue \in Seq(Id)
    BY DEF CallsInv
  <2> QED
    BY <1>2, <1>3, <2>1, ConcatElements
<1>. HIDE DEF R, S, K, calls
(* Where the two requests of a call are before and after.                  *)
<1>9. ASSUME NEW c \in Call
      PROVE  /\ c \in R => /\ c \notin S
                           /\ Contains(calls, Main(c)) /\ ~Contains(calls, Check(c))
                           /\ status[Main(c)] = "sent" /\ status[Check(c)] = "idle"
                           /\ status'[Main(c)] = "checking" /\ status'[Check(c)] = "queued"
             /\ c \in S => /\ c \notin R
                           /\ status[Main(c)] # "idle"
                           /\ status[Main(c)] = "sent" <=> Contains(calls, Main(c))
                           /\ status[Check(c)] = "sent" <=> Contains(calls, Check(c))
                           /\ status[Main(c)] # "queued" /\ status[Check(c)] # "queued"
                           /\ status'[Main(c)] = "idle" /\ status'[Check(c)] = "idle"
             /\ c \notin R /\ c \notin S =>
                  /\ ~Contains(calls, Main(c)) /\ ~Contains(calls, Check(c))
                  /\ status'[Main(c)] = status[Main(c)]
                  /\ status'[Check(c)] = status[Check(c)]
  <2>1. /\ Contains(calls, Main(c)) => status[Main(c)] = "sent"
        /\ Contains(calls, Check(c)) => status[Check(c)] = "sent"
    BY <1>5, Ids
  <2>2. /\ status[Main(c)] = "checking" <=> status[Check(c)] # "idle"
        /\ status[Check(c)] # "checking"
    BY DEF CallsInv, CallsPlaced
  <2>3. c \in R => Contains(calls, Main(c))
    BY <1>4
  <2>4. c \in S <=> \/ Contains(calls, Check(c))
                    \/ Contains(calls, Main(c)) /\ c \notin R
    BY <1>4
  <2> QED
    BY <1>7, <2>1, <2>2, <2>3, <2>4
<1>10. Distinct(queue')
  <2>1. ASSUME NEW id, Contains(queue, id), Contains(K, id)
        PROVE  FALSE
    <3>1. PICK c \in R : id = Check(c)
      BY <1>2, <2>1
    <3>2. status[Check(c)] = "idle"
      BY <1>4, <1>9, <3>1
    <3>3. status[Check(c)] = "queued"
      BY <1>4, <2>1, <3>1, Ids DEF CallsInv, CallsPlaced
    <3> QED
      BY <3>2, <3>3
  <2>2. queue \in Seq(Id) /\ Distinct(queue)
    BY DEF CallsInv
  <2> QED
    BY <1>2, <1>3, <2>1, <2>2, ConcatElements
<1>11. CallsPlaced'
  <2>1. ASSUME NEW c \in Call
        PROVE  /\ status'[Main(c)] = "queued" <=> Contains(queue', Main(c))
               /\ status'[Check(c)] = "queued" <=> Contains(queue', Check(c))
    <3>1. /\ status[Main(c)] = "queued" <=> Contains(queue, Main(c))
          /\ status[Check(c)] = "queued" <=> Contains(queue, Check(c))
      BY Ids DEF CallsInv, CallsPlaced
    <3>2. /\ Contains(queue', Main(c)) <=> Contains(queue, Main(c))
          /\ Contains(queue', Check(c)) <=> Contains(queue, Check(c)) \/ c \in R
      BY <1>7, <1>8
    <3> QED
      BY <1>9, <3>1, <3>2
  <2>2. ASSUME NEW c \in Call
        PROVE  /\ status'[Main(c)] = "sent" <=> \E d \in batches' : Contains(d.calls, Main(c))
               /\ status'[Check(c)] = "sent" <=> \E d \in batches' : Contains(d.calls, Check(c))
    <3>1. /\ status[Main(c)] = "sent" <=> \E d \in batches : Contains(d.calls, Main(c))
          /\ status[Check(c)] = "sent" <=> \E d \in batches : Contains(d.calls, Check(c))
      BY Ids DEF CallsInv, CallsPlaced
    <3>2. /\ Contains(calls, Main(c)) => ~\E d \in batches' : Contains(d.calls, Main(c))
          /\ Contains(calls, Check(c)) => ~\E d \in batches' : Contains(d.calls, Check(c))
      BY <1>5, Ids
    <3>3. /\ ~Contains(calls, Main(c)) =>
               ((\E d \in batches : Contains(d.calls, Main(c)))
                  <=> \E d \in batches' : Contains(d.calls, Main(c)))
          /\ ~Contains(calls, Check(c)) =>
               ((\E d \in batches : Contains(d.calls, Check(c)))
                  <=> \E d \in batches' : Contains(d.calls, Check(c)))
      BY <1>6, Ids
    <3>. DEFINE m == \E d \in batches : Contains(d.calls, Main(c))
                k == \E d \in batches : Contains(d.calls, Check(c))
                m2 == \E d \in batches' : Contains(d.calls, Main(c))
                k2 == \E d \in batches' : Contains(d.calls, Check(c))
    <3>. HIDE DEF m, k, m2, k2
    <3>4. /\ status[Main(c)] = "sent" <=> m
          /\ status[Check(c)] = "sent" <=> k
          /\ Contains(calls, Main(c)) => ~m2
          /\ Contains(calls, Check(c)) => ~k2
          /\ ~Contains(calls, Main(c)) => (m <=> m2)
          /\ ~Contains(calls, Check(c)) => (k <=> k2)
      BY <3>1, <3>2, <3>3 DEF m, k, m2, k2
    <3>5. (status'[Main(c)] = "sent" <=> m2) /\ (status'[Check(c)] = "sent" <=> k2)
      BY <1>9, <3>4
    <3> QED
      BY <3>5 DEF m2, k2
  <2>3. ASSUME NEW c \in Call
        PROVE  /\ status'[Main(c)] = "checking" <=> status'[Check(c)] # "idle"
               /\ status'[Check(c)] # "checking"
    <3>1. /\ status[Main(c)] = "checking" <=> status[Check(c)] # "idle"
          /\ status[Check(c)] # "checking"
      BY DEF CallsInv, CallsPlaced
    <3> QED
      BY <1>9, <3>1
  <2>4. \A d, e \in batches' : \A id \in Id :
          Contains(d.calls, id) /\ Contains(e.calls, id) => d = e
    BY <1>3 DEF CallsInv, CallsPlaced
  <2>5. \A id \in Id : /\ status'[id] = "queued" <=> Contains(queue', id)
                       /\ status'[id] = "sent" <=> \E d \in batches' : Contains(d.calls, id)
    BY <2>1, <2>2, Ids
  <2> QED
    BY <2>3, <2>4, <2>5 DEF CallsPlaced
<1>12. BatchesFit'
  BY <1>3 DEF CallsInv, BatchesFit, AnswerFits, RepliesFit
(* An answer that was given is the one at the position of the call.        *)
<1>13. got' \in [Call -> Id] /\ \A c \in Call : got'[c] = Main(c)
  <2>1. ASSUME NEW c \in Call, NEW i \in 1..Len(calls), calls[i] = Main(c), Result(b, i) = "ok"
        PROVE  Given(b, Main(c)) = Main(c)
    <3>1. (CHOOSE j \in DOMAIN b.calls : b.calls[j] = Main(c)) = i
      BY <1>1, <2>1 DEF Distinct, calls
    <3>2. b.answer.kind = "replies" /\ i <= Len(b.answer.replies)
      BY <2>1 DEF Result
    <3>3. b.answer.replies \in Seq(Reply) /\ RepliesFit(b, b.answer.replies)
      BY <1>1, <3>2 DEF AnswerFits, Answer
    <3>4. i \in 1..Len(b.answer.replies)
      BY <3>2, <3>3
    <3> QED
      BY <2>1, <3>1, <3>3, <3>4 DEF Given, RepliesFit, calls
  <2>2. got' = [c \in Call |->
          IF \E i \in 1..Len(calls) : calls[i] = Main(c) /\ Result(b, i) = "ok"
          THEN Given(b, Main(c)) ELSE got[c]]
    BY <1>1 DEF Deliver, calls
  <2>3. \A c \in Call : got[c] = Main(c)
    BY DEF CallsInv
  <2>4. \A c \in Call : got'[c] = Main(c)
    BY <2>1, <2>2, <2>3
  <2> QED
    BY <2>2, <2>4, Ids
<1>14. Expires(b) => ~session \/ faults > 0
  <2>1. CASE b.answer.kind = "login"
    BY <1>1, <2>1 DEF AnswerFits
  <2>2. ASSUME NEW i \in 1..Len(calls), calls[i][2] = "check", Result(b, i) # "ok",
               b.answer.kind # "login"
        PROVE  ~session \/ faults > 0
    <3>1. b.answer.kind = "replies"
      BY <1>1, <1>3, <2>2 DEF AnswerFits, Answer
    <3>2. b.answer.replies \in Seq(Reply) /\ RepliesFit(b, b.answer.replies)
      BY <1>1, <3>1 DEF AnswerFits, Answer
    <3>3. CASE i <= Len(b.answer.replies)
      <4>1. i \in 1..Len(b.answer.replies) /\ b.answer.replies[i].kind # "ok"
        BY <2>2, <3>1, <3>2, <3>3 DEF Result
      <4> QED
        BY <2>2, <3>2, <4>1 DEF RepliesFit, calls
    <3>4. CASE ~(i <= Len(b.answer.replies))
      <4>1. Len(b.answer.replies) < Len(calls)
        BY <1>1, <3>2, <3>4
      <4> QED
        BY <3>2, <4>1 DEF RepliesFit, calls
    <3> QED
      BY <3>3, <3>4
  <2> QED
    BY <1>1, <2>1, <2>2 DEF Expires, CheckFails, calls
<1>15. status' \in [Id -> {"idle", "queued", "sent", "checking"}]
  BY <1>3 DEF CallsInv
<1>16. NoticeIsTrue' /\ notice' \in BOOLEAN
  BY <1>3, <1>14 DEF CallsInv, NoticeIsTrue
<1>17. CallsInv'
  BY <1>3, <1>8, <1>10, <1>11, <1>12, <1>13, <1>15, <1>16 DEF CallsInv
<1>18. ASSUME NEW c \in Call
       PROVE  /\ c \in S => status[Main(c)] # "idle" /\ status'[Main(c)] = "idle"
              /\ c \notin S => (status'[Main(c)] = "idle" <=> status[Main(c)] = "idle")
  BY <1>9
<1> QED
  BY <1>17, <1>18 DEF S

-----------------------------------------------------------------------------
(* The loop                                                                *)

(* What is due is on the list once, and is ready.                          *)
LEMMA DueElements ==
  ASSUME NEW list \in Seq(Entry), Distinct(list), NEW t
  PROVE  /\ Due(list, ready, t) \in Seq(Entry) /\ Distinct(Due(list, ready, t))
         /\ \A e : Contains(Due(list, ready, t), e) => ready[e]
<1>. DEFINE I == {i \in DOMAIN list : t % Interval[list[i][1]] = 0 /\ ready[list[i]]}
<1>1. I \in SUBSET (1..Len(list))
  OBVIOUS
<1>2. Due(list, ready, t) = Picked(list, I)
  BY DEF Due
<1>3. \A i \in I : ready[list[i]]
  OBVIOUS
<1>. HIDE DEF I
<1>4. /\ Picked(list, I) \in Seq(Entry)
      /\ \A e : Contains(Picked(list, I), e) <=> \E i \in I : list[i] = e
      /\ Distinct(Picked(list, I))
  BY <1>1, PickedElements
<1> QED
  BY <1>2, <1>3, <1>4

(* What a pass does: it calls ready entries, once each, and loses those    *)
(* that throw; none of either is ready any more.                           *)
Passed(called) ==
  /\ called \in Seq(Entry) /\ Distinct(called)
  /\ \A e \in Entry : Contains(called, e) => ready[e]
  /\ ready' \in [Entry -> BOOLEAN]
  /\ \E T \in SUBSET Entry :
       /\ threw' = threw \cup T
       /\ \A e \in T : ready[e] /\ ~Contains(called, e)
       /\ \A e \in Entry : ready'[e] <=> ready[e] /\ ~Contains(called, e) /\ e \notin T

(* A pass of the loop calls the entries up to the one that throws.         *)
LEMMA PassPasses ==
  ASSUME ready \in [Entry -> BOOLEAN], NEW list \in Seq(Entry), Distinct(list),
         NEW t \in 0..(Modulus - 1), NEW called, Pass(list, t, called)
  PROVE  Passed(called) /\ tick' \in 0..(Modulus - 1)
<1>. DEFINE due == Due(list, ready, t)
<1>1. due \in Seq(Entry) /\ Distinct(due) /\ \A e : Contains(due, e) => ready[e]
  BY DueElements
<1>2. CASE /\ called = due /\ ready' = Busy(called)
           /\ tick' = NextTick(t) /\ UNCHANGED threw
  <2>. HIDE DEF due
  <2>1. NextTick(t) \in 0..(Modulus - 1)
    BY ModulusAssumption DEF NextTick
  <2>2. ready' \in [Entry -> BOOLEAN]
    BY <1>2 DEF Busy
  <2>3. \A e \in Entry : ready'[e] <=> ready[e] /\ ~Contains(called, e)
    BY <1>2 DEF Busy
  <2>4. \E T \in SUBSET Entry :
          /\ threw' = threw \cup T
          /\ \A e \in T : ready[e] /\ ~Contains(called, e)
          /\ \A e \in Entry : ready'[e] <=> ready[e] /\ ~Contains(called, e) /\ e \notin T
    <3> WITNESS {} \in SUBSET Entry
    <3> QED
      BY <1>2, <2>3
  <2>5. called \in Seq(Entry) /\ Distinct(called) /\ \A e \in Entry : Contains(called, e) => ready[e]
    BY <1>1, <1>2
  <2> QED
    BY <1>2, <2>1, <2>2, <2>4, <2>5 DEF Passed
<1>3. CASE /\ \E n \in DOMAIN due :
                /\ called = SubSeq(due, 1, n - 1)
                /\ ready' = Busy(Append(called, due[n]))
                /\ threw' = threw \cup {due[n]}
           /\ tick' = t
  <2>. HIDE DEF due
  <2>1. PICK n \in 1..Len(due) :
          /\ called = SubSeq(due, 1, n - 1)
          /\ ready' = Busy(Append(called, due[n]))
          /\ threw' = threw \cup {due[n]}
    BY <1>1, <1>3
  <2>2. n - 1 \in 0..Len(due) /\ n - 1 < Len(due) /\ (n - 1) + 1 = n /\ due[n] \in Entry
    BY <1>1
  <2>3. /\ called \in Seq(Entry) /\ Distinct(called)
        /\ \A e : Contains(called, e) => Contains(due, e)
        /\ ~Contains(called, due[n])
    BY <1>1, <2>1, <2>2, PrefixElements
  <2>4. Contains(due, due[n])
    BY <1>1 DEF Contains
  <2>5. \A e : Contains(Append(called, due[n]), e) <=> Contains(called, e) \/ e = due[n]
    BY <2>2, <2>3, AppendElements
  <2>6. ready' \in [Entry -> BOOLEAN]
    BY <2>1 DEF Busy
  <2>7. \A e \in Entry : ready'[e] <=> ready[e] /\ ~Contains(called, e) /\ e \notin {due[n]}
    BY <2>1, <2>5 DEF Busy
  <2>8. \A e \in {due[n]} : ready[e] /\ ~Contains(called, e)
    BY <1>1, <2>3, <2>4
  <2>9. {due[n]} \in SUBSET Entry
    BY <2>2
  <2> QED
    BY <1>1, <1>3, <2>1, <2>3, <2>6, <2>7, <2>8, <2>9 DEF Passed
<1> QED
  BY <1>2, <1>3 DEF Pass

(* Without a pass nothing is called.                                       *)
LEMMA NoPassPasses ==
  ASSUME ready \in [Entry -> BOOLEAN], NoPass
  PROVE  Passed(<< >>)
<1>1. << >> \in Seq(Entry) /\ Distinct(<< >>) /\ \A e : ~Contains(<< >>, e)
  BY DEF Distinct, Contains
<1>2. threw' = threw \cup {} /\ ready' = ready
  BY DEF NoPass
<1>3. \A e \in Entry : ready'[e] <=> ready[e] /\ ~Contains(<< >>, e) /\ e \notin {}
  BY <1>1, <1>2
<1>4. {} \in SUBSET Entry /\ ready' \in [Entry -> BOOLEAN]
  BY <1>2
<1> QED
  BY <1>1, <1>2, <1>3, <1>4 DEF Passed

(* A loop that starts makes a pass at once, if its list has entries.       *)
LEMMA StartedPasses ==
  ASSUME ready \in [Entry -> BOOLEAN], NEW list \in Seq(Entry), Distinct(list),
         NEW called, Started(list, called)
  PROVE  Passed(called) /\ tick' \in 0..(Modulus - 1) /\ timer' \in BOOLEAN
<1>1. 0 \in 0..(Modulus - 1)
  BY ModulusAssumption
<1>2. CASE list = << >>
  BY <1>1, <1>2, NoPassPasses DEF Started
<1>3. CASE list # << >>
  BY <1>1, <1>3, PassPasses DEF Started
<1> QED
  BY <1>2, <1>3

(* Every call of a pass is queued, so every entry still waits for exactly  *)
(* its call.                                                               *)
LEMMA PassedKeeps ==
  ASSUME CallsInv, ReadyInv, NEW called, Passed(called), Issue(called)
  PROVE  CallsInv' /\ ReadyInv'
<1>1. called \in Seq(Call) /\ Distinct(called)
  BY CallsAreEntries DEF Passed
<1>2. /\ CallsInv'
      /\ \A e \in Entry : /\ Contains(called, e) => status[Main(e)] = "idle"
                          /\ status'[Main(e)] = IF Contains(called, e) THEN "queued"
                                                ELSE status[Main(e)]
  BY <1>1, IssueKeeps, CallsAreEntries
<1>3. PICK T \in SUBSET Entry :
        /\ threw' = threw \cup T
        /\ \A e \in T : ready[e] /\ ~Contains(called, e)
        /\ \A e \in Entry : ready'[e] <=> ready[e] /\ ~Contains(called, e) /\ e \notin T
  BY DEF Passed
<1>4. \A e \in Entry : ready[e] <=> (status[Main(e)] = "idle" /\ e \notin threw)
  BY DEF ReadyInv, WaitsForCall
<1>5. \A e \in Entry : ready'[e] <=> (status'[Main(e)] = "idle" /\ e \notin threw')
  BY <1>2, <1>3, <1>4
<1>6. ASSUME NEW e \in threw'
      PROVE  e \in Entry /\ status'[Main(e)] = "idle"
  <2>1. e \in Entry
    BY <1>3 DEF ReadyInv
  <2>2. CASE e \in T
    BY <1>2, <1>3, <1>4, <2>1, <2>2
  <2>3. CASE e \in threw
    <3>1. status[Main(e)] = "idle" /\ ~ready[e]
      BY <1>4, <2>1, <2>3 DEF ReadyInv
    <3>2. ~Contains(called, e)
      BY <2>1, <3>1 DEF Passed
    <3> QED
      BY <1>2, <2>1, <3>1, <3>2
  <2> QED
    BY <1>3, <2>1, <2>2, <2>3
<1>7. ready' \in [Entry -> BOOLEAN]
  BY DEF Passed
<1> QED
  BY <1>2, <1>5, <1>6, <1>7 DEF ReadyInv, WaitsForCall

-----------------------------------------------------------------------------
(* The invariant is inductive                                              *)

(* At the start nothing is under way.                                      *)
LEMMA InitIInv == Init => IInv
<1> SUFFICES ASSUME Init
             PROVE  IInv
  OBVIOUS
<1>1. CallsInv
  <2>1. queue = << >> /\ batches = {} /\ status = [i \in Id |-> "idle"]
        /\ got = [c \in Call |-> Main(c)] /\ session = TRUE /\ notice = FALSE /\ faults = 0
    BY DEF Init, RequestInit
  <2>2. queue \in Seq(Id) /\ Distinct(queue) /\ \A id : ~Contains(queue, id)
    BY <2>1 DEF Distinct, Contains
  <2>3. CallsPlaced
    BY <2>1, <2>2, Ids DEF CallsPlaced
  <2>4. got \in [Call -> Id] /\ \A c \in Call : got[c] = Main(c)
    BY <2>1, Ids
  <2> QED
    BY <2>1, <2>2, <2>3, <2>4 DEF CallsInv, BatchesFit, NoticeIsTrue
<1>2. LoopInv
  <2>1. entries = << >> /\ ready = [e \in Entry |-> TRUE] /\ timer = FALSE /\ tick = Unset
        /\ gen = [f \in Fn |-> 0] /\ threw = {} /\ paused = FALSE
        /\ status = [i \in Id |-> "idle"]
    BY DEF Init, PollInit, RequestInit
  <2>2. ListInv
    BY <2>1 DEF ListInv, Distinct
  <2>3. TimerInv
    BY <2>1 DEF TimerInv
  <2>4. ReadyInv
    BY <2>1, Ids, CallsAreEntries DEF ReadyInv, WaitsForCall
  <2> QED
    BY <2>2, <2>3, <2>4 DEF LoopInv
<1> QED
  BY <1>1, <1>2 DEF IInv

(* The calls stay as they are when only the loop moves.                    *)
LEMMA RequestsKeep ==
  ASSUME CallsInv, UNCHANGED requestVars
  PROVE  CallsInv'
BY DEF requestVars, CallsInv, BatchesFit, AnswerFits, RepliesFit, CallsPlaced, NoticeIsTrue

(* The list did not have the entry that is registered.                     *)
LEMMA RegisterKeeps ==
  ASSUME IInv, NEW f \in Fn, Register(f)
  PROVE  IInv'
<1>1. PICK called : PollAdd(f, called) /\ Issue(called)
  BY DEF Register
<1>. DEFINE new == <<f, gen'[f]>>
<1>2. /\ \A i \in DOMAIN entries : entries[i][1] # f
      /\ gen[f] < MaxGen /\ gen' = [gen EXCEPT ![f] = @ + 1]
      /\ entries' = Append(entries, new)
      /\ paused' = paused
  BY <1>1 DEF PollAdd
<1>3. entries \in Seq(Entry) /\ Distinct(entries) /\ gen \in [Fn -> Nat]
  BY DEF IInv, LoopInv, ListInv
<1>4. new \in Entry /\ new[1] = f /\ gen' \in [Fn -> Nat]
  BY <1>2, <1>3, MaxGenAssumption DEF Entry
<1>. HIDE DEF new
<1>5. entries' \in Seq(Entry) /\ Distinct(entries')
  <2>1. /\ entries' \in Seq(Entry) /\ Len(entries') = Len(entries) + 1
        /\ \A i \in 1..Len(entries) : entries'[i] = entries[i]
        /\ entries'[Len(entries) + 1] = new
    BY <1>2, <1>3, <1>4
  <2>2. \A i \in 1..Len(entries) : entries[i] # new
    BY <1>2, <1>3, <1>4
  <2>3. \A i \in 1..(Len(entries) + 1) : i \in 1..Len(entries) \/ i = Len(entries) + 1
    BY <1>3
  <2> QED
    BY <1>3, <2>1, <2>2, <2>3 DEF Distinct
<1>6. ready \in [Entry -> BOOLEAN]
  BY DEF IInv, LoopInv, ReadyInv
<1>7. Passed(called) /\ TimerInv'
  <2>1. CASE MayStart /\ ~timer
    <3>1. Started(entries', called)
      BY <1>1, <2>1 DEF PollAdd
    <3>2. PICK list \in Seq(Entry) : list = entries'
      BY <1>5
    <3>3. Passed(called) /\ tick' \in 0..(Modulus - 1) /\ timer' \in BOOLEAN
      BY <1>5, <1>6, <3>1, <3>2, StartedPasses
    <3>4. paused = FALSE
      BY <2>1 DEF IInv, LoopInv, TimerInv, MayStart
    <3>5. tick' # Unset
      BY <3>3 DEF Unset
    <3> QED
      BY <1>2, <3>3, <3>4, <3>5 DEF TimerInv
  <2>2. CASE ~(MayStart /\ ~timer)
    <3>1. called = << >> /\ NoPass /\ UNCHANGED <<timer, tick>>
      BY <1>1, <2>2 DEF PollAdd
    <3> QED
      BY <1>2, <1>6, <3>1, NoPassPasses DEF IInv, LoopInv, TimerInv
  <2> QED
    BY <2>1, <2>2
<1>8. CallsInv' /\ ReadyInv'
  BY <1>1, <1>7, PassedKeeps DEF IInv, LoopInv
<1> QED
  BY <1>4, <1>5, <1>7, <1>8 DEF IInv, LoopInv, ListInv

(* What is left of the list still has nothing twice.                       *)
LEMMA UnregisterKeeps ==
  ASSUME IInv, NEW f \in Fn, Unregister(f)
  PROVE  IInv'
<1>. DEFINE I == {i \in DOMAIN entries : entries[i][1] # f}
<1>1. /\ entries' = Picked(entries, I)
      /\ IF entries' = << >> /\ timer THEN timer' = FALSE /\ tick' = 0
         ELSE UNCHANGED <<timer, tick>>
      /\ UNCHANGED <<ready, gen, threw, paused>> /\ UNCHANGED requestVars
  BY DEF Unregister, PollRemove
<1>2. entries \in Seq(Entry) /\ Distinct(entries) /\ I \in SUBSET (1..Len(entries))
  BY DEF IInv, LoopInv, ListInv
<1>. HIDE DEF I
<1>3. ListInv'
  <2>1. entries' \in Seq(Entry) /\ Distinct(entries')
    BY <1>1, <1>2, PickedElements
  <2> QED
    BY <1>1, <2>1 DEF IInv, LoopInv, ListInv
<1>4. TimerInv'
  <2>1. 0 \in 0..(Modulus - 1) /\ 0 # Unset
    BY ModulusAssumption DEF Unset
  <2> QED
    BY <1>1, <2>1 DEF IInv, LoopInv, TimerInv
<1>5. CallsInv'
  BY <1>1, RequestsKeep DEF IInv
<1>6. ReadyInv'
  BY <1>1 DEF IInv, LoopInv, ReadyInv, WaitsForCall, requestVars
<1> QED
  BY <1>3, <1>4, <1>5, <1>6 DEF IInv, LoopInv

(* The user resumes the loop.                                              *)
LEMMA StartKeeps ==
  ASSUME IInv, Start
  PROVE  IInv'
<1>1. PICK called : PollStart(called) /\ Issue(called)
  BY DEF Start
<1>2. Started(entries, called) /\ paused' = FALSE /\ UNCHANGED <<entries, gen>>
  BY <1>1 DEF PollStart
<1>3. Passed(called) /\ tick' \in 0..(Modulus - 1) /\ timer' \in BOOLEAN
  BY <1>2, StartedPasses DEF IInv, LoopInv, ListInv, ReadyInv
<1>4. TimerInv'
  <2>1. tick' # Unset
    BY <1>3 DEF Unset
  <2> QED
    BY <1>2, <1>3, <2>1 DEF TimerInv
<1>5. CallsInv' /\ ReadyInv'
  BY <1>1, <1>3, PassedKeeps DEF IInv, LoopInv
<1> QED
  BY <1>2, <1>4, <1>5 DEF IInv, LoopInv, ListInv

(* The user pauses the loop: it has no tick, so no registration starts it. *)
LEMMA StopKeeps ==
  ASSUME IInv, Stop
  PROVE  IInv'
<1>1. /\ timer' = FALSE /\ tick' = Unset /\ paused' = TRUE
      /\ UNCHANGED <<entries, ready, gen, threw>> /\ UNCHANGED requestVars
  BY DEF Stop, PollStop, Stopped
<1>2. ListInv' /\ TimerInv'
  BY <1>1 DEF IInv, LoopInv, ListInv, TimerInv
<1>3. CallsInv'
  BY <1>1, RequestsKeep DEF IInv
<1>4. ReadyInv'
  BY <1>1 DEF IInv, LoopInv, ReadyInv, WaitsForCall, requestVars
<1> QED
  BY <1>2, <1>3, <1>4 DEF IInv, LoopInv

(* The timer fires.                                                        *)
LEMMA StepKeeps ==
  ASSUME IInv, Step
  PROVE  IInv'
<1>1. PICK called : PollStep(called) /\ Issue(called)
  BY DEF Step
<1>2. timer /\ Pass(entries, tick, called) /\ UNCHANGED <<entries, timer, gen, paused>>
  BY <1>1 DEF PollStep
<1>3. tick \in 0..(Modulus - 1)
  BY <1>2 DEF IInv, LoopInv, TimerInv
<1>4. Passed(called) /\ tick' \in 0..(Modulus - 1)
  BY <1>2, <1>3, PassPasses DEF IInv, LoopInv, ListInv, ReadyInv
<1>5. TimerInv'
  <2>1. tick' # Unset
    BY <1>4 DEF Unset
  <2> QED
    BY <1>2, <1>4, <2>1 DEF IInv, LoopInv, TimerInv
<1>6. CallsInv' /\ ReadyInv'
  BY <1>1, <1>4, PassedKeeps DEF IInv, LoopInv
<1> QED
  BY <1>2, <1>5, <1>6 DEF IInv, LoopInv, ListInv

(* A step of the requests that settles no call leaves the loop alone.      *)
LEMMA QuietKeeps ==
  ASSUME IInv, CallsInv', UNCHANGED pollVars,
         \A id \in Id : status'[id] = "idle" <=> status[id] = "idle"
  PROVE  IInv'
<1>1. \A e \in Entry : status'[Main(e)] = "idle" <=> status[Main(e)] = "idle"
  BY Ids, CallsAreEntries
<1>2. UNCHANGED <<entries, ready, timer, tick, gen, threw, paused>>
  BY DEF pollVars
<1>3. ListInv' /\ TimerInv'
  BY <1>2 DEF IInv, LoopInv, ListInv, TimerInv
<1>4. ReadyInv'
  BY <1>1, <1>2 DEF IInv, LoopInv, ReadyInv, WaitsForCall
<1> QED
  BY <1>3, <1>4 DEF IInv, LoopInv

(* The entries whose calls have settled are ready again.                   *)
LEMMA HandleKeeps ==
  ASSUME IInv, NEW b \in batches, Deliver(b), PollSettle(Settles(b), Expires(b))
  PROVE  IInv'
<1>1. /\ CallsInv'
      /\ \A e \in Entry :
           /\ e \in Settles(b) => status[Main(e)] # "idle" /\ status'[Main(e)] = "idle"
           /\ e \notin Settles(b) => (status'[Main(e)] = "idle" <=> status[Main(e)] = "idle")
  BY DeliverKeeps, CallsAreEntries DEF IInv
<1>2. /\ ready' = [e \in Entry |-> ready[e] \/ e \in Settles(b)]
      /\ UNCHANGED <<entries, gen, threw>>
      /\ \/ timer' = FALSE /\ tick' = Unset /\ paused' = TRUE
         \/ UNCHANGED <<timer, tick, paused>>
  BY DEF PollSettle, Rearmed, Stopped
<1>3. ListInv' /\ TimerInv'
  <2>1. ListInv'
    BY <1>2 DEF IInv, LoopInv, ListInv
  <2>2. CASE timer' = FALSE /\ tick' = Unset /\ paused' = TRUE
    BY <2>1, <2>2 DEF TimerInv
  <2>3. CASE UNCHANGED <<timer, tick, paused>>
    BY <2>1, <2>3 DEF IInv, LoopInv, TimerInv
  <2> QED
    BY <1>2, <2>1, <2>2, <2>3
<1>4. ReadyInv'
  <2>1. ready' \in [Entry -> BOOLEAN] /\ threw' \in SUBSET Entry
    BY <1>2 DEF IInv, LoopInv, ReadyInv
  <2>2. \A e \in Entry : ready'[e] <=> ready[e] \/ e \in Settles(b)
    BY <1>2 DEF IInv, LoopInv, ReadyInv
  <2>3. \A e \in threw : e \in Entry /\ status[Main(e)] = "idle"
    BY DEF IInv, LoopInv, ReadyInv
  <2>4. \A e \in Entry : ready[e] <=> (status[Main(e)] = "idle" /\ e \notin threw)
    BY DEF IInv, LoopInv, ReadyInv, WaitsForCall
  <2>5. \A e \in Entry : ready'[e] <=> (status'[Main(e)] = "idle" /\ e \notin threw')
    BY <1>1, <1>2, <2>2, <2>3, <2>4
  <2>6. \A e \in threw' : status'[Main(e)] = "idle"
    BY <1>1, <1>2, <2>3
  <2> QED
    BY <2>1, <2>5, <2>6 DEF ReadyInv, WaitsForCall
<1> QED
  BY <1>1, <1>3, <1>4 DEF IInv, LoopInv

(* Every step keeps the invariant.                                         *)
LEMMA NextKeeps == IInv /\ [Next]_vars => IInv'
<1> SUFFICES ASSUME IInv, [Next]_vars
             PROVE  IInv'
  OBVIOUS
<1>. USE DEF IInv
<1>1. CASE \E f \in Fn : Register(f) \/ Unregister(f)
  BY <1>1, RegisterKeeps, UnregisterKeeps DEF IInv
<1>2. CASE Start \/ Stop \/ Step
  BY <1>2, StartKeeps, StopKeeps, StepKeeps
<1>3. CASE FlushFrame
  BY <1>3, FlushKeeps, QuietKeeps DEF FlushFrame
<1>4. CASE FailBatch
  <2>1. PICK b \in batches : ServeBadly(b) /\ UNCHANGED pollVars
    BY <1>4 DEF FailBatch
  <2>2. CallsInv' /\ UNCHANGED status
    BY <2>1, ServeBadlyKeeps
  <2> QED
    BY <2>1, <2>2, QuietKeeps
<1>5. CASE SessionEnds
  <2>1. CallsInv' /\ UNCHANGED status /\ UNCHANGED pollVars
    BY <1>5, ExpireKeeps DEF SessionEnds
  <2> QED
    BY <2>1, QuietKeeps
<1>6. ASSUME NEW id \in Id, AnswerBatch(id)
      PROVE  IInv'
  <2>1. PICK b \in batches : Serve(b) /\ UNCHANGED pollVars
    BY <1>6 DEF AnswerBatch
  <2>2. CallsInv' /\ UNCHANGED status
    BY <2>1, ServeKeeps
  <2> QED
    BY <2>1, <2>2, QuietKeeps
<1>7. ASSUME NEW id \in Id, HandleBatch(id)
      PROVE  IInv'
  <2>1. PICK b \in batches : Deliver(b) /\ PollSettle(Settles(b), Expires(b))
    BY <1>7 DEF HandleBatch
  <2> QED
    BY <2>1, HandleKeeps
<1>8. CASE UNCHANGED vars
  <2>1. CallsInv'
    BY <1>8, RequestsKeep DEF vars
  <2> QED
    BY <1>8, <2>1, QuietKeeps DEF vars, requestVars
<1> QED
  BY <1>1, <1>2, <1>3, <1>4, <1>5, <1>6, <1>7, <1>8 DEF Next

-----------------------------------------------------------------------------
(* What follows                                                            *)

(* What is in a sequence without repetition is in it once.                 *)
LEMMA OccursOnce ==
  ASSUME NEW S, NEW s \in Seq(S), Distinct(s), NEW id
  PROVE  Occurs(id, s) = IF Contains(s, id) THEN 1 ELSE 0
<1>. DEFINE P == {i \in DOMAIN s : s[i] = id}
<1>1. CASE Contains(s, id)
  <2>1. PICK i \in 1..Len(s) : s[i] = id
    BY <1>1 DEF Contains
  <2>2. P = {i}
    BY <2>1 DEF Distinct
  <2> QED
    BY <1>1, <2>2, FS_Singleton DEF Occurs
<1>2. CASE ~Contains(s, id)
  <2>1. P = {}
    BY <1>2 DEF Contains
  <2> QED
    BY <1>2, <2>1, FS_EmptySet DEF Occurs
<1> QED
  BY <1>1, <1>2

(* So each request is in one place, once.                                  *)
LEMMA PlacedConserved ==
  ASSUME CallsInv
  PROVE  CallsConserved
<1> SUFFICES ASSUME NEW id \in Id
             PROVE  /\ Occurs(id, queue) = IF status[id] = "queued" THEN 1 ELSE 0
                    /\ LET inBatches == {b \in batches : Occurs(id, b.calls) > 0}
                       IN IF status[id] = "sent"
                          THEN \E b \in batches : inBatches = {b} /\ Occurs(id, b.calls) = 1
                          ELSE inBatches = {}
                    /\ (status[id] = "checking") <=>
                         (id[2] = "call" /\ status[Check(id[1])] # "idle")
  BY DEF CallsConserved
<1>1. Occurs(id, queue) = IF status[id] = "queued" THEN 1 ELSE 0
  <2>1. Occurs(id, queue) = IF Contains(queue, id) THEN 1 ELSE 0
    BY OccursOnce DEF CallsInv
  <2> QED
    BY <2>1 DEF CallsInv, CallsPlaced
<1>. DEFINE inBatches == {b \in batches : Occurs(id, b.calls) > 0}
<1>2. ASSUME NEW b \in batches
      PROVE  Occurs(id, b.calls) = IF Contains(b.calls, id) THEN 1 ELSE 0
  <2>1. b.calls \in Seq(Id) /\ Distinct(b.calls)
    BY DEF CallsInv, BatchesFit
  <2> QED
    BY <2>1, OccursOnce
<1>3. inBatches = {b \in batches : Contains(b.calls, id)}
  BY <1>2
<1>4. ASSUME status[id] = "sent"
      PROVE  \E b \in batches : inBatches = {b} /\ Occurs(id, b.calls) = 1
  <2>1. PICK b \in batches : Contains(b.calls, id)
    BY <1>4 DEF CallsInv, CallsPlaced
  <2>2. inBatches = {b}
    BY <1>3, <2>1 DEF CallsInv, CallsPlaced
  <2>3. Occurs(id, b.calls) = 1
    BY <1>2, <2>1
  <2> HIDE DEF inBatches
  <2> QED
    BY <2>2, <2>3
<1>5. ASSUME status[id] # "sent"
      PROVE  inBatches = {}
  <2>1. \A b \in batches : ~Contains(b.calls, id)
    BY <1>5 DEF CallsInv, CallsPlaced
  <2> HIDE DEF inBatches
  <2> QED
    BY <1>3, <2>1
<1>6. (status[id] = "checking") <=> (id[2] = "call" /\ status[Check(id[1])] # "idle")
  <2>1. PICK c \in Call : id = Main(c) \/ id = Check(c)
    BY Ids
  <2>2. /\ status[Main(c)] = "checking" <=> status[Check(c)] # "idle"
        /\ status[Check(c)] # "checking"
    BY DEF CallsInv, CallsPlaced
  <2>3. /\ Main(c)[1] = c /\ Main(c)[2] = "call" /\ Check(c)[2] = "check"
    BY Ids
  <2> QED
    BY <2>1, <2>2, <2>3
<1> QED
  BY <1>1, <1>4, <1>5, <1>6

(* No call is dropped, made twice or given another call's answer, however  *)
(* batches are cut short, refused or answered late (luci.js:36-50), and    *)
(* the page reports an expired session for a reason.                       *)
THEOREM CallsAnsweredCorrect == Spec => []CallsAnswered
<1>1. IInv => CallsAnswered
  <2> SUFFICES ASSUME IInv
               PROVE  CallsAnswered
    OBVIOUS
  <2>1. TypeOK
    BY DEF IInv, CallsInv, LoopInv, ListInv, TimerInv, ReadyInv, TypeOK
  <2>2. CallsConserved
    BY PlacedConserved DEF IInv
  <2>3. OwnAnswer /\ NoticeIsTrue
    BY CallsAreEntries DEF IInv, CallsInv, OwnAnswer
  <2> QED
    BY <2>1, <2>2, <2>3 DEF CallsAnswered
<1> QED
  BY <1>1, InitIInv, NextKeeps, PTL DEF Spec

(* An entry of the loop waits exactly while its call is under way, and a   *)
(* loop the user has paused stays paused (luci.js:82-92).                  *)
THEOREM LoopKeptCorrect == Spec => []LoopKept
<1>1. IInv => LoopKept
  BY DEF IInv, LoopInv, TimerInv, ReadyInv, LoopKept, PauseLasts
<1> QED
  BY <1>1, InitIInv, NextKeeps, PTL DEF Spec

-----------------------------------------------------------------------------
(* A form (LuciForm): sequences of sections                                *)

(* The form's operators on sequences are the page's.                       *)
LEMMA FormWords ==
  /\ \A S : Form!Cardinality(S) = Cardinality(S)
  /\ \A s, I : Form!Picked(s, I) = Picked(s, I)
  /\ \A s, e : Form!Contains(s, e) = Contains(s, e)
  /\ \A s, p, e : Form!InsertAt(s, p, e) = InsertAt(s, p, e)
  /\ \A S : Form!SetToSeq(S) = SetToSeq(S)
<1>5. \A S : Form!Cardinality(S) = Cardinality(S)
  BY DEF Form!Cardinality, Cardinality, Form!IsFiniteSet, IsFiniteSet
<1>1. ASSUME NEW s, NEW I PROVE Form!Picked(s, I) = Picked(s, I)
  <2>1. \A i : Form!Rank(I, i) = Rank(I, i)
    BY <1>5 DEF Form!Rank, Rank
  <2>2. \A k : Form!Nth(I, k) = Nth(I, k)
    BY <2>1 DEF Form!Nth, Nth
  <2> QED  BY <1>5, <2>2 DEF Form!Picked, Picked
<1>2. \A s, e : Form!Contains(s, e) = Contains(s, e)
  BY DEF Form!Contains, Contains
<1>3. \A s, p, e : Form!InsertAt(s, p, e) = InsertAt(s, p, e)
  BY DEF Form!InsertAt, InsertAt
<1>4. \A S : Form!SetToSeq(S) = SetToSeq(S)
  BY <1>5 DEF Form!SetToSeq, SetToSeq, Form!IsInjective, IsInjective
<1> QED  BY <1>1, <1>2, <1>3, <1>4, <1>5

(* The list without a section (filter in ui.js and form.js) has the others *)
(* and no more.                                                            *)
LEMMA OthersStay ==
  ASSUME NEW S, NEW list \in Seq(S), NEW sid
  PROVE  /\ Form!Others(list, sid) \in Seq(S)
         /\ \A e : Contains(Form!Others(list, sid), e) <=> e # sid /\ Contains(list, e)
<1> DEFINE I == {i \in DOMAIN list : list[i] # sid}
<1>1. Form!Others(list, sid) = Picked(list, I) /\ I \in SUBSET (1..Len(list))
  BY FormWords DEF Form!Others
<1>2. /\ Picked(list, I) \in Seq(S)
      /\ \A e : Contains(Picked(list, I), e) <=> \E i \in I : list[i] = e
  BY <1>1, PickedElements
<1>3. \A e : (\E i \in I : list[i] = e) <=> e # sid /\ Contains(list, e)
  BY DEF Contains
<1> QED  BY <1>1, <1>2, <1>3

(* A section that was put at the end is taken away again.                  *)
LEMMA OthersOfAppend ==
  ASSUME NEW S, NEW list \in Seq(S), NEW sid \in S, ~Contains(list, sid)
  PROVE  Form!Others(Append(list, sid), sid) = list
<1> DEFINE all == Append(list, sid)
<1>1. /\ Len(all) = Len(list) + 1 /\ all[Len(list) + 1] = sid /\ all \in Seq(S)
      /\ \A i \in 1..Len(list) : all[i] = list[i]
  OBVIOUS
<1>2. \A i \in 1..Len(list) : list[i] # sid
  BY DEF Contains
<1>3. {i \in DOMAIN all : all[i] # sid} = 1..Len(list)
  BY <1>1, <1>2
<1>4. Form!Others(all, sid) = Picked(all, 1..Len(list))
  BY <1>3, FormWords DEF Form!Others
<1>5. Picked(all, 1..Len(list)) = [i \in 1..Len(list) |-> all[i]]
  <2>1. Len(list) \in Nat
    OBVIOUS
  <2> QED  BY <2>1, PickedPrefix
<1>6. [i \in 1..Len(list) |-> all[i]] = list
  BY <1>1
<1> QED  BY <1>4, <1>5, <1>6

(* A section that is dragged next to another is moved: none is lost and    *)
(* none comes in.                                                          *)
LEMMA PlacedStays ==
  ASSUME NEW S, NEW list \in Seq(S), NEW a, NEW b, NEW after \in BOOLEAN,
         Contains(list, a), Contains(list, b), a # b
  PROVE  /\ Form!Placed(list, a, b, after) \in Seq(S)
         /\ \A e : Contains(Form!Placed(list, a, b, after), e) <=> Contains(list, e)
<1>1. PICK rest \in Seq(S) :
        rest = Form!Others(list, a) /\ \A e : Contains(rest, e) <=> e # a /\ Contains(list, e)
  BY OthersStay
<1>2. PICK at \in 1..Len(rest) : at = CHOOSE i \in DOMAIN rest : rest[i] = b
  <2>1. Contains(rest, b)
    BY <1>1
  <2>2. \E i \in DOMAIN rest : rest[i] = b
    BY <2>1 DEF Contains
  <2>3. (CHOOSE i \in DOMAIN rest : rest[i] = b) \in DOMAIN rest
    BY <2>2
  <2> QED  BY <2>3
<1>3. PICK p \in 1..(Len(rest) + 1) : p = IF after THEN at + 1 ELSE at
  OBVIOUS
<1>4. Form!Placed(list, a, b, after) = InsertAt(rest, p, a)
  BY <1>1, <1>2, <1>3, FormWords DEF Form!Placed
<1>5. a \in S
  BY DEF Contains
<1>6. /\ InsertAt(rest, p, a) \in Seq(S)
      /\ \A e : Contains(InsertAt(rest, p, a), e) <=> Contains(rest, e) \/ e = a
  BY <1>5, ElementIn
<1> QED  BY <1>1, <1>4, <1>6

-----------------------------------------------------------------------------
(* Dialogs                                                                 *)

FormValues == FormValue \cup {Null}

(* What validating a dialog and showing and hiding its fields leaves.      *)
Kindred(fm) ==
  {g \in Form!Dialog : /\ g.sid = fm.sid /\ g.before = fm.before
                       /\ g.refused = fm.refused /\ g.overtaken = fm.overtaken}

(* Looking at one field (isDependencySatisfied, triggerValidation) changes *)
(* what is shown and valid, and nothing of what the dialog was opened on.  *)
LEMMA VisitedKindred ==
  ASSUME NEW fm \in Form!Dialog, NEW g \in Kindred(fm), NEW f \in Field, NEW first
  PROVE  Form!Visited(g, f, first) \in Kindred(fm)
<1>1. PICK sat \in BOOLEAN : sat = Form!isDependencySatisfied(g, f)
  BY DEF Form!isDependencySatisfied
<1>2. PICK k \in BOOLEAN : k = IF first /\ sat THEN Form!IsValid(g.val[f], f) ELSE g.ok[f]
  <2>1. Form!IsValid(g.val[f], f) \in BOOLEAN /\ g.ok[f] \in BOOLEAN
    BY DEF Form!IsValid, Kindred, Form!Dialog
  <2> QED  BY <2>1
<1>3. Form!Visited(g, f, first) = [g EXCEPT !.active[f] = sat, !.ok[f] = k]
  BY <1>1, <1>2 DEF Form!Visited
<1>4. [g EXCEPT !.active[f] = sat, !.ok[f] = k] \in Kindred(fm)
  BY DEF Kindred, Form!Dialog
<1> QED  BY <1>3, <1>4

(* So does a pass over all fields.                                         *)
LEMMA PassKindred ==
  ASSUME NEW fm \in Form!Dialog, NEW b \in Kindred(fm), NEW first
  PROVE  Form!Pass(b, first) \in Kindred(fm)
<1>0. PICK K : K = Kindred(fm)
  OBVIOUS
<1> DEFINE F == [p \in K \X Field |-> Form!Visited(p[1], p[2], first)]
<1>1. PICK N \in Nat : N = Cardinality(Field) /\ Field = 1..N
  <2>1. Cardinality(Field) \in Nat
    BY FormAssumption, FS_CardinalityType
  <2> QED  BY <2>1, FormAssumption
<1>2. F \in [K \X (1..N) -> K]
  <2>1. \A p \in K \X Field : Form!Visited(p[1], p[2], first) \in K
    BY <1>0, VisitedKindred
  <2> QED  BY <1>1, <2>1
<1>3. \E h : FollowsBy(h, K, b, N, F)
  <2>1. b \in K
    BY <1>0
  <2>2. PICK G : G = F
    OBVIOUS
  <2>3. G \in [K \X (1..N) -> K]
    BY <1>2, <2>2
  <2>4. \E h : FollowsBy(h, K, b, N, G)
    BY <2>1, <2>3, Recursion
  <2> QED  BY <2>2, <2>4
<1>4. PICK h \in [0..N -> K] : h[0] = b /\ \A i \in 1..N : h[i] = Form!Visited(h[i - 1], i, first)
  <2>1. PICK h \in [0..N -> K] : h[0] = b /\ \A i \in 1..N : h[i] = F[<<h[i - 1], i>>]
    BY <1>3 DEF FollowsBy
  <2>2. ASSUME NEW i \in 1..N PROVE h[i] = Form!Visited(h[i - 1], i, first)
    <3>1. i - 1 \in 0..N
      OBVIOUS
    <3>2. h[i - 1] \in K /\ i \in Field
      BY <1>1, <3>1
    <3>3. h[i] = F[<<h[i - 1], i>>]
      BY <2>1
    <3> QED  BY <3>2, <3>3
  <2> QED  BY <2>1, <2>2
<1> DEFINE after[f \in 0..N] == IF f = 0 THEN b ELSE Form!Visited(after[f - 1], f, first)
<1>5. h = [f \in 0..N |-> IF f = 0 THEN b ELSE Form!Visited(h[f - 1], f, first)]
  <2> QED  BY <1>4
<1>6. after = [f \in 0..N |-> IF f = 0 THEN b ELSE Form!Visited(after[f - 1], f, first)]
  BY <1>5 DEF after
<1>7. Form!Pass(b, first) = after[N]
  <2>1. Form!Cardinality(Field) = N
    BY <1>1, FormWords
  <2> QED  BY <2>1 DEF Form!Pass
<1> HIDE DEF after
<1>8. after[0] \in K
  BY <1>0, <1>6
<1>9. \A i \in 1..N : after[i - 1] \in K => after[i] \in K
  <2>1. ASSUME NEW i \in 1..N, after[i - 1] \in K PROVE after[i] \in K
    <3>1. after[i] = Form!Visited(after[i - 1], i, first)
      BY <1>6
    <3>2. after[i - 1] \in Kindred(fm) /\ i \in Field
      BY <1>0, <1>1, <2>1
    <3>3. Form!Visited(after[i - 1], i, first) \in Kindred(fm)
      BY <3>2, VisitedKindred
    <3> QED  BY <1>0, <3>1, <3>3
  <2> QED  BY <2>1
<1>10. \A i \in 0..N : after[i] \in K
  <2> QED  BY <1>8, <1>9, StepByStep
<1> QED  BY <1>0, <1>7, <1>10

(* So does checkDepends.                                                   *)
LEMMA CheckedKindred ==
  ASSUME NEW fm \in Form!Dialog
  PROVE  Form!checkDepends(fm) \in Kindred(fm)
<1>1. PICK once \in Kindred(fm) : once = Form!Pass(fm, TRUE)
  <2>1. fm \in Kindred(fm)
    BY DEF Kindred
  <2> QED  BY <2>1, PassKindred
<1>2. Form!Pass(once, FALSE) \in Kindred(fm)
  BY PassKindred
<1> QED  BY <1>1, <1>2 DEF Form!checkDepends

(* A dialog opens on a section with what the copy is then.                 *)
LEMMA RenderedOpens ==
  ASSUME NEW st \in Form!Copy, NEW sid \in Form!Sid, v1 \in Shapes, v2 \in Form!Copy
  PROVE  /\ Form!Rendered(st, sid) \in Form!Dialog
         /\ Form!Rendered(st, sid).sid = sid /\ Form!Rendered(st, sid).before = v2
         /\ Form!Rendered(st, sid).refused = FALSE /\ Form!Rendered(st, sid).overtaken = FALSE
<1> DEFINE vals == [f \in Field |-> st.opts[sid][v1.uci[f]]]
           fm == [sid |-> sid, val |-> vals, cval |-> vals,
                  active |-> [f \in Field |-> v1.deps[f] = {}],
                  ok |-> [f \in Field |-> TRUE],
                  before |-> v2, refused |-> FALSE, overtaken |-> FALSE]
<1>1. vals \in [Field -> FormValues]
  <2>1. v1.uci \in [Field -> Key]
    BY FormAssumption
  <2>2. st.opts[sid] \in [Key -> FormValues]
    BY DEF Form!Copy, FormValues
  <2> QED  BY <2>1, <2>2
<1>2. fm \in Form!Dialog
  <2> HIDE DEF vals
  <2> QED  BY <1>1 DEF Form!Dialog, FormValues
<1>3. Form!Rendered(st, sid) = Form!checkDepends(fm)
  BY DEF Form!Rendered
<1>4. Form!checkDepends(fm) \in Kindred(fm)
  <2> HIDE DEF fm
  <2> QED  BY <1>2, CheckedKindred
<1>5. fm.sid = sid /\ fm.before = v2 /\ fm.refused = FALSE /\ fm.overtaken = FALSE
  OBVIOUS
<1> HIDE DEF fm
<1> QED  BY <1>3, <1>4, <1>5 DEF Kindred

-----------------------------------------------------------------------------
(* What a save and a sort do to the copy                                   *)

(* Parsing a field leaves options that are there or absent.                *)
LEMMA ParsedTyped ==
  ASSUME NEW o \in [Key -> FormValues], NEW fm \in Form!Dialog, NEW f \in Field, v1 \in Shapes
  PROVE  Form!Parsed(o, fm, f) \in [Key -> FormValues]
<1>1. fm.val[f] \in FormValues
  BY DEF Form!Dialog, FormValues
<1>2. Form!Removed(o, fm, f) \in [Key -> FormValues]
  BY DEF Form!Removed, FormValues
<1>3. [o EXCEPT ![v1.uci[f]] = fm.val[f]] \in [Key -> FormValues]
  BY <1>1
<1> QED  BY <1>2, <1>3 DEF Form!Parsed

(* So does parsing all fields in their order.                              *)
LEMMA ParseTyped ==
  ASSUME NEW o \in [Key -> FormValues], NEW fm \in Form!Dialog, v1 \in Shapes
  PROVE  Form!Parse(o, fm) \in [Key -> FormValues]
<1>0. PICK K : K = [Key -> FormValues]
  OBVIOUS
<1> DEFINE F == [p \in K \X Field |-> Form!Parsed(p[1], fm, p[2])]
<1>1. PICK N \in Nat : N = Cardinality(Field) /\ Field = 1..N
  <2>1. Cardinality(Field) \in Nat
    BY FormAssumption, FS_CardinalityType
  <2> QED  BY <2>1, FormAssumption
<1>2. F \in [K \X (1..N) -> K]
  <2>1. \A p \in K \X Field : Form!Parsed(p[1], fm, p[2]) \in K
    BY <1>0, ParsedTyped
  <2> QED  BY <1>1, <2>1
<1>3. \E h : FollowsBy(h, K, o, N, F)
  <2>1. o \in K
    BY <1>0
  <2>2. PICK G : G = F
    OBVIOUS
  <2>3. G \in [K \X (1..N) -> K]
    BY <1>2, <2>2
  <2>4. \E h : FollowsBy(h, K, o, N, G)
    BY <2>1, <2>3, Recursion
  <2> QED  BY <2>2, <2>4
<1>4. PICK h \in [0..N -> K] : h[0] = o /\ \A i \in 1..N : h[i] = Form!Parsed(h[i - 1], fm, i)
  <2>1. PICK h \in [0..N -> K] : h[0] = o /\ \A i \in 1..N : h[i] = F[<<h[i - 1], i>>]
    BY <1>3 DEF FollowsBy
  <2>2. ASSUME NEW i \in 1..N PROVE h[i] = Form!Parsed(h[i - 1], fm, i)
    <3>1. i - 1 \in 0..N
      OBVIOUS
    <3>2. h[i - 1] \in K /\ i \in Field
      BY <1>1, <3>1
    <3>3. h[i] = F[<<h[i - 1], i>>]
      BY <2>1
    <3> QED  BY <3>2, <3>3
  <2> QED  BY <2>1, <2>2
<1> DEFINE after[f \in 0..N] == IF f = 0 THEN o ELSE Form!Parsed(after[f - 1], fm, f)
<1>5. h = [f \in 0..N |-> IF f = 0 THEN o ELSE Form!Parsed(h[f - 1], fm, f)]
  BY <1>4
<1>6. after = [f \in 0..N |-> IF f = 0 THEN o ELSE Form!Parsed(after[f - 1], fm, f)]
  BY <1>5 DEF after
<1>7. Form!Parse(o, fm) = after[N]
  <2>1. Form!Cardinality(Field) = N
    BY <1>1, FormWords
  <2> QED  BY <2>1 DEF Form!Parse
<1> HIDE DEF after
<1>8. after[0] \in K
  BY <1>0, <1>6
<1>9. \A i \in 1..N : after[i - 1] \in K => after[i] \in K
  <2>1. ASSUME NEW i \in 1..N, after[i - 1] \in K PROVE after[i] \in K
    <3>1. after[i] = Form!Parsed(after[i - 1], fm, i)
      BY <1>6
    <3>2. i \in Field
      BY <1>1
    <3>3. Form!Parsed(after[i - 1], fm, i) \in K
      BY <1>0, <2>1, <3>2, ParsedTyped
    <3> QED  BY <3>1, <3>3
  <2> QED  BY <2>1
<1>10. \A i \in 0..N : after[i] \in K
  BY <1>8, <1>9, StepByStep
<1> QED  BY <1>0, <1>7, <1>10

(* A section that is not in the order has no options.                      *)
Clean(st) ==
  /\ st \in Form!Copy
  /\ \A sid \in Form!Sid : ~Contains(st.order, sid) => st.opts[sid] = Form!NoOptions

(* uci.move moves a section and leaves its options alone.                  *)
LEMMA MoveClean ==
  ASSUME NEW st, Clean(st), NEW a, NEW b, NEW after \in BOOLEAN
  PROVE  Clean(Form!move(st, a, b, after))
<1>1. CASE a = b \/ ~Form!Has(st, a) \/ ~Form!Has(st, b)
  BY <1>1 DEF Form!move
<1>2. CASE a # b /\ Form!Has(st, a) /\ Form!Has(st, b)
  <2>1. PICK s \in Seq(Form!Sid) : s = st.order
    BY DEF Clean, Form!Copy
  <2>2. Contains(s, a) /\ Contains(s, b)
    BY <1>2, <2>1, FormWords DEF Form!Has
  <2>3. PICK t \in Seq(Form!Sid) :
          t = Form!Placed(s, a, b, after) /\ \A e : Contains(t, e) <=> Contains(s, e)
    BY <1>2, <2>2, PlacedStays
  <2>4. Form!move(st, a, b, after) = [st EXCEPT !.order = t]
    BY <1>2, <2>1, <2>3 DEF Form!move
  <2> QED  BY <2>1, <2>3, <2>4 DEF Clean, Form!Copy
<1> QED  BY <1>1, <1>2

(* uci.remove takes the section out of the order, and its options with it. *)
LEMMA WithoutClean ==
  ASSUME NEW st, Clean(st), NEW sid \in Form!Sid
  PROVE  /\ Clean(Form!Without(st, sid))
         /\ Form!Without(st, sid).order = Form!Others(st.order, sid)
         /\ Form!Without(st, sid).opts = [st.opts EXCEPT ![sid] = Form!NoOptions]
<1>1. PICK s \in Seq(Form!Sid) : s = st.order
  BY DEF Clean, Form!Copy
<1>2. PICK t \in Seq(Form!Sid) :
        t = Form!Others(s, sid) /\ \A e : Contains(t, e) <=> e # sid /\ Contains(s, e)
  BY OthersStay
<1>3. Form!Without(st, sid) = [st EXCEPT !.order = t, !.opts[sid] = Form!NoOptions]
  BY <1>1, <1>2 DEF Form!Without
<1>4. Form!NoOptions \in [Key -> FormValue \cup {Null}]
  BY DEF Form!NoOptions
<1>5. PICK o \in [Form!Sid -> [Key -> FormValue \cup {Null}]] : o = st.opts
  BY DEF Clean, Form!Copy
<1>6. st = [order |-> s, opts |-> o]
  BY <1>1, <1>5 DEF Clean, Form!Copy
<1>7. PICK q \in [Form!Sid -> [Key -> FormValue \cup {Null}]] :
        q = [o EXCEPT ![sid] = Form!NoOptions]
  BY <1>4
<1>8. Form!Without(st, sid) = [order |-> t, opts |-> q]
  BY <1>3, <1>6, <1>7
<1>9. [order |-> t, opts |-> q] \in Form!Copy
  BY <1>2, <1>7 DEF Form!Copy
<1>10. ASSUME NEW x \in Form!Sid, ~Contains(t, x) PROVE q[x] = Form!NoOptions
  <2>1. CASE x = sid
    BY <1>7, <2>1
  <2>2. CASE x # sid
    <3>1. ~Contains(s, x)
      BY <1>2, <1>10, <2>2
    <3>2. o[x] = Form!NoOptions
      BY <1>6, <3>1 DEF Clean
    <3> QED  BY <1>7, <2>2, <3>2
  <2> QED  BY <2>1, <2>2
<1>11. Clean(Form!Without(st, sid))
  BY <1>8, <1>9, <1>10 DEF Clean
<1> QED  BY <1>1, <1>2, <1>5, <1>7, <1>8, <1>11

(* A new section, or new options of one there is.                          *)
LEMMA AddClean ==
  ASSUME NEW st, Clean(st), NEW sid \in Form!Sid
  PROVE  Clean([st EXCEPT !.order = Append(@, sid)])
<1>1. PICK s \in Seq(Form!Sid) : s = st.order
  BY DEF Clean, Form!Copy
<1>2. PICK o \in [Form!Sid -> [Key -> FormValue \cup {Null}]] : o = st.opts
  BY DEF Clean, Form!Copy
<1>3. [st EXCEPT !.order = Append(@, sid)] = [order |-> Append(s, sid), opts |-> o]
  <2>1. st = [order |-> s, opts |-> o]
    BY <1>1, <1>2 DEF Clean, Form!Copy
  <2> QED  BY <2>1
<1>4. [order |-> Append(s, sid), opts |-> o] \in Form!Copy
  BY DEF Form!Copy
<1>5. ASSUME NEW x \in Form!Sid, ~Contains(Append(s, sid), x) PROVE o[x] = Form!NoOptions
  <2>1. ~Contains(s, x)
    <3>1. SUFFICES ASSUME Contains(s, x) PROVE FALSE
      OBVIOUS
    <3>2. PICK i \in 1..Len(s) : s[i] = x
      BY <3>1 DEF Contains
    <3>3. i \in 1..Len(Append(s, sid)) /\ Append(s, sid)[i] = x
      BY <3>2
    <3> QED  BY <1>5, <3>3 DEF Contains
  <2> QED  BY <1>1, <1>2, <2>1 DEF Clean
<1> QED  BY <1>3, <1>4, <1>5 DEF Clean

(* Options that are set on a section of the order.                         *)
LEMMA OptsClean ==
  ASSUME NEW st, Clean(st), NEW sid \in Form!Sid, Contains(st.order, sid),
         NEW new \in [Key -> FormValues]
  PROVE  /\ Clean([st EXCEPT !.opts[sid] = new])
         /\ [st EXCEPT !.opts[sid] = new].order = st.order
         /\ \A x \in Form!Sid \ {sid} : [st EXCEPT !.opts[sid] = new].opts[x] = st.opts[x]
<1>1. PICK s \in Seq(Form!Sid) : s = st.order
  BY DEF Clean, Form!Copy
<1>2. PICK o \in [Form!Sid -> [Key -> FormValue \cup {Null}]] : o = st.opts
  BY DEF Clean, Form!Copy
<1>3. PICK q \in [Form!Sid -> [Key -> FormValue \cup {Null}]] : q = [o EXCEPT ![sid] = new]
  BY DEF FormValues
<1>4. [st EXCEPT !.opts[sid] = new] = [order |-> s, opts |-> q]
  <2>1. st \in [order : Seq(Form!Sid), opts : [Form!Sid -> [Key -> FormValue \cup {Null}]]]
    BY DEF Clean, Form!Copy
  <2>2. st.opts = o /\ st.order = s
    BY <1>1, <1>2
  <2>3. [st EXCEPT !.opts[sid] = new] = [st EXCEPT !.opts = q]
    BY <1>3, <2>1, <2>2
  <2>4. [st EXCEPT !.opts = q] = [order |-> s, opts |-> q]
    BY <2>1, <2>2
  <2> QED  BY <2>3, <2>4
<1>5. [order |-> s, opts |-> q] \in Form!Copy
  BY DEF Form!Copy
<1>6. ASSUME NEW x \in Form!Sid, ~Contains(s, x)
      PROVE  q[x] = Form!NoOptions
  <2>1. x # sid
    BY <1>1, <1>6
  <2>2. o[x] = Form!NoOptions
    BY <1>1, <1>2, <1>6 DEF Clean
  <2> QED  BY <1>3, <2>1, <2>2
<1>7. Clean([order |-> s, opts |-> q])
  BY <1>5, <1>6 DEF Clean
<1>8. \A x \in Form!Sid \ {sid} : q[x] = o[x]
  BY <1>3
<1> QED  BY <1>1, <1>2, <1>4, <1>7, <1>8

(* The sort's frame moves the rows one after the other.                    *)
LEMMA LinedClean ==
  ASSUME NEW st, Clean(st), NEW list \in Seq(Form!Sid)
  PROVE  Clean(Form!Lined(st, list))
<1>0. PICK K : K = {c \in Form!Copy : Clean(c)}
  OBVIOUS
<1>1. PICK N \in Nat : N = Len(list)
  OBVIOUS
<1> DEFINE Moved(c, i) == IF i < 2 THEN st ELSE Form!move(c, list[i], list[i - 1], TRUE)
           F == [p \in K \X (1..N) |-> Moved(p[1], p[2])]
<1>2. ASSUME NEW c \in K, NEW i \in 1..N PROVE Moved(c, i) \in K
  <2>1. Clean(c) /\ st \in K
    BY <1>0 DEF Clean
  <2>2. Clean(Form!move(c, list[i], list[i - 1], TRUE))
    BY <2>1, MoveClean
  <2>3. Form!move(c, list[i], list[i - 1], TRUE) \in K
    BY <1>0, <2>2 DEF Clean
  <2> QED  BY <2>1, <2>3
<1>3. F \in [K \X (1..N) -> K]
  <2> HIDE DEF Next
  <2> QED  BY <1>2
<1>4. \E h : FollowsBy(h, K, st, N, F)
  <2>1. st \in K
    BY <1>0 DEF Clean
  <2>2. PICK G : G = F
    OBVIOUS
  <2>3. G \in [K \X (1..N) -> K]
    BY <1>3, <2>2
  <2>4. \E h : FollowsBy(h, K, st, N, G)
    BY <2>1, <2>3, Recursion
  <2> QED  BY <2>2, <2>4
<1>5. PICK h \in [0..N -> K] : h[0] = st /\ \A i \in 1..N : h[i] = Moved(h[i - 1], i)
  <2>1. PICK h \in [0..N -> K] : h[0] = st /\ \A i \in 1..N : h[i] = F[<<h[i - 1], i>>]
    BY <1>4 DEF FollowsBy
  <2>2. ASSUME NEW i \in 1..N PROVE h[i] = Moved(h[i - 1], i)
    <3>1. i - 1 \in 0..N
      OBVIOUS
    <3>2. h[i - 1] \in K
      BY <3>1
    <3>3. h[i] = F[<<h[i - 1], i>>]
      BY <2>1
    <3> HIDE DEF Next
    <3> QED  BY <3>2, <3>3
  <2> QED  BY <2>1, <2>2
<1> DEFINE after[i \in 0..N] ==
             IF i < 2 THEN st ELSE Form!move(after[i - 1], list[i], list[i - 1], TRUE)
<1>6. h = [i \in 0..N |-> IF i < 2 THEN st ELSE Form!move(h[i - 1], list[i], list[i - 1], TRUE)]
  BY <1>5
<1>7. after = [i \in 0..N |-> IF i < 2 THEN st
                             ELSE Form!move(after[i - 1], list[i], list[i - 1], TRUE)]
  BY <1>6 DEF after
<1>8. Form!Lined(st, list) = after[N]
  BY <1>1 DEF Form!Lined
<1> HIDE DEF after
<1>9. after[0] \in K
  BY <1>0, <1>7 DEF Clean
<1>10. \A i \in 1..N : after[i - 1] \in K => after[i] \in K
  <2>1. ASSUME NEW i \in 1..N, after[i - 1] \in K PROVE after[i] \in K
    <3>1. i \in 0..N
      OBVIOUS
    <3>2. after[i] = IF i < 2 THEN st ELSE Form!move(after[i - 1], list[i], list[i - 1], TRUE)
      BY <1>7, <3>1
    <3>3. (IF i < 2 THEN st ELSE Form!move(after[i - 1], list[i], list[i - 1], TRUE)) \in K
      BY <1>2, <2>1
    <3> QED  BY <3>2, <3>3
  <2> QED  BY <2>1
<1>11. \A i \in 0..N : after[i] \in K
  BY <1>9, <1>10, StepByStep
<1> QED  BY <1>0, <1>1, <1>8, <1>11

-----------------------------------------------------------------------------
(* What dismissing a dialog relies on                                      *)

(* What an open dialog has done to the copy it was opened on: edited a     *)
(* section there was, in which only a save leaves anything, or added one   *)
(* at the end.                                                             *)
Edits ==
  /\ v6 = Null /\ Contains(v5.before.order, v5.sid)
  /\ v2.order = v5.before.order
  /\ ~v5.refused => v2 = v5.before
Adds ==
  /\ v5.sid = NewSection /\ ~Contains(v5.before.order, NewSection)
  /\ v2.order = Append(v5.before.order, NewSection)
  /\ v6 = IF v1.onMap THEN NewSection ELSE Null
  /\ \A x \in Form!Sid \ {NewSection} : v2.opts[x] = v5.before.opts[x]

(* A save under way, and the types.                                        *)
Saves == [form : Form!Dialog \cup {Null}, sent : Form!Copy, served : BOOLEAN]
FTypeOK ==
  /\ v1 \in Shapes \cup {Null} /\ Clean(v2) /\ Clean(v3)
  /\ v4 \in Seq(Form!Sid) /\ v5 \in Form!Dialog \cup {Null}
  /\ v6 \in {Null, NewSection} /\ v7 \in Saves \cup {Null}
  /\ v8 \in Seq(Form!Sid) \cup {Null}
(* The invariant: a dialog under which no save has loaded the copy anew    *)
(* knows what it has done.                                                 *)
FInv ==
  /\ FTypeOK
  /\ v7 # Null => Clean(v7.sent)
  /\ v5 = Null => v6 = Null
  /\ v5 # Null => v8 = Null /\ v1 # Null
  /\ v5 # Null /\ ~v5.overtaken => Clean(v5.before) /\ (Edits \/ Adds)

(* The rows of the table are sections.                                     *)
LEMMA ShownTyped ==
  ASSUME NEW st \in Form!Copy, NEW sh
  PROVE  Form!Shown(sh, st) \in Seq(Form!Sid)
<1>1. PICK s \in Seq(Form!Sid) : s = st.order
  BY DEF Form!Copy
<1>2. PICK I \in SUBSET (1..Len(s)) : I = {i \in DOMAIN s : s[i] \notin sh.hidden}
  <2>1. {i \in DOMAIN s : s[i] \notin sh.hidden} \in SUBSET (1..Len(s))
    OBVIOUS
  <2> QED  BY <2>1
<1>3. Picked(s, I) \in Seq(Form!Sid)
  BY PickedElements
<1>4. Form!Shown(sh, st) = Picked(s, I)
  BY <1>1, <1>2, FormWords DEF Form!Shown
<1> QED  BY <1>3, <1>4

(* The parts of a copy.                                                    *)
LEMMA CleanTyped ==
  ASSUME NEW st, Clean(st)
  PROVE  st \in Form!Copy /\ st.order \in Seq(Form!Sid) /\ st.opts \in [Form!Sid -> [Key -> FormValues]]
BY DEF Clean, Form!Copy, FormValues

(* A dialog that is open.                                                  *)
LEMMA DialogTyped ==
  ASSUME NEW fm \in Form!Dialog
  PROVE  /\ fm # Null /\ fm.sid \in Form!Sid
         /\ fm.refused \in BOOLEAN /\ fm.overtaken \in BOOLEAN
BY FormAssumption DEF Form!Dialog

(* No form is open at first.                                               *)
LEMMA FInitial == Form!Init => FInv
<1> SUFFICES ASSUME Form!Init PROVE FInv
  OBVIOUS
<1>1. Clean(Form!NoStore)
  <2>1. Form!NoOptions \in [Key -> FormValue \cup {Null}]
    BY DEF Form!NoOptions
  <2>2. [s \in Form!Sid |-> Form!NoOptions] \in [Form!Sid -> [Key -> FormValue \cup {Null}]]
    BY <2>1
  <2>3. << >> \in Seq(Form!Sid)
    OBVIOUS
  <2>4. Form!NoStore \in Form!Copy
    BY <2>2, <2>3 DEF Form!NoStore, Form!Copy
  <2>5. \A sid \in Form!Sid : Form!NoStore.opts[sid] = Form!NoOptions
    BY DEF Form!NoStore
  <2> QED  BY <2>4, <2>5 DEF Clean
<1>2. << >> \in Seq(Form!Sid)
  OBVIOUS
<1> QED  BY <1>1, <1>2 DEF Form!Init, FInv, FTypeOK

(* The page's map is rendered (Map.render) with what the server has.       *)
LEMMA OpenKeeps ==
  ASSUME FInv, NEW sh \in Shapes, NEW opts \in sh.stored, Form!Open(sh, opts)
  PROVE  FInv'
<1>1. v5 = Null /\ v5' = Null /\ v1' = sh
  BY DEF Form!Open, FInv
<1>2. Clean(v3')
  <2>1. PICK l \in Seq(Form!Sid) : /\ l = SetToSeq(Old)
                                   /\ \A x \in Old : Contains(l, x)
    <3>1. IsFiniteSet(Old)
      BY FormAssumption
    <3>2. SetToSeq(Old) \in Seq(Old) /\ \A x \in Old : \E i \in 1..Len(SetToSeq(Old)) : SetToSeq(Old)[i] = x
      BY <3>1, SetListed
    <3>3. SetToSeq(Old) \in Seq(Form!Sid)
      BY <3>2 DEF Form!Sid
    <3> QED  BY <3>2, <3>3 DEF Contains
  <2>2. opts \in [Key -> FormValue \cup {Null}]
    BY FormAssumption
  <2>3. Form!NoOptions \in [Key -> FormValue \cup {Null}]
    BY DEF Form!NoOptions
  <2>4. PICK o \in [Form!Sid -> [Key -> FormValue \cup {Null}]] :
          o = [s \in Form!Sid |-> IF s \in Old THEN opts ELSE Form!NoOptions]
    BY <2>2, <2>3
  <2>5. v3' = [order |-> l, opts |-> o]
    BY <2>1, <2>4, FormWords DEF Form!Open
  <2>6. [order |-> l, opts |-> o] \in Form!Copy
    BY DEF Form!Copy
  <2>7. \A sid \in Form!Sid : ~Contains(l, sid) => o[sid] = Form!NoOptions
    BY <2>1, <2>4
  <2> QED  BY <2>5, <2>6, <2>7 DEF Clean
<1>3. v2' = v3' /\ v4' = Form!Shown(sh, v3')
  BY DEF Form!Open
<1>4. v4' \in Seq(Form!Sid)
  BY <1>2, <1>3, CleanTyped, ShownTyped
<1>5. UNCHANGED <<v5, v6, v7, v8>>
  BY DEF Form!Open
<1> QED  BY <1>1, <1>2, <1>3, <1>4, <1>5 DEF FInv, FTypeOK

(* handleAdd appends a section, and opens its dialog on the copy before.   *)
LEMMA AddKeeps ==
  ASSUME FInv, v1 # Null, v8 = Null, Form!handleAdd
  PROVE  FInv'
<1>1. v1 \in Shapes /\ v2 \in Form!Copy /\ Clean(v2)
  BY CleanTyped DEF FInv, FTypeOK
<1>2. NewSection \in Form!Sid
  BY DEF Form!Sid
<1>3. PICK st : st = [v2 EXCEPT !.order = Append(@, NewSection)]
  OBVIOUS
<1>4. Clean(st) /\ st.order = Append(v2.order, NewSection) /\ st.opts = v2.opts
  <2>1. Clean(st)
    BY <1>1, <1>2, <1>3, AddClean
  <2>2. st.order = Append(v2.order, NewSection) /\ st.opts = v2.opts
    BY <1>1, <1>3 DEF Form!Copy
  <2> QED  BY <2>1, <2>2
<1>5. v2' = st /\ v5' = Form!Rendered(st, NewSection) /\ v6' = IF v1.onMap THEN NewSection ELSE Null
  BY <1>3 DEF Form!handleAdd
<1>6. /\ v5' \in Form!Dialog /\ v5'.sid = NewSection /\ v5'.before = v2
      /\ v5'.refused = FALSE /\ v5'.overtaken = FALSE
  BY <1>1, <1>2, <1>4, <1>5, CleanTyped, RenderedOpens
<1>7. ~Contains(v2.order, NewSection)
  BY FormWords DEF Form!handleAdd, Form!Has
<1>8. UNCHANGED <<v1, v3, v4, v7, v8>>
  BY DEF Form!handleAdd
<1>9. Adds'
  BY <1>4, <1>5, <1>6, <1>7, <1>8 DEF Adds
<1>10. FTypeOK'
  BY <1>4, <1>5, <1>6, <1>8 DEF FInv, FTypeOK
<1>11. v5' # Null
  BY <1>6, DialogTyped
<1> QED  BY <1>1, <1>6, <1>8, <1>9, <1>10, <1>11 DEF FInv

(* renderMoreOptionsModal opens a dialog on a section there is.            *)
LEMMA EditKeeps ==
  ASSUME FInv, v1 # Null, v8 = Null, NEW sid \in Form!Sid, Form!renderMoreOptionsModal(sid)
  PROVE  FInv'
<1>1. v1 \in Shapes /\ v2 \in Form!Copy /\ Clean(v2)
  BY CleanTyped DEF FInv, FTypeOK
<1>2. /\ v5' \in Form!Dialog /\ v5'.sid = sid /\ v5'.before = v2
      /\ v5'.refused = FALSE /\ v5'.overtaken = FALSE
  <2>1. v5' = Form!Rendered(v2, sid)
    BY DEF Form!renderMoreOptionsModal
  <2> QED  BY <1>1, <2>1, RenderedOpens
<1>3. Contains(v2.order, sid)
  BY FormWords DEF Form!renderMoreOptionsModal, Form!Has
<1>4. UNCHANGED <<v1, v2, v3, v4, v6, v7, v8>> /\ v5 = Null
  BY DEF Form!renderMoreOptionsModal
<1>5. Edits'
  BY <1>2, <1>3, <1>4 DEF Edits, FInv
<1>6. FTypeOK'
  BY <1>2, <1>4 DEF FInv, FTypeOK
<1>7. v5' # Null
  BY <1>2, DialogTyped
<1> QED  BY <1>1, <1>2, <1>4, <1>5, <1>6, <1>7 DEF FInv

(* Filling in a field leaves the copy alone.                               *)
LEMMA FillKeeps ==
  ASSUME FInv, NEW f \in Field, NEW v \in FormValues, Form!Fill(f, v)
  PROVE  FInv'
<1>1. v5 \in Form!Dialog
  BY DEF FInv, FTypeOK, Form!Fill
<1>2. PICK fm \in Kindred(v5) : fm = [v5 EXCEPT !.val[f] = v, !.ok[f] = Form!IsValid(v, f)]
  <2>1. Form!IsValid(v, f) \in BOOLEAN
    BY DEF Form!IsValid
  <2>2. [v5 EXCEPT !.val[f] = v, !.ok[f] = Form!IsValid(v, f)] \in Kindred(v5)
    BY <1>1, <2>1 DEF Kindred, Form!Dialog, FormValues
  <2> QED  BY <2>2
<1>3. v5' = Form!checkDepends(fm)
  BY <1>2 DEF Form!Fill
<1>4. v5' \in Kindred(fm)
  <2>1. fm \in Form!Dialog
    BY DEF Kindred
  <2> QED  BY <1>3, <2>1, CheckedKindred
<1>5. /\ v5' \in Form!Dialog /\ v5'.sid = v5.sid /\ v5'.before = v5.before
      /\ v5'.refused = v5.refused /\ v5'.overtaken = v5.overtaken
  BY <1>2, <1>4 DEF Kindred
<1>6. UNCHANGED <<v1, v2, v3, v4, v6, v7, v8>> /\ v5 # Null
  BY DEF Form!Fill
<1>7. FTypeOK'
  BY <1>5, <1>6 DEF FInv, FTypeOK
<1>8. (Edits => Edits') /\ (Adds => Adds')
  BY <1>5, <1>6 DEF Edits, Adds
<1>9. v5' # Null
  BY <1>5, DialogTyped
<1> QED  BY <1>5, <1>6, <1>7, <1>8, <1>9 DEF FInv

(* handleModalSave writes options of the dialog's section; from then on    *)
(* the dialog counts as refused.                                           *)
LEMMA ModalSaveKeeps ==
  ASSUME FInv, v1 # Null, v8 = Null, Form!handleModalSave
  PROVE  FInv'
<1>1. v1 \in Shapes /\ Clean(v2) /\ v5 \in Form!Dialog /\ v5 # Null
  BY DEF FInv, FTypeOK, Form!handleModalSave
<1>2. PICK fm \in Kindred(v5) : fm = Form!checkDepends(v5)
  BY <1>1, CheckedKindred
<1>3. /\ fm \in Form!Dialog /\ fm.sid = v5.sid /\ fm.before = v5.before
      /\ fm.refused = v5.refused /\ fm.overtaken = v5.overtaken
  BY <1>2 DEF Kindred
<1>4. PICK sid \in Form!Sid : sid = v5.sid
  BY <1>1, DialogTyped
<1>5. PICK new \in [Key -> FormValues] : new = Form!Parse(v2.opts[sid], fm)
  <2>1. v2.opts[sid] \in [Key -> FormValues]
    BY <1>1, CleanTyped
  <2> QED  BY <1>1, <1>3, <2>1, ParseTyped
<1>6. /\ v2' = IF Contains(v2.order, sid) THEN [v2 EXCEPT !.opts[sid] = new] ELSE v2
      /\ v5' = [fm EXCEPT !.refused = TRUE]
      /\ v7' = Null \/ v7' = [form |-> fm, sent |-> v2', served |-> FALSE]
      /\ UNCHANGED <<v1, v3, v4, v6, v8>>
  BY <1>2, <1>3, <1>4, <1>5, FormWords DEF Form!handleModalSave, Form!Has
<1>7. /\ Clean(v2') /\ v2'.order = v2.order
      /\ \A x \in Form!Sid \ {sid} : v2'.opts[x] = v2.opts[x]
  <2>1. CASE Contains(v2.order, sid)
    BY <1>1, <1>6, <2>1, OptsClean
  <2>2. CASE ~Contains(v2.order, sid)
    BY <1>1, <1>6, <2>2
  <2> QED  BY <2>1, <2>2
<1>8. /\ v5' \in Form!Dialog /\ v5'.sid = v5.sid /\ v5'.before = v5.before
      /\ v5'.refused = TRUE /\ v5'.overtaken = v5.overtaken
  BY <1>3, <1>6 DEF Form!Dialog
<1>9. v7' \in Saves \cup {Null} /\ (v7' # Null => v7'.sent = v2')
  <2>1. v2' \in Form!Copy
    BY <1>7, CleanTyped
  <2>2. PICK w : w = [form |-> fm, sent |-> v2', served |-> FALSE]
    OBVIOUS
  <2>3. w \in Saves /\ w.sent = v2'
    BY <1>3, <2>1, <2>2 DEF Saves
  <2> QED  BY <1>6, <2>2, <2>3
<1>10. FTypeOK'
  BY <1>6, <1>7, <1>8, <1>9 DEF FInv, FTypeOK
<1>11. Edits => Edits'
  BY <1>6, <1>7, <1>8 DEF Edits
<1>12. Adds => Adds'
  BY <1>4, <1>6, <1>7, <1>8 DEF Adds
<1>13. v5' # Null
  BY <1>8, DialogTyped
<1> QED  BY <1>1, <1>6, <1>7, <1>8, <1>9, <1>10, <1>11, <1>12, <1>13 DEF FInv

(* handleModalCancel removes the section that was added, if it was noted.  *)
LEMMA CancelKeeps ==
  ASSUME FInv, Form!handleModalCancel
  PROVE  FInv'
<1>1. Clean(v2) /\ NewSection \in Form!Sid /\ v6 \in {Null, NewSection}
  BY DEF FInv, FTypeOK, Form!Sid
<1>2. Clean(v2')
  <2>1. v2' = IF v6 = Null THEN v2 ELSE Form!Without(v2, v6)
    BY DEF Form!handleModalCancel, Form!Cancelled
  <2> QED  BY <1>1, <2>1, WithoutClean
<1>3. v6' = Null /\ v5' = Null /\ UNCHANGED <<v1, v3, v4, v7, v8>>
  BY DEF Form!handleModalCancel
<1> QED  BY <1>2, <1>3 DEF FInv, FTypeOK

(* handleSave sends the copy while no dialog is open.                      *)
LEMMA SaveKeeps ==
  ASSUME FInv, Form!handleSave
  PROVE  FInv'
<1>1. v7' = [form |-> Null, sent |-> v2, served |-> FALSE] /\ v5 = Null
  BY DEF Form!handleSave, Form!Saving
<1>2. UNCHANGED <<v1, v2, v3, v4, v5, v6, v8>> /\ Clean(v2)
  BY DEF Form!handleSave, FInv, FTypeOK
<1>3. v7' \in Saves /\ v7'.sent = v2
  BY <1>1, <1>2, CleanTyped DEF Saves
<1> QED  BY <1>1, <1>2, <1>3 DEF FInv, FTypeOK

(* handleRemove removes a section and saves.                               *)
LEMMA RemoveKeeps ==
  ASSUME FInv, NEW sid \in Form!Sid, Form!handleRemove(sid)
  PROVE  FInv'
<1>1. v7' = [form |-> Null, sent |-> v2', served |-> FALSE] /\ v5 = Null
  BY DEF Form!handleRemove, Form!Saving
<1>2. UNCHANGED <<v1, v3, v4, v5, v6, v8>>
  BY DEF Form!handleRemove
<1>3. Clean(v2')
  BY WithoutClean DEF Form!handleRemove, FInv, FTypeOK
<1>4. v7' \in Saves /\ v7'.sent = v2'
  BY <1>1, <1>3, CleanTyped DEF Saves
<1> QED  BY <1>1, <1>2, <1>3, <1>4 DEF FInv, FTypeOK

(* The server takes what was sent.                                         *)
LEMMA SaveServed ==
  ASSUME FInv, Form!ServeSave
  PROVE  FInv'
<1>1. v7 \in Saves /\ Clean(v7.sent) /\ v7 # Null
  BY DEF FInv, FTypeOK, Form!ServeSave
<1>2. /\ v3' = v7.sent /\ v7' = [v7 EXCEPT !.served = TRUE]
      /\ UNCHANGED <<v1, v2, v4, v5, v6, v8>>
  BY DEF Form!ServeSave
<1>3. v7' \in Saves /\ v7'.sent = v7.sent
  BY <1>1, <1>2 DEF Saves
<1>4. FTypeOK'
  BY <1>1, <1>2, <1>3 DEF FInv, FTypeOK
<1>5. (Edits => Edits') /\ (Adds => Adds')
  BY <1>2 DEF Edits, Adds
<1> QED  BY <1>1, <1>2, <1>3, <1>4, <1>5 DEF FInv

(* The answer to a save: the copy is loaded anew, and a dialog that stays  *)
(* open is overtaken.                                                      *)
LEMMA ReturnsKeeps ==
  ASSUME FInv, Form!SaveReturns
  PROVE  FInv'
<1>1. /\ v7' = Null /\ v2' = v3 /\ v4' = Form!Shown(v1, v3) /\ UNCHANGED <<v1, v3, v8>>
      /\ \/ v5' = Null /\ v6' = Null
         \/ v5' = (IF v5 = Null THEN Null ELSE [v5 EXCEPT !.overtaken = TRUE]) /\ v6' = v6
  BY DEF Form!SaveReturns
<1>2. Clean(v3) /\ v4' \in Seq(Form!Sid)
  <2>1. Clean(v3)
    BY DEF FInv, FTypeOK
  <2>2. v3 \in Form!Copy
    BY <2>1, CleanTyped
  <2> QED  BY <1>1, <2>1, <2>2, ShownTyped
<1>3. \/ v5' = Null /\ v6' = Null
      \/ v5' \in Form!Dialog /\ v5'.overtaken = TRUE /\ v6' = v6 /\ v5 # Null
  <2>1. CASE v5' = Null /\ v6' = Null
    BY <2>1
  <2>2. CASE v5 = Null /\ v5' = Null /\ v6' = v6
    BY <2>2 DEF FInv
  <2>3. CASE v5 # Null /\ v5' = [v5 EXCEPT !.overtaken = TRUE] /\ v6' = v6
    <3>1. v5 \in Form!Dialog
      BY <2>3 DEF FInv, FTypeOK
    <3> QED  BY <2>3, <3>1 DEF Form!Dialog
  <2> QED  BY <1>1, <2>1, <2>2, <2>3
<1>4. FTypeOK'
  BY <1>1, <1>2, <1>3 DEF FInv, FTypeOK
<1>5. v5' # Null => v8' = Null /\ v1' # Null /\ v5'.overtaken = TRUE
  BY <1>1, <1>3 DEF FInv
<1>6. v5' = Null => v6' = Null
  <2>1. CASE v5' \in Form!Dialog
    BY <2>1, DialogTyped
  <2> QED  BY <1>3, <2>1
<1> QED  BY <1>1, <1>4, <1>5, <1>6 DEF FInv

(* A save that fails leaves all as it was.                                 *)
LEMMA FailsKeeps ==
  ASSUME FInv, Form!SaveFails
  PROVE  FInv'
<1>1. v7' = Null /\ UNCHANGED <<v1, v2, v3, v4, v5, v6, v8>>
  BY DEF Form!SaveFails
<1>2. (Edits => Edits') /\ (Adds => Adds')
  BY <1>1 DEF Edits, Adds
<1> QED  BY <1>1, <1>2 DEF FInv, FTypeOK

(* handleDrop moves a row and its section.                                 *)
LEMMA DropKeeps ==
  ASSUME FInv, NEW a \in Form!Sid, NEW b \in Form!Sid, NEW below \in BOOLEAN,
         Form!handleDrop(a, b, below)
  PROVE  FInv'
<1>1. /\ v5 = Null /\ a # b /\ v4' = Form!Placed(v4, a, b, below)
      /\ v2' = Form!move(v2, a, b, below) /\ UNCHANGED <<v1, v3, v5, v6, v7, v8>>
  BY DEF Form!handleDrop
<1>2. Contains(v4, a) /\ Contains(v4, b) /\ v4 \in Seq(Form!Sid) /\ Clean(v2)
  BY DEF Form!handleDrop, Form!ToSet, Contains, FInv, FTypeOK
<1>3. v4' \in Seq(Form!Sid)
  BY <1>1, <1>2, PlacedStays
<1>4. Clean(v2')
  BY <1>1, <1>2, MoveClean
<1> QED  BY <1>1, <1>3, <1>4 DEF FInv, FTypeOK

(* handleSort notes the order; the frame that follows moves rows and       *)
(* sections.                                                               *)
LEMMA SortKeeps ==
  ASSUME FInv, NEW list \in Form!SetToSeqs(Form!ToSet(v4)), Form!handleSort(list)
  PROVE  FInv'
<1>1. v5 = Null /\ v8' = list /\ UNCHANGED <<v1, v2, v3, v4, v5, v6, v7>>
  BY DEF Form!handleSort
<1>2. list \in Seq(Form!Sid)
  <2>1. v4 \in Seq(Form!Sid)
    BY DEF FInv, FTypeOK
  <2>2. PICK R : R = Form!ToSet(v4)
    OBVIOUS
  <2>3. R \subseteq Form!Sid /\ IsFiniteSet(R)
    <3>1. R = {v4[i] : i \in 1..Len(v4)}
      BY <2>1, <2>2 DEF Form!ToSet
    <3>2. IsFiniteSet(1..Len(v4))
      BY <2>1, FS_Interval
    <3>3. PICK D : D = 1..Len(v4)
      OBVIOUS
    <3>4. PICK g : g = [i \in D |-> v4[i]]
      OBVIOUS
    <3>5. g \in Surjection(D, R)
      BY <3>1, <3>3, <3>4 DEF Surjection
    <3>6. IsFiniteSet(R)
      BY <3>2, <3>3, <3>5, FS_Surjection
    <3> QED  BY <2>1, <3>1, <3>6
  <2>4. PICK n \in Nat : n = Cardinality(R)
    BY <2>3, FS_CardinalityType
  <2>5. list \in [1..n -> R]
    <3>1. list \in Form!SetToSeqs(R)
      BY <2>2
    <3> QED  BY <2>4, <3>1, FormWords DEF Form!SetToSeqs
  <2> QED  BY <2>3, <2>5
<1> QED  BY <1>1, <1>2 DEF FInv, FTypeOK

(* The frame of a sort, with no dialog open.                               *)
LEMMA FrameKeeps ==
  ASSUME FInv, Form!SortFrame
  PROVE  FInv'
<1>1. /\ v8 # Null /\ v8' = Null /\ v2' = Form!Lined(v2, v8)
      /\ UNCHANGED <<v1, v3, v5, v6, v7>>
  BY DEF Form!SortFrame
<1>2. v8 \in Seq(Form!Sid) /\ Clean(v2) /\ v4 \in Seq(Form!Sid) /\ v5 = Null
  BY <1>1 DEF FInv, FTypeOK
<1>3. Clean(v2')
  BY <1>1, <1>2, LinedClean
<1>4. v4' \in Seq(Form!Sid)
  <2>1. PICK I \in SUBSET (1..Len(v4)) : I = {i \in DOMAIN v4 : ~Form!Contains(v8, v4[i])}
    <3>1. {i \in DOMAIN v4 : ~Form!Contains(v8, v4[i])} \in SUBSET (1..Len(v4))
      BY <1>2
    <3> QED  BY <3>1
  <2>2. Picked(v4, I) \in Seq(Form!Sid)
    BY <1>2, PickedElements
  <2>3. v4' = IF v9 THEN v4 ELSE v8 \o Picked(v4, I)
    BY <2>1, FormWords DEF Form!SortFrame
  <2> QED  BY <1>2, <2>2, <2>3
<1> QED  BY <1>1, <1>2, <1>3, <1>4 DEF FInv, FTypeOK

(* The variables of the invariant; the others are the history and the      *)
(* bound.                                                                  *)
FormVars == <<v1, v2, v3, v4, v5, v6, v7, v8>>

(* Every step of the form keeps the invariant.                             *)
LEMMA FormKeeps == FInv /\ Form!Next => FInv'
<1> SUFFICES ASSUME FInv, Form!Next PROVE FInv'
  OBVIOUS
<1>1. ASSUME NEW sh \in Shapes, NEW opts \in sh.stored, Form!Open(sh, opts) PROVE FInv'
  BY <1>1, OpenKeeps
<1>2. ASSUME v1 # Null, v8 = Null, Form!User PROVE FInv'
  <2>1. CASE Form!handleAdd
    BY <1>2, <2>1, AddKeeps
  <2>2. CASE Form!handleModalSave
    BY <1>2, <2>2, ModalSaveKeeps
  <2>3. CASE Form!handleModalCancel
    BY <2>3, CancelKeeps
  <2>4. CASE Form!handleSave
    BY <2>4, SaveKeeps
  <2>5. ASSUME NEW s \in Form!Sid, Form!renderMoreOptionsModal(s) PROVE FInv'
    BY <1>2, <2>5, EditKeeps
  <2>6. ASSUME NEW s \in Form!Sid, Form!handleRemove(s) PROVE FInv'
    BY <2>6, RemoveKeeps
  <2>7. ASSUME NEW f \in Field, NEW v \in FormValue \cup {Null}, Form!Fill(f, v) PROVE FInv'
    BY <2>7, FillKeeps DEF FormValues
  <2>8. ASSUME NEW a \in Form!Sid, NEW b \in Form!Sid, NEW below \in BOOLEAN,
               Form!handleDrop(a, b, below)
        PROVE  FInv'
    BY <2>8, DropKeeps
  <2>9. ASSUME NEW list \in Form!SetToSeqs(Form!ToSet(v4)), Form!handleSort(list) PROVE FInv'
    BY <2>9, SortKeeps
  <2> QED  BY <1>2, <2>1, <2>2, <2>3, <2>4, <2>5, <2>6, <2>7, <2>8, <2>9 DEF Form!User
<1>3. CASE Form!ServeSave
  BY <1>3, SaveServed
<1>4. CASE Form!SaveReturns
  BY <1>4, ReturnsKeeps
<1>5. CASE Form!SaveFails
  BY <1>5, FailsKeeps
<1>6. CASE Form!SortFrame
  BY <1>6, FrameKeeps
<1> QED  BY <1>1, <1>2, <1>3, <1>4, <1>5, <1>6 DEF Form!Next

-----------------------------------------------------------------------------

(* What handleModalCancel leaves is the copy the dialog was opened on.     *)
LEMMA CancelUndoes ==
  ASSUME FInv, Form!handleModalCancel, ~v5.overtaken
  PROVE  IF Form!LeftBehind THEN v2'.order = Append(v5.before.order, NewSection)
         ELSE /\ v2'.order = v5.before.order
              /\ (v6 # Null \/ ~v5.refused) => v2' = v5.before
<1>1. v5 # Null /\ v2' = IF v6 = Null THEN v2 ELSE Form!Without(v2, v6)
  BY DEF Form!handleModalCancel, Form!Cancelled
<1>2. Clean(v2) /\ Clean(v5.before) /\ (Edits \/ Adds)
  BY <1>1 DEF FInv, FTypeOK
<1>3. Form!LeftBehind <=> /\ v5.sid = NewSection /\ ~v1.onMap
                          /\ ~Contains(v5.before.order, NewSection)
  BY FormWords DEF Form!LeftBehind, Form!Has
<1>4. CASE Edits
  <2>1. ~Form!LeftBehind /\ v2' = v2 /\ v6 = Null
    BY <1>1, <1>3, <1>4 DEF Edits
  <2> QED  BY <1>4, <2>1 DEF Edits
<1>5. CASE Adds
  <2>1. NewSection # Null /\ NewSection \in Form!Sid
    BY FormAssumption DEF Form!Sid
  <2>2. CASE ~v1.onMap
    <3>1. Form!LeftBehind /\ v2' = v2
      BY <1>1, <1>3, <1>5, <2>2 DEF Adds
    <3> QED  BY <1>5, <3>1 DEF Adds
  <2>3. CASE v1.onMap
    <3>1. ~Form!LeftBehind /\ v2' = Form!Without(v2, NewSection)
      BY <1>1, <1>3, <1>5, <2>1, <2>3 DEF Adds
    <3>2. PICK s \in Seq(Form!Sid) : s = v5.before.order
      BY <1>2, CleanTyped
    <3>3. Form!Others(v2.order, NewSection) = s
      <4>1. v2.order = Append(s, NewSection) /\ ~Contains(s, NewSection)
        BY <1>5, <3>2 DEF Adds
      <4> QED  BY <2>1, <4>1, OthersOfAppend
    <3>4. v2' = v5.before
      <4>1. PICK o \in [Form!Sid -> [Key -> FormValues]] : o = v2.opts
        BY <1>2, CleanTyped
      <4>2. PICK b \in [Form!Sid -> [Key -> FormValues]] : b = v5.before.opts
        BY <1>2, CleanTyped
      <4>3. b[NewSection] = Form!NoOptions
        BY <1>2, <1>5, <2>1, <4>2 DEF Clean, Adds
      <4>4. \A x \in Form!Sid \ {NewSection} : b[x] = o[x]
        BY <1>5, <4>1, <4>2 DEF Adds
      <4>5. [o EXCEPT ![NewSection] = Form!NoOptions] = b
        BY <4>3, <4>4
      <4>6. PICK w : w = Form!Without(v2, NewSection)
        OBVIOUS
      <4>7. w.order = s /\ w.opts = b /\ Clean(w)
        BY <1>2, <2>1, <3>3, <4>1, <4>5, <4>6, WithoutClean
      <4>8. w = [order |-> s, opts |-> b]
        BY <4>7 DEF Clean, Form!Copy
      <4>9. v5.before = [order |-> s, opts |-> b]
        BY <1>2, <3>2, <4>2 DEF Clean, Form!Copy
      <4> QED  BY <3>1, <4>6, <4>8, <4>9
    <3> QED  BY <3>1, <3>2, <3>4
  <2> QED  BY <2>2, <2>3
<1> QED  BY <1>2, <1>4, <1>5

(* A dialog closes with no save under way by handleModalCancel only.       *)
LEMMA StepUndoes == FInv /\ Form!Next => Form!Undone
<1> SUFFICES ASSUME FInv, Form!Next, v5 # Null, v5' = Null, v7 = Null, ~v5.overtaken
             PROVE  IF Form!LeftBehind THEN v2'.order = Append(v5.before.order, NewSection)
                    ELSE /\ v2'.order = v5.before.order
                         /\ (v6 # Null \/ ~v5.refused) => v2' = v5.before
  BY DEF Form!Undone
<1>1. Form!handleModalCancel
  <2>1. ASSUME NEW sh \in Shapes, NEW opts \in sh.stored, Form!Open(sh, opts) PROVE FALSE
    BY <2>1 DEF Form!Open
  <2>2. ASSUME Form!ServeSave \/ Form!SaveReturns \/ Form!SaveFails \/ Form!SortFrame PROVE FALSE
    BY <2>2 DEF Form!ServeSave, Form!SaveReturns, Form!SaveFails, Form!SortFrame
  <2>3. ASSUME Form!User, v1 # Null PROVE Form!handleModalCancel
    <3>1. ASSUME Form!handleModalSave PROVE FALSE
      <4>1. v5 \in Form!Dialog
        BY DEF FInv, FTypeOK
      <4>2. PICK fm \in Form!Dialog : fm = Form!checkDepends(v5)
        BY <4>1, CheckedKindred DEF Kindred
      <4>3. v5' = [fm EXCEPT !.refused = TRUE]
        BY <3>1, <4>2 DEF Form!handleModalSave
      <4>4. v5' \in Form!Dialog
        BY <4>3 DEF Form!Dialog
      <4> QED  BY <4>4, DialogTyped
    <3>2. ASSUME NEW f \in Field, NEW v \in FormValue \cup {Null}, Form!Fill(f, v) PROVE FALSE
      <4>1. FInv'
        BY <3>2, FillKeeps DEF FormValues
      <4>2. PICK fm \in Form!Dialog : fm = [v5 EXCEPT !.val[f] = v, !.ok[f] = Form!IsValid(v, f)]
        <5>1. v5 \in Form!Dialog /\ Form!IsValid(v, f) \in BOOLEAN
          BY DEF FInv, FTypeOK, Form!IsValid
        <5>2. [v5 EXCEPT !.val[f] = v, !.ok[f] = Form!IsValid(v, f)] \in Form!Dialog
          BY <5>1 DEF Form!Dialog
        <5> QED  BY <5>2
      <4>3. v5' \in Form!Dialog
        BY <3>2, <4>2, CheckedKindred DEF Form!Fill, Kindred
      <4> QED  BY <4>3, DialogTyped
    <3>3. ASSUME Form!handleAdd \/ Form!handleSave PROVE FALSE
      BY <3>3 DEF Form!handleAdd, Form!handleSave
    <3>4. ASSUME NEW s \in Form!Sid, Form!renderMoreOptionsModal(s) \/ Form!handleRemove(s)
          PROVE  FALSE
      BY <3>4 DEF Form!renderMoreOptionsModal, Form!handleRemove
    <3>5. ASSUME NEW a \in Form!Sid, NEW b \in Form!Sid, NEW below \in BOOLEAN,
                 Form!handleDrop(a, b, below)
          PROVE  FALSE
      BY <3>5 DEF Form!handleDrop
    <3>6. ASSUME NEW list, Form!handleSort(list) PROVE FALSE
      BY <3>6 DEF Form!handleSort
    <3> QED  BY <2>3, <3>1, <3>2, <3>3, <3>4, <3>5, <3>6 DEF Form!User
  <2> QED  BY <2>1, <2>2, <2>3 DEF Form!Next
<1> QED  BY <1>1, CancelUndoes

(* Nothing changes, nor does the invariant.                                *)
LEMMA FormStutter ==
  ASSUME UNCHANGED pagesVars
  PROVE  (FInv => FInv') /\ Form!Undone
<1>1. UNCHANGED <<v1, v2, v3, v4, v5, v6, v7, v8>>
  BY DEF pagesVars
<1>2. (Edits => Edits') /\ (Adds => Adds')
  BY <1>1 DEF Edits, Adds
<1> QED  BY <1>1, <1>2 DEF FInv, FTypeOK, Form!Undone

(* Dismissing a dialog takes back what it did to the page's copy           *)
(* (handleModalCancel of form.js), for any forms, fields, values and       *)
(* number of steps; the exceptions are those Undone names.                 *)
THEOREM FormUndoesCorrect == PagesSpec => FormUndoes
<1> DEFINE I == part = "form" => FInv
<1>1. PagesInit => I
  BY FInitial DEF PagesInit
<1>2. I /\ [PagesNext]_pagesVars => I' /\ (part = "form" => Form!Undone)
  <2> SUFFICES ASSUME I, [PagesNext]_pagesVars PROVE I' /\ (part = "form" => Form!Undone)
    OBVIOUS
  <2>1. CASE part = "form" /\ Form!Next /\ UNCHANGED part
    BY <2>1, FormKeeps, StepUndoes
  <2>2. CASE part # "form" /\ UNCHANGED part
    BY <2>2
  <2>3. CASE UNCHANGED pagesVars
    <3>1. UNCHANGED part
      BY <2>3 DEF pagesVars
    <3> QED  BY <2>3, <3>1, FormStutter
  <2> QED  BY <2>1, <2>2, <2>3 DEF PagesNext
<1>3. I /\ [PagesNext]_pagesVars => [part = "form" => Form!Undone]_pagesVars
  BY <1>2
<1> QED  BY <1>1, <1>2, <1>3, PTL DEF PagesSpec, FormUndoes

-----------------------------------------------------------------------------
(* The file picker (LuciFiles)                                             *)

(* The types; a removal or an upload is under way in a listing.            *)
PTypeOK ==
  /\ Filed(v1) /\ v2 \in Files!AnyEntry \cup {Null} /\ v3 \in Files!AnyEntry \cup {Null}
  /\ v4 \in BOOLEAN /\ v5 \in Files!Listing \cup {Null} /\ v6 \subseteq Files!Asked
  /\ v7 \in Files!Change \cup {Null} /\ v8 \in Nat /\ v9.dir \in Dir \cup {Null} /\ v9.n \in Nat
  /\ v7 # Null => v5 # Null /\ (v7.kind = "upload" => v7.entry.name \notin Dir)
(* The listing is the directory that was last asked for, as it is.         *)
ListingRight == v5 # Null /\ v5.dir = v9.dir /\ v5.rows = Files!Below(v9.dir)
(* One request for a listing is under way, for the directory last asked    *)
(* for, and none while a removal or an upload is.                          *)
OneAsk ==
  /\ \A a, b \in v6 : a = b
  /\ \A a \in v6 : a.dir = v9.dir /\ (a.rows # Null => a.rows = Files!Below(a.dir))
  /\ v7 # Null => v6 = {}
(* With nothing under way, the open listing is right.                      *)
AtRest ==
  /\ v4 => v5 # Null
  /\ v4 /\ v6 = {} /\ v7 = Null => ListingRight
(* Until a removal or an upload is carried out its listing is right; what  *)
(* is removed is there and is not the value.                               *)
ChangeKnown ==
  v7 # Null =>
    /\ v5 # Null /\ v7.drawn = v5.drawn
    /\ v4 /\ v7.done # TRUE => ListingRight
    /\ v7.kind = "remove" /\ v7.done = Null => v7.entry # v2 /\ v7.entry \in v1
(* The value is a file: it is there, or the directory it was in has gone   *)
(* with it.                                                                *)
PickedKnown ==
  v2 # Null =>
    /\ v2.name \notin Dir
    /\ v2 \notin v1 => /\ v2.dir # TopDir /\ Files!Entry(Up[v2.dir], v2.dir) \notin v1
                       /\ Files!Below(v2.dir) = {}
(* The invariant: after two requests have overlapped (raced) only the      *)
(* types are left of it.                                                   *)
PInv == PTypeOK /\ (~v10 => OneAsk /\ AtRest /\ ChangeKnown /\ PickedKnown)

(* What the types say of entries.                                          *)
LEMMA FilesTyped ==
  ASSUME PTypeOK
  PROVE  /\ v1 \subseteq Files!AnyEntry
         /\ \A e \in v1 : e.name \in Dir => e.name # TopDir /\ e.dir = Up[e.name]
         /\ v2 # Null => v2 \in Files!AnyEntry
BY DEF PTypeOK, Filed

(* The picker is closed at first.                                          *)
LEMMA FilesInitial == Files!Init => PInv
<1> SUFFICES ASSUME Files!Init PROVE PInv
  OBVIOUS
<1>1. Filed(v1) /\ v1 \subseteq Files!AnyEntry
  BY FilesAssumption DEF Files!Init, Filed
<1>2. v2 \in v1 \cup {Null} /\ v3 = v2 /\ (v2 # Null => v2.name \notin Dir)
  BY DEF Files!Init
<1>3. PTypeOK
  BY <1>1, <1>2 DEF Files!Init, PTypeOK
<1>4. OneAsk /\ AtRest /\ ChangeKnown
  BY DEF Files!Init, OneAsk, AtRest, ChangeKnown
<1>5. PickedKnown
  BY <1>2 DEF PickedKnown
<1> QED  BY <1>3, <1>4, <1>5 DEF PInv

(* A request goes out.                                                     *)
LEMMA AskTyped ==
  ASSUME PTypeOK, NEW d \in Dir, NEW opens \in BOOLEAN, Files!Ask(d, opens)
  PROVE  /\ v6' \subseteq Files!Asked /\ v9'.dir = d /\ v9'.n \in Nat
         /\ v6 = {} => \E a : /\ v6' = {a} /\ a.dir = d /\ a.rows = Null
<1>1. PICK a : a = [dir |-> d, opens |-> opens, rows |-> Null, n |-> v9.n]
  OBVIOUS
<1>2. v6' = v6 \cup {a} /\ v9' = [dir |-> d, n |-> v9.n + 1]
  BY <1>1 DEF Files!Ask
<1>3. a \in Files!Asked
  <2>1. PICK R : R = (SUBSET Files!AnyEntry) \cup {Null}
    OBVIOUS
  <2>2. Files!Asked = [dir : Dir, opens : BOOLEAN, rows : R, n : Nat]
    BY <2>1 DEF Files!Asked
  <2>3. Null \in R /\ v9.n \in Nat
    BY <2>1 DEF PTypeOK
  <2> QED  BY <1>1, <2>2, <2>3
<1>4. a.dir = d /\ a.rows = Null
  BY <1>1
<1> QED  BY <1>2, <1>3, <1>4 DEF PTypeOK

(* list() greys the listing.                                               *)
LEMMA ListTyped ==
  ASSUME PTypeOK, v5 # Null, NEW d \in Dir, Files!List(d)
  PROVE  v5' \in Files!Listing /\ v5' # Null
<1>1. v5 \in Files!Listing /\ v5' = [v5 EXCEPT !.rows = Null]
  BY DEF PTypeOK, Files!List
<1>2. v5' \in Files!Listing
  <2>1. PICK R : R = (SUBSET Files!AnyEntry) \cup {Null}
    OBVIOUS
  <2>2. Files!Listing = [dir : Dir, rows : R, drawn : Nat]
    BY <2>1 DEF Files!Listing
  <2>3. Null \in R
    BY <2>1
  <2> QED  BY <1>1, <2>2, <2>3
<1> QED  BY <1>2, FilesAssumption

(* handleFileBrowser asks for the directory of the value.                  *)
LEMMA BrowserKeeps ==
  ASSUME PInv, Files!handleFileBrowser
  PROVE  PInv'
<1>1. PICK d \in Dir : d = Files!Beside(v3)
  BY FilesAssumption DEF PInv, PTypeOK, Files!Beside, Files!AnyEntry
<1>2. Files!Ask(d, TRUE) /\ v4 = FALSE /\ UNCHANGED <<v1, v2, v3, v4, v5, v7, v8>>
  BY <1>1 DEF Files!handleFileBrowser, PInv, PTypeOK
<1>3. /\ v6' \subseteq Files!Asked /\ v9'.dir = d /\ v9'.n \in Nat
      /\ v6 = {} => \E a : v6' = {a} /\ a.dir = d /\ a.rows = Null
  BY <1>2, AskTyped DEF PInv
<1>4. PTypeOK'
  BY <1>2, <1>3 DEF PInv, PTypeOK
<1>5. ASSUME ~v10' PROVE (OneAsk /\ AtRest /\ ChangeKnown /\ PickedKnown)'
  <2>1. ~v10 /\ v6 = {} /\ v7 = Null
    BY <1>5 DEF Files!handleFileBrowser, Files!Overlaps
  <2>2. PICK a : v6' = {a} /\ a.dir = d /\ a.rows = Null
    BY <1>3, <2>1
  <2>3. OneAsk'
    BY <1>2, <1>3, <2>1, <2>2 DEF OneAsk
  <2>4. AtRest' /\ ChangeKnown'
    BY <1>2, <2>1 DEF AtRest, ChangeKnown
  <2>5. PickedKnown'
    BY <1>2, <2>1 DEF PInv, PickedKnown, Files!Below
  <2> QED  BY <2>3, <2>4, <2>5
<1> QED  BY <1>4, <1>5 DEF PInv

(* The rows of a listing that is drawn are entries.                        *)
LEMMA RowsTyped ==
  ASSUME PTypeOK, v5 # Null, v5.rows # Null
  PROVE  v5.rows \subseteq Files!AnyEntry /\ v5.dir \in Dir
<1>1. PICK R : R = (SUBSET Files!AnyEntry) \cup {Null}
  OBVIOUS
<1>2. Files!Listing = [dir : Dir, rows : R, drawn : Nat] /\ v5 \in Files!Listing
  BY <1>1 DEF Files!Listing, PTypeOK
<1>3. v5.rows \in R /\ v5.dir \in Dir
  BY <1>2
<1>4. v5.rows \in SUBSET Files!AnyEntry
  BY <1>1, <1>3
<1> QED  BY <1>3, <1>4

(* Opening a directory from the listing.                                   *)
LEMMA OpenedKeeps ==
  ASSUME PInv, Files!Clickable, NEW d \in Dir, Files!List(d),
         UNCHANGED <<v1, v2, v3, v4, v7, v8>>, v10' = (v10 \/ Files!Overlaps)
  PROVE  PInv'
<1>1. v5 # Null /\ v4 /\ PTypeOK
  BY DEF Files!Clickable, PInv
<1>2. v5' \in Files!Listing /\ v5' # Null
  BY <1>1, ListTyped
<1>3. /\ v6' \subseteq Files!Asked /\ v9'.dir = d /\ v9'.n \in Nat
      /\ v6 = {} => \E a : v6' = {a} /\ a.dir = d /\ a.rows = Null
  BY <1>1, AskTyped DEF Files!List
<1>4. PTypeOK'
  BY <1>1, <1>2, <1>3 DEF PTypeOK
<1>5. ASSUME ~v10' PROVE (OneAsk /\ AtRest /\ ChangeKnown /\ PickedKnown)'
  <2>1. ~v10 /\ v6 = {} /\ v7 = Null
    BY <1>5 DEF Files!Overlaps
  <2>2. PICK a : v6' = {a} /\ a.dir = d /\ a.rows = Null
    BY <1>3, <2>1
  <2>3. OneAsk'
    BY <1>3, <2>1, <2>2 DEF OneAsk
  <2>4. AtRest' /\ ChangeKnown'
    BY <1>2, <2>1, <2>2 DEF AtRest, ChangeKnown
  <2>5. PickedKnown'
    BY <2>1 DEF PInv, PickedKnown, Files!Below
  <2> QED  BY <2>3, <2>4, <2>5
<1> QED  BY <1>4, <1>5 DEF PInv

(* handleSelect takes a file, or opens the directory or the one above.     *)
LEMMA SelectKeeps ==
  ASSUME PInv, Files!handleSelect
  PROVE  PInv'
<1>1. /\ Files!Clickable /\ v5 # Null /\ v4 /\ PTypeOK
      /\ v10' = (v10 \/ Files!Overlaps) /\ UNCHANGED <<v1, v7, v8>>
  BY DEF Files!handleSelect, Files!Clickable, PInv
<1>2. ASSUME NEW d \in Files!Crumbs(v5.dir), Files!List(d), UNCHANGED <<v2, v3, v4>>
      PROVE  PInv'
  <2>1. d \in Dir
    BY <1>1, FilesAssumption DEF Files!Crumbs, PTypeOK, Files!Listing
  <2> QED  BY <1>1, <1>2, <2>1, OpenedKeeps
<1>3. ASSUME NEW e \in v5.rows, e.name \in Dir, Files!List(e.name), UNCHANGED <<v2, v3, v4>>
      PROVE  PInv'
  BY <1>1, <1>3, OpenedKeeps
<1>4. ASSUME v5.rows # Null, NEW e \in v5.rows, e.name \notin Dir,
             v2' = e, v3' = e, v4' = FALSE, UNCHANGED <<v5, v6, v9>>
      PROVE  PInv'
  <2>1. e \in Files!AnyEntry
    BY <1>1, <1>4, RowsTyped
  <2>2. PTypeOK'
    BY <1>1, <1>4, <2>1 DEF PTypeOK
  <2>3. ASSUME ~v10' PROVE (OneAsk /\ AtRest /\ ChangeKnown /\ PickedKnown)'
    <3>1. ~v10 /\ v6 = {} /\ v7 = Null
      BY <1>1, <2>3 DEF Files!Overlaps
    <3>2. e \in v1
      BY <1>1, <1>4, <3>1 DEF PInv, AtRest, ListingRight, Files!Below
    <3>3. OneAsk' /\ AtRest' /\ ChangeKnown'
      BY <1>1, <1>4, <3>1 DEF OneAsk, AtRest, ChangeKnown
    <3>4. PickedKnown'
      BY <1>1, <1>4, <3>2 DEF PickedKnown
    <3> QED  BY <3>3, <3>4
  <2> QED  BY <2>2, <2>3 DEF PInv
<1> QED  BY <1>2, <1>3, <1>4 DEF Files!handleSelect

(* The router lists the directory.                                         *)
LEMMA ServeListingKeeps ==
  ASSUME PInv, Files!ServeListing
  PROVE  PInv'
<1>1. PICK a \in v6 : /\ a.rows = Null
                      /\ v6' = (v6 \ {a}) \cup {[a EXCEPT !.rows = Files!Below(a.dir)]}
  BY DEF Files!ServeListing
<1>2. UNCHANGED <<v1, v2, v3, v4, v5, v7, v8, v9, v10>>
  BY DEF Files!ServeListing
<1>3. PICK b : b = [a EXCEPT !.rows = Files!Below(a.dir)]
  OBVIOUS
<1>4. a \in Files!Asked /\ v1 \subseteq Files!AnyEntry
  BY <1>1 DEF PInv, PTypeOK, Filed
<1>5. Files!Below(a.dir) \subseteq Files!AnyEntry
  BY <1>4 DEF Files!Below
<1>6. b \in Files!Asked /\ b.dir = a.dir /\ b.rows = Files!Below(a.dir)
  BY <1>3, <1>4, <1>5 DEF Files!Asked
<1>7. v6' = (v6 \ {a}) \cup {b}
  BY <1>1, <1>3
<1>8. PTypeOK'
  BY <1>2, <1>6, <1>7 DEF PInv, PTypeOK
<1>9. ASSUME ~v10 PROVE (OneAsk /\ AtRest /\ ChangeKnown /\ PickedKnown)'
  <2>1. v6 = {a} /\ v7 = Null /\ a.dir = v9.dir
    BY <1>1, <1>9 DEF PInv, OneAsk
  <2>2. v6' = {b} /\ b.rows = Files!Below(b.dir)'
    BY <1>2, <1>6, <1>7, <2>1 DEF Files!Below
  <2>3. OneAsk'
    BY <1>2, <1>6, <2>1, <2>2 DEF OneAsk
  <2>4. (AtRest /\ ChangeKnown /\ PickedKnown)'
    BY <1>2, <1>9, <2>1, <2>2 DEF PInv, AtRest, ChangeKnown, PickedKnown, Files!Below
  <2> QED  BY <2>3, <2>4
<1> QED  BY <1>2, <1>8, <1>9 DEF PInv

(* renderListing draws the answer.                                         *)
LEMMA RenderKeeps ==
  ASSUME PInv, Files!renderListing
  PROVE  PInv'
<1>1. PICK a \in v6 : /\ a.rows # Null /\ v6' = v6 \ {a}
                      /\ v5' = [dir |-> a.dir, rows |-> a.rows, drawn |-> v8 + 1]
                      /\ v4' = (v4 \/ a.opens)
  BY DEF Files!renderListing
<1>2. v8' = v8 + 1 /\ UNCHANGED <<v1, v2, v3, v7, v9, v10>>
  BY DEF Files!renderListing
<1>3. a \in Files!Asked /\ v8 \in Nat
  BY <1>1 DEF PInv, PTypeOK
<1>4. v5' \in Files!Listing /\ v5' # Null /\ v5'.dir = a.dir /\ v5'.rows = a.rows
  <2>1. v5' \in Files!Listing
    BY <1>1, <1>3 DEF Files!Asked, Files!Listing
  <2> QED  BY <1>1, <2>1, FilesAssumption
<1>5. v4' \in BOOLEAN
  BY <1>1, <1>3 DEF PInv, PTypeOK, Files!Asked
<1>6. PTypeOK'
  BY <1>1, <1>2, <1>3, <1>4, <1>5 DEF PInv, PTypeOK
<1>7. ASSUME ~v10 PROVE (OneAsk /\ AtRest /\ ChangeKnown /\ PickedKnown)'
  <2>1. v6' = {} /\ v7 = Null /\ a.dir = v9.dir /\ a.rows = Files!Below(a.dir)
    BY <1>1, <1>7 DEF PInv, OneAsk
  <2>2. (OneAsk /\ ChangeKnown)'
    BY <1>2, <2>1 DEF OneAsk, ChangeKnown
  <2>3. AtRest'
    BY <1>2, <1>4, <2>1 DEF AtRest, ListingRight, Files!Below
  <2>4. PickedKnown'
    BY <1>2, <1>7 DEF PInv, PickedKnown, Files!Below
  <2> QED  BY <2>2, <2>3, <2>4
<1> QED  BY <1>2, <1>6, <1>7 DEF PInv

(* handleCancel closes the listing.                                        *)
LEMMA CancelKeepsFiles ==
  ASSUME PInv, Files!handleCancel
  PROVE  PInv'
<1>1. v4' = FALSE /\ UNCHANGED <<v1, v2, v3, v5, v6, v7, v8, v9, v10>>
  BY DEF Files!handleCancel
<1>2. PTypeOK'
  BY <1>1 DEF PInv, PTypeOK
<1>3. ~v10 => (OneAsk /\ AtRest /\ ChangeKnown /\ PickedKnown)'
  BY <1>1 DEF PInv, OneAsk, AtRest, ChangeKnown, PickedKnown, Files!Below
<1> QED  BY <1>1, <1>2, <1>3 DEF PInv

(* handleReset forgets the value.                                          *)
LEMMA ResetKeeps ==
  ASSUME PInv, Files!handleReset
  PROVE  PInv'
<1>1. v4' = FALSE /\ v2' = Null /\ UNCHANGED <<v1, v3, v5, v6, v7, v8, v9, v10>>
  BY DEF Files!handleReset
<1>2. PTypeOK'
  BY <1>1 DEF PInv, PTypeOK
<1>3. ASSUME ~v10 PROVE (OneAsk /\ AtRest /\ ChangeKnown /\ PickedKnown)'
  <2>1. (OneAsk /\ AtRest /\ PickedKnown)'
    BY <1>1, <1>3 DEF PInv, OneAsk, AtRest, PickedKnown, Files!Below
  <2>2. ChangeKnown'
    <3>1. v7 # Null => v7.entry # Null
      BY FilesAssumption DEF PInv, PTypeOK, Files!Change
    <3> QED  BY <1>1, <1>3, <3>1 DEF PInv, ChangeKnown
  <2> QED  BY <2>1, <2>2
<1> QED  BY <1>1, <1>2, <1>3 DEF PInv

(* A removal or an upload starts.                                          *)
LEMMA StartedKeeps ==
  ASSUME PInv, Files!Clickable, v7 = Null, NEW e \in Files!AnyEntry,
         NEW kind \in {"remove", "upload"},
         v7' = [kind |-> kind, entry |-> e, drawn |-> v5.drawn, done |-> Null],
         v2' = v2 \/ v2' = Null, kind = "remove" => v2' # e /\ (~v10' => e \in v1),
         kind = "upload" => e.name \notin Dir,
         UNCHANGED <<v1, v3, v4, v5, v6, v8, v9>>, v10' = (v10 \/ Files!Overlaps)
  PROVE  PInv'
<1>1. v5 \in Files!Listing /\ v5 # Null /\ v4
  BY DEF Files!Clickable, PInv, PTypeOK
<1>2. v7' \in Files!Change /\ v7' # Null
  <2>1. v7' \in Files!Change
    BY <1>1 DEF Files!Listing, Files!Change
  <2> QED  BY <2>1, FilesAssumption
<1>3. PTypeOK'
  <2>1. v7'.kind = kind /\ v7'.entry = e
    OBVIOUS
  <2> QED  BY <1>1, <1>2, <2>1 DEF PInv, PTypeOK
<1>4. ASSUME ~v10' PROVE (OneAsk /\ AtRest /\ ChangeKnown /\ PickedKnown)'
  <2>1. ~v10 /\ v6 = {}
    BY <1>4 DEF Files!Overlaps
  <2>2. ListingRight'
    BY <1>1, <2>1 DEF PInv, AtRest, ListingRight, Files!Below
  <2>3. OneAsk'
    BY <2>1 DEF OneAsk
  <2>4. AtRest'
    BY <1>1, <1>2 DEF AtRest
  <2>5. ChangeKnown'
    BY <1>1, <1>4, <2>2 DEF ChangeKnown
  <2>6. PickedKnown'
    BY <2>1 DEF PInv, PickedKnown, Files!Below
  <2> QED  BY <2>3, <2>4, <2>5, <2>6
<1> QED  BY <1>3, <1>4 DEF PInv

(* handleDelete: the entry is one of the rows, and stops being the value.  *)
LEMMA DeleteKeeps ==
  ASSUME PInv, Files!handleDelete
  PROVE  PInv'
<1>1. PICK e : /\ e \in v5.rows /\ v5.rows # Null /\ Files!Clickable /\ v7 = Null
               /\ v7' = [kind |-> "remove", entry |-> e, drawn |-> v5.drawn, done |-> Null]
               /\ v2' = (IF e = v2 THEN Null ELSE v2)
               /\ v10' = (v10 \/ Files!Overlaps) /\ UNCHANGED <<v1, v3, v4, v5, v6, v8, v9>>
  BY DEF Files!handleDelete
<1>2. e \in Files!AnyEntry /\ e # Null
  <2>1. v5 # Null /\ PTypeOK
    BY <1>1 DEF Files!Clickable, PInv
  <2>2. v5.rows \subseteq Files!AnyEntry
    BY <1>1, <2>1, RowsTyped
  <2> QED  BY <1>1, <2>2, FilesAssumption
<1>3. (v2' = v2 \/ v2' = Null) /\ v2' # e
  BY <1>1, <1>2
<1>4. ~v10' => e \in v1
  BY <1>1 DEF Files!Overlaps, Files!Clickable, PInv, AtRest, ListingRight, Files!Below
<1> QED  BY <1>1, <1>2, <1>3, <1>4, StartedKeeps

(* handleUpload: a file of the directory that is shown.                    *)
LEMMA UploadKeeps ==
  ASSUME PInv, Files!handleUpload
  PROVE  PInv'
<1>1. PICK n \in FileName :
        /\ Files!Clickable /\ v7 = Null
        /\ v7' = [kind |-> "upload", entry |-> Files!Entry(v5.dir, n),
                  drawn |-> v5.drawn, done |-> Null]
        /\ v10' = (v10 \/ Files!Overlaps) /\ UNCHANGED <<v1, v2, v3, v4, v5, v6, v8, v9>>
  BY DEF Files!handleUpload
<1>2. PICK e : e = Files!Entry(v5.dir, n)
  OBVIOUS
<1>3. e \in Files!AnyEntry
  <2>1. v5.dir \in Dir
    BY <1>1 DEF Files!Clickable, PInv, PTypeOK, Files!Listing
  <2> QED  BY <1>2, <2>1 DEF Files!Entry, Files!AnyEntry
<1>4. v7' = [kind |-> "upload", entry |-> e, drawn |-> v5.drawn, done |-> Null]
  BY <1>1, <1>2
<1>5. e.name \notin Dir
  BY <1>2, FilesAssumption DEF Files!Entry
<1> QED  BY <1>1, <1>3, <1>4, <1>5, StartedKeeps

(* The router carries a removal or an upload out, or refuses it.           *)
LEMMA RemovedKnown ==
  ASSUME PInv, ~v10, NEW e, e = v7.entry, v7 # Null, v7.kind = "remove", v7.done = Null,
         v1' = v1 \ Files!Gone(e), v2' = v2
  PROVE  PickedKnown'
<1>1. e # v2 /\ e \in v1 /\ PickedKnown
  BY DEF PInv, ChangeKnown
<1>2. SUFFICES ASSUME v2 # Null, v2 \notin v1'
               PROVE  /\ v2.dir # TopDir /\ Files!Entry(Up[v2.dir], v2.dir) \notin v1'
                      /\ \A x \in v1' : x.dir # v2.dir
  BY <1>1 DEF PickedKnown, Files!Below
<1>3. CASE v2 \notin v1
  BY <1>1, <1>2, <1>3 DEF PickedKnown, Files!Below
<1>4. CASE v2 \in v1
  <2>1. e.name \in Dir /\ v2.dir = e.name
    BY <1>1, <1>2, <1>4 DEF Files!Gone
  <2>2. e.name # TopDir /\ e.dir = Up[e.name] /\ e \in Files!AnyEntry
    BY <1>1, <2>1 DEF PInv, PTypeOK, Filed
  <2>3. Files!Entry(Up[v2.dir], v2.dir) = e
    BY <2>1, <2>2 DEF Files!Entry, Files!AnyEntry
  <2>4. e \notin v1' /\ \A x \in v1' : x.dir # e.name
    BY <2>1 DEF Files!Gone
  <2> QED  BY <2>1, <2>2, <2>3, <2>4
<1> QED  BY <1>3, <1>4

(* A file that is uploaded takes nothing away.                             *)
LEMMA UploadedKnown ==
  ASSUME PickedKnown, NEW e, e.name \notin Dir, v2 # Null => v2 \in Files!AnyEntry,
         e.dir = TopDir \/ Files!Entry(Up[e.dir], e.dir) \in v1,
         v1' = v1 \cup {e}, v2' = v2
  PROVE  PickedKnown'
<1>1. SUFFICES ASSUME v2 # Null, v2 \notin v1'
               PROVE  /\ v2.dir # TopDir /\ Files!Entry(Up[v2.dir], v2.dir) \notin v1'
                      /\ \A x \in v1' : x.dir # v2.dir
  BY DEF PickedKnown, Files!Below
<1>2. /\ v2.dir # TopDir /\ Files!Entry(Up[v2.dir], v2.dir) \notin v1
      /\ \A x \in v1 : x.dir # v2.dir
  BY <1>1 DEF PickedKnown, Files!Below
<1>3. v2.dir # e.dir
  BY <1>2
<1>4. Files!Entry(Up[v2.dir], v2.dir) # e
  <2>1. v2.dir \in Dir
    BY <1>1 DEF Files!AnyEntry
  <2>2. Files!Entry(Up[v2.dir], v2.dir).name = v2.dir
    BY DEF Files!Entry
  <2> QED  BY <2>1, <2>2
<1> QED  BY <1>2, <1>3, <1>4

(* The router carries the change out, or refuses it.                       *)
LEMMA ServeChangeKeeps ==
  ASSUME PInv, NEW ok \in BOOLEAN, Files!ServeChange(ok)
  PROVE  PInv'
<1>1. /\ v7 # Null /\ v7.done = Null /\ v7' = [v7 EXCEPT !.done = ok]
      /\ UNCHANGED <<v2, v3, v4, v5, v6, v8, v9, v10>>
  BY DEF Files!ServeChange
<1>2. v7 \in Files!Change /\ PTypeOK /\ Null # TRUE
  BY <1>1, FilesAssumption DEF PInv, PTypeOK
<1>3. PICK e \in Files!AnyEntry : e = v7.entry
  BY <1>2 DEF Files!Change
<1>4. /\ v7' \in Files!Change /\ v7'.done = ok /\ v7'.entry = e /\ v7'.kind = v7.kind
      /\ v7'.drawn = v7.drawn
  BY <1>1, <1>2, <1>3 DEF Files!Change
<1>5. v7' # Null
  BY <1>4, FilesAssumption
<1>6. \/ v1' = v1
      \/ ok /\ v7.kind = "remove" /\ v1' = v1 \ Files!Gone(e)
      \/ /\ ok /\ v7.kind = "upload" /\ v1' = v1 \cup {e}
         /\ e.dir = TopDir \/ Files!Entry(Up[e.dir], e.dir) \in v1
  <2>1. v7.kind \in {"remove", "upload"}
    BY <1>2 DEF Files!Change
  <2> QED  BY <1>3, <2>1 DEF Files!ServeChange
<1>7. ~ok => v1' = v1
  BY DEF Files!ServeChange
<1>8. Filed(v1')
  BY <1>1, <1>2, <1>3, <1>6 DEF PTypeOK, Filed
<1>9. PTypeOK'
  <2>1. Filed(v1)'
    BY <1>8 DEF Filed
  <2> QED  BY <1>1, <1>2, <1>3, <1>4, <2>1 DEF PTypeOK
<1>10. ASSUME ~v10 PROVE (OneAsk /\ AtRest /\ ChangeKnown /\ PickedKnown)'
  <2>1. v6 = {} /\ OneAsk /\ AtRest /\ ChangeKnown /\ PickedKnown
    BY <1>1, <1>10 DEF PInv, OneAsk
  <2>2. OneAsk'
    BY <1>1, <2>1 DEF OneAsk
  <2>3. AtRest'
    BY <1>1, <1>5, <2>1 DEF AtRest
  <2>4. ChangeKnown'
    <3>1. v4 /\ ~ok => ListingRight'
      BY <1>1, <1>2, <1>7, <2>1 DEF ChangeKnown, ListingRight, Files!Below
    <3>2. Null # ok
      BY FilesAssumption
    <3> QED  BY <1>1, <1>4, <2>1, <3>1, <3>2 DEF ChangeKnown
  <2>5. PickedKnown'
    <3>1. CASE v1' = v1
      BY <1>1, <2>1, <3>1 DEF PickedKnown, Files!Below
    <3>2. CASE v7.kind = "remove" /\ v1' = v1 \ Files!Gone(e)
      BY <1>1, <1>3, <1>10, <3>2, RemovedKnown
    <3>3. CASE v7.kind = "upload" /\ v1' = v1 \cup {e}
               /\ (e.dir = TopDir \/ Files!Entry(Up[e.dir], e.dir) \in v1)
      <4>1. e.name \notin Dir /\ (v2 # Null => v2 \in Files!AnyEntry)
        BY <1>1, <1>2, <1>3, <3>3 DEF PTypeOK
      <4> QED  BY <1>1, <2>1, <3>3, <4>1, UploadedKnown
    <3> QED  BY <1>6, <3>1, <3>2, <3>3
  <2> QED  BY <2>2, <2>3, <2>4, <2>5
<1> QED  BY <1>1, <1>9, <1>10 DEF PInv

(* The answer to a change: the listing is asked for again where it has     *)
(* changed.                                                                *)
LEMMA ReturnsKeepsFiles ==
  ASSUME PInv, Files!ChangeReturns
  PROVE  PInv'
<1>1. /\ v7 # Null /\ v7.done # Null /\ v7' = Null
      /\ UNCHANGED <<v1, v2, v3, v4, v8, v10>> /\ PTypeOK /\ v5 # Null
  BY DEF Files!ChangeReturns, PInv, PTypeOK
<1>2. v7 \in Files!Change
  BY <1>1 DEF PTypeOK
<1>3. PICK d \in Dir : d = v7.entry.dir
  BY <1>2 DEF Files!Change, Files!AnyEntry
<1>4. v7.done \in BOOLEAN /\ v7.kind \in {"remove", "upload"}
  BY <1>1, <1>2 DEF Files!Change
<1>5. CASE Files!List(d)
  <2>1. v5' \in Files!Listing /\ v5' # Null
    BY <1>1, <1>5, ListTyped
  <2>2. /\ v6' \subseteq Files!Asked /\ v9'.dir = d /\ v9'.n \in Nat
        /\ v6 = {} => \E a : v6' = {a} /\ a.dir = d /\ a.rows = Null
    BY <1>1, <1>5, AskTyped DEF Files!List
  <2>3. PTypeOK'
    BY <1>1, <2>1, <2>2 DEF PTypeOK
  <2>4. ASSUME ~v10 PROVE (OneAsk /\ AtRest /\ ChangeKnown /\ PickedKnown)'
    <3>1. v6 = {} /\ PickedKnown
      BY <1>1, <2>4 DEF PInv, OneAsk
    <3>2. PICK a : v6' = {a} /\ a.dir = d /\ a.rows = Null
      BY <2>2, <3>1
    <3>3. OneAsk' /\ AtRest' /\ ChangeKnown'
      BY <1>1, <2>1, <2>2, <3>2 DEF OneAsk, AtRest, ChangeKnown
    <3>4. PickedKnown'
      BY <1>1, <3>1 DEF PickedKnown, Files!Below
    <3> QED  BY <3>3, <3>4
  <2> QED  BY <1>1, <2>3, <2>4 DEF PInv
<1>6. CASE UNCHANGED <<v5, v6, v9>> /\ ~(v5.drawn = v7.drawn /\ (v7.done \/ v7.kind = "upload"))
  <2>1. PTypeOK'
    BY <1>1, <1>6 DEF PTypeOK
  <2>2. ASSUME ~v10 PROVE (OneAsk /\ AtRest /\ ChangeKnown /\ PickedKnown)'
    <3>1. v6 = {} /\ ChangeKnown /\ PickedKnown /\ v7.done = FALSE
      BY <1>1, <1>4, <1>6, <2>2 DEF PInv, OneAsk, ChangeKnown
    <3>2. v4 => ListingRight
      BY <1>1, <3>1 DEF ChangeKnown
    <3>3. OneAsk' /\ AtRest' /\ ChangeKnown' /\ PickedKnown'
      BY <1>1, <1>6, <3>1, <3>2 DEF OneAsk, AtRest, ChangeKnown, PickedKnown, ListingRight, Files!Below
    <3> QED  BY <3>3
  <2> QED  BY <1>1, <2>1, <2>2 DEF PInv
<1>7. \/ Files!List(d)
      \/ UNCHANGED <<v5, v6, v9>> /\ ~(v5.drawn = v7.drawn /\ (v7.done \/ v7.kind = "upload"))
  BY <1>3 DEF Files!ChangeReturns
<1> QED  BY <1>5, <1>6, <1>7

(* Every step of the picker keeps the invariant.                           *)
LEMMA FilesKeep == PInv /\ Files!Next => PInv'
<1> SUFFICES ASSUME PInv, Files!Next PROVE PInv'
  OBVIOUS
<1> QED  BY BrowserKeeps, SelectKeeps, CancelKeepsFiles, ResetKeeps, DeleteKeeps, UploadKeeps,
            ServeListingKeeps, RenderKeeps, ServeChangeKeeps, ReturnsKeepsFiles DEF Files!Next

(* The open picker shows its directory as it is on the router, and the     *)
(* value names a file that is there or has gone with its directory         *)
(* (FileUpload of ui.js), for any directories, disks and number of         *)
(* requests.                                                               *)
THEOREM ListingsCorrect == PagesSpec => []ListingsShown
<1> DEFINE I == part = "files" => PInv
<1>1. PagesInit => I
  BY FilesInitial DEF PagesInit
<1>2. I /\ [PagesNext]_pagesVars => I'
  <2> SUFFICES ASSUME I, [PagesNext]_pagesVars PROVE I'
    OBVIOUS
  <2>1. CASE part = "files" /\ Files!Next /\ UNCHANGED part
    BY <2>1, FilesKeep
  <2>2. CASE part # "files" /\ UNCHANGED part
    BY <2>2
  <2>3. CASE UNCHANGED pagesVars
    <3>1. UNCHANGED <<part, v1, v2, v3, v4, v5, v6, v7, v8, v9, v10>>
      BY <2>3 DEF pagesVars
    <3>2. PInv => PInv'
      BY <3>1 DEF PInv, PTypeOK, Filed, OneAsk, AtRest, ChangeKnown, PickedKnown, ListingRight, Files!Below
    <3> QED  BY <3>1, <3>2
  <2> QED  BY <2>1, <2>2, <2>3 DEF PagesNext
<1>3. I => ListingsShown
  <2> SUFFICES ASSUME PInv PROVE Files!FilesShown
    BY DEF ListingsShown
  <2> QED  BY DEF PInv, AtRest, ListingRight, PickedKnown, Files!FilesShown, Files!Below
<1> QED  BY <1>1, <1>2, <1>3, PTL DEF PagesSpec

-----------------------------------------------------------------------------
(* The wireless page (LuciWireless)                                        *)

(* Sections have names of their own.                                       *)
SidsDiffer(cfg) == \A i, k \in 1..Len(cfg) : cfg[i].sid = cfg[k].sid => i = k
(* The scan is a record of four fields.                                    *)
ScanOf(s) == [cache |-> s.cache, rows |-> s.rows, polled |-> s.polled, calls |-> s.calls]
(* The types.                                                              *)
WTypeOK ==
  /\ v4 = ScanOf(v4)
  /\ v1 \in [WifiRadio -> BOOLEAN] /\ v2 \in Seq(Wireless!Net)
  /\ v3 \in Wireless!Dialog \cup {Null}
(* The dialog shows the stations of the last answer as seen and the others *)
(* of the cache as stale.                                                  *)
WScan ==
  Wireless!Scanning =>
    /\ v7.last \subseteq v7.all
    /\ v4.cache = Wireless!Stale(v7.all)
    /\ v4.rows = Wireless!Fresh(v7.last) \cup Wireless!Stale(v7.all \ v7.last)
(* The invariant: what is on was on, or was turned on by the user, and     *)
(* with sections that have no name nothing has been done yet.              *)
WInv ==
  /\ WTypeOK /\ SidsDiffer(v2)
  /\ (\E i \in DOMAIN v2 : v2[i].anon) => v3 = Null /\ v5 = {}
  /\ v5 \subseteq Wireless!OnNow /\ Wireless!OnNow \subseteq v6
  /\ WScan

-----------------------------------------------------------------------------

(* The page's operators on sequences, and the smallest of a set.           *)
LEMMA WirelessWords ==
  /\ \A s, I : Wireless!Picked(s, I) = Picked(s, I)
  /\ \A S : Wireless!Min(S) = CHOOSE x \in S : \A y \in S : x <= y
<1>5. \A S : Wireless!Cardinality(S) = Cardinality(S)
  BY DEF Wireless!Cardinality, Cardinality, Wireless!IsFiniteSet, IsFiniteSet
<1>1. ASSUME NEW s, NEW I PROVE Wireless!Picked(s, I) = Picked(s, I)
  <2>1. \A i : Wireless!Rank(I, i) = Rank(I, i)
    BY <1>5 DEF Wireless!Rank, Rank
  <2>2. \A k : Wireless!Nth(I, k) = Nth(I, k)
    BY <2>1 DEF Wireless!Nth, Nth
  <2> QED  BY <1>5, <2>2 DEF Wireless!Picked, Picked
<1>2. \A S : Wireless!Min(S) = CHOOSE x \in S : \A y \in S : x <= y
  BY DEF Wireless!Min
<1> QED  BY <1>1, <1>2

(* The names that are given away.                                          *)
Taken(cfg) == {cfg[i].sid : i \in 1..Len(cfg)}

(* Among as many numbers as there are sections and one more, one is free.  *)
LEMMA FreeName ==
  ASSUME NEW cfg \in Seq(Wireless!Net), NEW offset \in Nat
  PROVE  LET k == Wireless!next_free_sid(cfg, offset)
         IN k \in Nat /\ offset <= k /\ k \notin Taken(cfg)
<1>1. PICK n \in Nat : n = Len(cfg) /\ DOMAIN cfg = 1..n
  OBVIOUS
<1>2. PICK D : D = 1..n
  OBVIOUS
<1>3. PICK T : T = offset..(offset + n)
  OBVIOUS
<1>4. PICK free : free = {k \in T : \A i \in D : cfg[i].sid # k}
  OBVIOUS
<1>5. free # {}
  <2>1. SUFFICES ASSUME \A k \in T : \E i \in D : cfg[i].sid = k PROVE FALSE
    BY <1>4
  <2>2. PICK f : f = [i \in D |-> IF cfg[i].sid \in T THEN cfg[i].sid ELSE offset]
    OBVIOUS
  <2>3. f \in [D -> T]
    <3>1. offset \in T
      BY <1>3
    <3> QED  BY <2>2, <3>1
  <2>4. \A k \in T : \E i \in D : f[i] = k
    <3>1. ASSUME NEW k \in T PROVE \E i \in D : f[i] = k
      <4>1. PICK i \in D : cfg[i].sid = k
        BY <2>1
      <4> QED  BY <2>2, <4>1
    <3> QED  BY <3>1
  <2>5. f \in Surjection(D, T)
    BY <2>3, <2>4 DEF Surjection
  <2>6. IsFiniteSet(D) /\ Cardinality(D) = n
    <3>1. IsFiniteSet(1..n) /\ Cardinality(1..n) = (IF 1 > n THEN 0 ELSE n - 1 + 1)
      BY FS_Interval
    <3> QED  BY <1>2, <3>1
  <2>7. Cardinality(T) = n + 1
    <3>1. Cardinality(offset..(offset + n))
            = (IF offset > offset + n THEN 0 ELSE (offset + n) - offset + 1)
      BY FS_Interval
    <3> QED  BY <1>3, <3>1
  <2>8. Cardinality(T) <= Cardinality(D)
    BY <2>5, <2>6, FS_Surjection
  <2> QED  BY <2>6, <2>7, <2>8
<1>6. PICK m \in free : \A y \in free : m <= y
  <2>1. free \in SUBSET Nat
    BY <1>3, <1>4
  <2> QED  BY <1>5, <2>1, Least
<1>7. PICK k \in free : k = Wireless!next_free_sid(cfg, offset)
  <2>1. Wireless!next_free_sid(cfg, offset) = Wireless!Min(free)
    BY <1>1, <1>2, <1>3, <1>4 DEF Wireless!next_free_sid
  <2>2. Wireless!Min(free) = CHOOSE x \in free : \A y \in free : x <= y
    BY WirelessWords
  <2>3. (CHOOSE x \in free : \A y \in free : x <= y) \in free
    BY <1>6
  <2> QED  BY <2>1, <2>2, <2>3
<1>8. k \in Nat /\ offset <= k /\ k \notin Taken(cfg)
  BY <1>1, <1>2, <1>3, <1>4, <1>7 DEF Taken
<1> QED  BY <1>7, <1>8

-----------------------------------------------------------------------------
(* Names given when the page opens                                         *)
Named(nets, i, before) ==
  IF nets[i].anon THEN Wireless!next_free_sid(nets, before + 1) ELSE before

(* Each new name is free and greater than the one before.                  *)
LEMMA NamedRises ==
  ASSUME NEW cfg \in Seq(Wireless!Net), NEW i \in 1..Len(cfg), NEW b \in Int, -1 <= b
  PROVE  /\ Named(cfg, i, b) \in Int /\ b <= Named(cfg, i, b)
         /\ cfg[i].anon => /\ Named(cfg, i, b) \in Nat /\ b < Named(cfg, i, b)
                           /\ Named(cfg, i, b) \notin Taken(cfg)
<1>1. CASE cfg[i].anon
  <2>1. b + 1 \in Nat
    OBVIOUS
  <2>2. PICK k : k = Wireless!next_free_sid(cfg, b + 1)
    OBVIOUS
  <2>3. k \in Nat /\ b + 1 <= k /\ k \notin Taken(cfg)
    BY <2>1, <2>2, FreeName
  <2> QED  BY <1>1, <2>2, <2>3 DEF Named
<1>2. CASE ~cfg[i].anon
  BY <1>2 DEF Named
<1> QED  BY <1>1, <1>2

(* Anonymous sections get names that nobody has and that differ.           *)
LEMMA NamesGiven ==
  ASSUME v2 \in Seq(Wireless!Net)
  PROVE  /\ \A i \in 1..Len(v2) : v2[i].anon =>
              Wireless!NewName(i) \in Nat /\ Wireless!NewName(i) \notin Taken(v2)
         /\ \A i, k \in 1..Len(v2) : v2[i].anon /\ v2[k].anon /\ i < k =>
              Wireless!NewName(i) < Wireless!NewName(k)
<1>0. PICK cfg \in Seq(Wireless!Net) : cfg = v2
  OBVIOUS
<1>1. PICK N \in Nat : N = Len(cfg)
  OBVIOUS
<1>2. PICK K : K = {x \in Int : -1 <= x}
  OBVIOUS
<1> DEFINE F == [p \in K \X (1..N) |-> Named(cfg, p[2], p[1])]
<1>3. F \in [K \X (1..N) -> K]
  <2>1. \A p \in K \X (1..N) : Named(cfg, p[2], p[1]) \in K
    <3>1. ASSUME NEW b \in K, NEW i \in 1..N PROVE Named(cfg, i, b) \in K
      <4>1. Named(cfg, i, b) \in Int /\ b <= Named(cfg, i, b)
        BY <1>1, <1>2, NamedRises
      <4> QED  BY <1>2, <4>1
    <3> QED  BY <3>1
  <2> QED  BY <2>1
<1>4. \E h : FollowsBy(h, K, -1, N, F)
  <2>1. -1 \in K
    BY <1>2
  <2>2. PICK G : G = F
    OBVIOUS
  <2>3. G \in [K \X (1..N) -> K]
    BY <1>3, <2>2
  <2>4. \E h : FollowsBy(h, K, -1, N, G)
    BY <2>1, <2>3, Recursion
  <2> QED  BY <2>2, <2>4
<1>5. PICK h \in [0..N -> K] : h[0] = -1 /\ \A i \in 1..N : h[i] = Named(cfg, i, h[i - 1])
  <2>1. PICK h \in [0..N -> K] : h[0] = -1 /\ \A i \in 1..N : h[i] = F[<<h[i - 1], i>>]
    BY <1>4 DEF FollowsBy
  <2>2. ASSUME NEW i \in 1..N PROVE h[i] = Named(cfg, i, h[i - 1])
    <3>1. i - 1 \in 0..N
      OBVIOUS
    <3>2. h[i - 1] \in K
      BY <3>1
    <3>3. h[i] = F[<<h[i - 1], i>>]
      BY <2>1
    <3> QED  BY <3>2, <3>3
  <2> QED  BY <2>1, <2>2
<1> DEFINE given[k \in 0..N] ==
        IF k = 0 THEN -1
        ELSE IF v2[k].anon THEN Wireless!next_free_sid(v2, given[k - 1] + 1) ELSE given[k - 1]
<1>6. h = [k \in 0..N |-> IF k = 0 THEN -1
             ELSE IF v2[k].anon THEN Wireless!next_free_sid(v2, h[k - 1] + 1) ELSE h[k - 1]]
  BY <1>0, <1>5 DEF Named
<1>7. given = [k \in 0..N |-> IF k = 0 THEN -1
             ELSE IF v2[k].anon THEN Wireless!next_free_sid(v2, given[k - 1] + 1) ELSE given[k - 1]]
  BY <1>6 DEF given
<1>8. \A i : Wireless!NewName(i) = given[i]
  BY <1>0, <1>1 DEF Wireless!NewName
<1> HIDE DEF given
<1>9. given[0] = -1 /\ \A i \in 1..N : given[i] = Named(cfg, i, given[i - 1])
  BY <1>0, <1>7 DEF Named
<1>10. \A i \in 0..N : given[i] \in K
  <2>1. given[0] \in K
    BY <1>2, <1>9
  <2>2. ASSUME NEW i \in 1..N, given[i - 1] \in K PROVE given[i] \in K
    <3>1. Named(cfg, i, given[i - 1]) \in Int /\ given[i - 1] <= Named(cfg, i, given[i - 1])
      BY <1>1, <1>2, <2>2, NamedRises
    <3> QED  BY <1>2, <1>9, <2>2, <3>1
  <2> QED  BY <2>1, <2>2, StepByStep
<1>11. ASSUME NEW i \in 1..N
       PROVE  /\ given[i - 1] \in Int /\ given[i] \in Int /\ given[i - 1] <= given[i]
              /\ cfg[i].anon => given[i] \in Nat /\ given[i - 1] < given[i] /\ given[i] \notin Taken(cfg)
  <2>1. given[i - 1] \in K
    <3>1. i - 1 \in 0..N
      OBVIOUS
    <3> QED  BY <1>10, <3>1
  <2>2. PICK b \in K : b = given[i - 1]
    BY <2>1
  <2>3. given[i] = Named(cfg, i, b) /\ b \in Int /\ -1 <= b
    BY <1>2, <1>9, <2>2
  <2>4. /\ Named(cfg, i, b) \in Int /\ b <= Named(cfg, i, b)
        /\ cfg[i].anon => /\ Named(cfg, i, b) \in Nat /\ b < Named(cfg, i, b)
                          /\ Named(cfg, i, b) \notin Taken(cfg)
    BY <1>1, <2>3, NamedRises
  <2> QED  BY <2>2, <2>3, <2>4
<1>12. ASSUME NEW i \in 1..N, NEW k \in 1..N, i < k PROVE given[i] <= given[k - 1]
  <2>1. PICK M \in Nat : M = k - 1 - i
    <3>1. k - 1 - i \in Nat
      BY <1>12
    <3> QED  BY <3>1
  <2>2. PICK g : g = [d \in 0..M |-> given[i + d]]
    OBVIOUS
  <2>3. PICK A : A = {x \in Int : given[i] <= x}
    OBVIOUS
  <2>4. g[0] \in A
    BY <1>11, <2>2, <2>3
  <2>5. ASSUME NEW d \in 1..M, g[d - 1] \in A PROVE g[d] \in A
    <3>1. i + d \in 1..N /\ (i + d) - 1 = i + (d - 1) /\ d - 1 \in 0..M /\ d \in 0..M
      BY <2>1
    <3>2. g[d - 1] = given[(i + d) - 1] /\ g[d] = given[i + d]
      BY <2>2, <3>1
    <3>3. given[(i + d) - 1] <= given[i + d] /\ given[i + d] \in Int /\ given[(i + d) - 1] \in Int
      BY <1>11, <3>1
    <3>4. given[i] \in Int
      BY <1>11
    <3> QED  BY <2>3, <2>5, <3>2, <3>3, <3>4
  <2>6. g[M] \in A
    <3>1. \A d \in 0..M : g[d] \in A
      BY <2>4, <2>5, StepByStep
    <3> QED  BY <3>1
  <2>7. i + M = k - 1 /\ g[M] = given[i + M]
    BY <2>1, <2>2
  <2> QED  BY <2>3, <2>6, <2>7
<1>13. ASSUME NEW i \in 1..N, NEW k \in 1..N, i < k, cfg[k].anon PROVE given[i] < given[k]
  <2>1. given[i] <= given[k - 1] /\ given[k - 1] < given[k]
    BY <1>11, <1>12, <1>13
  <2>2. given[i] \in Int /\ given[k - 1] \in Int /\ given[k] \in Int
    BY <1>11
  <2> QED  BY <2>1, <2>2
<1> QED  BY <1>0, <1>1, <1>8, <1>11, <1>13

(* The sections that are on.                                               *)
LEMMA OnMembers ==
  ASSUME v2 \in Seq(Wireless!Net)
  PROVE  \A x : x \in Wireless!OnNow <=>
                 \E i \in 1..Len(v2) : Wireless!On(v2[i]) /\ v2[i].sid = x
BY DEF Wireless!OnNow

(* A section is a section.                                                 *)
LEMMA NetTyped ==
  ASSUME v2 \in Seq(Wireless!Net), NEW i \in 1..Len(v2)
  PROVE  /\ v2[i] \in Wireless!Net /\ v2[i].sid \in Nat /\ v2[i].device \in WifiRadio
         /\ v2[i].off \in BOOLEAN /\ v2[i].anon \in BOOLEAN
<1>1. v2[i] \in Wireless!Net
  OBVIOUS
<1> QED  BY <1>1 DEF Wireless!Net

(* The page is opened with a configuration.                                *)
LEMMA WirelessInitial == Wireless!Init => WInv
<1> SUFFICES ASSUME Wireless!Init PROVE WInv
  OBVIOUS
<1>1. PICK s \in WifiStart : v1 = s.off /\ v2 = s.nets
  BY DEF Wireless!Init
<1>2. WTypeOK /\ SidsDiffer(v2)
  <2>1. v4 = ScanOf(v4)
    BY DEF Wireless!Init, Wireless!Quiet, ScanOf
  <2> QED  BY <1>1, <2>1, WirelessAssumption DEF Wireless!Init, WTypeOK, SidsDiffer
<1>3. ~Wireless!Scanning /\ v3 = Null /\ v5 = {} /\ v6 = Wireless!OnNow
  BY DEF Wireless!Init, Wireless!Scanning
<1> QED  BY <1>2, <1>3 DEF WInv, WScan

(* handleMigration names the anonymous sections and turns nothing on or    *)
(* off.                                                                    *)
LEMMA MigrationKeeps ==
  ASSUME WInv, Wireless!handleMigration
  PROVE  WInv'
<1>1. PICK N \in Nat : N = Len(v2) /\ DOMAIN v2 = 1..N /\ v2 \in Seq(Wireless!Net)
  BY DEF WInv, WTypeOK
<1>2. v3 = Null /\ v5 = {} /\ UNCHANGED <<v1, v3, v4, v5, v7>>
  BY DEF WInv, Wireless!handleMigration
<1>3. v2' = [i \in 1..N |-> IF v2[i].anon
                            THEN [v2[i] EXCEPT !.sid = Wireless!NewName(i), !.anon = FALSE]
                            ELSE v2[i]]
  BY <1>1 DEF Wireless!handleMigration
<1>4. ASSUME NEW i \in 1..N
      PROVE  /\ v2'[i] \in Wireless!Net /\ v2'[i].anon = FALSE
             /\ v2'[i].off = v2[i].off /\ v2'[i].device = v2[i].device
             /\ v2'[i].sid = IF v2[i].anon THEN Wireless!NewName(i) ELSE v2[i].sid
  <2>1. v2[i] \in Wireless!Net /\ v2[i].anon \in BOOLEAN
    BY <1>1, NetTyped
  <2>2. CASE v2[i].anon
    <3>1. Wireless!NewName(i) \in Nat
      BY <1>1, <2>2, NamesGiven
    <3>2. PICK m : m = Wireless!NewName(i)
      OBVIOUS
    <3>3. v2'[i] = [v2[i] EXCEPT !.sid = m, !.anon = FALSE]
      BY <1>3, <2>2, <3>2
    <3> QED  BY <2>1, <2>2, <3>1, <3>2, <3>3 DEF Wireless!Net
  <2>3. CASE ~v2[i].anon
    <3>1. v2'[i] = v2[i]
      BY <1>3, <2>3
    <3> QED  BY <2>1, <2>3, <3>1
  <2> QED  BY <2>2, <2>3
<1>5. v2' \in Seq(Wireless!Net) /\ Len(v2') = N /\ DOMAIN v2' = 1..N
  <2>1. v2' \in [1..N -> Wireless!Net]
    BY <1>3, <1>4
  <2> QED  BY <2>1
<1>6. SidsDiffer(v2')
  <2>1. ASSUME NEW i \in 1..N, NEW k \in 1..N, i < k PROVE v2'[i].sid # v2'[k].sid
    <3>1. v2[i].sid # v2[k].sid
      BY <1>1, <2>1 DEF WInv, SidsDiffer
    <3>2. v2[i].sid \in Taken(v2) /\ v2[k].sid \in Taken(v2)
      BY <1>1 DEF Taken
    <3>3. v2[i].anon => Wireless!NewName(i) \in Nat /\ Wireless!NewName(i) \notin Taken(v2)
      BY <1>1, NamesGiven
    <3>4. v2[k].anon => Wireless!NewName(k) \in Nat /\ Wireless!NewName(k) \notin Taken(v2)
      BY <1>1, NamesGiven
    <3>5. v2[i].anon /\ v2[k].anon => Wireless!NewName(i) < Wireless!NewName(k)
      BY <1>1, <2>1, NamesGiven
    <3>6. v2[i].anon /\ v2[k].anon => Wireless!NewName(i) # Wireless!NewName(k)
      BY <3>3, <3>4, <3>5
    <3> QED  BY <1>4, <3>1, <3>2, <3>3, <3>4, <3>6
  <2> QED  BY <1>5, <2>1 DEF SidsDiffer
<1>7. Wireless!OnNow' \subseteq v6'
  <2>1. v6' = {v2'[i].sid : i \in {k \in 1..N : Wireless!On(v2[k])}}
    BY <1>1 DEF Wireless!handleMigration
  <2>2. ASSUME NEW x \in Wireless!OnNow' PROVE x \in v6'
    <3>1. PICK i \in 1..N : ~v2'[i].off /\ ~v1'[v2'[i].device] /\ v2'[i].sid = x
      BY <1>5 DEF Wireless!OnNow, Wireless!On
    <3>2. Wireless!On(v2[i])
      BY <1>2, <1>4, <3>1 DEF Wireless!On
    <3> QED  BY <2>1, <3>1, <3>2
  <2> QED  BY <2>2
<1>8. WTypeOK'
  BY <1>2, <1>5 DEF WInv, WTypeOK, ScanOf
<1>9. WScan'
  BY <1>2 DEF WScan, Wireless!Scanning
<1>10. SidsDiffer(v2)'
  BY <1>6 DEF SidsDiffer
<1> QED  BY <1>2, <1>7, <1>8, <1>9, <1>10 DEF WInv

(* Setting or unsetting the option `disabled' of one section.              *)
LEMMA SetOffTyped ==
  ASSUME v2 \in Seq(Wireless!Net), NEW i \in 1..Len(v2), NEW off \in BOOLEAN
  PROVE  LET set == Wireless!SetOff(i, off)
         IN /\ set \in Seq(Wireless!Net) /\ Len(set) = Len(v2)
            /\ \A k \in 1..Len(v2) : k # i => set[k] = v2[k]
            /\ set[i].off = off /\ set[i].sid = v2[i].sid /\ set[i].device = v2[i].device
            /\ set[i].anon = v2[i].anon
<1>1. v2[i] \in Wireless!Net
  BY NetTyped
<1>2. PICK n \in Wireless!Net : /\ n = [v2[i] EXCEPT !.off = off]
                                /\ n.off = off /\ n.sid = v2[i].sid
                                /\ n.device = v2[i].device /\ n.anon = v2[i].anon
  <2>1. PICK m \in Wireless!Net : m = v2[i]
    BY <1>1
  <2>2. PICK n : n = [m EXCEPT !.off = off]
    OBVIOUS
  <2>3. /\ n \in Wireless!Net /\ n.off = off /\ n.sid = m.sid
        /\ n.device = m.device /\ n.anon = m.anon
    BY <2>2 DEF Wireless!Net
  <2> QED  BY <2>1, <2>2, <2>3
<1>3. Wireless!SetOff(i, off) = [v2 EXCEPT ![i] = n]
  BY <1>2 DEF Wireless!SetOff
<1> QED  BY <1>2, <1>3

(* network_updown turns one network on or off, and others off or on that   *)
(* share its radio, as the user asked.                                     *)
LEMMA SwitchKeeps ==
  ASSUME WInv, NEW i \in DOMAIN v2, Wireless!network_updown(i)
  PROVE  WInv'
<1>1. PICK N \in Nat : N = Len(v2) /\ DOMAIN v2 = 1..N /\ v2 \in Seq(Wireless!Net)
  BY DEF WInv, WTypeOK
<1>2. /\ v3 = Null /\ (\A k \in 1..N : ~v2[k].anon) /\ UNCHANGED <<v3, v4, v7>> /\ i \in 1..N
      /\ SidsDiffer(v2) /\ v5 \subseteq Wireless!OnNow /\ Wireless!OnNow \subseteq v6
  BY <1>1 DEF Wireless!network_updown, Wireless!NoDialog, WInv
<1>3. PICK r \in WifiRadio : r = v2[i].device
  BY <1>1, NetTyped
<1>4. v1 \in [WifiRadio -> BOOLEAN]
  BY DEF WInv, WTypeOK
<1>5. PICK off \in BOOLEAN : off = Wireless!On(v2[i])
  BY DEF Wireless!On
<1>6. v2' = Wireless!SetOff(i, off)
  BY <1>5 DEF Wireless!network_updown
<1>7. /\ v2' \in Seq(Wireless!Net) /\ Len(v2') = N /\ DOMAIN v2' = 1..N
      /\ \A k \in 1..N : k # i => v2'[k] = v2[k]
      /\ v2'[i].off = off /\ v2'[i].sid = v2[i].sid /\ v2'[i].device = r
      /\ v2'[i].anon = v2[i].anon
  BY <1>1, <1>2, <1>3, <1>6, SetOffTyped
<1>8. PICK b \in BOOLEAN : /\ v1' = [v1 EXCEPT ![r] = b]
                           /\ ~off => b = FALSE
                           /\ off => b = (v1[r] \/ \A k \in 1..N : v2'[k].device = r => v2'[k].off)
  <2>1. CASE off
    BY <1>3, <1>4, <1>5, <1>7, <2>1 DEF Wireless!network_updown, Wireless!AllOff
  <2>2. CASE ~off
    BY <1>3, <1>4, <1>5, <2>2 DEF Wireless!network_updown
  <2> QED  BY <2>1, <2>2
<1>9. v1' \in [WifiRadio -> BOOLEAN] /\ v1'[r] = b /\ \A d \in WifiRadio : d # r => v1'[d] = v1[d]
  BY <1>4, <1>8
<1>10. WTypeOK'
  BY <1>2, <1>7, <1>9 DEF WInv, WTypeOK, ScanOf
<1>11. SidsDiffer(v2)'
  BY <1>1, <1>2, <1>7 DEF SidsDiffer
<1>12. \A x : x \in Wireless!OnNow <=> \E k \in 1..N : ~v2[k].off /\ ~v1[v2[k].device] /\ v2[k].sid = x
  BY <1>1, OnMembers DEF Wireless!On
<1>13. \A x : x \in Wireless!OnNow' <=>
              \E k \in 1..N : ~v2'[k].off /\ ~v1'[v2'[k].device] /\ v2'[k].sid = x
  BY <1>7 DEF Wireless!OnNow, Wireless!On
<1>14. v5' \subseteq Wireless!OnNow' /\ Wireless!OnNow' \subseteq v6'
  <2>1. CASE off
    <3>1. ~v2[i].off /\ ~v1[r]
      BY <1>3, <1>5, <2>1 DEF Wireless!On
    <3>2. v5' = v5 \ {v2[i].sid} /\ v6' = v6 \ {v2[i].sid}
      BY <1>5, <2>1 DEF Wireless!network_updown
    <3>3. ASSUME NEW x \in v5' PROVE x \in Wireless!OnNow'
      <4>1. PICK k \in 1..N : ~v2[k].off /\ ~v1[v2[k].device] /\ v2[k].sid = x
        BY <1>2, <1>12, <3>2
      <4>2. k # i /\ v2'[k] = v2[k]
        BY <1>7, <3>2, <4>1
      <4>3. v2[k].device \in WifiRadio
        BY <1>1, NetTyped
      <4>4. ~v1'[v2[k].device]
        <5>1. CASE v2[k].device = r
          BY <1>8, <1>9, <2>1, <3>1, <4>1, <4>2, <5>1
        <5>2. CASE v2[k].device # r
          BY <1>9, <4>1, <4>3, <5>2
        <5> QED  BY <5>1, <5>2
      <4> QED  BY <1>13, <4>1, <4>2, <4>4
    <3>4. ASSUME NEW x \in Wireless!OnNow' PROVE x \in v6'
      <4>1. PICK k \in 1..N : ~v2'[k].off /\ ~v1'[v2'[k].device] /\ v2'[k].sid = x
        BY <1>13
      <4>2. k # i /\ v2'[k] = v2[k] /\ v2[k].device \in WifiRadio
        BY <1>1, <1>7, <2>1, <4>1, NetTyped
      <4>3. ~v1[v2[k].device]
        BY <1>9, <3>1, <4>1, <4>2
      <4>4. x \in Wireless!OnNow
        BY <1>12, <4>1, <4>2, <4>3
      <4>5. x # v2[i].sid
        BY <1>1, <1>2, <4>1, <4>2 DEF SidsDiffer
      <4> QED  BY <1>2, <3>2, <4>4, <4>5
    <3> QED  BY <3>3, <3>4
  <2>2. CASE ~off
    <3>1. /\ v5' = v5 \cup {v2[i].sid}
          /\ v6' = v6 \cup {v2[i].sid} \cup {m.sid : m \in {m \in Wireless!OfRadio(r) : ~m.off}}
      BY <1>3, <1>5, <2>2 DEF Wireless!network_updown
    <3>2. ~v1'[r]
      BY <1>8, <1>9, <2>2
    <3>3. ASSUME NEW x \in v5' PROVE x \in Wireless!OnNow'
      <4>1. CASE x = v2[i].sid
        BY <1>2, <1>7, <1>13, <2>2, <3>2, <4>1
      <4>2. CASE x # v2[i].sid
        <5>1. PICK k \in 1..N : ~v2[k].off /\ ~v1[v2[k].device] /\ v2[k].sid = x
          BY <1>2, <1>12, <3>1, <4>2
        <5>2. v2'[k] = v2[k] /\ v2[k].device \in WifiRadio
          BY <1>1, <1>7, <4>2, <5>1, NetTyped
        <5>3. ~v1'[v2[k].device]
          BY <1>9, <3>2, <5>1, <5>2
        <5> QED  BY <1>13, <5>1, <5>2, <5>3
      <4> QED  BY <4>1, <4>2
    <3>4. ASSUME NEW x \in Wireless!OnNow' PROVE x \in v6'
      <4>1. PICK k \in 1..N : ~v2'[k].off /\ ~v1'[v2'[k].device] /\ v2'[k].sid = x
        BY <1>13
      <4>2. CASE k = i
        BY <1>7, <3>1, <4>1, <4>2
      <4>3. CASE k # i
        <5>1. v2'[k] = v2[k] /\ v2[k].device \in WifiRadio
          BY <1>1, <1>7, <4>3, NetTyped
        <5>2. CASE v2[k].device = r
          <6>1. v2[k] \in Wireless!OfRadio(r)
            BY <1>1, <5>2 DEF Wireless!OfRadio
          <6> QED  BY <3>1, <4>1, <5>1, <6>1
        <5>3. CASE v2[k].device # r
          <6>1. ~v1[v2[k].device]
            BY <1>9, <4>1, <5>1, <5>3
          <6>2. x \in Wireless!OnNow
            BY <1>12, <4>1, <5>1, <6>1
          <6> QED  BY <1>2, <3>1, <6>2
        <5> QED  BY <5>2, <5>3
      <4> QED  BY <4>2, <4>3
    <3> QED  BY <3>3, <3>4
  <2> QED  BY <2>1, <2>2
<1>15. WScan'
  BY <1>2 DEF WScan, Wireless!Scanning
<1>16. ~\E k \in DOMAIN v2' : v2'[k].anon
  BY <1>2, <1>7
<1> QED  BY <1>10, <1>11, <1>14, <1>15, <1>16 DEF WInv

(* A section at the end, with a name nobody has.                           *)
LEMMA SectionAdded ==
  ASSUME NEW cfg \in Seq(Wireless!Net), SidsDiffer(cfg), NEW n \in Wireless!Net,
         n.sid \notin Taken(cfg)
  PROVE  /\ Append(cfg, n) \in Seq(Wireless!Net) /\ SidsDiffer(Append(cfg, n))
         /\ Len(Append(cfg, n)) = Len(cfg) + 1 /\ Append(cfg, n)[Len(cfg) + 1] = n
         /\ \A i \in 1..Len(cfg) : Append(cfg, n)[i] = cfg[i]
<1>1. PICK t \in Seq(Wireless!Net) :
        /\ t = Append(cfg, n) /\ Len(t) = Len(cfg) + 1 /\ t[Len(cfg) + 1] = n
        /\ \A i \in 1..Len(cfg) : t[i] = cfg[i]
  <2>1. PICK t : t = Append(cfg, n)
    OBVIOUS
  <2>2. t \in Seq(Wireless!Net) /\ Len(t) = Len(cfg) + 1 /\ t[Len(cfg) + 1] = n
    BY <2>1
  <2>3. \A i \in 1..Len(cfg) : t[i] = cfg[i]
    BY <2>1
  <2> QED  BY <2>1, <2>2, <2>3
<1>2. \A i \in 1..Len(cfg) : cfg[i].sid # n.sid
  BY DEF Taken
<1>3. SidsDiffer(t)
  BY <1>1, <1>2 DEF SidsDiffer
<1> QED  BY <1>1, <1>3

(* A section that is added.                                                *)
LEMMA SectionTyped ==
  ASSUME NEW sid \in Nat, NEW r \in WifiRadio
  PROVE  /\ Wireless!Section(sid, r) \in Wireless!Net /\ Wireless!Section(sid, r).sid = sid
         /\ Wireless!Section(sid, r).device = r /\ Wireless!Section(sid, r).off = FALSE
         /\ Wireless!Section(sid, r).anon = FALSE
BY DEF Wireless!Section, Wireless!Net

(* A dialog that is opened.                                                *)
LEMMA EditOpens ==
  ASSUME NEW r \in WifiRadio, NEW at \in {"scan", "join", "edit"}
  PROVE  [at |-> at, radio |-> r] \in Wireless!Dialog
BY DEF Wireless!Dialog

(* handleAdd adds a section under a free name.                             *)
LEMMA AddKeepsNets ==
  ASSUME WInv, NEW r \in WifiRadio, Wireless!handleAdd(r)
  PROVE  WInv'
<1>1. PICK N \in Nat : N = Len(v2) /\ DOMAIN v2 = 1..N /\ v2 \in Seq(Wireless!Net)
  BY DEF WInv, WTypeOK
<1>2. /\ (\A k \in 1..N : ~v2[k].anon) /\ UNCHANGED <<v4, v7>> /\ SidsDiffer(v2)
      /\ v5 \subseteq Wireless!OnNow /\ Wireless!OnNow \subseteq v6
      /\ v1 \in [WifiRadio -> BOOLEAN]
  BY <1>1 DEF Wireless!handleAdd, Wireless!NoDialog, WInv, WTypeOK
<1>3. PICK sid \in Nat : /\ sid = Wireless!next_free_sid(v2, N) /\ sid \notin Taken(v2)
  BY <1>1, FreeName
<1>4. PICK n \in Wireless!Net : /\ n = Wireless!Section(sid, r) /\ n.sid = sid /\ n.device = r
                                /\ n.off = FALSE /\ n.anon = FALSE
  BY SectionTyped
<1>5. /\ v2' = Append(v2, n) /\ v5' = v5 \cup {sid}
      /\ v6' = v6 \cup {sid} \cup {m.sid : m \in {m \in Wireless!OfRadio(r) : ~m.off}}
      /\ v1' = [v1 EXCEPT ![r] = FALSE] /\ v3' = [at |-> "edit", radio |-> r]
  BY <1>1, <1>3, <1>4 DEF Wireless!handleAdd
<1>6. /\ v2' \in Seq(Wireless!Net) /\ SidsDiffer(v2') /\ Len(v2') = N + 1 /\ v2'[N + 1] = n
      /\ (\A i \in 1..N : v2'[i] = v2[i]) /\ DOMAIN v2' = 1..(N + 1)
  <2>1. n.sid \notin Taken(v2)
    BY <1>3, <1>4
  <2> QED  BY <1>1, <1>2, <1>5, <2>1, SectionAdded
<1>7. v1' \in [WifiRadio -> BOOLEAN] /\ ~v1'[r] /\ \A d \in WifiRadio : d # r => v1'[d] = v1[d]
  BY <1>2, <1>5
<1>8. v3' \in Wireless!Dialog
  BY <1>5, EditOpens
<1>9. WTypeOK'
  BY <1>2, <1>6, <1>7, <1>8 DEF WInv, WTypeOK, ScanOf
<1>10. SidsDiffer(v2)'
  BY <1>6 DEF SidsDiffer
<1>11. ~\E k \in DOMAIN v2' : v2'[k].anon
  BY <1>2, <1>4, <1>6
<1>12. \A x : x \in Wireless!OnNow <=> \E k \in 1..N : ~v2[k].off /\ ~v1[v2[k].device] /\ v2[k].sid = x
  BY <1>1, OnMembers DEF Wireless!On
<1>13. \A x : x \in Wireless!OnNow' <=>
              \E k \in 1..(N + 1) : ~v2'[k].off /\ ~v1'[v2'[k].device] /\ v2'[k].sid = x
  BY <1>6 DEF Wireless!OnNow, Wireless!On
<1>14. ASSUME NEW x \in v5' PROVE x \in Wireless!OnNow'
  <2>1. CASE x = sid
    <3>1. N + 1 \in 1..(N + 1)
      OBVIOUS
    <3> QED  BY <1>4, <1>6, <1>7, <1>13, <2>1, <3>1
  <2>2. CASE x # sid
    <3>1. PICK k \in 1..N : ~v2[k].off /\ ~v1[v2[k].device] /\ v2[k].sid = x
      BY <1>2, <1>5, <1>12, <2>2
    <3>2. k \in 1..(N + 1) /\ v2'[k] = v2[k] /\ v2[k].device \in WifiRadio
      BY <1>1, <1>6, NetTyped
    <3> QED  BY <1>7, <1>13, <3>1, <3>2
  <2> QED  BY <2>1, <2>2
<1>15. ASSUME NEW x \in Wireless!OnNow' PROVE x \in v6'
  <2>1. PICK k \in 1..(N + 1) : ~v2'[k].off /\ ~v1'[v2'[k].device] /\ v2'[k].sid = x
    BY <1>13
  <2>2. CASE k = N + 1
    BY <1>4, <1>5, <1>6, <2>1, <2>2
  <2>3. CASE k # N + 1
    <3>1. k \in 1..N
      BY <2>3
    <3>2. v2'[k] = v2[k] /\ v2[k].device \in WifiRadio
      BY <1>1, <1>6, <3>1, NetTyped
    <3>3. CASE v2[k].device = r
      <4>1. v2[k] \in Wireless!OfRadio(r)
        BY <1>1, <3>1, <3>3 DEF Wireless!OfRadio
      <4> QED  BY <1>5, <2>1, <3>2, <4>1
    <3>4. CASE v2[k].device # r
      <4>1. x \in Wireless!OnNow
        BY <1>7, <1>12, <2>1, <3>1, <3>2, <3>4
      <4> QED  BY <1>2, <1>5, <4>1
    <3> QED  BY <3>3, <3>4
  <2> QED  BY <2>2, <2>3
<1>16. ~Wireless!Scanning'
  BY <1>5 DEF Wireless!Scanning
<1> QED  BY <1>9, <1>10, <1>11, <1>14, <1>15, <1>16 DEF WInv, WScan

(* Some of the sections are kept.                                          *)
LEMMA SectionsKept ==
  ASSUME NEW cfg \in Seq(Wireless!Net), SidsDiffer(cfg), NEW I \in SUBSET (1..Len(cfg))
  PROVE  LET kept == Wireless!Picked(cfg, I)
         IN /\ kept \in Seq(Wireless!Net) /\ SidsDiffer(kept)
            /\ \A k \in 1..Len(kept) : \E i \in I : kept[k] = cfg[i]
            /\ \A i \in I : \E k \in 1..Len(kept) : kept[k] = cfg[i]
<1>1. PICK kept : kept = Picked(cfg, I)
  OBVIOUS
<1>2. Distinct(cfg)
  BY DEF SidsDiffer, Distinct
<1>3. /\ kept \in Seq(Wireless!Net) /\ Distinct(kept)
      /\ \A e : Contains(kept, e) <=> \E i \in I : cfg[i] = e
  BY <1>1, <1>2, PickedElements
<1>4. \A e : Contains(kept, e) <=> \E k \in 1..Len(kept) : kept[k] = e
  BY <1>3 DEF Contains
<1>5. \A k \in 1..Len(kept) : \E i \in I : kept[k] = cfg[i]
  BY <1>3, <1>4
<1>6. \A i \in I : \E k \in 1..Len(kept) : kept[k] = cfg[i]
  BY <1>3, <1>4
<1>7. ASSUME NEW j \in 1..Len(kept), NEW k \in 1..Len(kept), kept[j].sid = kept[k].sid PROVE j = k
  <2>1. PICK a \in I : kept[j] = cfg[a]
    BY <1>5
  <2>2. PICK b \in I : kept[k] = cfg[b]
    BY <1>5
  <2>3. a = b
    BY <1>7, <2>1, <2>2 DEF SidsDiffer
  <2> QED  BY <1>3, <2>1, <2>2, <2>3 DEF Distinct
<1>8. SidsDiffer(kept)
  BY <1>7 DEF SidsDiffer
<1> QED  BY <1>1, <1>3, <1>5, <1>6, <1>8, WirelessWords

(* handleRemove removes one.                                               *)
LEMMA RemoveKeepsNets ==
  ASSUME WInv, NEW i \in DOMAIN v2, Wireless!handleRemove(i)
  PROVE  WInv'
<1>1. PICK N \in Nat : N = Len(v2) /\ DOMAIN v2 = 1..N /\ v2 \in Seq(Wireless!Net)
  BY DEF WInv, WTypeOK
<1>2. /\ (\A k \in 1..N : ~v2[k].anon) /\ UNCHANGED <<v1, v3, v4, v7>> /\ SidsDiffer(v2)
      /\ v3 = Null /\ v5 \subseteq Wireless!OnNow /\ Wireless!OnNow \subseteq v6
      /\ v1 \in [WifiRadio -> BOOLEAN] /\ i \in 1..N
  BY <1>1 DEF Wireless!handleRemove, Wireless!NoDialog, WInv, WTypeOK
<1>3. PICK I \in SUBSET (1..N) : I = (1..N) \ {i}
  <2>1. (1..N) \ {i} \in SUBSET (1..N)
    OBVIOUS
  <2> QED  BY <2>1
<1>4. /\ v2' = Wireless!Picked(v2, I) /\ v5' = v5 \ {v2[i].sid} /\ v6' = v6 \ {v2[i].sid}
  BY <1>1, <1>3 DEF Wireless!handleRemove
<1>5. PICK M \in Nat :
        /\ M = Len(v2') /\ DOMAIN v2' = 1..M /\ v2' \in Seq(Wireless!Net) /\ SidsDiffer(v2')
        /\ \A k \in 1..M : \E j \in I : v2'[k] = v2[j]
        /\ \A j \in I : \E k \in 1..M : v2'[k] = v2[j]
  <2>1. PICK cfg \in Seq(Wireless!Net) : cfg = v2
    BY <1>1
  <2>2. PICK kept : kept = Wireless!Picked(cfg, I)
    OBVIOUS
  <2>3. /\ kept \in Seq(Wireless!Net) /\ SidsDiffer(kept)
        /\ \A k \in 1..Len(kept) : \E j \in I : kept[k] = cfg[j]
        /\ \A j \in I : \E k \in 1..Len(kept) : kept[k] = cfg[j]
    <3>1. SidsDiffer(cfg) /\ I \in SUBSET (1..Len(cfg))
      BY <1>1, <1>2, <2>1
    <3> QED  BY <2>2, <3>1, SectionsKept
  <2>4. v2' = kept
    BY <1>4, <2>1, <2>2
  <2>5. PICK M \in Nat : M = Len(kept) /\ DOMAIN kept = 1..M
    BY <2>3
  <2> QED  BY <2>1, <2>3, <2>4, <2>5
<1>6. \A x : x \in Wireless!OnNow <=> \E k \in 1..N : ~v2[k].off /\ ~v1[v2[k].device] /\ v2[k].sid = x
  BY <1>1, OnMembers DEF Wireless!On
<1>7. \A x : x \in Wireless!OnNow' <=>
             \E k \in 1..M : ~v2'[k].off /\ ~v1[v2'[k].device] /\ v2'[k].sid = x
  BY <1>2, <1>5 DEF Wireless!OnNow, Wireless!On
<1>8. ASSUME NEW x \in v5' PROVE x \in Wireless!OnNow'
  <2>1. PICK j \in 1..N : ~v2[j].off /\ ~v1[v2[j].device] /\ v2[j].sid = x
    BY <1>2, <1>4, <1>6
  <2>2. j \in I
    BY <1>3, <1>4, <2>1
  <2>3. PICK k \in 1..M : v2'[k] = v2[j]
    BY <1>5, <2>2
  <2> QED  BY <1>7, <2>1, <2>3
<1>9. ASSUME NEW x \in Wireless!OnNow' PROVE x \in v6'
  <2>1. PICK k \in 1..M : ~v2'[k].off /\ ~v1[v2'[k].device] /\ v2'[k].sid = x
    BY <1>7
  <2>2. PICK j \in I : v2'[k] = v2[j]
    BY <1>5
  <2>3. x \in Wireless!OnNow
    BY <1>6, <2>1, <2>2
  <2>4. x # v2[i].sid
    BY <1>1, <1>2, <1>3, <2>1, <2>2 DEF SidsDiffer
  <2> QED  BY <1>2, <1>4, <2>3, <2>4
<1>10. ~\E k \in DOMAIN v2' : v2'[k].anon
  BY <1>2, <1>3, <1>5
<1>11. WTypeOK'
  BY <1>2, <1>5 DEF WInv, WTypeOK, ScanOf
<1>12. SidsDiffer(v2)'
  BY <1>5 DEF SidsDiffer
<1>13. WScan'
  BY <1>2 DEF WScan, Wireless!Scanning
<1> QED  BY <1>8, <1>9, <1>10, <1>11, <1>12, <1>13 DEF WInv

(* The networks of a radio are turned off, and others stay.                *)
LEMMA OthersOff ==
  ASSUME NEW cfg \in Seq(Wireless!Net), NEW r \in WifiRadio, v1 \in [WifiRadio -> BOOLEAN]
  PROVE  LET cut == Wireless!Others(cfg, r)
         IN /\ cut \in Seq(Wireless!Net) /\ Len(cut) = Len(cfg)
            /\ \A i \in 1..Len(cfg) :
                 /\ cut[i].sid = cfg[i].sid /\ cut[i].device = cfg[i].device
                 /\ cut[i].anon = cfg[i].anon
                 /\ cut[i].off = (cfg[i].off \/ (v1[r] /\ cfg[i].device = r))
<1>1. PICK N \in Nat : N = Len(cfg) /\ DOMAIN cfg = 1..N
  OBVIOUS
<1>2. CASE v1[r]
  <2>1. PICK cut : cut = [i \in 1..N |-> [cfg[i] EXCEPT !.off = (cfg[i].off \/ cfg[i].device = r)]]
    OBVIOUS
  <2>2. ASSUME NEW i \in 1..N
        PROVE  /\ cut[i] \in Wireless!Net
               /\ cut[i].sid = cfg[i].sid /\ cut[i].device = cfg[i].device
               /\ cut[i].anon = cfg[i].anon /\ cut[i].off = (cfg[i].off \/ cfg[i].device = r)
    <3>1. PICK m \in Wireless!Net : m = cfg[i]
      BY <1>1
    <3>2. PICK off \in BOOLEAN : off = (m.off \/ m.device = r)
      OBVIOUS
    <3>3. cut[i] = [m EXCEPT !.off = off]
      BY <2>1, <3>1, <3>2
    <3>4. PICK c : c = [m EXCEPT !.off = off]
      OBVIOUS
    <3>5. c \in Wireless!Net /\ c.off = off /\ c.sid = m.sid /\ c.device = m.device /\ c.anon = m.anon
      BY <3>4 DEF Wireless!Net
    <3> QED  BY <3>1, <3>2, <3>3, <3>4, <3>5
  <2>3. cut \in [1..N -> Wireless!Net]
    BY <2>1, <2>2
  <2>4. cut \in Seq(Wireless!Net) /\ Len(cut) = N
    BY <2>3
  <2>5. Wireless!Others(cfg, r) = cut
    BY <1>1, <1>2, <2>1 DEF Wireless!Others
  <2> QED  BY <1>1, <1>2, <2>2, <2>4, <2>5
<1>3. CASE ~v1[r]
  <2>1. Wireless!Others(cfg, r) = cfg
    BY <1>3 DEF Wireless!Others
  <2>2. ASSUME NEW i \in 1..N PROVE cfg[i].off \in BOOLEAN
    <3>1. cfg[i] \in Wireless!Net
      BY <1>1
    <3> QED  BY <3>1 DEF Wireless!Net
  <2> QED  BY <1>1, <1>3, <2>1, <2>2
<1> QED  BY <1>2, <1>3

(* handleJoinConfirm adds the client's section and, where asked to, turns  *)
(* the radio's other networks off.                                         *)
LEMMA JoinKeeps ==
  ASSUME WInv, NEW replace \in BOOLEAN, Wireless!handleJoinConfirm(replace)
  PROVE  WInv'
<1>1. PICK N \in Nat : N = Len(v2) /\ DOMAIN v2 = 1..N /\ v2 \in Seq(Wireless!Net)
  BY DEF WInv, WTypeOK
<1>2. /\ (\A k \in 1..N : ~v2[k].anon) /\ UNCHANGED <<v4, v7>> /\ SidsDiffer(v2)
      /\ v3 \in Wireless!Dialog
      /\ v5 \subseteq Wireless!OnNow /\ Wireless!OnNow \subseteq v6
      /\ v1 \in [WifiRadio -> BOOLEAN]
  BY <1>1 DEF Wireless!handleJoinConfirm, WInv, WTypeOK
<1>3. PICK r \in WifiRadio : r = v3.radio
  BY <1>2 DEF Wireless!Dialog
<1>4. PICK I \in SUBSET (1..N) :
        I = IF replace THEN {i \in DOMAIN v2 : v2[i].device # r} ELSE 1..N
  <2>1. {i \in DOMAIN v2 : v2[i].device # r} \in SUBSET (1..N) /\ 1..N \in SUBSET (1..N)
    BY <1>1
  <2> QED  BY <2>1
<1>5. PICK kept \in Seq(Wireless!Net) :
        /\ kept = IF replace THEN Wireless!Picked(v2, {i \in DOMAIN v2 : v2[i].device # r}) ELSE v2
        /\ SidsDiffer(kept)
        /\ \A k \in 1..Len(kept) : \E i \in I : kept[k] = v2[i]
        /\ \A i \in I : \E k \in 1..Len(kept) : kept[k] = v2[i]
  <2>1. CASE replace
    <3>1. PICK cfg \in Seq(Wireless!Net) : cfg = v2
      BY <1>1
    <3>2. SidsDiffer(cfg) /\ I \in SUBSET (1..Len(cfg))
      BY <1>1, <1>2, <3>1
    <3>3. PICK kept : kept = Wireless!Picked(cfg, I)
      OBVIOUS
    <3>4. /\ kept \in Seq(Wireless!Net) /\ SidsDiffer(kept)
          /\ \A k \in 1..Len(kept) : \E i \in I : kept[k] = cfg[i]
          /\ \A i \in I : \E k \in 1..Len(kept) : kept[k] = cfg[i]
      BY <3>2, <3>3, SectionsKept
    <3>5. kept = Wireless!Picked(v2, {i \in DOMAIN v2 : v2[i].device # r})
      BY <1>4, <2>1, <3>1, <3>3
    <3>6. kept = IF replace THEN Wireless!Picked(v2, {i \in DOMAIN v2 : v2[i].device # r}) ELSE v2
      BY <2>1, <3>5
    <3> QED  BY <3>1, <3>4, <3>6
  <2>2. CASE ~replace
    <3>1. I = 1..Len(v2)
      BY <1>1, <1>4, <2>2
    <3> QED  BY <1>1, <1>2, <2>2, <3>1
  <2> QED  BY <2>1, <2>2
<1>6. PICK M \in Nat : M = Len(kept)
  OBVIOUS
<1>7. PICK sid \in Nat : sid = Wireless!next_free_sid(kept, N) /\ sid \notin Taken(kept)
  BY FreeName
<1>8. PICK n \in Wireless!Net : /\ n = Wireless!Section(sid, r) /\ n.sid = sid /\ n.device = r
                                /\ n.off = FALSE /\ n.anon = FALSE
  <2>1. PICK s : s = Wireless!Section(sid, r)
    OBVIOUS
  <2>2. /\ s \in Wireless!Net /\ s.sid = sid /\ s.device = r /\ s.off = FALSE /\ s.anon = FALSE
    BY <2>1, SectionTyped
  <2> QED  BY <2>1, <2>2
<1>9. PICK dropped : dropped = IF replace THEN {m.sid : m \in Wireless!OfRadio(r)} ELSE {}
  OBVIOUS
<1>10. PICK cut : cut = Wireless!Others(kept, r)
  OBVIOUS
<1>11. /\ v2' = Append(cut, n) /\ v5' = (v5 \ dropped) \cup {sid} /\ v6' = (v6 \ dropped) \cup {sid}
       /\ v1' = [v1 EXCEPT ![r] = FALSE] /\ v3' = [at |-> "edit", radio |-> r]
  BY <1>1, <1>3, <1>5, <1>7, <1>8, <1>9, <1>10 DEF Wireless!handleJoinConfirm
<1>12. /\ cut \in Seq(Wireless!Net) /\ Len(cut) = M
       /\ \A i \in 1..M :
            /\ cut[i].sid = kept[i].sid /\ cut[i].device = kept[i].device
            /\ cut[i].anon = kept[i].anon
            /\ cut[i].off = (kept[i].off \/ (v1[r] /\ kept[i].device = r))
  BY <1>2, <1>6, <1>10, OthersOff
<1>13. SidsDiffer(cut) /\ n.sid \notin Taken(cut)
  <2>1. SidsDiffer(cut)
    <3>1. \A i, k \in 1..M : kept[i].sid = kept[k].sid => i = k
      BY <1>5, <1>6 DEF SidsDiffer
    <3>2. \A i \in 1..M : cut[i].sid = kept[i].sid
      BY <1>12
    <3>3. \A i, k \in 1..M : cut[i].sid = cut[k].sid => i = k
      BY <3>1, <3>2
    <3> QED  BY <1>12, <3>3 DEF SidsDiffer
  <2>2. n.sid \notin Taken(cut)
    BY <1>6, <1>7, <1>8, <1>12 DEF Taken
  <2> QED  BY <2>1, <2>2
<1>14. /\ v2' \in Seq(Wireless!Net) /\ SidsDiffer(v2') /\ Len(v2') = M + 1 /\ v2'[M + 1] = n
       /\ (\A i \in 1..M : v2'[i] = cut[i]) /\ DOMAIN v2' = 1..(M + 1)
  <2>1. PICK t : t = Append(cut, n)
    OBVIOUS
  <2>2. /\ t \in Seq(Wireless!Net) /\ SidsDiffer(t) /\ Len(t) = M + 1 /\ t[M + 1] = n
        /\ \A i \in 1..M : t[i] = cut[i]
    BY <1>12, <1>13, <2>1, SectionAdded
  <2>3. v2' = t
    BY <1>11, <2>1
  <2> QED  BY <2>2, <2>3
<1>15. v1' \in [WifiRadio -> BOOLEAN] /\ ~v1'[r] /\ \A d \in WifiRadio : d # r => v1'[d] = v1[d]
  BY <1>2, <1>11
<1>16. v3' \in Wireless!Dialog
  BY <1>11, EditOpens
<1>17. WTypeOK'
  BY <1>2, <1>14, <1>15, <1>16 DEF WInv, WTypeOK, ScanOf
<1>18. SidsDiffer(v2)'
  BY <1>14 DEF SidsDiffer
<1>19. ~\E k \in DOMAIN v2' : v2'[k].anon
  <2>1. ASSUME NEW k \in 1..M PROVE ~v2'[k].anon
    <3>1. PICK i \in I : kept[k] = v2[i]
      BY <1>5, <1>6
    <3> QED  BY <1>2, <1>12, <1>14, <3>1
  <2>2. ~v2'[M + 1].anon
    BY <1>8, <1>14
  <2>3. \A k \in 1..(M + 1) : k \in 1..M \/ k = M + 1
    OBVIOUS
  <2> QED  BY <1>14, <2>1, <2>2, <2>3
<1>20. \A x : x \in Wireless!OnNow <=> \E k \in 1..N : ~v2[k].off /\ ~v1[v2[k].device] /\ v2[k].sid = x
  BY <1>1, OnMembers DEF Wireless!On
<1>21. \A x : x \in Wireless!OnNow' <=>
              \E k \in 1..(M + 1) : ~v2'[k].off /\ ~v1'[v2'[k].device] /\ v2'[k].sid = x
  BY <1>14 DEF Wireless!OnNow, Wireless!On
<1>22. \A x : replace => (x \in dropped <=> \E k \in 1..N : v2[k].device = r /\ v2[k].sid = x)
  BY <1>1, <1>9 DEF Wireless!OfRadio
<1>23. ASSUME NEW x \in v5' PROVE x \in Wireless!OnNow'
  <2>1. CASE x = sid
    <3>1. M + 1 \in 1..(M + 1)
      OBVIOUS
    <3> QED  BY <1>8, <1>14, <1>15, <1>21, <2>1, <3>1
  <2>2. CASE x # sid
    <3>1. PICK k \in 1..N : ~v2[k].off /\ ~v1[v2[k].device] /\ v2[k].sid = x /\ x \notin dropped
      BY <1>2, <1>11, <1>20, <2>2
    <3>2. k \in I
      BY <1>1, <1>4, <1>22, <3>1
    <3>3. PICK j \in 1..M : kept[j] = v2[k]
      BY <1>5, <1>6, <3>2
    <3>4. v2[k].device \in WifiRadio
      BY <1>1, NetTyped
    <3>5. j \in 1..(M + 1) /\ v2'[j].sid = x /\ v2'[j].device = v2[k].device /\ ~v2'[j].off
      <4>1. v2'[j] = cut[j] /\ j \in 1..(M + 1)
        BY <1>14
      <4>2. cut[j].sid = v2[k].sid /\ cut[j].device = v2[k].device
        BY <1>12, <3>3
      <4>3. cut[j].off = (v2[k].off \/ (v1[r] /\ v2[k].device = r))
        BY <1>12, <3>3
      <4>4. ~cut[j].off
        BY <3>1, <4>3
      <4> QED  BY <3>1, <4>1, <4>2, <4>4
    <3>6. ~v1'[v2[k].device]
      BY <1>15, <3>1, <3>4
    <3> QED  BY <1>21, <3>5, <3>6
  <2> QED  BY <2>1, <2>2
<1>24. ASSUME NEW x \in Wireless!OnNow' PROVE x \in v6'
  <2>1. PICK k \in 1..(M + 1) : ~v2'[k].off /\ ~v1'[v2'[k].device] /\ v2'[k].sid = x
    BY <1>21
  <2>2. CASE k = M + 1
    BY <1>8, <1>11, <1>14, <2>1, <2>2
  <2>3. CASE k # M + 1
    <3>1. k \in 1..M
      BY <2>3
    <3>2. PICK i \in I : kept[k] = v2[i]
      BY <1>5, <1>6, <3>1
    <3>3. v2[i].device \in WifiRadio /\ v2[i].off \in BOOLEAN
      BY <1>1, NetTyped
    <3>4. /\ v2[i].sid = x /\ ~v2[i].off /\ ~(v1[r] /\ v2[i].device = r)
          /\ ~v1'[v2[i].device]
      BY <1>12, <1>14, <2>1, <3>1, <3>2
    <3>5. ~v1[v2[i].device]
      <4>1. CASE v2[i].device = r
        BY <3>4, <4>1
      <4>2. CASE v2[i].device # r
        BY <1>15, <3>3, <3>4, <4>2
      <4> QED  BY <4>1, <4>2
    <3>6. x \in Wireless!OnNow
      BY <1>20, <3>4, <3>5
    <3>7. x \notin dropped
      <4>1. CASE replace
        <5>1. v2[i].device # r
          BY <1>4, <3>2, <4>1
        <5>2. \A q \in 1..N : v2[q].sid = x => q = i
          BY <1>1, <1>2, <3>2, <3>4 DEF SidsDiffer
        <5> QED  BY <1>22, <4>1, <5>1, <5>2
      <4>2. CASE ~replace
        BY <1>9, <4>2
      <4> QED  BY <4>1, <4>2
    <3> QED  BY <1>2, <1>11, <3>6, <3>7
  <2> QED  BY <2>2, <2>3
<1>25. ~Wireless!Scanning'
  BY <1>11 DEF Wireless!Scanning
<1> QED  BY <1>17, <1>18, <1>19, <1>23, <1>24, <1>25 DEF WInv, WScan

-----------------------------------------------------------------------------
(* The scan and its dialog leave the networks alone.                       *)
LEMMA NetsStay ==
  ASSUME WInv, UNCHANGED <<v1, v2, v5, v6>>, v3' \in Wireless!Dialog \cup {Null},
         v3 # Null \/ \A i \in DOMAIN v2 : ~v2[i].anon, v4' = ScanOf(v4'), WScan'
  PROVE  WInv'
<1>1. WTypeOK'
  BY DEF WInv, WTypeOK, ScanOf
<1>2. SidsDiffer(v2)'
  BY DEF WInv, SidsDiffer
<1>3. Wireless!OnNow' = Wireless!OnNow
  BY DEF Wireless!OnNow, Wireless!On
<1>4. ~\E i \in DOMAIN v2 : v2[i].anon
  BY DEF WInv
<1> QED  BY <1>1, <1>2, <1>3, <1>4 DEF WInv

(* Closing a dialog, or going from the scan to the form.                   *)
LEMMA CloseKeeps ==
  ASSUME WInv, Wireless!Close \/ Wireless!handleScanAbort \/ Wireless!handleJoin
  PROVE  WInv'
<1>1. v3 # Null /\ UNCHANGED <<v1, v2, v5, v6>> /\ (v4' = v4 \/ v4' = Wireless!Quiet)
  BY DEF Wireless!Close, Wireless!handleScanAbort, Wireless!handleJoin, Wireless!wireless,
         Wireless!Scanning
<1>2. v3 \in Wireless!Dialog /\ v4 = ScanOf(v4)
  BY <1>1 DEF WInv, WTypeOK
<1>3. v3' = Null \/ v3' = [v3 EXCEPT !.at = "join"]
  <2>1. CASE Wireless!Close \/ Wireless!handleScanAbort
    BY <2>1 DEF Wireless!Close, Wireless!handleScanAbort
  <2>2. CASE Wireless!handleJoin
    BY <2>2 DEF Wireless!handleJoin
  <2> QED  BY <2>1, <2>2
<1>4. v3' \in Wireless!Dialog \cup {Null} /\ (v3' = Null \/ v3'.at # "scan")
  BY <1>2, <1>3 DEF Wireless!Dialog
<1>5. WScan'
  BY <1>4 DEF WScan, Wireless!Scanning
<1>6. v4' = ScanOf(v4')
  <2>1. Wireless!Quiet = ScanOf(Wireless!Quiet)
    BY DEF ScanOf, Wireless!Quiet
  <2>2. CASE v4' = v4
    BY <1>2, <2>2
  <2>3. CASE v4' = Wireless!Quiet
    BY <2>1, <2>3
  <2> QED  BY <1>1, <2>2, <2>3
<1> QED  BY <1>1, <1>4, <1>5, <1>6, NetsStay

(* handleScan starts with an empty cache.                                  *)
LEMMA ScanOpens ==
  ASSUME WInv, NEW r \in WifiRadio, Wireless!handleScan(r)
  PROVE  WInv'
<1>1. /\ v3' = [at |-> "scan", radio |-> r] /\ v4' = [Wireless!Quiet EXCEPT !.polled = TRUE]
      /\ v7' = [all |-> {}, last |-> {}] /\ UNCHANGED <<v1, v2, v5, v6>>
      /\ \A i \in DOMAIN v2 : ~v2[i].anon
  BY DEF Wireless!handleScan, Wireless!NoDialog, Wireless!wireless
<1>2. v3' \in Wireless!Dialog \cup {Null}
  BY <1>1, EditOpens
<1>3. Wireless!Stale({}) = {} /\ Wireless!Fresh({}) = {}
  BY DEF Wireless!Stale, Wireless!Fresh
<1>4. v4' = [cache |-> {}, rows |-> {}, polled |-> TRUE, calls |-> 0]
  BY <1>1 DEF Wireless!Quiet
<1>5. WScan'
  BY <1>1, <1>3, <1>4 DEF WScan
<1>6. v4' = ScanOf(v4')
  BY <1>4 DEF ScanOf
<1> QED  BY <1>1, <1>2, <1>5, <1>6, NetsStay

(* Between two answers the scan shows what it did.                         *)
LEMMA ScanStays ==
  ASSUME WInv, Wireless!ScanTick \/ Wireless!handleScanStartStop
  PROVE  WInv'
<1>1. /\ v3 # Null /\ UNCHANGED <<v1, v2, v3, v5, v6, v7>> /\ Wireless!Scanning
      /\ v4' = [v4 EXCEPT !.calls = @ + 1] \/ v4' = [v4 EXCEPT !.polled = ~@]
  BY DEF Wireless!ScanTick, Wireless!handleScanStartStop, Wireless!wireless, Wireless!Scanning
<1>2. PICK s : s = v4
  OBVIOUS
<1>3. s = ScanOf(s)
  BY <1>2 DEF WInv, WTypeOK
<1>4. PICK c, p : v4' = [cache |-> s.cache, rows |-> s.rows, polled |-> p, calls |-> c]
  <2>1. CASE v4' = [s EXCEPT !.calls = @ + 1]
    <3>1. v4' = [ScanOf(s) EXCEPT !.calls = s.calls + 1]
      BY <1>3, <2>1
    <3> QED  BY <3>1 DEF ScanOf
  <2>2. CASE v4' = [s EXCEPT !.polled = ~@]
    <3>1. v4' = [ScanOf(s) EXCEPT !.polled = ~s.polled]
      BY <1>3, <2>2
    <3> QED  BY <3>1 DEF ScanOf
  <2> QED  BY <1>1, <1>2, <2>1, <2>2
<1>5. v4'.cache = v4.cache /\ v4'.rows = v4.rows /\ v4' = ScanOf(v4')
  BY <1>2, <1>4 DEF ScanOf
<1>6. WScan'
  BY <1>1, <1>5 DEF WInv, WScan, Wireless!Scanning
<1>7. v3' \in Wireless!Dialog \cup {Null}
  BY <1>1 DEF WInv, WTypeOK
<1> QED  BY <1>1, <1>5, <1>6, <1>7, NetsStay

(* handleScanRefresh draws the answer, and those of the cache that it does *)
(* not have as stale.                                                      *)
LEMMA RefreshKeeps ==
  ASSUME WInv, Wireless!handleScanRefresh
  PROVE  WInv'
<1>1. PICK bs :
        /\ Wireless!Scanning /\ UNCHANGED <<v1, v2, v3, v5, v6>> /\ v3 # Null
        /\ v4' = [v4 EXCEPT
             !.rows = Wireless!Fresh(bs) \cup {c \in Wireless!Cached(bs) : c.stale}, !.calls = @ - 1,
             !.cache = Wireless!Stale({c.bss : c \in Wireless!Cached(bs)})]
        /\ v7' = [all |-> v7.all \cup bs, last |-> bs]
  BY DEF Wireless!handleScanRefresh, Wireless!wireless, Wireless!Scanning
<1>2. PICK all, last : all = v7.all /\ last = v7.last
  OBVIOUS
<1>3. v4.cache = Wireless!Stale(all)
  BY <1>1, <1>2 DEF WInv, WScan
<1>4. Wireless!Cached(bs) = Wireless!Stale(all \ bs) \cup Wireless!Fresh(bs)
  <2>1. {c \in Wireless!Stale(all) : c.bss \notin bs} = Wireless!Stale(all \ bs)
    BY DEF Wireless!Stale
  <2> QED  BY <1>3, <2>1 DEF Wireless!Cached
<1>5. {c \in Wireless!Cached(bs) : c.stale} = Wireless!Stale(all \ bs)
  <2>1. \A c \in Wireless!Stale(all \ bs) : c.stale
    BY DEF Wireless!Stale
  <2>2. \A c \in Wireless!Fresh(bs) : ~c.stale
    BY DEF Wireless!Fresh
  <2> QED  BY <1>4, <2>1, <2>2
<1>6. Wireless!Stale({c.bss : c \in Wireless!Cached(bs)}) = Wireless!Stale(all \cup bs)
  <2>1. {c.bss : c \in Wireless!Fresh(bs)} = bs
    <3>1. \A c \in Wireless!Fresh(bs) : c.bss \in bs
      BY DEF Wireless!Fresh
    <3>2. ASSUME NEW b \in bs PROVE \E c \in Wireless!Fresh(bs) : c.bss = b
      <4>1. PICK c : c = [bss |-> b, stale |-> FALSE]
        OBVIOUS
      <4>2. c \in Wireless!Fresh(bs) /\ c.bss = b
        BY <4>1 DEF Wireless!Fresh
      <4> QED  BY <4>2
    <3> QED  BY <3>1, <3>2
  <2>2. {c.bss : c \in Wireless!Stale(all \ bs)} = all \ bs
    <3>1. \A c \in Wireless!Stale(all \ bs) : c.bss \in all \ bs
      BY DEF Wireless!Stale
    <3>2. ASSUME NEW b \in all \ bs PROVE \E c \in Wireless!Stale(all \ bs) : c.bss = b
      <4>1. PICK c : c = [bss |-> b, stale |-> TRUE]
        OBVIOUS
      <4>2. c \in Wireless!Stale(all \ bs) /\ c.bss = b
        BY <4>1 DEF Wireless!Stale
      <4> QED  BY <4>2
    <3> QED  BY <3>1, <3>2
  <2>3. {c.bss : c \in Wireless!Cached(bs)} = all \cup bs
    BY <1>4, <2>1, <2>2
  <2> QED  BY <2>3
<1>7. PICK s : s = v4
  OBVIOUS
<1>8. s = ScanOf(s)
  BY <1>7 DEF WInv, WTypeOK
<1>9. v4' = [cache |-> Wireless!Stale(all \cup bs), rows |-> Wireless!Fresh(bs) \cup Wireless!Stale(all \ bs),
             polled |-> s.polled, calls |-> s.calls - 1]
  <2>1. PICK rows, cache : rows = Wireless!Fresh(bs) \cup Wireless!Stale(all \ bs) /\ cache = Wireless!Stale(all \cup bs)
    OBVIOUS
  <2>2. v4' = [s EXCEPT !.rows = rows, !.calls = @ - 1, !.cache = cache]
    BY <1>1, <1>5, <1>6, <1>7, <2>1
  <2>3. v4' = [ScanOf(s) EXCEPT !.rows = rows, !.calls = s.calls - 1, !.cache = cache]
    BY <1>8, <2>2
  <2>4. v4' = [cache |-> cache, rows |-> rows, polled |-> s.polled, calls |-> s.calls - 1]
    BY <2>3 DEF ScanOf
  <2> QED  BY <2>1, <2>4
<1>10. v4' = ScanOf(v4')
  BY <1>9 DEF ScanOf
<1>11. v7'.all = all \cup bs /\ v7'.last = bs
  BY <1>1, <1>2
<1>12. WScan'
  <2>1. (all \cup bs) \ bs = all \ bs
    OBVIOUS
  <2> QED  BY <1>9, <1>11, <2>1 DEF WScan
<1>13. v3' \in Wireless!Dialog \cup {Null}
  BY <1>1 DEF WInv, WTypeOK
<1> QED  BY <1>1, <1>10, <1>12, <1>13, NetsStay

(* Every step of the page keeps the invariant.                             *)
LEMMA WirelessKeeps == WInv /\ Wireless!Next => WInv'
<1> SUFFICES ASSUME WInv, Wireless!Next PROVE WInv'
  OBVIOUS
<1> QED  BY MigrationKeeps, CloseKeeps, SwitchKeeps, RemoveKeepsNets, AddKeepsNets, ScanOpens,
            JoinKeeps, ScanStays, RefreshKeeps DEF Wireless!Next

(* The invariant says what the scan shows.                                 *)
LEMMA ScanCorrect ==
  ASSUME WInv
  PROVE  Wireless!ScanShown
<1> SUFFICES ASSUME Wireless!Scanning
             PROVE  /\ {r.bss : r \in v4.rows} = v7.all
                    /\ {r.bss : r \in {r \in v4.rows : ~r.stale}} = v7.last
                    /\ \A r, s \in v4.rows : r.bss = s.bss => r = s
  BY DEF Wireless!ScanShown
<1>1. PICK all, last : all = v7.all /\ last = v7.last
  OBVIOUS
<1>2. PICK rows : rows = v4.rows
  OBVIOUS
<1>3. last \subseteq all /\ rows = Wireless!Fresh(last) \cup Wireless!Stale(all \ last)
  BY <1>1, <1>2 DEF WInv, WScan
<1>4. \A r : r \in rows <=> \/ \E b \in last : r = [bss |-> b, stale |-> FALSE]
                            \/ \E b \in all \ last : r = [bss |-> b, stale |-> TRUE]
  BY <1>3 DEF Wireless!Fresh, Wireless!Stale
<1>5. \A b \in last : [bss |-> b, stale |-> FALSE] \in rows
  BY <1>4
<1>6. \A b \in all \ last : [bss |-> b, stale |-> TRUE] \in rows
  BY <1>4
<1>7. ASSUME NEW r \in rows
      PROVE  /\ r.bss \in all /\ (~r.stale => r.bss \in last /\ r = [bss |-> r.bss, stale |-> FALSE])
             /\ (r.stale => r.bss \notin last /\ r = [bss |-> r.bss, stale |-> TRUE])
  BY <1>3, <1>4
<1>8. {r.bss : r \in rows} = all
  <2>1. ASSUME NEW b \in all PROVE \E r \in rows : r.bss = b
    <3>1. CASE b \in last
      <4>1. [bss |-> b, stale |-> FALSE].bss = b
        OBVIOUS
      <4> QED  BY <1>5, <3>1, <4>1
    <3>2. CASE b \notin last
      <4>1. [bss |-> b, stale |-> TRUE].bss = b
        OBVIOUS
      <4> QED  BY <1>6, <3>2, <4>1
    <3> QED  BY <3>1, <3>2
  <2> QED  BY <1>7, <2>1
<1>9. {r.bss : r \in {r \in rows : ~r.stale}} = last
  <2>1. ASSUME NEW b \in last PROVE \E r \in {r \in rows : ~r.stale} : r.bss = b
    <3>1. [bss |-> b, stale |-> FALSE].bss = b /\ ~[bss |-> b, stale |-> FALSE].stale
      OBVIOUS
    <3> QED  BY <1>5, <3>1
  <2> QED  BY <1>7, <2>1
<1>10. ASSUME NEW r \in rows, NEW s \in rows, r.bss = s.bss PROVE r = s
  <2>1. CASE r.stale
    BY <1>7, <1>10, <2>1
  <2>2. CASE ~r.stale
    BY <1>7, <1>10, <2>2
  <2> QED  BY <2>1, <2>2
<1> QED  BY <1>1, <1>2, <1>8, <1>9, <1>10

(* Sections keep names of their own, a network the user turned on is on    *)
(* until he turns it off, nothing else comes on but what shares a radio he *)
(* turned on, joining turns on no other, and the scan shows each station   *)
(* it has heard, stale unless it was in the last answer (wireless.js); for *)
(* any radios, networks and stations.                                      *)
THEOREM WirelessCorrect == PagesSpec => []WirelessKept
<1> DEFINE I == part = "wireless" => WInv
<1>1. PagesInit => I
  BY WirelessInitial DEF PagesInit
<1>2. I /\ [PagesNext]_pagesVars => I'
  <2> SUFFICES ASSUME I, [PagesNext]_pagesVars PROVE I'
    OBVIOUS
  <2>1. CASE part = "wireless" /\ Wireless!Next /\ UNCHANGED part
    BY <2>1, WirelessKeeps
  <2>2. CASE part # "wireless" /\ UNCHANGED part
    BY <2>2
  <2>3. CASE UNCHANGED pagesVars
    <3>1. UNCHANGED <<part, v1, v2, v3, v4, v5, v6, v7>>
      BY <2>3 DEF pagesVars
    <3>2. WInv => WInv'
      BY <3>1 DEF WInv, WTypeOK, ScanOf, SidsDiffer, WScan, Wireless!Scanning, Wireless!OnNow, Wireless!On
    <3> QED  BY <3>1, <3>2
  <2> QED  BY <2>1, <2>2, <2>3 DEF PagesNext
<1>3. I => WirelessKept
  <2> SUFFICES ASSUME WInv PROVE Wireless!UserDecides /\ Wireless!ScanShown
    BY DEF WirelessKept
  <2>1. v2 \in Seq(Wireless!Net)
    BY DEF WInv, WTypeOK
  <2>2. Wireless!UserDecides
    BY <2>1 DEF WInv, SidsDiffer, Wireless!UserDecides
  <2> QED  BY <2>2, ScanCorrect
<1> QED  BY <1>1, <1>2, <1>3, PTL DEF PagesSpec
=============================================================================
