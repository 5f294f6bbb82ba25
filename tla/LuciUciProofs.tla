---------------------------- MODULE LuciUciProofs ----------------------------
(***************************************************************************)
(* Proofs about the page's copy of a package, for any sections, options    *)
(* and bounds: the copy is of one mind whatever edits are pending and      *)
(* agrees with the server when none are (LuciUci's EditsAgree), to its     *)
(* callers it is one table of sections (LuciTable), and a save leaves on   *)
(* the server what the page showed, in its order (SavedIsShown).           *)
(***************************************************************************)
EXTENDS LuciUci, FiniteSetTheorems, SequenceTheorems, WellFoundedInduction, TLAPS

-----------------------------------------------------------------------------
(* The invariant                                                           *)

Task ==
  [op : {"remove"}, sid : Sid]
  \cup [op : {"unset"}, sid : Sid, opts : SUBSET Opt]
  \cup [op : {"set"}, sid : Sid, opts : OptionsOf(Val)]
  \cup {t \in [op : {"add"}, sid : Sid, named : BOOLEAN,
               opts : OptionsOf(Val \cup {Empty}), born : Nat] :
          t.named => t.sid \in Stored}

BatchInv ==
  /\ tasks \in Seq(Task) /\ replies \in Seq(Sid \cup {Nil})
  /\ Len(replies) <= Len(tasks)
  /\ listed \in Seq(Sid \cup {Nil})

(* A section has options if and only if it has one place in the order.     *)
Distinct(seq) == \A i, j \in 1..Len(seq) : seq[i] = seq[j] => i = j
ServerInv ==
  /\ order \in Seq(Remote) /\ Distinct(order)
  /\ \A s \in Sid : options[s] # Nil <=> s \in ToSet(order)
  /\ phase = "loaded" => snap = [options |-> options, order |-> order]

(* A package is loaded as a whole, from the server.                        *)
LoadedInv ==
  /\ \A s \in Sid : values[s] # Nil => present /\ s \in Remote
  /\ \A s, t \in Sid :
       values[s] # Nil /\ values[t] # Nil /\ values[s].key = values[t].key => s = t
  /\ phase \in {"load", "loaded"} => ~present

(* New sections are told apart by when they were made, and stand for a     *)
(* loaded one only if that was removed.                                    *)
CreatedInv ==
  /\ \A s \in Sid : creates[s] # Nil =>
       /\ creates[s].born < newidx
       /\ creates[s].named => s \in Stored
       /\ s \in Temp \/ (present /\ s \in Stored)
       /\ values[s] # Nil => s \in removed
  /\ \A s, t \in Sid :
       creates[s] # Nil /\ creates[t] # Nil /\ creates[s].born = creates[t].born => s = t

(* A page without a package has none under way only if it never had one,   *)
(* or will not get one any more.                                           *)
PageInv ==
  /\ present \/ jammed \/ phase \in {"load", "loaded"} \/ ~rendered
  /\ ~rendered => /\ \A s \in Sid : creates[s] = Nil
                  /\ phase \in {"idle", "load", "loaded"}

(* What waits for the package is as add() made it.                         *)
WaitingInv ==
  phase \in {"load", "loaded"} =>
    \A s \in Sid : creates[s] # Nil =>
      creates[s].name = s /\ creates[s].index = FirstNewIndex + creates[s].born

Settled == present /\ ~drift /\ phase \notin {"order", "ordered"}
IndexInv ==
  Settled =>
    /\ \A s \in Sid : creates[s] # Nil => creates[s].name = s
    /\ \A s \in Sid : Visible(s) => Index(s) < FirstNewIndex + newidx
    /\ \A s, t \in Sid : Visible(s) /\ Visible(t) /\ Index(s) = Index(t) => s = t

(* Between saves the loaded copy is what the server has.                   *)
MirrorInv ==
  (present /\ ~drift /\ ~folded /\ phase = "idle") =>
    \A s \in Sid : options[s] = IF values[s] = Nil THEN Nil ELSE values[s].opts

IInv ==
  /\ TypeOK /\ PendingConsistent
  /\ BatchInv /\ ServerInv /\ LoadedInv /\ CreatedInv /\ PageInv /\ WaitingInv
  /\ IndexInv /\ MirrorInv
-----------------------------------------------------------------------------
(* Least and greatest numbers, and the steps of a recursion                *)

Less == {ss \in Nat \X Nat : ss[1] < ss[2]}

LEMMA LessWellFounded == IsWellFoundedOn(Less, Nat)
<1>1. Less = OpToRel(<, Nat)
  BY DEF OpToRel, Less
<1>. QED  BY <1>1, NatLessThanWellFounded

LEMMA Least ==
  ASSUME NEW S \in SUBSET Nat, S # {}
  PROVE  \E m \in S : \A y \in S : m <= y
<1>1. PICK m \in S : \A y \in S : ~ (<<y, m>> \in Less)
  BY LessWellFounded, WFMin
<1>2. ASSUME NEW y \in S PROVE m <= y
  <2>1. <<y, m>> \in Nat \X Nat /\ <<y, m>>[1] = y /\ <<y, m>>[2] = m
    OBVIOUS
  <2>2. ~ (y < m)
    BY <1>1, <2>1 DEF Less
  <2>. QED  BY <2>2
<1>. QED  BY <1>2

LEMMA MinOf ==
  ASSUME NEW S \in SUBSET Nat, S # {}
  PROVE  Min(S) \in S /\ \A y \in S : Min(S) <= y
<1>1. \E m \in S : \A y \in S : m <= y
  BY Least
<1>. QED  BY <1>1 DEF Min

LEMMA MaxOf ==
  ASSUME NEW n \in Nat, NEW S \in SUBSET (0..n), S # {}
  PROVE  Max(S) \in S /\ \A y \in S : y <= Max(S)
<1>. DEFINE gaps == {n - y : y \in S}
<1>1. gaps \in SUBSET Nat /\ gaps # {}
  <2>1. \A y \in S : y \in 0..n
    OBVIOUS
  <2>2. \A y \in S : n - y \in Nat
    BY <2>1
  <2>. QED  BY <2>2
<1>2. PICK m \in gaps : \A y \in gaps : m <= y
  BY <1>1, Least
<1>3. PICK x \in S : m = n - x
  OBVIOUS
<1>4. \A y \in S : y <= x
  <2>1. ASSUME NEW y \in S PROVE y <= x
    <3>1. m <= n - y
      BY <1>2
    <3>. QED  BY <1>3, <3>1
  <2>. QED  BY <2>1
<1>5. \E z \in S : \A y \in S : z >= y
  BY <1>4
<1>6. Max(S) \in S /\ \A y \in S : Max(S) >= y
  BY <1>5 DEF Max
<1>. QED  BY <1>6

-----------------------------------------------------------------------------
(* Sets in order                                                           *)

(* The elements of a finite set that is totally ordered are numbered by    *)
(* how many come before them.                                              *)
RankIn(S, R, e) == Cardinality({x \in S : <<x, e>> \in R})

LEMMA RankRises ==
  ASSUME NEW S, IsFiniteSet(S), NEW R,
         \A x \in S : <<x, x>> \notin R,
         \A x, y, z \in S : <<x, y>> \in R /\ <<y, z>> \in R => <<x, z>> \in R,
         \A x, y \in S : x # y => <<x, y>> \in R \/ <<y, x>> \in R
  PROVE  /\ \A e \in S : RankIn(S, R, e) \in 0..(Cardinality(S) - 1)
         /\ \A e, f \in S : <<e, f>> \in R => RankIn(S, R, e) < RankIn(S, R, f)
<1>. DEFINE below(e) == {x \in S : <<x, e>> \in R}
            rank(e) == RankIn(S, R, e)
<1>0. PICK N : N = Cardinality(S)
  OBVIOUS
<1>1. N \in Nat
  BY <1>0, FS_CardinalityType
<1>2. ASSUME NEW e \in S
      PROVE  IsFiniteSet(below(e)) /\ rank(e) \in 0..(N - 1)
  <2>1. IsFiniteSet(below(e)) /\ rank(e) <= N /\ (rank(e) = N => below(e) = S)
    BY <1>0, FS_Subset DEF RankIn
  <2>2. rank(e) \in Nat
    BY <2>1, FS_CardinalityType DEF RankIn
  <2>3. e \notin below(e)
    OBVIOUS
  <2>4. rank(e) # N
    BY <2>1, <2>3
  <2>. QED  BY <2>1, <2>2, <2>4, <1>1
<1>3. ASSUME NEW e \in S, NEW f \in S, <<e, f>> \in R
      PROVE  rank(e) < rank(f)
  <2>1. below(e) \subseteq below(f)
    BY <1>3
  <2>2. e \in below(f) /\ e \notin below(e)
    BY <1>3
  <2>3. rank(e) <= rank(f) /\ rank(e) # rank(f)
    BY <1>2, <2>1, <2>2, FS_Subset DEF RankIn
  <2>4. rank(e) \in 0..(N - 1) /\ rank(f) \in 0..(N - 1)
    BY <1>2
  <2>. QED  BY <2>3, <2>4, <1>1
<1>. QED  BY <1>0, <1>2, <1>3

LEMMA Ranked ==
  ASSUME NEW S, IsFiniteSet(S), NEW R,
         \A x \in S : <<x, x>> \notin R,
         \A x, y, z \in S : <<x, y>> \in R /\ <<y, z>> \in R => <<x, z>> \in R,
         \A x, y \in S : x # y => <<x, y>> \in R \/ <<y, x>> \in R
  PROVE  /\ Cardinality(S) \in Nat
         /\ \A e \in S : RankIn(S, R, e) \in 0..(Cardinality(S) - 1)
         /\ \A e, f \in S : RankIn(S, R, e) = RankIn(S, R, f) => e = f
         /\ \A k \in 0..(Cardinality(S) - 1) : \E e \in S : RankIn(S, R, e) = k
<1>. DEFINE rank(e) == RankIn(S, R, e)
            number == [e \in S |-> rank(e)]
<1>0. PICK N : N = Cardinality(S)
  OBVIOUS
<1>1. N \in Nat
  BY <1>0, FS_CardinalityType
<1>2. \A e \in S : rank(e) \in 0..(N - 1)
  BY <1>0, RankRises
<1>3. ASSUME NEW e \in S, NEW f \in S, e # f PROVE rank(e) # rank(f)
  <2>1. rank(e) \in 0..(N - 1) /\ rank(f) \in 0..(N - 1)
    BY <1>2
  <2>2. rank(e) < rank(f) \/ rank(f) < rank(e)
    BY <1>3, RankRises
  <2>. QED  BY <2>1, <2>2, <1>1
<1>4. number \in Injection(S, 0..(N - 1))
  <2>. QED  BY <1>2, <1>3 DEF Injection, IsInjective
<1>5. IsFiniteSet(0..(N - 1)) /\ Cardinality(0..(N - 1)) = N
  BY <1>1, FS_Interval
<1>6. number \in Surjection(S, 0..(N - 1))
  BY <1>0, <1>4, <1>5, FS_Injection
<1>7. \A k \in 0..(N - 1) : \E e \in S : rank(e) = k
  <2>. QED  BY <1>6 DEF Surjection
<1>. QED
  BY <1>0, <1>1, <1>2, <1>3, <1>7

(* Sorting lists every entry once, in order.                               *)
LEMMA ByIndexLists ==
  ASSUME NEW E, IsFiniteSet(E), NEW ownFirst \in BOOLEAN,
         \A e \in E : e.index \in Int /\ e.key \in Int /\ e.create \in BOOLEAN,
         \A e, f \in E : e.create = f.create /\ e.key = f.key => e = f
  PROVE  LET s == ByIndex(E, ownFirst)
         IN /\ s \in Seq(E) /\ Len(s) = Cardinality(E) /\ Cardinality(E) \in Nat
            /\ Distinct(s)
            /\ \A e \in E : \E i \in 1..Len(s) : s[i] = e
            /\ \A i, j \in 1..Len(s) : i < j => Before(s[i], s[j], ownFirst)
<1>. DEFINE N == Cardinality(E)
            R == {p \in E \X E : Before(p[1], p[2], ownFirst)}
            rank(e) == RankIn(E, R, e)
<1>1. \A x, y \in E : <<x, y>> \in R <=> Before(x, y, ownFirst)
  OBVIOUS
<1>2. \A x \in E : <<x, x>> \notin R
  BY <1>1 DEF Before
<1>3. ASSUME NEW x \in E, NEW y \in E, NEW z \in E, <<x, y>> \in R, <<y, z>> \in R
      PROVE  <<x, z>> \in R
  <2>1. Before(x, y, ownFirst) /\ Before(y, z, ownFirst)
    BY <1>1, <1>3
  <2>2. Before(x, z, ownFirst)
    BY <2>1 DEF Before
  <2>. QED  BY <1>1, <2>2
<1>4. ASSUME NEW x \in E, NEW y \in E, x # y
      PROVE  <<x, y>> \in R \/ <<y, x>> \in R
  <2>1. Before(x, y, ownFirst) \/ Before(y, x, ownFirst)
    BY <1>4 DEF Before
  <2>. QED  BY <1>1, <2>1
<1>5. \A e \in E : {x \in E : <<x, e>> \in R} = {x \in E : Before(x, e, ownFirst)}
  BY <1>1
<1>. HIDE DEF R
<1>6. /\ N \in Nat
      /\ \A e \in E : rank(e) \in 0..(N - 1)
      /\ \A e, f \in E : rank(e) = rank(f) => e = f
      /\ \A k \in 0..(N - 1) : \E e \in E : rank(e) = k
  BY <1>2, <1>3, <1>4, Ranked
<1>15. \A e, f \in E : <<e, f>> \in R => rank(e) < rank(f)
  BY <1>2, <1>3, <1>4, RankRises
<1>7. \A e \in E : rank(e) = Cardinality({x \in E : Before(x, e, ownFirst)})
  BY <1>5 DEF RankIn
<1>. HIDE DEF rank
<1>8. PICK s : s = ByIndex(E, ownFirst)
  OBVIOUS
<1>9. s = [i \in 1..N |-> CHOOSE e \in E : rank(e) = i - 1]
  BY <1>7, <1>8 DEF ByIndex
<1>10. ASSUME NEW i \in 1..N PROVE s[i] \in E /\ rank(s[i]) = i - 1
  <2>1. \E e \in E : rank(e) = i - 1
    BY <1>6
  <2>. QED  BY <1>9, <2>1
<1>11. s \in Seq(E) /\ Len(s) = N
  BY <1>6, <1>9, <1>10
<1>12. Distinct(s)
  <2>1. ASSUME NEW i \in 1..N, NEW j \in 1..N, s[i] = s[j] PROVE i = j
    <3>1. i - 1 = j - 1
      BY <1>10, <2>1
    <3>. QED  BY <3>1, <1>6
  <2>. QED  BY <2>1, <1>11 DEF Distinct
<1>13. ASSUME NEW e \in E PROVE \E i \in 1..Len(s) : s[i] = e
  <2>1. rank(e) \in 0..(N - 1) /\ rank(e) + 1 \in 1..N
    BY <1>6
  <2>2. s[rank(e) + 1] \in E /\ rank(s[rank(e) + 1]) = rank(e)
    BY <2>1, <1>10
  <2>. QED  BY <2>1, <2>2, <1>6, <1>11
<1>14. ASSUME NEW i \in 1..N, NEW j \in 1..N, i < j PROVE Before(s[i], s[j], ownFirst)
  <2>1. /\ s[i] \in E /\ s[j] \in E
        /\ rank(s[i]) = i - 1 /\ rank(s[j]) = j - 1
    BY <1>10
  <2>2. s[i] # s[j] /\ ~ (<<s[j], s[i]>> \in R)
    <3>1. ~ (rank(s[j]) < rank(s[i]))
      BY <1>14, <2>1
    <3>2. s[i] = s[j] => i - 1 = j - 1
      BY <2>1
    <3>. QED  BY <1>14, <1>15, <2>1, <3>1, <3>2
  <2>. QED  BY <1>1, <1>4, <2>1, <2>2
<1>. QED  BY <1>6, <1>8, <1>11, <1>12, <1>13, <1>14
-----------------------------------------------------------------------------
(* Sequences                                                               *)

LEMMA ElementAway ==
  ASSUME NEW S, NEW s \in Seq(S), NEW at \in 1..Len(s)
  PROVE  LET t == RemoveAt(s, at)
         IN /\ t \in Seq(S) /\ Len(t) = Len(s) - 1
            /\ \A i \in 1..Len(t) : t[i] = IF i < at THEN s[i] ELSE s[i + 1]
            /\ Distinct(s) => Distinct(t) /\ ToSet(t) = ToSet(s) \ {s[at]}
<1>1. PICK t : t = RemoveAt(s, at)
  OBVIOUS
<1>2. /\ t \in Seq(S) /\ Len(t) = Len(s) - 1
      /\ \A i \in 1..Len(t) : t[i] = IF i < at THEN s[i] ELSE s[i + 1]
  <2>1. PICK a, b : a = SubSeq(s, 1, at - 1) /\ b = SubSeq(s, at + 1, Len(s))
    OBVIOUS
  <2>2. /\ a \in Seq(S) /\ Len(a) = at - 1
        /\ \A i \in 1..(at - 1) : a[i] = s[i]
    <3>1. \A i \in 1..(at - 1) : s[i] \in S /\ 1 + i - 1 = i
      OBVIOUS
    <3>. QED  BY <2>1, <3>1, SubSeqProperties
  <2>3. /\ b \in Seq(S) /\ Len(b) = Len(s) - at
        /\ \A i \in 1..(Len(s) - at) : b[i] = s[at + i]
    <3>1. \A i \in (at + 1)..Len(s) : s[i] \in S
      OBVIOUS
    <3>2. PICK m \in Int : m = at + 1
      OBVIOUS
    <3>3. \A i \in m..Len(s) : s[i] \in S
      BY <3>1, <3>2
    <3>4. b = SubSeq(s, m, Len(s))
      BY <2>1, <3>2
    <3>5. /\ b \in Seq(S)
          /\ Len(b) = IF m <= Len(s) THEN Len(s) - m + 1 ELSE 0
          /\ \A i \in 1..(Len(s) - m + 1) : b[i] = s[m + i - 1]
      BY <3>3, <3>4, SubSeqProperties
    <3>6. \A i \in Int : m + i - 1 = at + i
      BY <3>2
    <3>7. Len(s) - m + 1 = Len(s) - at
      BY <3>2
    <3>8. Len(b) = Len(s) - at
      BY <3>2, <3>5
    <3>9. ASSUME NEW i \in 1..(Len(s) - at) PROVE b[i] = s[at + i]
      <4>1. b[i] = s[m + i - 1]
        BY <3>5, <3>7
      <4>. QED  BY <3>6, <4>1
    <3>. QED  BY <3>5, <3>8, <3>9
  <2>4. t = a \o b
    BY <1>1, <2>1 DEF RemoveAt
  <2>5. /\ t \in Seq(S) /\ Len(t) = Len(s) - 1
        /\ \A i \in 1..(Len(s) - 1) : t[i] = IF i <= at - 1 THEN a[i] ELSE b[i - (at - 1)]
    <3>1. Len(a) + Len(b) = Len(s) - 1
      BY <2>2, <2>3
    <3>2. /\ t \in Seq(S) /\ Len(t) = Len(a) + Len(b)
          /\ \A i \in 1..(Len(a) + Len(b)) : t[i] = IF i <= Len(a) THEN a[i] ELSE b[i - Len(a)]
      BY <2>2, <2>3, <2>4, ConcatProperties
    <3>. QED  BY <2>2, <3>1, <3>2
  <2>6. ASSUME NEW i \in 1..Len(t) PROVE t[i] = IF i < at THEN s[i] ELSE s[i + 1]
    <3>0. i \in 1..(Len(s) - 1)
      BY <2>5
    <3>1. CASE i < at
      <4>1. i <= at - 1 /\ i \in 1..(at - 1)
        BY <3>0, <3>1
      <4>2. t[i] = a[i] /\ a[i] = s[i]
        BY <3>0, <4>1, <2>2, <2>5
      <4>. QED  BY <3>1, <4>2
    <3>2. CASE i >= at
      <4>1. i - (at - 1) \in 1..(Len(s) - at) /\ at + (i - (at - 1)) = i + 1 /\ ~ (i <= at - 1)
        BY <3>0, <3>2
      <4>2. t[i] = b[i - (at - 1)]
        BY <3>0, <4>1, <2>5
      <4>3. t[i] = s[i + 1]
        BY <4>1, <4>2, <2>3
      <4>. QED  BY <3>2, <4>3
    <3>. QED  BY <3>0, <3>1, <3>2
  <2>. QED  BY <2>5, <2>6
<1>3. ASSUME Distinct(s) PROVE Distinct(t)
  <2>1. ASSUME NEW i \in 1..Len(t), NEW j \in 1..Len(t), t[i] = t[j] PROVE i = j
    BY <1>2, <1>3, <2>1 DEF Distinct
  <2>. QED  BY <2>1 DEF Distinct
<1>4. ASSUME Distinct(s) PROVE ToSet(t) = ToSet(s) \ {s[at]}
  <2>1. ASSUME NEW i \in 1..Len(t) PROVE t[i] \in ToSet(s) \ {s[at]}
    BY <1>2, <1>4 DEF Distinct, ToSet
  <2>2. ASSUME NEW i \in 1..Len(s), s[i] # s[at] PROVE s[i] \in ToSet(t)
    <3>1. CASE i < at
      <4>1. i \in 1..Len(t) /\ t[i] = s[i]
        BY <3>1, <1>2
      <4>. QED  BY <4>1 DEF ToSet
    <3>2. CASE i > at
      <4>1. i - 1 \in 1..Len(t) /\ t[i - 1] = s[i]
        BY <3>2, <1>2
      <4>. QED  BY <4>1 DEF ToSet
    <3>. QED  BY <2>2, <3>1, <3>2
  <2>3. ToSet(t) \subseteq ToSet(s) \ {s[at]}
    BY <2>1 DEF ToSet
  <2>4. ToSet(s) \ {s[at]} \subseteq ToSet(t)
    BY <2>2 DEF ToSet
  <2>. QED  BY <2>3, <2>4
<1>. QED  BY <1>1, <1>2, <1>3, <1>4

Inserted(t, s, p, e) ==
  /\ Len(t) = Len(s) + 1
  /\ \A i \in 1..Len(t) : /\ i < p => t[i] = s[i]
                          /\ i = p => t[i] = e
                          /\ i > p => t[i] = s[i - 1]

LEMMA ElementPlaced ==
  ASSUME NEW S, NEW s \in Seq(S), NEW p \in 1..(Len(s) + 1), NEW e \in S
  PROVE  InsertAt(s, p, e) \in Seq(S) /\ Inserted(InsertAt(s, p, e), s, p, e)
<1>0. PICK t : t = InsertAt(s, p, e)
  OBVIOUS
<1>1. PICK a, b, c : /\ a = SubSeq(s, 1, p - 1) /\ b = SubSeq(s, p, Len(s))
                     /\ c = a \o <<e>>
  OBVIOUS
<1>2. /\ a \in Seq(S) /\ Len(a) = p - 1
      /\ \A i \in 1..(p - 1) : a[i] = s[i]
  <2>1. \A i \in 1..(p - 1) : s[i] \in S /\ 1 + i - 1 = i
    OBVIOUS
  <2>. QED  BY <1>1, <2>1, SubSeqProperties
<1>3. /\ b \in Seq(S) /\ Len(b) = Len(s) - p + 1
      /\ \A i \in 1..(Len(s) - p + 1) : b[i] = s[p + i - 1]
  <2>1. \A i \in p..Len(s) : s[i] \in S
    OBVIOUS
  <2>. QED  BY <1>1, <2>1, SubSeqProperties
<1>4. /\ c \in Seq(S) /\ Len(c) = p /\ c[p] = e
      /\ \A i \in 1..(p - 1) : c[i] = s[i]
  <2>1. <<e>> \in Seq(S) /\ Len(<<e>>) = 1 /\ <<e>>[1] = e
    OBVIOUS
  <2>2. p - (p - 1) = 1 /\ (p - 1) + 1 = p
    OBVIOUS
  <2>3. /\ c \in Seq(S) /\ Len(c) = p
        /\ \A i \in 1..p : c[i] = IF i <= p - 1 THEN a[i] ELSE <<e>>[i - (p - 1)]
    BY <1>1, <1>2, <2>1, <2>2, ConcatProperties
  <2>4. c[p] = <<e>>[p - (p - 1)]
    BY <2>3
  <2>. QED  BY <1>2, <2>1, <2>2, <2>3, <2>4
<1>5. t = c \o b
  BY <1>0, <1>1 DEF InsertAt
<1>6. /\ t \in Seq(S) /\ Len(t) = Len(s) + 1
      /\ \A i \in 1..(Len(s) + 1) : t[i] = IF i <= p THEN c[i] ELSE b[i - p]
  <2>1. Len(c) + Len(b) = Len(s) + 1
    BY <1>3, <1>4
  <2>2. /\ t \in Seq(S) /\ Len(t) = Len(c) + Len(b)
        /\ \A i \in 1..(Len(c) + Len(b)) : t[i] = IF i <= Len(c) THEN c[i] ELSE b[i - Len(c)]
    BY <1>3, <1>4, <1>5, ConcatProperties
  <2>. QED  BY <1>4, <2>1, <2>2
<1>7. ASSUME NEW i \in 1..Len(t)
      PROVE  t[i] = IF i < p THEN s[i] ELSE IF i = p THEN e ELSE s[i - 1]
  <2>1. CASE i <= p
    BY <2>1, <1>4, <1>6
  <2>2. CASE i > p
    <3>1. i - p \in 1..(Len(s) - p + 1) /\ p + (i - p) - 1 = i - 1
      BY <2>2, <1>6
    <3>2. t[i] = b[i - p]
      BY <2>2, <1>6
    <3>3. t[i] = s[i - 1]
      BY <3>1, <3>2, <1>3
    <3>. QED  BY <2>2, <3>3
  <2>. QED  BY <2>1, <2>2
<1>. QED  BY <1>0, <1>6, <1>7 DEF Inserted

LEMMA ElementIn ==
  ASSUME NEW S, NEW s \in Seq(S), NEW p \in 1..(Len(s) + 1), NEW e \in S
  PROVE  LET t == InsertAt(s, p, e)
         IN /\ t \in Seq(S) /\ Len(t) = Len(s) + 1
            /\ \A i \in 1..Len(t) :
                 t[i] = IF i < p THEN s[i] ELSE IF i = p THEN e ELSE s[i - 1]
            /\ Distinct(s) /\ e \notin ToSet(s) => Distinct(t)
            /\ ToSet(t) = ToSet(s) \cup {e}
<1>1. PICK t : t = InsertAt(s, p, e)
  OBVIOUS
<1>2. /\ t \in Seq(S) /\ Len(t) = Len(s) + 1
      /\ \A i \in 1..Len(t) :
           t[i] = IF i < p THEN s[i] ELSE IF i = p THEN e ELSE s[i - 1]
  <2>1. /\ t \in Seq(S) /\ Len(t) = Len(s) + 1
        /\ \A i \in 1..Len(t) : /\ i < p => t[i] = s[i]
                                /\ i = p => t[i] = e
                                /\ i > p => t[i] = s[i - 1]
    <3>1. t \in Seq(S) /\ Inserted(t, s, p, e)
      BY <1>1, ElementPlaced
    <3>. QED  BY <3>1 DEF Inserted
  <2>. QED  BY <2>1
<1>3. ASSUME Distinct(s), e \notin ToSet(s) PROVE Distinct(t)
  <2>1. ASSUME NEW i \in 1..Len(t), NEW j \in 1..Len(t), t[i] = t[j] PROVE i = j
    <3>1. \A k \in 1..Len(s) : s[k] # e
      BY <1>3 DEF ToSet
    <3>2. \A k \in 1..Len(t) : k # p =>
            \E l \in 1..Len(s) : t[k] = s[l] /\ l = IF k < p THEN k ELSE k - 1
      BY <1>2
    <3>3. t[p] = e /\ p \in 1..Len(t)
      BY <1>2
    <3>4. CASE i # p /\ j # p
      <4>1. PICK k \in 1..Len(s) : t[i] = s[k] /\ k = IF i < p THEN i ELSE i - 1
        BY <3>2, <3>4
      <4>2. PICK l \in 1..Len(s) : t[j] = s[l] /\ l = IF j < p THEN j ELSE j - 1
        BY <3>2, <3>4
      <4>3. k = l
        BY <1>3, <2>1, <4>1, <4>2 DEF Distinct
      <4>. QED  BY <3>4, <4>1, <4>2, <4>3
    <3>. QED  BY <2>1, <3>1, <3>2, <3>3, <3>4
  <2>. QED  BY <2>1 DEF Distinct
<1>4. ToSet(t) = ToSet(s) \cup {e}
  <2>1. ASSUME NEW i \in 1..Len(t) PROVE t[i] \in ToSet(s) \cup {e}
    <3>1. i < p => i \in 1..Len(s)
      BY <1>2
    <3>2. i > p => i - 1 \in 1..Len(s)
      BY <1>2
    <3>. QED  BY <1>2, <3>1, <3>2 DEF ToSet
  <2>2. ASSUME NEW i \in 1..Len(s) PROVE s[i] \in ToSet(t)
    <3>1. CASE i < p
      <4>1. i \in 1..Len(t) /\ t[i] = s[i]
        BY <3>1, <1>2
      <4>. QED  BY <4>1 DEF ToSet
    <3>2. CASE i >= p
      <4>1. i + 1 \in 1..Len(t) /\ t[i + 1] = s[i]
        BY <3>2, <1>2
      <4>. QED  BY <4>1 DEF ToSet
    <3>. QED  BY <3>1, <3>2
  <2>3. p \in 1..Len(t) /\ t[p] = e
    BY <1>2
  <2>4. ToSet(t) \subseteq ToSet(s) \cup {e}
    BY <2>1 DEF ToSet
  <2>5. ToSet(s) \cup {e} \subseteq ToSet(t)
    BY <2>2, <2>3 DEF ToSet
  <2>. QED  BY <2>4, <2>5
<1>. QED  BY <1>1, <1>2, <1>3, <1>4

LEMMA PlaceFinds ==
  ASSUME NEW S, NEW s \in Seq(S), NEW e \in ToSet(s)
  PROVE  Place(s, e) \in 1..Len(s) /\ s[Place(s, e)] = e
<1>1. \E i \in DOMAIN s : s[i] = e
  BY DEF ToSet
<1>. QED  BY <1>1 DEF Place

LEMMA SetListed ==
  ASSUME NEW S, IsFiniteSet(S)
  PROVE  /\ SetToSeq(S) \in Seq(S) /\ Distinct(SetToSeq(S))
         /\ \A x \in S : \E i \in 1..Len(SetToSeq(S)) : SetToSeq(S)[i] = x
<1>1. PICK n \in Nat : n = Cardinality(S) /\ ExistsBijection(1..n, S)
  BY FS_CardinalityType
<1>2. PICK f : f \in Bijection(1..n, S)
  BY <1>1 DEF ExistsBijection
<1>3. f \in [1..n -> S] /\ IsInjective(f)
  BY <1>2 DEF Bijection, Injection
<1>4. SetToSeq(S) \in [1..n -> S] /\ IsInjective(SetToSeq(S))
  BY <1>1, <1>3 DEF SetToSeq
<1>5. PICK s : s = SetToSeq(S)
  OBVIOUS
<1>6. s \in Seq(S) /\ Len(s) = n /\ s \in Injection(1..n, S)
  BY <1>4, <1>5 DEF Injection
<1>7. IsFiniteSet(1..n) /\ Cardinality(1..n) = n
  BY FS_Interval
<1>8. s \in Surjection(1..n, S)
  BY <1>1, <1>6, <1>7, FS_Injection
<1>9. Distinct(s)
  BY <1>6 DEF Distinct, Injection, IsInjective
<1>10. \A x \in S : \E i \in 1..n : s[i] = x
  BY <1>8 DEF Surjection
<1>. QED  BY <1>5, <1>6, <1>9, <1>10

(* Reordering moves sections and neither loses nor doubles one.            *)
Orders(old) ==
  {a \in [place : Nat \ {0}, seq : Seq(Remote)] :
     Len(a.seq) = Len(old) /\ Distinct(a.seq) /\ ToSet(a.seq) = ToSet(old)}

LEMMA OrderStepKeeps ==
  ASSUME NEW old \in Seq(Remote), NEW a \in Orders(old), NEW s
  PROVE  OrderStep(old, a, s) \in Orders(old)
<1>1. CASE s \notin ToSet(old)
  BY <1>1 DEF OrderStep
<1>2. CASE s \in ToSet(old)
  <2>1. PICK seq \in Seq(Remote) : seq = a.seq
    BY DEF Orders
  <2>2. Len(seq) = Len(old) /\ Distinct(seq) /\ ToSet(seq) = ToSet(old) /\ a.place \in Nat \ {0}
    BY <2>1 DEF Orders
  <2>3. PICK at \in 1..Len(seq) : at = Place(seq, s) /\ seq[at] = s
    BY <1>2, <2>2, PlaceFinds
  <2>4. PICK rest : rest = RemoveAt(seq, at)
    OBVIOUS
  <2>9. /\ rest \in Seq(Remote) /\ Len(rest) = Len(old) - 1
        /\ Distinct(rest) /\ ToSet(rest) = ToSet(old) \ {s}
    <3>1. /\ rest \in Seq(Remote) /\ Len(rest) = Len(seq) - 1
          /\ Distinct(rest) /\ ToSet(rest) = ToSet(seq) \ {seq[at]}
      BY <2>2, <2>4, ElementAway
    <3>. QED  BY <2>2, <2>3, <3>1
  <2>5. PICK p \in 1..Len(old) : p = Min({a.place, Len(old)})
    <3>1. {a.place, Len(old)} \in SUBSET Nat /\ Len(old) >= 1 /\ a.place >= 1
      BY <2>2, <2>3
    <3>2. /\ Min({a.place, Len(old)}) \in {a.place, Len(old)}
          /\ Min({a.place, Len(old)}) <= Len(old)
      BY <3>1, MinOf
    <3>. QED  BY <3>1, <3>2
  <2>6. s \in Remote
    BY <2>3
  <2>7. PICK new : new = InsertAt(rest, p, s)
    OBVIOUS
  <2>10. /\ new \in Seq(Remote) /\ Len(new) = Len(old)
         /\ Distinct(new) /\ ToSet(new) = ToSet(old)
    <3>1. p \in 1..(Len(rest) + 1) /\ s \notin ToSet(rest)
      BY <2>9
    <3>2. ToSet(rest) \cup {s} = ToSet(old)
      BY <1>2, <2>9
    <3>3. Len(rest) + 1 = Len(old)
      BY <2>9
    <3>4. /\ new \in Seq(Remote) /\ Len(new) = Len(rest) + 1
          /\ Distinct(new) /\ ToSet(new) = ToSet(rest) \cup {s}
      BY <2>6, <2>7, <2>9, <3>1, ElementIn
    <3>. QED  BY <3>2, <3>3, <3>4
  <2>8. OrderStep(old, a, s) = [place |-> a.place + 1, seq |-> new]
    BY <1>2, <2>1, <2>3, <2>4, <2>5, <2>7 DEF OrderStep
  <2>. QED  BY <2>2, <2>8, <2>10 DEF Orders
<1>. QED  BY <1>1, <1>2

Stepwise(old, wanted, h) ==
  /\ h \in [0..Len(wanted) -> Orders(old)]
  /\ h[0] = [place |-> 1, seq |-> old]
  /\ \A i \in 1..Len(wanted) : h[i] = OrderStep(old, h[i - 1], wanted[i])
  /\ Ordered(old, wanted) = h[Len(wanted)].seq

LEMMA OrderedSteps ==
  ASSUME NEW old \in Seq(Remote), Distinct(old), NEW S, NEW wanted \in Seq(S)
  PROVE  \E h : Stepwise(old, wanted, h)
<1>. DEFINE A == Orders(old)
            first == [place |-> 1, seq |-> old]
            Follows(h, n) == /\ h \in [0..n -> A] /\ h[0] = first
                             /\ \A i \in 1..n : h[i] = OrderStep(old, h[i - 1], wanted[i])
<1>1. PICK N \in Nat : N = Len(wanted)
  OBVIOUS
<1>2. first \in A
  BY DEF Orders
<1>3. ASSUME NEW n \in Nat PROVE \E h : Follows(h, n)
  <2>. DEFINE Bad == {m \in Nat : ~ \E h : Follows(h, m)}
  <2>1. Bad = {}
    <3>1. SUFFICES ASSUME Bad # {} PROVE FALSE
      OBVIOUS
    <3>2. PICK m \in Bad : \A y \in Bad : m <= y
      BY <3>1, Least
    <3>12. ~ \E h : Follows(h, m)
      OBVIOUS
    <3>3. m # 0
      <4>1. Follows([i \in {0} |-> first], 0)
        BY <1>2
      <4>. QED  BY <4>1
    <3>4. m - 1 \in Nat
      BY <3>3
    <3>5. PICK h : Follows(h, m - 1)
      <4>1. m - 1 \notin Bad
        <5>. HIDE DEF Bad
        <5>1. m \in Nat /\ ~ (m <= m - 1)
          BY DEF Bad
        <5>. QED  BY <3>2, <5>1
      <4>. QED  BY <3>4, <4>1
    <3>6. PICK last \in A : last = OrderStep(old, h[m - 1], wanted[m])
      BY <3>4, <3>5, OrderStepKeeps
    <3>7. PICK g : g = [i \in 0..m |-> IF i = m THEN last ELSE h[i]]
      OBVIOUS
    <3>. HIDE DEF A, first
    <3>8. \A i \in 0..m : g[i] \in A
      BY <3>4, <3>5, <3>6, <3>7
    <3>9. g[0] = first
      BY <3>3, <3>4, <3>5, <3>7
    <3>10. ASSUME NEW i \in 1..m PROVE g[i] = OrderStep(old, g[i - 1], wanted[i])
      <4>1. i - 1 \in 0..m /\ i - 1 # m /\ g[i - 1] = h[i - 1]
        BY <3>7
      <4>. QED  BY <3>5, <3>6, <3>7, <4>1
    <3>11. Follows(g, m)
      BY <3>7, <3>8, <3>9, <3>10
    <3>. QED  BY <3>11, <3>12
  <2>. QED  BY <2>1
<1>4. PICK h : Follows(h, N)
  BY <1>3
<1>. DEFINE acc[n \in 0..N] == IF n = 0 THEN first ELSE OrderStep(old, acc[n - 1], wanted[n])
<1>5. h = [n \in 0..N |-> IF n = 0 THEN first ELSE OrderStep(old, h[n - 1], wanted[n])]
  <2>. HIDE DEF A, first
  <2>. QED  BY <1>4
<1>6. acc = [n \in 0..N |-> IF n = 0 THEN first ELSE OrderStep(old, acc[n - 1], wanted[n])]
  <2>. HIDE DEF first
  <2>. QED  BY <1>5 DEF acc
<1>7. Ordered(old, wanted) = acc[N].seq
  BY <1>1 DEF Ordered
<1>. HIDE DEF acc
<1>8. \A n \in 0..N : acc[n] \in A
  <2>. DEFINE Bad == {m \in 0..N : acc[m] \notin A}
  <2>1. Bad = {}
    <3>1. SUFFICES ASSUME Bad # {} PROVE FALSE
      OBVIOUS
    <3>8. Bad \in SUBSET Nat
      OBVIOUS
    <3>2. PICK m \in Bad : \A y \in Bad : m <= y
      <4>. HIDE DEF Bad
      <4>. QED  BY <3>1, <3>8, Least
    <3>3. acc[0] = first
      BY <1>6
    <3>4. m # 0
      BY <1>2, <3>2, <3>3
    <3>5. m - 1 \in 0..N /\ m - 1 \notin Bad
      BY <3>2, <3>4
    <3>6. acc[m - 1] \in A /\ acc[m] = OrderStep(old, acc[m - 1], wanted[m])
      BY <1>6, <3>4, <3>5
    <3>7. acc[m] \in A
      BY <3>6, OrderStepKeeps
    <3>. QED  BY <3>2, <3>7
  <2>. QED  BY <2>1
<1>9. PICK g : g = acc
  OBVIOUS
<1>10. g = [n \in 0..N |-> IF n = 0 THEN first ELSE OrderStep(old, g[n - 1], wanted[n])]
  BY <1>6, <1>9
<1>. HIDE DEF A, first
<1>11. g \in [0..N -> A]
  BY <1>8, <1>9, <1>10
<1>12. g[0] = first
  BY <1>10
<1>13. \A i \in 1..N : g[i] = OrderStep(old, g[i - 1], wanted[i])
  BY <1>10
<1>. QED  BY <1>1, <1>7, <1>9, <1>11, <1>12, <1>13 DEF A, first, Stepwise

LEMMA OrderedKeeps ==
  ASSUME NEW old \in Seq(Remote), Distinct(old), NEW S, NEW wanted \in Seq(S)
  PROVE  /\ Ordered(old, wanted) \in Seq(Remote) /\ Distinct(Ordered(old, wanted))
         /\ ToSet(Ordered(old, wanted)) = ToSet(old)
<1>1. PICK h : Stepwise(old, wanted, h)
  BY OrderedSteps
<1>2. h[Len(wanted)] \in Orders(old)
  BY <1>1 DEF Stepwise
<1>. QED  BY <1>1, <1>2 DEF Stepwise, Orders
-----------------------------------------------------------------------------
(* The sections                                                            *)

LEMMA ImageFinite ==
  ASSUME NEW S, IsFiniteSet(S), NEW f
  PROVE  IsFiniteSet({f[x] : x \in S})
<1>1. [x \in S |-> f[x]] \in Surjection(S, {f[x] : x \in S})
  BY DEF Surjection
<1>. QED  BY <1>1, FS_Surjection

LEMMA Typed ==
  ASSUME TypeOK, NEW s \in Sid
  PROVE  /\ values[s] # Nil =>
              /\ values[s] \in LoadedSection
              /\ values[s].index \in Nat /\ values[s].key \in Nat
              /\ values[s].opts \in OptionsOf(Val)
         /\ creates[s] # Nil =>
              /\ creates[s] \in CreatedSection
              /\ creates[s].name \in Sid \cup {Nil} /\ creates[s].named \in BOOLEAN
              /\ creates[s].index \in Nat /\ creates[s].born \in Nat
              /\ creates[s].opts \in OptionsOf(Val \cup {Empty})
         /\ changes[s] \in OptionsOf(Val) /\ deletes[s] \in SUBSET Opt
<1>1. values[s] \in LoadedSection \cup {Nil} /\ creates[s] \in CreatedSection \cup {Nil}
  BY DEF TypeOK
<1>2. values[s] # Nil => values[s] \in LoadedSection
  BY <1>1
<1>3. creates[s] # Nil => creates[s] \in CreatedSection
  BY <1>1
<1>4. changes[s] \in OptionsOf(Val) /\ deletes[s] \in SUBSET Opt
  BY DEF TypeOK
<1>. QED  BY <1>2, <1>3, <1>4 DEF LoadedSection, CreatedSection

LEMMA EntriesTyped ==
  ASSUME TypeOK, NEW e \in Created \cup Loaded
  PROVE  /\ e.sid \in Sid /\ e.name \in Sid \cup {Nil} /\ e.index \in Nat
         /\ e.key \in Nat /\ e.create \in BOOLEAN
         /\ e.create => /\ creates[e.sid] # Nil /\ e.name = creates[e.sid].name
                        /\ e.index = creates[e.sid].index /\ e.key = creates[e.sid].born
         /\ ~e.create => /\ values[e.sid] # Nil /\ e.name = e.sid
                         /\ e.index = values[e.sid].index /\ e.key = values[e.sid].key
<1>1. CASE e \in Created
  <2>1. PICK s \in Sid : /\ creates[s] # Nil
                         /\ e = [sid |-> s, name |-> creates[s].name, index |-> creates[s].index,
                                 key |-> creates[s].born, create |-> TRUE]
    BY <1>1 DEF Created
  <2>2. e.sid = s /\ e.name = creates[s].name /\ e.index = creates[s].index
        /\ e.key = creates[s].born /\ e.create = TRUE
    BY <2>1
  <2>. QED  BY <2>1, <2>2, Typed
<1>2. CASE e \in Loaded
  <2>1. PICK s \in Sid : /\ values[s] # Nil
                         /\ e = [sid |-> s, name |-> s, index |-> values[s].index,
                                 key |-> values[s].key, create |-> FALSE]
    BY <1>2 DEF Loaded
  <2>2. e.sid = s /\ e.name = s /\ e.index = values[s].index
        /\ e.key = values[s].key /\ e.create = FALSE
    BY <2>1
  <2>. QED  BY <2>1, <2>2, Typed
<1>. QED  BY <1>1, <1>2

LEMMA EntriesSame ==
  ASSUME TypeOK, NEW e \in Created \cup Loaded, NEW f \in Created \cup Loaded,
         e.create = f.create, e.sid = f.sid
  PROVE  e = f
<1>0. (\A x \in Created : x.create = TRUE) /\ \A x \in Loaded : x.create = FALSE
  BY DEF Created, Loaded
<1>1. CASE e.create = TRUE
  <2>1. e \in Created /\ f \in Created
    BY <1>0, <1>1
  <2>. QED  BY <2>1 DEF Created
<1>2. CASE e.create = FALSE
  <2>1. e \in Loaded /\ f \in Loaded
    BY <1>0, <1>2
  <2>. QED  BY <2>1 DEF Loaded
<1>. QED  BY <1>0, <1>1, <1>2

LEMMA EntriesKeyed ==
  ASSUME TypeOK, LoadedInv, CreatedInv
  PROVE  \A e, f \in Created \cup Loaded :
           e.create = f.create /\ e.key = f.key => e = f
<1>1. SUFFICES ASSUME NEW e \in Created \cup Loaded, NEW f \in Created \cup Loaded,
                      e.create = f.create, e.key = f.key
               PROVE  e = f
  OBVIOUS
<1>2. e.sid = f.sid
  <2>1. CASE e.create
    <3>1. creates[e.sid] # Nil /\ creates[f.sid] # Nil
          /\ creates[e.sid].born = creates[f.sid].born /\ e.sid \in Sid /\ f.sid \in Sid
      BY <1>1, <2>1, EntriesTyped
    <3>. QED  BY <3>1 DEF CreatedInv
  <2>2. CASE ~e.create
    <3>1. values[e.sid] # Nil /\ values[f.sid] # Nil
          /\ values[e.sid].key = values[f.sid].key /\ e.sid \in Sid /\ f.sid \in Sid
      BY <1>1, <2>2, EntriesTyped
    <3>. QED  BY <3>1 DEF LoadedInv
  <2>. QED  BY <2>1, <2>2
<1>. QED  BY <1>1, <1>2, EntriesSame

LEMMA EntriesCounted ==
  ASSUME TypeOK, LoadedInv, CreatedInv
  PROVE  /\ IsFiniteSet(Created) /\ Cardinality(Created) <= newidx
         /\ IsFiniteSet(Loaded) /\ Cardinality(Loaded) <= Cardinality(Remote)
         /\ Cardinality(Created) \in Nat /\ Cardinality(Loaded) \in Nat
<1>1. newidx \in Nat /\ IsFiniteSet(0..(newidx - 1)) /\ Cardinality(0..(newidx - 1)) = newidx
  BY FS_Interval DEF TypeOK
<1>2. [e \in Created |-> e.key] \in Injection(Created, 0..(newidx - 1))
  <2>1. ASSUME NEW e \in Created PROVE e.key \in 0..(newidx - 1) /\ e.create = TRUE
    <3>1. e.create = TRUE
      BY DEF Created
    <3>2. e.sid \in Sid /\ creates[e.sid] # Nil /\ e.key = creates[e.sid].born /\ e.key \in Nat
      BY <3>1, EntriesTyped
    <3>3. e.key < newidx
      BY <3>2 DEF CreatedInv
    <3>. QED  BY <1>1, <3>1, <3>2, <3>3
  <2>2. \A e, f \in Created : e.key = f.key => e = f
    BY <2>1, EntriesKeyed
  <2>. QED  BY <2>1, <2>2 DEF Injection, IsInjective
<1>3. [e \in Loaded |-> e.sid] \in Injection(Loaded, Remote)
  <2>1. ASSUME NEW e \in Loaded PROVE e.sid \in Remote /\ e.create = FALSE
    <3>1. e.create = FALSE
      BY DEF Loaded
    <3>2. e.sid \in Sid /\ values[e.sid] # Nil
      BY <3>1, EntriesTyped
    <3>. QED  BY <3>1, <3>2 DEF LoadedInv
  <2>2. \A e, f \in Loaded : e.sid = f.sid => e = f
    BY <2>1, EntriesSame
  <2>. QED  BY <2>1, <2>2 DEF Injection, IsInjective
<1>4. IsFiniteSet(Created) /\ Cardinality(Created) <= newidx
  BY <1>1, <1>2, FS_Injection
<1>5. IsFiniteSet(Loaded) /\ Cardinality(Loaded) <= Cardinality(Remote)
  BY <1>3, FS_Injection, IndexAssumption
<1>. QED  BY <1>4, <1>5, FS_CardinalityType

(* The sections a page lists.                                              *)
Listed == Created \cup {e \in Loaded : e.sid \notin removed}

LEMMA ListedCounted ==
  ASSUME TypeOK, LoadedInv, CreatedInv
  PROVE  /\ IsFiniteSet(Created \cup Loaded) /\ IsFiniteSet(Listed)
         /\ Cardinality(Listed) \in Nat
         /\ Cardinality(Listed) <= FirstNewIndex + newidx
<1>1. /\ IsFiniteSet(Created) /\ Cardinality(Created) <= newidx
      /\ IsFiniteSet(Loaded) /\ Cardinality(Loaded) <= Cardinality(Remote)
      /\ Cardinality(Created) \in Nat /\ Cardinality(Loaded) \in Nat
  BY EntriesCounted
<1>2. /\ IsFiniteSet(Created \cup Loaded)
      /\ Cardinality(Created \cup Loaded)
           = Cardinality(Created) + Cardinality(Loaded) - Cardinality(Created \cap Loaded)
  BY <1>1, FS_Union
<1>3. Cardinality(Created \cap Loaded) \in Nat
  <2>1. Created \cap Loaded \in SUBSET Created
    OBVIOUS
  <2>. QED  BY <1>1, <2>1, FS_Subset, FS_CardinalityType
<1>4. Listed \in SUBSET (Created \cup Loaded)
  BY DEF Listed
<1>5. IsFiniteSet(Listed) /\ Cardinality(Listed) <= Cardinality(Created \cup Loaded)
  BY <1>2, <1>4, FS_Subset
<1>6. Cardinality(Listed) \in Nat /\ Cardinality(Remote) \in Nat /\ newidx \in Nat
  BY <1>5, FS_CardinalityType, IndexAssumption DEF TypeOK
<1>. QED  BY <1>1, <1>2, <1>3, <1>5, <1>6, IndexAssumption

(* What sorting them asks for.                                             *)
EntriesOrdered ==
  /\ IsFiniteSet(Created \cup Loaded)
  /\ \A e \in Created \cup Loaded :
       /\ e.name \in Sid \cup {Nil}
       /\ e.index \in Int /\ e.key \in Int /\ e.create \in BOOLEAN
  /\ \A e, f \in Created \cup Loaded :
       e.create = f.create /\ e.key = f.key => e = f

LEMMA EntriesInOrder == TypeOK /\ LoadedInv /\ CreatedInv => EntriesOrdered
<1>. SUFFICES ASSUME TypeOK, LoadedInv, CreatedInv PROVE EntriesOrdered
  OBVIOUS
<1>1. IsFiniteSet(Created \cup Loaded)
  BY ListedCounted
<1>2. \A e \in Created \cup Loaded :
        /\ e.name \in Sid \cup {Nil}
        /\ e.index \in Int /\ e.key \in Int /\ e.create \in BOOLEAN
  BY EntriesTyped
<1>3. \A e, f \in Created \cup Loaded :
        e.create = f.create /\ e.key = f.key => e = f
  BY EntriesKeyed
<1>. QED  BY <1>1, <1>2, <1>3 DEF EntriesOrdered

(* sections() lists every section of the page once, in order.              *)
LEMMA SectionsList ==
  ASSUME TypeOK, LoadedInv, CreatedInv, present
  PROVE  /\ Sections \in Seq(Listed) /\ Len(Sections) = Cardinality(Listed)
         /\ Distinct(Sections)
         /\ \A e \in Listed : \E i \in 1..Len(Sections) : Sections[i] = e
         /\ \A i, j \in 1..Len(Sections) : i < j => Before(Sections[i], Sections[j], FALSE)
<1>1. Sections = ByIndex(Listed, FALSE)
  BY DEF Sections, Listed
<1>2. \A e \in Listed : e.index \in Int /\ e.key \in Int /\ e.create \in BOOLEAN
  BY EntriesTyped DEF Listed
<1>3. \A e, f \in Listed : e.create = f.create /\ e.key = f.key => e = f
  BY EntriesKeyed DEF Listed
<1>4. IsFiniteSet(Listed)
  BY ListedCounted
<1>. HIDE DEF Listed
<1>5. PICK s : s = ByIndex(Listed, FALSE)
  OBVIOUS
<1>6. /\ s \in Seq(Listed) /\ Len(s) = Cardinality(Listed)
      /\ Distinct(s) /\ \A e \in Listed : \E i \in 1..Len(s) : s[i] = e
      /\ \A i, j \in 1..Len(s) : i < j => Before(s[i], s[j], FALSE)
  BY <1>2, <1>3, <1>4, <1>5, ByIndexLists
<1>. QED  BY <1>1, <1>5, <1>6
-----------------------------------------------------------------------------
(* Edits of options                                                        *)

(* An edit of options leaves the list of sections as it is.                *)
LEMMA SectionsKept ==
  ASSUME IInv, NEW cs, NEW vs, creates' = cs, values' = vs,
         \A s \in Sid :
           /\ cs[s] = Nil <=> creates[s] = Nil
           /\ creates[s] # Nil => /\ cs[s].name = creates[s].name
                                  /\ cs[s].named = creates[s].named
                                  /\ cs[s].index = creates[s].index
                                  /\ cs[s].born = creates[s].born
           /\ vs[s] = Nil <=> values[s] = Nil
           /\ values[s] # Nil => /\ vs[s].index = values[s].index
                                 /\ vs[s].key = values[s].key,
         UNCHANGED <<removed, present, newidx, drift, phase, rendered, jammed>>
  PROVE  LoadedInv' /\ CreatedInv' /\ PageInv' /\ WaitingInv' /\ IndexInv'
<1>1. LoadedInv'
  BY DEF IInv, LoadedInv
<1>2. CreatedInv'
  BY DEF IInv, CreatedInv
<1>3. PageInv' /\ WaitingInv'
  BY DEF IInv, PageInv, WaitingInv
<1>4. (Settled' <=> Settled) /\ \A s \in Sid :
        (Visible(s)' <=> Visible(s)) /\ (Visible(s) => Index(s)' = Index(s))
  BY DEF Settled, Visible, Index
<1>5. IndexInv'
  BY <1>4 DEF IInv, IndexInv
<1>. QED  BY <1>1, <1>2, <1>3, <1>5

LEMMA EditKeeps ==
  ASSUME IInv, Edit
  PROVE  /\ BatchInv' /\ ServerInv'
         /\ (options \in [Sid -> OptionsOf(Val) \cup {Nil}])'
         /\ UNCHANGED <<options, order, present, jammed, rendered, phase, drift>>
         /\ rendered' \in BOOLEAN /\ jammed' \in BOOLEAN /\ present' \in BOOLEAN
         /\ phase' \in {"idle", "tasks", "order", "ordered", "load", "loaded"}
<1>1. UNCHANGED <<options, order, present, jammed, rendered, phase, drift,
                  tasks, replies, listed, snap>>
  BY DEF Edit, server, calls
<1>2. BatchInv' /\ ServerInv'
  BY <1>1 DEF IInv, BatchInv, ServerInv
<1>. QED  BY <1>1, <1>2 DEF IInv, TypeOK

LEMMA SetCreatedKeeps ==
  ASSUME IInv, NEW s \in Sid, NEW o \in Opt, NEW v \in Val \cup {Empty, Nil},
         SetCreated(s, o, v)
  PROVE  IInv'
<1>1. /\ creates[s] # Nil /\ creates' = [creates EXCEPT ![s].opts[o] = v]
      /\ UNCHANGED <<values, changes, removed, deletes, reorder, touched, newidx, folded>>
  BY DEF SetCreated
<1>2. TypeOK /\ PendingConsistent /\ MirrorInv
  BY DEF IInv
<1>3. BatchInv' /\ ServerInv'
  BY EditKeeps DEF SetCreated
<1>4. UNCHANGED <<options, order, present, jammed, rendered, phase, drift>>
  BY EditKeeps DEF SetCreated
<1>5. PICK c : c = [creates[s] EXCEPT !.opts[o] = v]
  OBVIOUS
<1>6. creates[s] \in CreatedSection
  BY <1>1, <1>2, Typed
<1>7. /\ c \in CreatedSection /\ c.name = creates[s].name /\ c.named = creates[s].named
      /\ c.index = creates[s].index /\ c.born = creates[s].born
  BY <1>5, <1>6 DEF CreatedSection, OptionsOf
<1>8. c # Nil
  BY <1>7, NilAssumption
<1>9. creates' = [creates EXCEPT ![s] = c]
  BY <1>1, <1>5
<1>10. creates' \in [Sid -> CreatedSection \cup {Nil}] /\ creates \in [Sid -> CreatedSection \cup {Nil}]
  BY <1>2, <1>7, <1>9 DEF TypeOK
<1>11. TypeOK'
  BY <1>1, <1>2, <1>4, <1>10 DEF TypeOK
<1>12. LoadedInv' /\ CreatedInv' /\ PageInv' /\ WaitingInv' /\ IndexInv'
  <2>1. PICK cs : cs = [creates EXCEPT ![s] = c]
    OBVIOUS
  <2>2. \A t \in Sid : cs[t] = IF t = s THEN c ELSE creates[t]
    BY <2>1, <1>10
  <2>3. creates' = cs /\ values' = values
    BY <1>1, <1>9, <2>1
  <2>4. \A t \in Sid : /\ cs[t] = Nil <=> creates[t] = Nil
                       /\ creates[t] # Nil => /\ cs[t].name = creates[t].name
                                              /\ cs[t].named = creates[t].named
                                              /\ cs[t].index = creates[t].index
                                              /\ cs[t].born = creates[t].born
    BY <1>1, <1>7, <1>8, <2>2
  <2>. QED  BY <1>1, <1>4, <2>3, <2>4, SectionsKept
<1>13. PendingConsistent' /\ MirrorInv'
  BY <1>1, <1>2, <1>4 DEF PendingConsistent, MirrorInv
<1>. QED  BY <1>3, <1>11, <1>12, <1>13 DEF IInv

LEMMA SetLoadedKeeps ==
  ASSUME IInv, NEW s \in Sid, NEW o \in Opt, NEW v \in Val \cup {Empty, Nil},
         SetLoaded(s, o, v) \/ UnsetLoaded(s, o)
  PROVE  IInv'
<1>1. /\ Edit /\ creates[s] = Nil /\ values[s] # Nil /\ s \notin removed
      /\ UNCHANGED <<values, creates, removed, reorder, newidx, folded>>
  BY DEF SetLoaded, UnsetLoaded
<1>2. TypeOK /\ PendingConsistent /\ MirrorInv
  BY DEF IInv
<1>3. BatchInv' /\ ServerInv'
  BY <1>1, EditKeeps
<1>4. UNCHANGED <<options, order, present, jammed, rendered, phase, drift>>
  BY <1>1, EditKeeps
<1>5. PICK w \in Val \cup {Nil}, ds \in SUBSET Opt :
        /\ changes' = [changes EXCEPT ![s][o] = w]
        /\ deletes' = [deletes EXCEPT ![s] = ds]
        /\ w # Nil => o \notin ds
        /\ ds \subseteq deletes[s] \cup {o}
  <2>1. deletes \in [Sid -> SUBSET Opt]
    BY <1>2 DEF TypeOK
  <2>2. CASE SetLoaded(s, o, v)
    <3>1. v \in Val /\ changes' = [changes EXCEPT ![s][o] = v]
          /\ deletes' = [deletes EXCEPT ![s] = deletes[s] \ {o}]
      BY <2>2 DEF SetLoaded, IsValue, Undelete
    <3>. QED  BY <2>1, <3>1
  <2>3. CASE UnsetLoaded(s, o)
    <3>1. changes' = [changes EXCEPT ![s][o] = Nil]
      BY <2>3 DEF UnsetLoaded
    <3>2. CASE values[s].opts[o] # Nil
      <4>1. deletes' = [deletes EXCEPT ![s] = deletes[s] \cup {o}]
        BY <2>3, <3>2 DEF UnsetLoaded
      <4>. QED  BY <2>1, <3>1, <4>1
    <3>3. CASE values[s].opts[o] = Nil
      <4>1. deletes' = [deletes EXCEPT ![s] = deletes[s]]
        BY <2>1, <2>3, <3>3 DEF UnsetLoaded
      <4>. QED  BY <2>1, <3>1, <4>1
    <3>. QED  BY <3>2, <3>3
  <2>. QED  BY <2>2, <2>3
<1>6. touched' \in BOOLEAN
  BY <1>2 DEF SetLoaded, UnsetLoaded, TypeOK
<1>7. changes \in [Sid -> OptionsOf(Val)] /\ deletes \in [Sid -> SUBSET Opt]
  BY <1>2 DEF TypeOK
<1>8. /\ changes' \in [Sid -> OptionsOf(Val)] /\ deletes' \in [Sid -> SUBSET Opt]
      /\ \A t \in Sid : t # s => changes'[t] = changes[t] /\ deletes'[t] = deletes[t]
      /\ deletes'[s] = ds
      /\ \A p \in Opt : changes'[s][p] = IF p = o THEN w ELSE changes[s][p]
  BY <1>5, <1>7 DEF OptionsOf
<1>9. TypeOK'
  BY <1>1, <1>2, <1>4, <1>6, <1>8 DEF TypeOK
<1>10. LoadedInv' /\ CreatedInv' /\ PageInv' /\ WaitingInv' /\ IndexInv'
  <2>1. PICK cs, vs : cs = creates /\ vs = values
    OBVIOUS
  <2>2. creates' = cs /\ values' = vs
    BY <1>1, <2>1
  <2>. QED  BY <1>1, <1>4, <2>1, <2>2, SectionsKept
<1>11. PendingConsistent'
  <2>1. \A t \in Sid : \A p \in deletes'[t] : changes'[t][p] = Nil
    <3>1. \A p \in ds : p \in Opt /\ (p = o \/ p \in deletes[s])
      BY <1>5
    <3>2. \A p \in ds : changes'[s][p] = Nil
      BY <1>2, <1>5, <1>8, <3>1 DEF PendingConsistent
    <3>. QED  BY <1>2, <1>8, <3>2 DEF PendingConsistent
  <2>2. \A t \in removed' : changes'[t] = NoOptions /\ deletes'[t] = {}
    BY <1>1, <1>2, <1>8 DEF PendingConsistent, TypeOK
  <2>3. \A t \in Sid : values'[t] = Nil =>
          t \notin removed' /\ deletes'[t] = {} /\ changes'[t] = NoOptions
    BY <1>1, <1>2, <1>8 DEF PendingConsistent
  <2>4. NoOptions' = NoOptions
    BY DEF NoOptions
  <2>. QED  BY <2>1, <2>2, <2>3, <2>4 DEF PendingConsistent
<1>12. MirrorInv'
  BY <1>1, <1>2, <1>4 DEF MirrorInv
<1>. QED  BY <1>3, <1>9, <1>10, <1>11, <1>12 DEF IInv

LEMMA Folded ==
  ASSUME TypeOK, PendingConsistent, NEW s \in Sid, values[s] # Nil
  PROVE  /\ Fold(s) \in LoadedSection /\ Fold(s) # Nil
         /\ Fold(s).index = values[s].index /\ Fold(s).key = values[s].key
         /\ \A o \in Opt : Fold(s).opts[o] =
              IF o \in deletes[s] THEN Nil
              ELSE IF changes[s][o] # Nil THEN changes[s][o] ELSE values[s].opts[o]
<1>1. values[s] \in LoadedSection /\ changes[s] \in OptionsOf(Val) /\ deletes[s] \in SUBSET Opt
  BY Typed
<1>2. PICK os : os = [o \in Opt |-> IF o \in deletes[s] THEN Nil
                        ELSE IF changes[s][o] # Nil THEN changes[s][o] ELSE values[s].opts[o]]
  OBVIOUS
<1>3. os \in OptionsOf(Val)
  BY <1>1, <1>2 DEF OptionsOf, LoadedSection
<1>4. Fold(s) = [values[s] EXCEPT !.opts = os]
  BY <1>2 DEF Fold
<1>5. /\ Fold(s) \in LoadedSection /\ Fold(s).opts = os
      /\ Fold(s).index = values[s].index /\ Fold(s).key = values[s].key
  BY <1>1, <1>3, <1>4 DEF LoadedSection
<1>. QED  BY <1>2, <1>5, NilAssumption

LEMMA GetSectionKeeps ==
  ASSUME IInv, NEW s \in Sid, GetSection(s)
  PROVE  IInv'
<1>1. /\ values[s] # Nil /\ values' = [values EXCEPT ![s] = Fold(s)] /\ folded' = TRUE
      /\ UNCHANGED <<present, creates, changes, removed, deletes, reorder, touched,
                     newidx, jammed, rendered, drift>>
      /\ UNCHANGED <<options, order, phase, tasks, replies, listed, snap>>
  BY DEF GetSection, Unfolded, server, calls
<1>2. TypeOK /\ PendingConsistent
  BY DEF IInv
<1>3. BatchInv' /\ ServerInv'
  BY <1>1 DEF IInv, BatchInv, ServerInv
<1>4. PICK vs : vs = [values EXCEPT ![s] = Fold(s)]
  OBVIOUS
<1>5. /\ Fold(s) \in LoadedSection /\ Fold(s) # Nil
      /\ Fold(s).index = values[s].index /\ Fold(s).key = values[s].key
  BY <1>1, <1>2, Folded
<1>6. /\ vs \in [Sid -> LoadedSection \cup {Nil}]
      /\ \A t \in Sid : vs[t] = IF t = s THEN Fold(s) ELSE values[t]
  BY <1>2, <1>4, <1>5 DEF TypeOK
<1>7. TypeOK'
  BY <1>1, <1>2, <1>4, <1>6 DEF TypeOK
<1>8. LoadedInv' /\ CreatedInv' /\ PageInv' /\ WaitingInv' /\ IndexInv'
  <2>1. PICK cs : cs = creates
    OBVIOUS
  <2>2. creates' = cs /\ values' = vs
    BY <1>1, <1>4, <2>1
  <2>. QED  BY <1>1, <1>5, <1>6, <2>1, <2>2, SectionsKept
<1>9. PendingConsistent'
  <2>1. \A t \in Sid : values'[t] = Nil => values[t] = Nil
    BY <1>1, <1>4, <1>5, <1>6
  <2>. QED  BY <1>1, <1>2, <2>1 DEF PendingConsistent, NoOptions
<1>10. MirrorInv'
  BY <1>1 DEF MirrorInv
<1>. QED  BY <1>3, <1>7, <1>8, <1>9, <1>10 DEF IInv
-----------------------------------------------------------------------------
(* Sections that come and go                                               *)

LEMMA AddKeeps ==
  ASSUME IInv, NEW s \in Sid, NEW named \in BOOLEAN, Add(s, named)
  PROVE  IInv'
<1>. DEFINE c == [name |-> s, named |-> named, index |-> NextIndex,
                  born |-> newidx, opts |-> NoOptions]
<1>1. /\ Edit /\ creates[s] = Nil /\ creates' = [creates EXCEPT ![s] = c]
      /\ newidx' = newidx + 1 /\ touched' = TRUE
      /\ UNCHANGED <<values, changes, removed, deletes, reorder, folded>>
  BY DEF Add
<1>2. TypeOK /\ PendingConsistent /\ MirrorInv /\ LoadedInv /\ CreatedInv /\ PageInv /\ WaitingInv
      /\ IndexInv
  BY DEF IInv
<1>3. BatchInv' /\ ServerInv'
  BY <1>1, EditKeeps
<1>4. UNCHANGED <<options, order, present, jammed, rendered, phase, drift>> /\ rendered
  BY <1>1, EditKeeps DEF Edit
<1>5. newidx \in Nat /\ FirstNewIndex \in Nat /\ NoOptions \in OptionsOf(Val \cup {Empty})
  BY <1>2, IndexAssumption DEF TypeOK, NoOptions, OptionsOf
<1>6. /\ c \in CreatedSection /\ c # Nil /\ c.name = s /\ c.named = named
      /\ c.index = FirstNewIndex + newidx /\ c.born = newidx
  BY <1>5, NilAssumption DEF CreatedSection, NextIndex
<1>. HIDE DEF c
<1>7. /\ creates' \in [Sid -> CreatedSection \cup {Nil}]
      /\ \A t \in Sid : creates'[t] = IF t = s THEN c ELSE creates[t]
  BY <1>1, <1>2, <1>6 DEF TypeOK
<1>8. /\ named => s \in Stored
      /\ s \in Temp \/ (present /\ s \in Stored)
      /\ values[s] # Nil => s \in removed
      /\ ~Visible(s)
  BY <1>1 DEF Add, Visible
<1>9. TypeOK'
  BY <1>1, <1>2, <1>4, <1>5, <1>7 DEF TypeOK
<1>10. LoadedInv'
  BY <1>1, <1>2, <1>4 DEF LoadedInv
<1>11. CreatedInv'
  <2>1. ASSUME NEW t \in Sid, creates'[t] # Nil
        PROVE  /\ creates'[t].born < newidx'
               /\ creates'[t].named => t \in Stored
               /\ t \in Temp \/ (present' /\ t \in Stored)
               /\ values'[t] # Nil => t \in removed'
    <3>1. CASE t = s
      BY <3>1, <1>1, <1>4, <1>5, <1>6, <1>7, <1>8
    <3>2. CASE t # s
      <4>1. creates'[t] = creates[t] /\ creates[t].born \in Nat
        BY <3>2, <2>1, <1>2, <1>7, Typed
      <4>. QED  BY <4>1, <2>1, <1>1, <1>2, <1>4, <1>5 DEF CreatedInv
    <3>. QED  BY <3>1, <3>2
  <2>2. ASSUME NEW t \in Sid, creates[t] # Nil PROVE creates[t].born # newidx
    BY <2>2, <1>2, <1>5, Typed DEF CreatedInv
  <2>3. ASSUME NEW t \in Sid, NEW u \in Sid, creates'[t] # Nil, creates'[u] # Nil,
               creates'[t].born = creates'[u].born
        PROVE  t = u
    BY <2>2, <2>3, <1>2, <1>6, <1>7 DEF CreatedInv
  <2>. QED  BY <2>1, <2>3 DEF CreatedInv
<1>12. PageInv'
  BY <1>1, <1>2, <1>4 DEF PageInv
<1>13. WaitingInv'
  BY <1>1, <1>2, <1>4, <1>6, <1>7 DEF WaitingInv
<1>14. IndexInv'
  <2>1. SUFFICES ASSUME Settled' PROVE
          /\ \A t \in Sid : creates'[t] # Nil => creates'[t].name = t
          /\ \A t \in Sid : Visible(t)' => Index(t)' < FirstNewIndex + newidx'
          /\ \A t, u \in Sid : Visible(t)' /\ Visible(u)' /\ Index(t)' = Index(u)' => t = u
    BY DEF IndexInv
  <2>2. Settled
    BY <1>4, <2>1 DEF Settled
  <2>3. \A t \in Sid : t # s => (Visible(t)' <=> Visible(t)) /\ Index(t)' = Index(t)
    BY <1>1, <1>7 DEF Visible, Index
  <2>4. Index(s)' = FirstNewIndex + newidx
    BY <1>6, <1>7 DEF Index
  <2>5. \A t \in Sid : Visible(t) => Index(t) \in Nat /\ Index(t) < FirstNewIndex + newidx
    BY <1>2, <2>2, Typed DEF IndexInv, Index, Visible
  <2>6. \A t \in Sid : creates'[t] # Nil => creates'[t].name = t
    BY <1>2, <1>6, <1>7, <2>2 DEF IndexInv
  <2>7. \A t \in Sid : Visible(t)' => Index(t)' < FirstNewIndex + newidx'
    BY <1>1, <1>5, <2>3, <2>4, <2>5
  <2>8. \A t, u \in Sid : Visible(t)' /\ Visible(u)' /\ Index(t)' = Index(u)' => t = u
    BY <1>2, <1>5, <2>2, <2>3, <2>4, <2>5 DEF IndexInv
  <2>. QED  BY <2>6, <2>7, <2>8
<1>15. PendingConsistent' /\ MirrorInv'
  BY <1>1, <1>2, <1>4 DEF PendingConsistent, MirrorInv, NoOptions
<1>. QED  BY <1>3, <1>9, <1>10, <1>11, <1>12, <1>13, <1>14, <1>15 DEF IInv

(* Fewer sections, and what is left of them is as it was.                  *)
LEMMA RemovalKeeps ==
  ASSUME IInv,
         \A t \in Sid : creates'[t] = Nil \/ creates'[t] = creates[t],
         removed \subseteq removed',
         UNCHANGED <<values, present, newidx, drift, phase, rendered, jammed>>
  PROVE  LoadedInv' /\ CreatedInv' /\ WaitingInv' /\ PageInv'
<1>1. LoadedInv'
  BY DEF IInv, LoadedInv
<1>2. CreatedInv'
  BY DEF IInv, CreatedInv
<1>3. PageInv' /\ WaitingInv'
  BY DEF IInv, PageInv, WaitingInv
<1>. QED  BY <1>1, <1>2, <1>3

LEMMA RemoveCreatedKeeps ==
  ASSUME IInv, NEW s \in Sid, RemoveCreated(s)
  PROVE  IInv'
<1>1. /\ Edit /\ creates[s] # Nil /\ creates' = [creates EXCEPT ![s] = Nil]
      /\ UNCHANGED <<values, changes, removed, deletes, reorder, touched, newidx, folded>>
  BY DEF RemoveCreated
<1>2. TypeOK /\ PendingConsistent /\ MirrorInv /\ CreatedInv /\ IndexInv
  BY DEF IInv
<1>3. BatchInv' /\ ServerInv'
  BY <1>1, EditKeeps
<1>4. UNCHANGED <<options, order, present, jammed, rendered, phase, drift>>
  BY <1>1, EditKeeps
<1>5. /\ creates' \in [Sid -> CreatedSection \cup {Nil}]
      /\ \A t \in Sid : creates'[t] = IF t = s THEN Nil ELSE creates[t]
  BY <1>1, <1>2 DEF TypeOK
<1>6. TypeOK'
  BY <1>1, <1>2, <1>4, <1>5 DEF TypeOK
<1>7. LoadedInv' /\ CreatedInv' /\ WaitingInv' /\ PageInv'
  BY <1>1, <1>4, <1>5, RemovalKeeps
<1>8. IndexInv'
  <2>1. Settled' <=> Settled
    BY <1>4 DEF Settled
  <2>2. \A t \in Sid : Visible(t)' => Visible(t) /\ Index(t)' = Index(t)
    BY <1>1, <1>2, <1>5 DEF Visible, Index, CreatedInv
  <2>. QED  BY <1>1, <1>2, <1>5, <2>1, <2>2 DEF IndexInv
<1>9. PendingConsistent' /\ MirrorInv'
  BY <1>1, <1>2, <1>4 DEF PendingConsistent, MirrorInv, NoOptions
<1>. QED  BY <1>3, <1>6, <1>7, <1>8, <1>9 DEF IInv

LEMMA RemoveLoadedKeeps ==
  ASSUME IInv, NEW s \in Sid, RemoveLoaded(s)
  PROVE  IInv'
<1>1. /\ Edit /\ creates[s] = Nil /\ values[s] # Nil
      /\ changes' = [changes EXCEPT ![s] = NoOptions]
      /\ removed' = removed \cup {s} /\ deletes' = [deletes EXCEPT ![s] = {}]
      /\ touched' = TRUE
      /\ UNCHANGED <<values, creates, reorder, newidx, folded>>
  BY DEF RemoveLoaded
<1>2. TypeOK /\ PendingConsistent /\ MirrorInv /\ IndexInv
  BY DEF IInv
<1>3. BatchInv' /\ ServerInv'
  BY <1>1, EditKeeps
<1>4. UNCHANGED <<options, order, present, jammed, rendered, phase, drift>>
  BY <1>1, EditKeeps
<1>5. NoOptions \in OptionsOf(Val)
  BY DEF NoOptions, OptionsOf
<1>6. /\ changes' \in [Sid -> OptionsOf(Val)] /\ deletes' \in [Sid -> SUBSET Opt]
      /\ \A t \in Sid : changes'[t] = (IF t = s THEN NoOptions ELSE changes[t])
                        /\ deletes'[t] = (IF t = s THEN {} ELSE deletes[t])
  BY <1>1, <1>2, <1>5 DEF TypeOK
<1>7. TypeOK'
  BY <1>1, <1>2, <1>4, <1>6 DEF TypeOK
<1>8. LoadedInv' /\ CreatedInv' /\ WaitingInv' /\ PageInv'
  BY <1>1, <1>4, RemovalKeeps
<1>9. IndexInv'
  <2>1. Settled' <=> Settled
    BY <1>4 DEF Settled
  <2>2. \A t \in Sid : (Visible(t)' => Visible(t)) /\ Index(t)' = Index(t)
    BY <1>1 DEF Visible, Index
  <2>. QED  BY <1>1, <1>2, <2>1, <2>2 DEF IndexInv
<1>10. PendingConsistent'
  <2>1. NoOptions' = NoOptions /\ \A o \in Opt : NoOptions[o] = Nil
    BY DEF NoOptions
  <2>2. \A t \in Sid : \A o \in deletes'[t] : changes'[t][o] = Nil
    BY <1>2, <1>6 DEF PendingConsistent
  <2>3. \A t \in removed' : changes'[t] = NoOptions /\ deletes'[t] = {}
    BY <1>1, <1>2, <1>6 DEF PendingConsistent, TypeOK
  <2>4. \A t \in Sid : values'[t] = Nil =>
          t \notin removed' /\ deletes'[t] = {} /\ changes'[t] = NoOptions
    BY <1>1, <1>2, <1>6 DEF PendingConsistent
  <2>. QED  BY <2>1, <2>2, <2>3, <2>4 DEF PendingConsistent
<1>11. MirrorInv'
  BY <1>1, <1>2, <1>4 DEF MirrorInv
<1>. QED  BY <1>3, <1>7, <1>8, <1>9, <1>10, <1>11 DEF IInv
-----------------------------------------------------------------------------
(* Moving a section                                                        *)

LEMMA PlacedKeeps ==
  ASSUME NEW E, NEW rest \in Seq(E), NEW e \in E, NEW s2, NEW after \in BOOLEAN,
         s2 # Nil => \E i \in DOMAIN rest : rest[i].name = s2,
         Distinct(rest), e \notin ToSet(rest)
  PROVE  /\ Placed(rest, e, s2, after) \in Seq(E)
         /\ Len(Placed(rest, e, s2, after)) = Len(rest) + 1
         /\ Distinct(Placed(rest, e, s2, after))
         /\ ToSet(Placed(rest, e, s2, after)) = ToSet(rest) \cup {e}
<1>. DEFINE at == SelectInSeq(rest, LAMBDA x : x.name = s2)
<1>1. s2 # Nil => at \in 1..Len(rest)
  <2>1. SUFFICES ASSUME s2 # Nil PROVE at \in 1..Len(rest)
    OBVIOUS
  <2>2. PICK I : I = {i \in 1..Len(rest) : rest[i].name = s2}
    OBVIOUS
  <2>3. I \in SUBSET Nat /\ I # {}
    BY <2>1, <2>2
  <2>4. at = IF I # {} THEN Min(I) ELSE 0
    BY <2>2 DEF SelectInSeq
  <2>5. at \in I
    BY <2>3, <2>4, MinOf
  <2>. QED  BY <2>2, <2>5
<1>. HIDE DEF at
<1>2. PICK p \in 1..(Len(rest) + 1) :
        p = IF s2 = Nil THEN Len(rest) + 1 ELSE at + (IF after THEN 1 ELSE 0)
  BY <1>1
<1>3. Placed(rest, e, s2, after) = InsertAt(rest, p, e)
  BY <1>2 DEF Placed, at
<1>4. PICK t : t = InsertAt(rest, p, e)
  OBVIOUS
<1>5. t \in Seq(E) /\ Len(t) = Len(rest) + 1 /\ Distinct(t) /\ ToSet(t) = ToSet(rest) \cup {e}
  BY <1>4, ElementIn
<1>. QED  BY <1>3, <1>4, <1>5

(* The sections that get an index: all of them if each is found by name.   *)
LEMMA MoveSeen ==
  ASSUME IInv, NEW s1, NEW s2, NEW after \in BOOLEAN, Move(s1, s2, after)
  PROVE  \E seen \in SUBSET Sid, index \in [Sid -> Nat] :
           /\ present
           /\ \A s \in seen : Visible(s)
           /\ \A s \in seen : index[s] < FirstNewIndex + newidx
           /\ \A s, t \in seen : index[s] = index[t] => s = t
           /\ Settled => \A s \in Sid : Visible(s) => s \in seen
           /\ values' = [s \in Sid |->
                IF s \in seen /\ creates[s] = Nil
                THEN [Fold(s) EXCEPT !.index = index[s]] ELSE values[s]]
           /\ creates' = [s \in Sid |->
                IF s \in seen /\ creates[s] # Nil
                THEN [creates[s] EXCEPT !.index = index[s]] ELSE creates[s]]
           /\ reorder' \in BOOLEAN
           /\ ~folded' => ~folded /\ \A s \in seen : ~Unfolded(s)
           /\ Settled => reorder'
<1>0. TypeOK /\ LoadedInv /\ CreatedInv /\ IndexInv
  BY DEF IInv
<1>1. PICK at \in DOMAIN Sections :
        /\ s2 # Nil => \E i \in DOMAIN RemoveAt(Sections, at) : RemoveAt(Sections, at)[i].name = s2
        /\ \E moved \in {Placed(RemoveAt(Sections, at), Sections[at], s2, after)} :
             \E reach \in {Reach(moved)} : Renumber(moved, reach)
  BY DEF Move
<1>2. present
  <2>1. ~present => DOMAIN Sections = {}
    BY DEF Sections
  <2>. QED  BY <2>1
<1>3. PICK sa : sa = Sections
  OBVIOUS
<1>4. /\ sa \in Seq(Listed) /\ Len(sa) = Cardinality(Listed) /\ Distinct(sa)
      /\ \A e \in Listed : \E i \in 1..Len(sa) : sa[i] = e
  BY <1>0, <1>2, <1>3, SectionsList
<1>5. at \in 1..Len(sa) /\ sa[at] \in Listed
  BY <1>1, <1>3, <1>4
<1>6. PICK rest : rest = RemoveAt(sa, at)
  OBVIOUS
<1>7. /\ rest \in Seq(Listed) /\ Len(rest) = Len(sa) - 1
      /\ Distinct(rest) /\ ToSet(rest) = ToSet(sa) \ {sa[at]}
  BY <1>4, <1>5, <1>6, ElementAway
<1>8. s2 # Nil => \E i \in DOMAIN rest : rest[i].name = s2
  BY <1>1, <1>3, <1>6
<1>9. PICK moved : moved = Placed(rest, sa[at], s2, after)
  OBVIOUS
<1>10. /\ moved \in Seq(Listed) /\ Len(moved) = Len(rest) + 1
       /\ ToSet(moved) = ToSet(rest) \cup {sa[at]}
  <2>1. sa[at] \notin ToSet(rest)
    BY <1>7
  <2>. HIDE DEF Listed
  <2>. QED  BY <1>5, <1>7, <1>8, <1>9, <2>1, PlacedKeeps
<1>11. /\ Len(moved) = Cardinality(Listed) /\ Len(moved) \in Nat
       /\ \A e \in Listed : \E i \in 1..Len(moved) : moved[i] = e
  <2>1. Len(moved) = Len(sa) /\ Len(moved) \in Nat
    BY <1>4, <1>7, <1>10
  <2>2. \A e \in Listed : e \in ToSet(sa)
    BY <1>4 DEF ToSet
  <2>3. \A e \in Listed : e \in ToSet(moved)
    BY <1>7, <1>10, <2>2
  <2>. QED  BY <1>4, <1>10, <2>1, <2>3 DEF ToSet
<1>. DEFINE reaches == {n \in 0..Len(moved) : \A i \in 1..n : Found(moved[i].name)}
<1>12. PICK reach \in 0..Len(moved) :
         /\ reach = Max(reaches)
         /\ \A i \in 1..reach : Found(moved[i].name)
         /\ Len(moved) \in reaches => reach = Len(moved)
  <2>1. reaches \in SUBSET (0..Len(moved)) /\ 0 \in reaches
    BY <1>11
  <2>2. PICK r : r = Max(reaches)
    OBVIOUS
  <2>3. r \in reaches /\ \A y \in reaches : y <= r
    <3>. HIDE DEF reaches
    <3>. QED  BY <1>11, <2>1, <2>2, MaxOf
  <2>4. Len(moved) \in reaches => r = Len(moved)
    <3>1. Len(moved) \in reaches => Len(moved) <= r
      BY <2>3
    <3>2. r \in 0..Len(moved)
      BY <2>3
    <3>. QED  BY <1>11, <3>1, <3>2
  <2>. QED  BY <2>2, <2>3, <2>4
<1>. DEFINE seen == {moved[i].name : i \in 1..reach}
            places(s) == {i \in 0..(reach - 1) : moved[i + 1].name = s}
            index == [s \in Sid |-> IF s \in seen THEN Max(places(s)) ELSE 0]
<1>13. /\ values' = [s \in Sid |->
            IF s \in seen /\ creates[s] = Nil
            THEN [Fold(s) EXCEPT !.index = Max(places(s))] ELSE values[s]]
       /\ creates' = [s \in Sid |->
            IF s \in seen /\ creates[s] # Nil
            THEN [creates[s] EXCEPT !.index = Max(places(s))] ELSE creates[s]]
       /\ reorder' = (reorder \/ reach = Len(moved))
       /\ folded' = (folded \/ \E s \in seen : Unfolded(s))
  BY <1>1, <1>3, <1>6, <1>9, <1>12 DEF Renumber, Reach
<1>14. seen \in SUBSET Sid /\ \A s \in seen : Visible(s)
  BY <1>12 DEF Found
<1>15. ASSUME NEW s \in seen PROVE Max(places(s)) \in 0..(reach - 1) /\ moved[Max(places(s)) + 1].name = s
  <2>1. PICK i \in 1..reach : moved[i].name = s
    OBVIOUS
  <2>2. i - 1 \in places(s)
    BY <2>1
  <2>3. places(s) \in SUBSET (0..(reach - 1)) /\ reach - 1 \in Nat
    OBVIOUS
  <2>4. Max(places(s)) \in places(s)
    <3>1. PICK P : P = places(s)
      OBVIOUS
    <3>2. P \in SUBSET (0..(reach - 1)) /\ P # {}
      BY <2>2, <2>3, <3>1
    <3>3. Max(P) \in P
      BY <2>3, <3>2, MaxOf
    <3>. QED  BY <3>1, <3>3
  <2>. QED  BY <2>4
<1>16. index \in [Sid -> Nat]
  <2>1. ASSUME NEW s \in seen PROVE Max(places(s)) \in Nat
    <3>1. Max(places(s)) \in 0..(reach - 1)
      BY <1>15
    <3>. HIDE DEF places
    <3>. QED  BY <3>1
  <2>. HIDE DEF seen, places
  <2>. QED  BY <2>1
<1>17. \A s \in seen : index[s] \in 0..(reach - 1) /\ moved[index[s] + 1].name = s
  BY <1>14, <1>15
<1>18. \A s \in seen : index[s] < FirstNewIndex + newidx
  <2>1. Cardinality(Listed) <= FirstNewIndex + newidx /\ FirstNewIndex + newidx \in Nat
    BY <1>0, ListedCounted, IndexAssumption DEF TypeOK
  <2>2. reach <= FirstNewIndex + newidx
    BY <1>11, <1>12, <2>1
  <2>. HIDE DEF index, seen
  <2>. QED  BY <1>12, <1>17, <2>1, <2>2
<1>19. \A s, t \in seen : index[s] = index[t] => s = t
  <2>. HIDE DEF index, seen
  <2>. QED  BY <1>17
<1>20. ASSUME Settled
       PROVE  /\ reach = Len(moved)
              /\ \A e \in Listed : e.name = e.sid
  <2>1. ASSUME NEW e \in Listed PROVE e.name = e.sid /\ e.sid \in Sid /\ Visible(e.sid)
    <3>1. e \in Created \/ (e \in Loaded /\ e.sid \notin removed)
      BY DEF Listed
    <3>2. CASE e \in Created
      <4>1. e.sid \in Sid /\ creates[e.sid] # Nil /\ e.name = creates[e.sid].name
        BY <3>2 DEF Created
      <4>. QED  BY <1>0, <1>20, <4>1 DEF IndexInv, Visible
    <3>3. CASE e \in Loaded /\ e.sid \notin removed
      <4>1. e.sid \in Sid /\ values[e.sid] # Nil /\ e.name = e.sid
        BY <3>3 DEF Loaded
      <4>. QED  BY <3>3, <4>1 DEF Visible
    <3>. QED  BY <3>1, <3>2, <3>3
  <2>2. \A i \in 1..Len(moved) : Found(moved[i].name)
    BY <1>10, <2>1 DEF Found
  <2>. QED  BY <1>11, <1>12, <2>1, <2>2
<1>21. ASSUME Settled, NEW s \in Sid, Visible(s) PROVE s \in seen
  <2>1. PICK e \in Listed : e.sid = s
    <3>1. CASE creates[s] # Nil
      <4>1. PICK e : e = [sid |-> s, name |-> creates[s].name, index |-> creates[s].index,
                          key |-> creates[s].born, create |-> TRUE]
        OBVIOUS
      <4>2. e \in Created /\ e.sid = s
        BY <3>1, <4>1 DEF Created
      <4>. QED  BY <4>2 DEF Listed
    <3>2. CASE values[s] # Nil /\ s \notin removed
      <4>1. PICK e : e = [sid |-> s, name |-> s, index |-> values[s].index,
                          key |-> values[s].key, create |-> FALSE]
        OBVIOUS
      <4>2. e \in Loaded /\ e.sid = s
        BY <3>2, <4>1 DEF Loaded
      <4>. QED  BY <3>2, <4>2 DEF Listed
    <3>. QED  BY <1>21, <3>1, <3>2 DEF Visible
  <2>2. PICK i \in 1..Len(moved) : moved[i] = e
    BY <1>11
  <2>3. moved[i].name = s
    BY <1>20, <1>21, <2>1, <2>2
  <2>. QED  BY <1>20, <1>21, <2>3
<1>22. /\ values' = [s \in Sid |->
            IF s \in seen /\ creates[s] = Nil
            THEN [Fold(s) EXCEPT !.index = index[s]] ELSE values[s]]
       /\ creates' = [s \in Sid |->
            IF s \in seen /\ creates[s] # Nil
            THEN [creates[s] EXCEPT !.index = index[s]] ELSE creates[s]]
  <2>1. \A s \in Sid : s \in seen => index[s] = Max(places(s))
    OBVIOUS
  <2>. HIDE DEF index, seen, places
  <2>. QED  BY <1>13, <2>1
<1>23. reorder' \in BOOLEAN /\ (~folded' => ~folded /\ \A s \in seen : ~Unfolded(s))
  BY <1>0, <1>13 DEF TypeOK
<1>24. Settled => reorder'
  BY <1>13, <1>20
<1>. HIDE DEF index, seen
<1>. QED  BY <1>2, <1>14, <1>16, <1>18, <1>19, <1>21, <1>22, <1>23, <1>24

LEMMA MoveKeeps ==
  ASSUME IInv, NEW s1, NEW s2, NEW after \in BOOLEAN, Move(s1, s2, after)
  PROVE  IInv'
<1>0. /\ TypeOK /\ PendingConsistent /\ MirrorInv /\ IndexInv /\ LoadedInv /\ CreatedInv
      /\ PageInv
  BY DEF IInv
<1>1. PICK seen \in SUBSET Sid, index \in [Sid -> Nat] :
           /\ present
           /\ \A s \in seen : Visible(s)
           /\ \A s \in seen : index[s] < FirstNewIndex + newidx
           /\ \A s, t \in seen : index[s] = index[t] => s = t
           /\ Settled => \A s \in Sid : Visible(s) => s \in seen
           /\ values' = [s \in Sid |->
                IF s \in seen /\ creates[s] = Nil
                THEN [Fold(s) EXCEPT !.index = index[s]] ELSE values[s]]
           /\ creates' = [s \in Sid |->
                IF s \in seen /\ creates[s] # Nil
                THEN [creates[s] EXCEPT !.index = index[s]] ELSE creates[s]]
           /\ reorder' \in BOOLEAN
           /\ ~folded' => ~folded /\ \A s \in seen : ~Unfolded(s)
  BY MoveSeen
<1>2. Edit /\ UNCHANGED <<changes, removed, deletes, touched, newidx>>
  BY DEF Move
<1>3. BatchInv' /\ ServerInv'
  BY <1>2, EditKeeps
<1>4. UNCHANGED <<options, order, present, jammed, rendered, phase, drift>>
  BY <1>2, EditKeeps
<1>5. ASSUME NEW s \in Sid
      PROVE  /\ creates'[s] \in CreatedSection \cup {Nil}
             /\ creates'[s] = Nil <=> creates[s] = Nil
             /\ creates[s] # Nil => /\ creates'[s].name = creates[s].name
                                    /\ creates'[s].named = creates[s].named
                                    /\ creates'[s].born = creates[s].born
             /\ creates[s] # Nil /\ s \in seen => creates'[s].index = index[s]
  <2>1. CASE creates[s] # Nil /\ s \in seen
    <3>1. creates[s] \in CreatedSection
      BY <1>0, <2>1, Typed
    <3>2. creates'[s] = [creates[s] EXCEPT !.index = index[s]] /\ index[s] \in Nat
      BY <1>1, <2>1
    <3>3. /\ creates'[s] \in CreatedSection
          /\ creates'[s].name = creates[s].name /\ creates'[s].named = creates[s].named
          /\ creates'[s].born = creates[s].born /\ creates'[s].index = index[s]
      BY <3>1, <3>2 DEF CreatedSection
    <3>. QED  BY <2>1, <3>3, NilAssumption
  <2>2. CASE ~(creates[s] # Nil /\ s \in seen)
    BY <1>0, <1>1, <2>2 DEF TypeOK
  <2>. QED  BY <2>1, <2>2
<1>6. ASSUME NEW s \in Sid
      PROVE  /\ values'[s] \in LoadedSection \cup {Nil}
             /\ values'[s] = Nil <=> values[s] = Nil
             /\ values[s] # Nil => values'[s].key = values[s].key
             /\ creates[s] = Nil /\ s \in seen => values'[s].index = index[s]
             /\ values[s] # Nil /\ ~folded' => values'[s].opts = values[s].opts
  <2>1. CASE creates[s] = Nil /\ s \in seen
    <3>1. values[s] # Nil
      BY <1>1, <2>1 DEF Visible
    <3>2. Fold(s) \in LoadedSection /\ Fold(s).key = values[s].key
      BY <1>0, <3>1, Folded
    <3>3. values'[s] = [Fold(s) EXCEPT !.index = index[s]] /\ index[s] \in Nat
      BY <1>1, <2>1
    <3>4. /\ values'[s] \in LoadedSection /\ values'[s].key = Fold(s).key
          /\ values'[s].index = index[s] /\ values'[s].opts = Fold(s).opts
      BY <3>2, <3>3 DEF LoadedSection
    <3>5. ~folded' => Fold(s) = values[s]
      BY <1>1, <2>1, <3>1 DEF Unfolded
    <3>. QED  BY <3>1, <3>2, <3>4, <3>5, NilAssumption
  <2>2. CASE ~(creates[s] = Nil /\ s \in seen)
    BY <1>0, <1>1, <2>2 DEF TypeOK
  <2>. QED  BY <2>1, <2>2
<1>7. TypeOK'
  <2>1. creates' \in [Sid -> CreatedSection \cup {Nil}]
    BY <1>1, <1>5
  <2>2. values' \in [Sid -> LoadedSection \cup {Nil}]
    BY <1>1, <1>6
  <2>. QED  BY <1>0, <1>1, <1>2, <1>4, <2>1, <2>2 DEF TypeOK
<1>8. LoadedInv'
  BY <1>0, <1>4, <1>6 DEF LoadedInv
<1>9. CreatedInv'
  BY <1>0, <1>2, <1>4, <1>5, <1>6 DEF CreatedInv
<1>10. PageInv'
  BY <1>0, <1>4, <1>5 DEF PageInv
<1>11. WaitingInv'
  BY <1>0, <1>1, <1>4 DEF WaitingInv, LoadedInv
<1>12. IndexInv'
  <2>1. Settled' <=> Settled
    BY <1>4 DEF Settled
  <2>2. \A s \in Sid : Visible(s)' <=> Visible(s)
    BY <1>2, <1>5, <1>6 DEF Visible
  <2>3. \A s \in seen : Index(s)' = index[s]
    BY <1>5, <1>6 DEF Index
  <2>4. SUFFICES ASSUME Settled PROVE
          /\ \A s \in Sid : creates'[s] # Nil => creates'[s].name = s
          /\ \A s \in Sid : Visible(s)' => Index(s)' < FirstNewIndex + newidx'
          /\ \A s, t \in Sid : Visible(s)' /\ Visible(t)' /\ Index(s)' = Index(t)' => s = t
    BY <2>1 DEF IndexInv
  <2>5. \A s \in Sid : creates'[s] # Nil => creates'[s].name = s
    BY <1>0, <1>5, <2>4 DEF IndexInv
  <2>6. \A s \in Sid : Visible(s)' => s \in seen
    BY <1>1, <2>2, <2>4
  <2>7. \A s \in Sid : Visible(s)' => Index(s)' < FirstNewIndex + newidx'
    BY <1>1, <1>2, <2>3, <2>6
  <2>8. \A s, t \in Sid : Visible(s)' /\ Visible(t)' /\ Index(s)' = Index(t)' => s = t
    BY <1>1, <2>3, <2>6
  <2>. QED  BY <2>5, <2>7, <2>8
<1>13. PendingConsistent'
  BY <1>0, <1>2, <1>6 DEF PendingConsistent, NoOptions
<1>14. MirrorInv'
  BY <1>0, <1>1, <1>4, <1>6 DEF MirrorInv
<1>. QED  BY <1>3, <1>7, <1>8, <1>9, <1>10, <1>11, <1>12, <1>13, <1>14 DEF IInv
-----------------------------------------------------------------------------
(* Saving                                                                  *)

LEMMA LoadedFinite ==
  ASSUME TypeOK, LoadedInv
  PROVE  IsFiniteSet({s \in Sid : values[s] # Nil})
<1>1. {s \in Sid : values[s] # Nil} \in SUBSET Remote
  BY DEF LoadedInv
<1>. QED  BY <1>1, FS_Subset, IndexAssumption

Removals == {[op |-> "remove", sid |-> s] : s \in removed}
Unsets == {[op |-> "unset", sid |-> s, opts |-> deletes[s]] :
             s \in {x \in Sid : deletes[x] # {}}}
Settings == {[op |-> "set", sid |-> s, opts |-> changes[s]] :
               s \in {x \in Sid : changes[x] # NoOptions}}

LEMMA DeletionsListed ==
  ASSUME TypeOK, LoadedInv, PendingConsistent
  PROVE  /\ Deletions \in Seq(Task) /\ Changed \in Seq(Task)
         /\ Deletions \in Seq(Removals \cup Unsets) /\ Distinct(Deletions)
         /\ \A t \in Removals \cup Unsets : \E i \in 1..Len(Deletions) : Deletions[i] = t
         /\ Changed \in Seq(Settings) /\ Distinct(Changed)
         /\ \A t \in Settings : \E i \in 1..Len(Changed) : Changed[i] = t
<1>1. IsFiniteSet({s \in Sid : values[s] # Nil})
  BY LoadedFinite
<1>2. IsFiniteSet(Removals) /\ Removals \subseteq Task
  <2>1. removed \in SUBSET {s \in Sid : values[s] # Nil}
    BY DEF PendingConsistent, TypeOK
  <2>2. PICK S : S = removed
    OBVIOUS
  <2>3. IsFiniteSet(S)
    BY <1>1, <2>1, <2>2, FS_Subset
  <2>4. PICK f : f = [s \in S |-> [op |-> "remove", sid |-> s]]
    OBVIOUS
  <2>5. IsFiniteSet({f[s] : s \in S})
    BY <2>3, ImageFinite
  <2>6. Removals = {f[s] : s \in S}
    BY <2>2, <2>4 DEF Removals
  <2>7. Removals \subseteq Task
    BY <2>1 DEF Task, Removals
  <2>. QED  BY <2>5, <2>6, <2>7
<1>3. IsFiniteSet(Unsets) /\ Unsets \subseteq Task
  <2>1. PICK S : S = {x \in Sid : deletes[x] # {}}
    OBVIOUS
  <2>2. S \in SUBSET {s \in Sid : values[s] # Nil}
    BY <2>1 DEF PendingConsistent
  <2>3. IsFiniteSet(S)
    BY <1>1, <2>2, FS_Subset
  <2>4. PICK f : f = [s \in S |-> [op |-> "unset", sid |-> s, opts |-> deletes[s]]]
    OBVIOUS
  <2>5. IsFiniteSet({f[s] : s \in S})
    BY <2>3, ImageFinite
  <2>6. Unsets = {f[s] : s \in S}
    BY <2>1, <2>4 DEF Unsets
  <2>7. Unsets \subseteq Task
    BY DEF Task, TypeOK, Unsets
  <2>. QED  BY <2>5, <2>6, <2>7
<1>4. IsFiniteSet(Settings) /\ Settings \subseteq Task
  <2>1. PICK S : S = {x \in Sid : changes[x] # NoOptions}
    OBVIOUS
  <2>2. S \in SUBSET {s \in Sid : values[s] # Nil}
    BY <2>1 DEF PendingConsistent
  <2>3. IsFiniteSet(S)
    BY <1>1, <2>2, FS_Subset
  <2>4. PICK f : f = [s \in S |-> [op |-> "set", sid |-> s, opts |-> changes[s]]]
    OBVIOUS
  <2>5. IsFiniteSet({f[s] : s \in S})
    BY <2>3, ImageFinite
  <2>6. Settings = {f[s] : s \in S}
    BY <2>1, <2>4 DEF Settings
  <2>7. Settings \subseteq Task
    BY DEF Task, TypeOK, Settings
  <2>. QED  BY <2>5, <2>6, <2>7
<1>5. Deletions = SetToSeq(Removals \cup Unsets) /\ Changed = SetToSeq(Settings)
  BY DEF Deletions, Changed, Removals, Unsets, Settings
<1>6. PICK D, E : D = Removals \cup Unsets /\ E = Settings
  OBVIOUS
<1>7. IsFiniteSet(D) /\ IsFiniteSet(E) /\ D \subseteq Task /\ E \subseteq Task
  BY <1>2, <1>3, <1>4, <1>6, FS_Union
<1>8. /\ SetToSeq(D) \in Seq(D) /\ Distinct(SetToSeq(D))
      /\ \A t \in D : \E i \in 1..Len(SetToSeq(D)) : SetToSeq(D)[i] = t
      /\ SetToSeq(E) \in Seq(E) /\ Distinct(SetToSeq(E))
      /\ \A t \in E : \E i \in 1..Len(SetToSeq(E)) : SetToSeq(E)[i] = t
  BY <1>7, SetListed
<1>9. Seq(D) \subseteq Seq(Task) /\ Seq(E) \subseteq Seq(Task)
  BY <1>7
<1>. QED  BY <1>5, <1>6, <1>8, <1>9

(* The sections that were made here, in the order they were made in.       *)
LEMMA AdditionsListed ==
  ASSUME TypeOK, CreatedInv
  PROVE  /\ Additions \in Seq(Task)
         /\ \A i \in 1..Len(Additions) :
              LET t == Additions[i]
              IN /\ t.op = "add" /\ creates[t.sid] # Nil
                 /\ t.named = creates[t.sid].named /\ t.opts = creates[t.sid].opts
                 /\ t.born = creates[t.sid].born
         /\ \A s \in Sid : creates[s] # Nil =>
              \E i \in 1..Len(Additions) : Additions[i].sid = s
         /\ \A i, j \in 1..Len(Additions) : i < j => Additions[i].born < Additions[j].born
<1>. DEFINE new == {s \in Sid : creates[s] # Nil}
            R == {p \in new \X new : creates[p[1]].born < creates[p[2]].born}
            nth(i) == CHOOSE s \in new : RankIn(new, R, s) = i - 1
<1>1. PICK S : S = new
  OBVIOUS
<1>2. \A s \in new : /\ s \in Sid /\ creates[s].born \in 0..(newidx - 1)
                     /\ creates[s].named \in BOOLEAN /\ (creates[s].named => s \in Stored)
                     /\ creates[s].opts \in OptionsOf(Val \cup {Empty})
  <2>1. SUFFICES ASSUME NEW s \in Sid, creates[s] # Nil
                 PROVE  /\ creates[s].born \in 0..(newidx - 1)
                        /\ creates[s].named \in BOOLEAN /\ (creates[s].named => s \in Stored)
                        /\ creates[s].opts \in OptionsOf(Val \cup {Empty})
    OBVIOUS
  <2>2. newidx \in Nat /\ creates[s].born < newidx /\ (creates[s].named => s \in Stored)
    BY <2>1 DEF CreatedInv, TypeOK
  <2>3. /\ creates[s].born \in Nat /\ creates[s].named \in BOOLEAN
        /\ creates[s].opts \in OptionsOf(Val \cup {Empty})
    BY <2>1, Typed
  <2>. QED  BY <2>2, <2>3
<1>3. \A s, t \in new : creates[s].born = creates[t].born => s = t
  BY DEF CreatedInv
<1>4. IsFiniteSet(new)
  <2>1. IsFiniteSet(0..(newidx - 1))
    BY FS_Interval DEF TypeOK
  <2>2. PICK f : f = [s \in S |-> creates[s].born]
    OBVIOUS
  <2>3. f \in Injection(S, 0..(newidx - 1))
    <3>. HIDE DEF new
    <3>. QED  BY <1>1, <1>2, <1>3, <2>2 DEF Injection, IsInjective
  <2>. QED  BY <1>1, <2>1, <2>3, FS_Injection
<1>5. \A x, y \in new : <<x, y>> \in R <=> creates[x].born < creates[y].born
  OBVIOUS
<1>6. \A e \in new : {x \in new : <<x, e>> \in R} = {x \in new : creates[x].born < creates[e].born}
  BY <1>5
<1>. HIDE DEF R, new
<1>7. \A x \in new : <<x, x>> \notin R
  BY <1>2, <1>5
<1>8. \A x, y, z \in new : <<x, y>> \in R /\ <<y, z>> \in R => <<x, z>> \in R
  BY <1>2, <1>5
<1>9. \A x, y \in new : x # y => <<x, y>> \in R \/ <<y, x>> \in R
  BY <1>2, <1>3, <1>5
<1>10. PICK Q : Q = R
  OBVIOUS
<1>11. /\ Cardinality(S) \in Nat
       /\ \A k \in 0..(Cardinality(S) - 1) : \E e \in S : RankIn(S, Q, e) = k
       /\ \A e \in S : RankIn(S, Q, e) \in 0..(Cardinality(S) - 1)
       /\ \A e, f \in S : RankIn(S, Q, e) = RankIn(S, Q, f) => e = f
       /\ \A e, f \in S : <<e, f>> \in Q => RankIn(S, Q, e) < RankIn(S, Q, f)
  <2>1. /\ \A x \in S : <<x, x>> \notin Q
        /\ \A x, y, z \in S : <<x, y>> \in Q /\ <<y, z>> \in Q => <<x, z>> \in Q
        /\ \A x, y \in S : x # y => <<x, y>> \in Q \/ <<y, x>> \in Q
    BY <1>1, <1>7, <1>8, <1>9, <1>10
  <2>2. IsFiniteSet(S)
    BY <1>1, <1>4
  <2>3. Cardinality(S) \in Nat
    BY <2>2, FS_CardinalityType
  <2>4. \A k \in 0..(Cardinality(S) - 1) : \E e \in S : RankIn(S, Q, e) = k
    BY <2>1, <2>2, Ranked
  <2>5. \A e \in S : RankIn(S, Q, e) \in 0..(Cardinality(S) - 1)
    BY <2>1, <2>2, Ranked
  <2>6. \A e, f \in S : RankIn(S, Q, e) = RankIn(S, Q, f) => e = f
    BY <2>1, <2>2, Ranked
  <2>7. \A e, f \in S : <<e, f>> \in Q => RankIn(S, Q, e) < RankIn(S, Q, f)
    BY <2>1, <2>2, RankRises
  <2>. QED  BY <2>4, <2>6, <2>7, <2>5, <2>3
<1>12. ASSUME NEW i \in 1..Cardinality(new)
       PROVE  nth(i) \in new /\ RankIn(new, R, nth(i)) = i - 1
  <2>1. i - 1 \in 0..(Cardinality(S) - 1)
    BY <1>1, <1>11
  <2>2. \E e \in new : RankIn(new, R, e) = i - 1
    BY <1>1, <1>10, <1>11, <2>1
  <2>. QED  BY <2>2
<1>13. Additions = [i \in 1..Cardinality(new) |->
         [op |-> "add", sid |-> nth(i), named |-> creates[nth(i)].named,
          opts |-> creates[nth(i)].opts, born |-> creates[nth(i)].born]]
  <2>1. \A e \in new : RankIn(new, R, e) = Cardinality({x \in new : creates[x].born < creates[e].born})
    BY <1>6 DEF RankIn
  <2>. QED  BY <2>1 DEF Additions, new
<1>. HIDE DEF nth
<1>14. ASSUME NEW i \in 1..Cardinality(new)
       PROVE  [op |-> "add", sid |-> nth(i), named |-> creates[nth(i)].named,
               opts |-> creates[nth(i)].opts, born |-> creates[nth(i)].born] \in Task
  <2>1. /\ nth(i) \in Sid /\ creates[nth(i)].born \in Nat
        /\ creates[nth(i)].named \in BOOLEAN /\ (creates[nth(i)].named => nth(i) \in Stored)
        /\ creates[nth(i)].opts \in OptionsOf(Val \cup {Empty})
    BY <1>2, <1>12
  <2>. QED  BY <2>1 DEF Task
<1>15. Cardinality(new) \in Nat
  BY <1>1, <1>11
<1>16. PICK as : as = Additions
  OBVIOUS
<1>17. /\ as \in Seq(Task) /\ Len(as) = Cardinality(new)
       /\ \A i \in 1..Len(as) : as[i] =
            [op |-> "add", sid |-> nth(i), named |-> creates[nth(i)].named,
             opts |-> creates[nth(i)].opts, born |-> creates[nth(i)].born]
  BY <1>13, <1>14, <1>15, <1>16
<1>18. \A s : s \in new <=> s \in Sid /\ creates[s] # Nil
  BY DEF new
<1>19. ASSUME NEW i \in 1..Len(as)
       PROVE  /\ as[i].op = "add" /\ as[i].sid = nth(i) /\ creates[as[i].sid] # Nil
              /\ as[i].named = creates[as[i].sid].named
              /\ as[i].opts = creates[as[i].sid].opts
              /\ as[i].born = creates[as[i].sid].born
  <2>1. PICK x \in new : x = nth(i)
    BY <1>12, <1>17
  <2>2. as[i] = [op |-> "add", sid |-> x, named |-> creates[x].named,
                 opts |-> creates[x].opts, born |-> creates[x].born]
    BY <1>17, <2>1
  <2>. QED  BY <1>18, <2>1, <2>2
<1>20. ASSUME NEW s \in new PROVE \E i \in 1..Len(as) : as[i].sid = s
  <2>1. PICK i \in 1..Cardinality(new) : i = RankIn(new, R, s) + 1 /\ RankIn(new, R, s) = i - 1
    BY <1>1, <1>10, <1>11, <1>15
  <2>2. nth(i) = s
    BY <1>1, <1>10, <1>11, <1>12, <2>1
  <2>. QED  BY <1>17, <1>19, <2>1, <2>2
<1>21. ASSUME NEW i \in 1..Len(as), NEW j \in 1..Len(as), i < j
       PROVE  as[i].born < as[j].born
  <2>1. PICK x \in new, y \in new :
          /\ x = nth(i) /\ y = nth(j)
          /\ RankIn(new, R, x) = i - 1 /\ RankIn(new, R, y) = j - 1
    BY <1>12, <1>17
  <2>2. x # y /\ ~ (<<y, x>> \in R)
    <3>1. ~ (j - 1 < i - 1) /\ j - 1 # i - 1
      BY <1>15, <1>17, <1>21
    <3>. QED  BY <1>1, <1>10, <1>11, <2>1, <3>1
  <2>3. creates[x].born < creates[y].born
    BY <1>5, <1>9, <2>2
  <2>. QED  BY <1>19, <2>1, <2>3
<1>. QED  BY <1>16, <1>17, <1>18, <1>19, <1>20, <1>21

(* Nothing but the course of the calls changes.                            *)
LEMMA ClientKept ==
  ASSUME IInv, Settled' => Settled,
         UNCHANGED <<values, present, creates, changes, removed, deletes, newidx>>
  PROVE  /\ PendingConsistent' /\ CreatedInv' /\ IndexInv'
         /\ \A s \in Sid : values'[s] # Nil => present' /\ s \in Remote
         /\ \A s, t \in Sid : values'[s] # Nil /\ values'[t] # Nil
                                /\ values'[s].key = values'[t].key => s = t
<1>1. PendingConsistent'
  BY DEF IInv, PendingConsistent, NoOptions
<1>2. CreatedInv'
  BY DEF IInv, CreatedInv
<1>3. \A s \in Sid : (Visible(s)' <=> Visible(s)) /\ Index(s)' = Index(s)
  BY DEF Visible, Index
<1>4. IndexInv'
  BY <1>3 DEF IInv, IndexInv
<1>. QED  BY <1>1, <1>2, <1>4 DEF IInv, LoadedInv

LEMMA SaveKeeps ==
  ASSUME IInv, Save
  PROVE  IInv'
<1>1. /\ rendered /\ phase = "idle" /\ phase' = "tasks" /\ tasks' = Batch
      /\ replies' = << >> /\ refused' = FALSE
      /\ UNCHANGED <<values, present, creates, changes, removed, deletes, reorder, touched,
                     newidx, jammed, options, order, listed, snap, rendered, folded, drift>>
  BY DEF Save, client, server
<1>2. TypeOK /\ PendingConsistent /\ LoadedInv /\ CreatedInv /\ PageInv
  BY DEF IInv
<1>3. Batch \in Seq(Task)
  <2>1. Deletions \in Seq(Task) /\ Additions \in Seq(Task) /\ Changed \in Seq(Task)
    BY <1>2, DeletionsListed, AdditionsListed
  <2>. QED  BY <2>1, ConcatProperties DEF Batch
<1>4. BatchInv'
  BY <1>1, <1>3 DEF IInv, BatchInv
<1>5. PendingConsistent' /\ CreatedInv' /\ IndexInv'
  BY <1>1, ClientKept DEF Settled
<1>6. TypeOK'
  BY <1>1, <1>2 DEF TypeOK
<1>7. LoadedInv' /\ PageInv'
  BY <1>1, <1>2 DEF LoadedInv, PageInv
<1>8. WaitingInv' /\ MirrorInv' /\ ServerInv'
  BY <1>1 DEF WaitingInv, MirrorInv, ServerInv, IInv
<1>. QED  BY <1>4, <1>5, <1>6, <1>7, <1>8 DEF IInv

LEMMA StoredTyped ==
  ASSUME NEW old \in OptionsOf(Val), NEW new \in OptionsOf(Val \cup {Empty})
  PROVE  StoredOptions(old, new) \in OptionsOf(Val)
BY ValuesAssumption DEF StoredOptions, OptionsOf

(* What rpcd does with a call keeps its package in order.                  *)
LEMMA PerformKeeps ==
  ASSUME IInv, NEW t \in Task, Perform(t)
  PROVE  /\ options' \in [Sid -> OptionsOf(Val) \cup {Nil}]
         /\ order' \in Seq(Remote) /\ Distinct(order')
         /\ \A s \in Sid : options'[s] # Nil <=> s \in ToSet(order')
         /\ \E r \in Sid \cup {Nil} : replies' = Append(replies, r)
<1>0. /\ options \in [Sid -> OptionsOf(Val) \cup {Nil}] /\ t.sid \in Sid
      /\ order \in Seq(Remote) /\ Distinct(order)
      /\ \A s \in Sid : options[s] # Nil <=> s \in ToSet(order)
  BY DEF IInv, TypeOK, ServerInv, Task
<1>1. CASE t.op = "remove" /\ Perform(t)
  <2>1. /\ options[t.sid] # Nil /\ options' = [options EXCEPT ![t.sid] = Nil]
        /\ order' = RemoveAt(order, Place(order, t.sid))
        /\ replies' = Append(replies, Nil)
    BY <1>1 DEF Perform
  <2>2. PICK at \in 1..Len(order) : at = Place(order, t.sid) /\ order[at] = t.sid
    BY <1>0, <2>1, PlaceFinds
  <2>3. PICK rest : rest = RemoveAt(order, at)
    OBVIOUS
  <2>4. rest \in Seq(Remote) /\ Distinct(rest) /\ ToSet(rest) = ToSet(order) \ {order[at]}
    BY <1>0, <2>3, ElementAway
  <2>5. order' = rest
    BY <2>1, <2>2, <2>3
  <2>. QED  BY <1>0, <2>1, <2>2, <2>4, <2>5
<1>2. CASE t.op \in {"unset", "set"} /\ Perform(t)
  <2>1. PICK os \in OptionsOf(Val) :
          /\ options[t.sid] # Nil /\ options' = [options EXCEPT ![t.sid] = os]
          /\ order' = order /\ replies' = Append(replies, Nil)
    <3>1. CASE t.op = "unset"
      <4>1. options[t.sid] # Nil /\ order' = order /\ replies' = Append(replies, Nil)
            /\ options' = [options EXCEPT ![t.sid] =
                             [o \in Opt |-> IF o \in t.opts THEN Nil ELSE options[t.sid][o]]]
        BY <1>2, <3>1 DEF Perform
      <4>2. [o \in Opt |-> IF o \in t.opts THEN Nil ELSE options[t.sid][o]] \in OptionsOf(Val)
        BY <1>0, <4>1 DEF OptionsOf
      <4>. QED  BY <4>1, <4>2
    <3>2. CASE t.op = "set"
      <4>1. options[t.sid] # Nil /\ order' = order /\ replies' = Append(replies, Nil)
            /\ options' = [options EXCEPT ![t.sid] = StoredOptions(options[t.sid], t.opts)]
        BY <1>2, <3>2 DEF Perform
      <4>2. t.opts \in OptionsOf(Val \cup {Empty})
        BY <3>2 DEF Task, OptionsOf
      <4>3. StoredOptions(options[t.sid], t.opts) \in OptionsOf(Val)
        BY <1>0, <4>1, <4>2, StoredTyped
      <4>. QED  BY <4>1, <4>3
    <3>. QED  BY <1>2, <3>1, <3>2
  <2>2. os # Nil
    BY NilAssumption DEF OptionsOf
  <2>. QED  BY <1>0, <2>1, <2>2
<1>3. CASE t.op = "add" /\ Perform(t)
  <2>1. t.named => t.sid \in Stored
    BY <1>3 DEF Task
  <2>2. t.opts \in OptionsOf(Val \cup {Empty})
    BY <1>3 DEF Task
  <2>3. PICK s \in IF t.named THEN {t.sid} ELSE {x \in Fresh : options[x] = Nil} :
          /\ options' = [options EXCEPT ![s] =
               StoredOptions(IF options[s] = Nil THEN NoOptions ELSE options[s], t.opts)]
          /\ order' = IF s \in ToSet(order) THEN order ELSE Append(order, s)
          /\ replies' = Append(replies, s)
    BY <1>3 DEF Perform
  <2>4. s \in Remote /\ s \in Sid
    BY <2>1, <2>3 DEF Remote, Sid
  <2>5. PICK os \in OptionsOf(Val) :
          os = StoredOptions(IF options[s] = Nil THEN NoOptions ELSE options[s], t.opts)
    <3>1. NoOptions \in OptionsOf(Val)
      BY DEF NoOptions, OptionsOf
    <3>2. (IF options[s] = Nil THEN NoOptions ELSE options[s]) \in OptionsOf(Val)
      BY <1>0, <2>4, <3>1
    <3>. QED  BY <2>2, <3>2, StoredTyped
  <2>6. os # Nil
    BY NilAssumption DEF OptionsOf
  <2>7. order' \in Seq(Remote) /\ Distinct(order') /\ ToSet(order') = ToSet(order) \cup {s}
    <3>1. CASE s \in ToSet(order)
      BY <1>0, <2>3, <3>1
    <3>2. CASE s \notin ToSet(order)
      <4>1. PICK new : new = Append(order, s)
        OBVIOUS
      <4>2. /\ new \in Seq(Remote) /\ Len(new) = Len(order) + 1
            /\ \A i \in 1..Len(order) : new[i] = order[i]
            /\ new[Len(order) + 1] = s
        BY <1>0, <2>4, <4>1, AppendProperties
      <4>3. Distinct(new)
        BY <1>0, <3>2, <4>2 DEF Distinct, ToSet
      <4>4. ToSet(new) = ToSet(order) \cup {s}
        <5>1. ToSet(new) \subseteq ToSet(order) \cup {s}
          BY <1>0, <4>2 DEF ToSet
        <5>2. ToSet(order) \cup {s} \subseteq ToSet(new)
          BY <1>0, <4>2 DEF ToSet
        <5>. QED  BY <5>1, <5>2
      <4>. QED  BY <2>3, <3>2, <4>1, <4>2, <4>3, <4>4
    <3>. QED  BY <3>1, <3>2
  <2>. QED  BY <1>0, <2>3, <2>4, <2>5, <2>6, <2>7
<1>4. t.op \in {"remove", "unset", "set", "add"}
  BY DEF Task
<1>. QED  BY <1>1, <1>2, <1>3, <1>4

LEMMA ServeTaskKeeps ==
  ASSUME IInv, ServeTask
  PROVE  IInv'
<1>1. /\ phase = "tasks" /\ Len(replies) < Len(tasks) /\ Perform(NextTask)
      /\ UNCHANGED <<values, present, creates, changes, removed, deletes, reorder, touched,
                     newidx, jammed, phase, tasks, refused, listed, snap, rendered, folded, drift>>
  BY DEF ServeTask, Serving, client
<1>2. TypeOK /\ BatchInv /\ LoadedInv /\ PageInv
  BY DEF IInv
<1>3. PICK t \in Task : t = NextTask
  BY <1>1, <1>2 DEF NextTask, BatchInv
<1>4. /\ options' \in [Sid -> OptionsOf(Val) \cup {Nil}]
      /\ order' \in Seq(Remote) /\ Distinct(order')
      /\ \A s \in Sid : options'[s] # Nil <=> s \in ToSet(order')
      /\ \E r \in Sid \cup {Nil} : replies' = Append(replies, r)
  BY <1>1, <1>3, PerformKeeps
<1>5. BatchInv'
  BY <1>1, <1>2, <1>4 DEF BatchInv
<1>6. ServerInv'
  BY <1>1, <1>4 DEF ServerInv
<1>7. PendingConsistent' /\ CreatedInv' /\ IndexInv'
  BY <1>1, ClientKept DEF Settled
<1>8. TypeOK'
  BY <1>1, <1>2, <1>4 DEF TypeOK
<1>9. LoadedInv' /\ PageInv'
  BY <1>1, <1>2 DEF LoadedInv, PageInv
<1>10. WaitingInv' /\ MirrorInv'
  BY <1>1 DEF WaitingInv, MirrorInv
<1>. QED  BY <1>5, <1>6, <1>7, <1>8, <1>9, <1>10 DEF IInv

LEMMA RefuseTaskKeeps ==
  ASSUME IInv, RefuseTask
  PROVE  IInv'
<1>1. /\ phase = "tasks" /\ Len(replies) < Len(tasks)
      /\ replies' = Append(replies, Nil) /\ refused' = TRUE
      /\ UNCHANGED <<values, present, creates, changes, removed, deletes, reorder, touched,
                     newidx, jammed, options, order, phase, tasks, listed, snap, rendered,
                     folded, drift>>
  BY DEF RefuseTask, Serving, client, server, history
<1>2. TypeOK /\ BatchInv /\ LoadedInv /\ PageInv /\ ServerInv
  BY DEF IInv
<1>3. BatchInv'
  BY <1>1, <1>2 DEF BatchInv
<1>4. PendingConsistent' /\ CreatedInv' /\ IndexInv'
  BY <1>1, ClientKept DEF Settled
<1>5. TypeOK'
  BY <1>1, <1>2 DEF TypeOK
<1>6. LoadedInv' /\ PageInv' /\ ServerInv'
  BY <1>1, <1>2 DEF LoadedInv, PageInv, ServerInv
<1>7. WaitingInv' /\ MirrorInv'
  BY <1>1 DEF WaitingInv, MirrorInv
<1>. QED  BY <1>3, <1>4, <1>5, <1>6, <1>7 DEF IInv

LEMMA LoseRepliesKeeps ==
  ASSUME IInv, LoseReplies
  PROVE  IInv'
<1>1. /\ phase = "tasks"
      /\ UNCHANGED <<values, present, creates, changes, removed, deletes, reorder, touched,
                     newidx, jammed, options, order, phase, tasks, replies, listed, snap,
                     rendered, folded, drift>>
  BY DEF LoseReplies, Answered, client, server, history
<1>2. TypeOK /\ BatchInv /\ LoadedInv /\ PageInv /\ ServerInv
  BY DEF IInv
<1>3. BatchInv'
  BY <1>1, <1>2 DEF BatchInv
<1>4. PendingConsistent' /\ CreatedInv' /\ IndexInv'
  BY <1>1, ClientKept DEF Settled
<1>5. TypeOK'
  BY <1>1, <1>2 DEF TypeOK
<1>6. LoadedInv' /\ PageInv' /\ ServerInv'
  BY <1>1, <1>2 DEF LoadedInv, PageInv, ServerInv
<1>7. WaitingInv' /\ MirrorInv'
  BY <1>1 DEF WaitingInv, MirrorInv
<1>. QED  BY <1>3, <1>4, <1>5, <1>6, <1>7 DEF IInv

LEMMA SaveFailsKeeps ==
  ASSUME IInv, SaveFails
  PROVE  IInv'
<1>1. /\ phase \in {"tasks", "ordered"} /\ phase' = "idle" /\ drift' = TRUE
      /\ tasks' = << >> /\ replies' = << >> /\ listed' = << >>
      /\ UNCHANGED <<values, present, creates, changes, removed, deletes, reorder, touched,
                     newidx, jammed, options, order, snap, rendered, folded>>
  BY DEF SaveFails, Answered, Done, client, server
<1>2. TypeOK /\ BatchInv /\ LoadedInv /\ PageInv /\ ServerInv
  BY DEF IInv
<1>3. BatchInv'
  BY <1>1 DEF BatchInv
<1>4. PendingConsistent' /\ CreatedInv' /\ IndexInv'
  BY <1>1, ClientKept DEF Settled
<1>5. TypeOK'
  BY <1>1, <1>2 DEF TypeOK
<1>6. LoadedInv' /\ PageInv' /\ ServerInv'
  BY <1>1, <1>2 DEF LoadedInv, PageInv, ServerInv
<1>7. WaitingInv' /\ MirrorInv'
  BY <1>1 DEF WaitingInv, MirrorInv
<1>. QED  BY <1>3, <1>4, <1>5, <1>6, <1>7 DEF IInv

LEMMA ServeOrderKeeps ==
  ASSUME IInv, ServeOrder
  PROVE  IInv'
<1>1. /\ phase = "order" /\ phase' = "ordered"
      /\ order' \in {order, Ordered(order, listed)}
      /\ UNCHANGED <<values, present, creates, changes, removed, deletes, reorder, touched,
                     newidx, jammed, options, tasks, replies, listed, snap, rendered, folded,
                     drift>>
  BY DEF ServeOrder, client, history
<1>2. TypeOK /\ BatchInv /\ LoadedInv /\ PageInv /\ ServerInv
  BY DEF IInv
<1>3. order' \in Seq(Remote) /\ Distinct(order') /\ ToSet(order') = ToSet(order)
  <2>1. order \in Seq(Remote) /\ Distinct(order) /\ listed \in Seq(Sid \cup {Nil})
    BY <1>2 DEF ServerInv, BatchInv
  <2>2. /\ Ordered(order, listed) \in Seq(Remote) /\ Distinct(Ordered(order, listed))
        /\ ToSet(Ordered(order, listed)) = ToSet(order)
    BY <2>1, OrderedKeeps
  <2>. QED  BY <1>1, <2>1, <2>2
<1>4. BatchInv'
  BY <1>1, <1>2 DEF BatchInv
<1>5. PendingConsistent' /\ CreatedInv' /\ IndexInv'
  BY <1>1, ClientKept DEF Settled
<1>6. TypeOK'
  BY <1>1, <1>2 DEF TypeOK
<1>7. LoadedInv' /\ PageInv'
  BY <1>1, <1>2 DEF LoadedInv, PageInv
<1>8. ServerInv'
  BY <1>1, <1>2, <1>3 DEF ServerInv
<1>9. WaitingInv' /\ MirrorInv'
  BY <1>1 DEF WaitingInv, MirrorInv
<1>. QED  BY <1>4, <1>5, <1>6, <1>7, <1>8, <1>9 DEF IInv

(* The reply a created section is named after is one of the batch.         *)
LEMMA NamesTyped ==
  ASSUME IInv, Len(replies) = Len(tasks), NEW s \in Sid
  PROVE  /\ NamesPatched[s] \in CreatedSection \cup {Nil}
         /\ NamesPatched[s] = Nil <=> creates[s] = Nil
         /\ creates[s] # Nil => /\ NamesPatched[s].named = creates[s].named
                                /\ NamesPatched[s].index = creates[s].index
                                /\ NamesPatched[s].born = creates[s].born
                                /\ NamesPatched[s].opts = creates[s].opts
<1>. DEFINE adds == {i \in DOMAIN tasks : tasks[i].op = "add"}
<1>1. PICK new : new = Picked(tasks, adds)
  OBVIOUS
<1>2. tasks \in Seq(Task) /\ replies \in Seq(Sid \cup {Nil}) /\ TypeOK
  BY DEF IInv, BatchInv
<1>3. DOMAIN new \subseteq 1..Len(replies)
  <2>1. DOMAIN new = 1..Cardinality(adds)
    BY <1>1 DEF Picked
  <2>2. IsFiniteSet(1..Len(tasks)) /\ Cardinality(1..Len(tasks)) = Len(tasks) /\ Len(tasks) \in Nat
    <3>1. Len(tasks) \in Nat
      BY <1>2
    <3>2. PICK n \in Nat : n = Len(tasks)
      BY <3>1
    <3>3. IsFiniteSet(1..n) /\ Cardinality(1..n) = n
      BY FS_Interval
    <3>. QED  BY <3>2, <3>3
  <2>3. adds \in SUBSET (1..Len(tasks))
    BY <1>2
  <2>4. IsFiniteSet(adds) /\ Cardinality(adds) <= Len(tasks)
    <3>. HIDE DEF adds
    <3>. QED  BY <2>2, <2>3, FS_Subset
  <2>5. Cardinality(adds) \in Nat
    BY <2>4, FS_CardinalityType
  <2>. HIDE DEF adds
  <2>. QED  BY <2>1, <2>2, <2>4, <2>5
<1>4. NamesPatched[s] = IF creates[s] # Nil /\ \E i \in DOMAIN new :
            new[i].sid = s /\ new[i].born = creates[s].born
       THEN [creates[s] EXCEPT !.name =
              replies[CHOOSE i \in DOMAIN new : new[i].sid = s]]
       ELSE creates[s]
  BY <1>1 DEF NamesPatched
<1>5. CASE creates[s] # Nil /\ \E i \in DOMAIN new :
             new[i].sid = s /\ new[i].born = creates[s].born
  <2>1. PICK i \in DOMAIN new : i = CHOOSE j \in DOMAIN new : new[j].sid = s
    BY <1>5
  <2>2. replies[i] \in Sid \cup {Nil}
    BY <1>2, <1>3
  <2>3. NamesPatched[s] = [creates[s] EXCEPT !.name = replies[i]]
    BY <1>4, <1>5, <2>1
  <2>4. creates[s] \in CreatedSection
    BY <1>2, <1>5, Typed
  <2>5. /\ NamesPatched[s] \in CreatedSection
        /\ NamesPatched[s].named = creates[s].named /\ NamesPatched[s].index = creates[s].index
        /\ NamesPatched[s].born = creates[s].born /\ NamesPatched[s].opts = creates[s].opts
    BY <2>2, <2>3, <2>4 DEF CreatedSection
  <2>. QED  BY <1>5, <2>5, NilAssumption
<1>6. CASE ~(creates[s] # Nil /\ \E i \in DOMAIN new :
               new[i].sid = s /\ new[i].born = creates[s].born)
  BY <1>2, <1>4, <1>6 DEF TypeOK
<1>. QED  BY <1>5, <1>6

LEMMA SaveOrdersKeeps ==
  ASSUME IInv, SaveOrders
  PROVE  IInv'
<1>1. /\ phase = "tasks" /\ Len(replies) = Len(tasks)
      /\ creates' = NamesPatched /\ reorder' = FALSE /\ phase' = "order"
      /\ UNCHANGED <<values, present, changes, removed, deletes, touched, newidx, jammed,
                     options, order, tasks, replies, snap, rendered, folded, drift>>
  BY DEF SaveOrders, Answered, server, history
<1>2. TypeOK /\ BatchInv /\ LoadedInv /\ PageInv /\ ServerInv /\ CreatedInv /\ PendingConsistent
  BY DEF IInv
<1>3. /\ creates' \in [Sid -> CreatedSection \cup {Nil}]
      /\ \A s \in Sid : /\ creates'[s] = Nil <=> creates[s] = Nil
                        /\ creates[s] # Nil => /\ creates'[s].named = creates[s].named
                                               /\ creates'[s].born = creates[s].born
  <2>1. \A s \in Sid : NamesPatched[s] \in CreatedSection \cup {Nil}
    BY <1>1, NamesTyped
  <2>2. NamesPatched \in [Sid -> CreatedSection \cup {Nil}]
    <3>1. PICK f : NamesPatched = [s \in Sid |-> f[s]]
      <4>1. NamesPatched = [s \in Sid |-> NamesPatched[s]]
        BY DEF NamesPatched
      <4>. QED  BY <4>1
    <3>. QED  BY <2>1, <3>1
  <2>. QED  BY <1>1, <2>2, NamesTyped
<1>4. TypeOK'
  BY <1>1, <1>2, <1>3 DEF TypeOK
<1>5. LoadedInv'
  BY <1>1, <1>2 DEF LoadedInv
<1>6. CreatedInv'
  BY <1>1, <1>2, <1>3 DEF CreatedInv
<1>7. BatchInv'
  <2>1. listed' \in Seq(Sid \cup {Nil})
    <3>1. EntriesOrdered'
      BY <1>4, <1>5, <1>6, EntriesInOrder, PTL
    <3>2. Loaded' = Loaded
      BY <1>1 DEF Loaded
    <3>3. PICK E : E = Created' \cup Loaded
      OBVIOUS
    <3>4. IsFiniteSet(E)
      BY <3>1, <3>2, <3>3 DEF EntriesOrdered
    <3>5. /\ \A e \in E : /\ e.name \in Sid \cup {Nil}
                           /\ e.index \in Int /\ e.key \in Int /\ e.create \in BOOLEAN
          /\ \A e, f \in E : e.create = f.create /\ e.key = f.key => e = f
      BY <3>1, <3>2, <3>3 DEF EntriesOrdered
    <3>6. PICK es : es = ByIndex(E, TRUE)
      OBVIOUS
    <3>7. es \in Seq(E)
      BY <3>4, <3>5, <3>6, ByIndexLists
    <3>8. listed' = [i \in DOMAIN es |-> es[i].name]
      BY <3>3, <3>6 DEF SaveOrders
    <3>. QED  BY <3>5, <3>7, <3>8
  <2>. QED  BY <1>1, <1>2, <2>1 DEF BatchInv
<1>8. PageInv'
  BY <1>1, <1>2, <1>3 DEF PageInv
<1>9. ServerInv'
  BY <1>1, <1>2 DEF ServerInv
<1>10. PendingConsistent'
  BY <1>1, <1>2 DEF PendingConsistent, NoOptions
<1>11. WaitingInv' /\ IndexInv' /\ MirrorInv'
  BY <1>1 DEF WaitingInv, IndexInv, MirrorInv, Settled
<1>. QED  BY <1>4, <1>5, <1>6, <1>7, <1>8, <1>9, <1>10, <1>11 DEF IInv
-----------------------------------------------------------------------------
(* Dropping and loading the package                                        *)

LEMMA ReloadKeeps ==
  ASSUME IInv, Reload
  PROVE  IInv'
<1>1. /\ phase' = "load" /\ phase \in {"tasks", "ordered"}
      /\ values' = [s \in Sid |-> Nil] /\ present' = FALSE
      /\ creates' = [s \in Sid |-> Nil] /\ changes' = [s \in Sid |-> NoOptions]
      /\ removed' = {} /\ deletes' = [s \in Sid |-> {}]
      /\ reorder' = (reorder /\ phase = "ordered") /\ touched' = FALSE /\ jammed' = FALSE
      /\ tasks' = << >> /\ replies' = << >> /\ listed' = << >>
      /\ UNCHANGED <<newidx, options, order, snap, rendered>>
  BY DEF Reload, Unload, Done, Answered, server
<1>2. TypeOK /\ ServerInv /\ PageInv
  BY DEF IInv
<1>3. NoOptions \in OptionsOf(Val)
  BY DEF NoOptions, OptionsOf
<1>4. TypeOK'
  BY <1>1, <1>2, <1>3 DEF TypeOK
<1>5. PendingConsistent'
  BY <1>1 DEF PendingConsistent, NoOptions
<1>6. BatchInv'
  BY <1>1 DEF BatchInv
<1>7. ServerInv'
  BY <1>1, <1>2 DEF ServerInv
<1>8. LoadedInv' /\ CreatedInv' /\ PageInv' /\ WaitingInv'
  BY <1>1, <1>2 DEF LoadedInv, CreatedInv, PageInv, WaitingInv
<1>9. IndexInv' /\ MirrorInv'
  BY <1>1 DEF IndexInv, MirrorInv, Settled
<1>. QED  BY <1>4, <1>5, <1>6, <1>7, <1>8, <1>9 DEF IInv

LEMMA LoadKeeps ==
  ASSUME IInv, Load
  PROVE  IInv'
<1>1. /\ phase = "idle" /\ ~present /\ ~jammed /\ phase' = "load"
      /\ UNCHANGED <<values, present, creates, changes, removed, deletes, reorder, touched,
                     newidx, jammed, options, order, tasks, replies, listed, snap, rendered,
                     folded, drift>>
  BY DEF Load, client, server, history
<1>2. TypeOK /\ BatchInv /\ LoadedInv /\ PageInv /\ ServerInv
  BY DEF IInv
<1>3. BatchInv' /\ ServerInv'
  BY <1>1, <1>2 DEF BatchInv, ServerInv
<1>4. PendingConsistent' /\ CreatedInv' /\ IndexInv'
  BY <1>1, ClientKept DEF Settled
<1>5. TypeOK'
  BY <1>1, <1>2 DEF TypeOK
<1>6. ~rendered /\ \A s \in Sid : creates[s] = Nil
  BY <1>1, <1>2 DEF PageInv
<1>7. LoadedInv' /\ PageInv' /\ WaitingInv' /\ MirrorInv'
  BY <1>1, <1>2, <1>6 DEF LoadedInv, PageInv, WaitingInv, MirrorInv
<1>. QED  BY <1>3, <1>4, <1>5, <1>7 DEF IInv

LEMMA ServeLoadKeeps ==
  ASSUME IInv, ServeLoad
  PROVE  IInv'
<1>1. /\ phase = "load" /\ phase' = "loaded" /\ snap' = [options |-> options, order |-> order]
      /\ UNCHANGED <<values, present, creates, changes, removed, deletes, reorder, touched,
                     newidx, jammed, options, order, tasks, replies, listed, rendered,
                     folded, drift>>
  BY DEF ServeLoad, client, server, history
<1>2. TypeOK /\ BatchInv /\ LoadedInv /\ PageInv /\ ServerInv /\ WaitingInv
  BY DEF IInv
<1>3. BatchInv' /\ ServerInv'
  BY <1>1, <1>2 DEF BatchInv, ServerInv
<1>4. PendingConsistent' /\ CreatedInv' /\ IndexInv'
  BY <1>1, ClientKept DEF Settled
<1>5. TypeOK'
  BY <1>1, <1>2 DEF TypeOK
<1>6. LoadedInv' /\ PageInv' /\ WaitingInv' /\ MirrorInv'
  BY <1>1, <1>2 DEF LoadedInv, PageInv, WaitingInv, MirrorInv
<1>. QED  BY <1>3, <1>4, <1>5, <1>6 DEF IInv

LEMMA PackageLostKeeps ==
  ASSUME IInv, PackageLost
  PROVE  IInv'
<1>1. /\ phase = "load" /\ phase' = "idle" /\ jammed' = TRUE
      /\ UNCHANGED <<values, present, creates, changes, removed, deletes, reorder, touched,
                     newidx, options, order, tasks, replies, listed, snap, rendered,
                     folded, drift>>
  BY DEF PackageLost, server, history
<1>2. TypeOK /\ BatchInv /\ LoadedInv /\ PageInv /\ ServerInv
  BY DEF IInv
<1>3. ~present
  BY <1>1, <1>2 DEF LoadedInv
<1>4. BatchInv' /\ ServerInv'
  BY <1>1, <1>2 DEF BatchInv, ServerInv
<1>5. PendingConsistent' /\ CreatedInv' /\ IndexInv'
  BY <1>1, <1>3, ClientKept DEF Settled
<1>6. TypeOK'
  BY <1>1, <1>2 DEF TypeOK
<1>7. LoadedInv' /\ PageInv' /\ WaitingInv' /\ MirrorInv'
  BY <1>1, <1>2, <1>3 DEF LoadedInv, PageInv, WaitingInv, MirrorInv
<1>. QED  BY <1>4, <1>5, <1>6, <1>7 DEF IInv

(* No order is longer than there are sections.                             *)
LEMMA PlacesBounded ==
  ASSUME NEW seq \in Seq(Remote), Distinct(seq)
  PROVE  Len(seq) <= FirstNewIndex
<1>1. PICK n \in Nat : n = Len(seq)
  OBVIOUS
<1>2. seq \in Injection(1..n, Remote)
  BY <1>1 DEF Distinct, Injection, IsInjective
<1>3. /\ Cardinality(1..n) <= Cardinality(Remote) /\ Cardinality(1..n) = n
  BY <1>2, FS_Injection, FS_Interval, IndexAssumption
<1>. QED  BY <1>1, <1>3, IndexAssumption, FS_CardinalityType

LEMMA PackageArrivesKeeps ==
  ASSUME IInv, PackageArrives
  PROVE  IInv'
<1>1. /\ phase = "loaded" /\ phase' = "idle" /\ present' = TRUE /\ rendered' = TRUE
      /\ values' = [s \in Sid |->
           IF s \in ToSet(snap.order)
           THEN LET place == Place(snap.order, s) - 1
                IN [index |-> place, key |-> place, opts |-> snap.options[s]]
           ELSE Nil]
      /\ drift' = FALSE
      /\ UNCHANGED <<creates, changes, removed, deletes, reorder, touched, newidx,
                     jammed, options, order, tasks, replies, listed, folded>>
  BY DEF PackageArrives, server
<1>2. TypeOK /\ PendingConsistent /\ BatchInv /\ ServerInv /\ LoadedInv /\ CreatedInv /\ PageInv
      /\ WaitingInv
  BY DEF IInv
<1>3. snap.order = order /\ snap.options = options
  BY <1>1, <1>2 DEF ServerInv
<1>4. ~present /\ \A s \in Sid : values[s] = Nil
  BY <1>1, <1>2 DEF LoadedInv
<1>5. ASSUME NEW s \in Sid, s \in ToSet(order)
      PROVE  /\ values'[s] \in LoadedSection /\ values'[s] # Nil /\ s \in Remote
             /\ values'[s].index = Place(order, s) - 1 /\ values'[s].key = Place(order, s) - 1
             /\ values'[s].opts = options[s]
             /\ Place(order, s) - 1 \in Nat /\ Place(order, s) - 1 < FirstNewIndex
             /\ order[Place(order, s)] = s
  <2>1. order \in Seq(Remote) /\ Distinct(order) /\ options[s] # Nil
    BY <1>2, <1>5 DEF ServerInv
  <2>2. Place(order, s) \in 1..Len(order) /\ order[Place(order, s)] = s
    BY <1>5, <2>1, PlaceFinds
  <2>3. Len(order) <= FirstNewIndex
    BY <2>1, PlacesBounded
  <2>4. PICK p \in Nat : p = Place(order, s) - 1
    BY <2>1, <2>2
  <2>5. p < FirstNewIndex
    BY <2>1, <2>2, <2>3, <2>4, IndexAssumption
  <2>6. values'[s] = [index |-> p, key |-> p, opts |-> options[s]]
    BY <1>1, <1>3, <1>5, <2>4
  <2>7. options[s] \in OptionsOf(Val)
    BY <1>2, <2>1 DEF TypeOK
  <2>8. values'[s] \in LoadedSection
    BY <2>6, <2>7 DEF LoadedSection
  <2>9. s \in Remote
    BY <2>1, <2>2
  <2>. QED  BY <2>2, <2>4, <2>5, <2>6, <2>8, <2>9, NilAssumption
<1>6. ASSUME NEW s \in Sid, s \notin ToSet(order) PROVE values'[s] = Nil
  BY <1>1, <1>3, <1>6
<1>7. TypeOK'
  <2>1. values' \in [Sid -> LoadedSection \cup {Nil}]
    <3>1. \A s \in Sid : values'[s] \in LoadedSection \cup {Nil}
      BY <1>5, <1>6
    <3>2. PICK f : values' = [s \in Sid |-> f[s]]
      <4>1. values' = [s \in Sid |-> values'[s]]
        BY <1>1
      <4>. QED  BY <4>1
    <3>. QED  BY <3>1, <3>2
  <2>. QED  BY <1>1, <1>2, <2>1 DEF TypeOK
<1>8. LoadedInv'
  <2>1. ASSUME NEW s \in Sid, NEW t \in Sid, values'[s] # Nil, values'[t] # Nil,
               values'[s].key = values'[t].key
        PROVE  s = t
    <3>1. s \in ToSet(order) /\ t \in ToSet(order)
      BY <1>6, <2>1
    <3>2. Place(order, s) - 1 = Place(order, t) - 1
      BY <1>5, <2>1, <3>1
    <3>3. order \in Seq(Remote)
      BY <1>2 DEF ServerInv
    <3>4. Place(order, s) \in 1..Len(order) /\ Place(order, t) \in 1..Len(order)
      BY <3>1, <3>3, PlaceFinds
    <3>5. Place(order, s) = Place(order, t)
      BY <3>2, <3>3, <3>4
    <3>. QED  BY <1>5, <3>1, <3>5
  <2>2. \A s \in Sid : values'[s] # Nil => s \in Remote
    BY <1>5, <1>6
  <2>. QED  BY <1>1, <2>1, <2>2 DEF LoadedInv
<1>9. CreatedInv'
  <2>1. ASSUME NEW s \in Sid, creates[s] # Nil PROVE values'[s] = Nil /\ s \in Temp
    <3>1. s \in Temp
      BY <1>2, <1>4, <2>1 DEF CreatedInv
    <3>2. s \notin Remote
      BY <3>1, NamesAssumption
    <3>. QED  BY <1>5, <1>6, <3>1, <3>2
  <2>. QED  BY <1>1, <1>2, <2>1 DEF CreatedInv
<1>10. PendingConsistent'
  BY <1>1, <1>2, <1>4 DEF PendingConsistent, NoOptions
<1>11. BatchInv'
  BY <1>1, <1>2 DEF BatchInv
<1>12. ServerInv'
  BY <1>1, <1>2 DEF ServerInv
<1>13. PageInv' /\ WaitingInv'
  BY <1>1 DEF PageInv, WaitingInv
<1>14. IndexInv'
  <2>1. newidx \in Nat /\ FirstNewIndex \in Nat
    BY <1>2, IndexAssumption DEF TypeOK
  <2>2. ASSUME NEW s \in Sid, creates'[s] # Nil
        PROVE  /\ creates'[s].name = s
               /\ Index(s)' = FirstNewIndex + creates[s].born
               /\ creates[s].born \in Nat /\ creates[s].born < newidx
    BY <1>1, <1>2, <2>2, Typed DEF WaitingInv, CreatedInv, Index
  <2>3. ASSUME NEW s \in Sid, creates'[s] = Nil, Visible(s)'
        PROVE  /\ Index(s)' \in Nat /\ Index(s)' < FirstNewIndex
               /\ Index(s)' = values'[s].key /\ values'[s] # Nil
    <3>1. values'[s] # Nil /\ Index(s)' = values'[s].index
      BY <2>3 DEF Visible, Index
    <3>. QED  BY <1>5, <1>6, <3>1
  <2>4. \A s \in Sid : Visible(s)' => Index(s)' < FirstNewIndex + newidx'
    BY <1>1, <2>1, <2>2, <2>3
  <2>5. ASSUME NEW s \in Sid, NEW t \in Sid, Visible(s)', Visible(t)', Index(s)' = Index(t)'
        PROVE  s = t
    <3>1. CASE creates'[s] # Nil /\ creates'[t] # Nil
      <4>1. creates[s].born = creates[t].born
        BY <2>1, <2>2, <2>5, <3>1
      <4>. QED  BY <1>1, <1>2, <3>1, <4>1 DEF CreatedInv
    <3>2. CASE creates'[s] = Nil /\ creates'[t] = Nil
      BY <1>8, <2>3, <2>5, <3>2 DEF LoadedInv
    <3>3. CASE creates'[s] # Nil /\ creates'[t] = Nil
      BY <2>1, <2>2, <2>3, <2>5, <3>3
    <3>4. CASE creates'[s] = Nil /\ creates'[t] # Nil
      BY <2>1, <2>2, <2>3, <2>5, <3>4
    <3>. QED  BY <3>1, <3>2, <3>3, <3>4
  <2>. QED  BY <2>2, <2>4, <2>5 DEF IndexInv
<1>15. MirrorInv'
  <2>1. \A s \in Sid : options[s] = IF values'[s] = Nil THEN Nil ELSE values'[s].opts
    BY <1>2, <1>5, <1>6 DEF ServerInv
  <2>. QED  BY <1>1, <2>1 DEF MirrorInv
<1>. QED  BY <1>7, <1>8, <1>9, <1>10, <1>11, <1>12, <1>13, <1>14, <1>15 DEF IInv
-----------------------------------------------------------------------------
(* The invariant holds                                                     *)

LEMMA InitHolds == Init => IInv
<1>. SUFFICES ASSUME Init PROVE IInv
  OBVIOUS
<1>0. /\ values = [s \in Sid |-> Nil] /\ present = FALSE
      /\ creates = [s \in Sid |-> Nil] /\ changes = [s \in Sid |-> NoOptions]
      /\ removed = {} /\ deletes = [s \in Sid |-> {}]
      /\ reorder = FALSE /\ touched = FALSE /\ newidx = 0 /\ jammed = FALSE
      /\ phase = "idle" /\ tasks = << >> /\ replies = << >> /\ listed = << >>
      /\ order = InitialOrder /\ options = InitialOptions /\ rendered = FALSE
  BY DEF Init
<1>1. NoOptions \in OptionsOf(Val)
  BY DEF NoOptions, OptionsOf
<1>2. TypeOK
  BY <1>0, <1>1, InitialAssumption DEF TypeOK
<1>3. PendingConsistent
  BY <1>0 DEF PendingConsistent
<1>4. BatchInv
  BY <1>0 DEF BatchInv
<1>5. ServerInv
  <2>1. order \in Seq(Remote)
    BY <1>0, InitialAssumption DEF Remote
  <2>2. Distinct(order)
    BY <1>0, InitialAssumption DEF Distinct
  <2>. QED  BY <1>0, <2>1, <2>2, InitialAssumption DEF ServerInv
<1>6. LoadedInv /\ CreatedInv /\ PageInv /\ WaitingInv
  BY <1>0 DEF LoadedInv, CreatedInv, PageInv, WaitingInv
<1>7. IndexInv /\ MirrorInv
  BY <1>0 DEF IndexInv, MirrorInv, Settled
<1>. QED  BY <1>2, <1>3, <1>4, <1>5, <1>6, <1>7 DEF IInv

LEMMA StepKeeps == IInv /\ [Next]_vars => IInv'
<1>. SUFFICES ASSUME IInv, [Next]_vars PROVE IInv'
  OBVIOUS
<1>1. CASE Edits
  <2>1. ASSUME NEW s \in Sid, NEW o \in Opt, NEW v \in Val \cup {Empty, Nil}, Set(s, o, v)
        PROVE  IInv'
    BY <2>1, SetCreatedKeeps, SetLoadedKeeps DEF Set
  <2>2. ASSUME NEW s \in Sid, NEW named \in BOOLEAN, Add(s, named) PROVE IInv'
    BY <2>2, AddKeeps
  <2>3. ASSUME NEW s \in Sid, RemoveCreated(s) \/ RemoveLoaded(s) PROVE IInv'
    BY <2>3, RemoveCreatedKeeps, RemoveLoadedKeeps
  <2>4. ASSUME NEW s1, NEW s2, NEW after \in BOOLEAN, Move(s1, s2, after) PROVE IInv'
    BY <2>4, MoveKeeps
  <2>5. ASSUME NEW s \in Sid, GetSection(s) PROVE IInv'
    BY <2>5, GetSectionKeeps
  <2>. QED  BY <1>1, <2>1, <2>2, <2>3, <2>4, <2>5 DEF Edits
<1>2. CASE Save
  BY <1>2, SaveKeeps
<1>3. CASE Load
  BY <1>3, LoadKeeps
<1>4. CASE LoseReplies
  BY <1>4, LoseRepliesKeeps
<1>5. CASE PackageLost
  BY <1>5, PackageLostKeeps
<1>6. CASE Calls
  <2>1. CASE ServeTask
    BY <2>1, ServeTaskKeeps
  <2>2. CASE RefuseTask
    BY <2>2, RefuseTaskKeeps
  <2>3. CASE SaveFails
    BY <2>3, SaveFailsKeeps
  <2>4. CASE SaveOrders
    BY <2>4, SaveOrdersKeeps
  <2>5. CASE ServeOrder
    BY <2>5, ServeOrderKeeps
  <2>6. CASE Reload
    BY <2>6, ReloadKeeps
  <2>7. CASE ServeLoad
    BY <2>7, ServeLoadKeeps
  <2>8. CASE PackageArrives
    BY <2>8, PackageArrivesKeeps
  <2>. QED  BY <1>6, <2>1, <2>2, <2>3, <2>4, <2>5, <2>6, <2>7, <2>8 DEF Calls
<1>7. CASE UNCHANGED vars
  <2>1. UNCHANGED <<values, present, creates, changes, removed, deletes, reorder, touched,
                    newidx, jammed, options, order, phase, tasks, replies, listed, snap,
                    rendered, folded, drift>>
    BY <1>7 DEF vars, client, server, calls, history
  <2>2. PendingConsistent' /\ CreatedInv' /\ IndexInv'
    BY <2>1, ClientKept DEF Settled
  <2>3. TypeOK' /\ BatchInv' /\ ServerInv' /\ LoadedInv'
    BY <2>1 DEF IInv, TypeOK, BatchInv, ServerInv, LoadedInv
  <2>4. PageInv' /\ WaitingInv' /\ MirrorInv'
    BY <2>1 DEF IInv, PageInv, WaitingInv, MirrorInv
  <2>. QED  BY <2>2, <2>3, <2>4 DEF IInv
<1>. QED  BY <1>1, <1>2, <1>3, <1>4, <1>5, <1>6, <1>7 DEF Next

(* The page's copy, its calls and the server's store stay together in every *)
(* state: IInv holds whatever is edited, sent, answered or lost              *)
(* (uci.js:4-97).                                                            *)
THEOREM UciInvariant == Spec => []IInv
BY InitHolds, StepKeeps, PTL DEF Spec

LEMMA AgreeFollows == IInv => EditsAgree
<1>. SUFFICES ASSUME IInv PROVE EditsAgree
  OBVIOUS
<1>1. TypeOK /\ PendingConsistent /\ IndexInv /\ MirrorInv
  BY DEF IInv
<1>2. ReadsAgree
  BY <1>1, Folded DEF ReadsAgree, Get
<1>3. IndexesDistinct
  BY <1>1 DEF IndexesDistinct, IndexInv, Settled
<1>4. ViewIsStore
  <2>1. SUFFICES ASSUME phase = "idle", present, ~folded, ~drift, removed = {},
                        \A s \in Sid :
                          creates[s] = Nil /\ deletes[s] = {} /\ changes[s] = NoOptions
                 PROVE  Table = options
    BY DEF ViewIsStore
  <2>2. ASSUME NEW s \in Sid PROVE Table[s] = options[s]
    <3>1. options[s] = IF values[s] = Nil THEN Nil ELSE values[s].opts
      BY <1>1, <2>1 DEF MirrorInv
    <3>2. CASE values[s] = Nil
      BY <2>1, <3>1, <3>2 DEF Table, Visible
    <3>3. CASE values[s] # Nil
      <4>1. Table[s] = [o \in Opt |-> Get(s, o)]
        BY <2>1, <3>3 DEF Table, Visible
      <4>2. \A o \in Opt : Get(s, o) = values[s].opts[o]
        BY <2>1, <3>3 DEF Get, NoOptions
      <4>3. values[s].opts \in OptionsOf(Val)
        BY <1>1, <3>3, Typed
      <4>4. values[s].opts = [o \in Opt |-> values[s].opts[o]]
        BY <4>3 DEF OptionsOf
      <4>. QED  BY <3>1, <3>3, <4>1, <4>2, <4>4
    <3>. QED  BY <3>2, <3>3
  <2>3. options = [s \in Sid |-> options[s]] /\ Table = [s \in Sid |-> Table[s]]
    BY <1>1 DEF TypeOK, Table
  <2>. QED  BY <2>2, <2>3
<1>. QED  BY <1>1, <1>2, <1>3, <1>4 DEF EditsAgree

(* The page's copy never contradicts itself, whatever is edited and        *)
(* whatever becomes of its calls: what is removed or unset is not set, an  *)
(* option alone and in its section read the same, no two sections share an *)
(* index, and with nothing pending the page shows what the server has      *)
(* (uci.js:20-97).                                                         *)
THEOREM EditsCorrect == Spec => []EditsAgree
BY UciInvariant, AgreeFollows, PTL
-----------------------------------------------------------------------------
(* To its callers it is one table                                          *)

(* The same sections read the same make the same table.                    *)
LEMMA RowsKept ==
  ASSUME \A s \in Sid : Visible(s)' <=> Visible(s),
         \A s \in Sid : \A o \in Opt : Visible(s) => Get(s, o)' = Get(s, o)
  PROVE  Table' = Table
<1>1. ASSUME NEW s \in Sid
      PROVE  (IF Visible(s)' THEN [o \in Opt |-> Get(s, o)'] ELSE Nil)
               = (IF Visible(s) THEN [o \in Opt |-> Get(s, o)] ELSE Nil)
  <2>1. CASE Visible(s)
    <3>1. [o \in Opt |-> Get(s, o)'] = [o \in Opt |-> Get(s, o)]
      BY <2>1
    <3>. QED  BY <2>1, <3>1
  <2>2. CASE ~Visible(s)
    BY <2>2
  <2>. QED  BY <2>1, <2>2
<1>. QED  BY <1>1 DEF Table

LEMMA SameTable ==
  ASSUME UNCHANGED <<values, creates, changes, removed, deletes>>
  PROVE  Table' = Table
<1>1. \A s \in Sid : Visible(s)' <=> Visible(s)
  BY DEF Visible
<1>2. \A s \in Sid : \A o \in Opt : Get(s, o)' = Get(s, o)
  BY DEF Get
<1>. QED  BY <1>1, <1>2, RowsKept

LEMMA RowTyped ==
  ASSUME TypeOK, NEW s \in Sid
  PROVE  /\ Visible(s) => Table[s] = [o \in Opt |-> Get(s, o)] /\ Table[s] # Nil
         /\ ~Visible(s) => Table[s] = Nil
<1>1. CASE Visible(s)
  <2>1. Table[s] = [o \in Opt |-> Get(s, o)]
    BY <1>1 DEF Table
  <2>2. ASSUME NEW o \in Opt PROVE Get(s, o) \in Val \cup {Empty, Nil}
    <3>1. CASE creates[s] # Nil
      <4>1. creates[s].opts \in OptionsOf(Val \cup {Empty})
        BY <3>1, Typed
      <4>. QED  BY <3>1, <4>1 DEF Get, OptionsOf
    <3>2. CASE creates[s] = Nil
      <4>1. changes[s] \in OptionsOf(Val) /\ (values[s] # Nil => values[s].opts \in OptionsOf(Val))
        BY Typed
      <4>. QED  BY <3>2, <4>1 DEF Get, OptionsOf
    <3>. QED  BY <3>1, <3>2
  <2>3. Table[s] \in OptionsOf(Val \cup {Empty})
    BY <2>1, <2>2 DEF OptionsOf
  <2>. QED  BY <1>1, <2>1, <2>3, NilAssumption
<1>2. CASE ~Visible(s)
  BY <1>2 DEF Table
<1>. QED  BY <1>1, <1>2

(* One option of one section reads differently.                            *)
LEMMA OptionSet ==
  ASSUME TypeOK, NEW s \in Sid, NEW o \in Opt, NEW v, Visible(s),
         \A t \in Sid : Visible(t)' <=> Visible(t),
         \A t \in Sid : \A p \in Opt : Visible(t) =>
           Get(t, p)' = IF t = s /\ p = o THEN v ELSE Get(t, p),
         present' = present
  PROVE  T!Set(s, o, v)
<1>1. ASSUME NEW t \in Sid, t # s PROVE Table'[t] = Table[t]
  <2>1. Table'[t] = (IF Visible(t)' THEN [p \in Opt |-> Get(t, p)'] ELSE Nil)
    BY DEF Table
  <2>2. Table[t] = (IF Visible(t) THEN [p \in Opt |-> Get(t, p)] ELSE Nil)
    BY DEF Table
  <2>3. CASE Visible(t)
    <3>1. [p \in Opt |-> Get(t, p)'] = [p \in Opt |-> Get(t, p)]
      BY <1>1, <2>3
    <3>. QED  BY <2>1, <2>2, <2>3, <3>1
  <2>4. CASE ~Visible(t)
    BY <2>1, <2>2, <2>4
  <2>. QED  BY <2>3, <2>4
<1>2. Table'[s] = [Table[s] EXCEPT ![o] = v] /\ Table[s] # Nil
  <2>1. Table'[s] = [p \in Opt |-> Get(s, p)']
    BY DEF Table
  <2>2. Table[s] = [p \in Opt |-> Get(s, p)]
    BY DEF Table
  <2>3. Table[s] # Nil
    BY RowTyped
  <2>. QED  BY <2>1, <2>2, <2>3
<1>3. Table = [t \in Sid |-> Table[t]] /\ Table' = [t \in Sid |-> Table'[t]]
  BY DEF Table
<1>4. Table' = [Table EXCEPT ![s][o] = v]
  BY <1>1, <1>2, <1>3
<1>. QED  BY <1>2, <1>4 DEF T!Set

(* One section appears or disappears.                                      *)
LEMMA RowSet ==
  ASSUME NEW s \in Sid, NEW row, Table'[s] = row,
         \A t \in Sid : t # s => (Visible(t)' <=> Visible(t)),
         \A t \in Sid : \A p \in Opt : t # s => Get(t, p)' = Get(t, p)
  PROVE  Table' = [Table EXCEPT ![s] = row]
<1>1. ASSUME NEW t \in Sid, t # s PROVE Table'[t] = Table[t]
  <2>1. Table'[t] = (IF Visible(t)' THEN [p \in Opt |-> Get(t, p)'] ELSE Nil)
    BY DEF Table
  <2>2. Table[t] = (IF Visible(t) THEN [p \in Opt |-> Get(t, p)] ELSE Nil)
    BY DEF Table
  <2>3. [p \in Opt |-> Get(t, p)'] = [p \in Opt |-> Get(t, p)]
    BY <1>1
  <2>. QED  BY <1>1, <2>1, <2>2, <2>3
<1>2. Table = [t \in Sid |-> Table[t]] /\ Table' = [t \in Sid |-> Table'[t]]
  BY DEF Table
<1>. QED  BY <1>1, <1>2

LEMMA SetRefines ==
  ASSUME IInv, NEW s \in Sid, NEW o \in Opt, NEW v \in Val \cup {Empty, Nil}, Set(s, o, v)
  PROVE  T!Next
<1>0. TypeOK /\ PendingConsistent
  BY DEF IInv
<1>1. CASE SetCreated(s, o, v)
  <2>1. /\ creates[s] # Nil /\ creates' = [creates EXCEPT ![s].opts[o] = v]
        /\ UNCHANGED <<values, changes, removed, deletes, present>>
    BY <1>1 DEF SetCreated, Edit
  <2>2. /\ creates[s] \in CreatedSection /\ creates[s].opts \in OptionsOf(Val \cup {Empty})
        /\ creates \in [Sid -> CreatedSection \cup {Nil}]
    BY <1>0, <2>1, Typed DEF TypeOK
  <2>3. PICK c : c = [creates[s] EXCEPT !.opts[o] = v]
    OBVIOUS
  <2>4. /\ c \in CreatedSection /\ c # Nil
        /\ \A p \in Opt : c.opts[p] = IF p = o THEN v ELSE creates[s].opts[p]
    <3>1. /\ c \in CreatedSection
          /\ \A p \in Opt : c.opts[p] = IF p = o THEN v ELSE creates[s].opts[p]
      BY <2>2, <2>3 DEF CreatedSection, OptionsOf
    <3>. QED  BY <3>1, NilAssumption
  <2>5. \A t \in Sid : creates'[t] = IF t = s THEN c ELSE creates[t]
    BY <2>1, <2>2, <2>3
  <2>6. Visible(s) /\ \A t \in Sid : Visible(t)' <=> Visible(t)
    BY <2>1, <2>4, <2>5 DEF Visible
  <2>7. \A t \in Sid : \A p \in Opt : Visible(t) =>
          Get(t, p)' = IF t = s /\ p = o THEN v ELSE Get(t, p)
    <3>1. ASSUME NEW t \in Sid, NEW p \in Opt, t # s PROVE Get(t, p)' = Get(t, p)
      BY <2>1, <2>5, <3>1 DEF Get
    <3>2. \A p \in Opt : Get(s, p)' = c.opts[p]
      BY <2>4, <2>5 DEF Get
    <3>3. \A p \in Opt : Get(s, p) = creates[s].opts[p]
      BY <2>1 DEF Get
    <3>. QED  BY <2>4, <3>1, <3>2, <3>3
  <2>8. T!Set(s, o, v)
    BY <1>0, <2>1, <2>6, <2>7, OptionSet
  <2>. QED  BY <2>8 DEF T!Next
<1>2. CASE SetLoaded(s, o, v)
  <2>1. /\ creates[s] = Nil /\ v \in Val /\ values[s] # Nil /\ s \notin removed
        /\ changes' = [changes EXCEPT ![s][o] = v]
        /\ deletes' = [deletes EXCEPT ![s] = deletes[s] \ {o}]
        /\ UNCHANGED <<values, creates, removed, present>>
    BY <1>2 DEF SetLoaded, Edit, IsValue, Undelete
  <2>2. changes \in [Sid -> OptionsOf(Val)] /\ deletes \in [Sid -> SUBSET Opt]
    BY <1>0 DEF TypeOK
  <2>3. /\ \A t \in Sid : \A p \in Opt :
             changes'[t][p] = IF t = s /\ p = o THEN v ELSE changes[t][p]
        /\ \A t \in Sid : deletes'[t] = IF t = s THEN deletes[s] \ {o} ELSE deletes[t]
    BY <2>1, <2>2 DEF OptionsOf
  <2>4. Visible(s) /\ \A t \in Sid : Visible(t)' <=> Visible(t)
    BY <2>1 DEF Visible
  <2>5. \A t \in Sid : \A p \in Opt : Visible(t) =>
          Get(t, p)' = IF t = s /\ p = o THEN v ELSE Get(t, p)
    BY <2>1, <2>3, ValuesAssumption DEF Get
  <2>6. T!Set(s, o, v)
    BY <1>0, <2>1, <2>4, <2>5, OptionSet
  <2>. QED  BY <2>6 DEF T!Next
<1>3. CASE UnsetLoaded(s, o)
  <2>1. /\ creates[s] = Nil /\ values[s] # Nil /\ s \notin removed
        /\ changes' = [changes EXCEPT ![s][o] = Nil]
        /\ deletes' = IF values[s].opts[o] # Nil
                        THEN [deletes EXCEPT ![s] = deletes[s] \cup {o}] ELSE deletes
        /\ UNCHANGED <<values, creates, removed, present>>
    BY <1>3 DEF UnsetLoaded, Edit
  <2>2. changes \in [Sid -> OptionsOf(Val)] /\ deletes \in [Sid -> SUBSET Opt]
    BY <1>0 DEF TypeOK
  <2>3. /\ \A t \in Sid : \A p \in Opt :
             changes'[t][p] = IF t = s /\ p = o THEN Nil ELSE changes[t][p]
        /\ \A t \in Sid : t # s => deletes'[t] = deletes[t]
        /\ \A p \in Opt : p # o => (p \in deletes'[s] <=> p \in deletes[s])
        /\ o \in deletes'[s] \/ values[s].opts[o] = Nil
    BY <2>1, <2>2 DEF OptionsOf
  <2>4. Visible(s) /\ \A t \in Sid : Visible(t)' <=> Visible(t)
    BY <2>1 DEF Visible
  <2>5. \A t \in Sid : \A p \in Opt : Visible(t) =>
          Get(t, p)' = IF t = s /\ p = o THEN Nil ELSE Get(t, p)
    <3>1. ASSUME NEW t \in Sid, NEW p \in Opt, t # s PROVE Get(t, p)' = Get(t, p)
      BY <2>1, <2>3, <3>1 DEF Get
    <3>2. ASSUME NEW p \in Opt, p # o PROVE Get(s, p)' = Get(s, p)
      BY <2>1, <2>3, <3>2 DEF Get
    <3>3. Get(s, o)' = Nil
      BY <2>1, <2>3 DEF Get
    <3>. QED  BY <3>1, <3>2, <3>3
  <2>6. T!Set(s, o, Nil)
    <3>1. present' = present
      BY <2>1
    <3>. QED  BY <1>0, <2>4, <2>5, <3>1, OptionSet
  <2>. QED  BY <2>6 DEF T!Next
<1>. QED  BY <1>1, <1>2, <1>3 DEF Set

LEMMA AddRefines ==
  ASSUME IInv, NEW s \in Sid, NEW named \in BOOLEAN, Add(s, named)
  PROVE  T!Next
<1>. DEFINE c == [name |-> s, named |-> named, index |-> NextIndex,
                  born |-> newidx, opts |-> NoOptions]
<1>0. TypeOK
  BY DEF IInv
<1>1. /\ creates[s] = Nil /\ creates' = [creates EXCEPT ![s] = c]
      /\ UNCHANGED <<values, changes, removed, deletes, present>>
      /\ ~Visible(s)
  BY DEF Add, Edit, Visible
<1>2. c # Nil /\ c.opts = NoOptions
  <2>1. newidx \in Nat /\ FirstNewIndex \in Nat /\ NoOptions \in OptionsOf(Val \cup {Empty})
    BY <1>0, IndexAssumption DEF TypeOK, NoOptions, OptionsOf
  <2>2. c \in CreatedSection
    BY <2>1 DEF CreatedSection, NextIndex
  <2>. QED  BY <2>2, NilAssumption
<1>. HIDE DEF c
<1>3. \A t \in Sid : creates'[t] = IF t = s THEN c ELSE creates[t]
  BY <1>0, <1>1 DEF TypeOK
<1>4. Table'[s] = NoOptions
  <2>1. Visible(s)'
    BY <1>2, <1>3 DEF Visible
  <2>2. \A o \in Opt : Get(s, o)' = Nil
    BY <1>2, <1>3 DEF Get, NoOptions
  <2>3. Table'[s] = [o \in Opt |-> Get(s, o)']
    BY <2>1 DEF Table
  <2>. QED  BY <2>2, <2>3 DEF NoOptions
<1>5. \A t \in Sid : t # s => (Visible(t)' <=> Visible(t))
  BY <1>1, <1>3 DEF Visible
<1>6. \A t \in Sid : \A p \in Opt : t # s => Get(t, p)' = Get(t, p)
  BY <1>1, <1>3 DEF Get
<1>7. Table' = [Table EXCEPT ![s] = NoOptions]
  BY <1>4, <1>5, <1>6, RowSet
<1>8. Table[s] = Nil
  BY <1>0, <1>1, RowTyped
<1>9. T!Add(s)
  BY <1>1, <1>7, <1>8 DEF T!Add, T!NoOptions, NoOptions
<1>. QED  BY <1>9 DEF T!Next

LEMMA RemoveRefines ==
  ASSUME IInv, NEW s \in Sid, RemoveCreated(s) \/ RemoveLoaded(s)
  PROVE  T!Next
<1>0. TypeOK /\ CreatedInv
  BY DEF IInv
<1>1. /\ creates' = [creates EXCEPT ![s] = Nil] \/ creates' = creates
      /\ values' = values /\ present' = present
      /\ Visible(s) /\ ~Visible(s)'
      /\ \A t \in Sid : t # s => /\ creates'[t] = creates[t] /\ changes'[t] = changes[t]
                                 /\ deletes'[t] = deletes[t]
                                 /\ (t \in removed' <=> t \in removed)
  <2>1. CASE RemoveCreated(s)
    <3>1. /\ creates[s] # Nil /\ creates' = [creates EXCEPT ![s] = Nil]
          /\ UNCHANGED <<values, changes, removed, deletes, present>>
      BY <2>1 DEF RemoveCreated, Edit
    <3>2. \A t \in Sid : creates'[t] = IF t = s THEN Nil ELSE creates[t]
      BY <1>0, <3>1 DEF TypeOK
    <3>3. values[s] # Nil => s \in removed
      BY <1>0, <3>1 DEF CreatedInv
    <3>. QED  BY <3>1, <3>2, <3>3 DEF Visible
  <2>2. CASE RemoveLoaded(s)
    <3>1. /\ creates[s] = Nil /\ values[s] # Nil /\ s \notin removed
          /\ changes' = [changes EXCEPT ![s] = NoOptions]
          /\ removed' = removed \cup {s} /\ deletes' = [deletes EXCEPT ![s] = {}]
          /\ UNCHANGED <<values, creates, present>>
      BY <2>2 DEF RemoveLoaded, Edit
    <3>2. \A t \in Sid : t # s => changes'[t] = changes[t] /\ deletes'[t] = deletes[t]
      BY <1>0, <3>1 DEF TypeOK
    <3>. QED  BY <3>1, <3>2 DEF Visible
  <2>. QED  BY <2>1, <2>2
<1>2. Table'[s] = Nil
  BY <1>1 DEF Table
<1>3. \A t \in Sid : t # s => (Visible(t)' <=> Visible(t))
  BY <1>1 DEF Visible
<1>4. \A t \in Sid : \A p \in Opt : t # s => Get(t, p)' = Get(t, p)
  BY <1>1 DEF Get
<1>5. Table' = [Table EXCEPT ![s] = Nil]
  BY <1>2, <1>3, <1>4, RowSet
<1>6. Table[s] # Nil
  BY <1>0, <1>1, RowTyped
<1>7. T!Remove(s)
  BY <1>1, <1>5, <1>6 DEF T!Remove
<1>. QED  BY <1>7 DEF T!Next

(* Reading a section as a whole folds its edits into the loaded copy, and  *)
(* changes nothing that is read.                                           *)
LEMMA FoldReads ==
  ASSUME TypeOK, PendingConsistent, NEW s \in Sid, values[s] # Nil,
         creates[s] = Nil, s \notin removed, NEW o \in Opt
  PROVE  Fold(s).opts[o] = Get(s, o)
BY Folded DEF Get

LEMMA GetSectionRefines ==
  ASSUME IInv, NEW s \in Sid, GetSection(s)
  PROVE  Table' = Table /\ present' = present
<1>0. TypeOK /\ PendingConsistent
  BY DEF IInv
<1>1. /\ creates[s] = Nil /\ values[s] # Nil /\ s \notin removed
      /\ values' = [values EXCEPT ![s] = Fold(s)]
      /\ UNCHANGED <<creates, changes, removed, deletes, present>>
  BY DEF GetSection, Unfolded
<1>2. Fold(s) # Nil /\ \A o \in Opt : Fold(s).opts[o] = Get(s, o)
  BY <1>0, <1>1, Folded, FoldReads
<1>3. \A t \in Sid : values'[t] = IF t = s THEN Fold(s) ELSE values[t]
  BY <1>0, <1>1 DEF TypeOK
<1>4. \A t \in Sid : Visible(t)' <=> Visible(t)
  BY <1>1, <1>2, <1>3 DEF Visible
<1>5. \A t \in Sid : \A o \in Opt : Get(t, o)' = Get(t, o)
  <2>1. ASSUME NEW o \in Opt PROVE Get(s, o)' = Get(s, o)
    <3>1. Get(s, o)' = IF o \in deletes[s] THEN Nil
                       ELSE IF changes[s][o] # Nil THEN changes[s][o] ELSE Fold(s).opts[o]
      BY <1>1, <1>2, <1>3 DEF Get
    <3>2. Get(s, o) = IF o \in deletes[s] THEN Nil
                      ELSE IF changes[s][o] # Nil THEN changes[s][o] ELSE values[s].opts[o]
      BY <1>1 DEF Get
    <3>. QED  BY <1>2, <3>1, <3>2
  <2>2. ASSUME NEW t \in Sid, NEW o \in Opt, t # s PROVE Get(t, o)' = Get(t, o)
    BY <1>1, <1>3, <2>2 DEF Get
  <2>. QED  BY <2>1, <2>2
<1>. QED  BY <1>1, <1>4, <1>5, RowsKept

LEMMA MoveRefines ==
  ASSUME IInv, NEW s1, NEW s2, NEW after \in BOOLEAN, Move(s1, s2, after)
  PROVE  Table' = Table /\ present' = present
<1>0. TypeOK /\ PendingConsistent
  BY DEF IInv
<1>1. PICK seen \in SUBSET Sid, index \in [Sid -> Nat] :
           /\ \A s \in seen : Visible(s)
           /\ values' = [s \in Sid |->
                IF s \in seen /\ creates[s] = Nil
                THEN [Fold(s) EXCEPT !.index = index[s]] ELSE values[s]]
           /\ creates' = [s \in Sid |->
                IF s \in seen /\ creates[s] # Nil
                THEN [creates[s] EXCEPT !.index = index[s]] ELSE creates[s]]
  BY MoveSeen
<1>2. UNCHANGED <<changes, removed, deletes, present>>
  BY DEF Move, Edit
<1>3. ASSUME NEW s \in Sid
      PROVE  /\ creates'[s] = Nil <=> creates[s] = Nil
             /\ values'[s] = Nil <=> values[s] = Nil
             /\ \A o \in Opt : Visible(s) => Get(s, o)' = Get(s, o)
  <2>1. CASE s \in seen /\ creates[s] # Nil
    <3>1. creates[s] \in CreatedSection
      BY <1>0, <2>1, Typed
    <3>2. creates'[s] = [creates[s] EXCEPT !.index = index[s]] /\ index[s] \in Nat
      BY <1>1, <2>1
    <3>3. creates'[s] \in CreatedSection /\ creates'[s].opts = creates[s].opts
      BY <3>1, <3>2 DEF CreatedSection
    <3>4. creates'[s] # Nil /\ values'[s] = values[s]
      BY <1>1, <2>1, <3>3, NilAssumption
    <3>. QED  BY <2>1, <3>3, <3>4 DEF Get
  <2>2. CASE s \in seen /\ creates[s] = Nil
    <3>1. values[s] # Nil /\ s \notin removed
      BY <1>1, <2>2 DEF Visible
    <3>2. Fold(s) \in LoadedSection /\ \A o \in Opt : Fold(s).opts[o] = Get(s, o)
      BY <1>0, <2>2, <3>1, Folded, FoldReads
    <3>3. values'[s] = [Fold(s) EXCEPT !.index = index[s]] /\ index[s] \in Nat
          /\ creates'[s] = creates[s]
      BY <1>1, <2>2
    <3>4. values'[s] \in LoadedSection /\ values'[s].opts = Fold(s).opts
      BY <3>2, <3>3 DEF LoadedSection
    <3>5. values'[s] # Nil
      BY <3>4, NilAssumption
    <3>6. ASSUME NEW o \in Opt PROVE Get(s, o)' = Get(s, o)
      <4>1. Get(s, o)' = IF o \in deletes[s] THEN Nil
                         ELSE IF changes[s][o] # Nil THEN changes[s][o] ELSE Fold(s).opts[o]
        BY <1>2, <2>2, <3>1, <3>3, <3>4, <3>5 DEF Get
      <4>2. Get(s, o) = IF o \in deletes[s] THEN Nil
                        ELSE IF changes[s][o] # Nil THEN changes[s][o] ELSE values[s].opts[o]
        BY <2>2, <3>1 DEF Get
      <4>. QED  BY <3>2, <4>1, <4>2
    <3>. QED  BY <3>1, <3>3, <3>5, <3>6
  <2>3. CASE s \notin seen
    <3>1. creates'[s] = creates[s] /\ values'[s] = values[s]
      BY <1>1, <2>3
    <3>. QED  BY <1>2, <3>1 DEF Get
  <2>. QED  BY <2>1, <2>2, <2>3
<1>4. \A s \in Sid : Visible(s)' <=> Visible(s)
  BY <1>2, <1>3 DEF Visible
<1>. QED  BY <1>2, <1>3, <1>4, RowsKept

LEMMA SaveOrdersRefines ==
  ASSUME IInv, SaveOrders
  PROVE  Table' = Table /\ present' = present
<1>1. /\ creates' = NamesPatched /\ Len(replies) = Len(tasks)
      /\ UNCHANGED <<values, changes, removed, deletes, present>>
  BY DEF SaveOrders, Answered
<1>2. \A s \in Sid : /\ creates'[s] = Nil <=> creates[s] = Nil
                     /\ creates[s] # Nil => creates'[s].opts = creates[s].opts
  BY <1>1, NamesTyped
<1>3. \A s \in Sid : Visible(s)' <=> Visible(s)
  BY <1>1, <1>2 DEF Visible
<1>4. \A s \in Sid : \A o \in Opt : Get(s, o)' = Get(s, o)
  BY <1>1, <1>2 DEF Get
<1>. QED  BY <1>1, <1>3, <1>4, RowsKept

LEMMA ReloadRefines ==
  ASSUME Reload
  PROVE  T!Next
<1>1. /\ values' = [s \in Sid |-> Nil] /\ present' = FALSE
      /\ creates' = [s \in Sid |-> Nil]
  BY DEF Reload, Unload
<1>2. \A s \in Sid : ~Visible(s)'
  BY <1>1 DEF Visible
<1>3. Table' = [s \in Sid |-> Nil]
  BY <1>2 DEF Table
<1>. QED  BY <1>1, <1>3 DEF T!Next, T!Drop

LEMMA PackageArrivesRefines ==
  ASSUME IInv, PackageArrives
  PROVE  T!Next
<1>0. TypeOK /\ PendingConsistent /\ LoadedInv
  BY DEF IInv
<1>1. /\ phase = "loaded" /\ present' = TRUE
      /\ UNCHANGED <<creates, changes, removed, deletes>>
  BY DEF PackageArrives
<1>2. TypeOK'
  BY PackageArrivesKeeps DEF IInv
<1>3. ~present /\ \A s \in Sid : /\ values[s] = Nil /\ s \notin removed /\ deletes[s] = {}
                                 /\ changes[s] = NoOptions
  BY <1>0, <1>1 DEF LoadedInv, PendingConsistent
<1>4. PICK loaded : loaded = [s \in Sid |-> IF values'[s] # Nil THEN values'[s].opts ELSE Nil]
  OBVIOUS
<1>5. \A s \in Sid : values'[s] # Nil => values'[s].opts \in OptionsOf(Val)
  BY <1>2 DEF TypeOK, LoadedSection
<1>6. loaded \in [Sid -> T!Options \cup {Nil}]
  <2>1. OptionsOf(Val) \subseteq T!Options
    BY DEF OptionsOf, T!Options
  <2>. QED  BY <1>4, <1>5, <2>1
<1>7. ASSUME NEW s \in Sid
      PROVE  Table'[s] = IF Table[s] # Nil THEN Table[s] ELSE loaded[s]
  <2>1. Table'[s] = (IF Visible(s)' THEN [o \in Opt |-> Get(s, o)'] ELSE Nil)
    BY DEF Table
  <2>2. CASE creates[s] # Nil
    <3>1. Visible(s) /\ Visible(s)' /\ \A o \in Opt : Get(s, o)' = Get(s, o)
      BY <1>1, <2>2 DEF Visible, Get
    <3>2. Table[s] = [o \in Opt |-> Get(s, o)] /\ Table[s] # Nil
      BY <1>0, <3>1, RowTyped
    <3>. QED  BY <2>1, <3>1, <3>2
  <2>3. CASE creates[s] = Nil
    <3>1. ~Visible(s) /\ Table[s] = Nil
      BY <1>0, <1>3, <2>3, RowTyped DEF Visible
    <3>2. CASE values'[s] = Nil
      BY <1>1, <1>4, <2>1, <2>3, <3>1, <3>2 DEF Visible
    <3>3. CASE values'[s] # Nil
      <4>1. Visible(s)' /\ \A o \in Opt : Get(s, o)' = values'[s].opts[o]
        BY <1>1, <1>3, <2>3, <3>3 DEF Visible, Get, NoOptions
      <4>2. values'[s].opts = [o \in Opt |-> values'[s].opts[o]]
        BY <1>5, <3>3 DEF OptionsOf
      <4>. QED  BY <1>4, <2>1, <3>1, <3>3, <4>1, <4>2
    <3>. QED  BY <3>2, <3>3
  <2>. QED  BY <2>2, <2>3
<1>8. Table' = [s \in Sid |-> IF Table[s] # Nil THEN Table[s] ELSE loaded[s]]
  BY <1>7 DEF Table
<1>9. T!Load(loaded)
  BY <1>1, <1>3, <1>8 DEF T!Load
<1>. QED  BY <1>6, <1>9 DEF T!Next

LEMMA StepRefines == IInv /\ [Next]_vars => [T!Next]_<<Table, present>>
<1>. SUFFICES ASSUME IInv, [Next]_vars
              PROVE  T!Next \/ (Table' = Table /\ present' = present)
  OBVIOUS
<1>1. CASE Edits
  <2>1. ASSUME NEW s \in Sid, NEW o \in Opt, NEW v \in Val \cup {Empty, Nil}, Set(s, o, v)
        PROVE  T!Next
    BY <2>1, SetRefines
  <2>2. ASSUME NEW s \in Sid, NEW named \in BOOLEAN, Add(s, named) PROVE T!Next
    BY <2>2, AddRefines
  <2>3. ASSUME NEW s \in Sid, RemoveCreated(s) \/ RemoveLoaded(s) PROVE T!Next
    BY <2>3, RemoveRefines
  <2>4. ASSUME NEW s1, NEW s2, NEW after \in BOOLEAN, Move(s1, s2, after)
        PROVE  Table' = Table /\ present' = present
    BY <2>4, MoveRefines
  <2>5. ASSUME NEW s \in Sid, GetSection(s) PROVE Table' = Table /\ present' = present
    BY <2>5, GetSectionRefines
  <2>. QED  BY <1>1, <2>1, <2>2, <2>3, <2>4, <2>5 DEF Edits
<1>2. CASE Save \/ Load \/ LoseReplies
  BY <1>2, SameTable DEF Save, Load, LoseReplies, client
<1>3. CASE PackageLost
  BY <1>3, SameTable DEF PackageLost
<1>4. CASE Calls
  <2>1. CASE ServeTask \/ RefuseTask \/ SaveFails \/ ServeOrder \/ ServeLoad
    BY <2>1, SameTable DEF ServeTask, RefuseTask, SaveFails, ServeOrder, ServeLoad, client
  <2>2. CASE SaveOrders
    BY <2>2, SaveOrdersRefines
  <2>3. CASE Reload
    BY <2>3, ReloadRefines
  <2>4. CASE PackageArrives
    BY <2>4, PackageArrivesRefines
  <2>. QED  BY <1>4, <2>1, <2>2, <2>3, <2>4 DEF Calls
<1>5. CASE UNCHANGED vars
  BY <1>5, SameTable DEF vars, client
<1>. QED  BY <1>1, <1>2, <1>3, <1>4, <1>5 DEF Next

LEMMA InitRefines == Init => T!Init
<1>. SUFFICES ASSUME Init PROVE T!Init
  OBVIOUS
<1>1. \A s \in Sid : ~Visible(s)
  BY DEF Init, Visible
<1>. QED  BY <1>1 DEF T!Init, Init, Table

(* The layer of pending edits implements LuciTable (uci.js:20-97): every   *)
(* step of the page, of the calls it has under way and of the server is a  *)
(* step of the one table its callers see, or leaves that as it is.         *)
THEOREM TableRefined == Spec => ImplementsTable
<1>1. Init => T!Init
  BY InitRefines
<1>2. IInv /\ [Next]_vars => [T!Next]_<<Table, present>>
  BY StepRefines
<1>. QED  BY <1>1, <1>2, UciInvariant, PTL DEF Spec, ImplementsTable, T!Spec
-----------------------------------------------------------------------------
(* What was saved is what was shown                                         *)

(* A batch, or the order after it, that nothing failed in and no edit came  *)
(* into.                                                                    *)
InSave == phase \in {"tasks", "order", "ordered"} /\ ~late /\ ~refused

(* rpcd has carried out such a call for a section; the batch has one.       *)
DoneOp(op, s) == \E i \in 1..Len(replies) : tasks[i].op = op /\ tasks[i].sid = s
Has(op, s) == \E i \in 1..Len(tasks) : tasks[i].op = op /\ tasks[i].sid = s
(* Sections rpcd has added, and loaded ones it has not removed.             *)
Added(s) == DoneOp("add", s)
Here(s) == values[s] # Nil /\ ~DoneOp("remove", s)

(* Deletions, additions and changes, in the order they are made.            *)
Stage(t) == IF t.op = "add" THEN 2 ELSE IF t.op = "set" THEN 3 ELSE 1

(* A call carries what is pending here.                                    *)
TaskTold(t) ==
  /\ t.op = "remove" => t.sid \in removed
  /\ t.op = "unset" => t.opts = deletes[t.sid] /\ deletes[t.sid] # {}
  /\ t.op = "add" => /\ creates[t.sid] # Nil
                     /\ t.named = creates[t.sid].named /\ t.opts = creates[t.sid].opts
                     /\ t.born = creates[t.sid].born
  /\ t.op = "set" => t.opts = changes[t.sid] /\ changes[t.sid] # NoOptions
(* The batch has a call for everything that is pending, once.               *)
TasksTell ==
  InSave =>
    /\ \A i \in 1..Len(tasks) : TaskTold(tasks[i])
    /\ \A s \in Sid : /\ s \in removed => Has("remove", s)
                      /\ deletes[s] # {} => Has("unset", s)
                      /\ creates[s] # Nil => Has("add", s)
                      /\ changes[s] # NoOptions => Has("set", s)
    /\ \A i, j \in 1..Len(tasks) :
         tasks[i].op = tasks[j].op /\ tasks[i].sid = tasks[j].sid => i = j
    /\ \A i, j \in 1..Len(tasks) : i < j =>
         /\ Stage(tasks[i]) <= Stage(tasks[j])
         /\ tasks[i].op = "add" /\ tasks[j].op = "add" => tasks[i].born < tasks[j].born

(* Only what the page removed is removed: what it still lists is stored.    *)
RemovesInv ==
  /\ phase \in {"tasks", "order", "ordered"} =>
       \A i \in 1..Len(tasks) : tasks[i].op = "remove" => tasks[i].sid \in removed
  /\ \A s \in Sid : values[s] # Nil /\ s \notin removed => s \in ToSet(order)

(* Loaded sections are numbered as they are stored.                         *)
KeyInv ==
  /\ \A s \in Sid : values[s] # Nil => values[s].key < FirstNewIndex
  /\ (present /\ ~drift /\ phase = "idle") =>
       \A i \in 1..Len(order) : values[order[i]] # Nil /\ values[order[i]].key = i - 1

(* Where nothing was moved, sections are sorted as they were loaded and     *)
(* made.                                                                    *)
PlainInv ==
  Settled /\ ~reorder =>
    \A s \in Sid : /\ values[s] # Nil => values[s].index = values[s].key
                   /\ creates[s] # Nil => creates[s].index = FirstNewIndex + creates[s].born

(* The batch was made of what is shown, and the replies are the names of the*)
(* added sections.                                                          *)
NamesTell ==
  InSave =>
    /\ phase # "tasks" => Len(replies) = Len(tasks)
    /\ sent.table = Table
    /\ names \in [Sid -> Sid]
    /\ \A s \in Sid :
         /\ ~Added(s) => names[s] = s
         /\ Added(s) => /\ names[s] \in ToSet(order)
                        /\ IF creates[s].named THEN names[s] = s ELSE names[s] \in Fresh
    /\ \A i \in 1..Len(replies) : tasks[i].op = "add" => replies[i] = names[tasks[i].sid]

(* What rpcd has so far: the loaded sections that stay, those it added with *)
(* all the page showed of them, and of the rest what was carried out.       *)
DeliveredInv ==
  InSave /\ sent.clean =>
    /\ present /\ ~drift
    /\ \A x \in Sid : x \in ToSet(order) <=> Here(x) \/ \E s \in Sid : Added(s) /\ names[s] = x
    /\ \A s, t \in Sid : Added(s) /\ Added(t) /\ names[s] = names[t] => s = t
    /\ \A s \in Sid : Added(s) => ~Here(names[s]) /\ options[names[s]] = Expected(s)
    /\ \A s \in Sid : values[s] # Nil /\ s \notin removed => \A o \in Opt :
         /\ o \in deletes[s] /\ DoneOp("unset", s) => options[s][o] = Nil
         /\ changes[s][o] # Nil /\ DoneOp("set", s) => options[s][o] = changes[s][o]
         /\ o \notin deletes[s] /\ changes[s][o] = Nil => options[s][o] = values[s].opts[o]

(* What a batch that reorders must not do both, for its names to be right.  *)
Deletes == \E i \in 1..Len(tasks) : tasks[i].op \in {"remove", "unset"}
Adds == \E i \in 1..Len(tasks) : tasks[i].op = "add"

(* The page's sections by index, as it showed them when it saved.          *)
ShownInOrder ==
  /\ sent.order \in Seq(Sid) /\ Distinct(sent.order)
  /\ \A s \in Sid : s \in ToSet(sent.order) <=> Visible(s)
  /\ \A i, j \in 1..Len(sent.order) : i < j => Index(sent.order[i]) < Index(sent.order[j])
MixedTold ==
  (phase # "tasks" \/ reorder) /\ Deletes /\ Adds => sent.mixed
(* rpcd has the loaded sections first, as they were, then the added ones.  *)
AddedInOrder ==
  \A i, j \in 1..Len(order) : i < j =>
    /\ Here(order[j]) => Here(order[i]) /\ values[order[i]].key < values[order[j]].key
    /\ \A s, t \in Sid : Added(s) /\ Added(t) /\ names[s] = order[i] /\ names[t] = order[j]
         => creates[s].born < creates[t].born
(* The names that are sent are those of the sections, in the order shown.   *)
ListedInOrder ==
  /\ \A i, j \in 1..Len(listed) :
       listed[i] = listed[j] /\ listed[i] \in ToSet(order) => i = j
  /\ \A x \in ToSet(order) : \E i \in 1..Len(listed) : listed[i] = x
  /\ \A i, j \in 1..Len(listed) : i < j =>
       \A s, t \in Sid : Visible(s) /\ Visible(t) /\ listed[i] = names[s] /\ listed[j] = names[t]
         => Index(s) < Index(t)
(* And so are they stored.                                                  *)
StoredInOrder ==
  \A i, j \in 1..Len(order) : i < j =>
    \A s, t \in Sid : Visible(s) /\ Visible(t) /\ order[i] = names[s] /\ order[j] = names[t]
      => Index(s) < Index(t)
(* The order on its way, from the page to the server.                       *)
OrderInv ==
  InSave /\ sent.clean =>
    /\ ShownInOrder /\ MixedTold
    /\ phase = "tasks" => AddedInOrder
    /\ phase = "order" /\ ~sent.mixed => ListedInOrder
    /\ phase = "ordered" /\ ~sent.mixed => StoredInOrder
-----------------------------------------------------------------------------
(* The parts that hold of the store and of the batch, and the property.     *)
StoreInv == RemovesInv /\ KeyInv /\ PlainInv
BatchTells == TasksTell /\ NamesTell /\ DeliveredInv /\ OrderInv
SInv == StoreInv /\ BatchTells /\ SavedIsShown

(* Nothing is said of a batch that is over, refused or that edits came     *)
(* into.                                                                   *)
LEMMA Quiet ==
  ASSUME \/ phase' \notin {"tasks", "order", "ordered"} \/ late' \/ refused'
  PROVE  BatchTells'
<1>1. ~InSave'
  BY DEF InSave
<1>. QED  BY <1>1 DEF BatchTells, TasksTell, NamesTell, DeliveredInv, OrderInv

LEMMA QuietSaved ==
  ASSUME phase' # "load" \/ late' \/ ~rendered'
  PROVE  SavedIsShown'
<1>1. ~Undisturbed'
  BY DEF Undisturbed
<1>. QED  BY <1>1 DEF SavedIsShown, SaveDelivers, RetryKeepsSections, OrderDelivered

LEMMA OrderInSid == IInv => \A i \in 1..Len(order) : order[i] \in Sid
BY DEF IInv, ServerInv, Remote, Sid

(* An edit leaves the numbers of the loaded sections, and what is stored.   *)
LEMMA StoreKept ==
  ASSUME IInv, StoreInv, NEW vs, NEW cs, values' = vs, creates' = cs,
         UNCHANGED <<order, tasks, phase, present, drift>>,
         removed \subseteq removed',
         \A s \in Sid : /\ vs[s] = Nil <=> values[s] = Nil
                        /\ values[s] # Nil => vs[s].key = values[s].key,
         Settled /\ ~reorder' => ~reorder /\ \A s \in Sid :
           /\ values[s] # Nil => vs[s].index = values[s].index
           /\ cs[s] # Nil => \/ /\ creates[s] # Nil
                                /\ cs[s].index = creates[s].index /\ cs[s].born = creates[s].born
                             \/ cs[s].index = FirstNewIndex + cs[s].born
  PROVE  StoreInv'
<1>1. RemovesInv'
  BY DEF StoreInv, RemovesInv
<1>2. KeyInv'
  BY OrderInSid DEF StoreInv, KeyInv
<1>3. PlainInv'
  <2>1. Settled' <=> Settled
    BY DEF Settled
  <2>. QED  BY <2>1 DEF StoreInv, PlainInv
<1>. QED  BY <1>1, <1>2, <1>3 DEF StoreInv

(* Nothing is claimed of a save that an edit came into.                     *)
LEMMA EditCalm ==
  ASSUME IInv, Edit
  PROVE  /\ BatchTells' /\ SavedIsShown'
         /\ UNCHANGED <<order, tasks, phase, present, drift>>
<1>1. /\ rendered /\ late' = (late \/ phase # "idle")
      /\ UNCHANGED <<order, tasks, phase, present, drift, rendered>>
  BY DEF Edit, server, calls
<1>2. phase' \notin {"tasks", "order", "ordered"} \/ late'
  BY <1>1
<1>3. phase' # "load" \/ late'
  BY <1>1
<1>. QED  BY <1>1, <1>2, <1>3, Quiet, QuietSaved

LEMMA SetSaves ==
  ASSUME IInv, SInv, NEW s \in Sid, NEW o \in Opt, NEW v \in Val \cup {Empty, Nil}, Set(s, o, v)
  PROVE  SInv'
<1>1. Edit /\ UNCHANGED <<values, removed, reorder>>
  BY DEF Set, SetCreated, SetLoaded, UnsetLoaded
<1>2. PICK vs, cs : vs = values' /\ cs = creates'
  OBVIOUS
<1>3. \A t \in Sid : cs[t] # Nil => /\ creates[t] # Nil
                                    /\ cs[t].index = creates[t].index /\ cs[t].born = creates[t].born
  <2>1. CASE SetCreated(s, o, v)
    <3>1. PICK c : c = [creates[s] EXCEPT !.opts[o] = v]
      OBVIOUS
    <3>2. creates[s] # Nil /\ cs = [creates EXCEPT ![s] = c]
      BY <1>2, <2>1, <3>1 DEF SetCreated
    <3>3. creates[s] \in CreatedSection
      BY <3>2, Typed DEF IInv
    <3>4. c.index = creates[s].index /\ c.born = creates[s].born
      BY <3>1, <3>3 DEF CreatedSection
    <3>5. \A t \in Sid : cs[t] = IF t = s THEN c ELSE creates[t]
      BY <3>2 DEF IInv, TypeOK
    <3>. QED  BY <3>2, <3>4, <3>5
  <2>2. CASE creates' = creates
    BY <1>2, <2>2
  <2>. QED  BY <2>1, <2>2 DEF Set, SetLoaded, UnsetLoaded
<1>. QED  BY <1>1, <1>2, <1>3, EditCalm, StoreKept DEF SInv

LEMMA AddSaves ==
  ASSUME IInv, SInv, NEW s \in Sid, NEW named \in BOOLEAN, Add(s, named)
  PROVE  SInv'
<1>1. PICK c : c = [name |-> s, named |-> named, index |-> NextIndex,
                    born |-> newidx, opts |-> NoOptions]
  OBVIOUS
<1>2. /\ Edit /\ UNCHANGED <<values, removed, reorder>>
      /\ creates' = [creates EXCEPT ![s] = c]
  BY <1>1 DEF Add
<1>3. PICK vs, cs : vs = values' /\ cs = creates'
  OBVIOUS
<1>4. \A t \in Sid : cs[t] = IF t = s THEN c ELSE creates[t]
  BY <1>2, <1>3 DEF IInv, TypeOK
<1>5. c.index = FirstNewIndex + c.born
  BY <1>1 DEF NextIndex
<1>6. \A t \in Sid : cs[t] # Nil =>
        \/ creates[t] # Nil /\ cs[t].index = creates[t].index /\ cs[t].born = creates[t].born
        \/ cs[t].index = FirstNewIndex + cs[t].born
  BY <1>4, <1>5
<1>. QED  BY <1>2, <1>3, <1>6, EditCalm, StoreKept DEF SInv

LEMMA RemoveSaves ==
  ASSUME IInv, SInv, NEW s \in Sid, RemoveCreated(s) \/ RemoveLoaded(s)
  PROVE  SInv'
<1>1. /\ Edit /\ UNCHANGED <<values, reorder>> /\ removed \subseteq removed'
  BY DEF RemoveCreated, RemoveLoaded
<1>2. PICK vs, cs : vs = values' /\ cs = creates'
  OBVIOUS
<1>3. \A t \in Sid : cs[t] # Nil => cs[t] = creates[t]
  BY <1>2 DEF IInv, TypeOK, RemoveCreated, RemoveLoaded
<1>. QED  BY <1>1, <1>2, <1>3, EditCalm, StoreKept DEF SInv

LEMMA MoveSaves ==
  ASSUME IInv, SInv, NEW s1, NEW s2, NEW after \in BOOLEAN, Move(s1, s2, after)
  PROVE  SInv'
<1>1. PICK seen \in SUBSET Sid, index \in [Sid -> Nat] :
        /\ \A s \in seen : Visible(s)
        /\ values' = [s \in Sid |->
             IF s \in seen /\ creates[s] = Nil
             THEN [Fold(s) EXCEPT !.index = index[s]] ELSE values[s]]
        /\ Settled => reorder'
  BY MoveSeen
<1>2. Edit /\ removed' = removed
  BY DEF Move
<1>3. ASSUME NEW s \in Sid
      PROVE  /\ values'[s] = Nil <=> values[s] = Nil
             /\ values[s] # Nil => values'[s].key = values[s].key
  <2>1. CASE creates[s] = Nil /\ s \in seen
    <3>1. values[s] # Nil
      BY <1>1, <2>1 DEF Visible
    <3>2. Fold(s) \in LoadedSection /\ Fold(s).key = values[s].key
      BY <3>1, Folded DEF IInv
    <3>3. values'[s] = [Fold(s) EXCEPT !.index = index[s]] /\ index[s] \in Nat
      BY <1>1, <2>1
    <3>4. values'[s] \in LoadedSection /\ values'[s].key = Fold(s).key
      BY <3>2, <3>3 DEF LoadedSection
    <3>. QED  BY <3>1, <3>2, <3>4, NilAssumption
  <2>2. CASE ~(creates[s] = Nil /\ s \in seen)
    BY <1>1, <2>2
  <2>. QED  BY <2>1, <2>2
<1>4. PICK vs, cs : vs = values' /\ cs = creates'
  OBVIOUS
<1>. QED  BY <1>1, <1>2, <1>3, <1>4, EditCalm, StoreKept DEF SInv
-----------------------------------------------------------------------------
(* Steps that no batch outlives                                            *)

LEMMA LoseRepliesSaves ==
  ASSUME IInv, SInv, LoseReplies
  PROVE  SInv'
<1>1. /\ refused' /\ phase' = "tasks"
      /\ UNCHANGED <<values, creates, removed, reorder, order, tasks, phase, present, drift>>
  BY DEF LoseReplies, Answered, client, server, history
<1>2. PICK vs, cs : vs = values' /\ cs = creates'
  OBVIOUS
<1>. QED  BY <1>1, <1>2, Quiet, QuietSaved, StoreKept DEF SInv

LEMMA RefuseTaskSaves ==
  ASSUME IInv, SInv, RefuseTask
  PROVE  SInv'
<1>1. /\ refused' /\ phase' = "tasks"
      /\ UNCHANGED <<values, creates, removed, reorder, order, tasks, phase, present, drift>>
  BY DEF RefuseTask, Serving, client, server, history
<1>2. PICK vs, cs : vs = values' /\ cs = creates'
  OBVIOUS
<1>. QED  BY <1>1, <1>2, Quiet, QuietSaved, StoreKept DEF SInv

LEMMA SaveFailsSaves ==
  ASSUME IInv, SInv, SaveFails
  PROVE  SInv'
<1>1. /\ phase' = "idle" /\ drift' = TRUE
      /\ UNCHANGED <<values, removed, order>>
  BY DEF SaveFails, client, server
<1>2. RemovesInv'
  BY <1>1 DEF SInv, StoreInv, RemovesInv
<1>3. KeyInv'
  BY <1>1 DEF SInv, StoreInv, KeyInv
<1>4. PlainInv'
  BY <1>1 DEF PlainInv, Settled
<1>. QED  BY <1>1, <1>2, <1>3, <1>4, Quiet, QuietSaved DEF SInv, StoreInv

LEMMA LoadSaves ==
  ASSUME IInv, SInv, Load
  PROVE  SInv'
<1>1. /\ ~present /\ ~jammed /\ phase = "idle" /\ phase' = "load"
      /\ UNCHANGED <<values, present, removed, order, rendered>>
  BY DEF Load, client, server
<1>2. ~rendered'
  BY <1>1 DEF IInv, PageInv
<1>3. RemovesInv'
  BY <1>1 DEF SInv, StoreInv, RemovesInv
<1>4. KeyInv'
  BY <1>1 DEF SInv, StoreInv, KeyInv
<1>5. PlainInv'
  BY <1>1 DEF PlainInv, Settled
<1>. QED  BY <1>1, <1>2, <1>3, <1>4, <1>5, Quiet, QuietSaved DEF SInv, StoreInv

LEMMA ServeLoadSaves ==
  ASSUME IInv, SInv, ServeLoad
  PROVE  SInv'
<1>1. /\ phase = "load" /\ phase' = "loaded"
      /\ UNCHANGED <<values, present, removed, order>>
  BY DEF ServeLoad, client, server
<1>2. ~present'
  BY <1>1 DEF IInv, LoadedInv
<1>3. RemovesInv'
  BY <1>1 DEF SInv, StoreInv, RemovesInv
<1>4. KeyInv'
  BY <1>1 DEF SInv, StoreInv, KeyInv
<1>5. PlainInv'
  BY <1>2 DEF PlainInv, Settled
<1>. QED  BY <1>1, <1>3, <1>4, <1>5, Quiet, QuietSaved DEF SInv, StoreInv

LEMMA PackageLostSaves ==
  ASSUME IInv, SInv, PackageLost
  PROVE  SInv'
<1>1. /\ phase = "load" /\ phase' = "idle"
      /\ UNCHANGED <<values, present, removed, order>>
  BY DEF PackageLost, server
<1>2. ~present'
  BY <1>1 DEF IInv, LoadedInv
<1>3. RemovesInv'
  BY <1>1 DEF SInv, StoreInv, RemovesInv
<1>4. KeyInv'
  BY <1>1, <1>2 DEF SInv, StoreInv, KeyInv
<1>5. PlainInv'
  BY <1>2 DEF PlainInv, Settled
<1>. QED  BY <1>1, <1>3, <1>4, <1>5, Quiet, QuietSaved DEF SInv, StoreInv

LEMMA PackageArrivesSaves ==
  ASSUME IInv, SInv, PackageArrives
  PROVE  SInv'
<1>1. /\ phase = "loaded" /\ phase' = "idle" /\ present' = TRUE
      /\ values' = [s \in Sid |->
           IF s \in ToSet(snap.order)
           THEN LET place == Place(snap.order, s) - 1
                IN [index |-> place, key |-> place, opts |-> snap.options[s]]
           ELSE Nil]
      /\ UNCHANGED <<creates, removed, order>>
  BY DEF PackageArrives, server
<1>2. /\ snap.order = order /\ order \in Seq(Remote) /\ Distinct(order)
      /\ \A s \in Sid : creates[s] # Nil => creates[s].index = FirstNewIndex + creates[s].born
  BY <1>1 DEF IInv, ServerInv, WaitingInv
<1>3. ASSUME NEW s \in Sid, values'[s] # Nil
      PROVE  /\ s \in ToSet(order) /\ values'[s].index = values'[s].key
             /\ values'[s].key < FirstNewIndex
  <2>1. s \in ToSet(order)
    BY <1>1, <1>2, <1>3
  <2>2. Place(order, s) \in 1..Len(order) /\ Len(order) <= FirstNewIndex
    BY <1>2, <2>1, PlaceFinds, PlacesBounded
  <2>3. Place(order, s) - 1 < FirstNewIndex
    BY <1>2, <2>2, IndexAssumption
  <2>4. values'[s] = [index |-> Place(order, s) - 1, key |-> Place(order, s) - 1,
                      opts |-> snap.options[s]]
    BY <1>1, <1>2, <2>1
  <2>. QED  BY <2>1, <2>3, <2>4
<1>4. ASSUME NEW i \in 1..Len(order)
      PROVE  values'[order[i]] # Nil /\ values'[order[i]].key = i - 1
  <2>1. order[i] \in ToSet(order) /\ order[i] \in Sid
    BY <1>2, OrderInSid DEF ToSet
  <2>2. Place(order, order[i]) \in 1..Len(order) /\ order[Place(order, order[i])] = order[i]
    BY <1>2, <2>1, PlaceFinds
  <2>3. Place(order, order[i]) = i
    BY <1>2, <2>2 DEF Distinct
  <2>4. values'[order[i]] = [index |-> i - 1, key |-> i - 1, opts |-> snap.options[order[i]]]
    BY <1>1, <1>2, <2>1, <2>3
  <2>5. values'[order[i]] # Nil
    <3>1. values' \in [Sid -> LoadedSection \cup {Nil}]
      BY PackageArrivesKeeps DEF IInv, TypeOK
    <3>2. snap.options[order[i]] \in OptionsOf(Val)
      BY <1>1, <2>1 DEF IInv, ServerInv, TypeOK
    <3>3. i - 1 \in Nat
      BY <1>2
    <3>4. values'[order[i]] \in LoadedSection
      BY <2>4, <3>2, <3>3 DEF LoadedSection
    <3>. QED  BY <3>4, NilAssumption
  <2>. QED  BY <2>4, <2>5
<1>5. RemovesInv'
  BY <1>1, <1>3 DEF RemovesInv
<1>6. KeyInv'
  BY <1>1, <1>3, <1>4 DEF KeyInv
<1>7. PlainInv'
  BY <1>1, <1>2, <1>3 DEF PlainInv
<1>. QED  BY <1>1, <1>5, <1>6, <1>7, Quiet, QuietSaved DEF SInv, StoreInv

LEMMA InitSaves == Init => SInv
<1>. SUFFICES ASSUME Init PROVE SInv
  OBVIOUS
<1>1. /\ phase = "idle" /\ ~present /\ \A s \in Sid : values[s] = Nil
  BY DEF Init
<1>2. StoreInv
  BY <1>1 DEF StoreInv, RemovesInv, KeyInv, PlainInv, Settled
<1>3. BatchTells
  BY <1>1 DEF BatchTells, TasksTell, NamesTell, DeliveredInv, OrderInv, InSave
<1>4. SavedIsShown
  BY <1>1 DEF SavedIsShown, SaveDelivers, RetryKeepsSections, OrderDelivered, Undisturbed
<1>. QED  BY <1>2, <1>3, <1>4 DEF SInv
-----------------------------------------------------------------------------
(* Steps that the batch outlives                                           *)

(* What is said of a batch that the client's state does not change under.  *)
LEMMA SameBatch ==
  ASSUME UNCHANGED <<removed, deletes, creates, changes, phase, tasks, replies, refused, late>>
  PROVE  /\ InSave' <=> InSave
         /\ \A op, s : (DoneOp(op, s)' <=> DoneOp(op, s)) /\ (Has(op, s)' <=> Has(op, s))
         /\ \A s : Added(s)' <=> Added(s)
         /\ (Deletes' <=> Deletes) /\ (Adds' <=> Adds)
         /\ TasksTell => TasksTell'
<1>1. /\ InSave' <=> InSave
      /\ \A op, s : (DoneOp(op, s)' <=> DoneOp(op, s)) /\ (Has(op, s)' <=> Has(op, s))
      /\ \A s : Added(s)' <=> Added(s)
      /\ (Deletes' <=> Deletes) /\ (Adds' <=> Adds)
  BY DEF InSave, DoneOp, Has, Added, Deletes, Adds
<1>2. TasksTell => TasksTell'
  BY <1>1 DEF TasksTell, TaskTold, NoOptions, Stage
<1>. QED  BY <1>1, <1>2

LEMMA GetSectionSaves ==
  ASSUME IInv, SInv, NEW r \in Sid, GetSection(r)
  PROVE  SInv'
<1>1. /\ r \notin removed /\ creates[r] = Nil /\ values[r] # Nil
      /\ values' = [values EXCEPT ![r] = Fold(r)]
      /\ UNCHANGED <<present, creates, changes, removed, deletes, reorder, order, options,
                     phase, tasks, replies, refused, listed, rendered, sent, names, late, drift>>
  BY DEF GetSection, Unfolded, server, calls
<1>2. TypeOK /\ PendingConsistent
  BY DEF IInv
<1>3. /\ Fold(r) \in LoadedSection /\ Fold(r) # Nil
      /\ Fold(r).index = values[r].index /\ Fold(r).key = values[r].key
      /\ \A o \in Opt : o \notin deletes[r] /\ changes[r][o] = Nil =>
           Fold(r).opts[o] = values[r].opts[o]
  BY <1>1, <1>2, Folded
<1>4. \A s \in Sid :
        /\ values'[s] = Nil <=> values[s] = Nil
        /\ values[s] # Nil => /\ values'[s].index = values[s].index
                              /\ values'[s].key = values[s].key
        /\ \A o \in Opt : values[s] # Nil /\ o \notin deletes[s] /\ changes[s][o] = Nil =>
             values'[s].opts[o] = values[s].opts[o]
  BY <1>1, <1>2, <1>3 DEF TypeOK
<1>5. PICK vs, cs : vs = values' /\ cs = creates'
  OBVIOUS
<1>6. StoreInv'
  BY <1>1, <1>4, <1>5, StoreKept DEF SInv
<1>7. /\ InSave' <=> InSave
      /\ \A op, s : (DoneOp(op, s)' <=> DoneOp(op, s)) /\ (Has(op, s)' <=> Has(op, s))
      /\ \A s : Added(s)' <=> Added(s)
      /\ (Deletes' <=> Deletes) /\ (Adds' <=> Adds)
      /\ TasksTell'
  BY <1>1, SameBatch DEF SInv, BatchTells
<1>8. \A s \in Sid : /\ Here(s)' <=> Here(s)
                     /\ Visible(s)' <=> Visible(s)
                     /\ Visible(s) => Index(s)' = Index(s)
  BY <1>1, <1>4, <1>7 DEF Here, Visible, Index
<1>9. NamesTell'
  <2>1. Table' = Table
    BY GetSectionRefines
  <2>. QED  BY <1>1, <1>7, <2>1 DEF SInv, BatchTells, NamesTell
<1>10. DeliveredInv'
  <2>1. SUFFICES ASSUME InSave', sent.clean PROVE DeliveredInv'
    BY <1>1 DEF DeliveredInv
  <2>2. InSave /\ DeliveredInv /\ NamesTell
    BY <1>7, <2>1 DEF SInv, BatchTells
  <2>3. \A s \in Sid : Added(s) => names[s] \in Sid
    BY <2>2 DEF NamesTell
  <2>4. /\ present /\ ~drift
        /\ \A x \in Sid : x \in ToSet(order) <=> Here(x) \/ \E s \in Sid : Added(s) /\ names[s] = x
        /\ \A s, t \in Sid : Added(s) /\ Added(t) /\ names[s] = names[t] => s = t
        /\ \A s \in Sid : Added(s) => ~Here(names[s]) /\ options[names[s]] = Expected(s)
        /\ \A s \in Sid : values[s] # Nil /\ s \notin removed => \A o \in Opt :
             /\ o \in deletes[s] /\ DoneOp("unset", s) => options[s][o] = Nil
             /\ changes[s][o] # Nil /\ DoneOp("set", s) => options[s][o] = changes[s][o]
             /\ o \notin deletes[s] /\ changes[s][o] = Nil => options[s][o] = values[s].opts[o]
    BY <2>1, <2>2 DEF DeliveredInv
  <2>5. \A s \in Sid : Expected(s)' = Expected(s)
    BY <1>1 DEF Expected
  <2>6. \A x \in Sid : x \in ToSet(order) <=> Here(x)' \/ \E s \in Sid : Added(s)' /\ names[s] = x
    BY <1>7, <1>8, <2>4
  <2>7. \A s \in Sid : Added(s)' => ~Here(names[s])' /\ options[names[s]] = Expected(s)'
    BY <1>1, <1>7, <1>8, <2>3, <2>4, <2>5
  <2>8. \A s, t \in Sid : Added(s)' /\ Added(t)' /\ names[s] = names[t] => s = t
    BY <1>7, <2>4
  <2>9. \A s \in Sid : values'[s] # Nil /\ s \notin removed => \A o \in Opt :
             /\ o \in deletes[s] /\ DoneOp("unset", s)' => options[s][o] = Nil
             /\ changes[s][o] # Nil /\ DoneOp("set", s)' => options[s][o] = changes[s][o]
             /\ o \notin deletes[s] /\ changes[s][o] = Nil => options[s][o] = values'[s].opts[o]
    BY <1>4, <1>7, <2>4
  <2>. QED  BY <1>1, <2>4, <2>6, <2>7, <2>8, <2>9 DEF DeliveredInv, Here, Expected
<1>11. OrderInv'
  <2>1. SUFFICES ASSUME InSave', sent.clean PROVE OrderInv'
    BY <1>1 DEF OrderInv
  <2>2. OrderInv /\ InSave /\ sent.clean
    BY <1>7, <2>1 DEF SInv, BatchTells
  <2>3. MixedTold'
    BY <1>1, <1>7, <2>1, <2>2 DEF OrderInv, MixedTold
  <2>8. ShownInOrder'
    <3>1. ShownInOrder
      BY <2>1, <2>2 DEF OrderInv
    <3>2. \A i \in 1..Len(sent.order) : sent.order[i] \in Sid /\ Visible(sent.order[i])
      BY <3>1 DEF ShownInOrder, ToSet
    <3>3. \A i, j \in 1..Len(sent.order) : i < j =>
            Index(sent.order[i])' < Index(sent.order[j])'
      BY <1>1, <1>8, <3>1, <3>2 DEF ShownInOrder
    <3>. QED  BY <1>1, <1>8, <3>1, <3>3 DEF ShownInOrder
  <2>4. \A i \in 1..Len(order) : order[i] \in Sid
    BY OrderInSid
  <2>5. phase = "tasks" => AddedInOrder'
    BY <1>1, <1>4, <1>7, <1>8, <2>1, <2>2, <2>4 DEF OrderInv, AddedInOrder, Here
  <2>6. phase = "order" /\ ~sent.mixed => ListedInOrder'
    BY <1>1, <1>8, <2>1, <2>2 DEF OrderInv, ListedInOrder
  <2>7. phase = "ordered" /\ ~sent.mixed => StoredInOrder'
    BY <1>1, <1>8, <2>1, <2>2 DEF OrderInv, StoredInOrder
  <2>. QED  BY <1>1, <2>3, <2>5, <2>6, <2>7, <2>8 DEF OrderInv
<1>12. SavedIsShown'
  BY <1>1 DEF SInv, SavedIsShown, SaveDelivers, RetryKeepsSections, OrderDelivered,
              Undisturbed, Shown, Expected, Renamed
<1>. QED  BY <1>6, <1>7, <1>9, <1>10, <1>11, <1>12 DEF SInv, BatchTells

LEMMA StutterSaves ==
  ASSUME IInv, SInv, UNCHANGED vars
  PROVE  SInv'
<1>1. /\ UNCHANGED <<removed, deletes, creates, changes, phase, tasks, replies, refused, late>>
      /\ UNCHANGED <<values, present, reorder, order, options, listed, rendered, sent, names, drift>>
  BY DEF vars, client, server, calls, history
<1>2. StoreInv'
  BY <1>1 DEF SInv, StoreInv, RemovesInv, KeyInv, PlainInv, Settled
<1>3. /\ InSave' <=> InSave
      /\ \A op, s : (DoneOp(op, s)' <=> DoneOp(op, s)) /\ (Has(op, s)' <=> Has(op, s))
      /\ \A s : Added(s)' <=> Added(s)
      /\ (Deletes' <=> Deletes) /\ (Adds' <=> Adds)
      /\ TasksTell'
  BY <1>1, SameBatch DEF SInv, BatchTells
<1>4. NamesTell'
  BY <1>1, <1>3, SameTable DEF SInv, BatchTells, NamesTell
<1>5. DeliveredInv'
  BY <1>1, <1>3 DEF SInv, BatchTells, DeliveredInv, Here, Expected
<1>6. OrderInv'
  BY <1>1, <1>3 DEF SInv, BatchTells, OrderInv, Here, Visible, Index,
        ShownInOrder, MixedTold, AddedInOrder, ListedInOrder, StoredInOrder
<1>7. SavedIsShown'
  BY <1>1 DEF SInv, SavedIsShown, SaveDelivers, RetryKeepsSections, OrderDelivered,
              Undisturbed, Shown, Expected, Renamed
<1>. QED  BY <1>2, <1>3, <1>4, <1>5, <1>6, <1>7 DEF SInv, BatchTells
-----------------------------------------------------------------------------
(* The batch                                                               *)

(* The calls of a batch: for what is pending, each once, deletions first.   *)
LEMMA BatchListed ==
  ASSUME TypeOK, LoadedInv, CreatedInv, PendingConsistent, NEW B, B = Batch
  PROVE  /\ B \in Seq(Task)
         /\ \A i \in 1..Len(B) : TaskTold(B[i])
         /\ \A s \in Sid :
              /\ s \in removed => \E i \in 1..Len(B) : B[i].op = "remove" /\ B[i].sid = s
              /\ deletes[s] # {} => \E i \in 1..Len(B) : B[i].op = "unset" /\ B[i].sid = s
              /\ creates[s] # Nil => \E i \in 1..Len(B) : B[i].op = "add" /\ B[i].sid = s
              /\ changes[s] # NoOptions => \E i \in 1..Len(B) : B[i].op = "set" /\ B[i].sid = s
         /\ \A i, j \in 1..Len(B) : B[i].op = B[j].op /\ B[i].sid = B[j].sid => i = j
         /\ \A i, j \in 1..Len(B) : i < j =>
              /\ Stage(B[i]) <= Stage(B[j])
              /\ B[i].op = "add" /\ B[j].op = "add" => B[i].born < B[j].born
         /\ \A i \in 1..Len(B) : /\ B[i].op \in {"remove", "unset"} => Deletions # << >>
                                 /\ B[i].op = "add" => Additions # << >>
<1>1. PICK D, A, C : D = Deletions /\ A = Additions /\ C = Changed
  OBVIOUS
<1>2. /\ D \in Seq(Task) /\ C \in Seq(Task)
      /\ D \in Seq(Removals \cup Unsets) /\ Distinct(D)
      /\ \A t \in Removals \cup Unsets : \E i \in 1..Len(D) : D[i] = t
      /\ C \in Seq(Settings) /\ Distinct(C)
      /\ \A t \in Settings : \E i \in 1..Len(C) : C[i] = t
  BY <1>1, DeletionsListed
<1>3. /\ A \in Seq(Task)
      /\ \A i \in 1..Len(A) :
           /\ A[i].op = "add" /\ creates[A[i].sid] # Nil
           /\ A[i].named = creates[A[i].sid].named /\ A[i].opts = creates[A[i].sid].opts
           /\ A[i].born = creates[A[i].sid].born
      /\ \A s \in Sid : creates[s] # Nil => \E i \in 1..Len(A) : A[i].sid = s
      /\ \A i, j \in 1..Len(A) : i < j => A[i].born < A[j].born
  BY <1>1, AdditionsListed
<1>4. PICK d \in Nat, a \in Nat, c \in Nat : d = Len(D) /\ a = Len(A) /\ c = Len(C)
  BY <1>2, <1>3
<1>5. B = D \o A \o C
  BY <1>1 DEF Batch
<1>6. /\ B \in Seq(Task) /\ Len(B) = d + a + c
      /\ \A i \in 1..d : B[i] = D[i]
      /\ \A i \in 1..a : B[d + i] = A[i]
      /\ \A i \in 1..c : B[d + a + i] = C[i]
  BY <1>2, <1>3, <1>4, <1>5
<1>7. ASSUME NEW i \in 1..Len(B)
      PROVE  \/ i \in 1..d /\ B[i] = D[i] /\ B[i] \in Removals \cup Unsets
             \/ d < i /\ i <= d + a /\ i - d \in 1..a /\ B[i] = A[i - d]
             \/ d + a < i /\ i - (d + a) \in 1..c /\ B[i] = C[i - (d + a)] /\ B[i] \in Settings
  <2>1. CASE i <= d
    BY <1>2, <1>4, <1>6, <2>1
  <2>2. CASE d < i /\ i <= d + a
    <3>1. i - d \in 1..a /\ i = d + (i - d)
      BY <2>2
    <3>. QED  BY <1>6, <2>2, <3>1
  <2>3. CASE d + a < i
    <3>1. i - (d + a) \in 1..c /\ i = d + a + (i - (d + a))
      BY <1>6, <2>3
    <3>. QED  BY <1>2, <1>4, <1>6, <2>3, <3>1
  <2>. QED  BY <2>1, <2>2, <2>3
<1>8. \A t \in Removals \cup Unsets :
        /\ t.op \in {"remove", "unset"} /\ t.sid \in Sid
        /\ t.op = "remove" => t.sid \in removed /\ t = [op |-> "remove", sid |-> t.sid]
        /\ t.op = "unset" => /\ deletes[t.sid] # {} /\ t.opts = deletes[t.sid]
                             /\ t = [op |-> "unset", sid |-> t.sid, opts |-> deletes[t.sid]]
  BY DEF Removals, Unsets, TypeOK
<1>9. \A t \in Settings :
        /\ t.op = "set" /\ t.sid \in Sid /\ changes[t.sid] # NoOptions
        /\ t.opts = changes[t.sid]
        /\ t = [op |-> "set", sid |-> t.sid, opts |-> changes[t.sid]]
  BY DEF Settings
<1>10. ASSUME NEW i \in 1..Len(B) PROVE TaskTold(B[i])
  <2>1. CASE B[i] \in Removals \cup Unsets
    BY <1>8, <2>1 DEF TaskTold
  <2>2. CASE i - d \in 1..a /\ B[i] = A[i - d]
    BY <1>3, <1>4, <2>2 DEF TaskTold
  <2>3. CASE B[i] \in Settings
    BY <1>9, <2>3 DEF TaskTold
  <2>. QED  BY <1>7, <2>1, <2>2, <2>3
<1>11. ASSUME NEW s \in Sid
       PROVE  /\ s \in removed => \E i \in 1..Len(B) : B[i].op = "remove" /\ B[i].sid = s
              /\ deletes[s] # {} => \E i \in 1..Len(B) : B[i].op = "unset" /\ B[i].sid = s
              /\ creates[s] # Nil => \E i \in 1..Len(B) : B[i].op = "add" /\ B[i].sid = s
              /\ changes[s] # NoOptions => \E i \in 1..Len(B) : B[i].op = "set" /\ B[i].sid = s
  <2>1. ASSUME s \in removed PROVE \E i \in 1..Len(B) : B[i].op = "remove" /\ B[i].sid = s
    <3>1. [op |-> "remove", sid |-> s] \in Removals
      BY <2>1 DEF Removals
    <3>2. PICK i \in 1..Len(D) : D[i] = [op |-> "remove", sid |-> s]
      BY <1>2, <3>1
    <3>. QED  BY <1>4, <1>6, <3>2
  <2>2. ASSUME deletes[s] # {} PROVE \E i \in 1..Len(B) : B[i].op = "unset" /\ B[i].sid = s
    <3>1. [op |-> "unset", sid |-> s, opts |-> deletes[s]] \in Unsets
      BY <2>2 DEF Unsets
    <3>2. PICK i \in 1..Len(D) : D[i] = [op |-> "unset", sid |-> s, opts |-> deletes[s]]
      BY <1>2, <3>1
    <3>. QED  BY <1>4, <1>6, <3>2
  <2>3. ASSUME creates[s] # Nil PROVE \E i \in 1..Len(B) : B[i].op = "add" /\ B[i].sid = s
    <3>1. PICK i \in 1..a : A[i].sid = s /\ A[i].op = "add"
      BY <1>3, <1>4, <2>3
    <3>2. d + i \in 1..Len(B) /\ B[d + i] = A[i]
      BY <1>6
    <3>. QED  BY <3>1, <3>2
  <2>4. ASSUME changes[s] # NoOptions PROVE \E i \in 1..Len(B) : B[i].op = "set" /\ B[i].sid = s
    <3>1. [op |-> "set", sid |-> s, opts |-> changes[s]] \in Settings
      BY <2>4 DEF Settings
    <3>2. PICK i \in 1..c : C[i] = [op |-> "set", sid |-> s, opts |-> changes[s]]
      BY <1>2, <1>4, <3>1
    <3>3. d + a + i \in 1..Len(B) /\ B[d + a + i] = C[i]
      BY <1>6
    <3>. QED  BY <3>2, <3>3
  <2>. QED  BY <2>1, <2>2, <2>3, <2>4
<1>12. ASSUME NEW i \in 1..Len(B), NEW j \in 1..Len(B), i < j
       PROVE  /\ Stage(B[i]) <= Stage(B[j])
              /\ B[i].op = "add" /\ B[j].op = "add" => B[i].born < B[j].born
              /\ ~ (B[i].op = B[j].op /\ B[i].sid = B[j].sid)
  <2>1. ASSUME NEW k \in 1..Len(B)
        PROVE  /\ k <= d => B[k].op \in {"remove", "unset"} /\ Stage(B[k]) = 1
               /\ d < k /\ k <= d + a => B[k].op = "add" /\ Stage(B[k]) = 2
               /\ d + a < k => B[k].op = "set" /\ Stage(B[k]) = 3
    <3>1. k <= d => B[k].op \in {"remove", "unset"}
      BY <1>7, <1>8
    <3>2. d < k /\ k <= d + a => B[k].op = "add"
      <4>1. ASSUME d < k, k <= d + a PROVE k - d \in 1..a /\ B[k] = A[k - d]
        <5>1. \/ k \in 1..d
              \/ k - d \in 1..a /\ B[k] = A[k - d]
              \/ d + a < k
          BY <1>7
        <5>. QED  BY <1>4, <4>1, <5>1
      <4>2. \A x \in 1..a : A[x].op = "add"
        BY <1>3, <1>4
      <4>. QED  BY <4>1, <4>2
    <3>3. d + a < k => B[k].op = "set"
      BY <1>7, <1>9
    <3>. QED  BY <3>1, <3>2, <3>3 DEF Stage
  <2>2. Stage(B[i]) <= Stage(B[j])
    <3>1. CASE i <= d
      BY <1>12, <2>1, <3>1
    <3>2. CASE d < i /\ i <= d + a
      BY <1>12, <2>1, <3>2
    <3>3. CASE d + a < i
      BY <1>12, <2>1, <3>3
    <3>. QED  BY <3>1, <3>2, <3>3
  <2>3. ASSUME B[i].op = "add", B[j].op = "add"
        PROVE  B[i].born < B[j].born /\ B[i].sid # B[j].sid
    <3>1. d < i /\ i <= d + a /\ d < j /\ j <= d + a
      BY <2>1, <2>3
    <3>2. i - d \in 1..a /\ B[i] = A[i - d] /\ j - d \in 1..a /\ B[j] = A[j - d] /\ i - d < j - d
      BY <1>7, <1>12, <3>1
    <3>3. /\ B[i].born < B[j].born /\ B[i].born = creates[B[i].sid].born
          /\ B[j].born = creates[B[j].sid].born
          /\ B[i].born \in Nat /\ B[j].born \in Nat
      <4>1. A[i - d].born < A[j - d].born
        BY <1>3, <1>4, <3>2
      <4>2. B[i] \in Task /\ B[j] \in Task
        BY <1>6
      <4>3. B[i].born \in Nat /\ B[j].born \in Nat
        BY <2>3, <4>2 DEF Task
      <4>. QED  BY <1>3, <1>4, <3>2, <4>1, <4>3
    <3>. QED  BY <3>3
  <2>4. ASSUME B[i].op = B[j].op, B[i].sid = B[j].sid, B[i].op \in {"remove", "unset"}
        PROVE  FALSE
    <3>1. i \in 1..d /\ j \in 1..d /\ B[i] = D[i] /\ B[j] = D[j]
          /\ B[i] \in Removals \cup Unsets /\ B[j] \in Removals \cup Unsets
      BY <1>7, <2>1, <2>4
    <3>2. B[i] = B[j]
      BY <1>8, <2>4, <3>1
    <3>3. D[i] = D[j] /\ i \in 1..Len(D) /\ j \in 1..Len(D)
      BY <1>4, <3>1, <3>2
    <3>4. i = j
      BY <1>2, <3>3 DEF Distinct
    <3>. QED  BY <1>6, <1>12, <3>4
  <2>5. ASSUME B[i].op = B[j].op, B[i].sid = B[j].sid, B[i].op = "set"
        PROVE  FALSE
    <3>1. /\ i - (d + a) \in 1..c /\ j - (d + a) \in 1..c
          /\ B[i] = C[i - (d + a)] /\ B[j] = C[j - (d + a)]
          /\ B[i] \in Settings /\ B[j] \in Settings
      <4>1. ASSUME NEW k \in 1..Len(B), B[k].op = "set"
            PROVE  k - (d + a) \in 1..c /\ B[k] = C[k - (d + a)] /\ B[k] \in Settings
        <5>1. ~ (k <= d) /\ ~ (d < k /\ k <= d + a)
          BY <2>1, <4>1
        <5>2. d + a < k
          BY <1>6, <5>1
        <5>. QED  BY <1>7, <5>2
      <4>. QED  BY <2>5, <4>1
    <3>2. B[i] = B[j]
      BY <1>9, <2>5, <3>1
    <3>3. i - (d + a) = j - (d + a)
      BY <1>2, <1>4, <3>1, <3>2 DEF Distinct
    <3>. QED  BY <1>12, <3>3
  <2>6. B[i].op \in {"remove", "unset", "add", "set"}
    BY <2>1
  <2>. QED  BY <2>2, <2>3, <2>4, <2>5, <2>6
<1>13. ASSUME NEW i \in 1..Len(B)
       PROVE  /\ B[i].op \in {"remove", "unset"} => Deletions # << >>
              /\ B[i].op = "add" => Additions # << >>
  <2>1. B[i].op \in {"remove", "unset"} => i \in 1..d
    BY <1>3, <1>4, <1>7, <1>9
  <2>2. B[i].op = "add" => i - d \in 1..a
    BY <1>7, <1>8, <1>9
  <2>. QED  BY <1>1, <1>4, <2>1, <2>2
<1>14. \A i, j \in 1..Len(B) : B[i].op = B[j].op /\ B[i].sid = B[j].sid => i = j
  <2>1. \A i, j \in 1..Len(B) : i = j \/ i < j \/ j < i
    BY <1>6
  <2>. QED  BY <1>12, <2>1
<1>. QED  BY <1>6, <1>10, <1>11, <1>12, <1>13, <1>14

(* The sections a page lists are those it finds, each once.                *)
LEMMA ListedVisible ==
  ASSUME TypeOK, CreatedInv
  PROVE  /\ \A e \in Listed : /\ e.sid \in Sid /\ Visible(e.sid)
                              /\ e.index = Index(e.sid) /\ e.index \in Nat
         /\ \A e, f \in Listed : e.sid = f.sid => e = f
         /\ \A s \in Sid : Visible(s) => \E e \in Listed : e.sid = s
<1>1. ASSUME NEW e \in Listed
      PROVE  /\ e \in Created \cup Loaded /\ e.sid \in Sid /\ e.create \in BOOLEAN
             /\ e.index \in Nat
             /\ e.create => creates[e.sid] # Nil /\ e.index = creates[e.sid].index
             /\ ~e.create => /\ values[e.sid] # Nil /\ e.sid \notin removed
                             /\ e.index = values[e.sid].index /\ creates[e.sid] = Nil
  <2>1. e \in Created \cup Loaded /\ (e \in Created \/ e.sid \notin removed)
    BY DEF Listed
  <2>2. /\ e.sid \in Sid /\ e.create \in BOOLEAN /\ e.index \in Nat
        /\ e.create => creates[e.sid] # Nil /\ e.index = creates[e.sid].index
        /\ ~e.create => values[e.sid] # Nil /\ e.index = values[e.sid].index
    BY <2>1, EntriesTyped
  <2>3. ~e.create => e.sid \notin removed
    BY <2>1 DEF Created
  <2>4. ~e.create => creates[e.sid] = Nil
    BY <2>2, <2>3 DEF CreatedInv
  <2>. QED  BY <2>1, <2>2, <2>3, <2>4
<1>2. \A e \in Listed : /\ e.sid \in Sid /\ Visible(e.sid)
                        /\ e.index = Index(e.sid) /\ e.index \in Nat
  BY <1>1 DEF Visible, Index
<1>3. \A e, f \in Listed : e.sid = f.sid => e = f
  BY <1>1, EntriesSame
<1>4. ASSUME NEW s \in Sid, Visible(s) PROVE \E e \in Listed : e.sid = s
  <2>1. CASE creates[s] # Nil
    <3>1. PICK e : e = [sid |-> s, name |-> creates[s].name, index |-> creates[s].index,
                        key |-> creates[s].born, create |-> TRUE]
      OBVIOUS
    <3>2. e \in Created /\ e.sid = s
      BY <2>1, <3>1 DEF Created
    <3>. QED  BY <3>2 DEF Listed
  <2>2. CASE values[s] # Nil /\ s \notin removed
    <3>1. PICK e : e = [sid |-> s, name |-> s, index |-> values[s].index,
                        key |-> values[s].key, create |-> FALSE]
      OBVIOUS
    <3>2. e \in Loaded /\ e.sid = s
      BY <2>2, <3>1 DEF Loaded
    <3>. QED  BY <2>2, <3>2 DEF Listed
  <2>. QED  BY <1>4, <2>1, <2>2 DEF Visible
<1>. QED  BY <1>2, <1>3, <1>4

(* The page lists its sections by index.                                    *)
LEMMA SectionsShown ==
  ASSUME TypeOK, LoadedInv, CreatedInv, IndexInv, Settled, NEW shown,
         shown = [i \in DOMAIN Sections |-> Sections[i].sid]
  PROVE  /\ shown \in Seq(Sid) /\ Distinct(shown)
         /\ \A s \in Sid : s \in ToSet(shown) <=> Visible(s)
         /\ \A i, j \in 1..Len(shown) : i < j => Index(shown[i]) < Index(shown[j])
<1>0. present
  BY DEF Settled
<1>1. PICK sa : sa = Sections
  OBVIOUS
<1>2. /\ sa \in Seq(Listed) /\ Distinct(sa)
      /\ \A e \in Listed : \E i \in 1..Len(sa) : sa[i] = e
      /\ \A i, j \in 1..Len(sa) : i < j => Before(sa[i], sa[j], FALSE)
  BY <1>0, <1>1, SectionsList
<1>3. PICK E : E = Listed
  OBVIOUS
<1>4. /\ \A e \in E : /\ e.sid \in Sid /\ Visible(e.sid)
                      /\ e.index = Index(e.sid) /\ e.index \in Nat
      /\ \A e, f \in E : e.sid = f.sid => e = f
      /\ \A s \in Sid : Visible(s) => \E e \in E : e.sid = s
  BY <1>3, ListedVisible
<1>5. /\ sa \in Seq(E) /\ shown = [i \in 1..Len(sa) |-> sa[i].sid]
      /\ \A e \in E : \E i \in 1..Len(sa) : sa[i] = e
  BY <1>1, <1>2, <1>3
<1>6. PICK n \in Nat : n = Len(sa) /\ shown = [i \in 1..n |-> sa[i].sid]
  BY <1>2, <1>5
<1>7. ASSUME NEW i \in 1..n
      PROVE  /\ sa[i] \in E /\ shown[i] = sa[i].sid /\ shown[i] \in Sid /\ Visible(shown[i])
             /\ sa[i].index = Index(shown[i]) /\ sa[i].index \in Nat
  <2>1. sa[i] \in E
    BY <1>5, <1>6
  <2>. QED  BY <1>4, <1>6, <2>1
<1>8. shown \in Seq(Sid) /\ Len(shown) = n
  BY <1>6, <1>7
<1>9. Distinct(shown)
  <2>1. ASSUME NEW i \in 1..n, NEW j \in 1..n, shown[i] = shown[j] PROVE i = j
    <3>1. sa[i] = sa[j]
      BY <1>4, <1>7, <2>1
    <3>. QED  BY <1>2, <1>6, <3>1 DEF Distinct
  <2>. QED  BY <1>8, <2>1 DEF Distinct
<1>10. ASSUME NEW s \in Sid PROVE s \in ToSet(shown) <=> Visible(s)
  <2>1. s \in ToSet(shown) => Visible(s)
    BY <1>7, <1>8 DEF ToSet
  <2>2. ASSUME Visible(s) PROVE s \in ToSet(shown)
    <3>1. PICK e \in E : e.sid = s
      BY <1>4, <2>2
    <3>2. PICK i \in 1..n : sa[i] = e
      BY <1>5, <1>6
    <3>. QED  BY <1>7, <1>8, <3>1, <3>2 DEF ToSet
  <2>. QED  BY <2>1, <2>2
<1>11. ASSUME NEW i \in 1..n, NEW j \in 1..n, i < j
       PROVE  Index(shown[i]) < Index(shown[j])
  <2>1. shown[i] # shown[j]
    BY <1>8, <1>9, <1>11 DEF Distinct
  <2>2. Index(shown[i]) # Index(shown[j])
    BY <1>7, <2>1 DEF IndexInv
  <2>3. Before(sa[i], sa[j], FALSE)
    BY <1>2, <1>6, <1>11
  <2>4. sa[i].index <= sa[j].index
    BY <1>7, <2>3 DEF Before
  <2>. QED  BY <1>7, <2>2, <2>4
<1>. QED  BY <1>8, <1>9, <1>10, <1>11

LEMMA SaveSaves ==
  ASSUME IInv, SInv, Save
  PROVE  SInv'
<1>1. /\ phase = "idle" /\ phase' = "tasks" /\ tasks' = Batch /\ replies' = << >>
      /\ refused' = FALSE /\ late' = FALSE /\ names' = [s \in Sid |-> s]
      /\ sent' = [table |-> Table, clean |-> present /\ ~folded /\ ~drift,
                  order |-> [i \in DOMAIN Sections |-> Sections[i].sid],
                  mixed |-> reorder /\ Deletions # << >> /\ Additions # << >>]
      /\ UNCHANGED <<values, present, creates, changes, removed, deletes, reorder, options,
                     order, drift>>
  BY DEF Save, client, server
<1>2. /\ TypeOK /\ PendingConsistent /\ LoadedInv /\ CreatedInv /\ IndexInv /\ ServerInv
      /\ MirrorInv /\ StoreInv
  BY DEF IInv, SInv
<1>3. PICK B : B = Batch
  OBVIOUS
<1>4. /\ B \in Seq(Task)
      /\ \A i \in 1..Len(B) : TaskTold(B[i])
      /\ \A s \in Sid :
           /\ s \in removed => \E i \in 1..Len(B) : B[i].op = "remove" /\ B[i].sid = s
           /\ deletes[s] # {} => \E i \in 1..Len(B) : B[i].op = "unset" /\ B[i].sid = s
           /\ creates[s] # Nil => \E i \in 1..Len(B) : B[i].op = "add" /\ B[i].sid = s
           /\ changes[s] # NoOptions => \E i \in 1..Len(B) : B[i].op = "set" /\ B[i].sid = s
      /\ \A i, j \in 1..Len(B) : B[i].op = B[j].op /\ B[i].sid = B[j].sid => i = j
      /\ \A i, j \in 1..Len(B) : i < j =>
           /\ Stage(B[i]) <= Stage(B[j])
           /\ B[i].op = "add" /\ B[j].op = "add" => B[i].born < B[j].born
      /\ \A i \in 1..Len(B) : /\ B[i].op \in {"remove", "unset"} => Deletions # << >>
                              /\ B[i].op = "add" => Additions # << >>
  BY <1>2, <1>3, BatchListed
<1>5. /\ tasks' = B /\ Len(replies') = 0 /\ 1..Len(replies') = {}
  BY <1>1, <1>3
<1>6. /\ \A op, s : ~DoneOp(op, s)'
      /\ \A s : ~Added(s)' /\ (Here(s)' <=> values[s] # Nil)
      /\ \A s \in Sid : (Visible(s)' <=> Visible(s)) /\ Index(s)' = Index(s)
  BY <1>1, <1>5 DEF DoneOp, Added, Here, Visible, Index
<1>7. StoreInv'
  <2>1. RemovesInv'
    BY <1>1, <1>2, <1>4, <1>5 DEF StoreInv, RemovesInv, TaskTold
  <2>2. KeyInv'
    BY <1>1, <1>2 DEF StoreInv, KeyInv
  <2>3. PlainInv'
    BY <1>1, <1>2 DEF StoreInv, PlainInv, Settled
  <2>. QED  BY <2>1, <2>2, <2>3 DEF StoreInv
<1>8. TasksTell'
  <2>1. \A i \in 1..Len(B) : TaskTold(B[i])'
    BY <1>1, <1>3, <1>4 DEF TaskTold, NoOptions
  <2>2. \A i \in 1..Len(tasks') : TaskTold(tasks[i])'
    BY <1>1, <1>4, <1>5 DEF TaskTold, NoOptions
  <2>3. \A op, s : Has(op, s)' <=> \E i \in 1..Len(B) : B[i].op = op /\ B[i].sid = s
    BY <1>5 DEF Has
  <2>4. /\ \A s \in Sid : /\ s \in removed => Has("remove", s)'
                          /\ deletes[s] # {} => Has("unset", s)'
                          /\ creates[s] # Nil => Has("add", s)'
                          /\ changes[s] # NoOptions => Has("set", s)'
    BY <1>4, <2>3
  <2>. QED  BY <1>1, <1>4, <1>5, <2>2, <2>4 DEF TasksTell, Stage, NoOptions
<1>9. NamesTell'
  <2>1. Table' = Table
    BY <1>1, SameTable
  <2>2. \A s \in Sid : names'[s] = s
    BY <1>1
  <2>. QED  BY <1>1, <1>5, <1>6, <2>1, <2>2 DEF NamesTell
<1>10. DeliveredInv'
  <2>1. SUFFICES ASSUME sent'.clean PROVE DeliveredInv'
    BY DEF DeliveredInv
  <2>2. present /\ ~folded /\ ~drift
    BY <1>1, <2>1
  <2>3. \A s \in Sid : options[s] = IF values[s] = Nil THEN Nil ELSE values[s].opts
    BY <1>1, <1>2, <2>2 DEF MirrorInv
  <2>4. \A s \in Sid : values[s] # Nil => values[s].opts \in OptionsOf(Val)
    BY <1>2, Typed
  <2>5. \A s \in Sid : s \in ToSet(order) <=> values[s] # Nil
    BY <1>2, <2>3, <2>4, NilAssumption DEF ServerInv, OptionsOf
  <2>. QED  BY <1>1, <1>6, <2>2, <2>3, <2>5 DEF DeliveredInv
<1>11. OrderInv'
  <2>1. SUFFICES ASSUME sent'.clean PROVE ShownInOrder' /\ MixedTold' /\ AddedInOrder'
    BY <1>1 DEF OrderInv
  <2>2. present /\ ~folded /\ ~drift /\ Settled
    BY <1>1, <2>1 DEF Settled
  <2>3. ShownInOrder'
    <3>1. PICK shown : shown = [i \in DOMAIN Sections |-> Sections[i].sid]
      OBVIOUS
    <3>2. /\ shown \in Seq(Sid) /\ Distinct(shown)
          /\ \A s \in Sid : s \in ToSet(shown) <=> Visible(s)
          /\ \A i, j \in 1..Len(shown) : i < j => Index(shown[i]) < Index(shown[j])
      BY <1>2, <2>2, <3>1, SectionsShown
    <3>3. sent'.order = shown
      BY <1>1, <3>1
    <3>4. \A i \in 1..Len(shown) : shown[i] \in Sid
      BY <3>2
    <3>5. \A i, j \in 1..Len(shown) : i < j => Index(sent.order[i])' < Index(sent.order[j])'
      BY <1>6, <3>2, <3>3, <3>4
    <3>. QED  BY <1>6, <3>2, <3>3, <3>5 DEF ShownInOrder
  <2>4. MixedTold'
    <3>1. Deletes' => Deletions # << >>
      BY <1>4, <1>5 DEF Deletes
    <3>2. Adds' => Additions # << >>
      BY <1>4, <1>5 DEF Adds
    <3>. QED  BY <1>1, <3>1, <3>2 DEF MixedTold
  <2>5. AddedInOrder'
    <3>1. \A i \in 1..Len(order) : values[order[i]] # Nil /\ values[order[i]].key = i - 1
      BY <1>1, <1>2, <2>2 DEF StoreInv, KeyInv
    <3>2. order \in Seq(Remote)
      BY <1>2 DEF ServerInv
    <3>. QED  BY <1>1, <1>6, <3>1, <3>2 DEF AddedInOrder
  <2>. QED  BY <2>3, <2>4, <2>5
<1>12. SavedIsShown'
  BY <1>1, QuietSaved
<1>. QED  BY <1>7, <1>8, <1>9, <1>10, <1>11, <1>12 DEF SInv, BatchTells
-----------------------------------------------------------------------------
(* rpcd carries out a call                                                 *)

(* The calls go deletions first, then additions as they were made, then    *)
(* changes, and none is made twice.                                        *)
LEMMA NextTold ==
  ASSUME IInv, TasksTell, InSave, Serving, NEW t, t = NextTask
  PROVE  /\ t \in Task /\ TaskTold(t) /\ ~DoneOp(t.op, t.sid)
         /\ \A s : DoneOp("remove", s) => s \in removed
         /\ t.op \in {"remove", "unset"} => \A s : ~Added(s) /\ ~DoneOp("set", s)
         /\ t.op = "add" =>
              /\ \A s \in removed : DoneOp("remove", s)
              /\ \A s : Added(s) => creates[s].born < creates[t.sid].born
<1>1. tasks \in Seq(Task) /\ Len(replies) \in Nat /\ Len(replies) < Len(tasks) /\ removed \in SUBSET Sid
  BY DEF IInv, BatchInv, Serving, TypeOK
<1>2. PICK n \in 1..Len(tasks) : n = Len(replies) + 1 /\ t = tasks[n]
  BY <1>1 DEF NextTask
<1>3. /\ \A i \in 1..Len(tasks) : TaskTold(tasks[i])
      /\ \A s \in Sid : s \in removed => Has("remove", s)
      /\ \A i, j \in 1..Len(tasks) :
           tasks[i].op = tasks[j].op /\ tasks[i].sid = tasks[j].sid => i = j
      /\ \A i, j \in 1..Len(tasks) : i < j =>
           /\ Stage(tasks[i]) <= Stage(tasks[j])
           /\ tasks[i].op = "add" /\ tasks[j].op = "add" => tasks[i].born < tasks[j].born
  BY DEF TasksTell
<1>4. \A op, s : DoneOp(op, s) <=> \E i \in 1..Len(tasks) : i < n /\ tasks[i].op = op /\ tasks[i].sid = s
  BY <1>1, <1>2 DEF DoneOp
<1>5. t \in Task /\ TaskTold(t)
  BY <1>1, <1>2, <1>3
<1>6. ~DoneOp(t.op, t.sid)
  BY <1>2, <1>3, <1>4
<1>7. \A s : DoneOp("remove", s) => s \in removed
  BY <1>3, <1>4 DEF TaskTold
<1>8. ASSUME t.op \in {"remove", "unset"}, NEW s PROVE ~Added(s) /\ ~DoneOp("set", s)
  <2>1. Stage(t) = 1
    BY <1>8 DEF Stage
  <2>2. ASSUME NEW i \in 1..Len(tasks), i < n PROVE tasks[i].op # "add" /\ tasks[i].op # "set"
    <3>1. Stage(tasks[i]) <= 1
      BY <1>2, <1>3, <2>1, <2>2
    <3>. QED  BY <3>1 DEF Stage
  <2>. QED  BY <1>4, <2>2 DEF Added
<1>9. ASSUME t.op = "add", NEW s \in removed PROVE DoneOp("remove", s)
  <2>1. PICK i \in 1..Len(tasks) : tasks[i].op = "remove" /\ tasks[i].sid = s
    BY <1>1, <1>3 DEF Has
  <2>2. Stage(tasks[i]) = 1 /\ Stage(tasks[n]) = 2 /\ i # n
    BY <1>2, <1>9, <2>1 DEF Stage
  <2>3. ~ (n < i)
    BY <1>3, <2>2
  <2>. QED  BY <1>4, <2>1, <2>2, <2>3
<1>10. ASSUME t.op = "add", NEW s, Added(s) PROVE creates[s].born < creates[t.sid].born
  <2>1. PICK i \in 1..Len(tasks) : i < n /\ tasks[i].op = "add" /\ tasks[i].sid = s
    BY <1>4, <1>10 DEF Added
  <2>2. tasks[i].born < t.born
    BY <1>2, <1>3, <1>10, <2>1
  <2>3. tasks[i].born = creates[s].born /\ t.born = creates[t.sid].born
    BY <1>3, <1>5, <1>10, <2>1 DEF TaskTold
  <2>. QED  BY <2>2, <2>3
<1>. QED  BY <1>5, <1>6, <1>7, <1>8, <1>9, <1>10

(* What a call changes of the account of the batch, and what it leaves.     *)
LEMMA ServedFrame ==
  ASSUME IInv, SInv, ServeTask, NEW t, t = NextTask
  PROVE  /\ UNCHANGED <<values, present, creates, changes, removed, deletes, reorder, phase,
                        tasks, refused, sent, late, drift, rendered>>
         /\ phase = "tasks" /\ Serving /\ t \in Task /\ Perform(t)
         /\ replies \in Seq(Sid \cup {Nil}) /\ replies' \in Seq(Sid \cup {Nil})
         /\ Len(replies') = Len(replies) + 1 /\ t = tasks[Len(replies) + 1]
         /\ \A i \in 1..Len(replies) : replies'[i] = replies[i]
         /\ \A op, s : DoneOp(op, s)' <=> DoneOp(op, s) \/ (t.op = op /\ t.sid = s)
         /\ \A s : Added(s)' <=> Added(s) \/ (t.op = "add" /\ t.sid = s)
         /\ \A s : Here(s)' <=> Here(s) /\ ~ (t.op = "remove" /\ t.sid = s)
         /\ Table' = Table
<1>1. /\ UNCHANGED <<values, present, creates, changes, removed, deletes, reorder, phase,
                     tasks, refused, sent, late, drift, rendered>>
      /\ phase = "tasks" /\ Serving /\ Perform(t)
  BY DEF ServeTask, Serving, client
<1>2. /\ tasks \in Seq(Task) /\ replies \in Seq(Sid \cup {Nil}) /\ Len(replies) < Len(tasks)
  BY <1>1 DEF IInv, BatchInv, Serving
<1>3. t \in Task /\ t = tasks[Len(replies) + 1]
  BY <1>2 DEF NextTask
<1>4. PICK r \in Sid \cup {Nil} : replies' = Append(replies, r)
  BY <1>1, <1>3, PerformKeeps
<1>5. /\ replies' \in Seq(Sid \cup {Nil}) /\ Len(replies') = Len(replies) + 1
      /\ \A i \in 1..Len(replies) : replies'[i] = replies[i]
  BY <1>2, <1>4
<1>6. PICK m \in Nat : m = Len(replies) /\ Len(replies') = m + 1 /\ t = tasks[m + 1]
  BY <1>2, <1>3, <1>5
<1>7. ASSUME NEW op, NEW s
      PROVE  DoneOp(op, s)' <=> DoneOp(op, s) \/ (t.op = op /\ t.sid = s)
  <2>1. DoneOp(op, s)' <=> \E i \in 1..(m + 1) : tasks[i].op = op /\ tasks[i].sid = s
    BY <1>1, <1>6 DEF DoneOp
  <2>2. DoneOp(op, s) <=> \E i \in 1..m : tasks[i].op = op /\ tasks[i].sid = s
    BY <1>6 DEF DoneOp
  <2>3. 1..(m + 1) = 1..m \cup {m + 1}
    BY <1>6
  <2>. QED  BY <1>6, <2>1, <2>2, <2>3
<1>8. \A s : Added(s)' <=> Added(s) \/ (t.op = "add" /\ t.sid = s)
  BY <1>7 DEF Added
<1>9. \A s : Here(s)' <=> Here(s) /\ ~ (t.op = "remove" /\ t.sid = s)
  BY <1>1, <1>7 DEF Here
<1>10. Table' = Table
  BY <1>1, SameTable
<1>. QED  BY <1>1, <1>2, <1>3, <1>5, <1>7, <1>8, <1>9, <1>10

(* A removed section is gone, and the others stand as they stood.           *)
LEMMA RemoveServed ==
  ASSUME IInv, SInv, ServeTask, InSave, NEW t, t = NextTask, t.op = "remove"
  PROVE  NamesTell' /\ DeliveredInv' /\ (sent.clean => AddedInOrder')
<1>1. /\ UNCHANGED <<values, present, creates, changes, removed, deletes, reorder, phase,
                     tasks, refused, sent, late, drift, rendered>>
      /\ phase = "tasks" /\ Serving /\ t \in Task /\ Perform(t) /\ t = tasks[Len(replies) + 1]
      /\ Len(replies') = Len(replies) + 1
      /\ \A i \in 1..Len(replies) : replies'[i] = replies[i]
      /\ \A op, s : DoneOp(op, s)' <=> DoneOp(op, s) \/ (t.op = op /\ t.sid = s)
      /\ \A s : Here(s)' <=> Here(s) /\ s # t.sid
      /\ Table' = Table /\ Len(replies) \in Nat
  BY ServedFrame
<1>2. NamesTell /\ DeliveredInv /\ OrderInv /\ TasksTell
  BY DEF SInv, BatchTells
<1>3. /\ t.sid \in removed /\ t.sid \in Sid
      /\ \A s : ~Added(s) /\ ~DoneOp("set", s)
  BY <1>1, <1>2, NextTold DEF TaskTold, Task
<1>4. \A s : ~Added(s)'
  BY <1>3, ServedFrame
<1>5. /\ options[t.sid] # Nil /\ options' = [options EXCEPT ![t.sid] = Nil]
      /\ order' = RemoveAt(order, Place(order, t.sid))
      /\ names' = names
  BY <1>1 DEF Perform
<1>6. /\ order \in Seq(Remote) /\ Distinct(order) /\ t.sid \in ToSet(order)
      /\ options \in [Sid -> OptionsOf(Val) \cup {Nil}]
  BY <1>3, <1>5 DEF IInv, ServerInv, TypeOK
<1>7. PICK at \in 1..Len(order) : at = Place(order, t.sid) /\ order[at] = t.sid
  BY <1>6, PlaceFinds
<1>8. PICK new : new = order'
  OBVIOUS
<1>9. /\ new \in Seq(Remote) /\ Len(new) = Len(order) - 1
      /\ \A i \in 1..Len(new) : new[i] = IF i < at THEN order[i] ELSE order[i + 1]
      /\ ToSet(new) = ToSet(order) \ {t.sid}
  <2>1. new = RemoveAt(order, at)
    BY <1>5, <1>7, <1>8
  <2>. QED  BY <1>6, <1>7, <2>1, ElementAway
<1>10. NamesTell'
  <2>1. \A i \in 1..Len(replies') : tasks[i].op = "add" => i \in 1..Len(replies)
    BY <1>1
  <2>. QED  BY <1>1, <1>2, <1>3, <1>4, <1>5, <2>1 DEF NamesTell
<1>11. DeliveredInv'
  <2>1. SUFFICES ASSUME sent.clean PROVE DeliveredInv'
    BY <1>1 DEF DeliveredInv
  <2>2. /\ present /\ ~drift
        /\ \A x \in Sid : x \in ToSet(order) <=> Here(x)
        /\ \A s \in Sid : values[s] # Nil /\ s \notin removed => \A o \in Opt :
             /\ o \in deletes[s] /\ DoneOp("unset", s) => options[s][o] = Nil
             /\ changes[s][o] # Nil /\ DoneOp("set", s) => options[s][o] = changes[s][o]
             /\ o \notin deletes[s] /\ changes[s][o] = Nil => options[s][o] = values[s].opts[o]
    BY <1>2, <1>3, <2>1 DEF DeliveredInv
  <2>3. \A x \in Sid : x \in ToSet(order') <=> Here(x)'
    BY <1>1, <1>8, <1>9, <2>2
  <2>4. \A s \in Sid : s \notin removed => options'[s] = options[s]
    BY <1>3, <1>5, <1>6
  <2>5. \A s \in Sid : values[s] # Nil /\ s \notin removed => \A o \in Opt :
             /\ o \in deletes[s] /\ DoneOp("unset", s)' => options'[s][o] = Nil
             /\ changes[s][o] # Nil /\ DoneOp("set", s)' => options'[s][o] = changes[s][o]
             /\ o \notin deletes[s] /\ changes[s][o] = Nil => options'[s][o] = values[s].opts[o]
    BY <1>1, <2>2, <2>4
  <2>. QED  BY <1>1, <1>4, <2>2, <2>3, <2>5 DEF DeliveredInv
<1>12. ASSUME sent.clean PROVE AddedInOrder'
  <2>1. \A i, j \in 1..Len(order) : i < j /\ Here(order[j]) =>
          Here(order[i]) /\ values[order[i]].key < values[order[j]].key
    BY <1>1, <1>2, <1>12 DEF OrderInv, AddedInOrder
  <2>2. ASSUME NEW i \in 1..Len(new), NEW j \in 1..Len(new), i < j, Here(new[j])'
        PROVE  Here(new[i])' /\ values[new[i]].key < values[new[j]].key
    <3>1. PICK k \in 1..Len(order), l \in 1..Len(order) :
            k < l /\ new[i] = order[k] /\ new[j] = order[l]
      <4>1. PICK k : k = IF i < at THEN i ELSE i + 1
        OBVIOUS
      <4>2. PICK l : l = IF j < at THEN j ELSE j + 1
        OBVIOUS
      <4>3. k \in 1..Len(order) /\ l \in 1..Len(order) /\ k < l
        BY <1>6, <1>9, <2>2, <4>1, <4>2
      <4>4. new[i] = order[k] /\ new[j] = order[l]
        BY <1>9, <4>1, <4>2
      <4>. QED  BY <4>3, <4>4
    <3>2. Here(order[l])
      BY <1>1, <1>8, <2>2, <3>1
    <3>3. new[i] # t.sid
      <4>1. new[i] \in ToSet(new)
        BY <1>9 DEF ToSet
      <4>. QED  BY <1>9, <4>1
    <3>4. Here(new[i]) /\ values[new[i]].key < values[new[j]].key
      BY <2>1, <3>1, <3>2
    <3>. QED  BY <1>1, <1>8, <3>3, <3>4
  <2>. QED  BY <1>1, <1>4, <1>8, <2>2 DEF AddedInOrder
<1>. QED  BY <1>10, <1>11, <1>12

(* Options are unset and set as the page has them.                          *)
LEMMA OptionsServed ==
  ASSUME IInv, SInv, ServeTask, InSave, NEW t, t = NextTask, t.op \in {"unset", "set"}
  PROVE  NamesTell' /\ DeliveredInv' /\ (sent.clean => AddedInOrder')
<1>1. /\ UNCHANGED <<values, present, creates, changes, removed, deletes, reorder, phase,
                     tasks, refused, sent, late, drift, rendered>>
      /\ phase = "tasks" /\ Serving /\ t \in Task /\ Perform(t) /\ t = tasks[Len(replies) + 1]
      /\ Len(replies') = Len(replies) + 1 /\ Len(replies) \in Nat
      /\ \A i \in 1..Len(replies) : replies'[i] = replies[i]
      /\ \A op, s : DoneOp(op, s)' <=> DoneOp(op, s) \/ (t.op = op /\ t.sid = s)
      /\ \A s : Added(s)' <=> Added(s)
      /\ \A s : Here(s)' <=> Here(s)
      /\ Table' = Table
  BY ServedFrame
<1>2. NamesTell /\ DeliveredInv /\ OrderInv /\ TasksTell
  BY DEF SInv, BatchTells
<1>3. /\ TypeOK /\ PendingConsistent /\ t.sid \in Sid
      /\ TaskTold(t) /\ ~DoneOp(t.op, t.sid)
      /\ \A s : DoneOp("remove", s) => s \in removed
      /\ t.op = "unset" => \A s : ~Added(s) /\ ~DoneOp("set", s)
  BY <1>1, <1>2, NextTold DEF IInv, Task
<1>4. /\ options[t.sid] # Nil /\ order' = order /\ names' = names
      /\ options' = [options EXCEPT ![t.sid] =
           IF t.op = "unset" THEN [o \in Opt |-> IF o \in t.opts THEN Nil ELSE options[t.sid][o]]
           ELSE StoredOptions(options[t.sid], t.opts)]
  BY <1>1 DEF Perform
<1>5. options \in [Sid -> OptionsOf(Val) \cup {Nil}] /\ \A s \in Sid : changes[s] \in OptionsOf(Val)
  BY <1>3, Typed DEF TypeOK
<1>6. \A s \in Sid : s # t.sid => options'[s] = options[s]
  BY <1>4, <1>5
<1>7. \A o \in Opt : options'[t.sid][o] =
        IF t.op = "unset" THEN IF o \in deletes[t.sid] THEN Nil ELSE options[t.sid][o]
        ELSE IF changes[t.sid][o] = Nil THEN options[t.sid][o] ELSE changes[t.sid][o]
  <2>1. CASE t.op = "unset"
    BY <1>3, <1>4, <1>5, <2>1 DEF TaskTold
  <2>2. CASE t.op = "set"
    <3>1. options'[t.sid] = StoredOptions(options[t.sid], changes[t.sid])
      BY <1>3, <1>4, <1>5, <2>2 DEF TaskTold
    <3>2. \A o \in Opt : changes[t.sid][o] # Empty
      BY <1>3, <1>5, ValuesAssumption DEF OptionsOf
    <3>. QED  BY <2>2, <3>1, <3>2 DEF StoredOptions
  <2>. QED  BY <2>1, <2>2
<1>8. /\ t.op = "set" => values[t.sid] # Nil /\ t.sid \notin removed
      /\ values[t.sid] # Nil /\ t.sid \notin removed => Here(t.sid)
  BY <1>3 DEF TaskTold, PendingConsistent, Here
<1>9. NamesTell'
  <2>1. \A i \in 1..Len(replies') : tasks[i].op = "add" => i \in 1..Len(replies)
    BY <1>1
  <2>. QED  BY <1>1, <1>2, <1>4, <2>1 DEF NamesTell
<1>10. DeliveredInv'
  <2>1. SUFFICES ASSUME sent.clean PROVE DeliveredInv'
    BY <1>1 DEF DeliveredInv
  <2>2. /\ present /\ ~drift
        /\ \A x \in Sid : x \in ToSet(order) <=> Here(x) \/ \E s \in Sid : Added(s) /\ names[s] = x
        /\ \A s, r \in Sid : Added(s) /\ Added(r) /\ names[s] = names[r] => s = r
        /\ \A s \in Sid : Added(s) => ~Here(names[s]) /\ options[names[s]] = Expected(s)
        /\ \A s \in Sid : values[s] # Nil /\ s \notin removed => \A o \in Opt :
             /\ o \in deletes[s] /\ DoneOp("unset", s) => options[s][o] = Nil
             /\ changes[s][o] # Nil /\ DoneOp("set", s) => options[s][o] = changes[s][o]
             /\ o \notin deletes[s] /\ changes[s][o] = Nil => options[s][o] = values[s].opts[o]
    BY <1>2, <2>1 DEF DeliveredInv
  <2>3. ASSUME NEW s \in Sid, Added(s)
        PROVE  ~Here(names[s])' /\ options'[names'[s]] = Expected(s)'
    <3>1. t.op = "set" /\ Here(t.sid) /\ names[s] # t.sid /\ names[s] \in Sid
      BY <1>2, <1>3, <1>8, <2>2, <2>3 DEF NamesTell
    <3>2. Expected(s)' = Expected(s)
      BY <1>1 DEF Expected
    <3>. QED  BY <1>1, <1>4, <1>6, <2>2, <2>3, <3>1, <3>2
  <2>4. ASSUME NEW s \in Sid, values[s] # Nil, s \notin removed, NEW o \in Opt
        PROVE  /\ o \in deletes[s] /\ DoneOp("unset", s)' => options'[s][o] = Nil
               /\ changes[s][o] # Nil /\ DoneOp("set", s)' => options'[s][o] = changes[s][o]
               /\ o \notin deletes[s] /\ changes[s][o] = Nil => options'[s][o] = values[s].opts[o]
    <3>1. CASE s # t.sid
      BY <1>1, <1>6, <2>2, <2>4, <3>1
    <3>2. CASE s = t.sid
      <4>1. o \in deletes[s] => changes[s][o] = Nil
        BY <1>3 DEF PendingConsistent
      <4>. QED  BY <1>1, <1>3, <1>7, <2>2, <2>4, <3>2, <4>1
    <3>. QED  BY <3>1, <3>2
  <2>5. /\ \A x \in Sid : x \in ToSet(order') <=> Here(x)' \/ \E s \in Sid : Added(s)' /\ names'[s] = x
        /\ \A s, r \in Sid : Added(s)' /\ Added(r)' /\ names'[s] = names'[r] => s = r
    BY <1>1, <1>4, <2>2
  <2>. QED  BY <1>1, <2>2, <2>3, <2>4, <2>5 DEF DeliveredInv
<1>11. sent.clean => AddedInOrder'
  BY <1>1, <1>2, <1>4 DEF OrderInv, AddedInOrder
<1>. QED  BY <1>9, <1>10, <1>11

(* What rpcd stores of a new section is what the page showed of it.        *)
LEMMA NewShown ==
  ASSUME IInv, NamesTell, InSave, NEW s \in Sid, creates[s] # Nil
  PROVE  StoredOptions(NoOptions, creates[s].opts) = Expected(s)
<1>1. sent.table[s] = [o \in Opt |-> creates[s].opts[o]]
  BY DEF NamesTell, Table, Visible, Get
<1>2. ASSUME NEW o \in Opt
      PROVE  StoredOptions(NoOptions, creates[s].opts)[o] = Expected(s)[o]
  BY <1>1 DEF StoredOptions, NoOptions, Expected
<1>. QED  BY <1>2 DEF StoredOptions, Expected

(* An added section stands last, under a name no other section has.         *)
LEMMA AddServed ==
  ASSUME IInv, SInv, ServeTask, InSave, NEW t, t = NextTask, t.op = "add"
  PROVE  NamesTell' /\ DeliveredInv' /\ (sent.clean => AddedInOrder')
<1>1. /\ UNCHANGED <<values, present, creates, changes, removed, deletes, reorder, phase,
                     tasks, refused, sent, late, drift, rendered>>
      /\ phase = "tasks" /\ Serving /\ t \in Task /\ Perform(t) /\ t = tasks[Len(replies) + 1]
      /\ Len(replies') = Len(replies) + 1 /\ Len(replies) \in Nat
      /\ \A i \in 1..Len(replies) : replies'[i] = replies[i]
      /\ \A op, s : DoneOp(op, s)' <=> DoneOp(op, s) \/ (t.op = op /\ t.sid = s)
      /\ \A s : Added(s)' <=> Added(s) \/ t.sid = s
      /\ \A s : Here(s)' <=> Here(s)
      /\ Table' = Table
  BY ServedFrame
<1>2. NamesTell /\ DeliveredInv /\ OrderInv /\ TasksTell
  BY DEF SInv, BatchTells
<1>3. /\ TypeOK /\ CreatedInv /\ ServerInv /\ t.sid \in Sid
      /\ TaskTold(t) /\ ~Added(t.sid)
      /\ \A s : DoneOp("remove", s) => s \in removed
      /\ \A s \in removed : DoneOp("remove", s)
      /\ \A s : Added(s) => creates[s].born < creates[t.sid].born
  BY <1>1, <1>2, NextTold DEF IInv, Task, Added
<1>4. /\ creates[t.sid] # Nil /\ t.named = creates[t.sid].named /\ t.opts = creates[t.sid].opts
      /\ creates[t.sid].named => t.sid \in Stored
  BY <1>3 DEF TaskTold, CreatedInv
<1>5. PICK x \in IF t.named THEN {t.sid} ELSE {y \in Fresh : options[y] = Nil} :
        /\ options' = [options EXCEPT ![x] =
             StoredOptions(IF options[x] = Nil THEN NoOptions ELSE options[x], t.opts)]
        /\ order' = IF x \in ToSet(order) THEN order ELSE Append(order, x)
        /\ replies' = Append(replies, x)
        /\ names' = [names EXCEPT ![t.sid] = x]
  BY <1>1 DEF Perform
<1>6. /\ x \in Remote /\ x \in Sid
      /\ IF creates[t.sid].named THEN x = t.sid ELSE x \in Fresh /\ options[x] = Nil
  BY <1>4, <1>5 DEF Remote, Sid
<1>7. /\ order \in Seq(Remote) /\ Distinct(order)
      /\ options \in [Sid -> OptionsOf(Val) \cup {Nil}]
      /\ \A s \in Sid : options[s] # Nil <=> s \in ToSet(order)
  BY <1>3 DEF ServerInv, TypeOK
<1>8. /\ names \in [Sid -> Sid]
      /\ \A s \in Sid :
           /\ ~Added(s) => names[s] = s
           /\ Added(s) => /\ names[s] \in ToSet(order)
                          /\ IF creates[s].named THEN names[s] = s ELSE names[s] \in Fresh
      /\ \A i \in 1..Len(replies) : tasks[i].op = "add" => replies[i] = names[tasks[i].sid]
      /\ sent.table = Table
  BY <1>2 DEF NamesTell
<1>9. /\ names' \in [Sid -> Sid] /\ names'[t.sid] = x
      /\ \A s \in Sid : s # t.sid => names'[s] = names[s]
  BY <1>3, <1>5, <1>6, <1>8
<1>10. /\ order' \in Seq(Remote) /\ ToSet(order') = ToSet(order) \cup {x}
       /\ x \notin ToSet(order) =>
            /\ Len(order') = Len(order) + 1 /\ order'[Len(order) + 1] = x
            /\ \A i \in 1..Len(order) : order'[i] = order[i]
  <2>1. CASE x \in ToSet(order)
    BY <1>5, <1>7, <2>1
  <2>2. CASE x \notin ToSet(order)
    <3>1. PICK new : new = Append(order, x)
      OBVIOUS
    <3>2. /\ new \in Seq(Remote) /\ Len(new) = Len(order) + 1
          /\ \A i \in 1..Len(order) : new[i] = order[i]
          /\ new[Len(order) + 1] = x
      BY <1>6, <1>7, <3>1, AppendProperties
    <3>3. ToSet(new) \subseteq ToSet(order) \cup {x}
      BY <1>7, <3>2 DEF ToSet
    <3>4. ToSet(order) \cup {x} \subseteq ToSet(new)
      BY <1>7, <3>2 DEF ToSet
    <3>. QED  BY <1>5, <2>2, <3>1, <3>2, <3>3, <3>4
  <2>. QED  BY <2>1, <2>2
<1>11. NamesTell'
  <2>1. ASSUME NEW s \in Sid
        PROVE  /\ ~Added(s)' => names'[s] = s
               /\ Added(s)' => /\ names'[s] \in ToSet(order')
                               /\ IF creates[s].named THEN names'[s] = s ELSE names'[s] \in Fresh
    <3>1. CASE s = t.sid
      BY <1>1, <1>6, <1>9, <1>10, <3>1
    <3>2. CASE s # t.sid
      BY <1>1, <1>8, <1>9, <1>10, <3>2
    <3>. QED  BY <3>1, <3>2
  <2>2. ASSUME NEW i \in 1..Len(replies'), tasks[i].op = "add"
        PROVE  replies'[i] = names'[tasks[i].sid]
    <3>1. CASE i = Len(replies) + 1
      <4>1. replies \in Seq(Sid \cup {Nil})
        BY DEF IInv, BatchInv
      <4>2. replies'[i] = x
        BY <1>5, <1>6, <3>1, <4>1
      <4>. QED  BY <1>1, <1>9, <3>1, <4>2
    <3>2. CASE i \in 1..Len(replies)
      <4>1. Added(tasks[i].sid)
        BY <2>2, <3>2 DEF Added, DoneOp
      <4>2. tasks[i] \in Task
        BY <1>1, <3>2 DEF IInv, BatchInv
      <4>3. tasks[i].sid \in Sid /\ tasks[i].sid # t.sid
        BY <1>3, <4>1, <4>2 DEF Task
      <4>. QED  BY <1>1, <1>8, <1>9, <2>2, <3>2, <4>3
    <3>. QED  BY <1>1, <3>1, <3>2
  <2>. QED  BY <1>1, <1>8, <1>9, <2>1, <2>2 DEF NamesTell
<1>12. ASSUME sent.clean
       PROVE  /\ x \notin ToSet(order) /\ options[x] = Nil /\ ~Here(x)
              /\ \A s \in Sid : Added(s) => names[s] # x
  <2>1. \A y \in Sid : y \in ToSet(order) <=> Here(y) \/ \E s \in Sid : Added(s) /\ names[s] = y
    BY <1>2, <1>12 DEF DeliveredInv
  <2>2. x \notin ToSet(order)
    <3>1. CASE creates[t.sid].named
      <4>1. x = t.sid /\ x \in Stored
        BY <1>4, <1>6, <3>1
      <4>2. ~Here(x)
        BY <1>3, <1>4, <4>1 DEF Here, CreatedInv
      <4>3. ASSUME NEW s \in Sid, Added(s), names[s] = x PROVE FALSE
        <5>1. s # t.sid
          BY <1>3, <4>3
        <5>. QED  BY <1>8, <4>1, <4>3, <5>1, NamesAssumption
      <4>. QED  BY <1>6, <2>1, <4>2, <4>3
    <3>2. CASE ~creates[t.sid].named
      BY <1>6, <1>7, <3>2
    <3>. QED  BY <3>1, <3>2
  <2>. QED  BY <1>6, <1>7, <1>8, <2>1, <2>2
<1>13. DeliveredInv'
  <2>1. SUFFICES ASSUME sent.clean PROVE DeliveredInv'
    BY <1>1 DEF DeliveredInv
  <2>2. /\ present /\ ~drift
        /\ \A y \in Sid : y \in ToSet(order) <=> Here(y) \/ \E s \in Sid : Added(s) /\ names[s] = y
        /\ \A s, r \in Sid : Added(s) /\ Added(r) /\ names[s] = names[r] => s = r
        /\ \A s \in Sid : Added(s) => ~Here(names[s]) /\ options[names[s]] = Expected(s)
        /\ \A s \in Sid : values[s] # Nil /\ s \notin removed => \A o \in Opt :
             /\ o \in deletes[s] /\ DoneOp("unset", s) => options[s][o] = Nil
             /\ changes[s][o] # Nil /\ DoneOp("set", s) => options[s][o] = changes[s][o]
             /\ o \notin deletes[s] /\ changes[s][o] = Nil => options[s][o] = values[s].opts[o]
    BY <1>2, <2>1 DEF DeliveredInv
  <2>3. /\ x \notin ToSet(order) /\ options[x] = Nil /\ ~Here(x)
        /\ \A s \in Sid : Added(s) => names[s] # x
    BY <1>12, <2>1
  <2>4. ASSUME NEW y \in Sid
        PROVE  y \in ToSet(order') <=> Here(y)' \/ \E s \in Sid : Added(s)' /\ names'[s] = y
    <3>1. CASE y = x
      BY <1>1, <1>3, <1>9, <1>10, <3>1
    <3>2. CASE y # x
      <4>1. y \in ToSet(order') <=> y \in ToSet(order)
        BY <1>10, <3>2
      <4>2. \A s \in Sid : Added(s)' /\ names'[s] = y <=> Added(s) /\ names[s] = y
        BY <1>1, <1>3, <1>9, <3>2
      <4>. QED  BY <1>1, <2>2, <4>1, <4>2
    <3>. QED  BY <3>1, <3>2
  <2>5. ASSUME NEW s \in Sid, NEW r \in Sid, Added(s)', Added(r)', names'[s] = names'[r]
        PROVE  s = r
    <3>1. (s # t.sid => Added(s) /\ names'[s] = names[s])
          /\ (r # t.sid => Added(r) /\ names'[r] = names[r])
      BY <1>1, <1>9, <2>5
    <3>. QED  BY <1>9, <2>2, <2>3, <2>5, <3>1
  <2>6. ASSUME NEW s \in Sid, Added(s)'
        PROVE  ~Here(names'[s]) /\ options'[names'[s]] = Expected(s)
    <3>1. CASE s = t.sid
      <4>1. StoredOptions(NoOptions, t.opts) = Expected(s)
        BY <1>2, <1>4, <3>1, NewShown
      <4>2. options'[x] = StoredOptions(NoOptions, t.opts)
        BY <1>5, <1>6, <1>7, <2>3
      <4>. QED  BY <1>9, <2>3, <3>1, <4>1, <4>2
    <3>2. CASE s # t.sid
      <4>1. Added(s) /\ names'[s] = names[s] /\ names[s] # x /\ names[s] \in Sid
        BY <1>1, <1>8, <1>9, <2>3, <2>6, <3>2
      <4>2. options'[names[s]] = options[names[s]]
        BY <1>5, <1>7, <4>1
      <4>. QED  BY <2>2, <4>1, <4>2
    <3>. QED  BY <3>1, <3>2
  <2>7. ASSUME NEW s \in Sid, values[s] # Nil, s \notin removed PROVE options'[s] = options[s]
    <3>1. Here(s)
      BY <1>3, <2>7 DEF Here
    <3>. QED  BY <1>5, <1>7, <2>3, <3>1
  <2>8. \A s \in Sid : Expected(s)' = Expected(s)
    BY <1>1 DEF Expected
  <2>9. \A s \in Sid : Added(s)' => ~Here(names[s])' /\ options'[names'[s]] = Expected(s)'
    <3>1. ASSUME NEW s \in Sid, Added(s)' PROVE ~Here(names[s])'
      <4>1. Here(names[s])' <=> Here(names'[s])
        BY <1>1 DEF Here, DoneOp
      <4>. QED  BY <2>6, <3>1, <4>1
    <3>. QED  BY <2>6, <2>8, <3>1
  <2>10. \A s \in Sid : values[s] # Nil /\ s \notin removed => \A o \in Opt :
             /\ o \in deletes[s] /\ DoneOp("unset", s)' => options'[s][o] = Nil
             /\ changes[s][o] # Nil /\ DoneOp("set", s)' => options'[s][o] = changes[s][o]
             /\ o \notin deletes[s] /\ changes[s][o] = Nil => options'[s][o] = values[s].opts[o]
    BY <1>1, <2>2, <2>7
  <2>. QED  BY <1>1, <2>2, <2>4, <2>5, <2>9, <2>10 DEF DeliveredInv
<1>14. ASSUME sent.clean PROVE AddedInOrder'
  <2>1. \A i, j \in 1..Len(order) : i < j =>
          /\ Here(order[j]) => Here(order[i]) /\ values[order[i]].key < values[order[j]].key
          /\ \A s, r \in Sid : Added(s) /\ Added(r) /\ names[s] = order[i] /\ names[r] = order[j]
               => creates[s].born < creates[r].born
    BY <1>1, <1>2, <1>14 DEF OrderInv, AddedInOrder
  <2>2. /\ x \notin ToSet(order) /\ ~Here(x)
        /\ \A s \in Sid : Added(s) => names[s] # x
    BY <1>12, <1>14
  <2>3. PICK n \in Nat : n = Len(order)
    BY <1>7
  <2>6. PICK new : new = order'
    OBVIOUS
  <2>4. /\ Len(new) = n + 1 /\ new[n + 1] = x
        /\ \A i \in 1..n : new[i] = order[i] /\ new[i] # x
    BY <1>10, <2>2, <2>3, <2>6 DEF ToSet
  <2>5. ASSUME NEW i \in 1..(n + 1), NEW j \in 1..(n + 1), i < j
        PROVE  /\ Here(new[j]) => Here(new[i]) /\ values[new[i]].key < values[new[j]].key
               /\ \A s, r \in Sid : Added(s)' /\ Added(r)' /\ names'[s] = new[i] /\ names'[r] = new[j]
                    => creates[s].born < creates[r].born
    <3>1. i \in 1..n /\ new[i] = order[i] /\ new[i] # x
      BY <2>4, <2>5
    <3>2. \A s \in Sid : Added(s)' /\ names'[s] # x => Added(s) /\ names'[s] = names[s]
      BY <1>1, <1>9
    <3>3. CASE j \in 1..n
      BY <2>1, <2>3, <2>4, <2>5, <3>1, <3>2, <3>3
    <3>4. CASE j = n + 1
      <4>1. \A r \in Sid : Added(r)' /\ names'[r] = new[j] => r = t.sid
        BY <1>1, <1>9, <2>2, <2>4, <3>4
      <4>. QED  BY <1>3, <2>2, <2>4, <3>1, <3>2, <3>4, <4>1
    <3>. QED  BY <3>3, <3>4
  <2>7. \A i \in 1..Len(new) : Here(order[i])' <=> Here(new[i])
    BY <1>1, <2>6 DEF Here, DoneOp
  <2>. QED  BY <1>1, <2>6, <2>4, <2>5, <2>7 DEF AddedInOrder
<1>. QED  BY <1>11, <1>13, <1>14

LEMMA ServeTaskSaves ==
  ASSUME IInv, SInv, ServeTask
  PROVE  SInv'
<1>1. PICK t : t = NextTask
  OBVIOUS
<1>2. /\ UNCHANGED <<values, present, creates, changes, removed, deletes, reorder, phase,
                     tasks, refused, sent, late, drift, rendered>>
      /\ phase = "tasks" /\ t \in Task /\ Perform(t) /\ t = tasks[Len(replies) + 1]
      /\ Len(replies) < Len(tasks) /\ Len(replies) \in Nat /\ Len(tasks) \in Nat
  BY <1>1, ServedFrame DEF IInv, BatchInv, Serving
<1>3. StoreInv'
  <2>1. StoreInv /\ ServerInv /\ TypeOK
    BY DEF SInv, IInv
  <2>2. RemovesInv'
    <3>1. \A s \in Sid : s \notin removed /\ s \in ToSet(order) => s \in ToSet(order')
      <4>1. t.op = "remove" => t.sid \in removed
        BY <1>2, <2>1 DEF StoreInv, RemovesInv
      <4>2. \A s \in Sid : options'[s] # Nil <=> s \in ToSet(order')
        BY ServeTaskKeeps DEF IInv, ServerInv
      <4>3. CASE t.op = "remove"
        <5>1. \A s \in Sid : options[s] # Nil /\ s \notin removed => options'[s] # Nil
          BY <1>2, <2>1, <4>1, <4>3 DEF Perform, TypeOK
        <5>. QED  BY <2>1, <4>2, <5>1 DEF ServerInv
      <4>4. CASE t.op \in {"unset", "set"}
        BY <1>2, <4>4 DEF Perform
      <4>5. CASE t.op = "add"
        <5>1. PICK x : order' = IF x \in ToSet(order) THEN order ELSE Append(order, x)
          BY <1>2, <4>5 DEF Perform
        <5>2. order \in Seq(Remote)
          BY <2>1 DEF ServerInv
        <5>3. ToSet(order) \subseteq ToSet(Append(order, x))
          <6>1. PICK new : new = Append(order, x)
            OBVIOUS
          <6>2. Len(new) = Len(order) + 1 /\ \A i \in 1..Len(order) : new[i] = order[i]
            BY <5>2, <6>1
          <6>3. DOMAIN new = 1..Len(new)
            BY <5>2, <6>1
          <6>. QED  BY <5>2, <6>1, <6>2, <6>3 DEF ToSet
        <5>. QED  BY <5>1, <5>3
      <4>6. t.op \in {"remove", "unset", "set", "add"}
        BY <1>2 DEF Task
      <4>. QED  BY <4>3, <4>4, <4>5, <4>6
    <3>. QED  BY <1>2, <2>1, <3>1 DEF StoreInv, RemovesInv
  <2>3. KeyInv'
    BY <1>2, <2>1 DEF StoreInv, KeyInv
  <2>4. PlainInv'
    BY <1>2, <2>1 DEF StoreInv, PlainInv, Settled
  <2>. QED  BY <2>2, <2>3, <2>4 DEF StoreInv
<1>4. BatchTells'
  <2>1. CASE ~InSave
    <3>1. phase' \notin {"tasks", "order", "ordered"} \/ late' \/ refused'
      BY <1>2, <2>1 DEF InSave
    <3>. QED  BY <3>1, Quiet
  <2>2. CASE InSave
    <3>1. TasksTell'
      BY <1>2, <2>2 DEF SInv, BatchTells, TasksTell, TaskTold, Has, Stage, NoOptions
    <3>2. NamesTell' /\ DeliveredInv' /\ (sent.clean => AddedInOrder')
      <4>1. t.op \in {"remove", "unset", "set", "add"}
        BY <1>2 DEF Task
      <4>. QED  BY <1>1, <2>2, <4>1, RemoveServed, OptionsServed, AddServed
    <3>3. OrderInv'
      <4>1. SUFFICES ASSUME sent.clean PROVE ShownInOrder' /\ MixedTold'
        BY <1>2, <3>2 DEF OrderInv
      <4>2. ShownInOrder /\ MixedTold
        BY <2>2, <4>1 DEF SInv, BatchTells, OrderInv
      <4>3. ShownInOrder'
        BY <1>2, <4>2 DEF ShownInOrder, Visible, Index
      <4>4. MixedTold'
        BY <1>2, <4>2 DEF MixedTold, Deletes, Adds
      <4>. QED  BY <4>3, <4>4
    <3>. QED  BY <3>1, <3>2, <3>3 DEF BatchTells
  <2>. QED  BY <2>1, <2>2
<1>5. SavedIsShown'
  BY <1>2, QuietSaved
<1>. QED  BY <1>3, <1>4, <1>5 DEF SInv
-----------------------------------------------------------------------------
(* The order is sent                                                       *)

(* Picking the first elements of a sequence.                                *)
LEMMA PickedPrefix ==
  ASSUME NEW k \in Nat, NEW s
  PROVE  Picked(s, 1..k) = [i \in 1..k |-> s[i]]
<1>1. ASSUME NEW i \in 1..k PROVE Rank(1..k, i) = i
  <2>1. {j \in 1..k : j <= i} = 1..i
    OBVIOUS
  <2>2. Cardinality(1..i) = i
    BY FS_Interval
  <2>. QED  BY <2>1, <2>2 DEF Rank
<1>2. ASSUME NEW i \in 1..k PROVE Nth(1..k, i) = i
  BY <1>1 DEF Nth
<1>3. Cardinality(1..k) = k
  BY FS_Interval
<1>. QED  BY <1>2, <1>3 DEF Picked

(* All calls of the batch have been carried out.                           *)
LEMMA AllDone ==
  ASSUME IInv, SInv, InSave, Len(replies) = Len(tasks)
  PROVE  /\ \A s \in Sid : s \in removed <=> DoneOp("remove", s)
         /\ \A s \in Sid : creates[s] # Nil <=> Added(s)
         /\ \A s \in Sid : deletes[s] # {} => DoneOp("unset", s)
         /\ \A s \in Sid : changes[s] # NoOptions => DoneOp("set", s)
         /\ removed # {} => Deletes
         /\ \A s \in Sid : creates[s] # Nil => Adds
<1>1. TasksTell
  BY DEF SInv, BatchTells
<1>2. \A op, s : DoneOp(op, s) <=> Has(op, s)
  BY DEF DoneOp, Has
<1>3. \A s : /\ Has("remove", s) => s \in removed /\ Deletes
             /\ Has("add", s) => creates[s] # Nil /\ Adds
  BY <1>1 DEF TasksTell, TaskTold, Has, Deletes, Adds
<1>4. removed \in SUBSET Sid
  BY DEF IInv, TypeOK
<1>. QED  BY <1>1, <1>2, <1>3, <1>4 DEF TasksTell, Added

(* Where nothing was deleted, the replies to the additions are those that  *)
(* the created sections are named after.                                   *)
LEMMA PatchedNames ==
  ASSUME IInv, SInv, InSave, phase = "tasks", Len(replies) = Len(tasks), ~Deletes,
         NEW s \in Sid, creates[s] # Nil
  PROVE  NamesPatched[s] = [creates[s] EXCEPT !.name = names[s]]
<1>1. /\ tasks \in Seq(Task) /\ TasksTell /\ NamesTell
  BY DEF IInv, BatchInv, SInv, BatchTells
<1>2. PICK N \in Nat : N = Len(tasks)
  BY <1>1
<1>3. PICK adds : adds = {i \in DOMAIN tasks : tasks[i].op = "add"}
  OBVIOUS
<1>4. adds \in SUBSET (1..N) /\ \A i \in 1..N : i \in adds <=> tasks[i].op = "add"
  BY <1>1, <1>2, <1>3
<1>5. PICK n \in 1..N : tasks[n].op = "add" /\ tasks[n].sid = s
  BY <1>1, <1>2 DEF TasksTell, Has
<1>6. PICK m \in adds : \A i \in adds : i <= m
  <2>1. adds \in SUBSET (0..N) /\ adds # {}
    BY <1>4, <1>5
  <2>. QED  BY <1>2, <2>1, MaxOf
<1>7. adds = 1..m
  <2>1. ASSUME NEW i \in 1..N, i < m PROVE i \in adds
    <3>1. tasks[i] \in Task /\ tasks[i].op \notin {"remove", "unset"}
      BY <1>1, <1>2 DEF Deletes
    <3>2. Stage(tasks[i]) <= Stage(tasks[m]) /\ tasks[m].op = "add"
      BY <1>1, <1>2, <1>4, <2>1 DEF TasksTell
    <3>3. Stage(tasks[i]) <= 2
      BY <3>2 DEF Stage
    <3>4. tasks[i].op # "set"
      BY <3>3 DEF Stage
    <3>. QED  BY <1>4, <3>1, <3>4 DEF Task
  <2>2. m \in 1..N
    BY <1>4
  <2>3. \A i \in 1..m : i \in adds
    BY <2>1, <2>2
  <2>4. \A i \in adds : i \in 1..m
    BY <1>4, <1>6
  <2>. QED  BY <2>3, <2>4
<1>8. PICK new : new = Picked(tasks, adds)
  OBVIOUS
<1>9. /\ DOMAIN new = 1..m /\ m \in 1..N
      /\ \A i \in 1..m : new[i] = tasks[i] /\ tasks[i].op = "add"
  <2>1. m \in Nat /\ m \in 1..N
    BY <1>4
  <2>2. new = [i \in 1..m |-> tasks[i]]
    BY <1>7, <1>8, <2>1, PickedPrefix
  <2>. QED  BY <1>4, <1>7, <2>1, <2>2
<1>10. n \in 1..m /\ new[n].sid = s /\ new[n].born = creates[s].born
  <2>1. n \in 1..m
    BY <1>4, <1>5, <1>7
  <2>2. TaskTold(tasks[n])
    BY <1>1, <1>2 DEF TasksTell
  <2>. QED  BY <1>5, <1>9, <2>1, <2>2 DEF TaskTold
<1>11. \A i \in 1..m : new[i].sid = s => i = n
  <2>1. \A i, j \in 1..N : tasks[i].op = tasks[j].op /\ tasks[i].sid = tasks[j].sid => i = j
    BY <1>1, <1>2 DEF TasksTell
  <2>. QED  BY <1>5, <1>9, <1>10, <2>1
<1>12. (CHOOSE i \in DOMAIN new : new[i].sid = s) = n
  BY <1>9, <1>10, <1>11
<1>13. replies[n] = names[s]
  BY <1>1, <1>2, <1>5 DEF NamesTell
<1>14. NamesPatched[s] = [creates[s] EXCEPT !.name = replies[CHOOSE i \in DOMAIN new : new[i].sid = s]]
  BY <1>3, <1>8, <1>9, <1>10 DEF NamesPatched
<1>. QED  BY <1>12, <1>13, <1>14

(* The sections that are put in order: the page's own, by the names rpcd   *)
(* gave them, and the loaded ones.                                         *)
SentEntries(E) ==
  /\ \A e \in E : /\ e.sid \in Sid /\ e.index \in Int /\ e.key \in Int /\ e.create \in BOOLEAN
                  /\ e.create => /\ creates[e.sid] # Nil /\ e.name = names[e.sid]
                                 /\ e.index = creates[e.sid].index
                  /\ ~e.create => /\ values[e.sid] # Nil /\ e.name = e.sid
                                  /\ e.index = values[e.sid].index
  /\ \A e, f \in E : e.create = f.create /\ (e.sid = f.sid \/ e.key = f.key) => e = f
  /\ \A s \in Sid : creates[s] # Nil => \E e \in E : e.sid = s /\ e.create
  /\ \A s \in Sid : values[s] # Nil => \E e \in E : e.sid = s /\ ~e.create
  /\ IsFiniteSet(E)
LEMMA EntriesSent ==
  ASSUME IInv, SInv, SaveOrders, InSave, ~ (Deletes /\ Adds), NEW E, E = Created' \cup Loaded
  PROVE  SentEntries(E)
<1>1. /\ phase = "tasks" /\ Len(replies) = Len(tasks) /\ creates' = NamesPatched
      /\ UNCHANGED <<values, present>>
  BY DEF SaveOrders, Answered
<1>2. TypeOK /\ TypeOK' /\ LoadedInv' /\ CreatedInv'
  BY SaveOrdersKeeps DEF IInv
<1>3. \A s \in Sid : creates[s] # Nil => Adds
  BY <1>1, AllDone
<1>4. ASSUME NEW s \in Sid
      PROVE  /\ creates'[s] = Nil <=> creates[s] = Nil
             /\ creates[s] # Nil => /\ creates'[s].name = names[s]
                                    /\ creates'[s].index = creates[s].index
                                    /\ creates'[s].born = creates[s].born
  <2>1. CASE creates[s] = Nil
    BY <1>1, <2>1, NamesTyped
  <2>2. CASE creates[s] # Nil
    <3>1. creates'[s] = [creates[s] EXCEPT !.name = names[s]]
      BY <1>1, <1>3, <2>2, PatchedNames
    <3>2. creates[s] \in CreatedSection
      BY <1>2, <2>2, Typed
    <3>3. creates'[s].name = names[s]
      BY <3>1, <3>2 DEF CreatedSection
    <3>. QED  BY <1>1, <2>2, <3>3, NamesTyped
  <2>. QED  BY <2>1, <2>2
<1>5. EntriesOrdered'
  BY <1>2, EntriesInOrder, PTL
<1>6. Loaded' = Loaded
  BY <1>1 DEF Loaded
<1>7. /\ IsFiniteSet(E)
      /\ \A e \in E : e.index \in Int /\ e.key \in Int /\ e.create \in BOOLEAN
      /\ \A e, f \in E : e.create = f.create /\ e.key = f.key => e = f
  BY <1>5, <1>6 DEF EntriesOrdered
<1>8. /\ \A e \in Created' : /\ e.create = TRUE /\ e.sid \in Sid /\ creates'[e.sid] # Nil
                             /\ e.name = creates'[e.sid].name /\ e.index = creates'[e.sid].index
                             /\ e.key = creates'[e.sid].born
      /\ \A e \in Loaded : /\ e.create = FALSE /\ e.sid \in Sid /\ values[e.sid] # Nil
                           /\ e.name = e.sid /\ e.index = values[e.sid].index
                           /\ e.key = values[e.sid].key
  BY DEF Created, Loaded
<1>9. \A e \in E : /\ e.create => e \in Created'
                   /\ ~e.create => e \in Loaded
  BY <1>8
<1>10. ASSUME NEW e \in E, NEW f \in E, e.create = f.create, e.sid = f.sid PROVE e = f
  <2>1. e.key = f.key
    BY <1>7, <1>8, <1>9, <1>10
  <2>. QED  BY <1>7, <1>10, <2>1
<1>11. ASSUME NEW s \in Sid, creates[s] # Nil PROVE \E e \in E : e.sid = s /\ e.create
  <2>1. PICK e : e = [sid |-> s, name |-> creates'[s].name, index |-> creates'[s].index,
                      key |-> creates'[s].born, create |-> TRUE]
    OBVIOUS
  <2>2. e \in Created'
    BY <1>4, <1>11, <2>1 DEF Created
  <2>. QED  BY <2>1, <2>2
<1>12. ASSUME NEW s \in Sid, values[s] # Nil PROVE \E e \in E : e.sid = s /\ ~e.create
  <2>1. PICK e : e = [sid |-> s, name |-> s, index |-> values[s].index,
                      key |-> values[s].key, create |-> FALSE]
    OBVIOUS
  <2>2. e \in Loaded
    BY <1>12, <2>1 DEF Loaded
  <2>. QED  BY <2>1, <2>2
<1>13. ASSUME NEW e \in E
       PROVE  /\ e.sid \in Sid
              /\ e.create => /\ creates[e.sid] # Nil /\ e.name = names[e.sid]
                             /\ e.index = creates[e.sid].index
              /\ ~e.create => /\ values[e.sid] # Nil /\ e.name = e.sid
                              /\ e.index = values[e.sid].index
  BY <1>4, <1>8, <1>9
<1>. QED  BY <1>7, <1>10, <1>11, <1>12, <1>13 DEF SentEntries

(* The names that are sent are in the order the page showed.                *)
LEMMA OrderListed ==
  ASSUME IInv, SInv, SaveOrders, InSave, sent.clean, ~sent.mixed
  PROVE  ListedInOrder'
<1>1. /\ phase = "tasks" /\ Len(replies) = Len(tasks) /\ reorder
      /\ listed' = LET entries == ByIndex(Created' \cup Loaded, TRUE)
                   IN [i \in DOMAIN entries |-> entries[i].name]
      /\ creates' = NamesPatched
      /\ UNCHANGED <<values, removed, order, names>>
  BY DEF SaveOrders, Answered, server, history
<1>2. /\ NamesTell /\ DeliveredInv /\ OrderInv /\ TasksTell
  BY DEF SInv, BatchTells
<1>3. /\ \A x \in Sid : x \in ToSet(order) <=> Here(x) \/ \E s \in Sid : Added(s) /\ names[s] = x
      /\ \A s, t \in Sid : Added(s) /\ Added(t) /\ names[s] = names[t] => s = t
      /\ \A s \in Sid : Added(s) => ~Here(names[s])
      /\ present /\ ~drift
  BY <1>2 DEF DeliveredInv
<1>4. /\ \A s \in Sid : names[s] \in Sid /\ (~Added(s) => names[s] = s)
  BY <1>2 DEF NamesTell
<1>5. ~ (Deletes /\ Adds)
  BY <1>1, <1>2 DEF OrderInv, MixedTold
<1>6. /\ \A s \in Sid : s \in removed <=> DoneOp("remove", s)
      /\ \A s \in Sid : creates[s] # Nil <=> Added(s)
      /\ removed # {} => Deletes
      /\ \A s \in Sid : creates[s] # Nil => Adds
  BY <1>1, AllDone
<1>7. PICK E : E = Created' \cup Loaded
  OBVIOUS
<1>8. /\ \A e \in E : /\ e.sid \in Sid /\ e.index \in Int /\ e.key \in Int /\ e.create \in BOOLEAN
                      /\ e.create => /\ creates[e.sid] # Nil /\ e.name = names[e.sid]
                                     /\ e.index = creates[e.sid].index
                      /\ ~e.create => /\ values[e.sid] # Nil /\ e.name = e.sid
                                      /\ e.index = values[e.sid].index
      /\ \A e, f \in E : e.create = f.create /\ (e.sid = f.sid \/ e.key = f.key) => e = f
      /\ \A s \in Sid : creates[s] # Nil => \E e \in E : e.sid = s /\ e.create
      /\ \A s \in Sid : values[s] # Nil => \E e \in E : e.sid = s /\ ~e.create
      /\ IsFiniteSet(E)
  <2>1. SentEntries(E)
    BY <1>5, <1>7, EntriesSent
  <2>. QED  BY <2>1 DEF SentEntries
<1>9. PICK es : es = ByIndex(E, TRUE)
  OBVIOUS
<1>10. /\ es \in Seq(E) /\ Distinct(es) /\ \A e \in E : \E i \in 1..Len(es) : es[i] = e
       /\ \A i, j \in 1..Len(es) : i < j => Before(es[i], es[j], TRUE)
  <2>1. IsFiniteSet(E)
    BY <1>8
  <2>2. /\ \A e \in E : e.index \in Int /\ e.key \in Int /\ e.create \in BOOLEAN
        /\ \A e, f \in E : e.create = f.create /\ e.key = f.key => e = f
    BY <1>8
  <2>3. es \in Seq(E) /\ Distinct(es)
    BY <1>9, <2>1, <2>2, ByIndexLists
  <2>4. \A e \in E : \E i \in 1..Len(es) : es[i] = e
    <3>1. TRUE \in BOOLEAN
      OBVIOUS
    <3>2. \A e \in E : \E i \in 1..Len(ByIndex(E, TRUE)) : ByIndex(E, TRUE)[i] = e
      BY <2>1, <2>2, <3>1, ByIndexLists, Zenon
    <3>. QED  BY <1>9, <3>2
  <2>5. \A i, j \in 1..Len(es) : i < j => Before(es[i], es[j], TRUE)
    BY <1>9, <2>1, <2>2, ByIndexLists
  <2>. QED  BY <2>3, <2>4, <2>5
<1>11. PICK n \in Nat : n = Len(es)
  BY <1>10
<1>12. PICK ls : ls = listed'
  OBVIOUS
<1>13. Len(ls) = n /\ \A i \in 1..n : es[i] \in E /\ ls[i] = es[i].name
  <2>1. ls = [i \in DOMAIN es |-> es[i].name]
    BY <1>1, <1>7, <1>9, <1>12
  <2>2. DOMAIN es = 1..n /\ n \in Nat
    BY <1>10, <1>11
  <2>3. ls = [i \in 1..n |-> es[i].name]
    BY <2>1, <2>2
  <2>4. Len(ls) = n
    BY <2>2, <2>3
  <2>5. \A i \in 1..n : es[i] \in E
    BY <1>10, <1>11
  <2>. QED  BY <2>3, <2>4, <2>5
<1>14. ASSUME NEW e \in E, NEW f \in E, e.name = f.name PROVE e = f
  <2>1. CASE e.create /\ f.create
    BY <1>3, <1>6, <1>8, <1>14, <2>1
  <2>2. CASE ~e.create /\ ~f.create
    BY <1>8, <1>14, <2>2
  <2>3. ASSUME NEW g \in E, NEW h \in E, g.create, ~h.create, g.name = h.name PROVE FALSE
    <3>1. Added(g.sid) /\ names[g.sid] = h.sid /\ values[h.sid] # Nil /\ h.sid \in Sid
      BY <1>6, <1>8, <2>3
    <3>2. ~Deletes
      BY <1>5, <1>6, <1>8, <2>3
    <3>3. Here(h.sid)
      BY <1>6, <3>1, <3>2 DEF Here
    <3>. QED  BY <1>3, <1>8, <2>3, <3>1, <3>3
  <2>. QED  BY <1>8, <1>14, <2>1, <2>2, <2>3
<1>15. \A i, j \in 1..n : ls[i] = ls[j] => i = j
  <2>1. ASSUME NEW i \in 1..n, NEW j \in 1..n, ls[i] = ls[j] PROVE i = j
    <3>1. es[i] = es[j]
      BY <1>13, <1>14, <2>1
    <3>. QED  BY <1>10, <1>11, <3>1 DEF Distinct
  <2>. QED  BY <2>1
<1>16. ASSUME NEW x \in ToSet(order) PROVE \E i \in 1..n : ls[i] = x
  <2>1. x \in Sid
    BY OrderInSid DEF ToSet, IInv, ServerInv
  <2>2. PICK e \in E : e.name = x
    <3>1. CASE Here(x)
      BY <1>8, <2>1, <3>1 DEF Here
    <3>2. CASE \E s \in Sid : Added(s) /\ names[s] = x
      BY <1>6, <1>8, <3>2
    <3>. QED  BY <1>3, <1>16, <2>1, <3>1, <3>2
  <2>3. PICK i \in 1..n : es[i] = e
    BY <1>10, <1>11
  <2>. QED  BY <1>13, <2>2, <2>3
<1>17. \A s \in Sid : /\ Visible(s)' <=> Visible(s)
                      /\ Visible(s) => Index(s)' = Index(s)
  BY <1>1, NamesTyped DEF Visible, Index
<1>18. ASSUME NEW s \in Sid, Visible(s), NEW e \in E, e.name = names[s]
       PROVE  e.index = Index(s) /\ Index(s) \in Nat
  <2>1. CASE creates[s] # Nil
    <3>1. PICK f \in E : f.sid = s /\ f.create
      BY <1>8, <2>1
    <3>2. e = f
      BY <1>8, <1>14, <1>18, <3>1
    <3>3. creates[s].index \in Nat
      BY <2>1, Typed DEF IInv
    <3>. QED  BY <1>8, <2>1, <3>1, <3>2, <3>3 DEF Index
  <2>2. CASE creates[s] = Nil
    <3>1. values[s] # Nil /\ names[s] = s
      BY <1>4, <1>6, <1>18, <2>2 DEF Visible
    <3>2. PICK f \in E : f.sid = s /\ ~f.create
      BY <1>8, <3>1
    <3>3. e = f
      BY <1>8, <1>14, <1>18, <3>1, <3>2
    <3>4. values[s].index \in Nat
      BY <3>1, Typed DEF IInv
    <3>. QED  BY <1>8, <2>2, <3>2, <3>3, <3>4 DEF Index
  <2>. QED  BY <2>1, <2>2
<1>19. ASSUME NEW i \in 1..n, NEW j \in 1..n, i < j, NEW s \in Sid, NEW t \in Sid,
              Visible(s), Visible(t), ls[i] = names[s], ls[j] = names[t]
       PROVE  Index(s) < Index(t)
  <2>1. /\ es[i] \in E /\ es[j] \in E /\ es[i].index = Index(s) /\ es[j].index = Index(t)
        /\ Index(s) \in Nat /\ Index(t) \in Nat
    BY <1>13, <1>18, <1>19
  <2>2. Before(es[i], es[j], TRUE)
    BY <1>10, <1>11, <1>19
  <2>3. es[i].index <= es[j].index
    BY <2>1, <2>2 DEF Before
  <2>4. s # t
    BY <1>15, <1>19
  <2>5. Settled
    BY <1>1, <1>3 DEF Settled
  <2>6. Index(s) # Index(t)
    BY <1>19, <2>4, <2>5 DEF IInv, IndexInv
  <2>. QED  BY <2>1, <2>3, <2>6
<1>20. \A s, t \in Sid : Visible(s)' /\ Visible(t)' /\ Index(s) < Index(t) => Index(s)' < Index(t)'
  BY <1>17
<1>21. \A i, j \in 1..n : i < j =>
         \A s, t \in Sid : Visible(s)' /\ Visible(t)' /\ ls[i] = names[s] /\ ls[j] = names[t]
           => Index(s)' < Index(t)'
  <2>1. ASSUME NEW i \in 1..n, NEW j \in 1..n, i < j, NEW s \in Sid, NEW t \in Sid,
               Visible(s)', Visible(t)', ls[i] = names[s], ls[j] = names[t]
        PROVE  Index(s)' < Index(t)'
    <3>1. Visible(s) /\ Visible(t)
      BY <1>17, <2>1
    <3>2. Index(s) < Index(t)
      BY <1>19, <2>1, <3>1
    <3>. QED  BY <1>20, <2>1, <3>2
  <2>. QED  BY <2>1
<1>22. /\ \A i, j \in 1..Len(ls) : ls[i] = ls[j] /\ ls[i] \in ToSet(order) => i = j
       /\ \A x \in ToSet(order) : \E i \in 1..Len(ls) : ls[i] = x
       /\ \A i, j \in 1..Len(ls) : i < j =>
            \A s, t \in Sid : Visible(s)' /\ Visible(t)' /\ ls[i] = names[s] /\ ls[j] = names[t]
              => Index(s)' < Index(t)'
  BY <1>13, <1>15, <1>16, <1>21
<1>23. order' = order /\ names' = names
  BY <1>1
<1>. QED  BY <1>12, <1>22, <1>23 DEF ListedInOrder
-----------------------------------------------------------------------------
(* rpcd puts the sections in order                                         *)

(* The first places hold the sections that n names of the list ask for, in *)
(* the order of the list.                                                  *)
Fronted(old, wanted, n, k, seq) ==
  /\ k <= Len(old)
  /\ \A p \in 1..k : \E i \in 1..n : wanted[i] = seq[p]
  /\ \A i \in 1..n : wanted[i] \in ToSet(old) => \E p \in 1..k : seq[p] = wanted[i]
  /\ \A p, q \in 1..k, i, j \in 1..n :
       p < q /\ seq[p] = wanted[i] /\ seq[q] = wanted[j] => i < j
Stands(old, wanted, n, a) == Fronted(old, wanted, n, a.place - 1, a.seq)

(* The elements of a sequence are in its set.                               *)
LEMMA ElementOf ==
  ASSUME NEW S, NEW s \in Seq(S), NEW i \in 1..Len(s)
  PROVE  s[i] \in ToSet(s)
BY DEF ToSet

(* Moving one section to the next place from the front.                     *)
LEMMA StepFronts ==
  ASSUME NEW old \in Seq(Remote), NEW S, NEW wanted \in Seq(S),
         \A i, j \in 1..Len(wanted) :
           wanted[i] = wanted[j] /\ wanted[i] \in ToSet(old) => i = j,
         NEW n \in 1..Len(wanted), NEW a \in Orders(old), Stands(old, wanted, n - 1, a)
  PROVE  Stands(old, wanted, n, OrderStep(old, a, wanted[n]))
<1>. DEFINE s == wanted[n]
<1>1. CASE s \notin ToSet(old)
  <2>1. OrderStep(old, a, s) = a
    BY <1>1 DEF OrderStep
  <2>2. \A p \in 1..(a.place - 1) : a.seq[p] # s
    <3>1. a.place \in Nat \ {0} /\ a.seq \in Seq(Remote) /\ Len(a.seq) = Len(old) /\ ToSet(a.seq) = ToSet(old)
      BY DEF Orders
    <3>2. a.place - 1 <= Len(old)
      BY DEF Stands, Fronted
    <3>3. \A p \in 1..(a.place - 1) : p \in 1..Len(a.seq)
      BY <3>1, <3>2
    <3>. QED  BY <1>1, <3>1, <3>3, ElementOf
  <2>3. \A i \in 1..n : i \in 1..(n - 1) \/ i = n
    OBVIOUS
  <2>4. 1..(n - 1) \subseteq 1..n
    OBVIOUS
  <2>. QED  BY <1>1, <2>1, <2>2, <2>3, <2>4 DEF Stands, Fronted
<1>2. CASE s \in ToSet(old)
  <2>1. PICK k \in Nat, seq \in Seq(Remote) : k + 1 = a.place /\ k = a.place - 1 /\ seq = a.seq
    <3>1. a.place \in Nat \ {0} /\ a.seq \in Seq(Remote)
      BY DEF Orders
    <3>2. a.place - 1 \in Nat /\ (a.place - 1) + 1 = a.place
      BY <3>1
    <3>. QED  BY <3>1, <3>2
  <2>2. Len(seq) = Len(old) /\ Distinct(seq) /\ ToSet(seq) = ToSet(old)
    BY <2>1 DEF Orders
  <2>3. /\ k <= Len(old)
        /\ \A p \in 1..k : \E i \in 1..(n - 1) : wanted[i] = seq[p]
        /\ \A i \in 1..(n - 1) : wanted[i] \in ToSet(old) => \E p \in 1..k : seq[p] = wanted[i]
        /\ \A p, q \in 1..k, i, j \in 1..(n - 1) :
             p < q /\ seq[p] = wanted[i] /\ seq[q] = wanted[j] => i < j
    <3>1. Fronted(old, wanted, n - 1, k, seq)
      BY <2>1 DEF Stands
    <3>. QED  BY <3>1 DEF Fronted
  <2>4. PICK at \in 1..Len(seq) : at = Place(seq, s) /\ seq[at] = s
    BY <1>2, <2>2, PlaceFinds
  <2>5. at > k
    <3>1. SUFFICES ASSUME at \in 1..k PROVE FALSE
      OBVIOUS
    <3>2. PICK i \in 1..(n - 1) : wanted[i] = s
      BY <2>3, <2>4, <3>1
    <3>3. i \in 1..Len(wanted) /\ i # n
      OBVIOUS
    <3>. QED  BY <1>2, <3>2, <3>3
  <2>6. k + 1 \in 1..Len(old) /\ k + 1 <= Len(old)
    BY <2>2, <2>5
  <2>7. Min({k + 1, Len(old)}) = k + 1
    <3>1. {k + 1, Len(old)} \in SUBSET Nat
      OBVIOUS
    <3>2. /\ Min({k + 1, Len(old)}) \in {k + 1, Len(old)}
          /\ Min({k + 1, Len(old)}) <= k + 1
      BY <3>1, MinOf
    <3>. QED  BY <2>6, <3>2
  <2>8. PICK rest : rest = RemoveAt(seq, at)
    OBVIOUS
  <2>9. /\ rest \in Seq(Remote) /\ Len(rest) = Len(seq) - 1
        /\ \A i \in 1..Len(rest) : rest[i] = IF i < at THEN seq[i] ELSE seq[i + 1]
    BY <2>8, ElementAway
  <2>10. PICK new : new = InsertAt(rest, k + 1, s)
    OBVIOUS
  <2>11. s \in Remote /\ k + 1 \in 1..(Len(rest) + 1)
    BY <2>2, <2>4, <2>6, <2>9
  <2>12. /\ new \in Seq(Remote) /\ Len(new) = Len(rest) + 1
         /\ \A i \in 1..Len(new) : /\ i < k + 1 => new[i] = rest[i]
                                   /\ i = k + 1 => new[i] = s
    <3>1. PICK p \in 1..(Len(rest) + 1) : p = k + 1
      BY <2>11
    <3>2. new = InsertAt(rest, p, s) /\ rest \in Seq(Remote) /\ s \in Remote
      BY <2>9, <2>10, <2>11, <3>1
    <3>3. new \in Seq(Remote) /\ Len(new) = Len(rest) + 1
      BY <3>2, ElementIn
    <3>4. \A i \in 1..(Len(rest) + 1) : /\ i < p => new[i] = rest[i]
                                        /\ i = p => new[i] = s
      <4>1. Inserted(new, rest, p, s)
        BY <3>2, ElementPlaced
      <4>. QED  BY <3>3, <4>1 DEF Inserted
    <3>. QED  BY <3>1, <3>3, <3>4
  <2>13. new[k + 1] = s /\ \A p \in 1..k : new[p] = seq[p]
    <3>1. ASSUME NEW p \in 1..k PROVE new[p] = seq[p]
      <4>1. p \in 1..Len(rest) /\ p \in 1..Len(new) /\ p < at /\ p < k + 1
        BY <2>2, <2>5, <2>6, <2>9, <2>12
      <4>. QED  BY <2>9, <2>12, <4>1
    <3>2. k + 1 \in 1..Len(new)
      BY <2>11, <2>12
    <3>. QED  BY <2>12, <3>1, <3>2
  <2>14. OrderStep(old, a, s) = [place |-> k + 2, seq |-> new]
    <3>1. InsertAt(RemoveAt(a.seq, Place(a.seq, s)), Min({a.place, Len(old)}), s) = new
      BY <2>1, <2>4, <2>7, <2>8, <2>10
    <3>2. a.place + 1 = k + 2
      BY <2>1
    <3>. QED  BY <1>2, <3>1, <3>2 DEF OrderStep
  <2>15. \A p \in 1..(k + 1) : \E i \in 1..n : wanted[i] = new[p]
    <3>1. ASSUME NEW p \in 1..k PROVE \E i \in 1..n : wanted[i] = new[p]
      <4>1. PICK i \in 1..(n - 1) : wanted[i] = seq[p]
        BY <2>3
      <4>2. i \in 1..n
        OBVIOUS
      <4>. QED  BY <2>13, <4>1, <4>2
    <3>2. n \in 1..n /\ \A p \in 1..(k + 1) : p \in 1..k \/ p = k + 1
      OBVIOUS
    <3>. QED  BY <2>13, <3>1, <3>2
  <2>16. \A i \in 1..n : wanted[i] \in ToSet(old) => \E p \in 1..(k + 1) : new[p] = wanted[i]
    <3>1. ASSUME NEW i \in 1..(n - 1), wanted[i] \in ToSet(old)
          PROVE  \E p \in 1..(k + 1) : new[p] = wanted[i]
      BY <2>3, <2>13, <3>1
    <3>2. \A i \in 1..n : i \in 1..(n - 1) \/ i = n
      OBVIOUS
    <3>. QED  BY <2>13, <3>1, <3>2
  <2>17. ASSUME NEW p \in 1..(k + 1), NEW q \in 1..(k + 1), NEW i \in 1..n, NEW j \in 1..n,
                p < q, new[p] = wanted[i], new[q] = wanted[j]
         PROVE  i < j
    <3>1. p \in 1..k
      BY <2>17
    <3>2. PICK l \in 1..(n - 1) : wanted[l] = seq[p]
      BY <2>3, <3>1
    <3>3. seq[p] \in ToSet(old) /\ i \in 1..Len(wanted) /\ l \in 1..Len(wanted)
      <4>1. p \in 1..Len(seq)
        BY <2>2, <2>3, <3>1
      <4>. QED  BY <2>2, <4>1, ElementOf
    <3>4. i = l
      BY <2>13, <2>17, <3>1, <3>2, <3>3
    <3>5. CASE q = k + 1
      <4>1. j \in 1..Len(wanted) /\ wanted[j] = wanted[n]
        BY <2>13, <2>17, <3>5
      <4>2. j = n
        BY <1>2, <4>1
      <4>. QED  BY <3>4, <4>2
    <3>6. CASE q # k + 1
      <4>1. q \in 1..k
        BY <3>6
      <4>2. PICK m \in 1..(n - 1) : wanted[m] = seq[q]
        BY <2>3, <4>1
      <4>3. seq[q] \in ToSet(old) /\ j \in 1..Len(wanted) /\ m \in 1..Len(wanted)
        <5>1. q \in 1..Len(seq)
          BY <2>2, <2>3, <4>1
        <5>. QED  BY <2>2, <5>1, ElementOf
      <4>4. j = m
        BY <2>13, <2>17, <4>1, <4>2, <4>3
      <4>. QED  BY <2>3, <2>17, <3>1, <3>2, <3>4, <4>1, <4>2, <4>4
    <3>. QED  BY <3>5, <3>6
  <2>18. PICK b : b = [place |-> k + 2, seq |-> new]
    OBVIOUS
  <2>19. b.seq = new /\ b.place - 1 = k + 1
    BY <2>18
  <2>20. Fronted(old, wanted, n, k + 1, new)
    BY <2>6, <2>15, <2>16, <2>17 DEF Fronted
  <2>. QED  BY <2>14, <2>18, <2>19, <2>20 DEF Stands
<1>. QED  BY <1>1, <1>2

(* Sections that are each named once end up in the order of the names.     *)
NamesEach(wanted, old) ==
  /\ \A i, j \in 1..Len(wanted) :
       wanted[i] = wanted[j] /\ wanted[i] \in ToSet(old) => i = j
  /\ \A x \in ToSet(old) : \E i \in 1..Len(wanted) : wanted[i] = x
InOrderOf(new, wanted) ==
  \A p, q \in 1..Len(new) : p < q =>
    \E i, j \in 1..Len(wanted) : i < j /\ new[p] = wanted[i] /\ new[q] = wanted[j]

LEMMA OrderedFollows ==
  ASSUME NEW old \in Seq(Remote), Distinct(old), NEW S, NEW wanted \in Seq(S),
         NamesEach(wanted, old)
  PROVE  InOrderOf(Ordered(old, wanted), wanted)
<1>. DEFINE new == Ordered(old, wanted)
<1>. HIDE DEF new
<1>0. PICK h : Stepwise(old, wanted, h)
  BY OrderedSteps
<1>1. /\ h \in [0..Len(wanted) -> Orders(old)]
      /\ h[0] = [place |-> 1, seq |-> old]
      /\ \A i \in 1..Len(wanted) : h[i] = OrderStep(old, h[i - 1], wanted[i])
      /\ new = h[Len(wanted)].seq
  BY <1>0 DEF Stepwise, new
<1>10. /\ \A i, j \in 1..Len(wanted) :
           wanted[i] = wanted[j] /\ wanted[i] \in ToSet(old) => i = j
      /\ \A x \in ToSet(old) : \E i \in 1..Len(wanted) : wanted[i] = x
  BY DEF NamesEach
<1>2. PICK N \in Nat : N = Len(wanted)
  OBVIOUS
<1>3. \A n \in 0..N : Stands(old, wanted, n, h[n])
  <2>. DEFINE Bad == {m \in 0..N : ~Stands(old, wanted, m, h[m])}
  <2>1. SUFFICES ASSUME Bad # {} PROVE FALSE
    OBVIOUS
  <2>2. Bad \in SUBSET Nat
    OBVIOUS
  <2>3. PICK m \in Bad : \A y \in Bad : m <= y
    <3>. HIDE DEF Bad
    <3>. QED  BY <2>1, <2>2, Least
  <2>4. Stands(old, wanted, 0, h[0])
    <3>1. h[0].place = 1
      BY <1>1
    <3>. QED  BY <3>1 DEF Stands, Fronted
  <2>5. m \in 1..N /\ m - 1 \in 0..N /\ m - 1 \notin Bad
    BY <2>3, <2>4
  <2>6. Stands(old, wanted, m - 1, h[m - 1])
    BY <2>5
  <2>7. h[m - 1] \in Orders(old) /\ h[m] = OrderStep(old, h[m - 1], wanted[m]) /\ m \in 1..Len(wanted)
    BY <1>1, <1>2, <2>5
  <2>8. Stands(old, wanted, m, h[m])
    BY <1>10, <2>6, <2>7, StepFronts
  <2>. QED  BY <2>3, <2>8
<1>4. PICK a \in Orders(old) : a = h[N] /\ a.seq = new /\ Stands(old, wanted, N, a)
  BY <1>1, <1>2, <1>3
<1>5. a.place \in Nat \ {0} /\ new \in Seq(Remote) /\ Len(new) = Len(old) /\ Distinct(new) /\ ToSet(new) = ToSet(old)
  BY <1>4 DEF Orders
<1>6. PICK k \in Nat : k = a.place - 1
  BY <1>5
<1>7. /\ k <= Len(old)
      /\ \A p \in 1..k : \E i \in 1..N : wanted[i] = new[p]
      /\ \A i \in 1..N : wanted[i] \in ToSet(old) => \E p \in 1..k : new[p] = wanted[i]
      /\ \A p, q \in 1..k, i, j \in 1..N :
           p < q /\ new[p] = wanted[i] /\ new[q] = wanted[j] => i < j
  <2>1. Fronted(old, wanted, N, k, new)
    BY <1>4, <1>6 DEF Stands
  <2>. QED  BY <2>1 DEF Fronted
<1>8. ASSUME NEW p \in 1..Len(new) PROVE p \in 1..k
  <2>1. new[p] \in ToSet(old)
    <3>1. new[p] \in ToSet(new)
      BY <1>5, ElementOf
    <3>. QED  BY <1>5, <3>1
  <2>2. PICK i \in 1..N : wanted[i] = new[p]
    BY <1>2, <1>10, <2>1
  <2>3. PICK q \in 1..k : new[q] = wanted[i]
    BY <1>7, <2>1, <2>2
  <2>4. q \in 1..Len(new)
    BY <1>5, <1>7
  <2>5. q = p
    BY <1>5, <2>2, <2>3, <2>4 DEF Distinct
  <2>. QED  BY <2>5
<1>9. ASSUME NEW p \in 1..Len(new), NEW q \in 1..Len(new), p < q
      PROVE  \E i, j \in 1..Len(wanted) : i < j /\ new[p] = wanted[i] /\ new[q] = wanted[j]
  <2>1. p \in 1..k /\ q \in 1..k
    BY <1>8
  <2>2. PICK i \in 1..N, j \in 1..N : wanted[i] = new[p] /\ wanted[j] = new[q]
    BY <1>7, <2>1
  <2>3. i < j
    BY <1>7, <1>9, <2>1, <2>2
  <2>. QED  BY <1>2, <2>2, <2>3
<1>. QED  BY <1>9 DEF new, InOrderOf
LEMMA SaveOrdersSaves ==
  ASSUME IInv, SInv, SaveOrders
  PROVE  SInv'
<1>1. /\ phase = "tasks" /\ Len(replies) = Len(tasks) /\ ~refused /\ reorder
      /\ phase' = "order" /\ creates' = NamesPatched
      /\ UNCHANGED <<values, present, changes, removed, deletes, order, options, tasks, replies,
                     refused, rendered, sent, names, late, drift>>
  BY DEF SaveOrders, Answered, Accepted, server, history
<1>2. \A s \in Sid : /\ creates'[s] = Nil <=> creates[s] = Nil
                     /\ creates[s] # Nil => /\ creates'[s].named = creates[s].named
                                            /\ creates'[s].index = creates[s].index
                                            /\ creates'[s].born = creates[s].born
                                            /\ creates'[s].opts = creates[s].opts
  BY <1>1, NamesTyped
<1>3. StoreInv'
  <2>1. RemovesInv'
    BY <1>1 DEF SInv, StoreInv, RemovesInv
  <2>2. KeyInv'
    BY <1>1 DEF SInv, StoreInv, KeyInv
  <2>3. PlainInv'
    BY <1>1 DEF PlainInv, Settled
  <2>. QED  BY <2>1, <2>2, <2>3 DEF StoreInv
<1>4. SavedIsShown'
  BY <1>1, QuietSaved
<1>5. CASE late
  BY <1>1, <1>3, <1>4, <1>5, Quiet DEF SInv
<1>6. CASE ~late
  <2>1. InSave
    BY <1>1, <1>6 DEF InSave
  <2>2. /\ \A op, s : (DoneOp(op, s)' <=> DoneOp(op, s)) /\ (Has(op, s)' <=> Has(op, s))
        /\ \A s : (Added(s)' <=> Added(s)) /\ (Here(s)' <=> Here(s))
        /\ (Deletes' <=> Deletes) /\ (Adds' <=> Adds)
    BY <1>1 DEF DoneOp, Has, Added, Here, Deletes, Adds
  <2>3. \A s \in Sid : /\ Visible(s)' <=> Visible(s)
                       /\ Visible(s) => Index(s)' = Index(s)
    BY <1>1, <1>2 DEF Visible, Index
  <2>4. TasksTell /\ NamesTell /\ DeliveredInv /\ OrderInv
    BY DEF SInv, BatchTells
  <2>5. TasksTell'
    <3>1. \A i \in 1..Len(tasks) : tasks[i] \in Task /\ tasks[i].sid \in Sid
      <4>1. tasks \in Seq(Task)
        BY DEF IInv, BatchInv
      <4>2. \A t \in Task : t.sid \in Sid
        BY DEF Task
      <4>. QED  BY <4>1, <4>2
    <3>2. \A i \in 1..Len(tasks) : TaskTold(tasks[i])
      BY <2>1, <2>4 DEF TasksTell
    <3>3. \A i \in 1..Len(tasks) : TaskTold(tasks[i])'
      BY <1>1, <1>2, <3>1, <3>2 DEF TaskTold, NoOptions
    <3>. QED  BY <1>1, <1>2, <2>1, <2>2, <2>4, <3>3 DEF TasksTell, Stage, NoOptions
  <2>6. NamesTell'
    <3>1. Table' = Table
      BY SaveOrdersRefines
    <3>2. Len(replies) = Len(tasks) /\ sent.table = Table /\ names \in [Sid -> Sid]
      BY <1>1, <2>1, <2>4 DEF NamesTell
    <3>3. \A s \in Sid :
            /\ ~Added(s)' => names[s] = s
            /\ Added(s)' => /\ names[s] \in ToSet(order)
                            /\ IF creates'[s].named THEN names[s] = s ELSE names[s] \in Fresh
      <4>1. \A s \in Sid : Added(s) => creates[s] # Nil
        BY <1>1, <2>1, AllDone
      <4>. QED  BY <1>2, <2>1, <2>2, <2>4, <4>1 DEF NamesTell
    <3>4. \A i \in 1..Len(replies) : tasks[i].op = "add" => replies[i] = names[tasks[i].sid]
      BY <2>1, <2>4 DEF NamesTell
    <3>. QED  BY <1>1, <3>1, <3>2, <3>3, <3>4 DEF NamesTell
  <2>7. DeliveredInv'
    BY <1>1, <2>1, <2>2, <2>4 DEF DeliveredInv, Expected
  <2>8. OrderInv'
    <3>1. SUFFICES ASSUME sent.clean PROVE OrderInv'
      BY <1>1 DEF OrderInv
    <3>2. ShownInOrder /\ MixedTold
      BY <2>1, <2>4, <3>1 DEF OrderInv
    <3>3. ShownInOrder'
      <4>1. \A i \in 1..Len(sent.order) : sent.order[i] \in Sid /\ Visible(sent.order[i])
        BY <3>2, ElementOf DEF ShownInOrder
      <4>2. \A i, j \in 1..Len(sent.order) : i < j =>
              Index(sent.order[i])' < Index(sent.order[j])'
        BY <1>1, <2>3, <3>2, <4>1 DEF ShownInOrder
      <4>. QED  BY <1>1, <2>3, <3>2, <4>2 DEF ShownInOrder
    <3>4. MixedTold'
      BY <1>1, <2>2, <3>2 DEF MixedTold
    <3>5. ~sent.mixed => ListedInOrder'
      BY <2>1, <3>1, OrderListed
    <3>. QED  BY <1>1, <3>3, <3>4, <3>5 DEF OrderInv
  <2>. QED  BY <1>3, <1>4, <2>5, <2>6, <2>7, <2>8 DEF SInv, BatchTells
<1>. QED  BY <1>5, <1>6

LEMMA ServeOrderSaves ==
  ASSUME IInv, SInv, ServeOrder
  PROVE  SInv'
<1>1. /\ phase = "order" /\ phase' = "ordered"
      /\ \/ order' = Ordered(order, listed) /\ UNCHANGED refused
         \/ refused' /\ UNCHANGED order
      /\ UNCHANGED <<values, present, creates, changes, removed, deletes, reorder, options, tasks,
                     replies, listed, rendered, sent, names, late, drift>>
  BY DEF ServeOrder, client, history
<1>2. ToSet(order') = ToSet(order)
  BY <1>1, OrderedKeeps DEF IInv, ServerInv, BatchInv
<1>3. StoreInv'
  <2>1. RemovesInv'
    BY <1>1, <1>2 DEF SInv, StoreInv, RemovesInv
  <2>2. KeyInv'
    BY <1>1 DEF SInv, StoreInv, KeyInv
  <2>3. PlainInv'
    BY <1>1 DEF PlainInv, Settled
  <2>. QED  BY <2>1, <2>2, <2>3 DEF StoreInv
<1>4. SavedIsShown'
  BY <1>1, QuietSaved
<1>5. CASE late' \/ refused'
  BY <1>3, <1>4, <1>5, Quiet DEF SInv
<1>6. CASE ~late' /\ ~refused'
  <2>1. InSave /\ order' = Ordered(order, listed)
    BY <1>1, <1>6 DEF InSave
  <2>2. /\ \A op, s : (DoneOp(op, s)' <=> DoneOp(op, s)) /\ (Has(op, s)' <=> Has(op, s))
        /\ \A s : (Added(s)' <=> Added(s)) /\ (Here(s)' <=> Here(s))
        /\ \A s : (Visible(s)' <=> Visible(s)) /\ Index(s)' = Index(s)
        /\ (Deletes' <=> Deletes) /\ (Adds' <=> Adds)
    BY <1>1 DEF DoneOp, Has, Added, Here, Deletes, Adds, Visible, Index
  <2>3. TasksTell /\ NamesTell /\ DeliveredInv /\ OrderInv
    BY DEF SInv, BatchTells
  <2>4. TasksTell'
    <3>1. \A i \in 1..Len(tasks) : TaskTold(tasks[i])' <=> TaskTold(tasks[i])
      BY <1>1 DEF TaskTold, NoOptions
    <3>. QED  BY <1>1, <2>1, <2>2, <2>3, <3>1 DEF TasksTell, Stage, NoOptions
  <2>5. NamesTell'
    <3>1. Table' = Table
      BY <1>1, SameTable
    <3>. QED  BY <1>1, <1>2, <2>1, <2>2, <2>3, <3>1 DEF NamesTell
  <2>6. DeliveredInv'
    BY <1>1, <1>2, <2>1, <2>2, <2>3 DEF DeliveredInv, Expected
  <2>7. OrderInv'
    <3>1. SUFFICES ASSUME sent.clean PROVE OrderInv'
      BY <1>1 DEF OrderInv
    <3>2. ShownInOrder /\ MixedTold
      BY <2>1, <2>3, <3>1 DEF OrderInv
    <3>3. ShownInOrder' /\ MixedTold'
      BY <1>1, <2>2, <3>2 DEF ShownInOrder, MixedTold
    <3>4. ASSUME ~sent.mixed PROVE StoredInOrder'
      <4>1. ListedInOrder
        BY <1>1, <2>1, <2>3, <3>1, <3>4 DEF OrderInv
      <4>2. order \in Seq(Remote) /\ Distinct(order) /\ listed \in Seq(Sid \cup {Nil})
        BY DEF IInv, ServerInv, BatchInv
      <4>3. PICK new : new = Ordered(order, listed)
        OBVIOUS
      <4>4. \A p, q \in 1..Len(new) : p < q =>
              \E i, j \in 1..Len(listed) : i < j /\ new[p] = listed[i] /\ new[q] = listed[j]
        <5>1. NamesEach(listed, order)
          BY <4>1 DEF ListedInOrder, NamesEach
        <5>2. InOrderOf(Ordered(order, listed), listed)
          BY <4>2, <5>1, OrderedFollows
        <5>3. InOrderOf(new, listed)
          BY <4>3, <5>2
        <5>. QED  BY <5>3 DEF InOrderOf
      <4>5. \A i, j \in 1..Len(listed) : i < j =>
              \A s, t \in Sid : Visible(s) /\ Visible(t) /\ listed[i] = names[s] /\ listed[j] = names[t]
                => Index(s) < Index(t)
        BY <4>1 DEF ListedInOrder
      <4>6. \A p, q \in 1..Len(new) : p < q =>
              \A s, t \in Sid : Visible(s)' /\ Visible(t)' /\ new[p] = names[s] /\ new[q] = names[t]
                => Index(s)' < Index(t)'
        <5>1. ASSUME NEW p \in 1..Len(new), NEW q \in 1..Len(new), p < q, NEW s \in Sid, NEW t \in Sid,
                     Visible(s)', Visible(t)', new[p] = names[s], new[q] = names[t]
              PROVE  Index(s)' < Index(t)'
          <6>1. PICK i \in 1..Len(listed), j \in 1..Len(listed) :
                  i < j /\ new[p] = listed[i] /\ new[q] = listed[j]
            BY <4>4, <5>1
          <6>2. Index(s) < Index(t)
            BY <2>2, <4>5, <5>1, <6>1
          <6>. QED  BY <2>2, <6>2
        <5>. QED  BY <5>1
      <4>. QED  BY <1>1, <2>1, <4>3, <4>6 DEF StoredInOrder
    <3>. QED  BY <1>1, <3>3, <3>4 DEF OrderInv
  <2>. QED  BY <1>3, <1>4, <2>4, <2>5, <2>6, <2>7 DEF SInv, BatchTells
<1>. QED  BY <1>5, <1>6
-----------------------------------------------------------------------------
(* The package is loaded again                                             *)

(* Two listings of a set in one order are one.                             *)
LEMMA OneListing ==
  ASSUME NEW S, NEW a \in Seq(S), NEW b \in Seq(S), Distinct(a), Distinct(b), ToSet(a) = ToSet(b),
         NEW R, \A x, y \in S : ~ (<<x, y>> \in R /\ <<y, x>> \in R),
         \A i, j \in 1..Len(a) : i < j => <<a[i], a[j]>> \in R,
         \A i, j \in 1..Len(b) : i < j => <<b[i], b[j]>> \in R
  PROVE  a = b
<1>1. PICK m \in Nat, n \in Nat : m = Len(a) /\ n = Len(b)
  OBVIOUS
<1>2. /\ \A i \in 1..m : a[i] \in S /\ \E k \in 1..n : b[k] = a[i]
      /\ \A i \in 1..n : b[i] \in S /\ \E k \in 1..m : a[k] = b[i]
  <2>1. \A i \in 1..m : a[i] \in ToSet(b)
    BY <1>1, ElementOf
  <2>2. \A i \in 1..n : b[i] \in ToSet(a)
    BY <1>1, ElementOf
  <2>. QED  BY <1>1, <2>1, <2>2 DEF ToSet
<1>. DEFINE Apart == {i \in Nat : i \in 1..m \cup 1..n /\ ~ (i \in 1..m /\ i \in 1..n /\ a[i] = b[i])}
<1>3. Apart = {}
  <2>1. SUFFICES ASSUME Apart # {} PROVE FALSE
    OBVIOUS
  <2>2. PICK i \in Apart : \A y \in Apart : i <= y
    <3>1. Apart \in SUBSET Nat
      OBVIOUS
    <3>. HIDE DEF Apart
    <3>. QED  BY <2>1, <3>1, Least
  <2>3. \A k \in 1..m \cup 1..n : k < i => k \in 1..m /\ k \in 1..n /\ a[k] = b[k]
    <3>1. ASSUME NEW k \in 1..m \cup 1..n, k < i PROVE k \in 1..m /\ k \in 1..n /\ a[k] = b[k]
      <4>1. k \in Nat /\ i \in Nat /\ ~ (i <= k)
        BY <3>1
      <4>2. k \notin Apart
        <5>. HIDE DEF Apart
        <5>. QED  BY <2>2, <4>1
      <4>. QED  BY <4>1, <4>2
    <3>. QED  BY <3>1
  <2>4. ASSUME i \in 1..m PROVE i \in 1..n
    <3>1. PICK k \in 1..n : b[k] = a[i]
      BY <1>2, <2>4
    <3>2. ~ (k < i)
      <4>1. SUFFICES ASSUME k < i PROVE FALSE
        OBVIOUS
      <4>2. k \in 1..m /\ a[k] = a[i]
        BY <2>3, <3>1, <4>1
      <4>. QED  BY <1>1, <2>4, <4>1, <4>2 DEF Distinct
    <3>. QED  BY <2>4, <3>2
  <2>5. ASSUME i \in 1..n PROVE i \in 1..m
    <3>1. PICK k \in 1..m : a[k] = b[i]
      BY <1>2, <2>5
    <3>2. ~ (k < i)
      <4>1. SUFFICES ASSUME k < i PROVE FALSE
        OBVIOUS
      <4>2. k \in 1..n /\ b[k] = b[i]
        BY <2>3, <3>1, <4>1
      <4>. QED  BY <1>1, <2>5, <4>1, <4>2 DEF Distinct
    <3>. QED  BY <2>5, <3>2
  <2>6. i \in 1..m /\ i \in 1..n /\ a[i] # b[i]
    BY <2>4, <2>5
  <2>7. PICK k \in 1..n, l \in 1..m : b[k] = a[i] /\ a[l] = b[i]
    BY <1>2, <2>6
  <2>8. i < k
    <3>1. k # i
      BY <2>6, <2>7
    <3>2. ASSUME k < i PROVE FALSE
      <4>1. k \in 1..m /\ a[k] = a[i]
        BY <2>3, <2>7, <3>2
      <4>. QED  BY <1>1, <2>6, <3>2, <4>1 DEF Distinct
    <3>. QED  BY <2>6, <3>1, <3>2
  <2>9. i < l
    <3>1. l # i
      BY <2>6, <2>7
    <3>2. ASSUME l < i PROVE FALSE
      <4>1. l \in 1..n /\ b[l] = b[i]
        BY <2>3, <2>7, <3>2
      <4>. QED  BY <1>1, <2>6, <3>2, <4>1 DEF Distinct
    <3>. QED  BY <2>6, <3>1, <3>2
  <2>10. <<a[i], b[i]>> \in R
    BY <1>1, <2>6, <2>7, <2>9
  <2>11. <<b[i], a[i]>> \in R
    BY <1>1, <2>6, <2>7, <2>8
  <2>. QED  BY <1>2, <2>6, <2>10, <2>11
<1>4. m = n /\ \A i \in 1..m : a[i] = b[i]
  <2>1. \A i \in 1..m : i \in 1..n /\ a[i] = b[i]
    BY <1>3
  <2>2. \A i \in 1..n : i \in 1..m
    BY <1>3
  <2>3. ~ (m < n)
    <3>1. m < n => n \in 1..n /\ n \notin 1..m
      OBVIOUS
    <3>. QED  BY <2>2, <3>1
  <2>4. ~ (n < m)
    <3>1. n < m => m \in 1..m /\ m \notin 1..n
      OBVIOUS
    <3>. QED  BY <2>1, <3>1
  <2>. QED  BY <2>1, <2>3, <2>4
<1>5. a = [i \in 1..m |-> a[i]] /\ b = [i \in 1..n |-> b[i]]
  BY <1>1
<1>. QED  BY <1>4, <1>5

(* When all calls are done, what is shown has its section on the server.   *)
LEMMA SectionsStored ==
  ASSUME IInv, SInv, InSave, Len(replies) = Len(tasks), NEW s \in Sid
  PROVE  /\ s \in Shown <=> Visible(s)
         /\ Visible(s) => names[s] \in ToSet(order) /\ names[s] \in Sid
         /\ Visible(s) /\ ~Added(s) =>
              names[s] = s /\ Here(s) /\ creates[s] = Nil /\ values[s] # Nil /\ s \notin removed
         /\ Added(s) => creates[s] # Nil /\ Visible(s)
         /\ Here(s) => Visible(s) /\ ~Added(s)
<1>1. /\ NamesTell /\ RemovesInv /\ TypeOK /\ CreatedInv
  BY DEF SInv, BatchTells, StoreInv, IInv
<1>2. /\ \A t \in Sid : t \in removed <=> DoneOp("remove", t)
      /\ \A t \in Sid : creates[t] # Nil <=> Added(t)
  BY AllDone
<1>3. s \in Shown <=> Visible(s)
  BY <1>1, RowTyped DEF NamesTell, Shown
<1>4. Here(s) <=> values[s] # Nil /\ s \notin removed
  BY <1>2 DEF Here
<1>5. Visible(s) /\ ~Added(s) =>
        names[s] = s /\ Here(s) /\ creates[s] = Nil /\ values[s] # Nil /\ s \notin removed
  BY <1>1, <1>2, <1>4 DEF Visible, NamesTell
<1>6. Visible(s) => names[s] \in ToSet(order)
  BY <1>1, <1>5 DEF NamesTell, RemovesInv
<1>7. Here(s) => Visible(s) /\ ~Added(s)
  BY <1>1, <1>2, <1>4 DEF Visible, CreatedInv
<1>8. names[s] \in Sid
  BY <1>1 DEF NamesTell
<1>. QED  BY <1>2, <1>3, <1>5, <1>6, <1>7, <1>8 DEF Visible

(* And every section of the server is one that is shown, with its options. *)
LEMMA ShownStored ==
  ASSUME IInv, SInv, InSave, Len(replies) = Len(tasks), sent.clean
  PROVE  /\ \A x \in ToSet(order) : \E s \in Sid : Visible(s) /\ names[s] = x
         /\ \A s, t \in Sid : Visible(s) /\ Visible(t) /\ names[s] = names[t] => s = t
         /\ \A s \in Sid : Visible(s) => options[names[s]] = Expected(s)
<1>1. /\ NamesTell /\ DeliveredInv /\ TypeOK /\ PendingConsistent /\ ServerInv
  BY DEF SInv, BatchTells, IInv
<1>2. /\ \A x \in Sid : x \in ToSet(order) <=> Here(x) \/ \E s \in Sid : Added(s) /\ names[s] = x
      /\ \A s, t \in Sid : Added(s) /\ Added(t) /\ names[s] = names[t] => s = t
      /\ \A s \in Sid : Added(s) => ~Here(names[s]) /\ options[names[s]] = Expected(s)
      /\ \A s \in Sid : values[s] # Nil /\ s \notin removed => \A o \in Opt :
           /\ o \in deletes[s] /\ DoneOp("unset", s) => options[s][o] = Nil
           /\ changes[s][o] # Nil /\ DoneOp("set", s) => options[s][o] = changes[s][o]
           /\ o \notin deletes[s] /\ changes[s][o] = Nil => options[s][o] = values[s].opts[o]
  BY <1>1 DEF DeliveredInv
<1>3. \A s \in Sid :
        /\ Visible(s) => names[s] \in ToSet(order) /\ names[s] \in Sid
        /\ Visible(s) /\ ~Added(s) =>
             names[s] = s /\ Here(s) /\ creates[s] = Nil /\ values[s] # Nil /\ s \notin removed
        /\ Added(s) => creates[s] # Nil /\ Visible(s)
        /\ Here(s) => Visible(s) /\ ~Added(s)
  BY SectionsStored
<1>4. ASSUME NEW x \in ToSet(order) PROVE \E s \in Sid : Visible(s) /\ names[s] = x
  <2>1. x \in Sid
    BY OrderInSid DEF ToSet, IInv, ServerInv
  <2>2. CASE Here(x)
    BY <1>3, <2>1, <2>2
  <2>3. CASE \E s \in Sid : Added(s) /\ names[s] = x
    BY <1>3, <2>3
  <2>. QED  BY <1>2, <2>1, <2>2, <2>3
<1>5. ASSUME NEW s \in Sid, NEW t \in Sid, Visible(s), Visible(t), names[s] = names[t] PROVE s = t
  <2>1. CASE Added(s) /\ Added(t)
    BY <1>2, <1>5, <2>1
  <2>2. CASE ~Added(s) /\ ~Added(t)
    BY <1>3, <1>5, <2>2
  <2>3. CASE Added(s) /\ ~Added(t)
    BY <1>2, <1>3, <1>5, <2>3
  <2>4. CASE ~Added(s) /\ Added(t)
    BY <1>2, <1>3, <1>5, <2>4
  <2>. QED  BY <2>1, <2>2, <2>3, <2>4
<1>6. ASSUME NEW s \in Sid, Visible(s), ~Added(s) PROVE options[s] = Expected(s)
  <2>1. creates[s] = Nil /\ values[s] # Nil /\ s \notin removed /\ names[s] = s /\ s \in ToSet(order)
    BY <1>3, <1>6
  <2>2. \A o \in Opt : sent.table[s][o] = Get(s, o)
    <3>1. Table[s] = [o \in Opt |-> Get(s, o)]
      BY <1>1, <1>6, RowTyped
    <3>2. sent.table = Table
      BY <1>1 DEF NamesTell
    <3>. QED  BY <3>1, <3>2
  <2>3. ASSUME NEW o \in Opt
        PROVE  options[s][o] = IF sent.table[s][o] = Empty THEN Nil ELSE sent.table[s][o]
    <3>1. CASE o \in deletes[s]
      <4>1. DoneOp("unset", s)
        BY <3>1, AllDone
      <4>2. Get(s, o) = Nil
        BY <2>1, <3>1 DEF Get
      <4>. QED  BY <1>2, <2>1, <2>2, <3>1, <4>1, <4>2, ValuesAssumption
    <3>2. CASE o \notin deletes[s] /\ changes[s][o] # Nil
      <4>1. changes[s] # NoOptions /\ changes[s][o] \in Val
        BY <1>1, <3>2, Typed DEF NoOptions, OptionsOf
      <4>2. DoneOp("set", s)
        BY <4>1, AllDone
      <4>3. Get(s, o) = changes[s][o]
        BY <2>1, <3>2 DEF Get
      <4>. QED  BY <1>2, <2>1, <2>2, <3>2, <4>1, <4>2, <4>3, ValuesAssumption
    <3>3. CASE o \notin deletes[s] /\ changes[s][o] = Nil
      <4>1. Get(s, o) = values[s].opts[o]
        BY <2>1, <3>3 DEF Get
      <4>2. values[s].opts[o] \in Val \cup {Nil}
        BY <1>1, <2>1, Typed DEF OptionsOf
      <4>. QED  BY <1>2, <2>1, <2>2, <3>3, <4>1, <4>2, ValuesAssumption
    <3>. QED  BY <3>1, <3>2, <3>3
  <2>4. options[s] \in OptionsOf(Val)
    BY <1>1, <2>1 DEF TypeOK, ServerInv
  <2>. QED  BY <2>3, <2>4 DEF Expected, OptionsOf
<1>7. \A s \in Sid : Visible(s) => options[names[s]] = Expected(s)
  BY <1>2, <1>3, <1>6
<1>. QED  BY <1>4, <1>5, <1>7
(* A batch that was not put in order leaves the loaded sections as they    *)
(* were, and the added ones behind them as they were made.                 *)
LEMMA StoredSorted ==
  ASSUME IInv, SInv, InSave, sent.clean, phase = "tasks", Len(replies) = Len(tasks),
         reorder => Created \cup Loaded = {}
  PROVE  StoredInOrder
<1>1. /\ DeliveredInv /\ AddedInOrder /\ PlainInv /\ KeyInv /\ TypeOK /\ present /\ ~drift
  BY DEF SInv, BatchTells, StoreInv, OrderInv, DeliveredInv, IInv
<1>2. \A s \in Sid :
        /\ Visible(s) /\ ~Added(s) =>
             names[s] = s /\ Here(s) /\ creates[s] = Nil /\ values[s] # Nil /\ s \notin removed
        /\ Added(s) => creates[s] # Nil /\ Visible(s)
        /\ Added(s) => ~Here(names[s])
  BY <1>1, SectionsStored DEF DeliveredInv
<1>3. ASSUME NEW s \in Sid, Visible(s) PROVE ~reorder
  <2>1. SUFFICES ASSUME Created \cup Loaded = {} PROVE FALSE
    OBVIOUS
  <2>2. creates[s] = Nil
    <3>1. creates[s] # Nil => [sid |-> s, name |-> creates[s].name, index |-> creates[s].index,
                               key |-> creates[s].born, create |-> TRUE] \in Created
      BY DEF Created
    <3>. QED  BY <2>1, <3>1
  <2>3. values[s] = Nil
    <3>1. values[s] # Nil => [sid |-> s, name |-> s, index |-> values[s].index,
                              key |-> values[s].key, create |-> FALSE] \in Loaded
      BY DEF Loaded
    <3>. QED  BY <2>1, <3>1
  <2>. QED  BY <1>3, <2>2, <2>3 DEF Visible
<1>4. Settled
  BY <1>1 DEF Settled
<1>5. ASSUME NEW s \in Sid, Visible(s)
      PROVE  /\ Added(s) => Index(s) = FirstNewIndex + creates[s].born /\ creates[s].born \in Nat
             /\ ~Added(s) => /\ Index(s) = values[s].key
                             /\ values[s].key \in Nat /\ values[s].key < FirstNewIndex
  <2>1. ~reorder
    BY <1>3, <1>5
  <2>2. CASE Added(s)
    <3>1. creates[s] # Nil /\ creates[s].index = FirstNewIndex + creates[s].born
      BY <1>1, <1>2, <1>4, <2>1, <2>2 DEF PlainInv
    <3>2. creates[s].born \in Nat
      BY <1>1, <3>1, Typed
    <3>. QED  BY <2>2, <3>1, <3>2 DEF Index
  <2>3. CASE ~Added(s)
    <3>1. creates[s] = Nil /\ values[s] # Nil
      BY <1>2, <1>5, <2>3
    <3>2. values[s].index = values[s].key /\ values[s].key < FirstNewIndex
      BY <1>1, <1>4, <2>1, <3>1 DEF PlainInv, KeyInv
    <3>3. values[s].key \in Nat
      BY <1>1, <3>1, Typed
    <3>. QED  BY <2>3, <3>1, <3>2, <3>3 DEF Index
  <2>. QED  BY <2>2, <2>3
<1>6. ASSUME NEW i \in 1..Len(order), NEW j \in 1..Len(order), i < j, NEW s \in Sid, NEW t \in Sid,
             Visible(s), Visible(t), order[i] = names[s], order[j] = names[t]
      PROVE  Index(s) < Index(t)
  <2>1. /\ Here(order[j]) => Here(order[i]) /\ values[order[i]].key < values[order[j]].key
        /\ Added(s) /\ Added(t) => creates[s].born < creates[t].born
    BY <1>1, <1>6 DEF AddedInOrder
  <2>2. CASE ~Added(t)
    <3>1. names[t] = t /\ Here(t)
      BY <1>2, <1>6, <2>2
    <3>2. Here(names[s]) /\ values[names[s]].key < values[t].key
      BY <1>6, <2>1, <3>1
    <3>3. ~Added(s)
      BY <1>2, <3>2
    <3>4. names[s] = s
      BY <1>2, <1>6, <3>3
    <3>. QED  BY <1>5, <1>6, <2>2, <3>2, <3>3, <3>4
  <2>3. CASE Added(t) /\ Added(s)
    BY <1>5, <1>6, <2>1, <2>3, IndexAssumption
  <2>4. CASE Added(t) /\ ~Added(s)
    <3>1. Index(s) = values[s].key /\ values[s].key \in Nat /\ values[s].key < FirstNewIndex
      BY <1>5, <1>6, <2>4
    <3>2. Index(t) = FirstNewIndex + creates[t].born /\ creates[t].born \in Nat
      BY <1>5, <1>6, <2>4
    <3>3. FirstNewIndex \in Nat
      BY IndexAssumption
    <3>. QED  BY <3>1, <3>2, <3>3
  <2>. QED  BY <2>2, <2>3, <2>4
<1>. QED  BY <1>6 DEF StoredInOrder

(* What is stored in order is what was shown in order.                      *)
LEMMA OrderStored ==
  ASSUME IInv, SInv, InSave, Len(replies) = Len(tasks), sent.clean, StoredInOrder
  PROVE  order = [i \in DOMAIN sent.order |-> names[sent.order[i]]]
<1>1. /\ NamesTell /\ ShownInOrder /\ ServerInv
  BY DEF SInv, BatchTells, OrderInv, IInv
<1>2. /\ \A x \in ToSet(order) : \E s \in Sid : Visible(s) /\ names[s] = x
      /\ \A s, t \in Sid : Visible(s) /\ Visible(t) /\ names[s] = names[t] => s = t
  BY ShownStored
<1>3. \A s \in Sid : Visible(s) => names[s] \in ToSet(order) /\ names[s] \in Sid
  BY SectionsStored
<1>4. PICK so : so = sent.order
  OBVIOUS
<1>5. /\ so \in Seq(Sid) /\ Distinct(so)
      /\ \A s \in Sid : s \in ToSet(so) <=> Visible(s)
      /\ \A i, j \in 1..Len(so) : i < j => Index(so[i]) < Index(so[j])
  BY <1>1, <1>4 DEF ShownInOrder
<1>6. \A i \in 1..Len(so) : so[i] \in Sid /\ Visible(so[i])
  BY <1>5, ElementOf
<1>7. PICK new : new = [i \in 1..Len(so) |-> names[so[i]]]
  OBVIOUS
<1>8. new \in Seq(Sid) /\ Len(new) = Len(so)
  <2>1. Len(so) \in Nat
    BY <1>5
  <2>2. \A i \in 1..Len(so) : names[so[i]] \in Sid
    BY <1>3, <1>6
  <2>. QED  BY <1>7, <2>1, <2>2
<1>9. Distinct(new)
  <2>1. ASSUME NEW i \in 1..Len(so), NEW j \in 1..Len(so), names[so[i]] = names[so[j]] PROVE i = j
    <3>1. so[i] = so[j]
      BY <1>2, <1>6, <2>1
    <3>. QED  BY <1>5, <3>1 DEF Distinct
  <2>. QED  BY <1>7, <1>8, <2>1 DEF Distinct
<1>10. order \in Seq(Sid)
  <2>1. Remote \subseteq Sid
    BY DEF Remote, Sid
  <2>. QED  BY <1>1, <2>1 DEF ServerInv
<1>11. ToSet(new) = ToSet(order)
  <2>1. ASSUME NEW x \in ToSet(order) PROVE x \in ToSet(new)
    <3>1. PICK s \in Sid : Visible(s) /\ names[s] = x
      BY <1>2
    <3>2. PICK i \in 1..Len(so) : so[i] = s
      BY <1>5, <3>1 DEF ToSet
    <3>3. new[i] = x /\ i \in 1..Len(new)
      BY <1>7, <1>8, <3>1, <3>2
    <3>. QED  BY <1>8, <3>3, ElementOf
  <2>2. ASSUME NEW x \in ToSet(new) PROVE x \in ToSet(order)
    <3>1. PICK i \in 1..Len(so) : new[i] = x
      BY <1>7, <2>2 DEF ToSet
    <3>. QED  BY <1>3, <1>6, <1>7, <3>1
  <2>. QED  BY <2>1, <2>2
<1>12. PICK R : R = {p \in Sid \X Sid : \E s, t \in Sid :
                       /\ Visible(s) /\ Visible(t) /\ p[1] = names[s] /\ p[2] = names[t]
                       /\ Index(s) < Index(t)}
  OBVIOUS
<1>13. \A x, y \in Sid : <<x, y>> \in R <=>
         \E s, t \in Sid : Visible(s) /\ Visible(t) /\ x = names[s] /\ y = names[t] /\ Index(s) < Index(t)
  BY <1>12
<1>14. \A s \in Sid : Visible(s) => Index(s) \in Nat
  BY Typed DEF Visible, Index, IInv
<1>15. \A x, y \in Sid : ~ (<<x, y>> \in R /\ <<y, x>> \in R)
  <2>1. SUFFICES ASSUME NEW x \in Sid, NEW y \in Sid, <<x, y>> \in R, <<y, x>> \in R PROVE FALSE
    OBVIOUS
  <2>2. PICK s \in Sid, t \in Sid :
          Visible(s) /\ Visible(t) /\ x = names[s] /\ y = names[t] /\ Index(s) < Index(t)
    BY <1>13, <2>1
  <2>3. PICK u \in Sid, v \in Sid :
          Visible(u) /\ Visible(v) /\ y = names[u] /\ x = names[v] /\ Index(u) < Index(v)
    BY <1>13, <2>1
  <2>4. u = t /\ v = s
    BY <1>2, <2>2, <2>3
  <2>. QED  BY <1>14, <2>2, <2>3, <2>4
<1>16. ASSUME NEW i \in 1..Len(new), NEW j \in 1..Len(new), i < j PROVE <<new[i], new[j]>> \in R
  <2>1. /\ new[i] = names[so[i]] /\ new[j] = names[so[j]] /\ new[i] \in Sid /\ new[j] \in Sid
        /\ so[i] \in Sid /\ so[j] \in Sid /\ Visible(so[i]) /\ Visible(so[j])
        /\ Index(so[i]) < Index(so[j])
    BY <1>5, <1>6, <1>7, <1>8, <1>16
  <2>. QED  BY <1>13, <2>1
<1>17. ASSUME NEW i \in 1..Len(order), NEW j \in 1..Len(order), i < j PROVE <<order[i], order[j]>> \in R
  <2>1. order[i] \in ToSet(order) /\ order[j] \in ToSet(order) /\ order[i] \in Sid /\ order[j] \in Sid
    BY <1>10, ElementOf
  <2>2. PICK s \in Sid, t \in Sid : Visible(s) /\ Visible(t) /\ names[s] = order[i] /\ names[t] = order[j]
    BY <1>2, <2>1
  <2>3. Index(s) < Index(t)
    BY <1>17, <2>2 DEF StoredInOrder
  <2>. QED  BY <1>13, <2>1, <2>2, <2>3
<1>18. order = new
  BY <1>1, <1>8, <1>9, <1>10, <1>11, <1>15, <1>16, <1>17, OneListing DEF ServerInv
<1>19. DOMAIN so = 1..Len(so)
  BY <1>5
<1>. QED  BY <1>4, <1>7, <1>18, <1>19

LEMMA ReloadSaves ==
  ASSUME IInv, SInv, Reload
  PROVE  SInv'
<1>1. /\ ~refused /\ phase' = "load"
      /\ \/ phase = "tasks" /\ Len(replies) = Len(tasks) /\ (reorder => Created \cup Loaded = {})
         \/ phase = "ordered"
      /\ ~present' /\ \A s \in Sid : values'[s] = Nil
      /\ UNCHANGED <<order, options, rendered, sent, names, late, drift>>
  BY DEF Reload, Accepted, Answered, Unload, server
<1>2. StoreInv'
  <2>1. RemovesInv'
    BY <1>1 DEF RemovesInv
  <2>2. KeyInv'
    BY <1>1 DEF KeyInv
  <2>3. PlainInv'
    BY <1>1 DEF PlainInv, Settled
  <2>. QED  BY <2>1, <2>2, <2>3 DEF StoreInv
<1>3. BatchTells'
  BY <1>1, Quiet
<1>4. SavedIsShown'
  <2>1. SUFFICES ASSUME ~late PROVE SavedIsShown'
    BY <1>1, QuietSaved
  <2>2. InSave
    BY <1>1, <2>1 DEF InSave
  <2>3. NamesTell /\ OrderInv
    BY DEF SInv, BatchTells
  <2>4. Len(replies) = Len(tasks)
    BY <1>1, <2>2, <2>3 DEF NamesTell
  <2>5. \A s \in Shown : s \in Sid /\ Visible(s) /\ names[s] \in ToSet(order)
    BY <2>2, <2>4, SectionsStored DEF Shown
  <2>6. \A s \in Sid : Visible(s) => s \in Shown
    BY <2>2, <2>4, SectionsStored
  <2>7. RetryKeepsSections'
    BY <1>1, <2>5 DEF RetryKeepsSections, Shown, Renamed
  <2>8. SaveDelivers'
    <3>1. SUFFICES ASSUME sent.clean
                   PROVE  /\ ToSet(order) = {names[s] : s \in Shown}
                          /\ \A s \in Shown : options[names[s]] = Expected(s)
      BY <1>1 DEF SaveDelivers, Shown, Renamed, Expected
    <3>2. /\ \A x \in ToSet(order) : \E s \in Sid : Visible(s) /\ names[s] = x
          /\ \A s \in Sid : Visible(s) => options[names[s]] = Expected(s)
      BY <2>2, <2>4, <3>1, ShownStored
    <3>. QED  BY <2>5, <2>6, <3>2
  <2>9. OrderDelivered'
    <3>1. SUFFICES ASSUME sent.clean, ~sent.mixed
                   PROVE  order = [i \in DOMAIN sent.order |-> names[sent.order[i]]]
      BY <1>1 DEF OrderDelivered, Renamed
    <3>2. StoredInOrder
      <4>1. CASE phase = "tasks"
        BY <1>1, <2>2, <2>4, <3>1, <4>1, StoredSorted
      <4>2. CASE phase = "ordered"
        BY <2>2, <2>3, <3>1, <4>2 DEF OrderInv
      <4>. QED  BY <1>1, <4>1, <4>2
    <3>. QED  BY <2>2, <2>4, <3>1, <3>2, OrderStored
  <2>. QED  BY <2>7, <2>8, <2>9 DEF SavedIsShown
<1>. QED  BY <1>2, <1>3, <1>4 DEF SInv

LEMMA StepSaves == IInv /\ SInv /\ [Next]_vars => SInv'
<1>. SUFFICES ASSUME IInv, SInv, [Next]_vars PROVE SInv'
  OBVIOUS
<1>1. CASE Edits
  <2>1. ASSUME NEW s \in Sid, NEW o \in Opt, NEW v \in Val \cup {Empty, Nil}, Set(s, o, v)
        PROVE  SInv'
    BY <2>1, SetSaves
  <2>2. ASSUME NEW s \in Sid, NEW named \in BOOLEAN, Add(s, named) PROVE SInv'
    BY <2>2, AddSaves
  <2>3. ASSUME NEW s \in Sid, RemoveCreated(s) \/ RemoveLoaded(s) PROVE SInv'
    BY <2>3, RemoveSaves
  <2>4. ASSUME NEW s1, NEW s2, NEW after \in BOOLEAN, Move(s1, s2, after) PROVE SInv'
    BY <2>4, MoveSaves
  <2>5. ASSUME NEW s \in Sid, GetSection(s) PROVE SInv'
    BY <2>5, GetSectionSaves
  <2>. QED  BY <1>1, <2>1, <2>2, <2>3, <2>4, <2>5 DEF Edits
<1>2. CASE Save
  BY <1>2, SaveSaves
<1>3. CASE Load
  BY <1>3, LoadSaves
<1>4. CASE LoseReplies
  BY <1>4, LoseRepliesSaves
<1>5. CASE PackageLost
  BY <1>5, PackageLostSaves
<1>6. CASE Calls
  <2>1. CASE ServeTask
    BY <2>1, ServeTaskSaves
  <2>2. CASE RefuseTask
    BY <2>2, RefuseTaskSaves
  <2>3. CASE SaveFails
    BY <2>3, SaveFailsSaves
  <2>4. CASE SaveOrders
    BY <2>4, SaveOrdersSaves
  <2>5. CASE ServeOrder
    BY <2>5, ServeOrderSaves
  <2>6. CASE Reload
    BY <2>6, ReloadSaves
  <2>7. CASE ServeLoad
    BY <2>7, ServeLoadSaves
  <2>8. CASE PackageArrives
    BY <2>8, PackageArrivesSaves
  <2>. QED  BY <1>6, <2>1, <2>2, <2>3, <2>4, <2>5, <2>6, <2>7, <2>8 DEF Calls
<1>7. CASE UNCHANGED vars
  BY <1>7, StutterSaves
<1>. QED  BY <1>1, <1>2, <1>3, <1>4, <1>5, <1>6, <1>7 DEF Next

(* What was saved is what was shown (uci.js:79-97): a save that nothing    *)
(* failed in and that no edit came into leaves on the server exactly the   *)
(* sections and the options of the page, each under the name rpcd gave it, *)
(* in the order of the page unless the same save also deleted and added;   *)
(* and a save that is made again loses no section.                         *)
THEOREM SaveCorrect == Spec => []SavedIsShown
<1>1. Init => IInv /\ SInv
  BY InitHolds, InitSaves
<1>2. (IInv /\ SInv) /\ [Next]_vars => (IInv /\ SInv)'
  BY StepKeeps, StepSaves
<1>3. IInv /\ SInv => SavedIsShown
  BY DEF SInv
<1>. QED  BY <1>1, <1>2, <1>3, PTL DEF Spec
=============================================================================
