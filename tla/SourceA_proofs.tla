---------------------------- MODULE SourceA_proofs ----------------------------
(***************************************************************************)
(* Theorems of SourceA, for any dataset and editions, any cutting of its   *)
(* pages, any facts of its instances, filters and kills.  The pool rests   *)
(* on Fetched: while the dataset stands still, what has come is its        *)
(* beginning.  The corpus rests on Passed, which says of the instance in   *)
(* hand what every gate behind it has shown, and on Decided, which follows *)
(* from there to the eligible and the rejected of the ledger.              *)
(***************************************************************************)
EXTENDS SourceA, NaturalsInduction, WellFoundedInduction, SequenceTheorems, FiniteSetTheorems, TLAPS

\* Some natural number is the least of any.
LEMMA LeastOf ==
  ASSUME NEW T \in SUBSET Nat, T # {}
  PROVE  \E n \in T : \A k \in T : n <= k
<1>1. PICK n \in T : \A k \in T : ~ (<<k, n>> \in OpToRel(<, Nat))
  BY NatLessThanWellFounded, WFMin
<1>2. \A k \in T : ~ (k < n)
  BY <1>1 DEF OpToRel
<1> QED
  BY <1>2

\* The function Keep is by, over the first `n` of a sequence.
KeepsTo(f, s, ids, n) ==
    f = [m \in 0..n |-> IF m = 0 THEN <<>>
                        ELSE IF s[m] \in ids THEN Append(f[m - 1], s[m]) ELSE f[m - 1]]

\* Keep is well defined.
LEMMA KeepExists ==
  ASSUME NEW S, NEW s \in Seq(S), NEW ids
  PROVE  \E f : KeepsTo(f, s, ids, Len(s))
<1> DEFINE Bad == {n \in 0..Len(s) : ~ \E f : KeepsTo(f, s, ids, n)}
<1>1. SUFFICES Bad = {}
  <2>1. Len(s) \in 0..Len(s)
    OBVIOUS
  <2> QED
    BY <2>1
<1>2. SUFFICES ASSUME Bad # {} PROVE FALSE
  OBVIOUS
<1>3. PICK n \in Bad : \A k \in Bad : n <= k
  <2>1. Bad \in SUBSET Nat
    OBVIOUS
  <2> HIDE DEF Bad
  <2> QED
    BY <1>2, <2>1, LeastOf
<1>4. n # 0
  <2>1. KeepsTo([m \in 0..0 |-> <<>>], s, ids, 0)
    BY DEF KeepsTo
  <2> QED
    BY <2>1, <1>3
<1>5. n - 1 \in 0..Len(s) /\ n - 1 \notin Bad
  BY <1>3, <1>4
<1>6. PICK f : KeepsTo(f, s, ids, n - 1)
  BY <1>5
<1> DEFINE g == [m \in 0..n |-> IF m < n THEN f[m]
                                ELSE IF s[n] \in ids THEN Append(f[n - 1], s[n]) ELSE f[n - 1]]
<1>7. KeepsTo(g, s, ids, n)
  <2>1. ASSUME NEW m \in 0..n
        PROVE  g[m] = IF m = 0 THEN <<>> ELSE IF s[m] \in ids THEN Append(g[m - 1], s[m]) ELSE g[m - 1]
    <3>1. CASE m = 0
      <4>1. 0 < n /\ 0 \in 0..n /\ 0 \in 0..(n - 1)
        BY <1>3, <1>4
      <4>2. f[0] = <<>>
        BY <1>6, <4>1 DEF KeepsTo
      <4> QED
        BY <3>1, <4>1, <4>2
    <3>2. CASE m \in 1..(n - 1)
      <4>1. n \in Nat /\ m \in 0..n /\ m - 1 \in 0..n /\ m < n /\ m - 1 < n /\ m \in 0..(n - 1)
        BY <1>3, <3>2
      <4>2. g[m] = f[m] /\ g[m - 1] = f[m - 1]
        BY <4>1
      <4>3. f[m] = IF m = 0 THEN <<>> ELSE IF s[m] \in ids THEN Append(f[m - 1], s[m]) ELSE f[m - 1]
        BY <1>6, <4>1 DEF KeepsTo
      <4> QED
        BY <3>2, <4>2, <4>3
    <3>3. CASE m = n
      <4>1. g[n - 1] = f[n - 1]
        BY <1>3, <1>4
      <4>2. g[n] = IF s[n] \in ids THEN Append(f[n - 1], s[n]) ELSE f[n - 1]
        BY <1>3
      <4> QED
        BY <4>1, <4>2, <1>4, <3>3
    <3> QED
      BY <1>3, <3>1, <3>2, <3>3
  <2> HIDE DEF g
  <2>2. g = [m \in 0..n |-> g[m]]
    BY DEF g
  <2> QED
    BY <2>1, <2>2 DEF KeepsTo
<1> QED
  BY <1>3, <1>7

\* What Keep returns names only what its set and its sequence name.
LEMMA KeepTyped ==
  ASSUME NEW S, NEW s \in Seq(S), NEW ids
  PROVE  Keep(s, ids) \in Seq(S \cap ids)
<1> DEFINE f == CHOOSE h : KeepsTo(h, s, ids, Len(s))
<1>1. KeepsTo(f, s, ids, Len(s))
  BY KeepExists
<1>2. Keep(s, ids) = f[Len(s)]
  BY DEF Keep, KeepsTo
<1> HIDE DEF f
<1> DEFINE Bad == {n \in 0..Len(s) : f[n] \notin Seq(S \cap ids)}
<1>3. SUFFICES Bad = {}
  BY <1>2
<1>4. SUFFICES ASSUME Bad # {} PROVE FALSE
  OBVIOUS
<1>5. PICK n \in Bad : \A k \in Bad : n <= k
  <2>1. Bad \in SUBSET Nat
    OBVIOUS
  <2> HIDE DEF Bad
  <2> QED
    BY <1>4, <2>1, LeastOf
<1>6. n # 0
  BY <1>1, <1>5 DEF KeepsTo
<1>7. f[n - 1] \in Seq(S \cap ids)
  BY <1>5, <1>6
<1>8. f[n] = IF s[n] \in ids THEN Append(f[n - 1], s[n]) ELSE f[n - 1]
  BY <1>1, <1>5, <1>6 DEF KeepsTo
<1>9. s[n] \in S
  BY <1>5, <1>6
<1>10. f[n] \in Seq(S \cap ids)
  <2>1. CASE s[n] \in ids
    <3>1. s[n] \in S \cap ids
      BY <1>9, <2>1
    <3>2. Append(f[n - 1], s[n]) \in Seq(S \cap ids)
      BY <1>7, <3>1, AppendProperties
    <3> QED
      BY <1>8, <2>1, <3>2
  <2> QED
    BY <1>7, <1>8, <2>1
<1> QED
  BY <1>5, <1>10

\* Appending an element adds it to what a sequence names.
LEMMA RangeOfAppend ==
  ASSUME NEW S, NEW s \in Seq(S), NEW e
  PROVE  Range(Append(s, e)) = Range(s) \cup {e}
<1>1. /\ DOMAIN s = 1..Len(s) /\ DOMAIN Append(s, e) = 1..(Len(s) + 1) /\ Len(s) \in Nat
      /\ \A k \in 1..Len(s) : Append(s, e)[k] = s[k]
      /\ Append(s, e)[Len(s) + 1] = e
  OBVIOUS
<1>2. 1..(Len(s) + 1) = (1..Len(s)) \cup {Len(s) + 1}
  BY <1>1
<1> QED
  BY <1>1, <1>2 DEF Range

\* What a sequence names is of what it is a sequence of.
LEMMA RangeOfTyped ==
  ASSUME NEW S, NEW s \in Seq(S)
  PROVE  Range(s) \subseteq S
  BY DEF Range

LEMMA RangeOfNone == Range(<<>>) = {}
  BY DEF Range

\* A set of places before the next is finite, and the next place adds one.
LEMMA CountNext ==
  ASSUME NEW n \in Nat, NEW K \in SUBSET (1..n)
  PROVE  /\ IsFiniteSet(K) /\ Cardinality(K) \in Nat
         /\ Cardinality(K \cup {n + 1}) = Cardinality(K) + 1
<1>1. IsFiniteSet(1..n)
  BY FS_Interval
<1>2. IsFiniteSet(K)
  BY <1>1, FS_Subset
<1>3. n + 1 \notin K
  OBVIOUS
<1> QED
  BY <1>2, <1>3, FS_CardinalityType, FS_AddElement

\* An element appended is there once more, and no other is.
LEMMA TimesOfAppend ==
  ASSUME NEW S, NEW s \in Seq(S), NEW e, NEW i
  PROVE  /\ Times(s, i) \in Nat
         /\ Times(Append(s, e), i) = IF e = i THEN Times(s, i) + 1 ELSE Times(s, i)
<1> DEFINE K == {k \in 1..Len(s) : s[k] = i}
<1> DEFINE L == {k \in 1..(Len(s) + 1) : Append(s, e)[k] = i}
<1>1. /\ DOMAIN s = 1..Len(s) /\ DOMAIN Append(s, e) = 1..(Len(s) + 1) /\ Len(s) \in Nat
      /\ \A k \in 1..Len(s) : Append(s, e)[k] = s[k]
      /\ Append(s, e)[Len(s) + 1] = e
  OBVIOUS
<1>2. Times(s, i) = Cardinality(K) /\ Times(Append(s, e), i) = Cardinality(L)
  BY <1>1 DEF Times
<1>3. 1..(Len(s) + 1) = (1..Len(s)) \cup {Len(s) + 1} /\ Len(s) + 1 \notin 1..Len(s)
  BY <1>1
<1>4. L = IF e = i THEN K \cup {Len(s) + 1} ELSE K
  BY <1>1, <1>3
<1>5. K \in SUBSET (1..Len(s))
  OBVIOUS
<1> HIDE DEF K, L
<1> QED
  BY <1>1, <1>2, <1>4, <1>5, CountNext

LEMMA TimesOfNone == \A i : Times(<<>>, i) = 0
<1>1. \A i : {k \in DOMAIN <<>> : <<>>[k] = i} = {}
  OBVIOUS
<1> QED
  BY <1>1, FS_EmptySet DEF Times

\* Keep drops no occurrence of what it keeps and keeps none of the rest.
LEMMA KeepTimes ==
  ASSUME NEW S, NEW s \in Seq(S), NEW ids, NEW i
  PROVE  Times(Keep(s, ids), i) = IF i \in ids THEN Times(s, i) ELSE 0
<1> DEFINE f == CHOOSE h : KeepsTo(h, s, ids, Len(s))
<1>1. KeepsTo(f, s, ids, Len(s))
  BY KeepExists
<1>2. Keep(s, ids) = f[Len(s)]
  BY DEF Keep, KeepsTo
<1> HIDE DEF f
<1> DEFINE Upto(n) == {k \in 1..n : s[k] = i}
<1> DEFINE Right(n) == f[n] \in Seq(S) /\ Times(f[n], i) = IF i \in ids THEN Cardinality(Upto(n)) ELSE 0
<1> DEFINE Bad == {n \in 0..Len(s) : ~ Right(n)}
<1>3. SUFFICES Bad = {}
  <2>1. Len(s) \in 0..Len(s) /\ DOMAIN s = 1..Len(s)
    OBVIOUS
  <2>2. Right(Len(s))
    BY <1>3, <2>1
  <2> QED
    BY <1>2, <2>1, <2>2 DEF Times
<1>4. SUFFICES ASSUME Bad # {} PROVE FALSE
  OBVIOUS
<1>5. PICK n \in Bad : \A k \in Bad : n <= k
  <2>1. Bad \in SUBSET Nat
    OBVIOUS
  <2> HIDE DEF Bad
  <2> QED
    BY <1>4, <2>1, LeastOf
<1>6. n # 0
  <2>1. f[0] = <<>>
    BY <1>1 DEF KeepsTo
  <2>2. Upto(0) = {}
    OBVIOUS
  <2>3. Right(0)
    BY <2>1, <2>2, TimesOfNone, FS_EmptySet
  <2> QED
    BY <2>3, <1>5
<1>7. Right(n - 1)
  BY <1>5, <1>6
<1>8. n \in 1..Len(s) /\ n \in 0..Len(s) /\ n - 1 \in Nat /\ s[n] \in S
  BY <1>5, <1>6
<1> HIDE DEF Bad, Right
<1>9. f[n] = IF s[n] \in ids THEN Append(f[n - 1], s[n]) ELSE f[n - 1]
  BY <1>1, <1>6, <1>8 DEF KeepsTo
<1>10. /\ Cardinality(Upto(n - 1)) \in Nat
       /\ Cardinality(Upto(n)) = IF s[n] = i THEN Cardinality(Upto(n - 1)) + 1 ELSE Cardinality(Upto(n - 1))
  <2>1. 1..n = (1..(n - 1)) \cup {n}
    BY <1>8
  <2>2. Upto(n) = IF s[n] = i THEN Upto(n - 1) \cup {n} ELSE Upto(n - 1)
    BY <2>1
  <2>3. Upto(n - 1) \in SUBSET (1..(n - 1)) /\ (n - 1) + 1 = n
    BY <1>8
  <2> HIDE DEF Upto
  <2> DEFINE m == n - 1
  <2>4. m \in Nat /\ Upto(m) \in SUBSET (1..m)
    BY <1>8, <2>3
  <2> HIDE DEF m
  <2>5. Cardinality(Upto(m)) \in Nat /\ Cardinality(Upto(m) \cup {m + 1}) = Cardinality(Upto(m)) + 1
    BY <2>4, CountNext
  <2> USE DEF m
  <2> QED
    BY <2>2, <2>3, <2>5
<1>11. Right(n)
  <2>1. CASE s[n] \in ids
    <3>1. f[n] = Append(f[n - 1], s[n]) /\ f[n - 1] \in Seq(S)
      BY <1>7, <1>9, <2>1 DEF Right
    <3>2. f[n] \in Seq(S)
      BY <1>8, <3>1, AppendProperties
    <3>3. Times(f[n], i) = IF s[n] = i THEN Times(f[n - 1], i) + 1 ELSE Times(f[n - 1], i)
      BY <3>1, TimesOfAppend
    <3> HIDE DEF Upto
    <3> QED
      BY <1>7, <1>10, <2>1, <3>2, <3>3 DEF Right
  <2>2. CASE s[n] \notin ids
    <3> HIDE DEF Upto
    <3> QED
      BY <1>7, <1>9, <1>10, <2>2 DEF Right
  <2> QED
    BY <2>1, <2>2
<1> QED
  BY <1>5, <1>11 DEF Bad

\* What one set keeps of a sequence and what the rest keeps make its length.
LEMMA KeepParts ==
  ASSUME NEW S, NEW s \in Seq(S), NEW T \in SUBSET S
  PROVE  Len(Keep(s, S \ T)) + Len(Keep(s, T)) = Len(s)
<1> DEFINE f == CHOOSE h : KeepsTo(h, s, S \ T, Len(s))
<1> DEFINE g == CHOOSE h : KeepsTo(h, s, T, Len(s))
<1>1. KeepsTo(f, s, S \ T, Len(s)) /\ KeepsTo(g, s, T, Len(s))
  BY KeepExists
<1>2. Keep(s, S \ T) = f[Len(s)] /\ Keep(s, T) = g[Len(s)]
  BY DEF Keep, KeepsTo
<1> HIDE DEF f, g
<1> DEFINE Right(n) == f[n] \in Seq(S) /\ g[n] \in Seq(S) /\ Len(f[n]) + Len(g[n]) = n
<1> DEFINE Bad == {n \in 0..Len(s) : ~ Right(n)}
<1>0. Len(s) \in 0..Len(s)
  BY LenProperties
<1>3. SUFFICES Bad = {}
  <2>2. Right(Len(s))
    BY <1>0, <1>3
  <2> QED
    BY <1>2, <2>2
<1>4. SUFFICES ASSUME Bad # {} PROVE FALSE
  OBVIOUS
<1>5. PICK n \in Bad : \A k \in Bad : n <= k
  <2>1. Bad \in SUBSET Nat
    <3> HIDE DEF Right
    <3> QED
      OBVIOUS
  <2> HIDE DEF Bad
  <2> QED
    BY <1>4, <2>1, LeastOf
<1>6. n # 0
  <2>1. f[0] = <<>> /\ g[0] = <<>>
    BY <1>1 DEF KeepsTo
  <2>2. Right(0)
    BY <2>1
  <2> QED
    BY <2>2, <1>5
<1>7. Right(n - 1)
  <2> HIDE DEF Right
  <2>1. n - 1 \in 0..Len(s) /\ n \in Nat
    BY <1>5, <1>6
  <2>2. n - 1 \notin Bad
    <3> HIDE DEF Bad
    <3> QED
      BY <1>5, <2>1
  <2> QED
    BY <2>1, <2>2
<1>10. n \in 0..Len(s) /\ n \in Nat /\ s[n] \in S
  BY <1>5, <1>6
<1> HIDE DEF Bad, Right
<1>8. /\ f[n] = IF s[n] \in S \ T THEN Append(f[n - 1], s[n]) ELSE f[n - 1]
      /\ g[n] = IF s[n] \in T THEN Append(g[n - 1], s[n]) ELSE g[n - 1]
  BY <1>1, <1>6, <1>10 DEF KeepsTo
<1>11. f[n - 1] \in Seq(S) /\ g[n - 1] \in Seq(S) /\ Len(f[n - 1]) + Len(g[n - 1]) = n - 1
  BY <1>7 DEF Right
<1>12. /\ Append(f[n - 1], s[n]) \in Seq(S) /\ Len(Append(f[n - 1], s[n])) = Len(f[n - 1]) + 1
       /\ Append(g[n - 1], s[n]) \in Seq(S) /\ Len(Append(g[n - 1], s[n])) = Len(g[n - 1]) + 1
       /\ Len(f[n - 1]) \in Nat /\ Len(g[n - 1]) \in Nat
  BY <1>10, <1>11, AppendProperties
<1> DEFINE a == Len(f[n - 1])
<1> DEFINE b == Len(g[n - 1])
<1>13. a + (b + 1) = n /\ (a + 1) + b = n
  <2>1. a \in Nat /\ b \in Nat /\ a + b = n - 1 /\ n \in Nat
    BY <1>10, <1>11, <1>12
  <2> HIDE DEF a, b
  <2> QED
    BY <2>1
<1>9. Right(n)
  <2>1. CASE s[n] \in T
    <3>1. f[n] = f[n - 1] /\ g[n] = Append(g[n - 1], s[n])
      BY <1>8, <2>1
    <3>2. (Len(f[n - 1]) + (Len(g[n - 1]) + 1)) = n
      BY <1>13
    <3> QED
      BY <1>11, <1>12, <3>1, <3>2 DEF Right
  <2>2. CASE s[n] \notin T
    <3>1. f[n] = Append(f[n - 1], s[n]) /\ g[n] = g[n - 1]
      BY <1>8, <1>10, <2>2
    <3>2. ((Len(f[n - 1]) + 1) + Len(g[n - 1])) = n
      BY <1>13
    <3> QED
      BY <1>11, <1>12, <3>1, <3>2 DEF Right
  <2> QED
    BY <2>1, <2>2
<1> QED
  BY <1>5, <1>9 DEF Bad

\* An order of a sequence is one of its own, and has each element as often.
LEMMA OrdersKeep ==
  ASSUME NEW S, NEW s \in Seq(S), NEW o \in Orders(s)
  PROVE  o \in Seq(S) /\ Len(o) = Len(s) /\ \A i : Times(o, i) = Times(s, i)
<1> DEFINE D == 1..Len(s)
<1>1. DOMAIN s = D /\ Len(s) \in Nat /\ IsFiniteSet(D) /\ Cardinality(D) = Len(s)
  <2>1. DOMAIN s = D /\ Len(s) \in Nat
    OBVIOUS
  <2>2. \A m \in Nat : IsFiniteSet(1..m) /\ Cardinality(1..m) = m
    BY FS_Interval
  <2> QED
    BY <2>1, <2>2
<1>2. PICK p \in SetToSeqs(D) : o = [k \in D |-> s[p[k]]]
  BY <1>1 DEF Orders
<1>3. p \in [D -> D] /\ \A j, k \in D : j # k => p[j] # p[k]
  BY <1>1, <1>2 DEF SetToSeqs
<1>4. \A d \in D : \E k \in D : p[k] = d
  <2>1. p \in Injection(D, D)
    BY <1>3 DEF Injection, IsInjective
  <2>2. p \in Surjection(D, D)
    <3> HIDE DEF D
    <3> QED
      BY <1>1, <2>1, FS_Injection
  <2> QED
    BY <2>2 DEF Surjection
<1>5. o \in Seq(S) /\ Len(o) = Len(s)
  <2>1. \A k \in D : s[p[k]] \in S
    BY <1>1, <1>3
  <2>2. o \in [1..Len(s) -> S]
    BY <1>2, <2>1
  <2> QED
    BY <1>1, <2>2
<1>6. ASSUME NEW i
      PROVE  Times(o, i) = Times(s, i)
  <2> DEFINE A == {k \in D : o[k] = i}
  <2> DEFINE B == {k \in D : s[k] = i}
  <2> DEFINE q == [k \in A |-> p[k]]
  <2>1. q \in [A -> B]
    BY <1>2, <1>3
  <2>2. \A j, k \in A : j # k => q[j] # q[k]
    BY <1>3
  <2>3. \A b \in B : \E a \in A : q[a] = b
    BY <1>2, <1>3, <1>4
  <2>4. q \in Bijection(A, B)
    <3> HIDE DEF A, B, q
    <3> QED
      BY <2>1, <2>2, <2>3 DEF Bijection, Injection, Surjection, IsInjective
  <2>5. IsFiniteSet(A)
    BY <1>1, FS_Subset
  <2>6. Cardinality(A) = Cardinality(B)
    <3> HIDE DEF A, B, q
    <3> QED
      BY <2>4, <2>5, FS_Bijection DEF ExistsBijection
  <2> QED
    BY <1>1, <1>2, <2>6 DEF Times
<1> QED
  BY <1>5, <1>6

-----------------------------------------------------------------------------
(* Types. *)

Rejections == [id : Rows, gate : Gates]
PCs == {"declare", "pins", "clone", "hold", "layout", "environment", "overlay", "collect",
        "stage", "live", "copy", "down", "fetch", "copying"}

\* TypeOK, with what a step needs of the sequences: a command that runs has been counted, and a
\* filter past its first gate has an instance in hand.
Types ==
    /\ TypeOK
    /\ rejected \in Seq(Rejections)
    /\ ReadPool => pool.records \in Seq(Rows)
    /\ pc # "down" => runs > 0
    /\ pc \notin {"declare", "down", "fetch"} => todo # <<>>

LEMMA StepsAre ==
  /\ Range(Steps) \cup {"down", "fetch", "copying"} = PCs
  /\ \A k \in 1..10 : Steps[k] \in PCs /\ Steps[k + 1] \in PCs /\ Steps[k + 1] \notin {"declare", "down", "fetch", "copying"}
  /\ \A k \in 1..10 : Steps[k] \notin {"down", "fetch", "copying"}
<1>1. Range(Steps) = {Steps[k] : k \in 1..11}
  BY DEF Range, Steps
<1>2. Range(Steps) = PCs \ {"down", "fetch", "copying"}
  <2>1. \A k \in 1..11 : k = 1 \/ k = 2 \/ k = 3 \/ k = 4 \/ k = 5 \/ k = 6 \/ k = 7 \/ k = 8 \/ k = 9 \/ k = 10 \/ k = 11
    OBVIOUS
  <2> QED
    BY <1>1, <2>1 DEF Steps, PCs
<1>3. \A k \in 1..10 : k = 1 \/ k = 2 \/ k = 3 \/ k = 4 \/ k = 5 \/ k = 6 \/ k = 7 \/ k = 8 \/ k = 9 \/ k = 10
  OBVIOUS
<1> QED
  BY <1>2, <1>3 DEF Steps, PCs

\* Every way of giving a filter its instances gives it rows.
LEMMA GivenTyped ==
  ASSUME NEW records \in Seq(Rows)
  PROVE  /\ Only(records) \subseteq Seq(Rows)
         /\ DrawSize \in 1..Len(records) => Draw(records) \subseteq Seq(Rows)
<1>1. ASSUME NEW chosen \in Only(records)
      PROVE  chosen \in Seq(Rows)
  <2>1. PICK only : chosen = Keep(records, only)
    BY <1>1 DEF Only
  <2>2. Keep(records, only) \in Seq(Rows \cap only)
    BY KeepTyped
  <2> QED
    BY <2>1, <2>2, SeqMonotonic
<1>2. ASSUME DrawSize \in 1..Len(records), NEW chosen \in Draw(records)
      PROVE  chosen \in Seq(Rows)
  <2>1. PICK s \in Orders(records) : chosen = SubSeq(s, 1, DrawSize)
    BY <1>2 DEF Draw
  <2>2. PICK p \in SetToSeqs(DOMAIN records) : s = [k \in DOMAIN records |-> records[p[k]]]
    BY <2>1 DEF Orders
  <2>3. DOMAIN records = 1..Len(records) /\ Len(records) \in Nat
    OBVIOUS
  <2>4. Cardinality(DOMAIN records) = Len(records)
    <3>1. \A m \in Nat : Cardinality(1..m) = m
      BY FS_Interval
    <3> QED
      BY <2>3, <3>1
  <2>5. p \in [1..Len(records) -> 1..Len(records)]
    BY <2>2, <2>3, <2>4 DEF SetToSeqs
  <2>6. \A k \in 1..DrawSize : s[k] \in Rows
    BY <1>2, <2>2, <2>3, <2>5
  <2>7. 1 \in Int /\ DrawSize \in Int
    BY SourceAAssumption
  <2> QED
    BY <2>1, <2>6, <2>7, SubSeqProperties
<1> QED
  BY <1>1, <1>2

\* What the bounds and the paths are, and what a typed state gives of them.
LEMMA Bounds ==
  /\ MaxRows \in Nat /\ MaxRuns \in Nat /\ MaxEditions \in Nat /\ Truncated \in SUBSET Rows
  /\ Editions \subseteq Seq(Rows)
  /\ None # Torn /\ \A n \in Nat : n # None /\ n # Torn
<1>1. None \notin Nat /\ Torn \notin Nat
  BY Zenon, SourceAAssumption
<1>2. MaxRows \in Nat /\ MaxRuns \in Nat /\ MaxEditions \in Nat
  BY Zenon, SourceAAssumption
<1>3. Truncated \in SUBSET Rows /\ Editions \subseteq Seq(Rows) /\ None # Torn
  BY Zenon, SourceAAssumption
<1> QED
  BY <1>1, <1>2, <1>3

LEMMA Typed ==
  ASSUME Types
  PROVE  /\ dataset \in Editions /\ dataset \in Seq(Rows) /\ fetched \in Seq(Rows)
         /\ Len(fetched) \in Nat /\ Len(dataset) \in Nat
         /\ runs \in Nat /\ instances \in [Rows -> {None, Torn} \cup 1..MaxRuns]
<1>1. dataset \in Editions /\ fetched \in Seq(Rows) /\ runs \in 0..MaxRuns
  BY Zenon DEF Types, TypeOK
<1>2. instances \in [Rows -> {None, Torn} \cup 1..MaxRuns]
  BY Zenon DEF Types, TypeOK
<1>3. dataset \in Seq(Rows) /\ runs \in Nat
  BY <1>1, Bounds
<1> QED
  BY <1>1, <1>2, <1>3

LEMMA InitTypes == Init => Types
<1> SUFFICES ASSUME Init PROVE Types
  OBVIOUS
<1>1. Refused = {}
  BY RangeOfNone DEF Init, Refused
<1>2. ~ReadPool
  BY DEF Init, ReadPool
<1>3. TypeOK
  BY <1>1, SourceAAssumption DEF Init, TypeOK
<1> QED
  BY <1>2, <1>3 DEF Init, Types

\* The smaller of two bounds keeps to both.
LEMMA SmallerBounds ==
    ASSUME NEW a \in Int, NEW b \in Int, NEW n \in 1..Smaller(a, b)
    PROVE  n <= a /\ n <= b
BY DEF Smaller

\* What a pool's document is made of.
LEMMA DocumentOf ==
  ASSUME NEW document \in PoolDocuments(fetched)
  PROVE  /\ document.records \in Orders(Keep(fetched, Rows \ Truncated))
         /\ document.truncated \in Orders(Keep(fetched, Truncated))
         /\ document.whole = steady
<1>1. PICK pooled \in RowsToPool(fetched) :
         document = [records |-> pooled.records, truncated |-> pooled.truncated, whole |-> steady]
  BY DEF PoolDocuments
<1>2. PICK kept \in Sorted(Keep(fetched, Rows \ Truncated)), cut \in Sorted(Keep(fetched, Truncated)) :
         pooled = [records |-> kept, truncated |-> cut]
  BY <1>1 DEF RowsToPool
<1>3. kept \in Orders(Keep(fetched, Rows \ Truncated)) /\ cut \in Orders(Keep(fetched, Truncated))
  BY <1>2 DEF Sorted
<1> QED
  BY <1>1, <1>2, <1>3

\* A step of the filter, and where it goes.
LEMMA NextTypes == Types /\ [Next]_vars => Types'
<1> SUFFICES ASSUME Types, [Next]_vars PROVE Types'
  OBVIOUS
<1>0. /\ PCs = Range(Steps) \cup {"down", "fetch", "copying"}
      /\ pc \in PCs
      /\ MaxRuns \in Nat /\ MaxEditions \in Nat /\ runs \in Nat /\ editions \in Nat
  <2>1. MaxRuns \in Nat /\ MaxEditions \in Nat
    BY Bounds
  <2>2. runs \in 0..MaxRuns /\ editions \in 0..MaxEditions
    BY DEF Types, TypeOK
  <2>3. PCs = Range(Steps) \cup {"down", "fetch", "copying"}
    BY StepsAre
  <2>4. pc \in Range(Steps) \cup {"down", "fetch", "copying"}
    BY Zenon DEF Types, TypeOK
  <2> QED
    BY <2>1, <2>2, <2>3, <2>4
<1>t. ASSUME todo # <<>>
      PROVE  Inst \in Rows /\ Tail(todo) \in Seq(Rows)
  BY <1>t DEF Inst, Types, TypeOK
<1>1. CASE FetchBegins
  BY <1>1, <1>0, EmptySeq DEF FetchBegins, Types, TypeOK, ReadPool, Refused, PCs, disk
<1>2. CASE Page
  <2>1. fetched' \in Seq(Rows)
    <3>1. PICK n \in 1..Smaller(Asked, Available) : fetched' = fetched \o NextPage(n)
      BY <1>2 DEF Page
    <3>2. /\ dataset \in Seq(Rows) /\ fetched \in Seq(Rows) /\ Len(fetched) \in Nat /\ Len(dataset) \in Nat
          /\ n <= Len(dataset) - Len(fetched)
      <4>1. dataset \in Seq(Rows) /\ fetched \in Seq(Rows)
        BY Typed
      <4>2. Len(fetched) \in Nat /\ Len(dataset) \in Nat
        BY <4>1, LenProperties
      <4>3. Asked \in Int /\ Available \in Int
        BY <4>2, Bounds, SourceAAssumption DEF Asked, Available, Smaller
      <4>4. n <= Available
        BY <3>1, <4>3, SmallerBounds
      <4> QED
        BY <4>1, <4>2, <4>4 DEF Available
    <3>3. NextPage(n) \in Seq(Rows)
      <4>1. \A i \in Len(fetched) + 1 .. Len(fetched) + n : dataset[i] \in Rows
        BY <3>2
      <4> QED
        BY <3>2, <4>1, SubSeqProperties DEF NextPage
    <3> QED
      BY <3>1, <3>2, <3>3
  <2> QED
    BY <1>2, <2>1 DEF Page, Types, TypeOK, ReadPool, Refused, disk
<1>3. CASE FetchEnds
  <2>1. ASSUME NEW document \in PoolDocuments(fetched)
        PROVE  document.records \in Seq(Rows)
    <3>1. Keep(fetched, Rows \ Truncated) \in Seq(Rows)
      <4>1. Keep(fetched, Rows \ Truncated) \in Seq(Rows \cap (Rows \ Truncated))
        BY KeepTyped DEF Types, TypeOK
      <4> QED
        BY <4>1, SeqMonotonic
    <3>2. document.records \in Orders(Keep(fetched, Rows \ Truncated))
      BY DocumentOf
    <3> QED
      BY <3>1, <3>2, OrdersKeep
  <2>2. pool'.records \in Seq(Rows)
    BY <1>3, <2>1 DEF FetchEnds
  <2> QED
    BY <1>3, <2>2, <1>0 DEF FetchEnds, Types, TypeOK, ReadPool, Refused, mem
<1>4. CASE Republish
  <2>1. editions' \in 0..MaxEditions /\ dataset' \in Editions
    BY <1>4, <1>0 DEF Republish
  <2> QED
    BY <1>4, <2>1 DEF Republish, Types, TypeOK, ReadPool, Refused, disk
<1>5. ASSUME NEW chosen \in Seq(Rows), MayFilter, FilterOn(chosen), selection' \in {None} \cup SUBSET Rows
      PROVE  Types'
  <2>1. /\ eligible' \in Seq(Rows) /\ rejected' \in Seq(Rejections) /\ Refused' = {}
        /\ clones' \subseteq Rows /\ todo' \in Seq(Rows) /\ given' \in Seq(Rows)
    BY <1>5, EmptySeq, RangeOfNone DEF FilterOn, Refused
  <2>2. runs' \in 0..MaxRuns /\ runs' > 0
    BY <1>5, <1>0 DEF FilterOn, MayFilter
  <2> QED
    BY <1>5, <1>0, <2>1, <2>2 DEF FilterOn, Types, TypeOK, ReadPool, PCs
<1>6. CASE FilterWhole
  BY <1>5, <1>6 DEF FilterWhole, MayFilter, Types, TypeOK
<1>7. CASE FilterOnly
  BY <1>5, <1>7, GivenTyped DEF FilterOnly, MayFilter, Types, TypeOK
<1>8. CASE FilterDraw
  <2>1. PICK chosen \in Draw(pool.records) : FilterOn(chosen) /\ selection' = Range(chosen)
    BY <1>8 DEF FilterDraw
  <2>2. chosen \in Seq(Rows) /\ MayFilter
    BY <1>8, <2>1, GivenTyped DEF FilterDraw, MayFilter, Types
  <2>3. Range(chosen) \subseteq Rows
    BY <2>2, RangeOfTyped
  <2> QED
    BY <1>5, <2>1, <2>2, <2>3
<1>9. ASSUME NEW k \in 1..10, GoesOn(k)
      PROVE  Types'
  <2>1. pc' \in PCs /\ pc # "down"
    BY <1>9, StepsAre DEF GoesOn, At
  <2>2. clones' \subseteq Rows
    BY <1>9, <1>t DEF GoesOn, At, Types, TypeOK
  <2> QED
    BY <1>9, <1>0, <2>1, <2>2 DEF GoesOn, At, Types, TypeOK, ReadPool, Refused, disk
<1>10. ASSUME NEW k \in 1..10, Rejected(k)
       PROVE  Types'
  <2>1. PICK gate \in Gates : rejected' = Append(rejected, [id |-> Inst, gate |-> gate])
    BY <1>10 DEF Rejected
  <2>2. [id |-> Inst, gate |-> gate] \in Rejections
    BY <1>10, <1>t, <2>1 DEF Rejected, At, Rejections
  <2>3. rejected' \in Seq(Rejections)
    BY <2>1, <2>2 DEF Types
  <2>4. Refused' \subseteq Rows
    <3>1. Range(rejected') \subseteq Rejections
      BY <2>3, RangeOfTyped
    <3>2. \A x \in Rejections : x.id \in Rows
      BY DEF Rejections
    <3> QED
      BY <3>1, <3>2 DEF Refused
  <2>5. pc # "down" /\ pc' = "declare"
    BY <1>10, StepsAre DEF Rejected, At
  <2> QED
    BY <1>10, <1>0, <1>t, <2>3, <2>4, <2>5 DEF Rejected, At, Types, TypeOK, ReadPool, PCs, disk
<1>11. ASSUME NEW k \in 1..10, Raises(k)
       PROVE  Types'
  BY <1>11, <1>0 DEF Raises, Types, TypeOK, ReadPool, Refused, PCs, disk, mem
<1>12. CASE CopyBegins
  BY <1>12, <1>0 DEF CopyBegins, Types, TypeOK, ReadPool, Refused, PCs, mem
<1>13. CASE CopyEnds
  <2>1. Inst \in Rows /\ Tail(todo) \in Seq(Rows) /\ Append(eligible, Inst) \in Seq(Rows)
    BY <1>13, <1>t, AppendProperties DEF CopyEnds, Types, TypeOK
  <2>2. instances' \in [Rows -> {None, Torn} \cup 1..MaxRuns]
    <3>1. runs \in 1..MaxRuns
      BY <1>13, <1>0 DEF CopyEnds, Types, TypeOK
    <3> QED
      BY <1>13, <3>1 DEF CopyEnds, Types, TypeOK
  <2> QED
    BY <1>13, <1>0, <2>1, <2>2 DEF CopyEnds, Types, TypeOK, ReadPool, Refused, PCs
<1>14. CASE FilterRaises
  BY <1>14, <1>0 DEF FilterRaises, Types, TypeOK, ReadPool, Refused, PCs, disk, mem
<1>15. CASE WriteIneligible
  BY <1>15, <1>0 DEF WriteIneligible, Types, TypeOK, ReadPool, Refused, PCs, mem
<1>16. CASE Kill
  BY <1>16, <1>0 DEF Kill, Types, TypeOK, ReadPool, Refused, PCs, mem
<1>17. CASE UNCHANGED vars
  BY <1>17 DEF vars, disk, mem, Types, TypeOK, ReadPool, Refused
<1> QED
  BY <1>1, <1>2, <1>3, <1>4, <1>6, <1>7, <1>8, <1>9, <1>10, <1>11, <1>12, <1>13, <1>14, <1>15,
     <1>16, <1>17 DEF Next

\* The types of source A's state, whatever is published and whatever is filtered.
THEOREM TypesHold == Spec => []TypeOK
<1>1. Types => TypeOK
  BY DEF Types
<1> QED
  BY InitTypes, NextTypes, <1>1, PTL DEF Spec

-----------------------------------------------------------------------------
(* The pool. *)

\* What has been fetched stands, place by place, in editions that were published; where the dataset
\* stood still, in the one that is.
Fetched ==
    /\ Len(fetched) <= MaxRows
    /\ \E from \in [1..Len(fetched) -> Editions] :
          /\ \A k \in 1..Len(fetched) : k <= Len(from[k]) /\ fetched[k] = from[k][k]
          /\ steady => \A k \in 1..Len(fetched) : from[k] = dataset

\* A page adds what stands next, and an edition in between ends the standing still.
LEMMA NextFetched == Types /\ Fetched /\ [Next]_vars => Fetched'
<1> SUFFICES ASSUME Types, Fetched, [Next]_vars PROVE Fetched'
  OBVIOUS
<1>1. /\ MaxRows \in Nat /\ dataset \in Seq(Rows) /\ dataset \in Editions /\ fetched \in Seq(Rows)
      /\ Len(fetched) \in Nat /\ Len(dataset) \in Nat
  BY Typed, Bounds
<1>2. CASE FetchBegins
  <2>1. fetched' = <<>> /\ Len(fetched') = 0
    BY <1>2 DEF FetchBegins
  <2>2. [k \in 1..0 |-> dataset] \in [1..0 -> Editions]
    BY <1>1
  <2>3. Len(fetched') <= MaxRows
    BY <1>1, <2>1
  <2>4. \A k \in 1..Len(fetched') : FALSE
    BY <2>1
  <2>5. \E from \in [1..Len(fetched') -> Editions] : TRUE
    BY <2>1, <2>2
  <2> QED
    BY <2>3, <2>4, <2>5 DEF Fetched
<1>3. CASE Page
  <2>1. PICK n \in 1..Smaller(Asked, Available) : fetched' = fetched \o NextPage(n)
    BY <1>3 DEF Page
  <2>2. n \in Nat /\ Len(fetched) + n <= MaxRows /\ Len(fetched) + n <= Len(dataset)
    <3>1. Asked \in Int /\ Available \in Int /\ Asked <= MaxRows - Len(fetched)
      BY <1>1, SourceAAssumption DEF Asked, Available, Smaller
    <3>2. n \in Nat /\ n <= Asked /\ n <= Available
      BY <2>1, <3>1, SmallerBounds
    <3> QED
      BY <1>1, <3>1, <3>2 DEF Available
  <2>3. /\ NextPage(n) \in Seq(Rows) /\ Len(NextPage(n)) = n
        /\ \A k \in 1..n : NextPage(n)[k] = dataset[Len(fetched) + k]
    <3>1. \A i \in Len(fetched) + 1 .. Len(fetched) + n : dataset[i] \in Rows
      BY <1>1, <2>2
    <3> QED
      BY <1>1, <2>1, <2>2, <3>1, SubSeqProperties DEF NextPage
  <2>4. /\ Len(fetched') = Len(fetched) + n
        /\ \A k \in 1..Len(fetched) : fetched'[k] = fetched[k]
        /\ \A k \in 1..n : fetched'[Len(fetched) + k] = dataset[Len(fetched) + k]
    <3> DEFINE page == NextPage(n)
    <3>1. page \in Seq(Rows) /\ Len(page) = n /\ fetched' = fetched \o page
      BY <2>1, <2>3
    <3>2. \A k \in 1..n : page[k] = dataset[Len(fetched) + k]
      BY <2>3
    <3> HIDE DEF page
    <3>3. /\ Len(fetched') = Len(fetched) + n
          /\ \A k \in 1..(Len(fetched) + n) :
                fetched'[k] = IF k <= Len(fetched) THEN fetched[k] ELSE page[k - Len(fetched)]
      BY <1>1, <3>1, ConcatProperties
    <3>4. \A k \in 1..Len(fetched) : k \in 1..(Len(fetched) + n) /\ k <= Len(fetched)
      BY <1>1, <2>2
    <3>5. \A k \in 1..n : /\ Len(fetched) + k \in 1..(Len(fetched) + n) /\ ~(Len(fetched) + k <= Len(fetched))
                          /\ (Len(fetched) + k) - Len(fetched) = k
      BY <1>1, <2>2
    <3> QED
      BY <3>2, <3>3, <3>4, <3>5
  <2>5. PICK from \in [1..Len(fetched) -> Editions] :
          /\ \A k \in 1..Len(fetched) : k <= Len(from[k]) /\ fetched[k] = from[k][k]
          /\ steady => \A k \in 1..Len(fetched) : from[k] = dataset
    BY DEF Fetched
  <2> DEFINE onward == [k \in 1..Len(fetched') |-> IF k <= Len(fetched) THEN from[k] ELSE dataset]
  <2>6. onward \in [1..Len(fetched') -> Editions]
    BY <1>1, <2>2, <2>4
  <2>7. ASSUME NEW k \in 1..Len(fetched')
        PROVE  k <= Len(onward[k]) /\ fetched'[k] = onward[k][k]
    <3>1. CASE k <= Len(fetched)
      BY <1>1, <2>2, <2>4, <2>5, <3>1
    <3>2. CASE ~(k <= Len(fetched))
      <4>1. k - Len(fetched) \in 1..n /\ Len(fetched) + (k - Len(fetched)) = k /\ k <= Len(dataset)
        BY <1>1, <2>2, <2>4, <3>2
      <4>2. fetched'[k] = dataset[k]
        BY <2>4, <4>1
      <4> QED
        BY <3>2, <4>1, <4>2
    <3> QED
      BY <3>1, <3>2
  <2>8. steady' => \A k \in 1..Len(fetched') : onward[k] = dataset'
    BY <1>1, <1>3, <2>2, <2>4, <2>5 DEF Page
  <2>9. Len(fetched') <= MaxRows
    BY <2>2, <2>4
  <2> HIDE DEF onward
  <2> QED
    BY <2>6, <2>7, <2>8, <2>9 DEF Fetched
<1>4. CASE Republish
  BY <1>4 DEF Republish, Fetched
<1>5. ASSUME UNCHANGED <<dataset, fetched, steady>>
      PROVE  Fetched'
  BY <1>5 DEF Fetched
<1>6. ASSUME NEW chosen, FilterOn(chosen)
      PROVE  Fetched'
  BY <1>5, <1>6 DEF FilterOn
<1>7. CASE FilterWhole \/ FilterOnly \/ FilterDraw
  BY <1>6, <1>7 DEF FilterWhole, FilterOnly, FilterDraw
<1>8. CASE \E k \in 1..10 : GoesOn(k) \/ Rejected(k) \/ Raises(k)
  BY <1>5, <1>8 DEF GoesOn, Rejected, Raises, mem
<1>9. CASE FetchEnds \/ CopyBegins \/ CopyEnds \/ FilterRaises \/ WriteIneligible \/ Kill
  BY <1>5, <1>9 DEF FetchEnds, CopyBegins, CopyEnds, FilterRaises, WriteIneligible, Kill, mem
<1>10. CASE UNCHANGED vars
  BY <1>5, <1>10 DEF vars, mem
<1> QED
  BY <1>2, <1>3, <1>4, <1>7, <1>8, <1>9, <1>10 DEF Next

\* The pool a fetch writes has what came, and no more.
LEMMA PoolWritten ==
  ASSUME Types, Fetched, FetchEnds
  PROVE  PoolIsTheDataset'
<1>1. /\ pool'.records \in Orders(Keep(fetched, Rows \ Truncated))
      /\ pool'.truncated \in Orders(Keep(fetched, Truncated))
      /\ pool'.whole = steady
  <2>1. pool' \in PoolDocuments(fetched)
    BY DEF FetchEnds
  <2> QED
    BY <2>1, DocumentOf
<1>2. fetched \in Seq(Rows) /\ Len(fetched) \in Nat /\ Truncated \in SUBSET Rows /\ MaxRows \in Nat
  BY Typed, Bounds
<1>3. Keep(fetched, Rows \ Truncated) \in Seq(Rows) /\ Keep(fetched, Truncated) \in Seq(Rows)
  <2>1. /\ Keep(fetched, Rows \ Truncated) \in Seq(Rows \cap (Rows \ Truncated))
        /\ Keep(fetched, Truncated) \in Seq(Rows \cap Truncated)
    BY <1>2, KeepTyped
  <2> QED
    BY <2>1, SeqMonotonic
<1>4. Len(pool'.records) + Len(pool'.truncated) = Len(fetched)
  <2>1. Len(pool'.records) = Len(Keep(fetched, Rows \ Truncated))
    BY <1>1, <1>3, OrdersKeep
  <2>2. Len(pool'.truncated) = Len(Keep(fetched, Truncated))
    BY <1>1, <1>3, OrdersKeep
  <2>3. Len(Keep(fetched, Rows \ Truncated)) + Len(Keep(fetched, Truncated)) = Len(fetched)
    BY <1>2, KeepParts
  <2> QED
    BY <2>1, <2>2, <2>3
<1>5. ASSUME NEW i \in Rows
      PROVE  Times(IF i \in Truncated THEN pool'.truncated ELSE pool'.records, i) = Times(fetched, i)
  <2>1. CASE i \in Truncated
    <3>1. Times(pool'.truncated, i) = Times(Keep(fetched, Truncated), i)
      BY <1>1, <1>3, OrdersKeep
    <3>2. Times(Keep(fetched, Truncated), i) = Times(fetched, i)
      BY <1>2, <2>1, KeepTimes
    <3> QED
      BY <2>1, <3>1, <3>2
  <2>2. CASE i \notin Truncated
    <3>1. Times(pool'.records, i) = Times(Keep(fetched, Rows \ Truncated), i)
      BY <1>1, <1>3, OrdersKeep
    <3>2. Times(Keep(fetched, Rows \ Truncated), i) = Times(fetched, i)
      BY <1>2, <2>2, KeepTimes
    <3> QED
      BY <2>2, <3>1, <3>2
  <2> QED
    BY <2>1, <2>2
<1>6. PICK from \in [1..Len(fetched) -> Editions] :
        /\ \A k \in 1..Len(fetched) : k <= Len(from[k]) /\ fetched[k] = from[k][k]
        /\ steady => \A k \in 1..Len(fetched) : from[k] = dataset
  BY DEF Fetched
<1>7. [k \in 1..Len(fetched) |-> from[k][k]] = fetched
  BY <1>2, <1>6
<1>8. pool'.whole => \A j, k \in 1..Len(fetched) : from[j] = from[k]
  BY <1>1, <1>6
<1>9. Len(fetched) <= MaxRows
  BY DEF Fetched
<1> DEFINE length == Len(pool'.records) + Len(pool'.truncated)
<1>10. length = Len(fetched)
  BY <1>4
<1> HIDE DEF length
<1>11. /\ length <= MaxRows
       /\ from \in [1..length -> Editions] /\ \A k \in 1..length : k <= Len(from[k])
       /\ pool'.whole => \A j, k \in 1..length : from[j] = from[k]
       /\ [k \in 1..length |-> from[k][k]] = fetched
  BY <1>6, <1>7, <1>8, <1>9, <1>10
<1>12. \A i \in Rows : Times(IF i \in Truncated THEN pool'.truncated ELSE pool'.records, i)
                          = Times([k \in 1..length |-> from[k][k]], i)
  BY <1>5, <1>11
<1> HIDE DEF length
<1> QED
  BY Zenon, <1>11, <1>12 DEF PoolIsTheDataset, length

LEMMA NextPool == Types /\ Fetched /\ PoolIsTheDataset /\ [Next]_vars => PoolIsTheDataset'
<1> SUFFICES ASSUME Types, Fetched, PoolIsTheDataset, [Next]_vars PROVE PoolIsTheDataset'
  OBVIOUS
<1>1. CASE FetchEnds
  BY <1>1, PoolWritten
<1>2. ASSUME UNCHANGED pool
      PROVE  PoolIsTheDataset'
  BY <1>2 DEF PoolIsTheDataset, ReadPool
<1>3. ASSUME NEW chosen, FilterOn(chosen)
      PROVE  PoolIsTheDataset'
  BY <1>2, <1>3 DEF FilterOn
<1>4. CASE FilterWhole \/ FilterOnly \/ FilterDraw
  BY <1>3, <1>4 DEF FilterWhole, FilterOnly, FilterDraw
<1>5. CASE \E k \in 1..10 : GoesOn(k) \/ Rejected(k) \/ Raises(k)
  BY <1>2, <1>5 DEF GoesOn, Rejected, Raises, disk
<1>6. CASE FetchBegins \/ Page \/ Republish \/ CopyBegins \/ CopyEnds \/ FilterRaises \/ WriteIneligible
  BY <1>2, <1>6 DEF FetchBegins, Page, Republish, CopyBegins, CopyEnds, FilterRaises, WriteIneligible, disk
<1>7. CASE Kill
  <2>1. pool' = pool \/ pool' = Torn
    BY <1>7 DEF Kill
  <2> QED
    BY <1>2, <2>1 DEF PoolIsTheDataset, ReadPool
<1>8. CASE UNCHANGED vars
  BY <1>2, <1>8 DEF vars, disk
<1> QED
  BY <1>1, <1>4, <1>5, <1>6, <1>7, <1>8 DEF Next

\* However the server cuts its pages, whenever it ends them with an empty one and whenever the dataset
\* is published anew, a pool is the first rows of what was published, each as often as it came
\* (fetch.py:390-425, 153-184).
THEOREM PoolIsTheDatasetHolds == Spec => []PoolIsTheDataset
<1>1. Init => Fetched /\ PoolIsTheDataset
  <2> SUFFICES ASSUME Init PROVE Fetched /\ PoolIsTheDataset
    OBVIOUS
  <2>1. fetched = <<>> /\ Len(fetched) = 0 /\ MaxRows \in Nat
    BY Bounds DEF Init
  <2>2. [k \in 1..0 |-> dataset] \in [1..0 -> Editions]
    BY DEF Init
  <2>3. Len(fetched) <= MaxRows /\ \A k \in 1..Len(fetched) : FALSE
    BY <2>1
  <2>4. \E from \in [1..Len(fetched) -> Editions] : TRUE
    BY <2>1, <2>2
  <2>5. Fetched
    BY <2>3, <2>4 DEF Fetched
  <2> QED
    BY <2>5 DEF Init, PoolIsTheDataset, ReadPool
<1> QED
  BY <1>1, InitTypes, NextTypes, NextFetched, NextPool, PTL DEF Spec

-----------------------------------------------------------------------------
(* The corpus. *)

AfterFormat      == {"pins", "clone", "hold", "layout", "environment", "overlay", "collect", "stage", "live",
                     "copy", "copying"}
AfterPins        == AfterFormat \ {"pins"}
AfterEnvironment == {"overlay", "collect", "stage", "live", "copy", "copying"}
AfterCollect     == {"stage", "live", "copy", "copying"}
AfterStage       == {"live", "copy", "copying"}
AfterLive        == {"copy", "copying"}

\* What the gates behind the instance in hand have shown of it.
Passed ==
    /\ pc \in AfterFormat => Formed(Inst)
    /\ pc \in AfterPins => Inst \in Era
    /\ pc \in AfterEnvironment => Facts[Inst].imports
    /\ pc \in AfterCollect => DeclaredBy(Inst) = Facts[Inst].collects
    /\ pc \in AfterStage => Declared2(Facts[Inst]).fail_to_pass # {}
    /\ pc \in AfterLive => Facts[Inst].live

\* The steps of a filter, by name.
LEMMA StepNames ==
  /\ Steps[1] = "declare" /\ Steps[2] = "pins" /\ Steps[3] = "clone" /\ Steps[4] = "hold"
  /\ Steps[5] = "layout" /\ Steps[6] = "environment" /\ Steps[7] = "overlay" /\ Steps[8] = "collect"
  /\ Steps[9] = "stage" /\ Steps[10] = "live" /\ Steps[11] = "copy"
  BY DEF Steps

\* One step, and the one that follows it.
Follows(a, b) ==
    \/ a = "declare" /\ b = "pins"
    \/ a = "pins" /\ b = "clone"
    \/ a = "clone" /\ b = "hold"
    \/ a = "hold" /\ b = "layout"
    \/ a = "layout" /\ b = "environment"
    \/ a = "environment" /\ b = "overlay"
    \/ a = "overlay" /\ b = "collect"
    \/ a = "collect" /\ b = "stage"
    \/ a = "stage" /\ b = "live"
    \/ a = "live" /\ b = "copy"

\* The steps follow in the order of the gates.
LEMMA StepPairs ==
  ASSUME NEW k \in 1..10
  PROVE  Follows(Steps[k], Steps[k + 1])
<1>1. k = 1 \/ k = 2 \/ k = 3 \/ k = 4 \/ k = 5 \/ k = 6 \/ k = 7 \/ k = 8 \/ k = 9 \/ k = 10
  OBVIOUS
<1>2. CASE k = 1 \/ k = 2
  BY <1>2, StepNames DEF Follows
<1>3. CASE k = 3 \/ k = 4
  BY <1>3, StepNames DEF Follows
<1>4. CASE k = 5 \/ k = 6
  BY <1>4, StepNames DEF Follows
<1>5. CASE k = 7 \/ k = 8
  BY <1>5, StepNames DEF Follows
<1>6. CASE k = 9 \/ k = 10
  BY <1>6, StepNames DEF Follows
<1> QED
  BY <1>1, <1>2, <1>3, <1>4, <1>5, <1>6, Zenon

\* What a gate may answer.
LEMMA AnswersAre ==
  /\ Answers("declare") = CheckFormat /\ Answers("pins") = EraPins /\ Answers("clone") = Clone
  /\ Answers("hold") = HeldFor /\ Answers("layout") = LayoutOf /\ Answers("environment") = CheckEnvironment
  /\ Answers("overlay") = Overlay /\ Answers("collect") = CheckCollectable /\ Answers("stage") = Stage
  /\ Answers("live") = Liveness
  BY Zenon DEF Answers

\* Formed is what the format gate finds.
LEMMA FormedIs == Formed(Inst) <=> DeclaredIds # {} /\ Malformed = {}
<1>1. DeclaredIds = DeclaredBy(Inst)
  BY DEF DeclaredIds, DeclaredBy, F
<1>2. Formed(Inst) <=> DeclaredBy(Inst) \subseteq WellFormed /\ DeclaredBy(Inst) # {}
  <2>1. \A ids, formed : ids \in (SUBSET formed) \ {{}} <=> ids \subseteq formed /\ ids # {}
    OBVIOUS
  <2> QED
    BY <2>1, Zenon DEF Formed
<1>3. Malformed = {} <=> DeclaredIds \subseteq WellFormed
  BY DEF Malformed
<1> QED
  BY <1>1, <1>2, <1>3

\* One gate let through.
LEMMA GoesOnSays ==
  ASSUME Types, NEW k \in 1..10, GoesOn(k)
  PROVE  \/ pc = "declare" /\ pc' = "pins" /\ Formed(Inst)
         \/ pc = "pins" /\ pc' = "clone" /\ Inst \in Era
         \/ pc = "clone" /\ pc' = "hold"
         \/ pc = "hold" /\ pc' = "layout"
         \/ pc = "layout" /\ pc' = "environment"
         \/ pc = "environment" /\ pc' = "overlay" /\ Facts[Inst].imports
         \/ pc = "overlay" /\ pc' = "collect"
         \/ pc = "collect" /\ pc' = "stage" /\ DeclaredBy(Inst) = Facts[Inst].collects
         \/ pc = "stage" /\ pc' = "live" /\ Declared2(Facts[Inst]).fail_to_pass # {}
         \/ pc = "live" /\ pc' = "copy" /\ Facts[Inst].live
<1>1. pc = Steps[k] /\ pc' = Steps[k + 1] /\ "goes on" \in Answers(Steps[k])
  BY DEF GoesOn, At
<1>2. "goes on" \in Answers(pc)
  BY <1>1
<1>3. CASE pc = "declare" /\ pc' = "pins"
  <2>1. "goes on" \in CheckFormat
    BY <1>2, <1>3, AnswersAre
  <2>2. DeclaredIds # {} /\ Malformed = {}
    BY <2>1 DEF CheckFormat, If
  <2> QED
    BY <1>3, <2>2, FormedIs
<1>4. CASE pc = "pins" /\ pc' = "clone"
  <2>1. "goes on" \in EraPins
    BY <1>2, <1>4, AnswersAre
  <2> QED
    BY <1>4, <2>1 DEF EraPins, If
<1>5. CASE pc = "environment" /\ pc' = "overlay"
  <2>1. "goes on" \in CheckEnvironment
    BY <1>2, <1>5, AnswersAre
  <2>2. ProbeImports
    BY <2>1 DEF CheckEnvironment, If
  <2> QED
    BY <1>5, <2>2 DEF ProbeImports, F
<1>6. CASE pc = "collect" /\ pc' = "stage"
  <2>1. "goes on" \in CheckCollectable
    BY <1>2, <1>6, AnswersAre
  <2>2. DeclaredIds = F.collects
    BY <2>1 DEF CheckCollectable, If
  <2> QED
    BY <1>6, <2>2 DEF DeclaredIds, DeclaredBy, F
<1>7. CASE pc = "stage" /\ pc' = "live"
  <2>1. "goes on" \in Stage
    BY <1>2, <1>7, AnswersAre
  <2>2. LoadTask(ManifestFor)
    BY <2>1 DEF Stage, If
  <2>3. ManifestFor.fail_to_pass # {}
    BY <2>2 DEF LoadTask, NodeIdsLoad
  <2> QED
    BY <1>7, <2>3 DEF ManifestFor, F
<1>8. CASE pc = "live" /\ pc' = "copy"
  <2>1. "goes on" \in Liveness
    BY <1>2, <1>8, AnswersAre
  <2> QED
    BY <1>8, <2>1 DEF Liveness, If, F
<1> QED
  <2>1. Follows(pc, pc')
    <3>1. Follows(Steps[k], Steps[k + 1])
      BY StepPairs, Zenon
    <3> QED
      BY <1>1, <3>1, Zenon
  <2> QED
    BY <1>3, <1>4, <1>5, <1>6, <1>7, <1>8, <2>1 DEF Follows

\* A gate refuses what the gates before it let through.
LEMMA RejectedSays ==
  ASSUME Types, Passed, NEW k \in 1..10, Rejected(k)
  PROVE  \E gate \in Gates :
            rejected' = Append(rejected, [id |-> Inst, gate |-> gate]) /\ CameTo(Inst, gate)
<1>1. PICK gate \in Answers(Steps[k]) \cap Gates : rejected' = Append(rejected, [id |-> Inst, gate |-> gate])
  BY DEF Rejected
<1>2. pc = Steps[k]
  BY DEF Rejected, At
<1>3. gate \in Gates /\ gate \in Answers(pc)
  BY <1>1, <1>2
<1>4. CASE pc = "declare"
  <2>1. gate \in CheckFormat
    BY <1>3, <1>4, AnswersAre
  <2>2. gate = "format" /\ ~(DeclaredIds # {} /\ Malformed = {})
    BY <1>3, <2>1 DEF CheckFormat, If, Gates
  <2> QED
    BY <1>1, <1>3, <2>2, FormedIs DEF CameTo
<1>5. CASE pc \in AfterFormat \ {"copy", "copying"}
  <2>1. Formed(Inst)
    BY <1>5 DEF Passed
  <2>2. /\ pc = "pins" => EraPins \subseteq {"goes on", "environment"}
        /\ Clone \cup HeldFor \cup Overlay \cup CheckCollectable \subseteq {"goes on", "collectability"}
        /\ LayoutOf \subseteq {"goes on", "environment"}
        /\ CheckEnvironment \subseteq {"goes on", "environment", "raises"}
        /\ Stage \subseteq {"goes on", "raises"}
        /\ Liveness \subseteq {"goes on", "liveness", "raises"}
    <3>1. EraPins \subseteq {"goes on", "environment"}
      BY DEF EraPins, If
    <3>2. Clone \subseteq {"goes on", "collectability"}
      BY DEF Clone, If
    <3>3. HeldFor \subseteq {"goes on", "collectability"}
      BY DEF HeldFor, If
    <3>4. LayoutOf \subseteq {"goes on", "environment"}
      BY Zenon DEF LayoutOf, If
    <3>5. CheckEnvironment \subseteq {"goes on", "environment", "raises"}
      BY DEF CheckEnvironment, If
    <3>6. Overlay \subseteq {"goes on", "collectability"}
      BY DEF Overlay, If
    <3>7. CheckCollectable \subseteq {"goes on", "collectability"}
      BY DEF CheckCollectable, If
    <3>8. Stage \subseteq {"goes on", "raises"}
      BY DEF Stage, If
    <3>9. Liveness \subseteq {"goes on", "liveness", "raises"}
      BY DEF Liveness, If
    <3> QED
      BY <3>1, <3>2, <3>3, <3>4, <3>5, <3>6, <3>7, <3>8, <3>9
  <2>3. /\ gate # "format"
        /\ gate = "collectability" => pc \in AfterPins
        /\ gate = "liveness" => pc = "live"
    <3>1. CASE pc = "pins"
      BY <1>3, <2>2, <3>1, AnswersAre DEF Gates
    <3>2. CASE pc \in {"clone", "hold", "overlay", "collect"}
      <4>1. gate \in Clone \cup HeldFor \cup Overlay \cup CheckCollectable
        BY <1>3, <3>2, AnswersAre
      <4>2. gate = "collectability"
        BY <1>3, <2>2, <4>1 DEF Gates
      <4> QED
        BY <3>2, <4>2 DEF AfterPins, AfterFormat
    <3>3. CASE pc \in {"layout", "environment"}
      <4>1. gate \in LayoutOf \cup CheckEnvironment
        BY <1>3, <3>3, AnswersAre
      <4>2. gate = "environment"
        BY <1>3, <2>2, <4>1 DEF Gates
      <4> QED
        BY <4>2
    <3>4. CASE pc = "stage"
      BY <1>3, <2>2, <3>4, AnswersAre DEF Gates
    <3>5. CASE pc = "live"
      BY <1>3, <2>2, <3>5, AnswersAre DEF Gates
    <3> QED
      BY <1>5, <3>1, <3>2, <3>3, <3>4, <3>5 DEF AfterFormat
  <2>4. gate \in {"collectability", "liveness"} => Inst \in Era
    BY <2>3 DEF Passed, AfterPins, AfterFormat
  <2>5. gate = "liveness" => Facts[Inst].imports /\ DeclaredBy(Inst) = Facts[Inst].collects
    BY <2>3 DEF Passed, AfterEnvironment, AfterCollect
  <2> QED
    BY <1>1, <1>3, <2>1, <2>3, <2>4, <2>5 DEF CameTo
<1>6. pc = "declare" \/ pc \in AfterFormat \ {"copy", "copying"}
  BY <1>2, StepPairs DEF AfterFormat, Follows
<1> QED
  BY <1>4, <1>5, <1>6

\* What is in hand has passed the gates behind it, whatever step is taken.
LEMMA NextPassed == Types /\ Passed /\ [Next]_vars => Passed'
<1> SUFFICES ASSUME Types, Passed, [Next]_vars PROVE Passed'
  OBVIOUS
<1> USE DEF AfterFormat, AfterPins, AfterEnvironment, AfterCollect, AfterStage, AfterLive
<1>1. ASSUME pc' \in {"down", "declare", "fetch"}
      PROVE  Passed'
  BY <1>1 DEF Passed
<1>2. ASSUME UNCHANGED <<pc, todo>>
      PROVE  Passed'
  BY <1>2 DEF Passed, Inst
<1>3. ASSUME NEW k \in 1..10, GoesOn(k)
      PROVE  Passed'
  <2>1. Inst' = Inst
    BY <1>3 DEF GoesOn, Inst
  <2> QED
    BY <1>3, <2>1, GoesOnSays DEF Passed
<1>4. ASSUME NEW k \in 1..10, Rejected(k) \/ Raises(k)
      PROVE  Passed'
  BY <1>1, <1>4 DEF Rejected, Raises
<1>5. ASSUME NEW chosen, FilterOn(chosen)
      PROVE  Passed'
  BY <1>1, <1>5 DEF FilterOn
<1>6. CASE FilterWhole \/ FilterOnly \/ FilterDraw
  BY <1>5, <1>6 DEF FilterWhole, FilterOnly, FilterDraw
<1>7. CASE CopyBegins
  <2>1. pc = "copy" /\ pc' = "copying" /\ Inst' = Inst
    BY <1>7 DEF CopyBegins, mem, Inst
  <2> QED
    BY <2>1 DEF Passed
<1>8. CASE FetchBegins \/ FetchEnds \/ CopyEnds \/ FilterRaises \/ WriteIneligible \/ Kill
  BY <1>1, <1>8 DEF FetchBegins, FetchEnds, CopyEnds, FilterRaises, WriteIneligible, Kill
<1>9. CASE Page \/ Republish \/ UNCHANGED vars
  BY <1>2, <1>9 DEF Page, Republish, vars, mem
<1> QED
  BY <1>3, <1>4, <1>6, <1>7, <1>8, <1>9 DEF Next

-----------------------------------------------------------------------------
\* How often an instance was refused, and how often it is among the first of those given.
Refusals(list, i)  == Cardinality({k \in DOMAIN list : list[k].id = i})
TimesTo(s, n, i)   == Cardinality({k \in 1..n : s[k] = i})
Done               == Len(eligible) + Len(rejected)
Filtering          == pc \notin {"down", "fetch"}

\* What the filter has decided is the first of what it was given, each as often and each refusal at a
\* gate the instance had come to; the rest is still to do.
Decided ==
    /\ Len(todo) + Done = Len(given) /\ \A k \in 1..Len(todo) : todo[k] = given[Done + k]
    /\ \A i \in Rows : TimesTo(given, Done, i) = Times(eligible, i) + Refusals(rejected, i)
    /\ \A r \in Range(rejected) : CameTo(r.id, r.gate)

\* A manifest has the number of the filter that copied it, and this filter's are its eligible ones.
Dated ==
    /\ \A i \in Rows : instances[i] \in {None, Torn} \/ instances[i] <= runs
    /\ Filtering => \A i \in Rows :
          /\ instances[i] = runs => i \in Range(eligible)
          /\ i \in Range(eligible) => instances[i] = Torn \/ instances[i] >= runs
    /\ ledger \notin {None, Torn} => ledger.run \in 1..runs /\ (Filtering => ledger.run < runs)

LEMMA RefusalsOfAppend ==
  ASSUME NEW list \in Seq(Rejections), NEW entry \in Rejections, NEW i
  PROVE  /\ Refusals(list, i) \in Nat
         /\ Refusals(Append(list, entry), i) =
               IF entry.id = i THEN Refusals(list, i) + 1 ELSE Refusals(list, i)
<1> DEFINE K == {k \in 1..Len(list) : list[k].id = i}
<1> DEFINE L == {k \in 1..(Len(list) + 1) : Append(list, entry)[k].id = i}
<1>1. /\ DOMAIN list = 1..Len(list) /\ DOMAIN Append(list, entry) = 1..(Len(list) + 1) /\ Len(list) \in Nat
      /\ \A k \in 1..Len(list) : Append(list, entry)[k] = list[k]
      /\ Append(list, entry)[Len(list) + 1] = entry
  OBVIOUS
<1>2. Refusals(list, i) = Cardinality(K) /\ Refusals(Append(list, entry), i) = Cardinality(L)
  BY <1>1 DEF Refusals
<1>3. 1..(Len(list) + 1) = (1..Len(list)) \cup {Len(list) + 1} /\ Len(list) + 1 \notin 1..Len(list)
  BY <1>1
<1>4. L = IF entry.id = i THEN K \cup {Len(list) + 1} ELSE K
  BY <1>1, <1>3
<1>5. K \in SUBSET (1..Len(list))
  OBVIOUS
<1> HIDE DEF K, L
<1> QED
  BY <1>1, <1>2, <1>4, <1>5, CountNext

LEMMA TimesToNext ==
  ASSUME NEW s, NEW n \in Nat, NEW i
  PROVE  /\ TimesTo(s, n, i) \in Nat
         /\ TimesTo(s, n + 1, i) = IF s[n + 1] = i THEN TimesTo(s, n, i) + 1 ELSE TimesTo(s, n, i)
<1> DEFINE K == {k \in 1..n : s[k] = i}
<1> DEFINE L == {k \in 1..(n + 1) : s[k] = i}
<1>1. 1..(n + 1) = (1..n) \cup {n + 1}
  OBVIOUS
<1>2. L = IF s[n + 1] = i THEN K \cup {n + 1} ELSE K
  BY <1>1
<1>3. K \in SUBSET (1..n)
  OBVIOUS
<1>4. TimesTo(s, n, i) = Cardinality(K) /\ TimesTo(s, n + 1, i) = Cardinality(L)
  BY DEF TimesTo
<1> HIDE DEF K, L
<1> QED
  BY <1>2, <1>3, <1>4, CountNext

LEMMA RefusalsTyped ==
  ASSUME NEW list \in Seq(Rejections), NEW i
  PROVE  Refusals(list, i) \in Nat
<1>1. DOMAIN list = 1..Len(list) /\ Len(list) \in Nat
  OBVIOUS
<1>2. {k \in DOMAIN list : list[k].id = i} \in SUBSET (1..Len(list))
  BY <1>1
<1> QED
  BY <1>1, <1>2, CountNext DEF Refusals

\* Nothing of what is given is decided when a filter begins, or before the first.
LEMMA NothingOf ==
  ASSUME NEW s, NEW i
  PROVE  /\ TimesTo(s, 0, i) = 0 /\ Times(<<>>, i) = 0 /\ Refusals(<<>>, i) = 0
<1>1. {k \in 1..0 : s[k] = i} = {} /\ {k \in DOMAIN <<>> : <<>>[k].id = i} = {}
  OBVIOUS
<1> QED
  BY <1>1, TimesOfNone, FS_EmptySet DEF TimesTo, Refusals

LEMMA NothingDecided ==
  ASSUME NEW chosen \in Seq(Rows), given' = chosen, todo' = chosen, eligible' = <<>>, rejected' = <<>>
  PROVE  Decided'
<1>1. Done' = 0
  BY DEF Done
<1>2. Len(chosen) + 0 = Len(chosen) /\ \A k \in 1..Len(chosen) : 0 + k = k
  OBVIOUS
<1>3. \A r \in Range(<<>>) : CameTo(r.id, r.gate)
  BY RangeOfNone
<1> QED
  BY <1>1, <1>2, <1>3, NothingOf DEF Decided

LEMMA NothingDecidedYet ==
  ASSUME given = <<>>, todo = <<>>, eligible = <<>>, rejected = <<>>
  PROVE  Decided
<1>1. Done = 0
  BY DEF Done
<1>2. \A r \in Range(<<>>) : CameTo(r.id, r.gate)
  BY RangeOfNone
<1> QED
  BY <1>1, <1>2, NothingOf DEF Decided

\* The instance in hand is the next of those given, and giving it up leaves the rest.
LEMMA NextInHand ==
  ASSUME Types, Decided, todo # <<>>
  PROVE  /\ Done \in Nat /\ Inst = given[Done + 1] /\ Inst \in Rows
         /\ Len(Tail(todo)) + (Done + 1) = Len(given)
         /\ \A k \in 1..Len(Tail(todo)) : Tail(todo)[k] = given[(Done + 1) + k]
<1>1. /\ todo \in Seq(Rows) /\ eligible \in Seq(Rows) /\ rejected \in Seq(Rejections) /\ given \in Seq(Rows)
  BY DEF Types, TypeOK
<1>2. Done \in Nat /\ Len(todo) \in Nat /\ Len(todo) > 0
  BY <1>1 DEF Done
<1>3. /\ Inst = todo[1] /\ todo[1] \in Rows /\ Len(Tail(todo)) = Len(todo) - 1
      /\ \A k \in 1..Len(Tail(todo)) : Tail(todo)[k] = todo[k + 1]
  BY <1>1, <1>2 DEF Inst
<1>4. \A k \in 1..Len(Tail(todo)) : k + 1 \in 1..Len(todo) /\ Done + (k + 1) = (Done + 1) + k
  BY <1>2, <1>3
<1>5. Len(todo) + Done = Len(given) /\ \A k \in 1..Len(todo) : todo[k] = given[Done + k]
  BY DEF Decided
<1>6. 1 \in 1..Len(todo)
  BY <1>2
<1>7. \A k \in 1..Len(Tail(todo)) : Tail(todo)[k] = given[(Done + 1) + k]
  <2>1. SUFFICES ASSUME NEW k \in 1..Len(Tail(todo)) PROVE Tail(todo)[k] = given[(Done + 1) + k]
    OBVIOUS
  <2>2. Tail(todo)[k] = todo[k + 1] /\ todo[k + 1] = given[Done + (k + 1)]
    BY <1>3, <1>4, <1>5
  <2> QED
    BY <1>4, <2>2
<1> QED
  BY <1>2, <1>3, <1>5, <1>6, <1>7

\* A copy never takes a manifest away.
LEMMA CopiesStay ==
  ASSUME Types, Passed, CopyBegins \/ CopyEnds
  PROVE  /\ Inst \in Rows
         /\ \A i \in Rows : i # Inst => instances'[i] = instances[i]
         /\ instances'[Inst] # None
         /\ instances'[Inst] \notin {None, Torn} => pc = "copying"
<1>1. Inst \in Rows
  BY DEF CopyBegins, CopyEnds, Types, TypeOK, Inst
<1>2. None # Torn /\ runs # None /\ instances \in [Rows -> {None, Torn} \cup 1..MaxRuns]
  <2>1. runs \in Nat /\ instances \in [Rows -> {None, Torn} \cup 1..MaxRuns]
    BY SourceAAssumption DEF Types, TypeOK
  <2>2. None # Torn /\ None \notin Nat
    BY SourceAAssumption
  <2> QED
    BY <2>1, <2>2
<1> QED
  BY <1>1, <1>2 DEF CopyBegins, CopyEnds

\* A manifest is written only of an instance every gate let through.
LEMMA NextProved == Types /\ Passed /\ CorpusIsProved /\ [Next]_vars => CorpusIsProved'
<1> SUFFICES ASSUME Types, Passed, CorpusIsProved, [Next]_vars PROVE CorpusIsProved'
  OBVIOUS
<1>1. ASSUME UNCHANGED instances
      PROVE  CorpusIsProved'
  BY <1>1 DEF CorpusIsProved
<1>2. CASE CopyBegins \/ CopyEnds
  <2> SUFFICES ASSUME NEW i \in Rows, instances'[i] \notin {None, Torn}
               PROVE  Provable(i)
    BY DEF CorpusIsProved
  <2>1. CASE i # Inst
    BY <1>2, <2>1, CopiesStay DEF CorpusIsProved
  <2>2. CASE i = Inst
    <3>1. pc = "copying"
      BY <1>2, <2>2, CopiesStay
    <3>2. /\ Formed(i) /\ i \in Era /\ Facts[i].imports /\ DeclaredBy(i) = Facts[i].collects
          /\ Declared2(Facts[i]).fail_to_pass # {} /\ Facts[i].live
      BY <2>2, <3>1 DEF Passed, AfterFormat, AfterPins, AfterEnvironment, AfterCollect, AfterStage, AfterLive
    <3>3. DeclaredBy(i) \subseteq WellFormed
      BY <3>2 DEF Formed
    <3> QED
      BY <3>2, <3>3 DEF Provable, DeclaredBy
  <2> QED
    BY <2>1, <2>2
<1>3. ASSUME NEW chosen, FilterOn(chosen)
      PROVE  CorpusIsProved'
  BY <1>1, <1>3 DEF FilterOn
<1>4. CASE FilterWhole \/ FilterOnly \/ FilterDraw
  BY <1>3, <1>4 DEF FilterWhole, FilterOnly, FilterDraw
<1>5. CASE \E k \in 1..10 : GoesOn(k) \/ Rejected(k) \/ Raises(k)
  BY <1>1, <1>5 DEF GoesOn, Rejected, Raises, disk
<1>6. CASE FetchBegins \/ Page \/ FetchEnds \/ Republish \/ FilterRaises \/ WriteIneligible \/ Kill
  BY <1>1, <1>6 DEF FetchBegins, Page, FetchEnds, Republish, FilterRaises, WriteIneligible, Kill, disk
<1>7. CASE UNCHANGED vars
  BY <1>1, <1>7 DEF vars, disk
<1> QED
  BY <1>2, <1>4, <1>5, <1>6, <1>7 DEF Next

LEMMA NextDecided == Types /\ Passed /\ Decided /\ [Next]_vars => Decided'
<1> SUFFICES ASSUME Types, Passed, Decided, [Next]_vars PROVE Decided'
  OBVIOUS
<1>1. ASSUME UNCHANGED <<given, todo, eligible, rejected>>
      PROVE  Decided'
  BY <1>1 DEF Decided, Done
<1>t. eligible \in Seq(Rows) /\ rejected \in Seq(Rejections)
  BY DEF Types, TypeOK
<1>2. CASE CopyEnds
  <2>1. /\ todo # <<>> /\ eligible' = Append(eligible, Inst) /\ rejected' = rejected /\ given' = given
        /\ todo' = Tail(todo)
    BY <1>2 DEF CopyEnds, Types
  <2>2. Done' = Done + 1
    BY <1>t, <2>1, AppendProperties DEF Done
  <2>3. ASSUME NEW i \in Rows
        PROVE  TimesTo(given, Done + 1, i) = Times(eligible', i) + Refusals(rejected, i)
    <3>1. TimesTo(given, Done, i) = Times(eligible, i) + Refusals(rejected, i)
      BY DEF Decided
    <3>2. TimesTo(given, Done + 1, i) =
            IF Inst = i THEN TimesTo(given, Done, i) + 1 ELSE TimesTo(given, Done, i)
      <4>1. Done \in Nat /\ Inst = given[Done + 1]
        BY <2>1, NextInHand
      <4>2. TimesTo(given, Done + 1, i) =
              IF given[Done + 1] = i THEN TimesTo(given, Done, i) + 1 ELSE TimesTo(given, Done, i)
        BY <4>1, TimesToNext
      <4> QED
        BY <4>1, <4>2
    <3>3. /\ Times(eligible, i) \in Nat
          /\ Times(eligible', i) = IF Inst = i THEN Times(eligible, i) + 1 ELSE Times(eligible, i)
      BY <1>t, <2>1, TimesOfAppend
    <3>4. Refusals(rejected, i) \in Nat
      BY <1>t, RefusalsTyped
    <3> QED
      BY <3>1, <3>2, <3>3, <3>4
  <2>4. \A r \in Range(rejected') : CameTo(r.id, r.gate)
    BY <2>1 DEF Decided
  <2> QED
    BY <2>1, <2>2, <2>3, <2>4, NextInHand DEF Decided
<1>3. ASSUME NEW k \in 1..10, Rejected(k)
      PROVE  Decided'
  <2>1. PICK gate \in Gates :
            rejected' = Append(rejected, [id |-> Inst, gate |-> gate]) /\ CameTo(Inst, gate)
    BY <1>3, RejectedSays
  <2>2. todo # <<>> /\ eligible' = eligible /\ given' = given /\ todo' = Tail(todo)
    BY <1>3 DEF Rejected, At
  <2> DEFINE entry == [id |-> Inst, gate |-> gate]
  <2>3. entry \in Rejections /\ entry.id = Inst /\ entry.gate = gate
    BY <2>2, NextInHand DEF Rejections
  <2> HIDE DEF entry
  <2>4. rejected' = Append(rejected, entry)
    BY <2>1 DEF entry
  <2>5. Done' = Done + 1
    BY <1>t, <2>2, <2>3, <2>4, AppendProperties DEF Done
  <2>6. ASSUME NEW i \in Rows
        PROVE  TimesTo(given, Done + 1, i) = Times(eligible, i) + Refusals(rejected', i)
    <3>1. TimesTo(given, Done, i) = Times(eligible, i) + Refusals(rejected, i)
      BY DEF Decided
    <3>2. TimesTo(given, Done + 1, i) =
            IF Inst = i THEN TimesTo(given, Done, i) + 1 ELSE TimesTo(given, Done, i)
      <4>1. Done \in Nat /\ Inst = given[Done + 1]
        BY <2>2, NextInHand
      <4>2. TimesTo(given, Done + 1, i) =
              IF given[Done + 1] = i THEN TimesTo(given, Done, i) + 1 ELSE TimesTo(given, Done, i)
        BY <4>1, TimesToNext
      <4> QED
        BY <4>1, <4>2
    <3>3. /\ Refusals(rejected, i) \in Nat
          /\ Refusals(rejected', i) = IF Inst = i THEN Refusals(rejected, i) + 1 ELSE Refusals(rejected, i)
      BY <1>t, <2>3, <2>4, RefusalsOfAppend
    <3>4. Times(eligible, i) \in Nat
      BY <1>t, TimesOfAppend
    <3> QED
      BY <3>1, <3>2, <3>3, <3>4
  <2>7. Range(rejected') = Range(rejected) \cup {entry}
    BY <1>t, <2>4, RangeOfAppend
  <2>8. \A r \in Range(rejected') : CameTo(r.id, r.gate)
    BY <2>1, <2>3, <2>7 DEF Decided
  <2> QED
    BY <2>2, <2>5, <2>6, <2>8, NextInHand DEF Decided
<1>4. ASSUME NEW chosen \in Seq(Rows), FilterOn(chosen)
      PROVE  Decided'
  <2>1. given' = chosen /\ todo' = chosen /\ eligible' = <<>> /\ rejected' = <<>>
    BY <1>4 DEF FilterOn
  <2> QED
    BY <1>4, <2>1, NothingDecided
<1>5. CASE FilterWhole \/ FilterOnly \/ FilterDraw
  BY <1>4, <1>5, GivenTyped DEF FilterWhole, FilterOnly, FilterDraw, MayFilter, Types
<1>6. ASSUME NEW k \in 1..10, GoesOn(k) \/ Raises(k)
      PROVE  Decided'
  BY <1>1, <1>6 DEF GoesOn, Raises, mem
<1>7. CASE FetchBegins \/ Page \/ FetchEnds \/ Republish \/ CopyBegins \/ FilterRaises
            \/ WriteIneligible \/ Kill
  BY <1>1, <1>7 DEF FetchBegins, Page, FetchEnds, Republish, CopyBegins, FilterRaises, WriteIneligible,
     Kill, mem
<1>8. CASE UNCHANGED vars
  BY <1>1, <1>8 DEF vars, mem
<1> QED
  BY <1>2, <1>3, <1>5, <1>6, <1>7, <1>8 DEF Next

\* The ledger names rows.
LedgerTyped ==
    ledger \notin {None, Torn} => /\ ledger.eligible \in Seq(Rows) /\ ledger.rejected \in Seq(Rejections)
                                 /\ ledger.run \in Nat

LEMMA NextLedgerTyped == Types /\ LedgerTyped /\ [Next]_vars => LedgerTyped'
<1> SUFFICES ASSUME Types, LedgerTyped, [Next]_vars PROVE LedgerTyped'
  OBVIOUS
<1>1. ASSUME UNCHANGED ledger
      PROVE  LedgerTyped'
  BY <1>1 DEF LedgerTyped
<1>2. CASE WriteIneligible
  <2>1. ledger'.eligible = eligible /\ ledger'.rejected = rejected /\ ledger'.run = runs
    BY <1>2 DEF WriteIneligible
  <2>2. eligible \in Seq(Rows) /\ rejected \in Seq(Rejections) /\ runs \in Nat
    BY SourceAAssumption DEF Types, TypeOK
  <2> QED
    BY <2>1, <2>2 DEF LedgerTyped
<1>3. CASE Kill
  <2>1. ledger' = ledger \/ ledger' = Torn
    BY <1>3 DEF Kill
  <2> QED
    BY <2>1 DEF LedgerTyped
<1>4. ASSUME NEW chosen, FilterOn(chosen)
      PROVE  LedgerTyped'
  BY <1>1, <1>4 DEF FilterOn
<1>5. CASE FilterWhole \/ FilterOnly \/ FilterDraw
  BY <1>4, <1>5 DEF FilterWhole, FilterOnly, FilterDraw
<1>6. CASE \E k \in 1..10 : GoesOn(k) \/ Rejected(k) \/ Raises(k)
  BY <1>1, <1>6 DEF GoesOn, Rejected, Raises, disk
<1>7. CASE FetchBegins \/ Page \/ FetchEnds \/ Republish \/ CopyBegins \/ CopyEnds \/ FilterRaises
  BY <1>1, <1>7 DEF FetchBegins, Page, FetchEnds, Republish, CopyBegins, CopyEnds, FilterRaises, disk
<1>8. CASE UNCHANGED vars
  BY <1>1, <1>8 DEF vars, disk
<1> QED
  BY <1>2, <1>3, <1>5, <1>6, <1>7, <1>8 DEF Next

LEMMA NextDated == Types /\ Dated /\ [Next]_vars => Dated'
<1> SUFFICES ASSUME Types, Dated, [Next]_vars PROVE Dated'
  OBVIOUS
<1>0. /\ runs \in Nat /\ instances \in [Rows -> {None, Torn} \cup 1..MaxRuns] /\ MaxRuns \in Nat
      /\ \A n \in Nat : n # None /\ n # Torn
  BY Typed, Bounds
<1>1. ASSUME UNCHANGED <<instances, ledger, eligible, runs>>, Filtering' => Filtering
      PROVE  Dated'
  BY <1>1 DEF Dated
<1>2. CASE FetchBegins
  <2>1. runs' = runs + 1 /\ ~Filtering' /\ UNCHANGED <<instances, ledger>>
    BY <1>2 DEF FetchBegins, disk, Filtering
  <2>2. \A i \in Rows : instances[i] \in {None, Torn} \/ instances[i] <= runs + 1
    BY <1>0 DEF Dated
  <2>3. ledger \notin {None, Torn} => ledger.run \in 1..(runs + 1)
    BY <1>0 DEF Dated
  <2> QED
    BY <2>1, <2>2, <2>3 DEF Dated
<1>3. ASSUME NEW chosen, MayFilter, FilterOn(chosen)
      PROVE  Dated'
  <2>1. runs' = runs + 1 /\ eligible' = <<>> /\ UNCHANGED <<instances, ledger>>
    BY <1>3 DEF FilterOn
  <2>2. \A i \in Rows : instances[i] \in {None, Torn} \/ instances[i] <= runs + 1
    BY <1>0 DEF Dated
  <2>3. \A i \in Rows : instances[i] # runs + 1
    BY <1>0 DEF Dated
  <2>4. ledger \notin {None, Torn} => ledger.run \in 1..(runs + 1) /\ ledger.run < runs + 1
    BY <1>0 DEF Dated
  <2> QED
    BY <2>1, <2>2, <2>3, <2>4, RangeOfNone DEF Dated
<1>4. CASE FilterWhole \/ FilterOnly \/ FilterDraw
  BY <1>3, <1>4 DEF FilterWhole, FilterOnly, FilterDraw
<1>5. CASE CopyBegins
  <2>1. /\ Filtering /\ UNCHANGED <<ledger, eligible, runs>>
        /\ instances' = [instances EXCEPT ![Inst] = Torn]
    BY <1>5 DEF CopyBegins, mem, Filtering
  <2>2. \A i \in Rows : instances'[i] = Torn \/ instances'[i] = instances[i]
    BY <1>0, <2>1
  <2> QED
    BY <1>0, <2>1, <2>2 DEF Dated
<1>6. CASE CopyEnds
  <2>1. /\ Filtering /\ UNCHANGED <<ledger, runs>> /\ Inst \in Rows /\ eligible' = Append(eligible, Inst)
        /\ instances' = [instances EXCEPT ![Inst] = runs]
    BY <1>6 DEF CopyEnds, Filtering, Types, TypeOK, Inst
  <2>2. Range(eligible') = Range(eligible) \cup {Inst}
    BY <2>1, RangeOfAppend DEF Types, TypeOK
  <2>3. \A i \in Rows : instances'[i] = IF i = Inst THEN runs ELSE instances[i]
    BY <1>0, <2>1
  <2> QED
    BY <1>0, <2>1, <2>2, <2>3 DEF Dated
<1>7. CASE WriteIneligible
  <2>1. ledger'.run = runs /\ ~Filtering' /\ UNCHANGED <<instances, runs>> /\ runs > 0
    BY <1>7 DEF WriteIneligible, Filtering, Types
  <2> QED
    BY <1>0, <2>1 DEF Dated
<1>8. CASE Kill
  <2>1. (ledger' = ledger \/ ledger' = Torn) /\ ~Filtering' /\ UNCHANGED <<instances, runs>>
    BY <1>8 DEF Kill, Filtering
  <2> QED
    BY <2>1 DEF Dated
<1>9. ASSUME NEW k \in 1..10, GoesOn(k) \/ Rejected(k) \/ Raises(k)
      PROVE  Dated'
  <2>1. Filtering
    BY <1>9, StepsAre DEF GoesOn, Rejected, Raises, At, Filtering
  <2> QED
    BY <1>1, <1>9, <2>1 DEF GoesOn, Rejected, Raises, disk, mem
<1>10. CASE Page \/ FetchEnds \/ Republish \/ FilterRaises
  BY <1>1, <1>10 DEF Page, FetchEnds, Republish, FilterRaises, disk, mem, Filtering
<1>11. CASE UNCHANGED vars
  BY <1>1, <1>11 DEF vars, disk, mem, Filtering
<1> QED
  BY <1>2, <1>4, <1>5, <1>6, <1>7, <1>8, <1>9, <1>10, <1>11 DEF Next

\* A ledger is written only of what was decided.
LEMMA LedgerWritten ==
  ASSUME Types, Decided, Dated, WriteIneligible
  PROVE  LedgerAccounts'
<1>1. /\ ledger'.eligible = eligible /\ ledger'.rejected = rejected /\ ledger'.run = runs
      /\ ledger'.of = given /\ ledger'.input = Len(given) /\ todo = <<>> /\ instances' = instances
      /\ Refused \cap Range(eligible) = {} /\ Filtering
  BY DEF WriteIneligible, Conserves, Ids, Filtering
<1>2. eligible \in Seq(Rows) /\ rejected \in Seq(Rejections) /\ given \in Seq(Rows)
  BY DEF Types, TypeOK
<1>3. Done = Len(given) /\ DOMAIN given = 1..Len(given)
  <2>1. Len(todo) = 0 /\ Len(todo) + Done = Len(given) /\ Done \in Nat
    BY <1>1, <1>2 DEF Decided, Done
  <2> QED
    BY <1>2, <2>1
<1> DEFINE refused == [k \in DOMAIN rejected |-> rejected[k].id]
<1>4. /\ \A i : Times(refused, i) = Refusals(rejected, i)
      /\ Range(refused) = Refused
  <2>1. DOMAIN refused = DOMAIN rejected /\ \A k \in DOMAIN rejected : refused[k] = rejected[k].id
    OBVIOUS
  <2>2. Range(refused) = Refused
    BY <2>1 DEF Range, Refused
  <2>3. ASSUME NEW i
        PROVE  {k \in DOMAIN refused : refused[k] = i} = {k \in DOMAIN rejected : rejected[k].id = i}
    BY <2>1
  <2> HIDE DEF refused
  <2> QED
    BY <2>2, <2>3 DEF Times, Refusals
<1> HIDE DEF refused
<1>5. ASSUME NEW i \in Rows
      PROVE  /\ Times(given, i) = Times(eligible, i) + Times(refused, i)
             /\ i \notin Range(eligible) \cap Range(refused)
             /\ instances[i] = runs => i \in Range(eligible)
             /\ i \in Range(eligible) => instances[i] = Torn \/ instances[i] >= runs
  <2>1. TimesTo(given, Done, i) = Times(eligible, i) + Refusals(rejected, i)
    BY DEF Decided
  <2>2. Times(given, i) = TimesTo(given, Done, i)
    BY <1>3 DEF Times, TimesTo
  <2> QED
    BY <1>1, <1>4, <2>1, <2>2 DEF Dated
<1>6. \A r \in Range(rejected) : CameTo(r.id, r.gate)
  BY DEF Decided
<1> QED
  BY <1>1, <1>5, <1>6 DEF LedgerAccounts, Ids, refused

LEMMA NextLedger ==
  Types /\ Decided /\ Dated /\ LedgerTyped /\ LedgerAccounts /\ [Next]_vars => LedgerAccounts'
<1> SUFFICES ASSUME Types, Decided, Dated, LedgerTyped, LedgerAccounts, [Next]_vars
             PROVE  LedgerAccounts'
  OBVIOUS
<1>1. ASSUME UNCHANGED <<instances, ledger>>
      PROVE  LedgerAccounts'
  BY <1>1 DEF LedgerAccounts
<1>2. CASE CopyBegins \/ CopyEnds
  <2>1. /\ ledger' = ledger /\ Filtering
        /\ instances' = [instances EXCEPT ![Inst] = Torn] \/ instances' = [instances EXCEPT ![Inst] = runs]
    BY <1>2 DEF CopyBegins, CopyEnds, Filtering
  <2>2. /\ runs \in Nat /\ instances \in [Rows -> {None, Torn} \cup 1..MaxRuns]
        /\ \A n \in Nat : n # Torn
    BY Typed, Bounds
  <2>3. ASSUME NEW i \in Rows
        PROVE  instances'[i] = instances[i] \/ instances'[i] = Torn \/ instances'[i] = runs
    BY <2>1, <2>2
  <2> SUFFICES ASSUME ledger \notin {None, Torn}, NEW i \in Rows
               PROVE  /\ instances'[i] = ledger.run => i \in Ids(ledger.eligible)
                      /\ i \in Ids(ledger.eligible) => instances'[i] = Torn \/ instances'[i] >= ledger.run
    BY <2>1 DEF LedgerAccounts
  <2>4. ledger.run \in Nat /\ ledger.run < runs
    BY <2>1, <2>2 DEF Dated, LedgerTyped
  <2>5. /\ instances[i] = ledger.run => i \in Ids(ledger.eligible)
        /\ i \in Ids(ledger.eligible) => instances[i] = Torn \/ instances[i] >= ledger.run
    BY DEF LedgerAccounts
  <2> QED
    BY <2>2, <2>3, <2>4, <2>5
<1>3. CASE WriteIneligible
  BY <1>3, LedgerWritten
<1>4. CASE Kill
  <2>1. instances' = instances /\ (ledger' = ledger \/ ledger' = Torn)
    BY <1>4 DEF Kill
  <2> QED
    BY <2>1 DEF LedgerAccounts
<1>5. ASSUME NEW chosen, FilterOn(chosen)
      PROVE  LedgerAccounts'
  BY <1>1, <1>5 DEF FilterOn
<1>6. CASE FilterWhole \/ FilterOnly \/ FilterDraw
  BY <1>5, <1>6 DEF FilterWhole, FilterOnly, FilterDraw
<1>7. CASE \E k \in 1..10 : GoesOn(k) \/ Rejected(k) \/ Raises(k)
  BY <1>1, <1>7 DEF GoesOn, Rejected, Raises, disk
<1>8. CASE FetchBegins \/ Page \/ FetchEnds \/ Republish \/ FilterRaises
  BY <1>1, <1>8 DEF FetchBegins, Page, FetchEnds, Republish, FilterRaises, disk
<1>9. CASE UNCHANGED vars
  BY <1>1, <1>9 DEF vars, disk
<1> QED
  BY <1>2, <1>3, <1>4, <1>6, <1>7, <1>8, <1>9 DEF Next

\* Whatever the filters were given, however often they ran and wherever they died, a manifest in the
\* corpus passed every gate (public.py:29-33).
THEOREM CorpusIsProvedHolds == Spec => []CorpusIsProved
<1>1. Init => Passed /\ CorpusIsProved
  BY DEF Init, Passed, AfterFormat, AfterPins, AfterEnvironment, AfterCollect, AfterStage,
     AfterLive, CorpusIsProved
<1> QED
  BY <1>1, InitTypes, NextTypes, NextPassed, NextProved, PTL DEF Spec

\* A ledger that stands has every instance its filter was given, as often as it was given, on one side
\* and never on both; the manifests of its filter are its eligible ones, and every refusal is of a gate
\* the instance had come to (gates.py:752-785, public.py:267-304).
THEOREM LedgerAccountsHolds == Spec => []LedgerAccounts
<1>1. Init => Passed /\ Decided /\ Dated /\ LedgerTyped /\ LedgerAccounts
  <2> SUFFICES ASSUME Init PROVE Passed /\ Decided /\ Dated /\ LedgerTyped /\ LedgerAccounts
    OBVIOUS
  <2>1. Decided
    BY NothingDecidedYet DEF Init
  <2> QED
    BY <2>1 DEF Init, Passed, AfterFormat, AfterPins, AfterEnvironment, AfterCollect, AfterStage,
       AfterLive, Dated, Filtering, LedgerTyped, LedgerAccounts
<1> QED
  BY <1>1, InitTypes, NextTypes, NextPassed, NextDecided, NextDated, NextLedgerTyped, NextLedger, PTL DEF Spec
=============================================================================
