-------------------------------- MODULE Lemas --------------------------------
(****************************************************************************)
(* What several proofs use.  The naturals are well ordered: this stands for *)
(* induction (the least counterexample), and for the code that takes the    *)
(* first element of a list that satisfies something.  And the FIFO queue of *)
(* a memory: its elements, and that their order is that of their ids.       *)
(****************************************************************************)
EXTENDS SequencesExt, SequenceTheorems, FiniteSetTheorems, TLAPS

Elementos(s) == {s[i] : i \in 1..Len(s)}
Creciente(s) == \A i, j \in 1..Len(s) : i < j => s[i] < s[j]

------------------------------------------------------------------------------

\* Every nonempty set of naturals has a least element (from the well-foundedness of strict
\* inclusion between finite sets, here the intervals 1..n).
LEMMA Minimo ==
  ASSUME NEW T, T \subseteq Nat, T # {}
  PROVE  \E x \in T : \A y \in T : x <= y
<1> DEFINE F == {1..n : n \in T}
           R == StrictSubsetOrdering(Nat)
<1>1. F \subseteq FiniteSubsetsOf(Nat)
  <2>1. ASSUME NEW n \in T
        PROVE  1..n \in FiniteSubsetsOf(Nat)
    <3>1. IsFiniteSet(1..n)
      BY FS_Interval
    <3>2. QED
      BY <3>1 DEF FiniteSubsetsOf
  <2>2. QED
    BY <2>1
<1>2. IsWellFoundedOn(R, FiniteSubsetsOf(Nat)) /\ F # {}
  BY FS_StrictSubsetOrderingWellFounded
<1>3. \E u \in F : \A v \in F : ~(<<v, u>> \in R)
  <2> HIDE DEF F, R
  <2>1. QED
    BY <1>1, <1>2, WFMin
<1>4. PICK x \in T : \A v \in F : ~(<<v, 1..x>> \in R)
  BY <1>3
<1>5. ASSUME NEW y \in T
      PROVE  x <= y
  <2> SUFFICES ASSUME y < x
               PROVE  FALSE
    OBVIOUS
  <2>1. 1..y \in F /\ 1..y \subseteq 1..x /\ x \in 1..x /\ x \notin 1..y
    OBVIOUS
  <2>2. 1..x \subseteq Nat /\ 1..y \subseteq Nat /\ 1..y # 1..x
    BY <2>1
  <2>3. <<1..y, 1..x>> \in R
    BY <2>1, <2>2 DEF StrictSubsetOrdering
  <2>4. QED
    BY <1>4, <2>1, <2>3
<1>6. QED
  BY <1>5

------------------------------------------------------------------------------
\* Queueing an id above all the others.
LEMMA AgregarElemento ==
  ASSUME NEW s \in Seq(Nat), NEW x \in Nat
  PROVE  /\ Elementos(Append(s, x)) = Elementos(s) \cup {x}
         /\ Creciente(s) /\ (\A y \in Elementos(s) : y < x) => Creciente(Append(s, x))
<1>1. /\ Append(s, x) \in Seq(Nat) /\ Len(s) \in Nat /\ Len(Append(s, x)) = Len(s) + 1
      /\ \A i \in 1..Len(s) : Append(s, x)[i] = s[i]
      /\ Append(s, x)[Len(s) + 1] = x
  OBVIOUS
<1>2. \A i \in 1 .. Len(s) + 1 : i \in 1..Len(s) \/ i = Len(s) + 1
  BY <1>1
<1>3. \A i \in 1..Len(s) : i \in 1 .. Len(s) + 1 /\ i < Len(s) + 1
  BY <1>1
<1>4. Len(s) + 1 \in 1 .. Len(s) + 1
  BY <1>1
<1> DEFINE a == Append(s, x)
           n == Len(s)
<1>5. Elementos(a) = Elementos(s) \cup {x}
  <2> HIDE DEF a
  <2>1. Len(a) = n + 1 /\ a[n + 1] = x /\ \A i \in 1..n : a[i] = s[i]
    BY <1>1 DEF a
  <2>2. QED
    BY <1>2, <1>3, <1>4, <2>1 DEF Elementos
<1>6. ASSUME Creciente(s), \A y \in Elementos(s) : y < x
      PROVE  Creciente(a)
  <2> SUFFICES ASSUME NEW i \in 1 .. n + 1, NEW j \in 1 .. n + 1, i < j
               PROVE  a[i] < a[j]
    BY <1>1 DEF Creciente
  <2>1. i \in 1..n
    BY <1>1
  <2>2. CASE j \in 1..n
    BY <1>1, <1>6, <2>1, <2>2 DEF Creciente
  <2>3. CASE j = n + 1
    <3>1. s[i] \in Elementos(s) /\ a[i] = s[i] /\ a[j] = x
      BY <1>1, <2>1, <2>3 DEF Elementos
    <3>2. QED
      BY <1>6, <3>1
  <2>4. QED
    BY <1>2, <2>2, <2>3
<1>7. QED
  BY <1>5, <1>6

\* Taking the first one out.
LEMMA QuitarPrimero ==
  ASSUME NEW s \in Seq(Nat), s # <<>>
  PROVE  /\ Head(s) \in Elementos(s)
         /\ Elementos(s) \ {Head(s)} \subseteq Elementos(Tail(s))
         /\ Elementos(Tail(s)) \subseteq Elementos(s)
         /\ Creciente(s) => Creciente(Tail(s)) /\ Head(s) \notin Elementos(Tail(s))
<1> DEFINE t == Tail(s)
<1>1. /\ Len(s) \in Nat /\ Len(s) >= 1 /\ Len(t) = Len(s) - 1 /\ Head(s) = s[1]
      /\ \A i \in 1 .. Len(s) - 1 : t[i] = s[i + 1]
      /\ \A i \in 1..Len(s) : s[i] \in Nat
  OBVIOUS
<1>2. /\ 1 \in 1..Len(s)
      /\ \A i \in 1..Len(s) : i = 1 \/ (i - 1 \in 1 .. Len(s) - 1 /\ (i - 1) + 1 = i)
      /\ \A i \in 1 .. Len(s) - 1 : i + 1 \in 1..Len(s) /\ 1 < i + 1
  BY <1>1
<1> HIDE DEF t
<1>3. Head(s) \in Elementos(s)
  BY <1>1, <1>2 DEF Elementos
<1>4. Elementos(s) \ {Head(s)} \subseteq Elementos(t)
  <2> SUFFICES ASSUME NEW i \in 1..Len(s), s[i] # Head(s)
               PROVE  s[i] \in Elementos(t)
    BY DEF Elementos
  <2>1. i # 1
    BY <1>1
  <2>2. i - 1 \in 1..Len(t) /\ t[i - 1] = s[i]
    BY <1>1, <1>2, <2>1
  <2>3. QED
    BY <2>2 DEF Elementos
<1>5. Elementos(t) \subseteq Elementos(s)
  BY <1>1, <1>2 DEF Elementos
<1>6. ASSUME Creciente(s)
      PROVE  Creciente(t) /\ Head(s) \notin Elementos(t)
  <2>1. Creciente(t)
    <3> SUFFICES ASSUME NEW i \in 1 .. Len(s) - 1, NEW j \in 1 .. Len(s) - 1, i < j
                 PROVE  t[i] < t[j]
      BY <1>1 DEF Creciente
    <3>1. i + 1 \in 1..Len(s) /\ j + 1 \in 1..Len(s) /\ i + 1 < j + 1
      BY <1>1
    <3>2. s[i + 1] < s[j + 1]
      BY <1>6, <3>1 DEF Creciente
    <3>3. QED
      BY <1>1, <3>2
  <2>2. ASSUME NEW i \in 1 .. Len(s) - 1
        PROVE  s[1] < t[i] /\ s[1] \in Nat /\ t[i] \in Nat
    <3>1. s[1] < s[i + 1]
      BY <1>2, <1>6 DEF Creciente
    <3>2. QED
      BY <1>1, <1>2, <3>1
  <2>3. Head(s) \notin Elementos(t)
    <3> SUFFICES ASSUME NEW i \in 1..Len(t), Head(s) = t[i]
                 PROVE  FALSE
      BY DEF Elementos
    <3>1. QED
      BY <1>1, <2>2
  <2>4. QED
    BY <2>1, <2>3
<1>7. QED
  BY <1>3, <1>4, <1>5, <1>6 DEF t

\* How many elements of a list are in a set.
Cuantos(s, C) == Cardinality({i \in 1..Len(s) : s[i] \in C})
Bit(b) == IF b THEN 1 ELSE 0

LEMMA CuantosTipo ==
  ASSUME NEW T, NEW s \in Seq(T), NEW C
  PROVE  /\ IsFiniteSet({i \in 1..Len(s) : s[i] \in C})
         /\ Cuantos(s, C) \in Nat
         /\ Cuantos(s, C) = 0 <=> \A i \in 1..Len(s) : s[i] \notin C
<1> DEFINE I == {i \in 1..Len(s) : s[i] \in C}
<1>1. IsFiniteSet(1..Len(s))
  BY FS_Interval, LenProperties
<1>2. IsFiniteSet(I)
  BY <1>1, FS_Subset
<1>3. Cardinality(I) \in Nat /\ (Cardinality(I) = 0 <=> I = {})
  <2> HIDE DEF I
  <2>1. QED
    BY <1>2, FS_CardinalityType, FS_EmptySet
<1>4. QED
  BY <1>2, <1>3 DEF Cuantos

LEMMA CuantosVacia ==
  ASSUME NEW C
  PROVE  Cuantos(<<>>, C) = 0
<1>1. {i \in 1..Len(<<>>) : <<>>[i] \in C} = {}
  OBVIOUS
<1>2. QED
  BY <1>1, FS_EmptySet DEF Cuantos

LEMMA CuantosConcat ==
  ASSUME NEW T, NEW s \in Seq(T), NEW t \in Seq(T), NEW C
  PROVE  Cuantos(s \o t, C) = Cuantos(s, C) + Cuantos(t, C)
<1> DEFINE m == Len(s)
           n == Len(t)
           A == {i \in 1..m : s[i] \in C}
           B == {i \in 1..n : t[i] \in C}
           D == {i \in m + 1 .. m + n : t[i - m] \in C}
           f == [i \in B |-> i + m]
<1>1. /\ m \in Nat /\ n \in Nat /\ Len(s \o t) = m + n
      /\ \A i \in 1 .. m + n : (s \o t)[i] = IF i <= m THEN s[i] ELSE t[i - m]
  BY ConcatProperties, LenProperties
<1>2. IsFiniteSet(A) /\ IsFiniteSet(B)
  BY CuantosTipo
<1>3. f \in Bijection(B, D)
  <2>1. f \in [B -> D]
    <3>1. \A i \in B : i + m \in m + 1 .. m + n /\ (i + m) - m = i
      BY <1>1
    <3>2. QED
      BY <3>1
  <2>2. \A i, j \in B : f[i] = f[j] => i = j
    BY <1>1
  <2>3. \A d \in D : \E i \in B : f[i] = d
    <3> SUFFICES ASSUME NEW d \in D
                 PROVE  \E i \in B : f[i] = d
      OBVIOUS
    <3>1. d - m \in B /\ (d - m) + m = d
      BY <1>1
    <3>2. QED
      BY <3>1
  <2> HIDE DEF f, B, D
  <2>4. QED
    BY <2>1, <2>2, <2>3 DEF Bijection, Injection, Surjection, IsInjective
<1>4. IsFiniteSet(D) /\ Cardinality(D) = Cardinality(B)
  <2> HIDE DEF f, B, D
  <2>1. QED
    BY <1>2, <1>3, FS_Bijection DEF ExistsBijection
<1>5. {i \in 1..Len(s \o t) : (s \o t)[i] \in C} = A \cup D
  <2>1. {i \in 1 .. m + n : (s \o t)[i] \in C} \subseteq A \cup D
    BY <1>1
  <2>2. \A i \in A : i \in 1 .. m + n /\ i <= m
    BY <1>1
  <2>3. \A i \in D : i \in 1 .. m + n /\ ~(i <= m)
    BY <1>1
  <2>4. QED
    BY <1>1, <2>1, <2>2, <2>3
<1>6. A \cap D = {}
  BY <1>1
<1>7. Cardinality(A \cup D) = Cardinality(A) + Cardinality(D)
  <2> HIDE DEF A, D
  <2>1. Cardinality(A) \in Nat /\ Cardinality(D) \in Nat
    BY <1>2, <1>4, FS_CardinalityType
  <2>2. Cardinality(A \cup D) = Cardinality(A) + Cardinality(D) - Cardinality(A \cap D)
    BY <1>2, <1>4, FS_Union
  <2>3. Cardinality(A \cap D) = 0
    BY <1>6, FS_EmptySet
  <2>4. QED
    BY <2>1, <2>2, <2>3
<1>8. QED
  BY <1>4, <1>5, <1>7 DEF Cuantos

LEMMA CuantosUno ==
  ASSUME NEW x, NEW C
  PROVE  Cuantos(<<x>>, C) = Bit(x \in C)
<1>1. {i \in 1..Len(<<x>>) : <<x>>[i] \in C} = IF x \in C THEN {1} ELSE {}
  OBVIOUS
<1>2. QED
  BY <1>1, FS_EmptySet, FS_Singleton DEF Cuantos, Bit

LEMMA CuantosAgregar ==
  ASSUME NEW T, NEW s \in Seq(T), NEW x \in T, NEW C
  PROVE  /\ Append(s, x) \in Seq(T)
         /\ Len(Append(s, x)) = Len(s) + 1
         /\ Cuantos(Append(s, x), C) = Cuantos(s, C) + Bit(x \in C)
<1>1. Append(s, x) = s \o <<x>>
  BY AppendIsConcat
<1>2. <<x>> \in Seq(T)
  OBVIOUS
<1>3. Cuantos(s \o <<x>>, C) = Cuantos(s, C) + Cuantos(<<x>>, C)
  BY <1>2, CuantosConcat
<1>4. Cuantos(<<x>>, C) = Bit(x \in C)
  BY CuantosUno
<1>5. Append(s, x) \in Seq(T) /\ Len(Append(s, x)) = Len(s) + 1
  BY AppendProperties
<1>6. QED
  BY <1>1, <1>3, <1>4, <1>5

\* A list split in two around a place.
LEMMA EnDosPartes ==
  ASSUME NEW T, NEW s \in Seq(T), NEW k \in 0..Len(s)
  PROVE  /\ SubSeq(s, 1, k) \in Seq(T) /\ Len(SubSeq(s, 1, k)) = k
         /\ SubSeq(s, k + 1, Len(s)) \in Seq(T)
         /\ Len(SubSeq(s, k + 1, Len(s))) = Len(s) - k
         /\ s = SubSeq(s, 1, k) \o SubSeq(s, k + 1, Len(s))
<1>1. Len(s) \in Nat /\ \A i \in 1..Len(s) : s[i] \in T
  BY LenProperties, ElementOfSeq
<1>2. \A i \in 1..k : s[i] \in T
  BY <1>1
<1>3. SubSeq(s, 1, k) \in Seq(T) /\ Len(SubSeq(s, 1, k)) = k
  BY <1>1, <1>2, SubSeqProperties
<1>4. \A i \in k + 1 .. Len(s) : s[i] \in T
  BY <1>1
<1>5. SubSeq(s, k + 1, Len(s)) \in Seq(T) /\ Len(SubSeq(s, k + 1, Len(s))) = Len(s) - k
  BY <1>1, <1>4, SubSeqProperties
<1>6. SubSeq(s, 1, k) \o SubSeq(s, k + 1, Len(s)) = SubSeq(s, 1, Len(s))
  <2>1. 1 \in 1 .. Len(s) + 1 /\ k \in 1 - 1 .. Len(s) /\ Len(s) \in k..Len(s)
    BY <1>1
  <2>2. QED
    BY <2>1, ConcatAdjacentSubSeq
<1>7. SubSeq(s, 1, Len(s)) = s
  BY SubSeqFull
<1>8. QED
  BY <1>3, <1>5, <1>6, <1>7

LEMMA CuantosInsertar ==
  ASSUME NEW T, NEW s \in Seq(T), NEW x \in T, NEW k \in 1 .. Len(s) + 1, NEW C
  PROVE  /\ InsertAt(s, k, x) \in Seq(T)
         /\ Len(InsertAt(s, k, x)) = Len(s) + 1
         /\ Cuantos(InsertAt(s, k, x), C) = Cuantos(s, C) + Bit(x \in C)
<1> DEFINE a == SubSeq(s, 1, k - 1)
           b == SubSeq(s, k, Len(s))
<1>0. Len(s) \in Nat
  BY LenProperties
<1>1. k - 1 \in 0..Len(s) /\ (k - 1) + 1 = k
  BY <1>0
<1>2. a \in Seq(T) /\ b \in Seq(T) /\ s = a \o b /\ Len(s) = Len(a) + Len(b)
  <2>1. \A j \in 0..Len(s) : /\ SubSeq(s, 1, j) \in Seq(T) /\ Len(SubSeq(s, 1, j)) = j
                            /\ SubSeq(s, j + 1, Len(s)) \in Seq(T)
                            /\ Len(SubSeq(s, j + 1, Len(s))) = Len(s) - j
                            /\ s = SubSeq(s, 1, j) \o SubSeq(s, j + 1, Len(s))
    BY EnDosPartes
  <2> DEFINE j == k - 1
  <2>2. j \in 0..Len(s) /\ j + 1 = k
    BY <1>1
  <2> HIDE DEF j
  <2>3. /\ SubSeq(s, 1, j) \in Seq(T) /\ Len(SubSeq(s, 1, j)) = j
        /\ SubSeq(s, k, Len(s)) \in Seq(T) /\ Len(SubSeq(s, k, Len(s))) = Len(s) - j
        /\ s = SubSeq(s, 1, j) \o SubSeq(s, k, Len(s))
    BY <2>1, <2>2
  <2>4. a \in Seq(T) /\ b \in Seq(T) /\ s = a \o b /\ Len(a) = j /\ Len(b) = Len(s) - j
    BY <2>3, Zenon DEF j
  <2> HIDE DEF a, b
  <2>5. QED
    BY <1>0, <2>2, <2>4
<1>3. InsertAt(s, k, x) = (a \o <<x>>) \o b
  BY DEF InsertAt
<1> HIDE DEF a, b
<1>4. a \o <<x>> = Append(a, x)
  BY <1>2, AppendIsConcat
<1>5. /\ Append(a, x) \in Seq(T) /\ Len(Append(a, x)) = Len(a) + 1
      /\ Cuantos(Append(a, x), C) = Cuantos(a, C) + Bit(x \in C)
  BY <1>2, CuantosAgregar
<1>6. Cuantos(s, C) = Cuantos(a, C) + Cuantos(b, C)
  BY <1>2, CuantosConcat
<1>7. Cuantos(Append(a, x) \o b, C) = Cuantos(Append(a, x), C) + Cuantos(b, C)
  BY <1>2, <1>5, CuantosConcat
<1>8. Append(a, x) \o b \in Seq(T) /\ Len(Append(a, x) \o b) = Len(a) + 1 + Len(b)
  BY <1>2, <1>5, ConcatProperties
<1>9. Cuantos(a, C) \in Nat /\ Cuantos(b, C) \in Nat /\ Len(a) \in Nat /\ Len(b) \in Nat
  BY <1>2, CuantosTipo, LenProperties
<1>10. Bit(x \in C) \in Nat
  BY DEF Bit
<1>11. InsertAt(s, k, x) = Append(a, x) \o b
  BY <1>3, <1>4
<1>12. QED
  BY <1>2, <1>5, <1>6, <1>7, <1>8, <1>9, <1>10, <1>11

LEMMA CuantosQuitar ==
  ASSUME NEW T, NEW s \in Seq(T), NEW k \in 1..Len(s), NEW C
  PROVE  /\ RemoveAt(s, k) \in Seq(T)
         /\ Len(RemoveAt(s, k)) = Len(s) - 1
         /\ Cuantos(s, C) = Cuantos(RemoveAt(s, k), C) + Bit(s[k] \in C)
<1> DEFINE a == SubSeq(s, 1, k - 1)
           b == SubSeq(s, k + 1, Len(s))
           c == SubSeq(s, 1, k)
<1>0. Len(s) \in Nat /\ s[k] \in T
  BY LenProperties, ElementOfSeq
<1>1. k - 1 \in 0..Len(s) /\ k \in 0..Len(s)
  BY <1>0
<1>2. c \in Seq(T) /\ b \in Seq(T) /\ s = c \o b /\ Len(c) = k /\ Len(b) = Len(s) - k
  BY <1>0, <1>1, EnDosPartes
<1>3. a \in Seq(T) /\ Len(a) = k - 1
  BY <1>0, <1>1, EnDosPartes
<1>4. c = a \o <<s[k]>>
  <2>1. 1 \in 1..Len(s) /\ k \in 1..Len(s)
    BY <1>0
  <2>2. QED
    BY <2>1, SubSeqRecursiveSecond
<1>5. RemoveAt(s, k) = a \o b
  BY DEF RemoveAt
<1> HIDE DEF a, b, c
<1>6. c = Append(a, s[k])
  BY <1>0, <1>3, <1>4, AppendIsConcat
<1>7. Cuantos(c, C) = Cuantos(a, C) + Bit(s[k] \in C)
  BY <1>0, <1>3, <1>6, CuantosAgregar
<1>8. Cuantos(s, C) = Cuantos(c, C) + Cuantos(b, C)
  BY <1>2, CuantosConcat
<1>9. Cuantos(a \o b, C) = Cuantos(a, C) + Cuantos(b, C)
  BY <1>2, <1>3, CuantosConcat
<1>10. a \o b \in Seq(T) /\ Len(a \o b) = Len(a) + Len(b)
  BY <1>2, <1>3, ConcatProperties
<1>11. Cuantos(a, C) \in Nat /\ Cuantos(b, C) \in Nat
  BY <1>2, <1>3, CuantosTipo
<1>12. QED
  BY <1>0, <1>2, <1>3, <1>5, <1>7, <1>8, <1>9, <1>10, <1>11 DEF Bit

LEMMA CuantosResto ==
  ASSUME NEW T, NEW s \in Seq(T), s # <<>>, NEW C
  PROVE  /\ Head(s) \in T /\ Tail(s) \in Seq(T) /\ Len(Tail(s)) = Len(s) - 1
         /\ Cuantos(s, C) = Cuantos(Tail(s), C) + Bit(Head(s) \in C)
<1>1. Len(s) \in Nat /\ Len(s) # 0 /\ Head(s) = s[1]
  BY EmptySeq, LenProperties
<1>2. 1 \in 1..Len(s) /\ 1 - 1 = 0 /\ 1 + 1 = 2
  BY <1>1
<1>3. Tail(s) = SubSeq(s, 2, Len(s)) /\ SubSeq(s, 1, 0) = <<>>
  BY TailIsSubSeq, SubSeqEmpty
<1>4. RemoveAt(s, 1) = <<>> \o SubSeq(s, 2, Len(s))
  BY <1>2, <1>3 DEF RemoveAt
<1>5. Tail(s) \in Seq(T)
  BY HeadTailProperties
<1>6. RemoveAt(s, 1) = Tail(s)
  BY <1>3, <1>4, <1>5, ConcatEmptySeq
<1>7. Cuantos(s, C) = Cuantos(RemoveAt(s, 1), C) + Bit(s[1] \in C)
  BY <1>2, CuantosQuitar
<1>8. QED
  BY <1>1, <1>5, <1>6, <1>7, HeadTailProperties

\* Induction, for a set.
LEMMA Induccion ==
  ASSUME NEW M, 0 \in M, \A k \in Nat : k \in M => k + 1 \in M
  PROVE  Nat \subseteq M
<1> DEFINE R == Nat \ M
<1> SUFFICES ASSUME R # {}
             PROVE  FALSE
  OBVIOUS
<1>1. PICK x \in R : \A y \in R : x <= y
  <2> HIDE DEF R
  <2>1. R \subseteq Nat
    BY DEF R
  <2>2. QED
    BY <2>1, Minimo
<1>2. x \in Nat /\ x # 0
  OBVIOUS
<1>3. x - 1 \in Nat /\ ~(x <= x - 1) /\ (x - 1) + 1 = x
  BY <1>2
<1>4. x - 1 \in M
  BY <1>1, <1>3
<1>5. QED
  BY <1>3, <1>4

LEMMA MinEsta ==
  ASSUME NEW I, I \subseteq Nat, I # {}
  PROVE  Min(I) \in I /\ \A y \in I : Min(I) <= y
<1>1. \E x \in I : \A y \in I : x <= y
  BY Minimo
<1>2. QED
  BY <1>1 DEF Min

LEMMA MaxEsta ==
  ASSUME NEW n \in Nat, NEW I, I \subseteq 1..n, I # {}
  PROVE  Max(I) \in I /\ \A y \in I : Max(I) >= y
<1> DEFINE T == {n - i : i \in I}
<1>0. \A i \in I : i \in 1..n /\ i \in Int /\ n - i \in Nat
  <2>1. \A i \in 1..n : i \in Int /\ n - i \in Nat
    OBVIOUS
  <2>2. QED
    BY <2>1
<1>1. T \subseteq Nat /\ T # {}
  BY <1>0
<1>2. PICK x \in T : \A y \in T : x <= y
  <2> HIDE DEF T
  <2>1. QED
    BY <1>1, Minimo
<1>3. PICK i \in I : x = n - i
  BY Zenon
<1>4. \A y \in I : i >= y
  <2> SUFFICES ASSUME NEW y \in I
               PROVE  i >= y
    OBVIOUS
  <2>1. x <= n - y
    BY <1>2
  <2>2. i \in Int /\ y \in Int
    BY <1>0
  <2>3. QED
    BY <1>3, <2>1, <2>2
<1>5. QED
  BY <1>4 DEF Max

LEMMA MaxIntervalo ==
  ASSUME NEW k \in Nat, k # 0
  PROVE  Max(1..k) = k /\ (1..k) \ {k} = 1 .. k - 1
<1>1. k \in 1..k
  OBVIOUS
<1>2. Max(1..k) \in 1..k /\ Max(1..k) >= k
  BY <1>1, MaxEsta
<1>3. QED
  BY <1>2

------------------------------------------------------------------------------
(* Folds.  FoldLeft applies a recursive function on the sets of places of the list, *)
(* the last place first: it exists, and on 1..k it is what the first k turns give.  *)

\* What each of n turns does to a value of S.
Pasos(S, n) == [1..n -> [S -> S]]

\* The recursive function of a fold, and the chain of values after each turn.
EsPliegue(f, S, n, b, paso) ==
  /\ f \in [SUBSET (1..n) -> S]
  /\ \A x \in SUBSET (1..n) :
       f[x] = IF x = {} THEN b ELSE paso[Max(x)][f[x \ {Max(x)}]]
EsCadena(g, S, n, b, paso) ==
  g \in [0..n -> S] /\ g[0] = b /\ \A k \in 1..n : g[k] = paso[k][g[k - 1]]

\* The same of a function of which only the equation is known.
Itera(f, S, n, b, paso) ==
  /\ f[{}] = b
  /\ \A x \in SUBSET (1..n) :
       x # {} /\ f[x \ {Max(x)}] \in S => f[x] = paso[Max(x)][f[x \ {Max(x)}]]

LEMMA HayPliegue ==
  ASSUME NEW S, NEW n \in Nat, NEW b \in S, NEW paso \in Pasos(S, n)
  PROVE  \E f : EsPliegue(f, S, n, b, paso)
<1> USE DEF Pasos
<1> DEFINE Bien(f, k) ==
             \A x \in SUBSET (1..k) :
               f[x] = IF x = {} THEN b ELSE paso[Max(x)][f[x \ {Max(x)}]]
           M == {k \in Nat : k <= n => \E f \in [SUBSET (1..k) -> S] : Bien(f, k)}
<1>1. 0 \in M
  <2> DEFINE f == [x \in SUBSET (1..0) |-> b]
  <2>1. \A x \in SUBSET (1..0) : x = {}
    OBVIOUS
  <2>2. f \in [SUBSET (1..0) -> S] /\ Bien(f, 0)
    BY <2>1
  <2>3. QED
    BY <2>2
<1>2. ASSUME NEW k \in Nat, k \in M, k + 1 <= n
      PROVE  \E f \in [SUBSET (1 .. k + 1) -> S] : Bien(f, k + 1)
  <2>1. PICK f \in [SUBSET (1..k) -> S] : Bien(f, k)
    <3>1. k <= n
      BY <1>2
    <3>2. QED
      BY <1>2, <3>1
  <2> DEFINE g == [x \in SUBSET (1 .. k + 1) |->
                     IF k + 1 \in x THEN paso[k + 1][f[x \ {k + 1}]] ELSE f[x]]
  <2>2. k + 1 \in 1..n /\ paso[k + 1] \in [S -> S]
    BY <1>2
  <2>3. \A x \in SUBSET (1 .. k + 1) :
          IF k + 1 \in x THEN x \ {k + 1} \in SUBSET (1..k) ELSE x \in SUBSET (1..k)
    OBVIOUS
  <2>4. g \in [SUBSET (1 .. k + 1) -> S]
    BY <2>2, <2>3
  <2>5. ASSUME NEW x \in SUBSET (1 .. k + 1)
        PROVE  g[x] = IF x = {} THEN b ELSE paso[Max(x)][g[x \ {Max(x)}]]
    <3>1. CASE k + 1 \in x
      <4>1. Max(x) \in x /\ Max(x) >= k + 1
        <5>1. k + 1 \in Nat /\ x \subseteq 1 .. k + 1 /\ x # {}
          BY <3>1
        <5>2. Max(x) \in x /\ \A y \in x : Max(x) >= y
          BY <5>1, MaxEsta
        <5>3. QED
          BY <3>1, <5>2
      <4>2. Max(x) = k + 1
        <5>1. Max(x) \in 1 .. k + 1
          BY <4>1
        <5>2. QED
          BY <4>1, <5>1
      <4>3. g[x \ {k + 1}] = f[x \ {k + 1}]
        BY <2>3, <3>1
      <4>4. QED
        BY <3>1, <4>2, <4>3
    <3>2. CASE k + 1 \notin x
      <4>1. x \in SUBSET (1..k) /\ g[x] = f[x]
        BY <2>3, <3>2
      <4>2. CASE x = {}
        BY <2>1, <4>1, <4>2
      <4>3. CASE x # {}
        <5>1. Max(x) \in x
          BY <4>1, <4>3, MaxEsta
        <5>2. x \ {Max(x)} \in SUBSET (1 .. k + 1) /\ k + 1 \notin x \ {Max(x)}
          BY <3>2
        <5>3. g[x \ {Max(x)}] = f[x \ {Max(x)}]
          BY <5>2
        <5>4. QED
          BY <2>1, <4>1, <4>3, <5>3
      <4>4. QED
        BY <4>2, <4>3
    <3>3. QED
      BY <3>1, <3>2
  <2>6. Bien(g, k + 1)
    BY <2>5
  <2>7. QED
    BY <2>4, <2>6
<1>3. ASSUME NEW k \in Nat, k \in M
      PROVE  k + 1 \in M
  <2> DEFINE j == k + 1
  <2>1. j \in Nat
    OBVIOUS
  <2>2. j <= n => \E f \in [SUBSET (1..j) -> S] : Bien(f, j)
    <3> HIDE DEF Bien, M
    <3>1. QED
      BY <1>2, <1>3
  <2>3. j \in M
    <3> HIDE DEF Bien, j
    <3>1. QED
      BY <2>1, <2>2
  <2>4. QED
    BY <2>3
<1>4. n \in M
  <2> HIDE DEF M
  <2>1. Nat \subseteq M
    BY <1>1, <1>3, Induccion
  <2>2. QED
    BY <2>1
<1>5. QED
  <2>1. \E f \in [SUBSET (1..n) -> S] : Bien(f, n)
    <3> HIDE DEF Bien
    <3>1. n <= n
      OBVIOUS
    <3>2. QED
      BY <1>4, <3>1
  <2>2. QED
    BY <2>1 DEF EsPliegue

LEMMA Plegar ==
  ASSUME NEW S, NEW n \in Nat, NEW b \in S, NEW paso \in Pasos(S, n),
         NEW f, Itera(f, S, n, b, paso)
  PROVE  \E g : EsCadena(g, S, n, b, paso) /\ g[n] = f[1..n]
<1> USE DEF Pasos, Itera
<1> DEFINE M == {k \in Nat : k <= n => f[1..k] \in S}
           g == [k \in 0..n |-> f[1..k]]
<1>1. ASSUME NEW k \in Nat, k # 0, k <= n, f[1 .. k - 1] \in S
      PROVE  f[1..k] = paso[k][f[1 .. k - 1]] /\ f[1..k] \in S
  <2>1. Max(1..k) = k /\ (1..k) \ {k} = 1 .. k - 1
    BY <1>1, MaxIntervalo
  <2>2. 1..k \in SUBSET (1..n) /\ 1..k # {} /\ k \in 1..n
    <3>1. k \in 1..k /\ k \in 1..n /\ \A i \in 1..k : i \in 1..n
      BY <1>1
    <3>2. QED
      BY <3>1
  <2>3. f[1..k] = paso[k][f[1 .. k - 1]]
    BY <1>1, <2>1, <2>2
  <2>4. QED
    BY <1>1, <2>2, <2>3
<1>2. 1..0 = {}
  OBVIOUS
<1>3. 0 \in M
  BY <1>2
<1>4. \A k \in Nat : k \in M => k + 1 \in M
  <2> SUFFICES ASSUME NEW k \in Nat, f[1..k] \in S, k + 1 <= n
               PROVE  f[1 .. k + 1] \in S
    OBVIOUS
  <2> DEFINE j == k + 1
  <2>1. j \in Nat /\ j # 0 /\ j - 1 = k /\ j <= n
    OBVIOUS
  <2> HIDE DEF j
  <2>2. f[1..j] \in S
    BY <1>1, <2>1
  <2>3. QED
    BY <2>2 DEF j
<1>5. Nat \subseteq M
  <2> HIDE DEF M
  <2>1. QED
    BY <1>3, <1>4, Induccion
<1>6. \A k \in 0..n : f[1..k] \in S
  BY <1>5
<1>7. g \in [0..n -> S] /\ g[0] = b /\ g[n] = f[1..n]
  BY <1>2, <1>6
<1>8. ASSUME NEW k \in 1..n
      PROVE  g[k] = paso[k][g[k - 1]]
  <2>1. k \in Nat /\ k # 0 /\ k <= n /\ k - 1 \in 0..n /\ k \in 0..n
    OBVIOUS
  <2>2. g[k - 1] = f[1 .. k - 1] /\ g[k] = f[1..k] /\ f[1 .. k - 1] \in S
    BY <1>6, <2>1
  <2>3. QED
    BY <1>1, <2>1, <2>2
<1>9. QED
  BY <1>7, <1>8 DEF EsCadena

\* Adding elements: the value of the fold is the last of a chain of values.
LEMMA HayCadena ==
  ASSUME NEW S, NEW n \in Nat, NEW b \in S, NEW paso \in Pasos(S, n)
  PROVE  \E g : EsCadena(g, S, n, b, paso)
<1>1. PICK f : EsPliegue(f, S, n, b, paso)
  BY HayPliegue
<1>2. Itera(f, S, n, b, paso)
  BY <1>1 DEF EsPliegue, Itera
<1>3. QED
  BY <1>2, Plegar

\* A statement about each turn of an iteration, from one about the first and one about
\* what a turn does to it.
LEMMA EnCadaVuelta ==
  ASSUME NEW n \in Nat, NEW M, 0 \in M, \A k \in 1..n : k - 1 \in M => k \in M
  PROVE  \A k \in 0..n : k \in M
<1> DEFINE Q == {k \in Nat : k <= n => k \in M}
<1>1. 0 \in Q
  OBVIOUS
<1>2. ASSUME NEW k \in Nat, k \in Q
      PROVE  k + 1 \in Q
  <2> DEFINE j == k + 1
  <2>1. j \in Nat /\ j - 1 = k /\ (j <= n => k <= n /\ j \in 1..n)
    OBVIOUS
  <2>2. j <= n => j \in M
    <3> HIDE DEF j
    <3>1. k <= n => k \in M
      BY <1>2
    <3>2. QED
      BY <2>1, <3>1
  <2>3. j \in Q
    <3> HIDE DEF j
    <3>1. QED
      BY <2>1, <2>2
  <2>4. QED
    BY <2>3
<1>3. Nat \subseteq Q
  <2> HIDE DEF Q
  <2>1. QED
    BY <1>1, <1>2, Induccion
<1>4. QED
  BY <1>3

LEMMA ContieneCuenta ==
  ASSUME NEW T, NEW s \in Seq(T), NEW x
  PROVE  Contains(s, x) <=> Cuantos(s, {x}) > 0
<1>1. Cuantos(s, {x}) \in Nat /\ (Cuantos(s, {x}) = 0 <=> \A i \in 1..Len(s) : s[i] \notin {x})
  BY CuantosTipo
<1>2. QED
  BY <1>1 DEF Contains

LEMMA PrimeroDeSus ==
  ASSUME NEW T, NEW s \in Seq(T), NEW I, I \subseteq 1..Len(s), I # {}
  PROVE  Min(I) \in 1..Len(s) /\ Min(I) \in I
<1>1. I \subseteq Nat
  BY LenProperties
<1>2. QED
  BY <1>1, MinEsta

LEMMA QuitarUno ==
  ASSUME NEW T, NEW s \in Seq(T), NEW x, NEW C
  PROVE  /\ RemoveFirst(s, x) \in Seq(T)
         /\ ~Contains(s, x) => RemoveFirst(s, x) = s
         /\ Contains(s, x) =>
              /\ Len(RemoveFirst(s, x)) = Len(s) - 1
              /\ Cuantos(s, C) = Cuantos(RemoveFirst(s, x), C) + Bit(x \in C)
<1> DEFINE I == {i \in 1..Len(s) : s[i] = x}
           k == Min(I)
<1>1. ~Contains(s, x) => RemoveFirst(s, x) = s
  BY DEF Contains, RemoveFirst
<1>2. ASSUME Contains(s, x)
      PROVE  k \in 1..Len(s) /\ s[k] = x /\ RemoveFirst(s, x) = RemoveAt(s, k)
  <2>1. I # {} /\ I \subseteq 1..Len(s) /\ \E i \in 1..Len(s) : s[i] = x
    BY <1>2 DEF Contains
  <2>2. RemoveFirst(s, x) = RemoveAt(s, k)
    BY <2>1 DEF RemoveFirst, SelectInSeq
  <2>3. k \in 1..Len(s) /\ k \in I
    <3> HIDE DEF I
    <3>1. QED
      BY <2>1, PrimeroDeSus
  <2>4. QED
    BY <2>2, <2>3
<1>3. ASSUME Contains(s, x)
      PROVE  /\ RemoveFirst(s, x) \in Seq(T)
             /\ Len(RemoveFirst(s, x)) = Len(s) - 1
             /\ Cuantos(s, C) = Cuantos(RemoveFirst(s, x), C) + Bit(x \in C)
  <2> HIDE DEF k
  <2>1. QED
    BY <1>2, <1>3, CuantosQuitar
<1>4. QED
  BY <1>1, <1>3

\* A list with no more of each element than another one is no longer than it.
LEMMA Longitudes ==
  ASSUME NEW T, NEW s \in Seq(T), NEW t \in Seq(T),
         \A x \in T : Cuantos(s, {x}) <= Cuantos(t, {x})
  PROVE  Len(s) <= Len(t)
<1> DEFINE Menor(a, b) == \A x \in T : Cuantos(a, {x}) <= Cuantos(b, {x})
           M == {n \in Nat : \A a, b \in Seq(T) : Len(a) = n /\ Menor(a, b) => n <= Len(b)}
<1>1. 0 \in M
  <2>1. \A b \in Seq(T) : Len(b) \in Nat
    BY LenProperties
  <2>2. QED
    BY <2>1
<1>2. ASSUME NEW n \in Nat, n \in M, NEW a \in Seq(T), NEW b \in Seq(T), Len(a) = n + 1,
             Menor(a, b)
      PROVE  n + 1 <= Len(b)
  <2> DEFINE h == Head(a)
             u == Tail(a)
             v == RemoveFirst(b, h)
  <2>1. a # <<>>
    BY <1>2
  <2>2. h \in T /\ u \in Seq(T) /\ Len(u) = n
    BY <1>2, <2>1, HeadTailProperties
  <2>3. \A x \in T : Cuantos(a, {x}) = Cuantos(u, {x}) + Bit(h \in {x})
    BY <2>1, CuantosResto
  <2>4. \A x \in T : Cuantos(u, {x}) \in Nat /\ Cuantos(a, {x}) \in Nat /\ Cuantos(b, {x}) \in Nat
    BY <2>2, CuantosTipo
  <2>5. Bit(h \in {h}) = 1
    BY DEF Bit
  <2>6. Contains(b, h)
    <3>1. Cuantos(a, {h}) = Cuantos(u, {h}) + 1
      BY <2>2, <2>3, <2>5
    <3>2. Cuantos(b, {h}) > 0
      BY <1>2, <2>2, <2>4, <3>1
    <3>3. QED
      BY <3>2, ContieneCuenta
  <2>7. /\ v \in Seq(T) /\ Len(v) = Len(b) - 1
        /\ \A x \in T : Cuantos(b, {x}) = Cuantos(v, {x}) + Bit(h \in {x})
    <3>1. ASSUME NEW x \in T
          PROVE  Cuantos(b, {x}) = Cuantos(v, {x}) + Bit(h \in {x})
      <4> DEFINE C == {x}
      <4> HIDE DEF C, h
      <4>1. Contains(b, h) => Cuantos(b, C) = Cuantos(RemoveFirst(b, h), C) + Bit(h \in C)
        BY QuitarUno
      <4>2. QED
        BY <2>6, <4>1 DEF C
    <3>2. v \in Seq(T) /\ Len(v) = Len(b) - 1
      BY <2>6, QuitarUno
    <3> HIDE DEF v
    <3>3. QED
      BY <3>1, <3>2
  <2>8. \A x \in T : Cuantos(v, {x}) \in Nat /\ Bit(h \in {x}) \in Nat
    BY <2>7, CuantosTipo DEF Bit
  <2>9. Menor(u, v)
    <3> HIDE DEF u, v, h
    <3> SUFFICES ASSUME NEW x \in T
                 PROVE  Cuantos(u, {x}) <= Cuantos(v, {x})
      OBVIOUS
    <3>1. Cuantos(a, {x}) <= Cuantos(b, {x})
      BY <1>2
    <3>2. Cuantos(a, {x}) = Cuantos(u, {x}) + Bit(h \in {x})
      BY <2>3
    <3>3. Cuantos(b, {x}) = Cuantos(v, {x}) + Bit(h \in {x})
      BY <2>7
    <3>4. Cuantos(u, {x}) \in Nat /\ Cuantos(v, {x}) \in Nat /\ Bit(h \in {x}) \in Nat
      BY <2>4, <2>8
    <3>5. QED
      BY <3>1, <3>2, <3>3, <3>4
  <2>10. n <= Len(v)
    <3> HIDE DEF Menor, u, v, h
    <3>1. QED
      BY <1>2, <2>2, <2>7, <2>9
  <2>11. Len(b) \in Nat
    BY LenProperties
  <2>12. QED
    BY <2>7, <2>10, <2>11
<1>3. ASSUME NEW n \in Nat, n \in M
      PROVE  n + 1 \in M
  <2>1. n + 1 \in Nat
    OBVIOUS
  <2>2. \A a, b \in Seq(T) : Len(a) = n + 1 /\ Menor(a, b) => n + 1 <= Len(b)
    <3> HIDE DEF Menor, M
    <3>1. QED
      BY <1>2, <1>3
  <2>3. QED
    <3> HIDE DEF Menor
    <3>1. QED
      BY <2>1, <2>2
<1>4. Nat \subseteq M
  <2> HIDE DEF M
  <2>1. QED
    BY <1>1, <1>3, Induccion
<1>5. Len(s) \in Nat /\ Menor(s, t)
  BY LenProperties
<1>6. QED
  <2> HIDE DEF Menor
  <2>1. Len(s) \in M
    BY <1>4, <1>5
  <2>2. QED
    BY <1>5, <2>1

\* And shorter, if it has less of one.
LEMMA MasCorta ==
  ASSUME NEW T, NEW s \in Seq(T), NEW t \in Seq(T), NEW y \in T,
         \A x \in T : Cuantos(s, {x}) <= Cuantos(t, {x}),
         Cuantos(s, {y}) < Cuantos(t, {y})
  PROVE  Len(s) < Len(t)
<1> DEFINE a == Append(s, y)
<1>1. a \in Seq(T) /\ Len(a) = Len(s) + 1
  BY AppendProperties
<1>2. \A x \in T : Cuantos(a, {x}) = Cuantos(s, {x}) + Bit(y \in {x})
  <2> SUFFICES ASSUME NEW x \in T
               PROVE  Cuantos(a, {x}) = Cuantos(s, {x}) + Bit(y \in {x})
    OBVIOUS
  <2>1. QED
    BY CuantosAgregar
<1>3. \A x \in T : Cuantos(s, {x}) \in Nat /\ Cuantos(t, {x}) \in Nat
  BY CuantosTipo
<1>4. \A x \in T : Cuantos(a, {x}) <= Cuantos(t, {x})
  <2> SUFFICES ASSUME NEW x \in T
               PROVE  Cuantos(a, {x}) <= Cuantos(t, {x})
    OBVIOUS
  <2>1. CASE x = y
    BY <1>2, <1>3, <2>1 DEF Bit
  <2>2. CASE x # y
    <3>1. Bit(y \in {x}) = 0
      BY <2>2 DEF Bit
    <3>2. QED
      <4>1. Cuantos(a, {x}) = Cuantos(s, {x})
        BY <1>2, <1>3, <3>1
      <4> HIDE DEF a
      <4>2. QED
        BY <4>1
  <2>3. QED
    BY <2>1, <2>2
<1>5. Len(a) <= Len(t)
  <2> HIDE DEF a
  <2>1. QED
    BY <1>1, <1>4, Longitudes
<1>6. Len(s) \in Nat /\ Len(t) \in Nat
  BY LenProperties
<1>7. QED
  BY <1>1, <1>5, <1>6

\* Two sets of places that differ in one of them at most.
LEMMA UnPunto ==
  ASSUME NEW n \in Nat, NEW A, NEW B, A \subseteq 1..n, B \subseteq 1..n, NEW k \in 1..n,
         \A i \in 1..n : i # k => (i \in A <=> i \in B)
  PROVE  /\ Cardinality(A) \in Nat /\ Cardinality(B) \in Nat
         /\ Cardinality(A) + Bit(k \in B) = Cardinality(B) + Bit(k \in A)
<1>1. IsFiniteSet(A) /\ IsFiniteSet(B)
  <2>1. IsFiniteSet(1..n)
    BY FS_Interval
  <2>2. QED
    BY <2>1, FS_Subset
<1>2. Cardinality(A) \in Nat /\ Cardinality(B) \in Nat
  BY <1>1, FS_CardinalityType
<1>3. k \in A /\ k \notin B => A = B \cup {k}
  OBVIOUS
<1>4. k \in B /\ k \notin A => B = A \cup {k}
  OBVIOUS
<1>5. (k \in A <=> k \in B) => A = B
  <2> SUFFICES ASSUME k \in A <=> k \in B
               PROVE  \A i \in 1..n : i \in A <=> i \in B
    OBVIOUS
  <2>1. QED
    OBVIOUS
<1>6. k \notin B => Cardinality(B \cup {k}) = Cardinality(B) + 1
  BY <1>1, FS_AddElement
<1>7. k \notin A => Cardinality(A \cup {k}) = Cardinality(A) + 1
  BY <1>1, FS_AddElement
<1>8. QED
  BY <1>2, <1>3, <1>4, <1>5, <1>6, <1>7 DEF Bit

\* Changing one element.
LEMMA CuantosCambio ==
  ASSUME NEW T, NEW s \in Seq(T), NEW t \in Seq(T), NEW k \in 1..Len(s), Len(t) = Len(s),
         \A i \in 1..Len(s) : i # k => t[i] = s[i], NEW C
  PROVE  Cuantos(t, C) + Bit(s[k] \in C) = Cuantos(s, C) + Bit(t[k] \in C)
<1> DEFINE n == Len(s)
           A == {i \in 1..n : t[i] \in C}
           B == {i \in 1..n : s[i] \in C}
<1>1. n \in Nat
  BY LenProperties
<1>2. A \subseteq 1..n /\ B \subseteq 1..n /\ \A i \in 1..n : i # k => (i \in A <=> i \in B)
  OBVIOUS
<1>3. Cardinality(A) + Bit(k \in B) = Cardinality(B) + Bit(k \in A)
  <2>1. k \in 1..n
    OBVIOUS
  <2> HIDE DEF A, B, n
  <2>2. \A i \in 1..n : i # k => (i \in A <=> i \in B)
    BY <1>2
  <2>3. QED
    BY <1>1, <1>2, <2>1, <2>2, UnPunto DEF Bit
<1>4. (k \in A <=> t[k] \in C) /\ (k \in B <=> s[k] \in C)
  OBVIOUS
<1>5. Cuantos(t, C) = Cardinality(A) /\ Cuantos(s, C) = Cardinality(B)
  BY DEF Cuantos
<1> HIDE DEF A, B
<1>6. QED
  BY <1>3, <1>4, <1>5 DEF Bit

------------------------------------------------------------------------------
\* Flattening: the lists are put one after another.
LEMMA Aplanar ==
  ASSUME NEW T, NEW ss \in Seq(Seq(T))
  PROVE  \E g : /\ g \in [0..Len(ss) -> Seq(T)] /\ g[0] = <<>>
                /\ \A k \in 1..Len(ss) : g[k] = g[k - 1] \o ss[k]
                /\ FlattenSeq(ss) = g[Len(ss)]
<1> DEFINE n == Len(ss)
           S == Seq(T)
           paso == [k \in 1..n |-> [v \in S |-> v \o ss[k]]]
<1>1. n \in Nat /\ \A k \in 1..n : ss[k] \in S
  BY LenProperties, ElementOfSeq
<1>2. paso \in Pasos(S, n) /\ <<>> \in S
  <2>1. \A k \in 1..n, v \in S : v \o ss[k] \in S
    BY <1>1, ConcatProperties
  <2>2. QED
    BY <2>1 DEF Pasos
<1>3. PICK g : EsCadena(g, S, n, <<>>, paso)
  <2> HIDE DEF paso, n, S
  <2>1. QED
    BY <1>1, <1>2, HayCadena
<1>4. /\ g \in [0..n -> S] /\ g[0] = <<>>
      /\ \A k \in 1..n : g[k] = g[k - 1] \o ss[k]
  <2>1. g \in [0..n -> S] /\ g[0] = <<>> /\ \A k \in 1..n : g[k] = paso[k][g[k - 1]]
    BY <1>3 DEF EsCadena
  <2>2. \A k \in 1..n : k - 1 \in 0..n
    BY <1>1
  <2>3. QED
    BY <2>1, <2>2
<1>5. CASE n = 0
  <2>1. ss = <<>>
    BY <1>5, EmptySeq
  <2>2. FlattenSeq(ss) = ss
    BY <1>5 DEF FlattenSeq
  <2>3. QED
    BY <1>4, <1>5, <2>1, <2>2
<1>6. CASE n # 0
  <2> DEFINE Ec(it) == it = [i \in 1..n |-> IF i = 1 THEN ss[i] ELSE it[i - 1] \o ss[i]]
             c == CHOOSE it : Ec(it)
             h == [i \in 1..n |-> g[i]]
  <2>1. FlattenSeq(ss) = c[n]
    BY <1>6 DEF FlattenSeq
  <2>2. Ec(h)
    <3>1. ASSUME NEW i \in 1..n
          PROVE  g[i] = IF i = 1 THEN ss[i] ELSE h[i - 1] \o ss[i]
      <4>1. CASE i = 1
        <5>1. g[1] = g[0] \o ss[1] /\ ss[1] \in S
          <6>1. g[i] = g[i - 1] \o ss[i]
            BY <1>4
          <6>2. ss[i] \in S
            BY <1>1
          <6>3. i - 1 = 0
            BY <4>1
          <6>4. QED
            BY <4>1, <6>1, <6>2, <6>3
        <5>2. <<>> \o ss[1] = ss[1]
          BY <5>1, ConcatEmptySeq
        <5>3. QED
          BY <1>4, <4>1, <5>1, <5>2
      <4>2. CASE i # 1
        <5>1. i - 1 \in 1..n
          BY <1>1, <4>2
        <5>2. QED
          BY <1>4, <4>2, <5>1
      <4>3. QED
        BY <4>1, <4>2
    <3>2. QED
      BY <3>1
  <2>3. Ec(c)
    <3> HIDE DEF Ec, h
    <3>1. QED
      BY <2>2
  <2>4. \A i \in 1..n : c[i] = IF i = 1 THEN ss[i] ELSE c[i - 1] \o ss[i]
    <3> HIDE DEF c
    <3>1. QED
      BY <2>3
  <2> HIDE DEF c, Ec
  <2> DEFINE M == {i \in 0..n : i # 0 => c[i] = g[i]}
  <2>5. 0 \in M
    BY <1>1
  <2>6. ASSUME NEW i \in 1..n, i - 1 \in M
        PROVE  i \in M
    <3>1. c[i] = g[i]
      <4>1. CASE i = 1
        <5>1. g[1] = g[0] \o ss[1] /\ ss[1] \in S
          <6>1. g[i] = g[i - 1] \o ss[i]
            BY <1>4
          <6>2. ss[i] \in S
            BY <1>1
          <6>3. i - 1 = 0
            BY <4>1
          <6>4. QED
            BY <4>1, <6>1, <6>2, <6>3
        <5>2. <<>> \o ss[1] = ss[1]
          BY <5>1, ConcatEmptySeq
        <5>3. QED
          BY <1>4, <2>4, <4>1, <5>1, <5>2
      <4>2. CASE i # 1
        <5>1. i - 1 # 0 /\ c[i - 1] = g[i - 1]
          BY <2>6, <4>2
        <5>2. QED
          BY <1>4, <2>4, <4>2, <5>1
      <4>3. QED
        BY <4>1, <4>2
    <3>2. QED
      BY <3>1, <1>1
  <2>7. \A i \in 0..n : i \in M
    <3> HIDE DEF M
    <3>1. QED
      BY <1>1, <2>5, <2>6, EnCadaVuelta
  <2>8. c[n] = g[n]
    BY <1>1, <1>6, <2>7
  <2>9. QED
    BY <1>4, <2>1, <2>8
<1>7. QED
  BY <1>5, <1>6

LEMMA AplanarTipo ==
  ASSUME NEW T, NEW ss \in Seq(Seq(T))
  PROVE  FlattenSeq(ss) \in Seq(T)
<1>1. PICK g : g \in [0..Len(ss) -> Seq(T)] /\ FlattenSeq(ss) = g[Len(ss)]
  BY Aplanar
<1>2. Len(ss) \in 0..Len(ss)
  BY LenProperties
<1>3. QED
  BY <1>1, <1>2

\* Changing one of the lists.
Salvo(ss, tt, k) == \A i \in 1..Len(ss) : i # k => tt[i] = ss[i]
LEMMA AplanarCambio ==
  ASSUME NEW T, NEW ss \in Seq(Seq(T)), NEW tt \in Seq(Seq(T)), Len(tt) = Len(ss),
         NEW k \in 1..Len(ss), Salvo(ss, tt, k), NEW C
  PROVE  Cuantos(FlattenSeq(tt), C) + Cuantos(ss[k], C)
           = Cuantos(FlattenSeq(ss), C) + Cuantos(tt[k], C)
<1> DEFINE n == Len(ss)
<1>1. n \in Nat /\ \A i \in 1..n : ss[i] \in Seq(T) /\ tt[i] \in Seq(T)
  BY LenProperties, ElementOfSeq
<1>2. PICK g : /\ g \in [0..n -> Seq(T)] /\ g[0] = <<>>
               /\ \A i \in 1..n : g[i] = g[i - 1] \o ss[i]
               /\ FlattenSeq(ss) = g[n]
  BY Aplanar
<1>3. PICK h : /\ h \in [0..n -> Seq(T)] /\ h[0] = <<>>
               /\ \A i \in 1..n : h[i] = h[i - 1] \o tt[i]
               /\ FlattenSeq(tt) = h[n]
  <2> DEFINE m == Len(tt)
  <2>1. \E h : /\ h \in [0..m -> Seq(T)] /\ h[0] = <<>>
               /\ \A i \in 1..m : h[i] = h[i - 1] \o tt[i]
               /\ FlattenSeq(tt) = h[m]
    BY Aplanar
  <2>2. m = n
    OBVIOUS
  <2> HIDE DEF m
  <2>3. QED
    BY <2>1, <2>2
<1> DEFINE a == Cuantos(ss[k], C)
           b == Cuantos(tt[k], C)
           M == {i \in 0..n : Cuantos(h[i], C) + (IF k <= i THEN a ELSE 0)
                                = Cuantos(g[i], C) + (IF k <= i THEN b ELSE 0)}
<1>4. 0 \in M
  <2>1. ~(k <= 0) /\ 0 \in 0..n
    BY <1>1
  <2>2. QED
    BY <1>2, <1>3, <2>1
<1>5. ASSUME NEW i \in 1..n, i - 1 \in M
      PROVE  i \in M
  <2>1. i - 1 \in 0..n /\ i \in 0..n
    BY <1>1
  <2>2. g[i - 1] \in Seq(T) /\ h[i - 1] \in Seq(T) /\ ss[i] \in Seq(T) /\ tt[i] \in Seq(T)
    BY <1>1, <1>2, <1>3, <2>1
  <2>3. Cuantos(g[i], C) = Cuantos(g[i - 1], C) + Cuantos(ss[i], C)
    <3>1. g[i] = g[i - 1] \o ss[i]
      BY <1>2
    <3>2. QED
      BY <2>2, <3>1, CuantosConcat
  <2>4. Cuantos(h[i], C) = Cuantos(h[i - 1], C) + Cuantos(tt[i], C)
    <3>1. h[i] = h[i - 1] \o tt[i]
      BY <1>3
    <3>2. QED
      BY <2>2, <3>1, CuantosConcat
  <2>5. /\ Cuantos(g[i - 1], C) \in Nat /\ Cuantos(h[i - 1], C) \in Nat
        /\ Cuantos(ss[i], C) \in Nat /\ Cuantos(tt[i], C) \in Nat
    BY <2>2, CuantosTipo
  <2>6. Cuantos(h[i - 1], C) + (IF k <= i - 1 THEN a ELSE 0)
          = Cuantos(g[i - 1], C) + (IF k <= i - 1 THEN b ELSE 0)
    BY <1>5
  <2>7. CASE i = k
    <3>1. ~(k <= i - 1) /\ k <= i
      BY <1>1, <2>7
    <3>2. Cuantos(ss[i], C) = a /\ Cuantos(tt[i], C) = b
      BY <2>7
    <3> HIDE DEF a, b
    <3>3. Cuantos(h[i], C) + a = Cuantos(g[i], C) + b
      BY <2>3, <2>4, <2>5, <2>6, <3>1, <3>2
    <3>4. QED
      BY <2>1, <3>1, <3>3
  <2>8. CASE i # k
    <3>1. tt[i] = ss[i] /\ (k <= i - 1 <=> k <= i)
      BY <1>1, <2>8 DEF Salvo
    <3>2. a \in Nat /\ b \in Nat
      BY <1>1, CuantosTipo
    <3> HIDE DEF a, b
    <3>3. Cuantos(h[i], C) + (IF k <= i THEN a ELSE 0)
            = Cuantos(g[i], C) + (IF k <= i THEN b ELSE 0)
      <4>1. Cuantos(tt[i], C) = Cuantos(ss[i], C)
        BY <3>1
      <4>2. CASE k <= i
        <5>1. Cuantos(h[i - 1], C) + a = Cuantos(g[i - 1], C) + b
          BY <2>6, <3>1, <4>2
        <5>2. Cuantos(h[i], C) + a = Cuantos(g[i], C) + b
          <6> DEFINE g1 == Cuantos(g[i], C)
                     g0 == Cuantos(g[i - 1], C)
                     h1 == Cuantos(h[i], C)
                     h0 == Cuantos(h[i - 1], C)
                     c == Cuantos(ss[i], C)
          <6>1. g1 = g0 + c /\ h1 = h0 + c /\ h0 + a = g0 + b
            BY <2>3, <2>4, <4>1, <5>1
          <6>2. g0 \in Nat /\ h0 \in Nat /\ c \in Nat
            BY <2>5
          <6> HIDE DEF g1, g0, h1, h0, c
          <6>3. h1 + a = g1 + b
            BY <3>2, <6>1, <6>2
          <6>4. QED
            BY <6>3 DEF g1, h1
        <5>3. QED
          BY <4>2, <5>2
      <4>3. CASE ~(k <= i)
        BY <2>3, <2>4, <2>5, <2>6, <3>1, <3>2, <4>1, <4>3
      <4>4. QED
        BY <4>2, <4>3
    <3>4. QED
      BY <2>1, <3>3
  <2>9. QED
    BY <2>7, <2>8
<1>6. \A i \in 0..n : i \in M
  <2> HIDE DEF M
  <2>1. QED
    BY <1>1, <1>4, <1>5, EnCadaVuelta
<1>7. QED
  <2> HIDE DEF M
  <2>0. n \in 0..n /\ k <= n
    BY <1>1
  <2>1. n \in M /\ k <= n
    BY <1>6, <2>0
  <2> USE DEF M
  <2> HIDE DEF a, b
  <2>2. Cuantos(h[n], C) + a = Cuantos(g[n], C) + b
    BY <2>1
  <2>3. QED
    BY <1>2, <1>3, <2>2 DEF a, b

\* A list and one more of its elements.
LEMMA Prefijo ==
  ASSUME NEW T, NEW r \in Seq(T), NEW k \in 1..Len(r), NEW C
  PROVE  Cuantos(SubSeq(r, 1, k), C) = Cuantos(SubSeq(r, 1, k - 1), C) + Bit(r[k] \in C)
<1> DEFINE a == SubSeq(r, 1, k - 1)
           b == SubSeq(r, 1, k)
<1>1. Len(r) \in Nat /\ r[k] \in T
  BY LenProperties, ElementOfSeq
<1>2. a \in Seq(T)
  <2>1. k - 1 \in 0..Len(r)
    BY <1>1
  <2>2. QED
    BY <2>1, EnDosPartes
<1>3. b = a \o <<r[k]>>
  <2>1. 1 \in 1..Len(r) /\ k \in 1..Len(r)
    BY <1>1
  <2>2. QED
    BY <2>1, SubSeqRecursiveSecond
<1> HIDE DEF a, b
<1>4. b = Append(a, r[k])
  BY <1>1, <1>2, <1>3, AppendIsConcat
<1>5. Cuantos(b, C) = Cuantos(a, C) + Bit(r[k] \in C)
  BY <1>1, <1>2, <1>4, CuantosAgregar
<1>6. QED
  BY <1>5 DEF a, b

\* A fold in which each turn inserts an element somewhere: a permutation of the list.
Inserta(f, r, T) ==
  /\ f[{}] = <<>>
  /\ \A x \in SUBSET (1..Len(r)) :
       x # {} /\ f[x \ {Max(x)}] \in Seq(T) =>
         \E k \in 1 .. Len(f[x \ {Max(x)}]) + 1 :
           f[x] = InsertAt(f[x \ {Max(x)}], k, r[Max(x)])
LEMMA PliegueInserta ==
  ASSUME NEW T, NEW r \in Seq(T), NEW f, Inserta(f, r, T), NEW C
  PROVE  /\ f[1..Len(r)] \in Seq(T) /\ Len(f[1..Len(r)]) = Len(r)
         /\ Cuantos(f[1..Len(r)], C) = Cuantos(r, C)
<1> USE DEF Inserta
<1> DEFINE n == Len(r)
           Bien(k) == /\ f[1..k] \in Seq(T) /\ Len(f[1..k]) = k
                      /\ Cuantos(f[1..k], C) = Cuantos(SubSeq(r, 1, k), C)
           M == {k \in 0..n : Bien(k)}
<1>1. n \in Nat /\ \A k \in 1..n : r[k] \in T
  BY LenProperties, ElementOfSeq
<1>2. 0 \in M
  <2>1. 1..0 = {} /\ 0 \in 0..n
    BY <1>1
  <2>2. SubSeq(r, 1, 0) = <<>>
    BY SubSeqEmpty
  <2>3. <<>> \in Seq(T) /\ Len(<<>>) = 0
    OBVIOUS
  <2>4. QED
    BY <2>1, <2>2, <2>3
<1>3. ASSUME NEW k \in 1..n, k - 1 \in M
      PROVE  k \in M
  <2> DEFINE j == k - 1
             q == f[1..j]
  <2>1. j \in 0..n /\ k \in 0..n /\ j + 1 = k /\ k \in Nat /\ k # 0
    BY <1>1
  <2>2. q \in Seq(T) /\ Len(q) = j /\ Cuantos(q, C) = Cuantos(SubSeq(r, 1, j), C)
    BY <1>3
  <2>3. Max(1..k) = k /\ (1..k) \ {k} = 1..j
    BY <2>1, MaxIntervalo
  <2>4. 1..k \in SUBSET (1..n) /\ 1..k # {}
    <3>1. k \in 1..k /\ \A i \in 1..k : i \in 1..n
      BY <1>1
    <3>2. QED
      BY <3>1
  <2> HIDE DEF j, q
  <2>5. PICK p \in 1 .. Len(q) + 1 : f[1..k] = InsertAt(q, p, r[k])
    <3> DEFINE I == 1..k
    <3>1. I \in SUBSET (1..n) /\ I # {} /\ Max(I) = k /\ I \ {k} = 1..j
      BY <2>3, <2>4
    <3>2. f[I \ {Max(I)}] = q
      BY <3>1 DEF q
    <3> HIDE DEF I
    <3>3. \E p \in 1 .. Len(f[I \ {Max(I)}]) + 1 :
            f[I] = InsertAt(f[I \ {Max(I)}], p, r[Max(I)])
      BY <2>2, <3>1, <3>2
    <3>4. \E p \in 1 .. Len(q) + 1 : f[I] = InsertAt(q, p, r[k])
      BY <3>1, <3>2, <3>3
    <3>5. QED
      BY <3>4 DEF I
  <2>6. r[k] \in T
    BY <1>1
  <2>7. /\ f[1..k] \in Seq(T) /\ Len(f[1..k]) = Len(q) + 1
        /\ Cuantos(f[1..k], C) = Cuantos(q, C) + Bit(r[k] \in C)
    BY <2>2, <2>5, <2>6, CuantosInsertar
  <2>8. Cuantos(SubSeq(r, 1, k), C) = Cuantos(SubSeq(r, 1, j), C) + Bit(r[k] \in C)
    BY Prefijo DEF j
  <2>9. Bien(k)
    BY <2>1, <2>2, <2>7, <2>8
  <2>10. QED
    <3> HIDE DEF Bien
    <3>1. QED
      BY <2>1, <2>9
<1>4. \A k \in 0..n : k \in M
  <2> HIDE DEF M
  <2>1. QED
    BY <1>1, <1>2, <1>3, EnCadaVuelta
<1>5. SubSeq(r, 1, n) = r
  BY SubSeqFull
<1>6. Bien(n)
  <2> HIDE DEF Bien
  <2>1. QED
    BY <1>1, <1>4
<1>7. QED
  BY <1>5, <1>6

\* A fold that keeps some of the elements of 1..n.
LEMMA PliegueFiltra ==
  ASSUME NEW n \in Nat, NEW P, NEW f, f[{}] = <<>>,
         \A x \in SUBSET (1..n) :
           x # {} => f[x] = IF Max(x) \in P THEN Append(f[x \ {Max(x)}], Max(x))
                                            ELSE f[x \ {Max(x)}]
  PROVE  /\ f[1..n] \in Seq(1..n)
         /\ \A x \in 1..n : Cuantos(f[1..n], {x}) = Bit(x \in P)
<1> DEFINE Bien(k) == /\ f[1..k] \in Seq(1..n)
                      /\ \A x \in 1..n : Cuantos(f[1..k], {x}) = IF x \in P /\ x <= k THEN 1 ELSE 0
           M == {k \in 0..n : Bien(k)}
<1>1. 0 \in M
  <2>1. 1..0 = {} /\ 0 \in 0..n /\ \A x \in 1..n : ~(x <= 0)
    OBVIOUS
  <2>2. <<>> \in Seq(1..n)
    OBVIOUS
  <2>3. \A x \in 1..n : Cuantos(<<>>, {x}) = 0
    BY CuantosVacia
  <2>4. QED
    BY <2>1, <2>2, <2>3
<1>2. ASSUME NEW k \in 1..n, k - 1 \in M
      PROVE  k \in M
  <2> DEFINE j == k - 1
             q == f[1..j]
  <2>1. j \in 0..n /\ k \in 0..n /\ k \in Nat /\ k # 0 /\ j + 1 = k
    OBVIOUS
  <2>2. q \in Seq(1..n) /\ \A x \in 1..n : Cuantos(q, {x}) = IF x \in P /\ x <= j THEN 1 ELSE 0
    BY <1>2
  <2>3. Max(1..k) = k /\ (1..k) \ {k} = 1..j
    BY <2>1, MaxIntervalo
  <2>4. 1..k \in SUBSET (1..n) /\ 1..k # {}
    <3>1. k \in 1..k /\ \A i \in 1..k : i \in 1..n
      OBVIOUS
    <3>2. QED
      BY <3>1
  <2> HIDE DEF j
  <2>5. f[1..k] = IF k \in P THEN Append(q, k) ELSE q
    <3> DEFINE I == 1..k
    <3>1. I \in SUBSET (1..n) /\ I # {} /\ Max(I) = k /\ I \ {Max(I)} = 1..j
      BY <2>3, <2>4
    <3> HIDE DEF I
    <3>2. f[I] = IF Max(I) \in P THEN Append(f[I \ {Max(I)}], Max(I)) ELSE f[I \ {Max(I)}]
      BY <3>1
    <3>3. f[I] = IF k \in P THEN Append(q, k) ELSE q
      BY <3>1, <3>2
    <3>4. QED
      BY <3>3 DEF I
  <2> HIDE DEF q
  <2>6. \A x \in 1..n : (x <= k <=> x <= j \/ x = k) /\ ~(k <= j)
    BY <2>1
  <2>7. CASE k \notin P
    <3>1. f[1..k] = q /\ \A x \in 1..n : (x \in P /\ x <= k) <=> (x \in P /\ x <= j)
      BY <2>5, <2>6, <2>7
    <3>2. Bien(k)
      BY <2>2, <3>1
    <3>3. QED
      <4> HIDE DEF Bien
      <4>1. QED
        BY <2>1, <3>2
  <2>8. CASE k \in P
    <3>1. f[1..k] = Append(q, k)
      BY <2>5, <2>8
    <3>2. Append(q, k) \in Seq(1..n)
      BY <2>2, AppendProperties
    <3>3. ASSUME NEW x \in 1..n
          PROVE  Cuantos(Append(q, k), {x}) = IF x \in P /\ x <= k THEN 1 ELSE 0
      <4> DEFINE C == {x}
      <4>1. (k \in C <=> k = x) /\ Cuantos(q, C) = IF x \in P /\ x <= j THEN 1 ELSE 0
        BY <2>2
      <4> HIDE DEF C
      <4>2. Cuantos(Append(q, k), C) = Cuantos(q, C) + Bit(k \in C)
        BY <2>2, CuantosAgregar
      <4>3. CASE k = x
        BY <2>6, <2>8, <4>1, <4>2, <4>3 DEF Bit, C
      <4>4. CASE k # x
        <5>1. Bit(k \in C) = 0
          BY <4>1, <4>4 DEF Bit
        <5>2. (x \in P /\ x <= k) <=> (x \in P /\ x <= j)
          BY <2>6, <4>4
        <5>3. Cuantos(q, C) + 0 = Cuantos(q, C)
          BY <4>1
        <5>4. QED
          BY <4>1, <4>2, <5>1, <5>2, <5>3 DEF C
      <4>5. QED
        BY <4>3, <4>4
    <3>4. Bien(k)
      BY <3>1, <3>2, <3>3
    <3>5. QED
      <4> HIDE DEF Bien
      <4>1. QED
        BY <2>1, <3>4
  <2>9. QED
    BY <2>7, <2>8
<1>3. \A k \in 0..n : k \in M
  <2> HIDE DEF M
  <2>1. QED
    BY <1>1, <1>2, EnCadaVuelta
<1>4. Bien(n)
  <2> HIDE DEF Bien
  <2>1. QED
    BY <1>3
<1>5. \A x \in 1..n : x <= n
  OBVIOUS
<1>6. QED
  BY <1>4, <1>5 DEF Bit
==============================================================================
