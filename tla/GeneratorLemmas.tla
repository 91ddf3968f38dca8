--------------------------- MODULE GeneratorLemmas ---------------------------
(* What the generators of the operator return: the service of a dogu with its *)
(* annotations, and the volumes and the init container of its pod template.   *)
(* They loop over lists and append for some of the elements: AppendAll of a   *)
(* sequence whose elements are empty or have one element.  What it returns is *)
(* proved by looking at the least place where it would return something else. *)
EXTENDS ServiceAnnotations, PodTemplates, SequenceTheorems, FiniteSetTheorems,
        TLAPS

\* A non-empty set of numbers has a least one.
LEMMA LeastNumber ==
    ASSUME NEW T \in SUBSET Nat, T # {}
    PROVE  \E x \in T : \A y \in T : x <= y
<1> DEFINE R == {p \in Nat \X Nat : p[1] < p[2]}
<1>1. IsWellFoundedOn(R, Nat)
  BY NatLessThanWellFounded DEF OpToRel
<1> HIDE DEF R
<1>2. PICK x \in T : \A y \in T : <<y, x>> \notin R
  BY <1>1, WFMin, Zenon
<1>3. \A y \in T : x <= y
  <2> TAKE y \in T
  <2>1. <<y, x>> \notin R
    BY <1>2
  <2>2. ~(y < x)
    BY <2>1 DEF R
  <2> QED BY <2>2
<1> QED BY <1>3

\* A set of numbers that has 1, and with each number the next one up to n, has
\* all numbers up to n.
LEMMA UpTo ==
    ASSUME NEW n \in Nat, NEW P, n > 0 => 1 \in P,
           \A i \in 1..n : i > 1 /\ i - 1 \in P => i \in P
    PROVE  1..n \subseteq P
<1> DEFINE Bad == {i \in 1..n : i \notin P}
<1> SUFFICES ASSUME Bad # {} PROVE FALSE
  OBVIOUS
<1>0. Bad \in SUBSET Nat
  OBVIOUS
<1>1. PICK x \in Bad : \A y \in Bad : x <= y
  <2> HIDE DEF Bad
  <2> QED BY <1>0, LeastNumber
<1>2. x \in 1..n /\ x > 1
  OBVIOUS
<1>3. x - 1 \in 1..n /\ x - 1 \notin Bad
  BY <1>1, <1>2
<1> QED BY <1>2, <1>3

\* The partial results of AppendAll.
LEMMA FlattenPartial ==
    ASSUME NEW T, NEW s \in Seq(Seq(T)), s # <<>>
    PROVE  \E f : /\ DOMAIN f = 1..Len(s)
                  /\ f[1] = s[1]
                  /\ \A i \in 2..Len(s) : f[i] = f[i - 1] \o s[i]
                  /\ AppendAll(s) = f[Len(s)]
<1> DEFINE Rec(f, n) == f = [i \in 1..n |-> IF i = 1 THEN s[i] ELSE f[i - 1] \o s[i]]
           P == {n \in Nat : \E f : Rec(f, n)}
<1>1. Len(s) \in Nat /\ Len(s) > 0
  BY LenProperties, EmptySeq
<1>2. 1..Len(s) \subseteq P
  <2>1. 1 \in P
    <3> DEFINE f == [i \in 1..1 |-> s[1]]
    <3>1. Rec(f, 1)
      OBVIOUS
    <3> QED BY <3>1, Zenon
  <2>2. ASSUME NEW n \in 1..Len(s), n > 1, n - 1 \in P
        PROVE  n \in P
    <3>1. PICK g : Rec(g, n - 1)
      BY <2>2, Zenon
    <3> DEFINE f == [i \in 1..n |-> IF i = n THEN g[n - 1] \o s[n] ELSE g[i]]
               h == [i \in 1..n |-> IF i = 1 THEN s[i] ELSE f[i - 1] \o s[i]]
    <3>2. \A i \in 1..(n - 1) : g[i] = IF i = 1 THEN s[i] ELSE g[i - 1] \o s[i]
      BY <3>1, <1>1, Zenon
    <3>3. \A i \in 1..n : f[i] = h[i]
      <4> SUFFICES ASSUME NEW i \in 1..n PROVE f[i] = h[i]
        BY Zenon
      <4>1. CASE i = 1
        BY <4>1, <3>2, <2>2, <1>1
      <4>2. CASE i = n
        <5>1. n - 1 \in 1..n /\ n - 1 # n /\ n # 1
          BY <2>2, <1>1
        <5>2. f[n - 1] = g[n - 1]
          BY <5>1
        <5>3. f[n] = g[n - 1] \o s[n]
          BY <4>2, Zenon
        <5>4. h[n] = f[n - 1] \o s[n]
          BY <4>2, <5>1, Zenon
        <5> HIDE DEF f, h
        <5> QED BY <4>2, <5>2, <5>3, <5>4
      <4>3. CASE i > 1 /\ i < n
        <5>1. i \in 1..(n - 1) /\ i - 1 \in 1..n /\ i - 1 # n /\ i # n /\ i # 1
          BY <4>3, <1>1
        <5>2. f[i] = g[i] /\ f[i - 1] = g[i - 1]
          BY <5>1
        <5>3. g[i] = g[i - 1] \o s[i]
          BY <3>2, <5>1, Zenon
        <5>4. h[i] = f[i - 1] \o s[i]
          BY <5>1, Zenon
        <5> HIDE DEF f, h
        <5> QED BY <5>2, <5>3, <5>4
      <4> QED BY <4>1, <4>2, <4>3, <1>1
    <3>4. f = h
      BY <3>3, Zenon
    <3>5. Rec(f, n)
      BY <3>4, Zenon
    <3>6. n \in Nat
      BY <1>1
    <3> QED BY <3>5, <3>6, Zenon
  <2> HIDE DEF P
  <2> QED BY <2>1, <2>2, <1>1, UpTo, Zenon
<1>3. \E f : Rec(f, Len(s))
  <2>1. Len(s) \in P
    <3> HIDE DEF P
    <3>1. Len(s) \in 1..Len(s)
      BY <1>1
    <3> QED BY <1>2, <3>1
  <2> QED BY <2>1, Zenon
<1> DEFINE F == CHOOSE f : Rec(f, Len(s))
<1>4. Rec(F, Len(s))
  BY <1>3, Zenon
<1>5. AppendAll(s) = F[Len(s)]
  BY <1>1 DEF AppendAll
<1> HIDE DEF F
<1>6. DOMAIN F = 1..Len(s)
  BY <1>4
<1>7. \A i \in 1..Len(s) : F[i] = IF i = 1 THEN s[i] ELSE F[i - 1] \o s[i]
  BY <1>4, Zenon
<1>8. F[1] = s[1]
  BY <1>7, <1>1
<1>9. ASSUME NEW i \in 2..Len(s)
      PROVE  F[i] = F[i - 1] \o s[i]
  <2>1. i \in 1..Len(s) /\ i # 1
    BY <1>1
  <2> QED BY <1>7, <2>1, Zenon
<1> QED BY <1>5, <1>6, <1>8, <1>9, Zenon

\* AppendAll returns a sequence of the elements' elements.
LEMMA FlattenType ==
    ASSUME NEW T, NEW s \in Seq(Seq(T))
    PROVE  AppendAll(s) \in Seq(T)
<1>1. CASE s = <<>>
  BY <1>1, EmptySeq DEF AppendAll
<1>2. CASE s # <<>>
  <2>1. PICK f : /\ DOMAIN f = 1..Len(s)
                 /\ f[1] = s[1]
                 /\ \A i \in 2..Len(s) : f[i] = f[i - 1] \o s[i]
                 /\ AppendAll(s) = f[Len(s)]
    BY <1>2, FlattenPartial, Zenon
  <2>2. Len(s) \in Nat /\ Len(s) > 0 /\ \A i \in 1..Len(s) : s[i] \in Seq(T)
    BY <1>2, LenProperties, EmptySeq
  <2> DEFINE P == {i \in Nat : f[i] \in Seq(T)}
  <2>3. 1 \in P
    BY <2>1, <2>2
  <2>4. ASSUME NEW i \in 1..Len(s), i > 1, i - 1 \in P
        PROVE  i \in P
    <3>1. i \in 2..Len(s) /\ i \in Nat
      BY <2>2, <2>4
    <3>2. f[i] = f[i - 1] \o s[i]
      BY <2>1, <3>1, Zenon
    <3>3. f[i - 1] \in Seq(T) /\ s[i] \in Seq(T)
      BY <2>2, <2>4, <3>1
    <3>4. f[i] \in Seq(T)
      BY <3>2, <3>3
    <3> QED BY <3>1, <3>4
  <2>5. Len(s) \in P
    <3> HIDE DEF P
    <3>1. Len(s) \in 1..Len(s)
      BY <2>2
    <3> QED BY <2>2, <2>3, <2>4, <3>1, UpTo, Zenon
  <2> QED BY <2>1, <2>5
<1> QED BY <1>1, <1>2

\* A function on the first m numbers is a sequence.
LEMMA FunctionIsSeq ==
    ASSUME NEW T, NEW m \in Nat, NEW r \in [1..m -> T]
    PROVE  r \in Seq(T) /\ Len(r) = m
OBVIOUS

\* What a loop returns that appends one more element
LEMMA OneMore ==
    ASSUME NEW T, NEW p \in Seq(T), NEW x \in T
    PROVE  /\ p \o <<x>> \in Seq(T) /\ Len(p \o <<x>>) = Len(p) + 1
           /\ \A j \in 1..(Len(p) + 1) :
                  (p \o <<x>>)[j] = IF j <= Len(p) THEN p[j] ELSE x
<1> DEFINE q == <<x>>
<1>1. q \in Seq(T) /\ Len(q) = 1 /\ q[1] = x /\ Len(p) \in Nat
  OBVIOUS
<1> HIDE DEF q
<1>2. /\ p \o q \in Seq(T) /\ Len(p \o q) = Len(p) + Len(q)
      /\ \A j \in 1..(Len(p) + Len(q)) :
             (p \o q)[j] = IF j <= Len(p) THEN p[j] ELSE q[j - Len(p)]
  BY <1>1, ConcatProperties, Zenon
<1>3. Len(p \o q) = Len(p) + 1
  BY <1>1, <1>2
<1>4. ASSUME NEW j \in 1..(Len(p) + 1)
      PROVE  (p \o q)[j] = IF j <= Len(p) THEN p[j] ELSE x
  <2>1. j \in 1..(Len(p) + Len(q)) /\ (j > Len(p) => j - Len(p) = 1)
    BY <1>1
  <2> QED BY <1>1, <1>2, <2>1
<1> QED BY <1>2, <1>3, <1>4 DEF q

\* k lists the members of K, each of them once.
Lists(k, m, K) ==
    /\ k \in [1..m -> K]
    /\ \A i, j \in 1..m : k[i] = k[j] => i = j
    /\ \A x \in K : \E i \in 1..m : k[i] = x

\* What a loop appends: g[i] for the places i in K, nothing for the others
Appended(s, n, g, K) == s = [i \in 1..n |-> IF i \in K THEN <<g[i]>> ELSE <<>>]

\* The values of g at the places in K, one for each of them
Values(r, g, K) ==
    \E k : /\ Lists(k, Cardinality(K), K)
           /\ r = [j \in 1..Cardinality(K) |-> g[k[j]]]

\* A loop that appends g[i] for the places i in K returns these values, in some
\* order and one for each place.
LEMMA Kept ==
    ASSUME NEW n \in Nat, NEW g, NEW K \in SUBSET (1..n),
           NEW s, Appended(s, n, g, K)
    PROVE  IsFiniteSet(K) /\ Values(AppendAll(s), g, K)
<1>0. s = [i \in 1..n |-> IF i \in K THEN <<g[i]>> ELSE <<>>]
  BY DEF Appended
<1> USE <1>0
<1> DEFINE T == {g[i] : i \in 1..n}
           Upto(i) == K \cap (1..i)
           Good(i, r) == \E m \in Nat : \E k : /\ Lists(k, m, Upto(i))
                                               /\ r = [j \in 1..m |-> g[k[j]]]
<1>1. s \in Seq(Seq(T)) /\ Len(s) = n
  <2>1. ASSUME NEW i \in 1..n PROVE s[i] \in Seq(T)
    <3>1. g[i] \in T
      OBVIOUS
    <3> HIDE DEF T
    <3>2. <<g[i]>> \in Seq(T) /\ <<>> \in Seq(T)
      BY <3>1
    <3>3. s[i] \in {<<g[i]>>, <<>>}
      OBVIOUS
    <3> QED BY <3>2, <3>3
  <2>2. s \in [1..n -> Seq(T)]
    BY <2>1
  <2> QED BY <2>2, FunctionIsSeq
<1>2. Good(n, AppendAll(s))
  <2>1. CASE n = 0
    <3>1. AppendAll(s) = <<>>
      BY <2>1, <1>1, EmptySeq DEF AppendAll
    <3> DEFINE k == [j \in 1..0 |-> 0]
    <3>2. Lists(k, 0, Upto(n))
      BY <2>1 DEF Lists
    <3>3. AppendAll(s) = [j \in 1..0 |-> g[k[j]]]
      BY <3>1
    <3> HIDE DEF k, Upto
    <3>4. 0 \in Nat
      OBVIOUS
    <3> QED BY <3>2, <3>3, <3>4, Zenon
  <2>2. CASE n # 0
    <3>1. s # <<>>
      BY <2>2, <1>1
    <3>2. PICK f : /\ DOMAIN f = 1..Len(s)
                   /\ f[1] = s[1]
                   /\ \A i \in 2..Len(s) : f[i] = f[i - 1] \o s[i]
                   /\ AppendAll(s) = f[Len(s)]
      BY <3>1, <1>1, FlattenPartial, Zenon
    <3> DEFINE P == {i \in Nat : Good(i, f[i])}
    <3>3. 1 \in P
      <4>1. CASE 1 \in K
        <5> DEFINE k == [j \in 1..1 |-> 1]
        <5>1. Lists(k, 1, Upto(1))
          BY <4>1 DEF Lists
        <5>2. f[1] = [j \in 1..1 |-> g[k[j]]]
          BY <4>1, <3>2
        <5> HIDE DEF k, Upto
        <5>3. Good(1, f[1])
          BY <5>1, <5>2
        <5> QED BY <5>3, Zenon
      <4>2. CASE 1 \notin K
        <5> DEFINE k == [j \in 1..0 |-> 0]
        <5>1. Lists(k, 0, Upto(1))
          BY <4>2 DEF Lists
        <5>2. f[1] = [j \in 1..0 |-> g[k[j]]]
          BY <4>2, <3>2, <2>2
        <5> HIDE DEF k, Upto
        <5>3. Good(1, f[1])
          BY <5>1, <5>2
        <5> QED BY <5>3, Zenon
      <4> QED BY <4>1, <4>2, Zenon
    <3>4. ASSUME NEW i \in 1..n, i > 1, i - 1 \in P
          PROVE  i \in P
      <4>1. PICK m \in Nat : \E k : /\ Lists(k, m, Upto(i - 1))
                                    /\ f[i - 1] = [j \in 1..m |-> g[k[j]]]
        BY <3>4, Zenon
      <4>2. PICK k : /\ Lists(k, m, Upto(i - 1))
                     /\ f[i - 1] = [j \in 1..m |-> g[k[j]]]
        BY <4>1
      <4>3. f[i] = f[i - 1] \o s[i] /\ i \in Nat
        <5>1. i \in 2..Len(s) /\ i \in Nat
          BY <3>4, <1>1
        <5> QED BY <3>2, <5>1, Zenon
      <4>4. \A j \in 1..m : k[j] \in 1..n /\ k[j] < i
        BY <4>2 DEF Lists
      <4>5. f[i - 1] \in Seq(T) /\ Len(f[i - 1]) = m
        <5>1. f[i - 1] \in [1..m -> T]
          BY <4>2, <4>4
        <5> QED BY <5>1, FunctionIsSeq, Zenon
      <4>6. CASE i \in K
        <5> DEFINE l == [j \in 1..(m + 1) |-> IF j = m + 1 THEN i ELSE k[j]]
        <5>1. Upto(i) = Upto(i - 1) \cup {i}
          BY <4>6
        <5>2. Lists(l, m + 1, Upto(i))
          <6>1. l \in [1..(m + 1) -> Upto(i)]
            BY <4>2, <5>1 DEF Lists
          <6>2. ASSUME NEW a \in 1..(m + 1), NEW b \in 1..(m + 1), l[a] = l[b]
                PROVE  a = b
            <7>1. CASE a \in 1..m /\ b \in 1..m
              BY <7>1, <6>2, <4>2 DEF Lists
            <7>2. CASE a = m + 1 \/ b = m + 1
              BY <7>2, <6>2, <4>4
            <7> QED BY <7>1, <7>2
          <6>3. ASSUME NEW x \in Upto(i)
                PROVE  \E a \in 1..(m + 1) : l[a] = x
            <7>1. CASE x = i
              <8>1. m + 1 \in 1..(m + 1) /\ l[m + 1] = i
                OBVIOUS
              <8> QED BY <7>1, <8>1, Zenon
            <7>2. CASE x \in Upto(i - 1)
              <8>1. PICK a \in 1..m : k[a] = x
                BY <7>2, <4>2 DEF Lists
              <8>2. a \in 1..(m + 1) /\ l[a] = x
                BY <8>1
              <8> QED BY <8>2
            <7> QED BY <5>1, <7>1, <7>2
          <6> HIDE DEF l
          <6> QED BY <6>1, <6>2, <6>3 DEF Lists
        <5>3. f[i] = [j \in 1..(m + 1) |-> g[l[j]]]
          <6> DEFINE r == [j \in 1..(m + 1) |-> g[l[j]]]
          <6>1. s[i] = <<g[i]>> /\ g[i] \in T
            BY <4>6
          <6> HIDE DEF T
          <6>2. /\ f[i] \in Seq(T) /\ Len(f[i]) = m + 1
                /\ \A j \in 1..(m + 1) :
                       f[i][j] = IF j <= m THEN f[i - 1][j] ELSE g[i]
            <7> DEFINE p == f[i - 1]
                       x == g[i]
            <7>1. p \in Seq(T) /\ Len(p) = m /\ x \in T
              BY <4>5, <6>1
            <7>2. f[i] = p \o <<x>>
              BY <4>3, <6>1, Zenon
            <7> HIDE DEF p, x
            <7>3. /\ p \o <<x>> \in Seq(T) /\ Len(p \o <<x>>) = Len(p) + 1
                  /\ \A j \in 1..(Len(p) + 1) :
                         (p \o <<x>>)[j] = IF j <= Len(p) THEN p[j] ELSE x
              BY <7>1, OneMore
            <7>4. /\ f[i] \in Seq(T) /\ Len(f[i]) = m + 1
                  /\ \A j \in 1..(m + 1) : f[i][j] = IF j <= m THEN p[j] ELSE x
              BY <7>1, <7>2, <7>3, Zenon
            <7> QED BY <7>4 DEF p, x
          <6>3. \A j \in 1..(m + 1) : f[i][j] = r[j]
            BY <6>2, <4>2
          <6>4. f[i] \in [1..(m + 1) -> T]
            BY <6>2
          <6> QED BY <6>3, <6>4, Zenon
        <5>4. Good(i, f[i])
          <6> HIDE DEF l
          <6> QED BY <5>2, <5>3
        <5> QED BY <4>3, <5>4, Zenon
      <4>7. CASE i \notin K
        <5>1. Upto(i) = Upto(i - 1)
          BY <4>7
        <5>2. f[i] = f[i - 1]
          BY <4>3, <4>5, <4>7, ConcatEmptySeq
        <5>3. Lists(k, m, Upto(i)) /\ f[i] = [j \in 1..m |-> g[k[j]]]
          BY <4>2, <5>1, <5>2, Zenon
        <5>4. Good(i, f[i])
          <6> HIDE DEF Upto
          <6> QED BY <5>3
        <5> QED BY <4>3, <5>4, Zenon
      <4> QED BY <4>6, <4>7, Zenon
    <3>5. n \in P
      <4> HIDE DEF P
      <4>1. n \in 1..n
        BY <2>2
      <4> QED BY <3>3, <3>4, <4>1, UpTo, Zenon
    <3>6. Good(n, f[n])
      BY <3>5, Zenon
    <3>7. AppendAll(s) = f[n]
      BY <3>2, <1>1
    <3> HIDE DEF Good
    <3> QED BY <3>6, <3>7
  <2> QED BY <2>1, <2>2, Zenon
<1>3. PICK m \in Nat : \E k : /\ Lists(k, m, Upto(n))
                              /\ AppendAll(s) = [j \in 1..m |-> g[k[j]]]
  BY <1>2, Zenon
<1>4. PICK k : /\ Lists(k, m, Upto(n))
               /\ AppendAll(s) = [j \in 1..m |-> g[k[j]]]
  BY <1>3, Zenon
<1>5. Upto(n) = K
  BY Zenon
<1>6. Lists(k, m, K)
  BY <1>4, <1>5, Zenon
<1>7. IsFiniteSet(K) /\ Cardinality(K) = m
  <2>1. k \in Bijection(1..m, K)
    BY <1>6 DEF Lists, Bijection, Injection, Surjection, IsInjective
  <2>2. ExistsBijection(1..m, K)
    BY <2>1 DEF ExistsBijection
  <2>3. IsFiniteSet(1..m) /\ Cardinality(1..m) = m
    BY FS_Interval
  <2> QED BY <2>2, <2>3, FS_Bijection
<1> QED BY <1>4, <1>6, <1>7, Zenon DEF Values

-----------------------------------------------------------------------------
(* The service                                                                *)

\* What Go returns when it iterates over a map: all of it, in some order.
LEMMA Permutation ==
    ASSUME NEW S, IsFiniteSet(S), NEW f \in MapOrders(S)
    PROVE  /\ f \in Seq(S) /\ Len(f) = Cardinality(S)
           /\ Range(f) = S
           /\ \A i, j \in DOMAIN f : f[i] = f[j] => i = j
<1> DEFINE n == Cardinality(S)
<1>1. n \in Nat
  BY FS_CardinalityType
<1>2. f \in [1..n -> S] /\ \A i, j \in 1..n : i # j => f[i] # f[j]
  BY DEF MapOrders, Injection, IsInjective
<1> HIDE DEF n
<1>3. f \in Seq(S) /\ Len(f) = n /\ DOMAIN f = 1..n
  BY <1>1, <1>2, FunctionIsSeq
<1>4. f \in Injection(1..n, S)
  BY DEF MapOrders, n
<1>5. Cardinality(1..n) = n
  BY <1>1, FS_Interval
<1>6. f \in Surjection(1..n, S)
  BY <1>4, <1>5, FS_Injection DEF n
<1>7. Range(f) = S
  BY <1>3, <1>6 DEF Range, Surjection
<1> QED BY <1>2, <1>3, <1>7 DEF n

\* The variables of the service hold the value of a property in a scope.
LEMMA ScopedVariable ==
    ASSUME NEW image, NEW scope, NEW property, NEW default
    PROVE  LET sv == ServiceVariables(image)
           IN  Scoped(image, scope, property, default) =
                   IF <<scope, property>> \in DOMAIN sv
                   THEN sv[<<scope, property>>] ELSE default
<1> DEFINE sv  == ServiceVariables(image)
           key == <<scope, property>>
<1>1. DOMAIN sv = DOMAIN image.labels \cup DOMAIN image.env
  BY DEF ServiceVariables
<1>2. key \in DOMAIN sv =>
          sv[key] = IF key \in DOMAIN image.labels THEN image.labels[key]
                      ELSE image.env[key]
  BY <1>1 DEF ServiceVariables
<1> HIDE DEF key, sv
<1>3. Scoped(image, scope, property, default) =
          IF key \in DOMAIN image.labels THEN image.labels[key]
          ELSE IF key \in DOMAIN image.env THEN image.env[key] ELSE default
  BY DEF Scoped, key
<1>4. Scoped(image, scope, property, default) =
          IF key \in DOMAIN sv THEN sv[key] ELSE default
  BY <1>1, <1>2, <1>3
<1> QED BY <1>4 DEF key, sv

\* The most specific value of a property
LEMMA Variables ==
    ASSUME NEW image, NEW port, NEW property
    PROVE  Setting(image, port, property)
           = ValueFromServiceVariables(ServiceVariables(image), port, property)
<1> DEFINE sv == ServiceVariables(image)
<1>1. ASSUME NEW scope, NEW default
      PROVE  Scoped(image, scope, property, default) =
                 IF <<scope, property>> \in DOMAIN sv
                 THEN sv[<<scope, property>>] ELSE default
  BY ScopedVariable
<1> HIDE DEF sv
<1>2. Setting(image, port, property)
          = ValueFromServiceVariables(sv, port, property)
  BY <1>1 DEF Setting, ValueFromServiceVariables
<1> QED BY <1>2 DEF sv

IsText(t) == DOMAIN t = {"slashes", "text"} /\ t.slashes \in Nat

\* Texts have a number of slashes, and so do the ones that are given.
LEMMA AreTexts ==
    IsText(EmptyText) /\ IsText(Name) /\ \A t \in Texts : IsText(t)
BY DEF IsText, EmptyText, Name, Texts

\* The values of a proper image that the entries are made of are texts.
LEMMA ValueType ==
    ASSUME NEW image, ProperImage(image), NEW port,
           NEW property \in {"NAME", "LOCATION", "PASS", "REWRITE"}
    PROVE  IsText(ValueFromServiceVariables(ServiceVariables(image), port, property))
<1> DEFINE sv == ServiceVariables(image)
<1>1. ASSUME NEW scope, <<scope, property>> \in DOMAIN sv
      PROVE  IsText(sv[<<scope, property>>])
  <2> DEFINE key == <<scope, property>>
  <2>1. key[2] \in {"NAME", "LOCATION", "PASS", "REWRITE"}
    OBVIOUS
  <2>2. /\ key \in DOMAIN image.labels => image.labels[key] \in Texts
        /\ key \in DOMAIN image.env => image.env[key] \in Texts
    <3> HIDE DEF key
    <3> QED BY <2>1 DEF ProperImage, ProperVariables
  <2> HIDE DEF key
  <2>3. key \in DOMAIN sv => sv[key] \in Texts
    BY <2>2 DEF ServiceVariables
  <2> QED BY <1>1, <2>3, AreTexts DEF key
<1> HIDE DEF sv
<1> QED BY <1>1, AreTexts DEF ValueFromServiceVariables, sv

\* getServiceLocation and getServicePass: a path from the root, of the setting
\* or the default
LEMMA PathShown ==
    ASSUME NEW image, ProperImage(image), NEW port,
           NEW property \in {"LOCATION", "PASS"}, NEW name, IsText(name)
    PROVE  LET path == ServicePath(ServiceVariables(image), port, property, name)
           IN  HasSlash(path) /\ IsPath(path, Setting(image, port, property), name)
<1> DEFINE value == ValueFromServiceVariables(ServiceVariables(image), port, property)
           path  == ServicePath(ServiceVariables(image), port, property, name)
<1>1. IsText(value)
  BY ValueType
<1>2. Setting(image, port, property) = value
  BY Variables
<1>3. path = IF value = EmptyText THEN Slashed(name)
             ELSE IF HasSlash(value) THEN value ELSE Slashed(value)
  BY DEF ServicePath
<1> HIDE DEF value, path
<1>4. ASSUME NEW t, IsText(t)
      PROVE  /\ Slashed(t).slashes = t.slashes + 1 /\ Slashed(t).text = t.text
             /\ t.slashes \in Nat
  BY <1>4 DEF Slashed, IsText
<1>5. path.slashes >= 1 /\ path.slashes > 0
  <2>1. CASE value = EmptyText
    BY <1>3, <1>4, <2>1
  <2>2. CASE value # EmptyText
    BY <1>1, <1>3, <1>4, <2>2 DEF HasSlash
  <2> QED BY <2>1, <2>2
<1>6. path.text = IF value = EmptyText THEN name.text ELSE value.text
  BY <1>1, <1>3, <1>4
<1> QED BY <1>2, <1>5, <1>6 DEF IsPath, HasSlash, path

\* An entry stands for the web application of its port.
LEMMA EntryShown ==
    ASSUME NEW image, ProperImage(image), NEW port
    PROVE  LET e == WebAppCesService(ServiceVariables(image), port, Name)
           IN  /\ e.port = port /\ IsEntry(e, image)
               /\ HasSlash(e.location) /\ HasSlash(e.pass)
<1> DEFINE sv == ServiceVariables(image)
           name == ServiceName(sv, port, Name)
           e == WebAppCesService(sv, port, Name)
           loc == ServicePath(sv, port, "LOCATION", name)
           pass == ServicePath(sv, port, "PASS", name)
           value(p) == ValueFromServiceVariables(sv, port, p)
<1>1. \A p : Setting(image, port, p) = value(p)
  BY Variables
<1>2. name = IF value("NAME") = EmptyText THEN Name ELSE value("NAME")
  BY DEF ServiceName
<1>3. IsText(name)
  <2>1. IsText(value("NAME"))
    BY ValueType
  <2> HIDE DEF value, name
  <2> QED BY <1>2, <2>1, AreTexts
<1>4. /\ e.name = name /\ e.port = port /\ e.location = loc /\ e.pass = pass
      /\ e.rewrite = value("REWRITE")
  BY DEF WebAppCesService
<1> HIDE DEF value, name, sv
<1>5. HasSlash(loc) /\ IsPath(loc, Setting(image, port, "LOCATION"), name)
  BY <1>3, PathShown DEF sv
<1>6. HasSlash(pass) /\ IsPath(pass, Setting(image, port, "PASS"), name)
  BY <1>3, PathShown DEF sv
<1> HIDE DEF e, loc, pass
<1>7. IsEntry(e, image)
  BY <1>1, <1>2, <1>4, <1>5, <1>6 DEF IsEntry
<1> QED BY <1>4, <1>5, <1>6, <1>7 DEF e, sv

\* Before the additional ones there is an entry for each web application, in
\* whatever order createWebAppCesServices meets the exposed ports.
LEMMA WebAppsShown ==
    ASSUME NEW image, ProperImage(image), NEW order \in MapOrders(image.exposed)
    PROVE  LET W == WebAppCesServices(order, ServiceVariables(image), Name)
               n == Cardinality(WebApps(image))
           IN  /\ n \in Nat /\ W \in Seq(Range(W)) /\ Len(W) = n
               /\ {W[i].port : i \in 1..n} = WebApps(image)
               /\ \A i \in 1..n : /\ IsEntry(W[i], image)
                                  /\ HasSlash(W[i].location) /\ HasSlash(W[i].pass)
<1> DEFINE sv == ServiceVariables(image)
           W == WebAppCesServices(order, sv, Name)
           len == Len(order)
           K == {i \in 1..len : IsServiceWebApp(order[i], sv)}
           g == [i \in 1..len |-> WebAppCesService(sv, order[i].port, Name)]
           s == [i \in 1..len |-> IF i \in K THEN <<g[i]>> ELSE <<>>]
           m == Cardinality(K)
<1>1. /\ order \in Seq(image.exposed) /\ Range(order) = image.exposed
      /\ \A i, j \in DOMAIN order : order[i] = order[j] => i = j
  BY Permutation DEF ProperImage
<1>2. len \in Nat /\ DOMAIN order = 1..len /\ \A i \in 1..len : order[i] \in image.exposed
  BY <1>1
<1>3. W = AppendAll(s)
  BY <1>2 DEF WebAppCesServices
<1>4. K \in SUBSET (1..len)
  OBVIOUS
<1>5. PICK k : Lists(k, m, K) /\ W = [j \in 1..m |-> g[k[j]]]
  <2> HIDE DEF K, g, W
  <2>1. Appended(s, len, g, K)
    BY DEF Appended
  <2> HIDE DEF s, len
  <2>2. Values(AppendAll(s), g, K)
    BY <1>2, <1>4, <2>1, Kept
  <2> QED BY <1>3, <2>2 DEF Values
<1>6. IsFiniteSet(K) /\ m \in Nat
  <2>1. IsFiniteSet(1..len)
    BY <1>2, FS_Interval
  <2>2. IsFiniteSet(K)
    BY <1>4, <2>1, FS_Subset
  <2> QED BY <2>2, FS_CardinalityType
<1>7. \A i \in K : order[i] \in image.exposed /\ order[i].protocol = "TCP"
  BY <1>2 DEF IsServiceWebApp
<1>8. WebApps(image) = {order[i].port : i \in K}
  <2>1. ASSUME NEW x \in image.exposed
        PROVE  (x.protocol = "TCP" /\ \E scope \in {0, x.port} :
                                         "webapp" \in Scoped(image, scope, "TAGS", {}))
               <=> IsServiceWebApp(x, sv)
    <3>1. \A scope : "webapp" \in Scoped(image, scope, "TAGS", {})
                     <=> HasTag(sv, scope)
      <4>1. ASSUME NEW scope
            PROVE  "webapp" \in Scoped(image, scope, "TAGS", {}) <=> HasTag(sv, scope)
        <5>1. Scoped(image, scope, "TAGS", {})
              = IF <<scope, "TAGS">> \in DOMAIN sv THEN sv[<<scope, "TAGS">>] ELSE {}
          BY ScopedVariable
        <5> HIDE DEF sv
        <5> QED BY <5>1 DEF HasTag
      <4> QED BY <4>1
    <3> HIDE DEF sv
    <3> QED BY <3>1 DEF IsServiceWebApp
  <2>2. image.exposed = {order[i] : i \in 1..len}
    BY <1>1, <1>2 DEF Range
  <2> HIDE DEF sv
  <2> QED BY <2>1, <2>2 DEF WebApps
<1>9. m = Cardinality(WebApps(image))
  <2> DEFINE p == [i \in K |-> order[i].port]
  <2>1. ASSUME NEW i \in K, NEW j \in K, p[i] = p[j]
        PROVE  i = j
    <3>1. /\ order[i] \in [port : Nat, protocol : STRING]
          /\ order[j] \in [port : Nat, protocol : STRING]
      BY <1>7 DEF ProperImage
    <3>2. order[i].port = order[j].port /\ order[i].protocol = order[j].protocol
      BY <1>7, <2>1
    <3>3. order[i] = order[j]
      BY <3>1, <3>2
    <3> QED BY <1>1, <1>2, <1>4, <3>3
  <2> HIDE DEF K
  <2>2. p \in Bijection(K, WebApps(image))
    BY <1>8, <2>1 DEF Bijection, Injection, Surjection, IsInjective
  <2>3. ExistsBijection(K, WebApps(image))
    BY <2>2 DEF ExistsBijection
  <2> QED BY <1>6, <2>3, FS_Bijection
<1>10. ASSUME NEW i \in 1..len
       PROVE  /\ g[i].port = order[i].port /\ IsEntry(g[i], image)
              /\ HasSlash(g[i].location) /\ HasSlash(g[i].pass)
  BY EntryShown
<1> HIDE DEF g, m, sv, W
<1>11. W \in Seq(Range(W)) /\ Len(W) = m
  <2>1. W \in [1..m -> Range(W)]
    BY <1>5 DEF Range
  <2> QED BY <1>6, <2>1, FunctionIsSeq
<1>12. ASSUME NEW j \in 1..m
       PROVE  k[j] \in K /\ W[j] = g[k[j]]
  BY <1>5 DEF Lists
<1>13. {W[j].port : j \in 1..m} = WebApps(image)
  <2>1. \A j \in 1..m : W[j].port = order[k[j]].port
    BY <1>4, <1>10, <1>12
  <2>2. \A i \in K : \E j \in 1..m : k[j] = i
    BY <1>5 DEF Lists
  <2> HIDE DEF K
  <2> QED BY <1>8, <1>12, <2>1, <2>2
<1>14. \A j \in 1..m : /\ IsEntry(W[j], image)
                       /\ HasSlash(W[j].location) /\ HasSlash(W[j].pass)
  BY <1>4, <1>10, <1>12
<1> QED BY <1>6, <1>9, <1>11, <1>13, <1>14 DEF W, sv

\* The additional services are what the image asks for, with paths from the
\* root, and with the default port where none is given.
LEMMA AdditionalShown ==
    ASSUME NEW image, ProperImage(image), NEW port
    PROVE  LET A == AdditionalCesServices(ServiceVariables(image), port)
               more == AdditionalServices(image)
           IN  /\ A \in Seq(Range(A)) /\ Len(A) = Len(more) /\ Len(more) \in Nat
               /\ DOMAIN more = 1..Len(more)
               /\ \A i \in 1..Len(more) :
                      /\ A[i].name = more[i].name /\ A[i].rewrite = more[i].rewrite
                      /\ IsPath(A[i].location, more[i].location, more[i].location)
                      /\ IsPath(A[i].pass, more[i].pass, more[i].pass)
                      /\ HasSlash(A[i].location) /\ HasSlash(A[i].pass)
                      /\ A[i].port = IF more[i].port = 0 THEN port ELSE more[i].port
<1> DEFINE sv == ServiceVariables(image)
           key == <<0, "ADDITIONAL_SERVICES">>
           more == AdditionalServices(image)
           path(text) == IF HasSlash(text) THEN text ELSE Slashed(text)
           A == AdditionalCesServices(sv, port)
<1>1. more = IF key \in DOMAIN sv THEN sv[key] ELSE <<>>
  <2> DEFINE scoped(scope, default) == Scoped(image, scope, "ADDITIONAL_SERVICES", default)
  <2>1. \A scope, default :
            scoped(scope, default) = IF <<scope, "ADDITIONAL_SERVICES">> \in DOMAIN sv
                                     THEN sv[<<scope, "ADDITIONAL_SERVICES">>]
                                     ELSE default
    BY ScopedVariable
  <2> HIDE DEF sv
  <2>2. scoped(0, <<>>) = IF key \in DOMAIN sv THEN sv[key] ELSE <<>>
    BY <2>1
  <2> QED BY <2>2 DEF AdditionalServices
<1>2. more \in Seq(CesServices)
  <2>1. key \in DOMAIN sv => sv[key] \in Seq(CesServices)
    <3>1. /\ key \in DOMAIN image.labels => image.labels[key] \in Seq(CesServices)
          /\ key \in DOMAIN image.env => image.env[key] \in Seq(CesServices)
      BY DEF ProperImage, ProperVariables
    <3> HIDE DEF key
    <3> QED BY <3>1 DEF ServiceVariables
  <2> HIDE DEF sv, key, more
  <2> QED BY <1>1, <2>1
<1>3. A = [i \in DOMAIN more |->
              [more[i] EXCEPT !.location = path(@), !.pass = path(@),
                              !.port = IF @ = 0 THEN port ELSE @]]
  <2> HIDE DEF sv, more
  <2>1. CASE key \in DOMAIN sv
    BY <1>1, <2>1 DEF AdditionalCesServices
  <2>2. CASE key \notin DOMAIN sv
    BY <1>1, <2>2 DEF AdditionalCesServices
  <2> QED BY <2>1, <2>2, Zenon
<1> HIDE DEF more, A
<1>4. Len(more) \in Nat /\ DOMAIN more = 1..Len(more)
  BY <1>2
<1>5. A \in Seq(Range(A)) /\ Len(A) = Len(more)
  <2>1. A \in [1..Len(more) -> Range(A)]
    BY <1>3, <1>4, Zenon DEF Range
  <2> QED BY <1>4, <2>1, FunctionIsSeq
<1>6. ASSUME NEW t \in Texts
      PROVE  HasSlash(path(t)) /\ IsPath(path(t), t, t)
  BY DEF Texts, HasSlash, Slashed, IsPath
<1>7. ASSUME NEW i \in 1..Len(more)
      PROVE  /\ A[i].name = more[i].name /\ A[i].rewrite = more[i].rewrite
             /\ IsPath(A[i].location, more[i].location, more[i].location)
             /\ IsPath(A[i].pass, more[i].pass, more[i].pass)
             /\ HasSlash(A[i].location) /\ HasSlash(A[i].pass)
             /\ A[i].port = IF more[i].port = 0 THEN port ELSE more[i].port
  <2>1. more[i] \in CesServices
    BY <1>2, <1>4
  <2>2. more[i].location \in Texts /\ more[i].pass \in Texts
    BY <2>1 DEF CesServices
  <2> HIDE DEF path
  <2>3. /\ A[i].name = more[i].name /\ A[i].rewrite = more[i].rewrite
        /\ A[i].location = path(more[i].location) /\ A[i].pass = path(more[i].pass)
        /\ A[i].port = IF more[i].port = 0 THEN port ELSE more[i].port
    BY <1>3, <1>4, <2>1, Zenon DEF CesServices
  <2> QED BY <1>6, <2>2, <2>3
<1> QED BY <1>4, <1>5, <1>7 DEF A, more, sv

\* The ports and the annotation of what CreateDoguService returns
LEMMA ServiceParts ==
    ASSUME NEW image, NEW exposedPorts,
           NEW c \in CreateDoguServices(image, exposedPorts, Name)
    PROVE  \E ports, order \in MapOrders(image.exposed) :
               LET sv == ServiceVariables(image)
               IN  /\ c.ports = ports
                   /\ c.ces = WebAppCesServices(order, sv, Name)
                              \o AdditionalCesServices(sv, DefaultPort(ports))
                   /\ c.exposed = ExposedPortAnnotation(exposedPorts)
BY DEF CreateDoguServices

\* The entries of the annotation are the ones of the web applications, and then
\* the additional ones.
LEMMA Entries ==
    ASSUME NEW image, ProperImage(image), NEW order \in MapOrders(image.exposed),
           NEW port, NEW ces,
           ces = WebAppCesServices(order, ServiceVariables(image), Name)
                 \o AdditionalCesServices(ServiceVariables(image), port)
    PROVE  LET W == WebAppCesServices(order, ServiceVariables(image), Name)
               A == AdditionalCesServices(ServiceVariables(image), port)
           IN  /\ Len(ces) = Len(W) + Len(A) /\ DOMAIN ces = 1..Len(ces)
               /\ \A i \in 1..Len(W) : ces[i] = W[i]
               /\ \A i \in 1..Len(A) : ces[Len(W) + i] = A[i]
               /\ \A e \in Range(ces) : HasSlash(e.location) /\ HasSlash(e.pass)
<1> DEFINE W == WebAppCesServices(order, ServiceVariables(image), Name)
           A == AdditionalCesServices(ServiceVariables(image), port)
           T == Range(W) \cup Range(A)
<1>1. /\ W \in Seq(Range(W)) /\ Len(W) \in Nat
      /\ \A i \in 1..Len(W) : HasSlash(W[i].location) /\ HasSlash(W[i].pass)
  BY WebAppsShown
<1>2. /\ A \in Seq(Range(A)) /\ Len(A) \in Nat
      /\ \A i \in 1..Len(A) : HasSlash(A[i].location) /\ HasSlash(A[i].pass)
  BY AdditionalShown
<1>3. ces = W \o A
  OBVIOUS
<1> HIDE DEF W, A
<1>4. W \in Seq(T) /\ A \in Seq(T)
  BY <1>1, <1>2
<1>5. /\ ces \in Seq(T) /\ Len(ces) = Len(W) + Len(A)
      /\ \A i \in 1..(Len(W) + Len(A)) :
             ces[i] = IF i <= Len(W) THEN W[i] ELSE A[i - Len(W)]
  <2> HIDE DEF T
  <2> QED BY <1>3, <1>4, ConcatProperties
<1>6. DOMAIN ces = 1..Len(ces)
  BY <1>5
<1>7. \A i \in 1..Len(W) : ces[i] = W[i]
  BY <1>1, <1>2, <1>5
<1>8. \A i \in 1..Len(A) : ces[Len(W) + i] = A[i]
  BY <1>1, <1>2, <1>5
<1>9. ASSUME NEW i \in DOMAIN ces
      PROVE  HasSlash(ces[i].location) /\ HasSlash(ces[i].pass)
  <2>1. Len(W) \in Nat /\ Len(A) \in Nat /\ i \in 1..(Len(W) + Len(A))
    BY <1>1, <1>2, <1>5, <1>6
  <2>2. CASE i \in 1..Len(W)
    BY <1>1, <1>7, <2>2
  <2>3. CASE i \notin 1..Len(W)
    <3>1. PICK j \in 1..Len(A) : i = Len(W) + j
      <4> DEFINE j == i - Len(W)
      <4>1. j \in 1..Len(A) /\ i = Len(W) + j
        BY <2>1, <2>3
      <4> QED BY <4>1
    <3> QED BY <1>2, <1>8, <3>1
  <2> QED BY <2>2, <2>3
<1>10. \A e \in Range(ces) : HasSlash(e.location) /\ HasSlash(e.pass)
  BY <1>9 DEF Range
<1> QED BY <1>5, <1>6, <1>7, <1>8, <1>10 DEF W, A

\* What CreateDoguService returns shows what the image declares.  An additional
\* service without a port takes the first one that is exposed
\* (getDefaultPortFromService): there has to be one.
LEMMA ServiceShown ==
    ASSUME NEW dogu, ProperImage(dogu.image), dogu.image.exposed # {},
           NEW c \in CreateDoguServices(dogu.image, dogu.exposedPorts, Name)
    PROVE  Shows([ports |-> c.ports, ces |-> c.ces, exposed |-> c.exposed,
                  exists |-> TRUE], dogu)
<1> DEFINE image == dogu.image
           sv == ServiceVariables(image)
           more == AdditionalServices(image)
           n == Cardinality(WebApps(image))
<1>0. ProperImage(image)
  OBVIOUS
<1>1. PICK ports \in MapOrders(image.exposed) :
          \E order \in MapOrders(image.exposed) :
              /\ c.ports = ports
              /\ c.ces = WebAppCesServices(order, sv, Name)
                         \o AdditionalCesServices(sv, DefaultPort(ports))
              /\ c.exposed = ExposedPortAnnotation(dogu.exposedPorts)
  BY ServiceParts, Zenon
<1>2. PICK order \in MapOrders(image.exposed) :
          /\ c.ports = ports
          /\ c.ces = WebAppCesServices(order, sv, Name)
                     \o AdditionalCesServices(sv, DefaultPort(ports))
          /\ c.exposed = ExposedPortAnnotation(dogu.exposedPorts)
  BY <1>1, Zenon
<1> DEFINE W == WebAppCesServices(order, sv, Name)
           A == AdditionalCesServices(sv, DefaultPort(ports))
<1>3. /\ n \in Nat /\ Len(W) = n
      /\ {W[i].port : i \in 1..n} = WebApps(image)
      /\ \A i \in 1..n : IsEntry(W[i], image)
  BY <1>0, WebAppsShown, Zenon
<1>4. /\ Len(A) = Len(more) /\ Len(more) \in Nat /\ DOMAIN more = 1..Len(more)
      /\ \A i \in 1..Len(more) :
             /\ A[i].name = more[i].name /\ A[i].rewrite = more[i].rewrite
             /\ IsPath(A[i].location, more[i].location, more[i].location)
             /\ IsPath(A[i].pass, more[i].pass, more[i].pass)
             /\ A[i].port = IF more[i].port = 0 THEN DefaultPort(ports)
                            ELSE more[i].port
  BY <1>0, AdditionalShown
<1>5. /\ Len(c.ces) = Len(W) + Len(A)
      /\ \A i \in 1..Len(W) : c.ces[i] = W[i]
      /\ \A i \in 1..Len(A) : c.ces[Len(W) + i] = A[i]
  BY <1>0, <1>2, Entries
<1>6. ports \in Seq(image.exposed) /\ Range(ports) = image.exposed
  BY <1>0, Permutation DEF ProperImage
<1> HIDE DEF W, A, n, more
<1>7. /\ Len(c.ces) = n + Len(more)
      /\ {c.ces[i].port : i \in 1..n} = WebApps(image)
      /\ \A i \in 1..n : IsEntry(c.ces[i], image)
  <2>1. \A i \in 1..n : c.ces[i] = W[i]
    BY <1>3, <1>5
  <2>2. {c.ces[i].port : i \in 1..n} = {W[i].port : i \in 1..n}
    BY <2>1
  <2> QED BY <1>3, <1>4, <1>5, <2>1, <2>2, Zenon
<1>8. ASSUME NEW i \in DOMAIN more
      PROVE  LET e == c.ces[n + i]
             IN  /\ e.name = more[i].name /\ e.rewrite = more[i].rewrite
                 /\ IsPath(e.location, more[i].location, more[i].location)
                 /\ IsPath(e.pass, more[i].pass, more[i].pass)
                 /\ IF more[i].port # 0 THEN e.port = more[i].port
                    ELSE \E x \in image.exposed : e.port = x.port
  <2>1. i \in 1..Len(more) /\ c.ces[n + i] = A[i]
    BY <1>3, <1>4, <1>5, Zenon
  <2>2. more[i].port = 0 => \E x \in image.exposed : DefaultPort(ports) = x.port
    <3> SUFFICES ASSUME more[i].port = 0
                 PROVE  \E x \in image.exposed : DefaultPort(ports) = x.port
      OBVIOUS
    <3>1. image.exposed # {}
      OBVIOUS
    <3>2. ports # <<>> /\ ports[1] \in image.exposed
      BY <1>6, <3>1 DEF Range
    <3> QED BY <3>2 DEF DefaultPort
  <2> QED BY <1>4, <2>1, <2>2, Zenon
<1>9. {<<e.port, e.targetPort>> : e \in Range(c.exposed)}
      = {<<e.container, e.host>> : e \in Range(dogu.exposedPorts)}
  <2> DEFINE E == dogu.exposedPorts
             a == ExposedPortAnnotation(E)
  <2>1. /\ DOMAIN a = DOMAIN E
        /\ \A i \in DOMAIN E : a[i].port = E[i].container /\ a[i].targetPort = E[i].host
    BY DEF ExposedPortAnnotation
  <2> HIDE DEF a
  <2>2. /\ Range(a) = {a[i] : i \in DOMAIN E}
        /\ Range(E) = {E[i] : i \in DOMAIN E}
    BY <2>1 DEF Range
  <2> HIDE DEF E
  <2>3. {<<e.port, e.targetPort>> : e \in {a[i] : i \in DOMAIN E}}
        = {<<e.container, e.host>> : e \in {E[i] : i \in DOMAIN E}}
    BY <2>1
  <2> QED BY <1>2, <2>2, <2>3 DEF a, E
<1> QED BY <1>2, <1>6, <1>7, <1>8, <1>9, Zenon DEF Shows, n, more

Slashes(ces) == \A e \in Range(ces) : HasSlash(e.location) /\ HasSlash(e.pass)

\* All paths that CreateDoguService puts into the annotation start with a slash.
LEMMA ServiceSlashes ==
    ASSUME NEW image, ProperImage(image), NEW exposedPorts,
           NEW c \in CreateDoguServices(image, exposedPorts, Name)
    PROVE  Slashes(c.ces)
<1> DEFINE sv == ServiceVariables(image)
<1>2. PICK ports \in MapOrders(image.exposed) :
          \E order \in MapOrders(image.exposed) :
              c.ces = WebAppCesServices(order, sv, Name)
                      \o AdditionalCesServices(sv, DefaultPort(ports))
  BY ServiceParts, Zenon
<1>3. PICK order \in MapOrders(image.exposed) :
          c.ces = WebAppCesServices(order, sv, Name)
                  \o AdditionalCesServices(sv, DefaultPort(ports))
  BY <1>2
<1> DEFINE ces == c.ces
<1>4. ces = WebAppCesServices(order, sv, Name)
            \o AdditionalCesServices(sv, DefaultPort(ports))
  BY <1>3
<1> HIDE DEF ces
<1>5. \A e \in Range(ces) : HasSlash(e.location) /\ HasSlash(e.pass)
  BY <1>4, Entries, Zenon
<1> QED BY <1>5 DEF Slashes, ces

-----------------------------------------------------------------------------
(* Additional mounts                                                          *)

\* findVolumeByName returns a volume with this name, if there is one.
LEMMA VolumeFound ==
    ASSUME NEW dogu, IsSequence(dogu.volumes), NEW name, HasVolume(dogu, name)
    PROVE  /\ VolumeByName(dogu, name) \in Range(dogu.volumes)
           /\ VolumeByName(dogu, name).name = name
<1> DEFINE s == dogu.volumes
           I == {i \in DOMAIN s : s[i].name = name}
<1>1. Len(s) \in Nat /\ DOMAIN s = 1..Len(s) /\ \A i \in 1..Len(s) : s[i] \in Range(s)
  BY DEF IsSequence
<1>2. I # {} /\ I \in SUBSET Nat
  BY <1>1 DEF HasVolume, Range
<1> DEFINE k == Min(I)
<1>3. k = CHOOSE x \in I : \A y \in I : x <= y
  BY DEF Min
<1>4. \E x \in I : \A y \in I : x <= y
  <2> HIDE DEF I
  <2> QED BY <1>2, LeastNumber
<1>5. k \in I
  <2> HIDE DEF I, k
  <2> QED BY <1>3, <1>4
<1>6. VolumeByName(dogu, name) = s[k]
  BY DEF VolumeByName
<1> HIDE DEF k
<1> QED BY <1>1, <1>5, <1>6

\* Mounts of sources with the same name have sources of the same type: otherwise
\* createAdditionalDataVolumes makes a volume for the first of them only.
OneTypePerName(mounts) ==
    \A i, j \in DOMAIN mounts :
        mounts[i].name = mounts[j].name => mounts[i].type = mounts[j].type

\* createAdditionalDataVolumes returns a volume for the source of each mount.
LEMMA SourcesAreVolumes ==
    ASSUME NEW mounts, IsSequence(mounts), OneTypePerName(mounts),
           NEW m \in Range(mounts)
    PROVE  Volume(<<m.name>>, <<m.type, m.name>>) \in Range(AdditionalDataVolumes(mounts))
<1> DEFINE n == Len(mounts)
           K == {i \in 1..n : IsFirst(mounts, i)}
           g == [i \in 1..n |-> Volume(<<mounts[i].name>>,
                                       <<mounts[i].type, mounts[i].name>>)]
           s == [i \in 1..n |-> IF i \in K THEN <<g[i]>> ELSE <<>>]
           A == AdditionalDataVolumes(mounts)
<1>1. n \in Nat /\ DOMAIN mounts = 1..n
  BY DEF IsSequence
<1>2. A = AppendAll(s)
  BY <1>1, Zenon DEF AdditionalDataVolumes
<1>3. K \in SUBSET (1..n)
  OBVIOUS
<1>4. Values(A, g, K) /\ IsFiniteSet(K)
  <2> HIDE DEF K, g, A
  <2>1. Appended(s, n, g, K)
    BY DEF Appended
  <2> HIDE DEF s, n
  <2> QED BY <1>1, <1>2, <1>3, <2>1, Kept
<1>5. PICK i \in 1..n : mounts[i] = m
  BY <1>1 DEF Range
<1>6. PICK j \in 1..n : mounts[j].name = m.name /\ IsFirst(mounts, j)
  <2> DEFINE I == {j \in 1..n : mounts[j].name = m.name}
  <2>1. I # {} /\ I \in SUBSET Nat
    BY <1>1, <1>5
  <2>2. PICK x \in I : \A y \in I : x <= y
    <3> HIDE DEF I
    <3> QED BY <2>1, LeastNumber
  <2>3. x \in 1..n /\ mounts[x].name = m.name
    OBVIOUS
  <2>4. IsFirst(mounts, x)
    BY <1>1, <2>2, <2>3 DEF IsFirst
  <2> QED BY <2>3, <2>4
<1>7. j \in K /\ g[j] = Volume(<<m.name>>, <<m.type, m.name>>)
  <2>1. mounts[j].type = m.type
    BY <1>1, <1>5, <1>6 DEF OneTypePerName
  <2> QED BY <1>6, <2>1
<1> HIDE DEF K, g, A
<1>8. g[j] \in Range(A)
  <2>1. PICK k : /\ Lists(k, Cardinality(K), K)
                 /\ A = [a \in 1..Cardinality(K) |-> g[k[a]]]
    BY <1>4 DEF Values
  <2>2. PICK a \in 1..Cardinality(K) : k[a] = j
    BY <1>7, <2>1 DEF Lists
  <2> QED BY <2>1, <2>2 DEF Range
<1> QED BY <1>7, <1>8 DEF A

\* The second part of a list is in the list.
LEMMA InConcat ==
    ASSUME NEW p, NEW q, IsSequence(p), IsSequence(q)
    PROVE  IsSequence(p \o q) /\ Range(q) \subseteq Range(p \o q)
<1> DEFINE T == Range(p) \cup Range(q)
           r == p \o q
<1>1. p \in Seq(T) /\ q \in Seq(T) /\ Len(p) \in Nat /\ Len(q) \in Nat
  BY DEF IsSequence
<1>2. /\ r \in Seq(T) /\ Len(r) = Len(p) + Len(q)
      /\ \A i \in 1..(Len(p) + Len(q)) : r[i] = IF i <= Len(p) THEN p[i] ELSE q[i - Len(p)]
  <2> HIDE DEF T
  <2> QED BY <1>1, ConcatProperties
<1> HIDE DEF r, T
<1>3. DOMAIN r = 1..Len(r)
  BY <1>2
<1>4. IsSequence(r)
  <2>1. r \in [1..Len(r) -> Range(r)]
    BY <1>2, <1>3 DEF Range
  <2>2. Len(r) \in Nat
    BY <1>1, <1>2
  <2>3. r \in Seq(Range(r))
    BY <2>1, <2>2, FunctionIsSeq
  <2> QED BY <2>3 DEF IsSequence
<1>5. ASSUME NEW x \in Range(q)
      PROVE  x \in Range(r)
  <2>1. PICK i \in 1..Len(q) : x = q[i]
    BY <1>1 DEF Range
  <2> DEFINE k == Len(p) + i
  <2>2. k \in 1..(Len(p) + Len(q)) /\ ~(k <= Len(p)) /\ k - Len(p) = i
    BY <1>1
  <2> HIDE DEF k
  <2>3. k \in DOMAIN r /\ r[k] = x
    BY <1>2, <1>3, <2>1, <2>2
  <2> QED BY <2>3 DEF Range
<1> QED BY <1>4, <1>5 DEF r

\* What a loop returns is a sequence.
LEMMA AppendedIsSequence ==
    ASSUME NEW n \in Nat, NEW g, NEW K \in SUBSET (1..n),
           NEW s, Appended(s, n, g, K)
    PROVE  IsSequence(AppendAll(s))
<1>1. IsFiniteSet(K) /\ Values(AppendAll(s), g, K)
  BY Kept
<1> DEFINE r == AppendAll(s)
           c == Cardinality(K)
<1>2. c \in Nat
  BY <1>1, FS_CardinalityType
<1>3. PICK k : r = [j \in 1..c |-> g[k[j]]]
  BY <1>1 DEF Values
<1> HIDE DEF r, c
<1>4. r \in [1..c -> Range(r)]
  BY <1>3 DEF Range
<1>5. r \in Seq(Range(r))
  BY <1>2, <1>4, FunctionIsSeq
<1> QED BY <1>5 DEF IsSequence, r

\* The parts of CreateVolumes are sequences.
LEMMA VolumeParts ==
    ASSUME NEW dogu, IsSequence(dogu.volumes), IsSequence(dogu.dependencies),
           NEW mounts, IsSequence(mounts)
    PROVE  /\ IsSequence(StaticVolumes) /\ IsSequence(DoguJsonVolumes(dogu))
           /\ IsSequence(DoguVolumes(dogu.volumes))
           /\ IsSequence(AdditionalDataVolumes(mounts))
           /\ \A v : IsSequence(<<v>>)
           /\ IsSequence(<<>>)
<1>1. IsSequence(StaticVolumes)
  <2>1. ASSUME NEW a, NEW b, NEW c, NEW d, NEW e, NEW f
        PROVE  IsSequence(<<a, b, c, d, e, f>>)
    <3> DEFINE r == <<a, b, c, d, e, f>>
    <3>1. DOMAIN r = 1..6 /\ r = [i \in 1..6 |-> r[i]]
      OBVIOUS
    <3> HIDE DEF r
    <3>2. r \in [1..6 -> Range(r)]
      BY <3>1 DEF Range
    <3>3. r \in Seq(Range(r))
      BY <3>2, FunctionIsSeq, Zenon
    <3> QED BY <3>3 DEF IsSequence, r
  <2> QED BY <2>1 DEF StaticVolumes
<1>2. IsSequence(DoguJsonVolumes(dogu))
  <2> DEFINE deps == dogu.dependencies
             n == Len(deps)
             K == {i \in 1..n : deps[i].type = "dogu"}
             g == [i \in 1..n |-> DoguJsonVolume(deps[i].name)]
             s == [i \in 1..n |-> IF i \in K THEN <<g[i]>> ELSE <<>>]
  <2>1. n \in Nat /\ DOMAIN deps = 1..n /\ K \in SUBSET (1..n)
    BY DEF IsSequence
  <2>2. DoguJsonVolumes(dogu) = AppendAll(s)
    BY <2>1, Zenon DEF DoguJsonVolumes
  <2> HIDE DEF K, g
  <2>3. Appended(s, n, g, K)
    BY DEF Appended
  <2> HIDE DEF s, n
  <2> QED BY <2>1, <2>2, <2>3, AppendedIsSequence
<1>3. IsSequence(DoguVolumes(dogu.volumes))
  <2> DEFINE volumes == dogu.volumes
             n == Len(volumes)
             onClaim(i) == ~HasOperatorClient(volumes[i]) /\ volumes[i].backup
             first(i) == onClaim(i) /\ \A j \in 1..(i - 1) : ~onClaim(j)
             K == {i \in 1..n : HasOperatorClient(volumes[i]) \/ first(i)}
             g == [i \in 1..n |->
                     IF HasOperatorClient(volumes[i])
                     THEN Volume(<<volumes[i].name>>, <<"ConfigMap", "of client">>)
                     ELSE Volume(DataVolume, <<"PersistentVolumeClaim", "dogu">>)]
             s == [i \in 1..n |-> IF i \in K THEN <<g[i]>> ELSE <<>>]
             t == [i \in 1..n |->
                     IF HasOperatorClient(volumes[i])
                     THEN << Volume(<<volumes[i].name>>, <<"ConfigMap", "of client">>) >>
                     ELSE IF first(i)
                     THEN << Volume(DataVolume, <<"PersistentVolumeClaim", "dogu">>) >>
                     ELSE <<>>]
  <2>1. n \in Nat /\ DOMAIN volumes = 1..n /\ K \in SUBSET (1..n)
    BY DEF IsSequence
  <2>2. DoguVolumes(volumes) = AppendAll(t)
    BY <2>1 DEF DoguVolumes
  <2>3. t = s
    <3> HIDE DEF first
    <3> QED BY Zenon
  <2>4. DoguVolumes(volumes) = AppendAll(s)
    BY <2>2, <2>3, Zenon
  <2> HIDE DEF K, g
  <2>5. Appended(s, n, g, K)
    BY DEF Appended
  <2> HIDE DEF s, n
  <2> QED BY <2>1, <2>4, <2>5, AppendedIsSequence
<1>4. IsSequence(AdditionalDataVolumes(mounts))
  <2> DEFINE n == Len(mounts)
             K == {i \in 1..n : IsFirst(mounts, i)}
             g == [i \in 1..n |-> Volume(<<mounts[i].name>>,
                                         <<mounts[i].type, mounts[i].name>>)]
             s == [i \in 1..n |-> IF i \in K THEN <<g[i]>> ELSE <<>>]
  <2>1. n \in Nat /\ DOMAIN mounts = 1..n /\ K \in SUBSET (1..n)
    BY DEF IsSequence
  <2>2. AdditionalDataVolumes(mounts) = AppendAll(s)
    BY <2>1, Zenon DEF AdditionalDataVolumes
  <2> HIDE DEF K, g
  <2>3. Appended(s, n, g, K)
    BY DEF Appended
  <2> HIDE DEF s, n
  <2> QED BY <2>1, <2>2, <2>3, AppendedIsSequence
<1>5. \A v : IsSequence(<<v>>)
  BY DEF IsSequence, Range
<1>6. IsSequence(<<>>)
  BY DEF IsSequence, Range
<1> QED BY <1>1, <1>2, <1>3, <1>4, <1>5, <1>6

\* CreateVolumes has a volume for the source of each additional mount.
LEMMA SourcesCreated ==
    ASSUME NEW dogu, IsSequence(dogu.volumes), IsSequence(dogu.dependencies),
           NEW s, IsSequence(s.mounts), OneTypePerName(s.mounts),
           NEW m \in Range(s.mounts)
    PROVE  Volume(<<m.name>>, <<m.type, m.name>>) \in Range(CreateVolumes(s, dogu))
<1> DEFINE A == AdditionalDataVolumes(s.mounts)
           E == IF s.export THEN << Volume(ImporterPublicKey, <<"ConfigMap", "importer">>) >>
                ELSE <<>>
           J == << DoguJsonVolume("dogu") >>
           p == StaticVolumes \o DoguJsonVolumes(dogu) \o J \o E
                \o DoguVolumes(dogu.volumes)
<1>1. CreateVolumes(s, dogu) = p \o A
  BY DEF CreateVolumes
<1>2. /\ IsSequence(StaticVolumes) /\ IsSequence(DoguJsonVolumes(dogu)) /\ IsSequence(J)
      /\ IsSequence(E) /\ IsSequence(DoguVolumes(dogu.volumes)) /\ IsSequence(A)
  BY VolumeParts
<1>3. IsSequence(p)
  <2> HIDE DEF J, E
  <2>1. IsSequence(StaticVolumes \o DoguJsonVolumes(dogu))
    BY <1>2, InConcat
  <2>2. IsSequence(StaticVolumes \o DoguJsonVolumes(dogu) \o J)
    BY <1>2, <2>1, InConcat
  <2>3. IsSequence(StaticVolumes \o DoguJsonVolumes(dogu) \o J \o E)
    BY <1>2, <2>2, InConcat
  <2> QED BY <1>2, <2>3, InConcat
<1>4. Volume(<<m.name>>, <<m.type, m.name>>) \in Range(A)
  BY SourcesAreVolumes
<1> HIDE DEF p, A
<1>5. Range(A) \subseteq Range(p \o A)
  BY <1>2, <1>3, InConcat
<1> QED BY <1>1, <1>4, <1>5

\* What the init container copies for a mount
LEMMA CopyArg ==
    ASSUME NEW e, NEW dogu, NEW i \in DOMAIN e.mounts
    PROVE  /\ i \in DOMAIN CopyArgs(e, dogu)
           /\ CopyArgs(e, dogu)[i]
              = [source |-> e.mounts[i].name,
                 target |-> VolumeByName(dogu, e.mounts[i].volume).path,
                 subfolder |-> e.mounts[i].subfolder]
BY DEF CopyArgs

\* What an argument says to copy is mounted, and goes to a volume that another
\* container mounts at the same path.
CopyMounted(a, mounts, others) ==
    /\ \E m \in mounts :
           m.path = <<"datamount", a.source>> /\ m.name = <<a.source>>
    /\ \E m \in mounts, n \in others :
           /\ m.path = <<"dogumount", a.target>>
           /\ n.path = <<Blank, a.target>>
           /\ m.name = n.name /\ m.subPath = n.subPath

\* What the init container of a spec copies, made without an error, is seen by
\* another container that mounts the same volumes.
LEMMA CopiesMounted ==
    ASSUME NEW e, NEW dogu, IsSequence(dogu.volumes), NEW image, NEW others,
           \A m \in Range(e.mounts) :
               /\ HasVolume(dogu, m.volume)
               /\ DoguVolumeMount(VolumeByName(dogu, m.volume), Blank) \in others,
           NEW a \in Range(AdditionalMountInitContainer(e, dogu, image).args)
    PROVE  CopyMounted(a, AdditionalMountInitContainer(e, dogu, image).mounts, others)
<1> DEFINE init == AdditionalMountInitContainer(e, dogu, image)
<1>1. init.args = CopyArgs(e, dogu)
  BY DEF AdditionalMountInitContainer, Container
<1>2. /\ \A m \in Range(e.mounts) :
             Mount(<<m.name>>, <<"datamount", m.name>>, Blank) \in init.mounts
      /\ DoguVolumeMounts(dogu, "dogumount") \subseteq init.mounts
  BY Zenon DEF AdditionalMountInitContainer, Container
<1> HIDE DEF init
<1>3. PICK i \in DOMAIN e.mounts : a = CopyArgs(e, dogu)[i]
  <2>1. DOMAIN CopyArgs(e, dogu) = DOMAIN e.mounts
    BY DEF CopyArgs
  <2> QED BY <1>1, <2>1 DEF Range, init
<1> DEFINE from == e.mounts[i]
           to == VolumeByName(dogu, from.volume)
<1>4. from \in Range(e.mounts) /\ a.source = from.name /\ a.target = to.path
  <2>1. from \in Range(e.mounts)
    BY DEF Range
  <2>2. CopyArgs(e, dogu)[i].source = from.name /\ CopyArgs(e, dogu)[i].target = to.path
    BY Zenon DEF CopyArgs
  <2> HIDE DEF from, to
  <2> QED BY <1>3, <2>1, <2>2
<1>5. HasVolume(dogu, from.volume) /\ DoguVolumeMount(to, Blank) \in others
  BY <1>4
<1>6. to \in Range(dogu.volumes)
  BY <1>5, VolumeFound
<1> HIDE DEF from, to
<1>7. \E x \in init.mounts : x.path = <<"datamount", a.source>> /\ x.name = <<a.source>>
  <2> DEFINE x == Mount(<<from.name>>, <<"datamount", from.name>>, Blank)
  <2>1. x.path = <<"datamount", from.name>> /\ x.name = <<from.name>>
    BY DEF Mount
  <2>2. x \in init.mounts
    BY <1>2, <1>4, Zenon
  <2> HIDE DEF x
  <2> QED BY <1>4, <2>1, <2>2
<1>8. \E x \in init.mounts, y \in others :
          /\ x.path = <<"dogumount", a.target>>
          /\ y.path = <<Blank, a.target>>
          /\ x.name = y.name /\ x.subPath = y.subPath
  <2> DEFINE x == DoguVolumeMount(to, "dogumount")
             y == DoguVolumeMount(to, Blank)
  <2>1. x \in init.mounts /\ y \in others
    BY <1>2, <1>5, <1>6 DEF DoguVolumeMounts
  <2>2. /\ x.path = <<"dogumount", to.path>> /\ y.path = <<Blank, to.path>>
        /\ x.name = y.name /\ x.subPath = y.subPath
    BY Zenon DEF DoguVolumeMount, Mount
  <2> HIDE DEF x, y
  <2> QED BY <1>4, <2>1, <2>2
<1> QED BY <1>7, <1>8 DEF CopyMounted, init
=============================================================================
