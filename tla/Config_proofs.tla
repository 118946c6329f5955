---------------------------- MODULE Config_proofs ---------------------------
(***************************************************************************)
(* Sequences that are selected from others, one after the other; and what  *)
(* Load of each service reports, for any environment and any words.        *)
(***************************************************************************)
EXTENDS Config, FiniteSetTheorems, SequenceTheorems, WellFoundedInduction, TLAPS

\* Anything that is listed from 1 on is a sequence of what it lists.
LEMMA ListsItself ==
  ASSUME NEW n \in Nat, NEW f, f = [i \in 1..n |-> f[i]]
  PROVE  IsList(f)
<1> DEFINE S == {f[i] : i \in DOMAIN f}
<1>1. DOMAIN f = 1..n
  OBVIOUS
<1>2. \A i \in 1..n : f[i] \in S
  BY <1>1
<1>3. f \in [1..n -> S]
  BY <1>2
<1>4. QED
  BY <1>3, SeqDef DEF IsList

\* So it is with one more at its end.
LEMMA AppendLists ==
  ASSUME NEW s, IsList(s), NEW e, NEW t, t = Append(s, e)
  PROVE  /\ IsList(t)
         /\ Len(s) \in Nat /\ Len(t) = Len(s) + 1
         /\ DOMAIN s = 1..Len(s) /\ DOMAIN t = 1..Len(s) + 1
         /\ \A i \in DOMAIN s : t[i] = s[i]
         /\ t[Len(s) + 1] = e
<1> DEFINE S == {s[i] : i \in DOMAIN s} \cup {e}
<1>1. s \in Seq(S) /\ e \in S
  <2>1. {s[i] : i \in DOMAIN s} \subseteq S
    OBVIOUS
  <2>2. QED
    BY <2>1 DEF IsList
<1>2. DOMAIN s = 1..Len(s) /\ Len(s) \in Nat
  BY <1>1
<1> HIDE DEF S
<1>3. /\ t \in Seq(S) /\ Len(t) = Len(s) + 1
      /\ \A i \in 1..Len(s) : t[i] = s[i]
      /\ t[Len(s) + 1] = e
  BY <1>1, AppendProperties
<1>4. t = [i \in 1..Len(s) + 1 |-> t[i]]
  BY <1>2, <1>3, LenProperties
<1>5. IsList(t)
  BY <1>2, <1>4, ListsItself
<1>6. DOMAIN t = 1..Len(s) + 1
  BY <1>4
<1>7. QED
  BY <1>2, <1>3, <1>5, <1>6

-----------------------------------------------------------------------------
\* Induction over the naturals, said of sets.
LEMMA LeastNumber ==
  ASSUME NEW T \in SUBSET Nat, T # {}
  PROVE  \E x \in T : \A y \in T : x <= y
<1> DEFINE R == {ss \in Nat \X Nat : ss[1] < ss[2]}
<1>1. IsWellFoundedOn(R, Nat)
  BY NatLessThanWellFounded DEF OpToRel
<1> HIDE DEF R
<1>2. PICK x \in T : \A y \in T : ~(<<y, x>> \in R)
  BY <1>1, WFMin
<1>3. ASSUME NEW y \in T PROVE x <= y
  <2>1. <<y, x>> \notin R /\ x \in Nat /\ y \in Nat
    BY <1>2
  <2>2. ~(y < x)
    BY <2>1 DEF R
  <2>3. QED
    BY <2>1, <2>2
<1>4. QED
  BY <1>3

\* p lists the m members of S in increasing order.
Enumerates(p, m, S) ==
    /\ S \subseteq Int
    /\ m \in Nat /\ p \in [1..m -> S]
    /\ \A i, j \in 1..m : i < j => p[i] < p[j]
    /\ \A x \in S : \E i \in 1..m : p[i] = x

\* A set of numbers is listed in increasing order in one way only.
LEMMA EnumerationsAgree ==
  ASSUME NEW S, NEW p, NEW q, NEW m, NEW n,
         Enumerates(p, m, S), Enumerates(q, n, S)
  PROVE  m = n /\ p = q
<1>1. ASSUME NEW a, NEW b, NEW k, NEW l, Enumerates(a, k, S), Enumerates(b, l, S),
             NEW i \in 1..k, i \in 1..l, \A j \in 1..i-1 : a[j] = b[j]
      PROVE  b[i] <= a[i]
  <2> USE <1>1 DEF Enumerates
  <2>1. a[i] \in S
    OBVIOUS
  <2>2. PICK j \in 1..l : b[j] = a[i]
    BY <2>1
  <2>3. j >= i
    <3>1. SUFFICES ASSUME j < i PROVE FALSE
      OBVIOUS
    <3>2. a[j] = a[i] /\ j \in 1..k
      BY <2>2, <3>1
    <3>3. a[j] < a[i] /\ a[i] \in Int
      BY <3>1, <3>2, <2>1
    <3>4. QED
      BY <3>2, <3>3
  <2>4. b[i] \in Int /\ b[j] \in Int
    OBVIOUS
  <2>5. i = j \/ b[i] < b[j]
    BY <2>3
  <2>6. QED
    BY <2>2, <2>4, <2>5
<1> DEFINE T == {i \in Nat : i \in 1..m /\ i \in 1..n /\ p[i] # q[i]}
<1>2. T = {}
  <2>1. SUFFICES ASSUME T # {} PROVE FALSE
    OBVIOUS
  <2>2. PICK i \in T : \A j \in T : i <= j
    BY <2>1, LeastNumber
  <2>3. ASSUME NEW j \in 1..i-1 PROVE p[j] = q[j]
    <3>1. j \in Nat /\ j \in 1..m /\ j \in 1..n /\ j < i
      BY DEF Enumerates
    <3>2. QED
      BY <2>2, <3>1
  <2>4. q[i] <= p[i]
    BY <1>1, <2>3
  <2>5. p[i] <= q[i]
    BY <1>1, <2>3
  <2>6. p[i] \in Int /\ q[i] \in Int
    BY DEF Enumerates
  <2>7. QED
    BY <2>4, <2>5, <2>6
<1>3. ASSUME NEW a, NEW b, NEW k, NEW l, Enumerates(a, k, S), Enumerates(b, l, S), k < l,
             \A i \in 1..k : a[i] = b[i]
      PROVE  FALSE
  <2> USE <1>3 DEF Enumerates
  <2>1. b[k + 1] \in S /\ k + 1 \in 1..l
    OBVIOUS
  <2>2. PICK i \in 1..k : a[i] = b[k + 1]
    BY <2>1
  <2>3. b[i] < b[k + 1] /\ b[k + 1] \in Int
    <3>1. i \in 1..l /\ i < k + 1
      OBVIOUS
    <3>2. QED
      BY <2>1, <3>1
  <2>4. QED
    BY <2>2, <2>3
<1>4. \A i \in 1..m : i \in 1..n => p[i] = q[i]
  BY <1>2 DEF Enumerates
<1>5. m \in Nat /\ n \in Nat
  BY DEF Enumerates
<1>6. ~(m < n)
  BY <1>3, <1>4, <1>5
<1>7. ~(n < m)
  BY <1>3, <1>4, <1>5
<1>8. m = n
  BY <1>5, <1>6, <1>7
<1>9. p = [i \in 1..m |-> p[i]] /\ q = [i \in 1..m |-> q[i]]
  BY <1>8 DEF Enumerates
<1>10. \A i \in 1..m : p[i] = q[i]
  BY <1>4, <1>8
<1>11. QED
  BY <1>8, <1>9, <1>10

\* A set of positions has one.
LEMMA EnumerationExists ==
  ASSUME NEW n \in Nat, NEW S \in SUBSET (1..n)
  PROVE  \E p, m : Enumerates(p, m, S)
<1> DEFINE Bad == {k \in Nat : \E V \in SUBSET (1..k) : ~\E p, m : Enumerates(p, m, V)}
<1>1. SUFFICES ASSUME Bad # {} PROVE FALSE
  OBVIOUS
<1>2. PICK k \in Bad : \A j \in Bad : k <= j
  BY <1>1, LeastNumber
<1>3. PICK V \in SUBSET (1..k) : ~\E p, m : Enumerates(p, m, V)
  OBVIOUS
<1>4. V # {}
  <2>1. Enumerates(<<>>, 0, {})
    BY DEF Enumerates
  <2>2. QED
    BY <1>3, <2>1
<1>5. k # 0
  <2>1. 1..0 = {}
    OBVIOUS
  <2>2. QED
    BY <1>4, <2>1
<1>6. k - 1 \in Nat /\ k - 1 \notin Bad
  BY <1>2, <1>5
<1>7. k \in V
  <2>1. SUFFICES ASSUME k \notin V PROVE FALSE
    OBVIOUS
  <2>2. V \in SUBSET (1..k-1)
    BY <2>1
  <2>3. QED
    BY <1>3, <1>6, <2>2
<1> DEFINE W == V \ {k}
<1>8. W \in SUBSET (1..k-1)
  OBVIOUS
<1>9. PICK p, m : Enumerates(p, m, W)
  BY <1>6, <1>8
<1> DEFINE q == [i \in 1..m+1 |-> IF i = m + 1 THEN k ELSE p[i]]
<1>10. Enumerates(q, m + 1, V)
  <2>1. m \in Nat /\ \A i \in 1..m : p[i] \in W /\ p[i] < k /\ p[i] \in V
    <3>1. m \in Nat /\ p \in [1..m -> W]
      BY <1>9 DEF Enumerates
    <3>2. \A x \in W : x < k /\ x \in V
      BY <1>8
    <3>3. QED
      BY <3>1, <3>2
  <2>2. m + 1 \in Nat /\ q \in [1..m+1 -> V]
    BY <1>7, <2>1
  <2>3. ASSUME NEW i \in 1..m+1, NEW j \in 1..m+1, i < j PROVE q[i] < q[j]
    <3>1. i \in 1..m /\ q[i] = p[i]
      BY <2>1, <2>3
    <3>2. CASE j = m + 1
      BY <2>1, <3>1, <3>2
    <3>3. CASE j # m + 1
      <4>1. j \in 1..m /\ q[j] = p[j]
        BY <2>1, <3>3
      <4>2. QED
        BY <1>9, <2>3, <3>1, <4>1 DEF Enumerates
    <3>4. QED
      BY <3>2, <3>3
  <2>4. ASSUME NEW x \in V PROVE \E i \in 1..m+1 : q[i] = x
    <3>1. CASE x = k
      BY <2>1, <3>1
    <3>2. CASE x # k
      <4>1. PICK i \in 1..m : p[i] = x
        BY <1>9, <3>2 DEF Enumerates
      <4>2. i \in 1..m+1 /\ q[i] = x
        BY <2>1, <4>1
      <4>3. QED
        BY <4>2
    <3>3. QED
      BY <3>1, <3>2
  <2>5. QED
    BY <2>2, <2>3, <2>4 DEF Enumerates
<1>11. QED
  BY <1>3, <1>10

\* InOrder finds it.
LEMMA InOrderEnumerates ==
  ASSUME NEW S, NEW p, NEW m, Enumerates(p, m, S)
  PROVE  InOrder(S) = p /\ DOMAIN InOrder(S) = 1..m
<1> DEFINE Increasing(a) == \A i, j \in DOMAIN a : i < j => a[i] < a[j]
<1>1. S \in SUBSET Int /\ m \in Nat
  BY DEF Enumerates
<1>2. Cardinality(S) = m /\ IsFiniteSet(S)
  <2>1. \A i, j \in 1..m : p[i] = p[j] => i = j
    <3>1. ASSUME NEW i \in 1..m, NEW j \in 1..m, i # j PROVE p[i] # p[j]
      <4>1. i < j \/ j < i
        BY <1>1, <3>1
      <4>2. p[i] \in Int /\ p[j] \in Int
        BY <1>1 DEF Enumerates
      <4>3. QED
        BY <4>1, <4>2 DEF Enumerates
    <3>2. QED
      BY <3>1
  <2>4. p \in Bijection(1..m, S)
    BY <2>1 DEF Enumerates, Bijection, Injection, IsInjective, Surjection
  <2>2. ExistsBijection(1..m, S)
    BY <2>4 DEF ExistsBijection
  <2>3. QED
    BY <1>1, <2>2, FS_CountingElements, FS_NatBijection
<1>3. p \in [1..m -> S] /\ Increasing(p)
  BY DEF Enumerates
<1>4. InOrder(S) \in [1..m -> S] /\ Increasing(InOrder(S))
  BY <1>2, <1>3 DEF InOrder
<1> DEFINE q == InOrder(S)
<1> HIDE DEF q
<1>5. q \in Injection(1..m, S)
  <2>1. q \in [1..m -> S] /\ Increasing(q)
    BY <1>4 DEF q
  <2>2. ASSUME NEW i \in 1..m, NEW j \in 1..m, i # j PROVE q[i] # q[j]
    <3>1. i < j \/ j < i
      BY <1>1, <2>2
    <3>2. q[i] \in Int /\ q[j] \in Int
      BY <1>1, <2>1
    <3>3. QED
      BY <2>1, <3>1, <3>2
  <2>3. QED
    BY <2>1, <2>2 DEF Injection, IsInjective
<1>6. Cardinality(1..m) = m
  BY <1>1, FS_Interval
<1>7. q \in Surjection(1..m, S)
  BY <1>2, <1>5, <1>6, FS_Injection
<1>8. Enumerates(q, m, S)
  BY <1>1, <1>4, <1>7 DEF Enumerates, Surjection, q
<1>9. QED
  BY <1>1, <1>4, <1>8, EnumerationsAgree DEF q

\* What Selection is, by an enumeration of the positions.
LEMMA SelectionIs ==
  ASSUME NEW S, NEW p, NEW m, Enumerates(p, m, S), NEW s
  PROVE  /\ Selection(s, S) = [k \in 1..m |-> s[p[k]]]
         /\ IsList(Selection(s, S)) /\ Len(Selection(s, S)) = m
         /\ DOMAIN Selection(s, S) = 1..m
<1>1. Selection(s, S) = [k \in 1..m |-> s[p[k]]]
  BY InOrderEnumerates DEF Selection
<1>2. m \in Nat
  BY DEF Enumerates
<1>3. Selection(s, S) = [k \in 1..m |-> Selection(s, S)[k]]
  BY <1>1
<1>4. IsList(Selection(s, S))
  BY <1>2, <1>3, ListsItself
<1>5. DOMAIN Selection(s, S) = 1..m
  BY <1>1
<1>6. Len(Selection(s, S)) = m
  BY <1>2, <1>4, <1>5, LenProperties DEF IsList
<1>7. QED
  BY <1>1, <1>4, <1>5, <1>6

\* Each element it has is one at a position in S, each of those is there.
LEMMA SelectionElements ==
  ASSUME NEW n \in Nat, NEW S \in SUBSET (1..n), NEW s
  PROVE  /\ IsList(Selection(s, S))
         /\ \A k \in DOMAIN Selection(s, S) : \E i \in S : Selection(s, S)[k] = s[i]
         /\ \A i \in S : \E k \in DOMAIN Selection(s, S) : Selection(s, S)[k] = s[i]
         /\ Selection(s, S) = <<>> <=> S = {}
<1>1. PICK p, m : Enumerates(p, m, S)
  BY EnumerationExists
<1>2. /\ Selection(s, S) = [k \in 1..m |-> s[p[k]]]
      /\ IsList(Selection(s, S)) /\ DOMAIN Selection(s, S) = 1..m
  BY <1>1, SelectionIs
<1> DEFINE t == Selection(s, S)
<1>3. /\ \A k \in 1..m : t[k] = s[p[k]] /\ p[k] \in S
      /\ \A i \in S : \E k \in 1..m : p[k] = i
      /\ m \in Nat
  BY <1>1, <1>2 DEF Enumerates
<1> HIDE DEF t
<1>4. t = <<>> <=> S = {}
  <2>1. t = <<>> <=> 1..m = {}
    BY <1>2 DEF t
  <2>2. 1..m = {} <=> S = {}
    BY <1>3
  <2>3. QED
    BY <2>1, <2>2
<1>5. \A k \in 1..m : \E i \in S : t[k] = s[i]
  BY <1>3
<1>6. \A i \in S : \E k \in 1..m : t[k] = s[i]
  BY <1>3
<1>7. IsList(t) /\ DOMAIN t = 1..m
  BY <1>2 DEF t
<1>8. QED
  BY <1>4, <1>5, <1>6, <1>7 DEF t

\* What one position selects: the element there, and nothing else.
LEMMA SelectionOfOne ==
  ASSUME NEW i \in Nat \ {0}, NEW s
  PROVE  Selection(s, {i}) = <<s[i]>>
<1>1. Enumerates(<<i>>, 1, {i})
  BY DEF Enumerates
<1>2. {i} \in SUBSET (1..i)
  OBVIOUS
<1>3. Selection(s, {i}) = [k \in 1..1 |-> s[<<i>>[k]]]
  BY <1>1, <1>2, SelectionIs
<1>4. QED
  BY <1>3

\* All the positions of a list select the list.
LEMMA SelectionOfAll ==
  ASSUME NEW s, IsList(s)
  PROVE  Selection(s, DOMAIN s) = s
<1>1. Len(s) \in Nat /\ DOMAIN s = 1..Len(s) /\ s = [k \in 1..Len(s) |-> s[k]]
  BY LenProperties DEF IsList
<1> DEFINE p == [k \in 1..Len(s) |-> k]
<1>2. Enumerates(p, Len(s), DOMAIN s)
  BY <1>1 DEF Enumerates
<1>3. Selection(s, DOMAIN s) = [k \in 1..Len(s) |-> s[p[k]]]
  BY <1>1, <1>2, SelectionIs
<1>4. QED
  BY <1>1, <1>3

\* A selection of a selection.
LEMMA SelectionComposes ==
  ASSUME NEW n \in Nat, NEW S \in SUBSET (1..n), NEW s, NEW V \in SUBSET DOMAIN Selection(s, S)
  PROVE  /\ DOMAIN InOrder(S) = DOMAIN Selection(s, S)
         /\ \A k \in V : InOrder(S)[k] \in S /\ Selection(s, S)[k] = s[InOrder(S)[k]]
         /\ \A i \in S : \E k \in DOMAIN Selection(s, S) : InOrder(S)[k] = i
         /\ Selection(Selection(s, S), V) = Selection(s, {InOrder(S)[k] : k \in V})
<1>1. PICK p, m : Enumerates(p, m, S)
  BY EnumerationExists
<1>2. /\ Selection(s, S) = [k \in 1..m |-> s[p[k]]]
      /\ DOMAIN Selection(s, S) = 1..m
      /\ InOrder(S) = p /\ DOMAIN p = 1..m
  BY <1>1, SelectionIs, InOrderEnumerates
<1>3. /\ m \in Nat /\ V \in SUBSET (1..m)
      /\ \A k \in 1..m : p[k] \in S /\ p[k] \in 1..n
      /\ \A i, j \in 1..m : i < j => p[i] < p[j]
      /\ \A i \in S : \E k \in 1..m : p[k] = i
  BY <1>1, <1>2 DEF Enumerates
<1>4. PICK q, l : Enumerates(q, l, V)
  BY <1>3, EnumerationExists
<1>5. /\ l \in Nat /\ \A j \in 1..l : q[j] \in V /\ q[j] \in 1..m
      /\ \A i, j \in 1..l : i < j => q[i] < q[j]
      /\ \A k \in V : \E j \in 1..l : q[j] = k
  BY <1>3, <1>4 DEF Enumerates
<1> DEFINE W == {p[k] : k \in V}
           r == [j \in 1..l |-> p[q[j]]]
<1>6. Enumerates(r, l, W)
  <2>1. r \in [1..l -> W]
    BY <1>5
  <2>2. \A i, j \in 1..l : i < j => r[i] < r[j]
    BY <1>3, <1>5
  <2>3. \A x \in W : \E j \in 1..l : r[j] = x
    BY <1>5
  <2>4. W \subseteq Int
    BY <1>3
  <2>5. QED
    BY <1>5, <2>1, <2>2, <2>3, <2>4 DEF Enumerates
<1>8. Selection(s, W) = [j \in 1..l |-> s[r[j]]]
  BY <1>6, SelectionIs
<1>9. Selection(Selection(s, S), V) = [j \in 1..l |-> Selection(s, S)[q[j]]]
  BY <1>3, <1>4, SelectionIs
<1>10. \A j \in 1..l : Selection(s, S)[q[j]] = s[r[j]]
  BY <1>2, <1>5
<1>11. Selection(Selection(s, S), V) = Selection(s, W)
  BY <1>8, <1>9, <1>10
<1>12. QED
  BY <1>2, <1>3, <1>11

\* A list of lists, or of anything else, one after the other.
LEMMA ConcatLists ==
  ASSUME NEW s, IsList(s), NEW t, IsList(t)
  PROVE  /\ IsList(s \o t) /\ Len(s) \in Nat /\ Len(t) \in Nat
         /\ Len(s \o t) = Len(s) + Len(t)
         /\ DOMAIN s = 1..Len(s) /\ DOMAIN t = 1..Len(t)
         /\ DOMAIN (s \o t) = 1..Len(s) + Len(t)
         /\ \A i \in 1..Len(s) : (s \o t)[i] = s[i]
         /\ \A j \in 1..Len(t) : (s \o t)[Len(s) + j] = t[j]
<1> DEFINE S == {s[i] : i \in DOMAIN s} \cup {t[i] : i \in DOMAIN t}
<1>1. s \in Seq(S) /\ t \in Seq(S)
  BY DEF IsList
<1> HIDE DEF S
<1>2. /\ Len(s) \in Nat /\ Len(t) \in Nat
      /\ DOMAIN s = 1..Len(s) /\ DOMAIN t = 1..Len(t)
  BY <1>1, LenProperties
<1>3. /\ s \o t \in Seq(S) /\ Len(s \o t) = Len(s) + Len(t)
      /\ \A i \in 1..Len(s) + Len(t) : (s \o t)[i] = IF i <= Len(s) THEN s[i] ELSE t[i - Len(s)]
  BY <1>1, ConcatProperties
<1>4. s \o t = [i \in 1..Len(s) + Len(t) |-> (s \o t)[i]]
  BY <1>3, LenProperties
<1>5. IsList(s \o t)
  BY <1>2, <1>4, ListsItself
<1>6. DOMAIN (s \o t) = 1..Len(s) + Len(t)
  BY <1>4
<1>7. \A i \in 1..Len(s) : (s \o t)[i] = s[i]
  BY <1>2, <1>3
<1>8. \A j \in 1..Len(t) : (s \o t)[Len(s) + j] = t[j]
  <2>1. SUFFICES ASSUME NEW j \in 1..Len(t) PROVE (s \o t)[Len(s) + j] = t[j]
    OBVIOUS
  <2>2. Len(s) + j \in 1..Len(s) + Len(t) /\ ~(Len(s) + j <= Len(s)) /\ (Len(s) + j) - Len(s) = j
    BY <1>2
  <2>3. QED
    BY <1>3, <2>2
<1>9. QED
  BY <1>2, <1>3, <1>5, <1>6, <1>7, <1>8

\* What is selected of two lists one after the other.
Joined(S, n, T) == S \cup {n + j : j \in T}

SelectsBoth(s, t, S, T) ==
    Selection(s \o t, Joined(S, Len(s), T)) = Selection(s, S) \o Selection(t, T)

\* Of two lists put together, a selection is one of the first, then one of the second.
LEMMA SelectionOfConcat ==
  ASSUME NEW s, IsList(s), NEW t, IsList(t),
         NEW S \in SUBSET DOMAIN s, NEW T \in SUBSET DOMAIN t
  PROVE  SelectsBoth(s, t, S, T)
<1> DEFINE U == S \cup {Len(s) + j : j \in T}
<1>1. /\ Len(s) \in Nat /\ Len(t) \in Nat
      /\ DOMAIN s = 1..Len(s) /\ DOMAIN t = 1..Len(t)
      /\ \A i \in 1..Len(s) : (s \o t)[i] = s[i]
      /\ \A j \in 1..Len(t) : (s \o t)[Len(s) + j] = t[j]
  BY ConcatLists
<1>2. PICK p, m : Enumerates(p, m, S)
  BY <1>1, EnumerationExists
<1>3. PICK q, l : Enumerates(q, l, T)
  BY <1>1, EnumerationExists
<1>4. /\ m \in Nat /\ l \in Nat
      /\ \A i \in 1..m : p[i] \in S /\ p[i] \in 1..Len(s)
      /\ \A i \in 1..l : q[i] \in T /\ q[i] \in 1..Len(t)
      /\ \A i, j \in 1..m : i < j => p[i] < p[j]
      /\ \A i, j \in 1..l : i < j => q[i] < q[j]
      /\ \A x \in S : \E i \in 1..m : p[i] = x
      /\ \A x \in T : \E i \in 1..l : q[i] = x
  BY <1>1, <1>2, <1>3 DEF Enumerates
<1> DEFINE r == [k \in 1..m + l |-> IF k <= m THEN p[k] ELSE Len(s) + q[k - m]]
<1>5. \A k \in 1..m : k \in 1..m + l /\ r[k] = p[k]
  BY <1>4
<1>6. \A k \in 1..m + l : k \notin 1..m => k - m \in 1..l /\ r[k] = Len(s) + q[k - m]
  BY <1>4
<1>7. Enumerates(r, m + l, U)
  <2>1. r \in [1..m + l -> U]
    <3>1. ASSUME NEW k \in 1..m + l PROVE r[k] \in U
      BY <1>4, <1>5, <1>6
    <3>2. QED
      BY <3>1
  <2>2. ASSUME NEW i \in 1..m + l, NEW j \in 1..m + l, i < j PROVE r[i] < r[j]
    <3>1. CASE j \in 1..m
      <4>1. i \in 1..m
        BY <1>4, <2>2, <3>1
      <4>2. p[i] < p[j]
        BY <1>4, <2>2, <3>1, <4>1
      <4>3. QED
        BY <1>5, <3>1, <4>1, <4>2
    <3>2. CASE j \notin 1..m /\ i \in 1..m
      BY <1>1, <1>4, <1>5, <1>6, <3>2
    <3>3. CASE j \notin 1..m /\ i \notin 1..m
      <4>1. i - m \in 1..l /\ j - m \in 1..l /\ i - m < j - m
        BY <1>4, <1>6, <2>2, <3>3
      <4>2. q[i - m] < q[j - m] /\ q[i - m] \in Nat /\ q[j - m] \in Nat
        BY <1>1, <1>4, <4>1
      <4>3. r[i] = Len(s) + q[i - m] /\ r[j] = Len(s) + q[j - m]
        BY <1>6, <3>3
      <4>4. QED
        BY <1>1, <4>2, <4>3
    <3>4. QED
      BY <3>1, <3>2, <3>3
  <2>3. ASSUME NEW x \in U PROVE \E k \in 1..m + l : r[k] = x
    <3>1. CASE x \in S
      BY <1>4, <1>5, <3>1
    <3>2. CASE x \notin S
      <4>1. PICK j \in T : x = Len(s) + j
        BY <3>2
      <4>2. PICK i \in 1..l : q[i] = j
        BY <1>4
      <4>3. m + i \in 1..m + l /\ m + i \notin 1..m /\ (m + i) - m = i
        BY <1>4
      <4>4. r[m + i] = x
        BY <1>6, <4>1, <4>2, <4>3
      <4>5. QED
        BY <4>3, <4>4
    <3>3. QED
      BY <3>1, <3>2
  <2>4. U \subseteq Int /\ m + l \in Nat
    BY <1>1, <1>4
  <2> HIDE DEF U, r
  <2>5. QED
    BY <2>1, <2>2, <2>3, <2>4 DEF Enumerates
<1> DEFINE a == Selection(s, S)
           b == Selection(t, T)
           c == Selection(s \o t, U)
<1>10. c = [k \in 1..m + l |-> (s \o t)[r[k]]]
  <2> HIDE DEF U, r
  <2> DEFINE st == s \o t
  <2> HIDE DEF st
  <2>1. Selection(st, U) = [k \in 1..m + l |-> st[r[k]]]
    BY <1>7, SelectionIs
  <2>2. QED
    BY <2>1 DEF st
<1>11. /\ a = [k \in 1..m |-> s[p[k]]] /\ IsList(a) /\ Len(a) = m
       /\ b = [k \in 1..l |-> t[q[k]]] /\ IsList(b) /\ Len(b) = l
  BY <1>1, <1>2, <1>3, SelectionIs
<1>12. \A k \in 1..m : c[k] = s[p[k]]
  BY <1>1, <1>4, <1>5, <1>10
<1>13. \A k \in 1..l : c[m + k] = t[q[k]]
  <2>1. SUFFICES ASSUME NEW k \in 1..l PROVE c[m + k] = t[q[k]]
    OBVIOUS
  <2>2. m + k \in 1..m + l /\ m + k \notin 1..m /\ (m + k) - m = k
    BY <1>4
  <2>3. r[m + k] = Len(s) + q[k]
    BY <1>6, <2>2
  <2>4. (s \o t)[Len(s) + q[k]] = t[q[k]]
    BY <1>1, <1>4
  <2>5. QED
    BY <1>10, <2>2, <2>3, <2>4
<1> HIDE DEF a, b, c, r, U
<1>8. IsList(a) /\ Len(a) = m /\ IsList(b) /\ Len(b) = l
  BY <1>11 DEF a, b
<1>14. /\ DOMAIN (a \o b) = 1..m + l /\ IsList(a \o b)
       /\ \A k \in 1..m : (a \o b)[k] = a[k]
       /\ \A k \in 1..l : (a \o b)[m + k] = b[k]
  <2>1. IsList(a) /\ IsList(b)
    BY <1>8
  <2>2. /\ DOMAIN (a \o b) = 1..Len(a) + Len(b) /\ IsList(a \o b)
        /\ \A k \in 1..Len(a) : (a \o b)[k] = a[k]
        /\ \A k \in 1..Len(b) : (a \o b)[Len(a) + k] = b[k]
    BY <2>1, ConcatLists
  <2>3. QED
    BY <1>8, <2>2
<1>15. ASSUME NEW k \in 1..m + l PROVE c[k] = (a \o b)[k]
  <2>1. CASE k \in 1..m
    BY <1>11, <1>12, <1>14, <2>1
  <2>2. CASE k \notin 1..m
    <3>1. k - m \in 1..l /\ m + (k - m) = k
      BY <1>4, <2>2
    <3>2. c[k] = t[q[k - m]] /\ (a \o b)[k] = b[k - m]
      BY <1>13, <1>14, <3>1
    <3>3. QED
      BY <1>11, <3>1, <3>2
  <2>3. QED
    BY <2>1, <2>2
<1>16. a \o b = [k \in 1..m + l |-> (a \o b)[k]]
  BY <1>14, LenProperties DEF IsList
<1>17. c = a \o b
  BY <1>10, <1>15, <1>16
<1>18. QED
  BY <1>17 DEF a, b, c, U, Joined, SelectsBoth

\* What is selected of a list that has grown by one.
LEMMA SelectionOfAppend ==
  ASSUME NEW s, IsList(s), NEW e, NEW S \in SUBSET DOMAIN s
  PROVE  /\ Selection(Append(s, e), S) = Selection(s, S)
         /\ Selection(Append(s, e), S \cup {Len(s) + 1}) = Append(Selection(s, S), e)
<1> DEFINE a == Append(s, e)
<1>1. /\ Len(s) \in Nat /\ DOMAIN s = 1..Len(s)
      /\ \A i \in DOMAIN s : a[i] = s[i]
      /\ a[Len(s) + 1] = e
  BY AppendLists
<1>2. PICK p, m : Enumerates(p, m, S)
  BY <1>1, EnumerationExists
<1>3. /\ m \in Nat /\ \A i \in 1..m : p[i] \in S /\ p[i] \in 1..Len(s)
      /\ \A i, j \in 1..m : i < j => p[i] < p[j]
      /\ \A x \in S : \E i \in 1..m : p[i] = x
  BY <1>1, <1>2 DEF Enumerates
<1> DEFINE t == Selection(s, S)
<1>4. t = [k \in 1..m |-> s[p[k]]] /\ IsList(t) /\ Len(t) = m
  BY <1>2, SelectionIs
<1> HIDE DEF a
<1>5. Selection(a, S) = [k \in 1..m |-> a[p[k]]]
  BY <1>2, SelectionIs
<1>6. Selection(a, S) = t
  BY <1>1, <1>3, <1>4, <1>5
<1> DEFINE U == S \cup {Len(s) + 1}
           q == [k \in 1..m + 1 |-> IF k = m + 1 THEN Len(s) + 1 ELSE p[k]]
<1>7. Enumerates(q, m + 1, U)
  <2>1. U \subseteq Int /\ m + 1 \in Nat
    BY <1>1, <1>3
  <2>2. q \in [1..m + 1 -> U]
    BY <1>3
  <2>3. ASSUME NEW i \in 1..m + 1, NEW j \in 1..m + 1, i < j PROVE q[i] < q[j]
    <3>1. i \in 1..m /\ q[i] = p[i]
      BY <1>3, <2>3
    <3>2. CASE j = m + 1
      BY <1>1, <1>3, <3>1, <3>2
    <3>3. CASE j # m + 1
      <4>1. j \in 1..m /\ q[j] = p[j]
        BY <1>3, <3>3
      <4>2. QED
        BY <1>3, <2>3, <3>1, <4>1
    <3>4. QED
      BY <3>2, <3>3
  <2>4. ASSUME NEW x \in U PROVE \E k \in 1..m + 1 : q[k] = x
    <3>1. CASE x \in S
      <4>1. PICK k \in 1..m : p[k] = x
        BY <1>3, <3>1
      <4>2. k \in 1..m + 1 /\ q[k] = x
        BY <1>3, <4>1
      <4>3. QED
        BY <4>2
    <3>2. CASE x = Len(s) + 1
      <4>1. m + 1 \in 1..m + 1 /\ q[m + 1] = x
        BY <1>3, <3>2
      <4>2. QED
        BY <4>1
    <3>3. QED
      BY <3>1, <3>2
  <2> HIDE DEF U, q
  <2>5. QED
    BY <2>1, <2>2, <2>3, <2>4 DEF Enumerates
<1> DEFINE c == Selection(a, U)
           d == Append(t, e)
<1>8. c = [k \in 1..m + 1 |-> a[q[k]]]
  <2> HIDE DEF U, q
  <2>1. QED
    BY <1>7, SelectionIs
<1>9. /\ DOMAIN d = 1..m + 1 /\ IsList(d)
      /\ \A k \in 1..m : d[k] = t[k]
      /\ d[m + 1] = e
  <2>1. ASSUME NEW f, IsList(f), Len(f) = m, NEW g, g = Append(f, e)
        PROVE  /\ DOMAIN g = 1..m + 1 /\ IsList(g)
               /\ \A k \in 1..m : g[k] = f[k]
               /\ g[m + 1] = e
    <3>1. IsList(g)
      BY <2>1, AppendLists
    <3>2. DOMAIN f = 1..m /\ m \in Nat
      BY <2>1, AppendLists
    <3>3. \A k \in DOMAIN f : g[k] = f[k]
      BY <2>1, AppendLists
    <3>4. g[m + 1] = e
      BY <2>1, AppendLists
    <3>5. DOMAIN g = 1..m + 1
      BY <2>1, AppendLists
    <3>6. QED
      BY <3>1, <3>2, <3>3, <3>4, <3>5
  <2>2. QED
    BY <1>4, <2>1
<1>10. ASSUME NEW k \in 1..m + 1 PROVE c[k] = d[k]
  <2>1. CASE k = m + 1
    BY <1>1, <1>8, <1>9, <2>1
  <2>2. CASE k # m + 1
    <3>1. k \in 1..m /\ q[k] = p[k]
      BY <1>3, <2>2
    <3>2. c[k] = a[p[k]] /\ d[k] = s[p[k]]
      BY <1>4, <1>8, <1>9, <3>1
    <3>3. a[p[k]] = s[p[k]]
      BY <1>1, <1>3, <3>1
    <3>4. QED
      BY <3>2, <3>3
  <2>3. QED
    BY <2>1, <2>2
<1>11. d = [k \in 1..m + 1 |-> d[k]]
  BY <1>9, LenProperties DEF IsList
<1> HIDE DEF c, d, q
<1>12. c = d
  BY <1>8, <1>10, <1>11
<1>13. QED
  BY <1>6, <1>12 DEF a, c, d

\* FlattenSeq puts its lists together from the left.
Flattens(flat, lists, n) ==
    /\ FlattenSeq(lists) = flat[n]
    /\ flat[1] = lists[1]
    /\ \A i \in 2..n : flat[i] = flat[i - 1] \o lists[i]

\* There is such a table of how FlattenSeq gets there, for any list that is not empty.
LEMMA FlattenIs ==
  ASSUME NEW lists, NEW n \in Nat \ {0}, Len(lists) = n
  PROVE  \E flat : Flattens(flat, lists, n)
<1> DEFINE Flat(f, k) ==
             f = [i \in 1..k |-> IF i = 1 THEN lists[i] ELSE f[i - 1] \o lists[i]]
           Bad == {k \in Nat \ {0} : ~\E f : Flat(f, k)}
<1>1. Bad = {}
  <2> HIDE DEF Flat
  <2>1. SUFFICES ASSUME Bad # {} PROVE FALSE
    OBVIOUS
  <2>2. PICK k \in Bad : \A j \in Bad : k <= j
    BY <2>1, LeastNumber
  <2>3. k \in Nat \ {0} /\ ~\E f : Flat(f, k)
    OBVIOUS
  <2>6. k # 1
    <3> DEFINE f == [i \in 1..1 |-> lists[i]]
    <3>1. Flat(f, 1)
      BY DEF Flat
    <3> HIDE DEF f
    <3>2. QED
      BY <2>3, <3>1
  <2>4. k - 1 \in Nat \ {0}
    BY <2>3, <2>6
  <2>7. \E g : Flat(g, k - 1)
    <3>1. k - 1 \notin Bad
      BY <2>2, <2>3, <2>4
    <3>2. QED
      BY <2>4, <3>1
  <2> HIDE DEF Bad
  <2>5. FALSE
    <3>1. k - 1 \in Nat \ {0} /\ k \in Nat \ {0}
      BY <2>3, <2>4
    <3>2. PICK g : Flat(g, k - 1)
      BY <2>7
    <3> DEFINE h == [i \in 1..k - 1 |-> IF i = 1 THEN lists[i] ELSE g[i - 1] \o lists[i]]
               f == [i \in 1..k |-> IF i = k THEN g[k - 1] \o lists[k] ELSE g[i]]
    <3>3. \A i \in 1..k - 1 : g[i] = IF i = 1 THEN lists[i] ELSE g[i - 1] \o lists[i]
      <4>1. g = h
        BY <3>2 DEF Flat
      <4>2. \A i \in 1..k - 1 : h[i] = IF i = 1 THEN lists[i] ELSE g[i - 1] \o lists[i]
        OBVIOUS
      <4> HIDE DEF h
      <4>3. QED
        BY <4>1, <4>2
    <3>4. ASSUME NEW i \in 1..k - 1 PROVE f[i] = g[i]
      <4>1. i \in 1..k /\ i # k
        BY <3>1
      <4>2. QED
        BY <4>1
    <3>5. f[k] = g[k - 1] \o lists[k]
      <4>1. k \in 1..k
        BY <3>1
      <4>2. QED
        BY <4>1
    <3>6. ASSUME NEW i \in 1..k
          PROVE  f[i] = IF i = 1 THEN lists[i] ELSE f[i - 1] \o lists[i]
      <4> HIDE DEF f
      <4>1. CASE i = k
        <5>1. i # 1 /\ k - 1 \in 1..k - 1
          BY <2>6, <3>1, <4>1
        <5>2. f[k - 1] = g[k - 1]
          BY <3>4, <5>1
        <5>3. QED
          BY <3>5, <4>1, <5>1, <5>2
      <4>2. CASE i # k
        <5>1. i \in 1..k - 1 /\ (i # 1 => i - 1 \in 1..k - 1)
          BY <3>1, <4>2
        <5>2. f[i] = g[i] /\ (i # 1 => f[i - 1] = g[i - 1])
          BY <3>4, <5>1
        <5>3. QED
          BY <3>3, <5>1, <5>2
      <4>3. QED
        BY <4>1, <4>2
    <3>7. Flat(f, k)
      <4>1. f = [i \in 1..k |-> f[i]]
        OBVIOUS
      <4> HIDE DEF f
      <4>2. QED
        BY <3>6, <4>1 DEF Flat
    <3> HIDE DEF f
    <3>8. QED
      BY <2>3, <3>7
  <2>8. QED
    BY <2>5
<1>2. \E f : Flat(f, n)
  <2> HIDE DEF Flat
  <2>1. QED
    BY <1>1
<1> DEFINE flat == CHOOSE f : Flat(f, n)
<1>3. Flat(flat, n)
  BY <1>2
<1>4. FlattenSeq(lists) = flat[n]
  BY DEF FlattenSeq
<1> HIDE DEF flat
<1>5. \A i \in 1..n : flat[i] = IF i = 1 THEN lists[i] ELSE flat[i - 1] \o lists[i]
  <2> DEFINE h == [i \in 1..n |-> IF i = 1 THEN lists[i] ELSE flat[i - 1] \o lists[i]]
  <2>1. flat = h
    BY <1>3
  <2>2. \A i \in 1..n : h[i] = IF i = 1 THEN lists[i] ELSE flat[i - 1] \o lists[i]
    OBVIOUS
  <2> HIDE DEF h
  <2>3. QED
    BY <2>1, <2>2
<1>6. flat[1] = lists[1]
  BY <1>5
<1>7. ASSUME NEW i \in 2..n PROVE flat[i] = flat[i - 1] \o lists[i]
  <2>1. i \in 1..n /\ i # 1
    OBVIOUS
  <2>2. QED
    BY <1>5, <2>1
<1>8. QED
  BY <1>4, <1>6, <1>7 DEF Flattens
-----------------------------------------------------------------------------
\* What is reported of one value: nothing, or that the setting name is unfit.
Verdict(errs, name, unfit) ==
    /\ IsList(errs) /\ Len(errs) \in Nat
    /\ ~unfit => errs = <<>>
    /\ unfit => Len(errs) = 1 /\ errs[1].field[1] = name

\* No error at all is the verdict on a setting that is fit.
LEMMA NoErrors ==
  ASSUME NEW name, NEW unfit, ~unfit
  PROVE  Verdict(<<>>, name, unfit)
<1>1. IsList(<<>>) /\ Len(<<>>) \in Nat
  BY DEF IsList
<1>2. QED
  BY <1>1 DEF Verdict

\* One error under its name is the verdict on one that is not.
LEMMA OneError ==
  ASSUME NEW name, NEW unfit, unfit, NEW message, NEW code
  PROVE  Verdict(<<NewValidationError(<<name>>, message, code)>>, name, unfit)
<1> DEFINE e == NewValidationError(<<name>>, message, code)
<1>1. e.field[1] = name
  BY DEF NewValidationError
<1> HIDE DEF e
<1>2. IsList(<<e>>)
  <2>1. <<e>> = [i \in 1..1 |-> <<e>>[i]]
    OBVIOUS
  <2>2. QED
    BY <2>1, ListsItself
<1>3. Len(<<e>>) = 1 /\ <<e>>[1] = e
  OBVIOUS
<1>4. Verdict(<<e>>, name, unfit)
  BY <1>1, <1>2, <1>3 DEF Verdict
<1>5. QED
  BY <1>4 DEF e

\* A schema reports the rules that are broken, under its own field.
LEMMA RuleErrorsAre ==
  ASSUME NEW s, IsList(s.rules), NEW v,
         NEW bad, bad = {i \in DOMAIN s.rules : v \notin s.rules[i].accepts}
  PROVE  /\ Broken(s.rules, v) = Selection(s.rules, bad)
         /\ IsList(Broken(s.rules, v))
         /\ IsList(RuleErrors(s, v))
         /\ DOMAIN RuleErrors(s, v) = DOMAIN Broken(s.rules, v)
         /\ Len(RuleErrors(s, v)) = Len(Broken(s.rules, v))
         /\ \A e \in DOMAIN RuleErrors(s, v) :
              /\ RuleErrors(s, v)[e].field = s.field
              /\ RuleErrors(s, v)[e].message = Message(Broken(s.rules, v)[e], v)
         /\ RuleErrors(s, v) = <<>> <=> bad = {}
<1> DEFINE broken == Broken(s.rules, v)
           errs == RuleErrors(s, v)
<1>1. broken = Selection(s.rules, bad)
  BY DEF Broken
<1>2. Len(s.rules) \in Nat /\ bad \in SUBSET (1..Len(s.rules))
  BY LenProperties DEF IsList
<1>3. IsList(broken) /\ (broken = <<>> <=> bad = {})
  <2>1. ASSUME NEW n \in Nat, NEW S \in SUBSET (1..n), NEW t
        PROVE  IsList(Selection(t, S)) /\ (Selection(t, S) = <<>> <=> S = {})
    BY SelectionElements
  <2> HIDE DEF broken
  <2>2. QED
    BY <1>1, <1>2, <2>1
<1>4. Len(broken) \in Nat /\ DOMAIN broken = 1..Len(broken)
  BY <1>3, LenProperties DEF IsList
<1>5. errs = [i \in DOMAIN broken |->
                NewValidationError(s.field, Message(broken[i], v), "validation_failed")]
  BY DEF RuleErrors
<1>6. \A e \in DOMAIN broken :
        errs[e].field = s.field /\ errs[e].message = Message(broken[e], v)
  BY <1>5 DEF NewValidationError
<1>7. DOMAIN errs = DOMAIN broken /\ errs = [i \in 1..Len(broken) |-> errs[i]]
  BY <1>4, <1>5
<1> HIDE DEF broken, errs
<1>8. IsList(errs)
  BY <1>4, <1>7, ListsItself
<1>9. Len(errs) = Len(broken)
  BY <1>4, <1>7, <1>8, LenProperties DEF IsList
<1>10. errs = <<>> <=> broken = <<>>
  BY <1>3, <1>4, <1>8, <1>9, EmptySeq DEF IsList
<1>11. QED
  BY <1>1, <1>3, <1>6, <1>7, <1>8, <1>9, <1>10 DEF broken, errs

\* If one rule at most is broken, one error at most is reported.
LEMMA OneBroken ==
  ASSUME NEW s, IsList(s.rules), NEW name, s.field = <<name>>, NEW v, NEW unfit,
         unfit <=> \E i \in DOMAIN s.rules : v \notin s.rules[i].accepts,
         \A i, j \in DOMAIN s.rules :
           v \notin s.rules[i].accepts /\ v \notin s.rules[j].accepts => i = j
  PROVE  Verdict(RuleErrors(s, v), name, unfit)
<1> DEFINE bad == {i \in DOMAIN s.rules : v \notin s.rules[i].accepts}
           errs == RuleErrors(s, v)
<1>1. /\ IsList(errs) /\ (errs = <<>> <=> bad = {})
      /\ Len(errs) = Len(Broken(s.rules, v)) /\ Broken(s.rules, v) = Selection(s.rules, bad)
      /\ DOMAIN errs = DOMAIN Broken(s.rules, v)
      /\ \A e \in DOMAIN errs : errs[e].field = s.field
  BY RuleErrorsAre
<1>2. CASE ~unfit
  <2>1. bad = {}
    BY <1>2
  <2>2. errs = <<>>
    BY <1>1, <2>1
  <2>3. QED
    BY <1>2, <2>2, NoErrors
<1>3. CASE unfit
  <2>1. PICK i \in DOMAIN s.rules : bad = {i}
    BY <1>3
  <2>2. i \in Nat \ {0}
    BY LenProperties DEF IsList
  <2>3. Selection(s.rules, bad) = <<s.rules[i]>>
    BY <2>1, <2>2, SelectionOfOne
  <2>4. Len(errs) = 1 /\ DOMAIN errs = {1}
    BY <1>1, <2>3
  <2>5. errs[1].field[1] = name
    BY <1>1, <2>4
  <2> HIDE DEF errs
  <2>6. QED
    BY <1>1, <1>3, <2>4, <2>5 DEF Verdict, errs
<1>4. QED
  BY <1>2, <1>3

\* Sequences of one and two.
LEMMA Few ==
  ASSUME NEW a, NEW b
  PROVE  /\ Append(<<>>, a) = <<a>> /\ Append(<<a>>, b) = <<a, b>>
         /\ IsList(<<a>>) /\ IsList(<<a, b>>)
<1>1. <<>> \in Seq({a, b}) /\ <<a>> \in Seq({a, b}) /\ a \in {a, b} /\ b \in {a, b}
  OBVIOUS
<1>2. /\ <<a>> = [i \in 1..1 |-> <<a>>[i]]
      /\ <<a, b>> = [i \in 1..2 |-> <<a, b>>[i]]
  OBVIOUS
<1>3. IsList(<<a>>) /\ IsList(<<a, b>>)
  BY <1>2, ListsItself
<1>4. Append(<<>>, a) = <<a>>
  BY <1>1
<1>5. Append(<<a>>, b) = <<a, b>>
  <2> DEFINE s == <<a>>
             t == Append(s, b)
  <2>1. s[1] = a /\ Len(s) = 1 /\ DOMAIN s = 1..1
    OBVIOUS
  <2>2. IsList(s)
    BY <1>3
  <2> HIDE DEF s
  <2>3. IsList(t) /\ DOMAIN t = 1..2 /\ t[1] = a /\ t[2] = b
    <3>1. IsList(t)
      BY <2>2, AppendLists
    <3>2. DOMAIN t = 1..Len(s) + 1
      BY <2>2, AppendLists
    <3>3. \A i \in DOMAIN s : t[i] = s[i]
      BY <2>2, AppendLists
    <3>4. t[Len(s) + 1] = b
      BY <2>2, AppendLists
    <3>5. QED
      BY <2>1, <3>1, <3>2, <3>3, <3>4
  <2> HIDE DEF t
  <2>4. t = [i \in 1..2 |-> <<a, b>>[i]]
    <3>1. t = [i \in 1..2 |-> t[i]]
      BY <2>3, LenProperties DEF IsList
    <3>2. \A i \in 1..2 : t[i] = <<a, b>>[i]
      BY <2>3
    <3>3. QED
      BY <3>1, <3>2
  <2>5. t = <<a, b>>
    BY <1>2, <2>4
  <2>6. QED
    BY <2>5 DEF t, s
<1>6. QED
  BY <1>3, <1>4, <1>5

\* A schema with no rule, with one, and with two.
Fresh(s, name) ==
    /\ s.rules = <<>> /\ s.field = <<name>> /\ s.optional = FALSE
    /\ DOMAIN s = {"type", "field", "rules", "optional", "items"}

Single(s, name, acc) ==
    /\ s.field = <<name>> /\ s.optional = FALSE
    /\ DOMAIN s = {"type", "field", "rules", "optional", "items"}
    /\ \E r : s.rules = <<r>> /\ r.accepts = acc
    /\ IsList(s.rules) /\ DOMAIN s.rules = {1} /\ s.rules[1].accepts = acc

Double(s, name, acc, also) ==
    /\ s.field = <<name>> /\ IsList(s.rules) /\ DOMAIN s.rules = {1, 2}
    /\ s.rules[1].accepts = acc /\ s.rules[2].accepts = also

\* A new schema has no rule.
LEMMA NewSchemaIs ==
  ASSUME NEW type, NEW name
  PROVE  Fresh(Schema(type, <<name>>), name)
BY DEF Schema, Fresh

\* After one addRule it has one.
LEMMA OneRule ==
  ASSUME NEW s, NEW name, Fresh(s, name), NEW m, NEW acc, NEW one, one = addRule(s, m, acc)
  PROVE  Single(one, name, acc)
<1> DEFINE r == [message |-> m, accepts |-> acc, aliased |-> FALSE]
<1>1. /\ one.rules = Append(<<>>, r) /\ one.field = <<name>> /\ one.optional = FALSE
      /\ DOMAIN one = {"type", "field", "rules", "optional", "items"}
  BY DEF addRule, Fresh
<1>2. r.accepts = acc
  OBVIOUS
<1> HIDE DEF r
<1>3. one.rules = <<r>> /\ IsList(one.rules)
  BY <1>1, Few
<1>4. DOMAIN one.rules = {1} /\ one.rules[1] = r
  BY <1>3
<1>5. QED
  BY <1>1, <1>2, <1>3, <1>4 DEF Single

\* After two it has both, in the order of the calls.
LEMMA TwoRules ==
  ASSUME NEW s, NEW name, Fresh(s, name), NEW m, NEW acc, NEW n, NEW also,
         NEW two, two = addRule(addRule(s, m, acc), n, also)
  PROVE  Double(two, name, acc, also)
<1> DEFINE one == addRule(s, m, acc)
           q == [message |-> n, accepts |-> also, aliased |-> FALSE]
<1>0. one = addRule(s, m, acc) /\ two = addRule(one, n, also)
  OBVIOUS
<1> HIDE DEF one
<1>5. Single(one, name, acc)
  BY <1>0, OneRule
<1>1. /\ one.field = <<name>> /\ DOMAIN one = {"type", "field", "rules", "optional", "items"}
      /\ \E r : one.rules = <<r>> /\ r.accepts = acc
  BY <1>5 DEF Single
<1>2. two.rules = Append(one.rules, q) /\ two.field = <<name>>
  BY <1>0, <1>1 DEF addRule
<1>3. q.accepts = also
  OBVIOUS
<1> HIDE DEF q
<1>4. PICK r : one.rules = <<r>> /\ r.accepts = acc
  BY <1>1
<1>6. two.rules = <<r, q>> /\ IsList(two.rules)
  BY <1>2, <1>4, Few
<1>7. DOMAIN two.rules = {1, 2} /\ two.rules[1] = r /\ two.rules[2] = q
  BY <1>6
<1>8. QED
  BY <1>2, <1>3, <1>4, <1>6, <1>7 DEF Double

\* So what those report of a string that must be there.
LEMMA StringVerdict ==
  ASSUME NEW s, s.optional = FALSE, NEW name, s.field = <<name>>, NEW w, NEW unfit,
         NEW bad, Verdict(RuleErrors(s, w), name, bad), unfit <=> (w \in Blank \/ bad)
  PROVE  /\ Verdict(StringValidateAll(s, w), name, unfit)
         /\ DOMAIN s = {"type", "field", "rules", "optional", "items"} =>
              Verdict(StringValidateAll(Required(s), w), name, unfit)
<1>1. ASSUME NEW t, t.optional = FALSE, t.field = <<name>>, t.rules = s.rules
      PROVE  Verdict(StringValidateAll(t, w), name, unfit)
  <2>1. CASE w \in Blank
    <3>1. StringValidateAll(t, w) = <<NewValidationError(<<name>>, <<"Required">>, "required")>>
      BY <1>1, <2>1 DEF StringValidateAll, executeRules
    <3>2. QED
      BY <2>1, <3>1, OneError
  <2>2. CASE w \notin Blank
    <3>1. StringValidateAll(t, w) = RuleErrors(s, w)
      BY <1>1, <2>2 DEF StringValidateAll, executeRules, RuleErrors
    <3>2. QED
      BY <2>2, <3>1 DEF Verdict
  <2>3. QED
    BY <2>1, <2>2
<1>2. DOMAIN s = {"type", "field", "rules", "optional", "items"} =>
        Required(s).optional = FALSE /\ Required(s).field = <<name>> /\ Required(s).rules = s.rules
  BY DEF Required
<1>3. QED
  BY <1>1, <1>2

\* The two schemas that Load uses for strings: with one rule, and with none.
LEMMA StringOneRule ==
  ASSUME NEW name, NEW m, NEW acc, NEW w, NEW unfit, unfit <=> (w \in Blank \/ w \notin acc)
  PROVE  /\ Verdict(StringValidateAll(addRule(StringSchema(<<name>>), m, acc), w), name, unfit)
         /\ Verdict(StringValidateAll(Required(addRule(StringSchema(<<name>>), m, acc)), w), name, unfit)
<1> DEFINE new == Schema("string", <<name>>)
           s == addRule(new, m, acc)
<1>0. s = addRule(new, m, acc) /\ Fresh(new, name)
  BY NewSchemaIs
<1> HIDE DEF s, new
<1>5. Single(s, name, acc)
  BY <1>0, OneRule
<1>1. /\ s.field = <<name>> /\ s.optional = FALSE
      /\ IsList(s.rules) /\ DOMAIN s.rules = {1} /\ s.rules[1].accepts = acc
  BY <1>5 DEF Single
<1>2. DOMAIN s = {"type", "field", "rules", "optional", "items"}
  BY <1>5 DEF Single
<1>3. Verdict(RuleErrors(s, w), name, w \notin acc)
  <2>1. w \notin acc <=> \E i \in DOMAIN s.rules : w \notin s.rules[i].accepts
    BY <1>1
  <2>2. QED
    BY <1>1, <2>1, OneBroken
<1>4. Verdict(StringValidateAll(s, w), name, unfit) /\ Verdict(StringValidateAll(Required(s), w), name, unfit)
  BY <1>1, <1>2, <1>3, StringVerdict
<1>6. QED
  BY <1>4 DEF s, new, StringSchema

\* A required string without a rule refuses only what is blank.
LEMMA StringNoRule ==
  ASSUME NEW name, NEW w, NEW unfit, unfit <=> w \in Blank
  PROVE  Verdict(StringValidateAll(Required(StringSchema(<<name>>)), w), name, unfit)
<1> DEFINE s == Schema("string", <<name>>)
<1>1. /\ s.rules = <<>> /\ s.field = <<name>> /\ s.optional = FALSE
      /\ DOMAIN s = {"type", "field", "rules", "optional", "items"}
  BY NewSchemaIs DEF Fresh
<1> HIDE DEF s
<1>2. IsList(s.rules) /\ DOMAIN s.rules = {}
  BY <1>1 DEF IsList
<1>3. Verdict(RuleErrors(s, w), name, FALSE)
  BY <1>1, <1>2, OneBroken
<1>4. Verdict(StringValidateAll(Required(s), w), name, unfit)
  BY <1>1, <1>3, StringVerdict
<1>5. QED
  BY <1>4 DEF s, StringSchema

-----------------------------------------------------------------------------
\* Unfit, setting by setting.
LEMMA UnfitOf ==
  ASSUME NEW env
  PROVE  /\ Unfit(env, "HTTP_PORT") <=> UnfitPort(env["HTTP_PORT"])
         /\ Unfit(env, "GRPC_PORT") <=> UnfitPort(env["GRPC_PORT"])
         /\ Unfit(env, "ACCESS_SIGNING_KEY") <=> env["ACCESS_SIGNING_KEY"] \in Blank
         /\ Unfit(env, "ACCESS_PUBLIC_KEY") <=> env["ACCESS_PUBLIC_KEY"] \in Blank
         /\ Unfit(env, "PUBLIC_APP_URL") <=> env["PUBLIC_APP_URL"] \in Blank \ {""}
         /\ Unfit(env, "LOG_LEVEL") <=> env["LOG_LEVEL"] \notin {"", "debug", "info", "warn", "error"}
         /\ Unfit(env, "ENVIRONMENT")
              <=> env["ENVIRONMENT"] \notin {"", "development", "production", "staging"}
         /\ Unfit(env, "REDIS_URL") <=> UnfitURL(env["REDIS_URL"], {"redis", "rediss"}, FALSE)
         /\ Unfit(env, "RABBITMQ_URL") <=> UnfitURL(env["RABBITMQ_URL"], {"amqp", "amqps"}, TRUE)
         /\ Unfit(env, "DATABASE_URL") <=> UnfitDatabase(env["DATABASE_URL"])
         /\ Unfit(env, "ACCOUNTS_URL") <=> UnfitAddress(env["ACCOUNTS_URL"])
         /\ \A name \in {"RESEND_API_KEY", "MAIL_FROM"} :
              Unfit(env, name) <=> env[name] = "" /\ env["ENVIRONMENT"] \notin {"", "development"}
BY DEF Unfit

\* The largest port, and that the fallbacks are no larger.
LEMMA PortRange == MaxPort \in Int /\ 1 < MaxPort /\ 9090 \in 1..MaxPort /\ 50051 \in 1..MaxPort
<1>1. MaxPort \in Int /\ 1 < MaxPort /\ 9090 <= MaxPort /\ 50051 <= MaxPort
  BY DEF MaxPort
<1>2. QED
  BY <1>1

\* A port: what is no integer is reported, and an integer out of range is, once.
LEMMA PortVerdict ==
  ASSUME NEW env, NEW name, env[name] \in Word, NEW fallback \in {"9090", "50051"}, NEW unfit,
         unfit <=> UnfitPort(env[name])
  PROVE  Verdict(portField(env, name, fallback), name, unfit)
<1> DEFINE raw == Env(env, name, fallback)
           n == IntOf[raw]
<1>1. /\ raw \in Word /\ (unfit <=> n \notin 1..MaxPort)
      /\ n \in Number \cup {Unparsed} /\ Unparsed \notin Int /\ Number \subseteq Int
  <2>1. fallback \in Word /\ IntOf[fallback] \in 1..MaxPort
    BY PortsAssumption, PortRange DEF PortsAssumption
  <2>2. raw \in Word /\ (env[name] # "" => raw = env[name]) /\ (env[name] = "" => raw = fallback)
    BY <2>1 DEF Env
  <2>3. unfit <=> n \notin 1..MaxPort
    BY <2>1, <2>2 DEF UnfitPort
  <2> HIDE DEF raw
  <2>4. n \in Number \cup {Unparsed} /\ Unparsed \notin Int /\ Number \subseteq Int
    BY <2>2, ValidateAssumption DEF ValidateAssumption
  <2>5. QED
    BY <2>2, <2>3, <2>4
<1>2. /\ IntParseString(raw).failed <=> n = Unparsed
      /\ n # Unparsed => IntParseString(raw).value = n
  BY DEF IntParseString
<1> DEFINE new == IntSchema(<<name>>)
           two == IntMax(IntMin(new, 1), MaxPort)
<1>3. portField(env, name, fallback) =
        IF n = Unparsed THEN <<NewValidationError(<<name>>, <<"parse">>, "parse")>> ELSE RuleErrors(two, n)
  BY <1>2 DEF portField, IntValidateAll
<1>4. CASE n = Unparsed
  <2>1. unfit
    BY <1>1, <1>4
  <2>2. QED
    BY <1>3, <1>4, <2>1, OneError
<1>5. CASE n # Unparsed
  <2> DEFINE low == {x \in Number : x >= 1}
             high == {x \in Number : x <= MaxPort}
  <2>1. n \in Number /\ n \in Int /\ (n \in low <=> n >= 1) /\ (n \in high <=> n <= MaxPort)
    BY <1>1, <1>5
  <2>2. unfit <=> ~(n >= 1 /\ n <= MaxPort)
    BY <1>1, <2>1, PortRange
  <2>3. ~(n < 1 /\ n > MaxPort)
    BY <2>1, PortRange
  <2>4. Fresh(new, name)
    BY NewSchemaIs DEF IntSchema
  <2>5. two = addRule(addRule(new, <<"Min", 1>>, low), <<"Max", MaxPort>>, high)
    BY DEF IntMax, IntMin
  <2> HIDE DEF two, new, low, high, n
  <2>6. Double(two, name, low, high)
    BY <2>4, <2>5, TwoRules
  <2>7. /\ two.field = <<name>> /\ IsList(two.rules) /\ DOMAIN two.rules = {1, 2}
        /\ n \in two.rules[1].accepts <=> n >= 1
        /\ n \in two.rules[2].accepts <=> n <= MaxPort
    BY <2>1, <2>6 DEF Double
  <2>8. unfit <=> \E i \in DOMAIN two.rules : n \notin two.rules[i].accepts
    BY <2>2, <2>7
  <2>9. \A i, j \in DOMAIN two.rules :
          n \notin two.rules[i].accepts /\ n \notin two.rules[j].accepts => i = j
    BY <2>1, <2>3, <2>7, PortRange
  <2>10. Verdict(RuleErrors(two, n), name, unfit)
    BY <2>7, <2>8, <2>9, OneBroken
  <2>11. QED
    BY <1>3, <1>5, <2>10
<1>6. QED
  BY <1>4, <1>5

\* The fallbacks and the words of OneOf.
LEMMA KnownWords ==
  /\ "" \in Blank /\ Blank \subseteq Word
  /\ "http://localhost:3000" \notin Blank
  /\ \A w \in {"debug", "info", "warn", "error"} : w \notin Blank
  /\ \A w \in {"development", "production", "staging"} : w \notin Blank
<1>1. "" \in Blank /\ Blank \subseteq Word
  BY ValidateAssumption DEF ValidateAssumption
<1>2. {"debug", "info", "warn", "error", "development", "production", "staging",
        "http://localhost:3000", "http://accounts:9090", "redis://valkey:6379",
        DefaultRabbitMQ, DefaultDatabase} \subseteq Word \ Blank
  BY WordsAssumption DEF WordsAssumption
<1>3. QED
  BY <1>1, <1>2

\* What an accepted URL is, whatever the schemes, and with or without a login.
LEMMA URLVerdict ==
  ASSUME NEW w \in Word, w # "", NEW schemes, NEW credentials, NEW acc,
         \A u \in Word : u \in acc <=>
           /\ URLOf[u] # Unparsed /\ URLOf[u].scheme \in schemes /\ URLOf[u].host
           /\ credentials => URLOf[u].user # "none" /\ URLOf[u].password
  PROVE  UnfitURL(w, schemes, credentials) <=> w \in Blank \/ w \notin acc
<1>1. w \in Blank => w \notin acc
  BY BlankAssumption DEF BlankAssumption
<1>2. QED
  BY <1>1 DEF UnfitURL

\* Each setting that is a string: its rule, and its fallback.
LEMMA KeyVerdict ==
  ASSUME NEW env, NEW name \in {"ACCESS_SIGNING_KEY", "ACCESS_PUBLIC_KEY"}
  PROVE  Verdict(StringValidateAll(Required(StringSchema(<<name>>)), Env(env, name, "")),
                 name, Unfit(env, name))
<1>1. Unfit(env, name) <=> Env(env, name, "") \in Blank
  BY UnfitOf, KnownWords DEF Env
<1>2. QED
  BY <1>1, StringNoRule

\* PUBLIC_APP_URL: refused when it is blank, whatever it says otherwise.
LEMMA PublicURLVerdict ==
  ASSUME NEW env
  PROVE  Verdict(StringValidateAll(Required(StringSchema(<<"PUBLIC_APP_URL">>)),
                                   Env(env, "PUBLIC_APP_URL", "http://localhost:3000")),
                 "PUBLIC_APP_URL", Unfit(env, "PUBLIC_APP_URL"))
<1> DEFINE w == Env(env, "PUBLIC_APP_URL", "http://localhost:3000")
<1>1. Unfit(env, "PUBLIC_APP_URL") <=> w \in Blank
  BY UnfitOf, KnownWords DEF Env
<1> HIDE DEF w
<1>2. QED
  BY <1>1, StringNoRule DEF w

\* LOG_LEVEL and ENVIRONMENT: refused outside the words OneOf names.
LEMMA ChoiceVerdict ==
  ASSUME NEW env, NEW name, NEW fallback, NEW acc,
         \/ /\ name = "LOG_LEVEL" /\ fallback = "debug"
            /\ acc = {"debug", "info", "warn", "error"}
         \/ /\ name = "ENVIRONMENT" /\ fallback = "development"
            /\ acc = {"development", "production", "staging"}
  PROVE  Verdict(StringValidateAll(StringOneOf(StringSchema(<<name>>), acc), Env(env, name, fallback)),
                 name, Unfit(env, name))
<1> DEFINE w == Env(env, name, fallback)
<1>1. Unfit(env, name) <=> w \notin acc
  BY UnfitOf DEF Env
<1>2. w \in Blank => w \notin acc
  BY KnownWords
<1> HIDE DEF w
<1>3. Unfit(env, name) <=> w \in Blank \/ w \notin acc
  BY <1>1, <1>2
<1>4. Verdict(StringValidateAll(addRule(StringSchema(<<name>>), <<"OneOf", acc>>, acc), w),
              name, Unfit(env, name))
  BY <1>3, StringOneRule
<1>5. QED
  BY <1>4 DEF StringOneOf, w

\* REDIS_URL: refused unless it parses, with scheme redis or rediss and a host.
LEMMA RedisVerdict ==
  ASSUME NEW env, env["REDIS_URL"] \in Word
  PROVE  Verdict(StringValidateAll(RedisURL(StringSchema(<<"REDIS_URL">>)),
                                   Env(env, "REDIS_URL", "redis://valkey:6379")),
                 "REDIS_URL", Unfit(env, "REDIS_URL"))
<1> DEFINE w == Env(env, "REDIS_URL", "redis://valkey:6379")
           schemes == {"redis", "rediss"}
           acc == {u \in URLs : URLOf[u].scheme \in schemes /\ URLOf[u].host}
<1>1. w \in Word /\ w # "" /\ (Unfit(env, "REDIS_URL") <=> UnfitURL(w, schemes, FALSE))
  <2>1. "redis://valkey:6379" \in Word
    BY WordsAssumption DEF WordsAssumption
  <2>2. ~UnfitURL("redis://valkey:6379", schemes, FALSE)
    BY FallbackURLsAssumption DEF FallbackURLsAssumption, UnfitURL
  <2>3. UnfitURL("", schemes, FALSE) = FALSE
    BY DEF UnfitURL
  <2>4. QED
    BY <2>1, <2>2, <2>3, UnfitOf DEF Env
<1>2. \A u \in Word : u \in acc <=>
        /\ URLOf[u] # Unparsed /\ URLOf[u].scheme \in schemes /\ URLOf[u].host
        /\ FALSE => URLOf[u].user # "none" /\ URLOf[u].password
  BY DEF URLs
<1> HIDE DEF w, acc, schemes
<1>3. Unfit(env, "REDIS_URL") <=> w \in Blank \/ w \notin acc
  BY <1>1, <1>2, URLVerdict
<1>4. Verdict(StringValidateAll(addRule(StringSchema(<<"REDIS_URL">>), <<"RedisURL">>, acc), w),
              "REDIS_URL", Unfit(env, "REDIS_URL"))
  BY <1>3, StringOneRule
<1>5. QED
  BY <1>4 DEF RedisURL, w, acc, schemes

\* RABBITMQ_URL: refused unless it parses, with scheme amqp or amqps, a host and a user.
LEMMA RabbitMQVerdict ==
  ASSUME NEW env, env["RABBITMQ_URL"] \in Word
  PROVE  Verdict(StringValidateAll(RabbitMQURL(StringSchema(<<"RABBITMQ_URL">>)),
                                   Env(env, "RABBITMQ_URL", DefaultRabbitMQ)),
                 "RABBITMQ_URL", Unfit(env, "RABBITMQ_URL"))
<1> DEFINE w == Env(env, "RABBITMQ_URL", DefaultRabbitMQ)
           schemes == {"amqp", "amqps"}
           acc == {u \in URLs : /\ URLOf[u].scheme \in schemes
                                /\ URLOf[u].host
                                /\ URLOf[u].user # "none" /\ URLOf[u].password}
<1>1. w \in Word /\ w # "" /\ (Unfit(env, "RABBITMQ_URL") <=> UnfitURL(w, schemes, TRUE))
  <2>1. DefaultRabbitMQ \in Word /\ DefaultRabbitMQ # ""
    BY WordsAssumption, KnownWords DEF WordsAssumption
  <2>2. ~UnfitURL(DefaultRabbitMQ, schemes, TRUE)
    BY FallbackURLsAssumption DEF FallbackURLsAssumption, UnfitURL
  <2>3. UnfitURL("", schemes, TRUE) = FALSE
    BY DEF UnfitURL
  <2>4. QED
    BY <2>1, <2>2, <2>3, UnfitOf DEF Env
<1>2. \A u \in Word : u \in acc <=>
        /\ URLOf[u] # Unparsed /\ URLOf[u].scheme \in schemes /\ URLOf[u].host
        /\ TRUE => URLOf[u].user # "none" /\ URLOf[u].password
  BY DEF URLs
<1> HIDE DEF w, acc, schemes
<1>3. Unfit(env, "RABBITMQ_URL") <=> w \in Blank \/ w \notin acc
  BY <1>1, <1>2, URLVerdict
<1>4. Verdict(StringValidateAll(addRule(StringSchema(<<"RABBITMQ_URL">>), <<"RabbitMQURL">>, acc), w),
              "RABBITMQ_URL", Unfit(env, "RABBITMQ_URL"))
  BY <1>3, StringOneRule
<1>5. QED
  BY <1>4 DEF RabbitMQURL, w, acc, schemes

\* DATABASE_URL: refused unless it parses, with a scheme of Postgres, a host and a user.
LEMMA DatabaseVerdict ==
  ASSUME NEW env, env["DATABASE_URL"] \in Word
  PROVE  Verdict(StringValidateAll(PostgresURL(StringSchema(<<"DATABASE_URL">>)),
                                   Env(env, "DATABASE_URL", DefaultDatabase)),
                 "DATABASE_URL", Unfit(env, "DATABASE_URL"))
<1> DEFINE w == Env(env, "DATABASE_URL", DefaultDatabase)
           schemes == {"postgres", "postgresql"}
           acc == {u \in URLs : /\ URLOf[u].scheme \in schemes
                                /\ URLOf[u].host
                                /\ URLOf[u].user # "none" /\ URLOf[u].password
                                /\ URLOf[u].database}
<1>1. w \in Word /\ w # "" /\ (Unfit(env, "DATABASE_URL") <=> UnfitDatabase(w))
  <2>1. DefaultDatabase \in Word /\ DefaultDatabase # ""
    BY WordsAssumption, KnownWords DEF WordsAssumption
  <2>2. ~UnfitDatabase(DefaultDatabase)
    BY FallbackURLsAssumption DEF FallbackURLsAssumption
  <2>3. UnfitDatabase("") = FALSE
    BY DEF UnfitDatabase, UnfitURL
  <2>4. QED
    BY <2>1, <2>2, <2>3, UnfitOf DEF Env
<1>2. w \in Blank => w \notin acc
  BY BlankAssumption DEF BlankAssumption, URLs
<1>3. UnfitDatabase(w) <=> w \notin acc
  BY <1>1 DEF UnfitDatabase, UnfitURL, URLs
<1> HIDE DEF w, acc
<1>4. Unfit(env, "DATABASE_URL") <=> w \in Blank \/ w \notin acc
  BY <1>1, <1>2, <1>3
<1>5. Verdict(StringValidateAll(addRule(StringSchema(<<"DATABASE_URL">>), <<"PostgresURL">>, acc), w),
              "DATABASE_URL", Unfit(env, "DATABASE_URL"))
  BY <1>4, StringOneRule
<1>6. QED
  BY <1>5 DEF PostgresURL, w, acc

\* ACCOUNTS_URL: refused unless it parses, with any scheme and a host.
LEMMA AddressVerdict ==
  ASSUME NEW env, env["ACCOUNTS_URL"] \in Word
  PROVE  Verdict(StringValidateAll(Required(StringURL(StringSchema(<<"ACCOUNTS_URL">>))),
                                   Env(env, "ACCOUNTS_URL", "http://accounts:9090")),
                 "ACCOUNTS_URL", Unfit(env, "ACCOUNTS_URL"))
<1> DEFINE w == Env(env, "ACCOUNTS_URL", "http://accounts:9090")
           acc == {u \in URLs : URLOf[u].scheme # "" /\ URLOf[u].host}
<1>1. w \in Word /\ w # "" /\ (Unfit(env, "ACCOUNTS_URL") <=> UnfitAddress(w))
  <2>1. "http://accounts:9090" \in Word
    BY WordsAssumption DEF WordsAssumption
  <2>2. ~UnfitAddress("http://accounts:9090")
    BY FallbackURLsAssumption DEF FallbackURLsAssumption
  <2>3. UnfitAddress("") = FALSE
    BY DEF UnfitAddress
  <2>4. QED
    BY <2>1, <2>2, <2>3, UnfitOf DEF Env
<1>2. w \in Blank => w \notin acc
  BY BlankAssumption DEF BlankAssumption, URLs
<1>3. UnfitAddress(w) <=> w \notin acc
  BY <1>1 DEF UnfitAddress, URLs
<1> HIDE DEF w, acc
<1>4. Unfit(env, "ACCOUNTS_URL") <=> w \in Blank \/ w \notin acc
  BY <1>1, <1>2, <1>3
<1>5. Verdict(StringValidateAll(Required(addRule(StringSchema(<<"ACCOUNTS_URL">>), <<"URL">>, acc)), w),
              "ACCOUNTS_URL", Unfit(env, "ACCOUNTS_URL"))
  BY <1>4, StringOneRule
<1>6. QED
  BY <1>5 DEF StringURL, w, acc

-----------------------------------------------------------------------------
\* errs name the unfit settings among names, each once and in their order.
Fields(errs) == [i \in DOMAIN errs |-> errs[i].field[1]]

UnfitAt(names, env) == {i \in DOMAIN names : Unfit(env, names[i])}

Reports(errs, names, env) ==
    IsList(errs) /\ Fields(errs) = Selection(names, UnfitAt(names, env))

\* One setting is reported.
LEMMA ReportsOne ==
  ASSUME NEW env, NEW name, NEW errs, Verdict(errs, name, Unfit(env, name))
  PROVE  Reports(errs, <<name>>, env)
<1> DEFINE names == <<name>>
           bad == UnfitAt(names, env)
<1>1. DOMAIN names = {1} /\ names[1] = name
  OBVIOUS
<1>2. bad \in SUBSET (1..1) /\ (Unfit(env, name) => bad = {1}) /\ (~Unfit(env, name) => bad = {})
  BY <1>1 DEF UnfitAt
<1>3. IsList(errs) /\ Len(errs) \in Nat
  BY DEF Verdict
<1>4. DOMAIN errs = 1..Len(errs)
  BY <1>3, LenProperties DEF IsList
<1> HIDE DEF names, bad
<1>5. CASE Unfit(env, name)
  <2>1. Selection(names, bad) = <<name>>
    BY <1>1, <1>2, <1>5, SelectionOfOne
  <2>2. Len(errs) = 1 /\ errs[1].field[1] = name
    BY <1>5 DEF Verdict
  <2>3. DOMAIN errs = 1..1
    BY <1>4, <2>2
  <2>4. Fields(errs) = [i \in 1..1 |-> name]
    BY <2>2, <2>3 DEF Fields
  <2>5. Fields(errs) = <<name>>
    BY <2>4
  <2>6. QED
    BY <1>3, <2>1, <2>5 DEF Reports, names, bad
<1>6. CASE ~Unfit(env, name)
  <2>1. ASSUME NEW n \in Nat, NEW S \in SUBSET (1..n), NEW s, S = {} PROVE Selection(s, S) = <<>>
    BY <2>1, SelectionElements
  <2>2. Selection(names, bad) = <<>>
    BY <1>2, <1>6, <2>1
  <2>3. errs = <<>>
    BY <1>6 DEF Verdict
  <2>4. Fields(errs) = <<>>
    BY <2>3 DEF Fields
  <2>5. QED
    BY <1>3, <2>2, <2>4 DEF Reports, names, bad
<1>7. QED
  BY <1>5, <1>6

\* Two lists of settings are reported one after the other.
LEMMA ReportsBoth ==
  ASSUME NEW env, NEW m, IsList(m), NEW n, IsList(n),
         NEW a, Reports(a, m, env), NEW b, Reports(b, n, env)
  PROVE  Reports(a \o b, m \o n, env) /\ IsList(m \o n)
<1> DEFINE S == UnfitAt(m, env)
           T == UnfitAt(n, env)
           mn == m \o n
           ab == a \o b
           fa == Fields(a)
           fb == Fields(b)
<1>1. /\ IsList(mn) /\ Len(m) \in Nat /\ Len(n) \in Nat
      /\ DOMAIN m = 1..Len(m) /\ DOMAIN n = 1..Len(n)
      /\ DOMAIN mn = 1..Len(m) + Len(n)
      /\ \A i \in 1..Len(m) : mn[i] = m[i]
      /\ \A j \in 1..Len(n) : mn[Len(m) + j] = n[j]
  BY ConcatLists
<1>2. IsList(a) /\ IsList(b) /\ fa = Selection(m, S) /\ fb = Selection(n, T)
  BY DEF Reports
<1>3. /\ IsList(ab) /\ Len(a) \in Nat /\ Len(b) \in Nat
      /\ DOMAIN a = 1..Len(a) /\ DOMAIN b = 1..Len(b)
      /\ DOMAIN ab = 1..Len(a) + Len(b)
      /\ \A i \in 1..Len(a) : ab[i] = a[i]
      /\ \A j \in 1..Len(b) : ab[Len(a) + j] = b[j]
  BY <1>2, ConcatLists
<1>4. UnfitAt(mn, env) = S \cup {Len(m) + j : j \in T}
  <2> HIDE DEF mn
  <2>1. ASSUME NEW i \in UnfitAt(mn, env) PROVE i \in S \cup {Len(m) + j : j \in T}
    <3>1. i \in 1..Len(m) + Len(n) /\ Unfit(env, mn[i])
      BY <1>1, <2>1 DEF UnfitAt
    <3>2. CASE i \in 1..Len(m)
      BY <1>1, <3>1, <3>2 DEF UnfitAt
    <3>3. CASE i \notin 1..Len(m)
      <4>1. i - Len(m) \in 1..Len(n) /\ i = Len(m) + (i - Len(m))
        BY <1>1, <3>1, <3>3
      <4>2. mn[i] = n[i - Len(m)]
        BY <1>1, <4>1
      <4>3. i - Len(m) \in T
        BY <1>1, <3>1, <4>1, <4>2 DEF UnfitAt
      <4>4. QED
        BY <4>1, <4>3
    <3>4. QED
      BY <3>2, <3>3
  <2>2. ASSUME NEW i \in S PROVE i \in UnfitAt(mn, env)
    BY <1>1, <2>2 DEF UnfitAt
  <2>3. ASSUME NEW j \in T PROVE Len(m) + j \in UnfitAt(mn, env)
    <3>1. j \in 1..Len(n) /\ Unfit(env, n[j]) /\ mn[Len(m) + j] = n[j]
      BY <1>1, <2>3 DEF UnfitAt
    <3>2. Len(m) + j \in 1..Len(m) + Len(n)
      BY <1>1, <3>1
    <3>3. QED
      BY <1>1, <3>1, <3>2 DEF UnfitAt
  <2>4. QED
    BY <2>1, <2>2, <2>3
<1>5. Selection(mn, UnfitAt(mn, env)) = fa \o fb
  <2>1. S \in SUBSET DOMAIN m /\ T \in SUBSET DOMAIN n
    BY DEF UnfitAt
  <2> HIDE DEF S, T
  <2>2. Selection(m \o n, Joined(S, Len(m), T)) = Selection(m, S) \o Selection(n, T)
    <3>1. SelectsBoth(m, n, S, T)
      BY <2>1, SelectionOfConcat
    <3>2. QED
      BY <3>1 DEF SelectsBoth
  <2>3. QED
    BY <1>2, <1>4, <2>2 DEF Joined
<1> HIDE DEF ab, mn, S, T
<1>6. /\ DOMAIN fa = 1..Len(a) /\ fa = [i \in 1..Len(a) |-> fa[i]]
      /\ DOMAIN fb = 1..Len(b) /\ fb = [i \in 1..Len(b) |-> fb[i]]
      /\ \A i \in 1..Len(a) : fa[i] = a[i].field[1]
      /\ \A i \in 1..Len(b) : fb[i] = b[i].field[1]
  BY <1>3 DEF Fields
<1> HIDE DEF fa, fb
<1>7. IsList(fa) /\ IsList(fb)
  BY <1>3, <1>6, ListsItself
<1>8. Len(fa) = Len(a) /\ Len(fb) = Len(b)
  BY <1>3, <1>6, <1>7, LenProperties DEF IsList
<1> DEFINE fafb == fa \o fb
<1>9. /\ IsList(fafb) /\ DOMAIN fafb = 1..Len(a) + Len(b)
      /\ \A i \in 1..Len(a) : fafb[i] = fa[i]
      /\ \A j \in 1..Len(b) : fafb[Len(a) + j] = fb[j]
  <2>1. /\ IsList(fafb) /\ DOMAIN fafb = 1..Len(fa) + Len(fb)
        /\ \A i \in 1..Len(fa) : fafb[i] = fa[i]
        /\ \A j \in 1..Len(fb) : fafb[Len(fa) + j] = fb[j]
    BY <1>7, ConcatLists
  <2>2. QED
    BY <1>8, <2>1
<1> HIDE DEF fafb
<1>10. ASSUME NEW k \in 1..Len(a) + Len(b) PROVE ab[k].field[1] = fafb[k]
  <2>1. CASE k \in 1..Len(a)
    BY <1>3, <1>6, <1>9, <2>1
  <2>2. CASE k \notin 1..Len(a)
    <3>1. k - Len(a) \in 1..Len(b) /\ Len(a) + (k - Len(a)) = k
      BY <1>3, <2>2
    <3>2. ab[k] = b[k - Len(a)] /\ fafb[k] = fb[k - Len(a)]
      BY <1>3, <1>9, <3>1
    <3>3. QED
      BY <1>6, <3>1, <3>2
  <2>3. QED
    BY <2>1, <2>2
<1>11. fafb = [k \in 1..Len(a) + Len(b) |-> fafb[k]]
  BY <1>9, LenProperties DEF IsList
<1>12. Fields(ab) = fafb
  BY <1>3, <1>10, <1>11 DEF Fields
<1>13. QED
  BY <1>1, <1>3, <1>5, <1>12 DEF Reports, ab, mn, fafb

\* So are several.
ReportsEach(lists, names, env, n) ==
    /\ Len(lists) = n
    /\ names = [i \in 1..n |-> names[i]]
    /\ \A i \in 1..n : Reports(lists[i], <<names[i]>>, env)

\* ValidateStruct reports the broken ones of all the settings, in their order.
LEMMA ReportsAll ==
  ASSUME NEW env, NEW n \in Nat \ {0}, NEW lists, NEW names,
         ReportsEach(lists, names, env, n)
  PROVE  Reports(ValidateStruct(lists), names, env) /\ IsList(names)
<1> USE DEF ReportsEach
<1>0. PICK flat : Flattens(flat, lists, n)
  BY FlattenIs
<1>1. /\ FlattenSeq(lists) = flat[n]
      /\ flat[1] = lists[1]
      /\ \A i \in 2..n : flat[i] = flat[i - 1] \o lists[i]
  BY <1>0 DEF Flattens
<1> DEFINE Head1(k) == [i \in 1..k |-> names[i]]
           Bad == {k \in 1..n : ~Reports(flat[k], Head1(k), env)}
<1>2. ASSUME NEW k \in 1..n PROVE IsList(Head1(k)) /\ k \in Nat
  <2>1. k \in Nat /\ Head1(k) = [i \in 1..k |-> Head1(k)[i]]
    OBVIOUS
  <2>2. QED
    BY <2>1, ListsItself
<1>3. Bad = {}
  <2>1. SUFFICES ASSUME Bad # {} PROVE FALSE
    OBVIOUS
  <2>2. PICK k \in Bad : \A j \in Bad : k <= j
    <3>1. Bad \in SUBSET Nat
      OBVIOUS
    <3> HIDE DEF Bad
    <3>2. QED
      BY <2>1, <3>1, LeastNumber
  <2>3. k \in 1..n /\ ~Reports(flat[k], Head1(k), env)
    OBVIOUS
  <2>4. CASE k = 1
    <3>1. Head1(1) = <<names[1]>>
      OBVIOUS
    <3>2. Reports(flat[1], <<names[1]>>, env)
      BY <1>1
    <3>3. QED
      BY <2>3, <2>4, <3>1, <3>2
  <2>5. CASE k # 1
    <3>1. k - 1 \in 1..n /\ k \in 2..n
      BY <2>3, <2>5
    <3>2. Reports(flat[k - 1], Head1(k - 1), env)
      <4>1. k - 1 \notin Bad
        <5> HIDE DEF Bad
        <5>1. QED
          BY <2>2, <2>3
      <4>2. QED
        BY <3>1, <4>1
    <3> DEFINE h == Head1(k - 1)
               one == <<names[k]>>
    <3>3. IsList(h) /\ IsList(one)
      BY <1>2, <3>1, Few
    <3>4. Reports(flat[k - 1] \o lists[k], h \o one, env)
      <4> HIDE DEF h, one
      <4>1. Reports(flat[k - 1], h, env) /\ Reports(lists[k], one, env)
        BY <2>3, <3>2 DEF h, one
      <4>2. QED
        BY <3>3, <4>1, ReportsBoth
    <3>5. h \o one = Head1(k)
      <4>1. /\ DOMAIN h = 1..k - 1 /\ k \in Nat /\ k - 1 \in Nat
            /\ \A i \in 1..k - 1 : h[i] = names[i]
        BY <2>3, <3>1
      <4>2. Len(one) = 1 /\ one[1] = names[k]
        OBVIOUS
      <4> DEFINE c == h \o one
                 g == Head1(k)
      <4>3. g = [i \in 1..k |-> names[i]]
        OBVIOUS
      <4> HIDE DEF h, one, g
      <4>4. Len(h) = k - 1
        BY <3>3, <4>1, LenProperties DEF IsList
      <4>5. /\ IsList(c) /\ DOMAIN c = 1..k
            /\ \A i \in 1..k - 1 : c[i] = h[i]
            /\ c[(k - 1) + 1] = one[1]
        <5>1. DOMAIN c = 1..Len(h) + Len(one)
          BY <3>3, ConcatLists
        <5>5. IsList(c)
          BY <3>3, ConcatLists
        <5>2. \A i \in 1..Len(h) : c[i] = h[i]
          BY <3>3, ConcatLists
        <5>3. \A i \in 1..Len(one) : c[Len(h) + i] = one[i]
          BY <3>3, ConcatLists
        <5>4. QED
          BY <4>1, <4>2, <4>4, <5>1, <5>2, <5>3, <5>5
      <4> HIDE DEF c
      <4>6. c = [i \in 1..k |-> c[i]]
        BY <4>5, LenProperties DEF IsList
      <4>7. ASSUME NEW i \in 1..k PROVE c[i] = names[i]
        <5>1. i \in 1..k - 1 \/ i = (k - 1) + 1
          BY <4>1
        <5>2. CASE i \in 1..k - 1
          BY <4>1, <4>5, <5>2
        <5>3. CASE i = (k - 1) + 1
          <6>1. i = k /\ c[i] = one[1]
            BY <4>1, <4>5, <5>3
          <6>2. QED
            BY <4>2, <6>1
        <5>4. QED
          BY <5>1, <5>2, <5>3
      <4>8. c = g
        BY <4>3, <4>6, <4>7
      <4>9. QED
        BY <4>8 DEF c, g
    <3>6. flat[k] = flat[k - 1] \o lists[k]
      BY <1>1, <3>1
    <3>7. QED
      BY <2>3, <3>4, <3>5, <3>6
  <2>6. QED
    BY <2>4, <2>5
<1>4. n \in 1..n /\ Head1(n) = names
  OBVIOUS
<1>5. Reports(flat[n], Head1(n), env) /\ IsList(Head1(n))
  BY <1>2, <1>3, <1>4
<1>6. QED
  BY <1>1, <1>4, <1>5 DEF ValidateStruct

-----------------------------------------------------------------------------
\* Short sequences, joined.
LEMMA Pairs ==
  ASSUME NEW a, NEW b, NEW c
  PROVE  <<a>> \o <<b>> = <<a, b>> /\ (<<a>> \o <<b>>) \o <<c>> = <<a, b, c>>
<1> DEFINE x == <<a>>
           y == <<b>>
           z == <<c>>
           xy == x \o y
           xyz == xy \o z
<1>0. IsList(x) /\ IsList(y) /\ IsList(z)
  BY Few
<1>1. Len(x) = 1 /\ Len(y) = 1 /\ Len(z) = 1 /\ x[1] = a /\ y[1] = b /\ z[1] = c
  OBVIOUS
<1> HIDE DEF x, y, z
<1>2. IsList(xy) /\ DOMAIN xy = 1..2 /\ Len(xy) = 2 /\ xy[1] = a /\ xy[2] = b
  <2>1. Len(x \o y) = Len(x) + Len(y)
    BY <1>0, ConcatLists
  <2>9. DOMAIN (x \o y) = 1..Len(x) + Len(y)
    BY <1>0, ConcatLists
  <2>10. IsList(x \o y)
    BY <1>0, ConcatLists
  <2>2. \A i \in 1..Len(x) : (x \o y)[i] = x[i]
    BY <1>0, ConcatLists
  <2>3. \A i \in 1..Len(y) : (x \o y)[Len(x) + i] = y[i]
    BY <1>0, ConcatLists
  <2>4. 1..(1 + 1) = 1..2 /\ 1 + 1 = 2 /\ 1 \in 1..1
    OBVIOUS
  <2>5. Len(xy) = 2 /\ DOMAIN xy = 1..2
    BY <1>1, <2>1, <2>4, <2>9
  <2>6. xy[1] = x[1]
    BY <1>1, <2>2, <2>4
  <2>7. xy[1 + 1] = y[1]
    BY <1>1, <2>3, <2>4
  <2>8. QED
    BY <1>1, <2>10, <2>4, <2>5, <2>6, <2>7
<1> HIDE DEF xy
<1>9. IsList(xy)
  BY <1>2
<1>3. IsList(xyz) /\ DOMAIN xyz = 1..3 /\ xyz[1] = a /\ xyz[2] = b /\ xyz[3] = c
  <2>1. IsList(xy \o z)
    BY <1>0, <1>9, ConcatLists
  <2>9. DOMAIN (xy \o z) = 1..Len(xy) + Len(z)
    BY <1>0, <1>9, ConcatLists
  <2>2. \A i \in 1..Len(xy) : (xy \o z)[i] = xy[i]
    BY <1>0, <1>9, ConcatLists
  <2>3. \A i \in 1..Len(z) : (xy \o z)[Len(xy) + i] = z[i]
    BY <1>0, <1>9, ConcatLists
  <2>4. 1..(2 + 1) = 1..3 /\ 2 + 1 = 3 /\ 1 \in 1..2 /\ 2 \in 1..2 /\ 1 \in 1..1
    OBVIOUS
  <2>5. DOMAIN xyz = 1..3
    BY <1>1, <1>2, <2>9, <2>4
  <2>6. xyz[1] = xy[1] /\ xyz[2] = xy[2]
    BY <1>2, <2>2, <2>4
  <2>7. xyz[2 + 1] = z[1]
    BY <1>1, <1>2, <2>3, <2>4
  <2>8. QED
    BY <1>1, <1>2, <2>1, <2>4, <2>5, <2>6, <2>7
<1> HIDE DEF xyz
<1>4. xy = [i \in 1..2 |-> xy[i]] /\ xyz = [i \in 1..3 |-> xyz[i]]
  BY <1>2, <1>3, LenProperties DEF IsList
<1>5. /\ <<a, b>> = [i \in 1..2 |-> <<a, b>>[i]]
      /\ <<a, b, c>> = [i \in 1..3 |-> <<a, b, c>>[i]]
  OBVIOUS
<1>6. xy = <<a, b>>
  BY <1>2, <1>4, <1>5
<1>7. xyz = <<a, b, c>>
  BY <1>3, <1>4, <1>5
<1>8. QED
  BY <1>6, <1>7 DEF x, y, z, xy, xyz

\* The mail settings, which depend on ENVIRONMENT.
LEMMA MailReports ==
  ASSUME NEW env
  PROVE  Reports(MailErrors(env), <<"RESEND_API_KEY", "MAIL_FROM">>, env)
<1> DEFINE Missing(name) ==
             IF Env(env, "ENVIRONMENT", "development") # "development" /\ Env(env, name, "") = ""
               THEN <<NewValidationError(<<name>>, <<"Required">>, "required")>> ELSE <<>>
           key == Missing("RESEND_API_KEY")
           from == Missing("MAIL_FROM")
<1>1. MailErrors(env) = key \o from
  BY DEF MailErrors
<1>2. ASSUME NEW name \in {"RESEND_API_KEY", "MAIL_FROM"}
      PROVE  Verdict(Missing(name), name, Unfit(env, name))
  <2>1. Unfit(env, name) <=>
          Env(env, "ENVIRONMENT", "development") # "development" /\ Env(env, name, "") = ""
    BY UnfitOf DEF Env
  <2>2. QED
    BY <2>1, NoErrors, OneError
<1>3. Verdict(key, "RESEND_API_KEY", Unfit(env, "RESEND_API_KEY"))
  BY <1>2
<1>4. Verdict(from, "MAIL_FROM", Unfit(env, "MAIL_FROM"))
  BY <1>2
<1> HIDE DEF key, from
<1> DEFINE one == <<"RESEND_API_KEY">>
           two == <<"MAIL_FROM">>
<1>5. Reports(key, one, env) /\ Reports(from, two, env)
  BY <1>3, <1>4, ReportsOne
<1>6. one \o two = <<"RESEND_API_KEY", "MAIL_FROM">>
  BY Pairs
<1>9. IsList(one) /\ IsList(two)
  BY Few
<1> HIDE DEF one, two
<1>7. Reports(key \o from, one \o two, env)
  <2>1. QED
    BY <1>5, <1>9, ReportsBoth
<1>8. QED
  BY <1>1, <1>6, <1>7

\* An environment of a service: every setting is a word.
Complete(env, names) == \A i \in DOMAIN names : env[names[i]] \in Word

\* Load of the profiles service reports every unfit setting and nothing else.
LEMMA ProfilesReports ==
  ASSUME NEW env, Complete(env, ProfilesSettings)
  PROVE  Reports(ProfilesErrors(env), ProfilesSettings, env)
<1> DEFINE names == ProfilesSettings
           database == StringValidateAll(PostgresURL(StringSchema(<<"DATABASE_URL">>)),
                                         Env(env, "DATABASE_URL", DefaultDatabase))
           rabbit == StringValidateAll(RabbitMQURL(StringSchema(<<"RABBITMQ_URL">>)),
                                       Env(env, "RABBITMQ_URL", DefaultRabbitMQ))
           lists == <<database, rabbit>>
<1>1. ProfilesErrors(env) = ValidateStruct(lists)
  BY DEF ProfilesErrors
<1>2. /\ DOMAIN names = 1..2 /\ names[1] = "DATABASE_URL" /\ names[2] = "RABBITMQ_URL"
      /\ names = [i \in 1..2 |-> names[i]]
  BY DEF ProfilesSettings
<1>3. env["DATABASE_URL"] \in Word /\ env["RABBITMQ_URL"] \in Word
  BY <1>2 DEF Complete
<1>4. Reports(database, <<"DATABASE_URL">>, env) /\ Reports(rabbit, <<"RABBITMQ_URL">>, env)
  BY <1>3, ReportsOne, DatabaseVerdict, RabbitMQVerdict
<1> HIDE DEF database, rabbit, names
<1>5. Len(lists) = 2 /\ lists[1] = database /\ lists[2] = rabbit
  OBVIOUS
<1> HIDE DEF lists
<1>6. ReportsEach(lists, names, env, 2)
  <2>1. \A i \in 1..2 : Reports(lists[i], <<names[i]>>, env)
    BY <1>2, <1>4, <1>5
  <2>2. QED
    BY <1>2, <1>5, <2>1 DEF ReportsEach
<1>7. Reports(ValidateStruct(lists), names, env)
  BY <1>6, ReportsAll
<1>8. QED
  BY <1>1, <1>7 DEF names

\* So does that of the gateway.
LEMMA GatewayReports ==
  ASSUME NEW env, Complete(env, GatewaySettings)
  PROVE  Reports(GatewayErrors(env), GatewaySettings, env)
<1> DEFINE port == portField(env, "HTTP_PORT", "9090")
           key == StringValidateAll(Required(StringSchema(<<"ACCESS_PUBLIC_KEY">>)),
                                    Env(env, "ACCESS_PUBLIC_KEY", ""))
           url == StringValidateAll(Required(StringURL(StringSchema(<<"ACCOUNTS_URL">>))),
                                    Env(env, "ACCOUNTS_URL", "http://accounts:9090"))
           p == <<"HTTP_PORT">>
           k == <<"ACCESS_PUBLIC_KEY">>
           u == <<"ACCOUNTS_URL">>
<1>1. env["HTTP_PORT"] \in Word /\ env["ACCOUNTS_URL"] \in Word
  BY DEF Complete, GatewaySettings
<1>2. GatewayErrors(env) = (port \o key) \o url
  BY DEF GatewayErrors
<1>3. Verdict(port, "HTTP_PORT", Unfit(env, "HTTP_PORT"))
  BY <1>1, UnfitOf, PortVerdict
<1>4. /\ Verdict(key, "ACCESS_PUBLIC_KEY", Unfit(env, "ACCESS_PUBLIC_KEY"))
      /\ Verdict(url, "ACCOUNTS_URL", Unfit(env, "ACCOUNTS_URL"))
  BY <1>1, KeyVerdict, AddressVerdict
<1>5. Reports(port, p, env) /\ Reports(key, k, env) /\ Reports(url, u, env)
  BY <1>3, <1>4, ReportsOne
<1>6. IsList(p) /\ IsList(k) /\ IsList(u)
  BY Few
<1>7. (p \o k) \o u = GatewaySettings
  BY Pairs DEF GatewaySettings
<1> HIDE DEF port, key, url, p, k, u
<1>8. Reports(port \o key, p \o k, env) /\ IsList(p \o k)
  BY <1>5, <1>6, ReportsBoth
<1>9. Reports((port \o key) \o url, (p \o k) \o u, env)
  <2> DEFINE pk == p \o k
             portkey == port \o key
  <2>1. Reports(portkey, pk, env) /\ IsList(pk)
    BY <1>8
  <2> HIDE DEF pk, portkey
  <2>2. Reports(portkey \o url, pk \o u, env)
    BY <1>5, <1>6, <2>1, ReportsBoth
  <2>3. QED
    BY <2>2 DEF pk, portkey
<1>10. QED
  BY <1>2, <1>7, <1>9

\* The settings of the accounts service: those of the struct, then mail's.
StructSettings ==
    <<"HTTP_PORT", "GRPC_PORT", "ACCESS_SIGNING_KEY", "PUBLIC_APP_URL", "LOG_LEVEL", "REDIS_URL",
      "ENVIRONMENT", "RABBITMQ_URL", "DATABASE_URL">>

\* Both together are the settings Load reads, in its order.
LEMMA AccountsSettingsAre ==
  /\ StructSettings \o <<"RESEND_API_KEY", "MAIL_FROM">> = AccountsSettings
  /\ IsList(StructSettings) /\ IsList(<<"RESEND_API_KEY", "MAIL_FROM">>)
<1> DEFINE m == StructSettings
           n == <<"RESEND_API_KEY", "MAIL_FROM">>
           mn == m \o n
<1>1. /\ m = [i \in 1..9 |-> m[i]] /\ Len(m) = 9
      /\ Len(n) = 2 /\ n[1] = "RESEND_API_KEY" /\ n[2] = "MAIL_FROM"
  BY DEF StructSettings
<1>2. IsList(m)
  BY <1>1, ListsItself
<1>3. IsList(n)
  BY Few
<1>4. /\ AccountsSettings = [i \in 1..11 |-> AccountsSettings[i]]
      /\ AccountsSettings[10] = "RESEND_API_KEY" /\ AccountsSettings[11] = "MAIL_FROM"
  BY DEF AccountsSettings
<1>5. \A i \in 1..9 : m[i] = AccountsSettings[i]
  BY DEF StructSettings, AccountsSettings
<1> HIDE DEF m, n
<1>6. DOMAIN (m \o n) = 1..Len(m) + Len(n)
  BY <1>2, <1>3, ConcatLists
<1>7. \A i \in 1..Len(m) : (m \o n)[i] = m[i]
  BY <1>2, <1>3, ConcatLists
<1>8. \A i \in 1..Len(n) : (m \o n)[Len(m) + i] = n[i]
  BY <1>2, <1>3, ConcatLists
<1>9. IsList(mn)
  BY <1>2, <1>3, ConcatLists
<1>10. \A i \in 1..9 : mn[i] = AccountsSettings[i]
  BY <1>1, <1>5, <1>7
<1>11. mn[10] = AccountsSettings[10] /\ mn[11] = AccountsSettings[11]
  <2>1. 9 + 1 = 10 /\ 9 + 2 = 11 /\ 1 \in 1..2 /\ 2 \in 1..2
    OBVIOUS
  <2>2. mn[9 + 1] = n[1] /\ mn[9 + 2] = n[2]
    BY <1>1, <1>8, <2>1
  <2>3. QED
    BY <1>1, <1>4, <2>1, <2>2
<1>12. DOMAIN mn = 1..11
  BY <1>1, <1>6
<1> HIDE DEF mn
<1>13. mn = [i \in 1..11 |-> mn[i]]
  BY <1>9, <1>12, LenProperties DEF IsList
<1>14. ASSUME NEW i \in 1..11 PROVE mn[i] = AccountsSettings[i]
  <2>1. i \in 1..9 \/ i = 10 \/ i = 11
    OBVIOUS
  <2>2. QED
    BY <1>10, <1>11, <2>1
<1>15. mn = AccountsSettings
  BY <1>4, <1>13, <1>14
<1>16. QED
  BY <1>2, <1>3, <1>15 DEF m, n, mn

\* So does that of the accounts service.
LEMMA AccountsReports ==
  ASSUME NEW env, Complete(env, AccountsSettings)
  PROVE  Reports(AccountsErrors(env), AccountsSettings, env)
<1> DEFINE S(name) == StringSchema(<<name>>)
           l1 == portField(env, "HTTP_PORT", "9090")
           l2 == portField(env, "GRPC_PORT", "50051")
           l3 == StringValidateAll(Required(S("ACCESS_SIGNING_KEY")), Env(env, "ACCESS_SIGNING_KEY", ""))
           l4 == StringValidateAll(Required(S("PUBLIC_APP_URL")),
                                   Env(env, "PUBLIC_APP_URL", "http://localhost:3000"))
           l5 == StringValidateAll(StringOneOf(S("LOG_LEVEL"), {"debug", "info", "warn", "error"}),
                                   Env(env, "LOG_LEVEL", "debug"))
           l6 == StringValidateAll(RedisURL(S("REDIS_URL")), Env(env, "REDIS_URL", "redis://valkey:6379"))
           l7 == StringValidateAll(StringOneOf(S("ENVIRONMENT"), {"development", "production", "staging"}),
                                   Env(env, "ENVIRONMENT", "development"))
           l8 == StringValidateAll(RabbitMQURL(S("RABBITMQ_URL")), Env(env, "RABBITMQ_URL", DefaultRabbitMQ))
           l9 == StringValidateAll(PostgresURL(S("DATABASE_URL")), Env(env, "DATABASE_URL", DefaultDatabase))
           lists == <<l1, l2, l3, l4, l5, l6, l7, l8, l9>>
           names == StructSettings
           mails == <<"RESEND_API_KEY", "MAIL_FROM">>
<1>1. AccountsErrors(env) = ValidateStruct(lists) \o MailErrors(env)
  BY DEF AccountsErrors
<1>2. /\ env["HTTP_PORT"] \in Word /\ env["GRPC_PORT"] \in Word
      /\ env["REDIS_URL"] \in Word /\ env["RABBITMQ_URL"] \in Word /\ env["DATABASE_URL"] \in Word
  BY DEF Complete, AccountsSettings
<1>3. Reports(l1, <<"HTTP_PORT">>, env)
  <2>1. Unfit(env, "HTTP_PORT") <=> UnfitPort(env["HTTP_PORT"])
    BY UnfitOf
  <2>2. Verdict(l1, "HTTP_PORT", Unfit(env, "HTTP_PORT"))
    BY <1>2, <2>1, PortVerdict
  <2> HIDE DEF l1
  <2>3. QED
    BY <2>2, ReportsOne
<1>4. Reports(l2, <<"GRPC_PORT">>, env)
  <2>1. Unfit(env, "GRPC_PORT") <=> UnfitPort(env["GRPC_PORT"])
    BY UnfitOf
  <2>2. Verdict(l2, "GRPC_PORT", Unfit(env, "GRPC_PORT"))
    BY <1>2, <2>1, PortVerdict
  <2> HIDE DEF l2
  <2>3. QED
    BY <2>2, ReportsOne
<1>5. Reports(l3, <<"ACCESS_SIGNING_KEY">>, env)
  BY KeyVerdict, ReportsOne
<1>6. Reports(l4, <<"PUBLIC_APP_URL">>, env)
  BY PublicURLVerdict, ReportsOne
<1>7. Reports(l5, <<"LOG_LEVEL">>, env)
  BY ChoiceVerdict, ReportsOne
<1>8. Reports(l6, <<"REDIS_URL">>, env)
  BY <1>2, RedisVerdict, ReportsOne
<1>9. Reports(l7, <<"ENVIRONMENT">>, env)
  BY ChoiceVerdict, ReportsOne
<1>10. Reports(l8, <<"RABBITMQ_URL">>, env)
  BY <1>2, RabbitMQVerdict, ReportsOne
<1>11. Reports(l9, <<"DATABASE_URL">>, env)
  BY <1>2, DatabaseVerdict, ReportsOne
<1> HIDE DEF l1, l2, l3, l4, l5, l6, l7, l8, l9
<1>12. /\ Len(lists) = 9
       /\ lists[1] = l1 /\ lists[2] = l2 /\ lists[3] = l3 /\ lists[4] = l4 /\ lists[5] = l5
       /\ lists[6] = l6 /\ lists[7] = l7 /\ lists[8] = l8 /\ lists[9] = l9
  OBVIOUS
<1>13. /\ names = [i \in 1..9 |-> names[i]]
       /\ names[1] = "HTTP_PORT" /\ names[2] = "GRPC_PORT" /\ names[3] = "ACCESS_SIGNING_KEY"
       /\ names[4] = "PUBLIC_APP_URL" /\ names[5] = "LOG_LEVEL" /\ names[6] = "REDIS_URL"
       /\ names[7] = "ENVIRONMENT" /\ names[8] = "RABBITMQ_URL" /\ names[9] = "DATABASE_URL"
  BY DEF StructSettings
<1> HIDE DEF lists, names
<1>14. ASSUME NEW i \in 1..9 PROVE Reports(lists[i], <<names[i]>>, env)
  <2>1. \/ i = 1 \/ i = 2 \/ i = 3 \/ i = 4 \/ i = 5 \/ i = 6 \/ i = 7 \/ i = 8 \/ i = 9
    OBVIOUS
  <2>2. QED
    BY <1>3, <1>4, <1>5, <1>6, <1>7, <1>8, <1>9, <1>10, <1>11, <1>12, <1>13, <2>1, Zenon
<1>15. ReportsEach(lists, names, env, 9)
  BY <1>12, <1>13, <1>14 DEF ReportsEach
<1>16. Reports(ValidateStruct(lists), names, env) /\ IsList(names)
  BY <1>15, ReportsAll
<1>17. Reports(MailErrors(env), mails, env) /\ IsList(mails)
  BY MailReports, AccountsSettingsAre
<1> DEFINE struct == ValidateStruct(lists)
           mail == MailErrors(env)
<1>18. Reports(struct, names, env) /\ IsList(names) /\ Reports(mail, mails, env) /\ IsList(mails)
  BY <1>16, <1>17
<1>19. names \o mails = AccountsSettings
  BY AccountsSettingsAre DEF names
<1> HIDE DEF struct, mail, mails
<1>20. Reports(struct \o mail, names \o mails, env)
  BY <1>18, ReportsBoth
<1>21. QED
  BY <1>1, <1>19, <1>20 DEF struct, mail

\* Where Load reports nothing no setting is unfit.
LEMMA NothingReported ==
  ASSUME NEW env, NEW names, IsList(names), Reports(<<>>, names, env), NEW i \in DOMAIN names
  PROVE  ~Unfit(env, names[i])
<1>1. Len(names) \in Nat /\ DOMAIN names = 1..Len(names)
  BY LenProperties DEF IsList
<1> DEFINE n == Len(names)
           bad == UnfitAt(names, env)
<1>2. n \in Nat /\ bad \in SUBSET (1..n)
  BY <1>1 DEF UnfitAt
<1>3. Selection(names, bad) = <<>>
  BY DEF Reports, Fields
<1> HIDE DEF n, bad
<1>4. Selection(names, bad) = <<>> <=> bad = {}
  BY <1>2, SelectionElements
<1>5. bad = {}
  BY <1>3, <1>4
<1>6. QED
  BY <1>5 DEF bad, UnfitAt

\* A port that is not unfit is one.
LEMMA PortInUse ==
  ASSUME NEW env, ~Unfit(env, "HTTP_PORT")
  PROVE  IntOf[Env(env, "HTTP_PORT", "9090")] \in 1..MaxPort
<1>1. env["HTTP_PORT"] = "" \/ IntOf[env["HTTP_PORT"]] \in 1..MaxPort
  BY UnfitOf DEF UnfitPort
<1>2. IntOf["9090"] \in 1..MaxPort
  BY PortsAssumption, PortRange
<1>3. QED
  BY <1>1, <1>2 DEF Env

\* A configuration that Load of the gateway passes has a port and uses no mail.
LEMMA GatewayPasses ==
  ASSUME NEW env, Reports(<<>>, GatewaySettings, env)
  PROVE  /\ GatewayConfig(env).port \in 1..MaxPort
         /\ GatewayConfig(env).resend = FALSE
<1>1. IsList(GatewaySettings) /\ 1 \in DOMAIN GatewaySettings /\ GatewaySettings[1] = "HTTP_PORT"
  <2>1. /\ GatewaySettings = [i \in 1..3 |-> GatewaySettings[i]]
        /\ 1 \in DOMAIN GatewaySettings /\ GatewaySettings[1] = "HTTP_PORT"
    BY DEF GatewaySettings
  <2>2. QED
    BY <2>1, ListsItself
<1>2. ~Unfit(env, "HTTP_PORT")
  BY <1>1, NothingReported
<1>3. QED
  BY <1>2, PortInUse DEF GatewayConfig

\* One that Load of accounts passes has a port, and mail settings where Resend is used.
LEMMA AccountsPasses ==
  ASSUME NEW env, Reports(<<>>, AccountsSettings, env)
  PROVE  /\ AccountsConfig(env).port \in 1..MaxPort
         /\ AccountsConfig(env).resend \in BOOLEAN
         /\ AccountsConfig(env).resend => AccountsConfig(env).mail
<1>1. /\ AccountsSettings = [i \in 1..11 |-> AccountsSettings[i]]
      /\ AccountsSettings[1] = "HTTP_PORT"
      /\ AccountsSettings[10] = "RESEND_API_KEY" /\ AccountsSettings[11] = "MAIL_FROM"
  BY DEF AccountsSettings
<1>2. IsList(AccountsSettings)
  BY <1>1, ListsItself
<1>3. \A i \in 1..11 : ~Unfit(env, AccountsSettings[i])
  <2>1. DOMAIN AccountsSettings = 1..11
    BY <1>1
  <2>2. QED
    BY <1>2, <2>1, NothingReported
<1>4. /\ ~Unfit(env, "HTTP_PORT")
      /\ ~Unfit(env, "RESEND_API_KEY") /\ ~Unfit(env, "MAIL_FROM")
  BY <1>1, <1>3
<1>5. AccountsConfig(env).port \in 1..MaxPort
  BY <1>4, PortInUse DEF AccountsConfig
<1>6. Env(env, "ENVIRONMENT", "development") # "development" =>
        Env(env, "RESEND_API_KEY", "") # "" /\ Env(env, "MAIL_FROM", "") # ""
  BY <1>4, UnfitOf DEF Env
<1>7. QED
  BY <1>5, <1>6 DEF AccountsConfig

=============================================================================
