--------------------------- MODULE FiniteTheorems ---------------------------
(***************************************************************************)
(* Facts about the finite structures the models are built from: sums over  *)
(* finite sets (Total, for functions with a finite domain), tables kept as *)
(* sequences of rows, of which one is changed or one is added at the end,  *)
(* and counting the members of a set that changes by one.                  *)
(***************************************************************************)
EXTENDS Sums, FiniteSetTheorems, FunctionTheorems, SequenceTheorems,
        WellFoundedInduction, TLAPS

-----------------------------------------------------------------------------
(* Sums *)

\* A heap over finitely many keys has finitely many coins, so the total of
\* natural amounts is a natural number.
LEMMA TotalType ==
    ASSUME NEW S, IsFiniteSet(S), NEW f \in [S -> Nat]
    PROVE  /\ IsFiniteSet(Coins(f))
           /\ Total(f) \in Nat
<1> DEFINE heap(k) == {k} \X (1 .. f[k])
           heaps == {heap(k) : k \in S}
           g == [k \in S |-> heap(k)]
<1>1. IsFiniteSet(heaps)
  <2>1. g \in Surjection(S, heaps)
    BY DEF Surjection
  <2>2. QED
    BY <2>1, FS_Surjection
<1>2. \A h \in heaps : IsFiniteSet(h)
  <2> SUFFICES ASSUME NEW k \in S
               PROVE  IsFiniteSet(heap(k))
    OBVIOUS
  <2>1. IsFiniteSet({k})
    BY FS_Singleton
  <2>2. f[k] \in Int
    OBVIOUS
  <2>3. IsFiniteSet(1 .. f[k])
    BY <2>2, FS_Interval
  <2>4. QED
    BY <2>1, <2>3, FS_Product
<1>3. Coins(f) = UNION heaps
  BY DEF Coins
<1>4. IsFiniteSet(Coins(f))
  BY <1>1, <1>2, <1>3, FS_UNION
<1>5. QED
  BY <1>4, FS_CardinalityType DEF Total

\* Raising the amount of one key raises the total by as much.
LEMMA TotalRaise ==
    ASSUME NEW S, IsFiniteSet(S), NEW f \in [S -> Nat],
           NEW i \in S, NEW v \in Nat, v >= f[i]
    PROVE  Total([f EXCEPT ![i] = v]) = Total(f) + (v - f[i])
<1> DEFINE g == [f EXCEPT ![i] = v]
           more == {i} \X (f[i] + 1 .. v)
<1>1. IsFiniteSet(Coins(f)) /\ Total(f) \in Nat
  BY TotalType
<1>2. IsFiniteSet(more) /\ Cardinality(more) = v - f[i]
  <2>1. IsFiniteSet({i}) /\ Cardinality({i}) = 1
    BY FS_Singleton
  <2>2. f[i] + 1 \in Int /\ v \in Int
    OBVIOUS
  <2>3. /\ IsFiniteSet(f[i] + 1 .. v)
        /\ Cardinality(f[i] + 1 .. v) = IF f[i] + 1 > v THEN 0 ELSE v - (f[i] + 1) + 1
    BY <2>2, FS_Interval
  <2>4. Cardinality(f[i] + 1 .. v) = v - f[i]
    BY <2>3
  <2>5. /\ IsFiniteSet(more)
        /\ Cardinality(more) = Cardinality({i}) * Cardinality(f[i] + 1 .. v)
    BY <2>1, <2>3, FS_Product
  <2>6. QED
    BY <2>1, <2>4, <2>5
<1>3. Coins(g) = Coins(f) \cup more
  <2>1. g \in [S -> Nat] /\ g[i] = v /\ \A k \in S \ {i} : g[k] = f[k]
    OBVIOUS
  <2>2. DOMAIN f = S /\ DOMAIN g = S
    OBVIOUS
  <2>3. 1 .. v = (1 .. f[i]) \cup (f[i] + 1 .. v)
    OBVIOUS
  <2>4. \A k \in S \ {i} : {k} \X (1 .. g[k]) = {k} \X (1 .. f[k])
    BY <2>1
  <2>5. {i} \X (1 .. g[i]) = ({i} \X (1 .. f[i])) \cup more
    BY <2>1, <2>3
  <2> DEFINE hf(k) == {k} \X (1 .. f[k])
             hg(k) == {k} \X (1 .. g[k])
  <2>6. Coins(f) = UNION {hf(k) : k \in S} /\ Coins(g) = UNION {hg(k) : k \in S}
    BY <2>2 DEF Coins
  <2>7. \A k \in S \ {i} : hg(k) = hf(k)
    BY <2>4
  <2>8. hg(i) = hf(i) \cup more
    BY <2>5
  <2> HIDE DEF hf, hg, g, more
  <2>9. QED
    BY <2>6, <2>7, <2>8
<1>4. Coins(f) \cap more = {}
  <2> SUFFICES ASSUME NEW c \in Coins(f), c \in more
               PROVE  FALSE
    OBVIOUS
  <2>1. PICK k \in S : c \in {k} \X (1 .. f[k])
    BY DEF Coins
  <2>2. PICK n \in f[i] + 1 .. v : c = <<i, n>>
    OBVIOUS
  <2>3. k = i /\ n \in 1 .. f[i]
    BY <2>1, <2>2
  <2>4. QED
    BY <2>2, <2>3
<1>5. /\ IsFiniteSet(Coins(f) \cup more)
      /\ Cardinality(Coins(f) \cup more) =
            Cardinality(Coins(f)) + Cardinality(more) - Cardinality(Coins(f) \cap more)
  BY <1>1, <1>2, FS_Union
<1>6. Cardinality(Coins(f) \cap more) = 0
  BY <1>4, FS_EmptySet
<1> HIDE DEF g, more
<1>7. Total(g) = Cardinality(Coins(f)) + (v - f[i])
  BY <1>1, <1>2, <1>3, <1>5, <1>6 DEF Total
<1>8. QED
  BY <1>7 DEF Total, g

\* Changing the amount of one key changes the total by the difference.
LEMMA TotalUpdate ==
    ASSUME NEW S, IsFiniteSet(S), NEW f \in [S -> Nat],
           NEW i \in S, NEW v \in Nat
    PROVE  Total([f EXCEPT ![i] = v]) = Total(f) - f[i] + v
<1> DEFINE g == [f EXCEPT ![i] = v]
<1>1. g \in [S -> Nat] /\ g[i] = v /\ f[i] \in Nat
  OBVIOUS
<1>2. Total(f) \in Nat /\ Total(g) \in Nat
  BY <1>1, TotalType
<1>3. CASE v >= f[i]
  <2>1. Total(g) = Total(f) + (v - f[i])
    BY <1>3, TotalRaise
  <2> HIDE DEF g
  <2>2. Total(g) = Total(f) - f[i] + v
    BY <1>1, <1>2, <2>1
  <2>3. QED
    BY <2>2 DEF g
<1>4. CASE f[i] >= v
  <2>1. [g EXCEPT ![i] = f[i]] = f
    BY <1>1
  <2> HIDE DEF g
  <2>2. Total([g EXCEPT ![i] = f[i]]) = Total(g) + (f[i] - g[i])
    BY <1>1, <1>4, TotalRaise
  <2>3. Total(f) = Total(g) + (f[i] - v)
    BY <1>1, <2>1, <2>2
  <2>4. Total(g) = Total(f) - f[i] + v
    BY <1>1, <1>2, <2>3
  <2>5. QED
    BY <2>4 DEF g
<1>5. QED
  BY <1>1, <1>3, <1>4

\* The same for two functions that differ at one key at most.
LEMMA TotalChange ==
    ASSUME NEW S, IsFiniteSet(S), NEW f \in [S -> Nat], NEW g \in [S -> Nat],
           NEW i \in S, \A k \in S \ {i} : g[k] = f[k]
    PROVE  Total(g) = Total(f) - f[i] + g[i]
<1>1. PICK v \in Nat : v = g[i]
  OBVIOUS
<1>2. g = [f EXCEPT ![i] = v]
  BY <1>1
<1>3. Total([f EXCEPT ![i] = v]) = Total(f) - f[i] + v
  BY TotalUpdate
<1>4. QED
  BY <1>1, <1>2, <1>3

\* No amount exceeds the total.
LEMMA TotalAtLeast ==
    ASSUME NEW S, IsFiniteSet(S), NEW f \in [S -> Nat], NEW i \in S
    PROVE  f[i] <= Total(f)
<1> DEFINE g == [f EXCEPT ![i] = 0]
<1>1. g \in [S -> Nat]
  OBVIOUS
<1>2. Total(g) \in Nat /\ Total(f) \in Nat
  BY <1>1, TotalType
<1>3. Total(g) = Total(f) - f[i] + 0
  <2>1. 0 \in Nat
    OBVIOUS
  <2>2. QED
    BY <2>1, TotalUpdate
<1>4. QED
  BY <1>2, <1>3

\* One key has only its own amount.
LEMMA TotalSingle ==
    ASSUME NEW x, NEW f \in [{x} -> Nat]
    PROVE  Total(f) = f[x]
<1>1. Coins(f) = {x} \X (1 .. f[x])
  BY DEF Coins
<1>2. IsFiniteSet({x}) /\ Cardinality({x}) = 1
  BY FS_Singleton
<1>3. f[x] \in Nat /\ 1 \in Int /\ f[x] \in Int
  OBVIOUS
<1>4. /\ IsFiniteSet(1 .. f[x])
      /\ Cardinality(1 .. f[x]) = IF 1 > f[x] THEN 0 ELSE f[x] - 1 + 1
  BY <1>3, FS_Interval
<1>5. Cardinality({x} \X (1 .. f[x])) = Cardinality({x}) * Cardinality(1 .. f[x])
  BY <1>2, <1>4, FS_Product
<1>6. Cardinality(1 .. f[x]) = f[x]
  BY <1>3, <1>4
<1>7. Total(f) = 1 * f[x]
  BY <1>1, <1>2, <1>5, <1>6 DEF Total
<1>8. QED
  BY <1>3, <1>7

\* Nothing adds up to nothing.
LEMMA TotalZero ==
    ASSUME NEW S
    PROVE  Total([k \in S |-> 0]) = 0
<1>1. Coins([k \in S |-> 0]) = {}
  BY DEF Coins
<1>2. QED
  BY <1>1, FS_EmptySet DEF Total

\* Amounts that are all covered by those of one or the other of two functions have a
\* total that the two totals cover.
LEMMA TotalCovered ==
    ASSUME NEW S, IsFiniteSet(S), NEW h \in [S -> Nat], NEW f \in [S -> Nat],
           NEW g \in [S -> Nat], \A k \in S : h[k] <= f[k] \/ h[k] <= g[k]
    PROVE  Total(h) <= Total(f) + Total(g)
<1>1. IsFiniteSet(Coins(f)) /\ IsFiniteSet(Coins(g)) /\ Total(f) \in Nat /\ Total(g) \in Nat
  BY TotalType
<1>2. Coins(h) \subseteq Coins(f) \cup Coins(g)
  <2> SUFFICES ASSUME NEW k \in S, NEW n \in 1 .. h[k]
               PROVE  <<k, n>> \in Coins(f) \cup Coins(g)
    BY DEF Coins
  <2>1. n \in 1 .. f[k] \/ n \in 1 .. g[k]
    <3>1. h[k] \in Nat /\ f[k] \in Nat /\ g[k] \in Nat /\ (h[k] <= f[k] \/ h[k] <= g[k])
      OBVIOUS
    <3> QED
      BY <3>1
  <2>2. DOMAIN f = S /\ DOMAIN g = S
    OBVIOUS
  <2> QED
    BY <2>1, <2>2 DEF Coins
<1>3. /\ IsFiniteSet(Coins(f) \cup Coins(g))
      /\ Cardinality(Coins(f) \cup Coins(g)) =
            Cardinality(Coins(f)) + Cardinality(Coins(g)) - Cardinality(Coins(f) \cap Coins(g))
  BY <1>1, FS_Union
<1>4. Cardinality(Coins(h)) <= Cardinality(Coins(f) \cup Coins(g))
  BY <1>2, <1>3, FS_Subset
<1>5. Cardinality(Coins(f) \cap Coins(g)) \in Nat
  <2>1. Coins(f) \cap Coins(g) \subseteq Coins(f)
    OBVIOUS
  <2> QED
    BY <1>1, <2>1, FS_Subset, FS_CardinalityType
<1>6. Cardinality(Coins(h)) \in Nat
  BY TotalType DEF Total
<1> QED
  BY <1>1, <1>3, <1>4, <1>5, <1>6 DEF Total

\* Amounts that are shared out between two functions, each key to one of them, have the
\* two totals as theirs.
LEMMA TotalParts ==
    ASSUME NEW S, IsFiniteSet(S), NEW h \in [S -> Nat], NEW f \in [S -> Nat],
           NEW g \in [S -> Nat],
           \A k \in S : (f[k] = h[k] /\ g[k] = 0) \/ (f[k] = 0 /\ g[k] = h[k])
    PROVE  Total(h) = Total(f) + Total(g)
<1>1. IsFiniteSet(Coins(f)) /\ IsFiniteSet(Coins(g)) /\ Total(f) \in Nat /\ Total(g) \in Nat
  BY TotalType
<1>2. DOMAIN f = S /\ DOMAIN g = S /\ DOMAIN h = S
  OBVIOUS
<1>3. Coins(h) = Coins(f) \cup Coins(g)
  <2>1. \A k \in S : 1 .. h[k] = (1 .. f[k]) \cup (1 .. g[k])
    <3> SUFFICES ASSUME NEW k \in S
                 PROVE  1 .. h[k] = (1 .. f[k]) \cup (1 .. g[k])
      OBVIOUS
    <3>1. 1 .. 0 = {}
      OBVIOUS
    <3> QED
      BY <3>1
  <2> QED
    BY <1>2, <2>1 DEF Coins
<1>4. Coins(f) \cap Coins(g) = {}
  <2> SUFFICES ASSUME NEW c \in Coins(f), c \in Coins(g)
               PROVE  FALSE
    OBVIOUS
  <2>1. PICK k \in S : \E n \in 1 .. f[k] : c = <<k, n>>
    BY <1>2 DEF Coins
  <2>2. PICK l \in S : \E n \in 1 .. g[l] : c = <<l, n>>
    BY <1>2 DEF Coins
  <2>3. k = l
    BY <2>1, <2>2
  <2>4. f[k] \in Nat /\ g[k] \in Nat /\ f[k] # 0 /\ g[k] # 0
    BY <2>1, <2>2, <2>3
  <2> QED
    BY <2>4
<1>5. Cardinality(Coins(f) \cup Coins(g)) =
            Cardinality(Coins(f)) + Cardinality(Coins(g)) - Cardinality(Coins(f) \cap Coins(g))
  BY <1>1, FS_Union
<1>6. Cardinality(Coins(f) \cap Coins(g)) = 0
  BY <1>4, FS_EmptySet
<1> QED
  BY <1>1, <1>3, <1>5, <1>6 DEF Total

\* Smaller amounts have a smaller total.
LEMMA TotalMonotone ==
    ASSUME NEW S, IsFiniteSet(S), NEW f \in [S -> Nat], NEW g \in [S -> Nat],
           \A k \in S : f[k] <= g[k]
    PROVE  Total(f) <= Total(g)
<1>1. PICK z : z = [k \in S |-> 0]
  OBVIOUS
<1>2. z \in [S -> Nat] /\ Total(z) = 0
  BY <1>1, TotalZero
<1>3. Total(f) <= Total(g) + Total(z)
  BY <1>2, TotalCovered
<1> QED
  BY <1>2, <1>3, TotalType

\* The same amounts under other names have the same total.
LEMMA TotalRenamed ==
    ASSUME NEW S, IsFiniteSet(S), NEW f \in [S -> Nat], NEW T, NEW h \in [T -> Nat],
           NEW p \in [S -> T], \A k, l \in S : p[k] = p[l] => k = l,
           \A t \in T : \E k \in S : p[k] = t, \A k \in S : h[p[k]] = f[k]
    PROVE  Total(h) = Total(f)
<1>1. IsFiniteSet(Coins(f))
  BY TotalType
<1> DEFINE m == [x \in Coins(f) |-> <<p[x[1]], x[2]>>]
<1>3. \A x : x \in Coins(f) <=> \E k \in S : \E n \in 1 .. f[k] : x = <<k, n>>
  BY DEF Coins
<1>4. \A x : x \in Coins(h) <=> \E t \in T : \E n \in 1 .. h[t] : x = <<t, n>>
  BY DEF Coins
<1>5. \A k \in S : \A n \in 1 .. f[k] :
            /\ <<k, n>> \in Coins(f) /\ m[<<k, n>>] = <<p[k], n>> /\ <<p[k], n>> \in Coins(h)
  BY <1>3, <1>4
<1>6. m \in [Coins(f) -> Coins(h)]
  <2> SUFFICES ASSUME NEW x \in Coins(f) PROVE m[x] \in Coins(h)
    OBVIOUS
  <2>1. PICK k \in S : \E n \in 1 .. f[k] : x = <<k, n>>
    BY <1>3
  <2>2. PICK n \in 1 .. f[k] : x = <<k, n>>
    BY <2>1
  <2>3. m[<<k, n>>] = <<p[k], n>> /\ <<p[k], n>> \in Coins(h)
    BY <1>5
  <2> QED
    BY ONLY <2>2, <2>3
<1>7. \A x, y \in Coins(f) : m[x] = m[y] => x = y
  BY <1>3, <1>5
<1>8. \A y \in Coins(h) : \E x \in Coins(f) : m[x] = y
  <2> SUFFICES ASSUME NEW y \in Coins(h) PROVE \E x \in Coins(f) : m[x] = y
    OBVIOUS
  <2>1. PICK t \in T : \E n \in 1 .. h[t] : y = <<t, n>>
    BY <1>4
  <2>2. PICK n \in 1 .. h[t] : y = <<t, n>>
    BY <2>1
  <2>3. PICK k \in S : p[k] = t
    OBVIOUS
  <2>4. n \in 1 .. f[k]
    BY <2>3
  <2>5. <<k, n>> \in Coins(f) /\ m[<<k, n>>] = <<p[k], n>>
    BY <1>5, <2>4
  <2>6. m[<<k, n>>] = y
    BY ONLY <2>2, <2>3, <2>5
  <2> QED
    BY ONLY <2>5, <2>6
<1> HIDE DEF m
<1>9. m \in Bijection(Coins(f), Coins(h))
  BY <1>6, <1>7, <1>8, Fun_IsBij
<1>10. ExistsBijection(Coins(f), Coins(h))
  BY <1>9 DEF ExistsBijection
<1> QED
  BY <1>1, <1>10, FS_Bijection DEF Total

\* A new key adds its amount to the total.
LEMMA TotalExtend ==
    ASSUME NEW S, IsFiniteSet(S), NEW x, x \notin S,
           NEW T, T = S \cup {x},
           NEW f \in [S -> Nat], NEW g \in [T -> Nat], \A k \in S : g[k] = f[k]
    PROVE  Total(g) = Total(f) + g[x]
<1>1. PICK z : z = [k \in T |-> IF k = x THEN 0 ELSE f[k]]
  OBVIOUS
<1>2. /\ z \in [T -> Nat] /\ z[x] = 0
      /\ \A k \in S : z[k] = f[k]
      /\ \A k \in T \ {x} : g[k] = z[k]
  BY <1>1
<1>3. Coins(z) = Coins(f)
  <2>1. 1 .. 0 = {}
    OBVIOUS
  <2>2. DOMAIN z = T /\ DOMAIN f = S
    BY <1>2
  <2> QED
    BY <1>2, <2>1, <2>2 DEF Coins
<1>4. IsFiniteSet(T)
  BY FS_AddElement
<1>5. Total(g) = Total(z) - z[x] + g[x]
  BY <1>2, <1>4, TotalChange
<1>6. Total(z) \in Nat /\ g[x] \in Nat
  BY <1>2, <1>4, TotalType
<1> QED
  BY <1>2, <1>3, <1>5, <1>6 DEF Total

-----------------------------------------------------------------------------
(* Tables *)

LEMMA SetElement ==
    ASSUME NEW S, NEW s \in Seq(S), NEW i \in DOMAIN s, NEW e \in S
    PROVE  /\ [s EXCEPT ![i] = e] \in Seq(S)
           /\ Len([s EXCEPT ![i] = e]) = Len(s)
           /\ DOMAIN [s EXCEPT ![i] = e] = DOMAIN s
           /\ \A j \in DOMAIN s : [s EXCEPT ![i] = e][j] = IF j = i THEN e ELSE s[j]
<1>1. i \in 1 .. Len(s) /\ DOMAIN s = 1 .. Len(s)
  BY LenProperties
<1> QED
  BY <1>1, ExceptSeq

LEMMA AddElement ==
    ASSUME NEW S, NEW s \in Seq(S), NEW e \in S
    PROVE  /\ Append(s, e) \in Seq(S)
           /\ Len(Append(s, e)) = Len(s) + 1
           /\ Len(s) + 1 \in Nat \ {0}
           /\ Len(s) + 1 \notin DOMAIN s
           /\ DOMAIN Append(s, e) = DOMAIN s \cup {Len(s) + 1}
           /\ \A j \in DOMAIN s : Append(s, e)[j] = s[j]
           /\ Append(s, e)[Len(s) + 1] = e
<1>1. Len(s) \in Nat /\ DOMAIN s = 1 .. Len(s)
  BY LenProperties
<1>2. /\ Append(s, e) \in Seq(S) /\ Len(Append(s, e)) = Len(s) + 1
      /\ \A j \in 1 .. Len(s) : Append(s, e)[j] = s[j]
      /\ Append(s, e)[Len(s) + 1] = e
  BY AppendProperties
<1>3. DOMAIN Append(s, e) = 1 .. (Len(s) + 1)
  BY <1>2, LenProperties
<1> QED
  BY <1>1, <1>2, <1>3

\* The positions and the rows of a table.
LEMMA Elements ==
    ASSUME NEW S, NEW s \in Seq(S)
    PROVE  /\ Len(s) \in Nat /\ DOMAIN s = 1 .. Len(s)
           /\ DOMAIN s \subseteq Nat \ {0} /\ 0 \notin DOMAIN s
           /\ \A i \in DOMAIN s : s[i] \in S
<1>1. Len(s) \in Nat /\ DOMAIN s = 1 .. Len(s)
  BY LenProperties
<1> QED
  BY <1>1, ElementOfSeq

-----------------------------------------------------------------------------
(* Counting *)

\* A set that gains at most one member counts at most one more.
LEMMA CountUp ==
    ASSUME NEW A, IsFiniteSet(A), NEW B, NEW x, B \subseteq A \cup {x}
    PROVE  IsFiniteSet(B) /\ Cardinality(B) \in Nat /\ Cardinality(B) <= Cardinality(A) + 1
<1>1. IsFiniteSet(A \cup {x}) /\ Cardinality(A) \in Nat
  BY FS_AddElement, FS_CardinalityType
<1>2. Cardinality(A \cup {x}) <= Cardinality(A) + 1
  BY <1>1, FS_AddElement
<1>3. IsFiniteSet(B) /\ Cardinality(B) <= Cardinality(A \cup {x})
  BY <1>1, FS_Subset
<1>4. Cardinality(B) \in Nat /\ Cardinality(A \cup {x}) \in Nat
  BY <1>1, <1>3, FS_CardinalityType
<1> QED
  BY <1>1, <1>2, <1>3, <1>4

\* One that loses a member counts at least one less.
LEMMA CountDown ==
    ASSUME NEW A, IsFiniteSet(A), NEW B, NEW x \in A, B \subseteq A \ {x}
    PROVE  IsFiniteSet(B) /\ Cardinality(B) \in Nat /\ Cardinality(B) <= Cardinality(A) - 1
<1>1. /\ IsFiniteSet(A \ {x}) /\ Cardinality(A \ {x}) = Cardinality(A) - 1
  BY FS_RemoveElement
<1>2. IsFiniteSet(B) /\ Cardinality(B) <= Cardinality(A \ {x})
  BY <1>1, FS_Subset
<1> QED
  BY <1>1, <1>2, FS_CardinalityType

LEMMA CountSame ==
    ASSUME NEW A, IsFiniteSet(A), NEW B, B \subseteq A
    PROVE  IsFiniteSet(B) /\ Cardinality(B) \in Nat /\ Cardinality(B) <= Cardinality(A)
BY FS_Subset, FS_CardinalityType

\* A finite set of more than one member has two different ones.
LEMMA TwoMembers ==
    ASSUME NEW S, IsFiniteSet(S), Cardinality(S) > 1
    PROVE  \E x, y \in S : x # y
<1>1. S # {}
  BY FS_EmptySet
<1>2. PICK x : x \in S
  BY <1>1
<1>3. S # {x}
  BY FS_Singleton
<1> QED
  BY <1>2, <1>3

\* A set of natural numbers that is not empty has a smallest member.
LEMMA SmallestOf ==
    ASSUME NEW T, T \subseteq Nat, T # {}
    PROVE  \E x \in T : \A y \in T : x <= y
<1> DEFINE R == OpToRel(<, Nat)
<1>1. IsWellFoundedOn(R, Nat)
  BY NatLessThanWellFounded
<1>2. \A x, y \in Nat : x < y => <<x, y>> \in R
  BY DEF OpToRel
<1> HIDE DEF R
<1>3. PICK x \in T : \A y \in T : ~(<<y, x>> \in R)
  BY <1>1, WFMin
<1>4. ASSUME NEW y \in T
      PROVE  x <= y
  <2>1. x \in Nat /\ y \in Nat /\ ~(y < x)
    BY <1>2, <1>3
  <2> QED
    BY <2>1
<1> QED
  BY <1>4
=============================================================================
