--------------------------- MODULE ApiCacheProofs ---------------------------
(***************************************************************************)
(* Theorems about ApiCache, for every set of keys and threads, all bounds  *)
(* of the cache, every TTL and every size of the payloads.                 *)
(***************************************************************************)
EXTENDS ApiCache, TLAPS, FiniteSetTheorems, SequenceTheorems, WellFoundedInduction

-----------------------------------------------------------------------------
(* Sums over finite sets: what BytesIn computes does not depend on the     *)
(* order in which MapThenSumSet takes the elements. An induction over the  *)
(* set is a minimal counterexample among its subsets.                      *)

\* The element a sum takes first, and the equation of the sums of f over the
\* subsets of S.
First(S) == CHOOSE x \in S : TRUE

Sums(f, S, g) ==
  g = [s \in SUBSET S |-> IF s = {} THEN 0 ELSE f[First(s)] + g[s \ {First(s)}]]

\* The sum of f over S, with the terms in the order of the choices.
SumOver(f, S) == (CHOOSE g : Sums(f, S, g))[S]

\* There is one as long as there is anything to take.
LEMMA FirstIsElement == ASSUME NEW S, S # {} PROVE First(S) \in S
  BY DEF First

\* A set of subsets of a finite set that is not empty has a least one.
LEMMA LeastSubset ==
  ASSUME NEW S, IsFiniteSet(S), NEW T \in SUBSET (SUBSET S), T # {}
  PROVE  \E s \in T : \A t \in T : t \subseteq s => t = s
  <1>1. IsWellFoundedOn(StrictSubsetOrdering(S), SUBSET S)
    BY FS_StrictSubsetOrderingWellFounded, FS_FiniteSubsetsOfFinite
  <1>2. PICK s \in T : \A t \in T : <<t, s>> \notin StrictSubsetOrdering(S)
    BY <1>1, WFMin
  <1>3. \A t \in T : t \subseteq s => t = s
    BY <1>2 DEF StrictSubsetOrdering
  <1>4. QED
    BY <1>3

\* The equation has one solution, on any set that two solutions have in common.
LEMMA SumsAgree ==
  ASSUME NEW f, NEW S, NEW R, NEW g, NEW h, NEW T, IsFiniteSet(T),
         T \subseteq S, T \subseteq R, Sums(f, S, g), Sums(f, R, h)
  PROVE  g[T] = h[T]
  <1> DEFINE Bad == {s \in SUBSET T : g[s] # h[s]}
  <1>1. SUFFICES ASSUME Bad # {}
                 PROVE  FALSE
    OBVIOUS
  <1>2. PICK s \in Bad : \A t \in Bad : t \subseteq s => t = s
    <2> HIDE DEF Bad
    <2>1. Bad \in SUBSET (SUBSET T)
      BY DEF Bad
    <2>2. QED
      BY <1>1, <2>1, LeastSubset
  <1> DEFINE r == s \ {First(s)}
  <1>3. s \in SUBSET S /\ s \in SUBSET R /\ g[s] # h[s]
    OBVIOUS
  <1>4. /\ g[s] = IF s = {} THEN 0 ELSE f[First(s)] + g[r]
        /\ h[s] = IF s = {} THEN 0 ELSE f[First(s)] + h[r]
    BY <1>3 DEF Sums
  <1>5. s # {}
    BY <1>3, <1>4
  <1>6. r \subseteq s /\ r # s /\ r \in SUBSET T
    BY <1>5, FirstIsElement
  <1>7. r \notin Bad
    BY <1>2, <1>6
  <1>8. g[r] = h[r]
    BY <1>6, <1>7
  <1>9. QED
    BY <1>3, <1>4, <1>5, <1>8

\* A solution exists.
LEMMA SumsExist ==
  ASSUME NEW f, NEW S, IsFiniteSet(S)
  PROVE  \E g : Sums(f, S, g)
  <1> DEFINE Bad == {s \in SUBSET S : ~ \E g : Sums(f, s, g)}
  <1>1. SUFFICES ASSUME Bad # {}
                 PROVE  FALSE
    OBVIOUS
  <1>2. PICK s \in Bad : \A t \in Bad : t \subseteq s => t = s
    <2> HIDE DEF Bad
    <2>1. Bad \in SUBSET (SUBSET S)
      BY DEF Bad
    <2>2. QED
      BY <1>1, <2>1, LeastSubset
  <1> DEFINE G(t) == CHOOSE g : Sums(f, t, g)
             h == [t \in SUBSET s |-> IF t = {} THEN 0
                                      ELSE f[First(t)] + G(t \ {First(t)})[t \ {First(t)}]]
  <1>3. \A t \in SUBSET s : t # s => \E g : Sums(f, t, g)
    BY <1>2
  <1>4. \A t \in SUBSET s : t # s => Sums(f, t, G(t))
    BY <1>3
  <1>5. \A t \in SUBSET s : IsFiniteSet(t)
    BY FS_Subset
  <1> HIDE DEF G
  <1>6. ASSUME NEW t \in SUBSET s, t # s
        PROVE  h[t] = G(t)[t]
    <2> DEFINE r == t \ {First(t)}
    <2>1. G(t)[t] = IF t = {} THEN 0 ELSE f[First(t)] + G(t)[r]
      BY <1>4, <1>6 DEF Sums
    <2>2. ASSUME t # {}
          PROVE  G(t)[r] = G(r)[r]
      <3>1. r \in SUBSET s /\ r # s /\ r \subseteq t /\ r \subseteq r
        BY <2>2, FirstIsElement
      <3>2. Sums(f, t, G(t)) /\ Sums(f, r, G(r)) /\ IsFiniteSet(r)
        BY <1>4, <1>5, <1>6, <3>1
      <3> HIDE DEF r
      <3>3. QED
        BY <3>1, <3>2, SumsAgree
    <2>3. QED
      BY <2>1, <2>2
  <1>7. ASSUME NEW t \in SUBSET s, t # {}
        PROVE  h[t] = f[First(t)] + h[t \ {First(t)}]
    <2> DEFINE r == t \ {First(t)}
    <2>1. r \in SUBSET s /\ r # s
      BY <1>7, FirstIsElement
    <2>2. h[r] = G(r)[r]
      BY <1>6, <2>1
    <2>3. h[t] = f[First(t)] + G(r)[r]
      BY <1>7
    <2>4. QED
      BY <2>2, <2>3
  <1>8. h[{}] = 0
    OBVIOUS
  <1>9. DOMAIN h = SUBSET s /\ h = [t \in SUBSET s |-> h[t]]
    OBVIOUS
  <1> HIDE DEF h
  <1>10. h = [t \in SUBSET s |-> IF t = {} THEN 0 ELSE f[First(t)] + h[t \ {First(t)}]]
    BY <1>7, <1>8, <1>9
  <1>11. QED
    BY <1>10 DEF Sums

\* A sum is its first term and the sum of the others.
LEMMA SumUnfolds ==
  ASSUME NEW f, NEW S, IsFiniteSet(S)
  PROVE  SumOver(f, S) = IF S = {} THEN 0 ELSE f[First(S)] + SumOver(f, S \ {First(S)})
  <1> DEFINE G(t) == CHOOSE g : Sums(f, t, g)
             r == S \ {First(S)}
  <1>1. IsFiniteSet(r) /\ r \subseteq S
    BY FS_Subset
  <1>2. Sums(f, S, G(S)) /\ Sums(f, r, G(r))
    <2>1. (\E g : Sums(f, S, g)) /\ (\E g : Sums(f, r, g))
      <3> HIDE DEF r
      <3>1. QED
        BY <1>1, SumsExist
    <2>2. QED
      BY <2>1
  <1> HIDE DEF G
  <1>3. G(S)[S] = IF S = {} THEN 0 ELSE f[First(S)] + G(S)[r]
    BY <1>2 DEF Sums
  <1>4. G(S)[r] = G(r)[r]
    <2> HIDE DEF r
    <2>1. QED
      BY <1>1, <1>2, SumsAgree
  <1>5. QED
    BY <1>3, <1>4 DEF SumOver, G

\* Sums of sizes are numbers, and the terms can be taken in any order.
LEMMA SumTakes ==
  ASSUME NEW f, NEW S, IsFiniteSet(S), \A x \in S : f[x] \in Nat
  PROVE  /\ SumOver(f, S) \in Nat
         /\ \A y \in S : SumOver(f, S) = f[y] + SumOver(f, S \ {y})
  <1> DEFINE Good(s) == /\ SumOver(f, s) \in Nat
                        /\ \A y \in s : SumOver(f, s) = f[y] + SumOver(f, s \ {y})
             Bad == {s \in SUBSET S : ~ Good(s)}
  <1>1. SUFFICES ASSUME Bad # {}
                 PROVE  FALSE
    OBVIOUS
  <1>2. PICK s \in Bad : \A t \in Bad : t \subseteq s => t = s
    <2> HIDE DEF Bad
    <2>1. Bad \in SUBSET (SUBSET S)
      BY DEF Bad
    <2>2. QED
      BY <1>1, <2>1, LeastSubset
  <1>3. \A t \in SUBSET s : t # s => Good(t)
    BY <1>2
  <1> DEFINE x == First(s)
  <1>4. \A t \in SUBSET s : IsFiniteSet(t)
    BY FS_Subset
  <1>5. \A t \in SUBSET s : SumOver(f, t) = IF t = {} THEN 0
                                            ELSE f[First(t)] + SumOver(f, t \ {First(t)})
    BY <1>4, SumUnfolds
  <1>6. s # {}
    <2>1. SUFFICES ASSUME s = {}
                   PROVE  FALSE
      OBVIOUS
    <2>2. SumOver(f, s) = 0
      BY <1>5, <2>1
    <2>3. Good(s)
      BY <2>1, <2>2
    <2>4. QED
      BY <1>2, <2>3
  <1>7. x \in s /\ SumOver(f, s) = f[x] + SumOver(f, s \ {x})
    BY <1>5, <1>6, FirstIsElement
  <1> HIDE DEF x
  <1>8. Good(s \ {x})
    BY <1>3, <1>7
  <1>9. \A y \in s : f[y] \in Nat
    OBVIOUS
  <1>10. SumOver(f, s) \in Nat
    BY <1>7, <1>8, <1>9
  <1>11. ASSUME NEW y \in s, y # x
         PROVE  SumOver(f, s) = f[y] + SumOver(f, s \ {y})
    <2> DEFINE r == (s \ {x}) \ {y}
    <2>1. SumOver(f, s \ {x}) = f[y] + SumOver(f, r)
      BY <1>8, <1>11
    <2>2. Good(s \ {y}) /\ Good(r)
      BY <1>3, <1>7
    <2>3. (s \ {y}) \ {x} = r
      OBVIOUS
    <2>4. SumOver(f, s \ {y}) = f[x] + SumOver(f, r)
      BY <1>7, <1>11, <2>2, <2>3
    <2>5. SumOver(f, r) \in Nat
      BY <2>2
    <2>6. f[x] \in Nat /\ f[y] \in Nat
      BY <1>7, <1>9
    <2> HIDE DEF r
    <2>7. QED
      BY <1>7, <2>1, <2>4, <2>5, <2>6
  <1>12. Good(s)
    BY <1>7, <1>10, <1>11
  <1>13. QED
    BY <1>2, <1>12

\* Equal terms, equal sums.
LEMMA SumSame ==
  ASSUME NEW f, NEW g, NEW S, IsFiniteSet(S), \A x \in S : f[x] = g[x]
  PROVE  SumOver(f, S) = SumOver(g, S)
  <1> DEFINE Bad == {s \in SUBSET S : SumOver(f, s) # SumOver(g, s)}
  <1>1. SUFFICES ASSUME Bad # {}
                 PROVE  FALSE
    OBVIOUS
  <1>2. PICK s \in Bad : \A t \in Bad : t \subseteq s => t = s
    <2> HIDE DEF Bad
    <2>1. Bad \in SUBSET (SUBSET S)
      BY DEF Bad
    <2>2. QED
      BY <1>1, <2>1, LeastSubset
  <1>3. IsFiniteSet(s)
    BY FS_Subset
  <1> DEFINE r == s \ {First(s)}
  <1>4. /\ SumOver(f, s) = IF s = {} THEN 0 ELSE f[First(s)] + SumOver(f, r)
        /\ SumOver(g, s) = IF s = {} THEN 0 ELSE g[First(s)] + SumOver(g, r)
    BY <1>3, SumUnfolds
  <1>5. s # {}
    BY <1>2, <1>4
  <1>6. First(s) \in s
    BY <1>5, FirstIsElement
  <1>7. r \in SUBSET S /\ r \subseteq s /\ r # s
    BY <1>6
  <1>8. SumOver(f, r) = SumOver(g, r)
    BY <1>2, <1>7
  <1>9. QED
    BY <1>2, <1>4, <1>5, <1>6, <1>8

\* The sum over two parts.
LEMMA SumUnion ==
  ASSUME NEW f, NEW S, NEW T, IsFiniteSet(S), IsFiniteSet(T), S \intersect T = {},
         \A x \in S \union T : f[x] \in Nat
  PROVE  SumOver(f, S \union T) = SumOver(f, S) + SumOver(f, T)
  <1> DEFINE Bad == {s \in SUBSET S :
                       SumOver(f, s \union T) # SumOver(f, s) + SumOver(f, T)}
  <1>1. SUFFICES ASSUME Bad # {}
                 PROVE  FALSE
    OBVIOUS
  <1>2. PICK s \in Bad : \A t \in Bad : t \subseteq s => t = s
    <2> HIDE DEF Bad
    <2>1. Bad \in SUBSET (SUBSET S)
      BY DEF Bad
    <2>2. QED
      BY <1>1, <2>1, LeastSubset
  <1>3. /\ IsFiniteSet(s) /\ \A x \in s : f[x] \in Nat
        /\ IsFiniteSet(s \union T) /\ \A x \in s \union T : f[x] \in Nat
    BY FS_Subset, FS_Union
  <1>4. SumOver(f, T) \in Nat
    BY SumTakes
  <1>5. CASE s = {}
    <2>1. SumOver(f, s) = 0
      BY <1>3, <1>5, SumUnfolds
    <2>2. s \union T = T
      BY <1>5
    <2>3. SumOver(f, s \union T) = SumOver(f, T)
      BY <2>2
    <2>4. SumOver(f, s) + SumOver(f, T) = SumOver(f, T)
      BY <1>4, <2>1
    <2>5. QED
      BY <1>2, <2>3, <2>4
  <1>6. CASE s # {}
    <2>1. PICK y \in s : TRUE
      BY <1>6
    <2> DEFINE r == s \ {y}
               u == s \union T
    <2>2. u \ {y} = r \union T
      BY <2>1
    <2>3. r \in SUBSET S /\ r \subseteq s /\ r # s
      BY <2>1
    <2>4. SumOver(f, r \union T) = SumOver(f, r) + SumOver(f, T)
      BY <1>2, <2>3
    <2>5. SumOver(f, s) = f[y] + SumOver(f, r)
      BY <1>3, <2>1, SumTakes
    <2>6. SumOver(f, u) = f[y] + SumOver(f, u \ {y})
      <3>1. y \in u /\ IsFiniteSet(u) /\ \A x \in u : f[x] \in Nat
        BY <1>3, <2>1
      <3> HIDE DEF u
      <3>2. QED
        BY <3>1, SumTakes
    <2>7. SumOver(f, r) \in Nat /\ f[y] \in Nat
      <3>1. IsFiniteSet(r) /\ \A x \in r : f[x] \in Nat
        BY <1>3, <2>3, FS_Subset
      <3> HIDE DEF r
      <3>2. QED
        BY <1>3, <2>1, <3>1, SumTakes
    <2> HIDE DEF r
    <2>8. SumOver(f, u) = SumOver(f, s) + SumOver(f, T)
      BY <1>4, <2>2, <2>4, <2>5, <2>6, <2>7
    <2>9. QED
      BY <1>2, <2>8
  <1>7. QED
    BY <1>5, <1>6

\* The sizes of the payloads of a table.
SizesOf(e, S) == [x \in S |-> Size[x][e[x].version]]

\* BytesIn is such a sum.
LEMMA BytesAreSums ==
  ASSUME NEW e, NEW S, IsFiniteSet(S)
  PROVE  BytesIn(e, S) = SumOver(SizesOf(e, S), S)
  <1> DEFINE f == SizesOf(e, S)
             I(g) == g = [s \in SUBSET S |->
                       IF s = {} THEN 0
                       ELSE Size[First(s)][e[First(s)].version] + g[s \ {First(s)}]]
  <1>1. BytesIn(e, S) = (CHOOSE g : I(g))[S]
    BY DEF BytesIn, MapThenSumSet, MapThenFoldSet, First
  <1>2. PICK h : Sums(f, S, h)
    BY SumsExist
  <1>3. \A s \in SUBSET S : s # {} => f[First(s)] = Size[First(s)][e[First(s)].version]
    BY FirstIsElement DEF SizesOf
  <1>4. \A g : I(g) <=> Sums(f, S, g)
    <2>1. ASSUME NEW g PROVE I(g) <=> Sums(f, S, g)
      <3> HIDE DEF f
      <3>1. [s \in SUBSET S |-> IF s = {} THEN 0
                       ELSE Size[First(s)][e[First(s)].version] + g[s \ {First(s)}]]
          = [s \in SUBSET S |-> IF s = {} THEN 0 ELSE f[First(s)] + g[s \ {First(s)}]]
        BY <1>3
      <3>2. QED
        BY <3>1 DEF Sums
    <2>2. QED
      BY <2>1
  <1> HIDE DEF I
  <1>5. Sums(f, S, CHOOSE g : I(g))
    BY <1>2, <1>4
  <1>6. Sums(f, S, CHOOSE g : Sums(f, S, g))
    BY <1>2
  <1> HIDE DEF f
  <1>7. (CHOOSE g : I(g))[S] = (CHOOSE g : Sums(f, S, g))[S]
    BY <1>5, <1>6, SumsAgree
  <1>8. QED
    BY <1>1, <1>7 DEF SumOver, f

\* Every payload in the table has a size.
Sized(e, S) == \A x \in S : Size[x][e[x].version] \in Nat

\* Bytes are a number.
LEMMA BytesAreNat ==
  ASSUME NEW e, NEW S, IsFiniteSet(S), Sized(e, S)
  PROVE  BytesIn(e, S) \in Nat
  <1> DEFINE f == SizesOf(e, S)
  <1>1. \A x \in S : f[x] \in Nat
    BY DEF SizesOf, Sized
  <1> HIDE DEF f
  <1>2. SumOver(f, S) \in Nat
    BY <1>1, SumTakes
  <1>3. QED
    BY <1>2, BytesAreSums DEF f

\* Bytes depend on the versions that are cached, and on nothing else.
LEMMA BytesSame ==
  ASSUME NEW e, NEW d, NEW S, IsFiniteSet(S),
         \A x \in S : e[x].version = d[x].version
  PROVE  BytesIn(e, S) = BytesIn(d, S)
  <1>1. SizesOf(e, S) = SizesOf(d, S)
    BY DEF SizesOf
  <1>2. QED
    BY <1>1, BytesAreSums

\* One payload has its own size.
LEMMA BytesOfOne ==
  ASSUME NEW e, NEW k, Size[k][e[k].version] \in Nat
  PROVE  BytesIn(e, {k}) = Size[k][e[k].version]
  <1> DEFINE f == SizesOf(e, {k})
  <1>1. IsFiniteSet({k}) /\ f[k] = Size[k][e[k].version]
    BY FS_Singleton DEF SizesOf
  <1>2. \A x \in {k} : f[x] \in Nat
    BY <1>1
  <1>3. IsFiniteSet({}) /\ {k} \ {k} = {}
    BY FS_EmptySet
  <1> HIDE DEF f
  <1>4. SumOver(f, {k}) = f[k] + SumOver(f, {k} \ {k})
    BY <1>1, <1>2, SumTakes
  <1>5. SumOver(f, {}) = 0
    BY <1>3, SumUnfolds
  <1>6. SumOver(f, {k}) = f[k]
    BY <1>1, <1>3, <1>4, <1>5
  <1>7. QED
    BY <1>1, <1>6, BytesAreSums DEF f

\* The bytes of two parts add up.
LEMMA BytesAdd ==
  ASSUME NEW e, NEW S, NEW T, IsFiniteSet(S), IsFiniteSet(T), S \intersect T = {},
         Sized(e, S \union T)
  PROVE  BytesIn(e, S \union T) = BytesIn(e, S) + BytesIn(e, T)
  <1> DEFINE f == SizesOf(e, S \union T)
  <1>1. IsFiniteSet(S \union T)
    BY FS_Union
  <1>2. \A x \in S \union T : f[x] \in Nat
    BY DEF SizesOf, Sized
  <1>3. BytesIn(e, S \union T) = SumOver(f, S \union T)
    BY <1>1, BytesAreSums
  <1>4. \A x \in S : SizesOf(e, S)[x] = f[x]
    BY DEF SizesOf
  <1>5. \A x \in T : SizesOf(e, T)[x] = f[x]
    BY DEF SizesOf
  <1> HIDE DEF f
  <1>6. BytesIn(e, S) = SumOver(f, S)
    BY <1>4, SumSame, BytesAreSums
  <1>7. BytesIn(e, T) = SumOver(f, T)
    BY <1>5, SumSame, BytesAreSums
  <1>8. QED
    BY <1>2, <1>3, <1>6, <1>7, SumUnion

\* Nothing has no bytes.
LEMMA BytesOfNone == \A e : BytesIn(e, {}) = 0
  <1>1. ASSUME NEW e PROVE BytesIn(e, {}) = 0
    <2>1. IsFiniteSet({})
      BY FS_EmptySet
    <2>2. SumOver(SizesOf(e, {}), {}) = 0
      BY <2>1, SumUnfolds
    <2>3. QED
      BY <2>1, <2>2, BytesAreSums
  <1>2. QED
    BY <1>1

-----------------------------------------------------------------------------
(* Sequences without repetition.                                           *)

\* What is left of a sequence without repetition when its i-th element goes.
LEMMA RemoveFirstShape ==
  ASSUME NEW S, NEW s \in Seq(S), NEW i \in 1..Len(s), IsInjective(s)
  PROVE  /\ RemoveFirst(s, s[i]) \in Seq(S)
         /\ Len(RemoveFirst(s, s[i])) = Len(s) - 1
         /\ \A j \in 1..(i - 1) : RemoveFirst(s, s[i])[j] = s[j]
         /\ \A j \in i..(Len(s) - 1) : RemoveFirst(s, s[i])[j] = s[j + 1]
  <1>1. {j \in 1..Len(s) : s[j] = s[i]} = {i}
    BY DEF IsInjective
  <1>2. SelectInSeq(s, LAMBDA v : v = s[i]) = i
    BY <1>1 DEF SelectInSeq, Min
  <1> DEFINE a == SubSeq(s, 1, i - 1)
             b == SubSeq(s, i + 1, Len(s))
  <1>3. RemoveFirst(s, s[i]) = a \o b
    BY <1>2 DEF RemoveFirst, RemoveAt
  <1>4. a \in Seq(S) /\ Len(a) = i - 1 /\ \A j \in 1..(i - 1) : a[j] = s[j]
    OBVIOUS
  <1>5. /\ b \in Seq(S) /\ Len(b) = Len(s) - i
        /\ \A j \in 1..(Len(s) - i) : b[j] = s[j + i]
    OBVIOUS
  <1> HIDE DEF a, b
  <1>6. /\ a \o b \in Seq(S) /\ Len(a \o b) = Len(a) + Len(b)
        /\ \A m \in 1..(Len(a) + Len(b)) :
             (a \o b)[m] = IF m <= Len(a) THEN a[m] ELSE b[m - Len(a)]
    BY <1>4, <1>5, ConcatProperties
  <1>7. Len(a) + Len(b) = Len(s) - 1 /\ i \in Nat /\ Len(s) \in Nat
    BY <1>4, <1>5
  <1>8. ASSUME NEW j \in 1..(i - 1) PROVE (a \o b)[j] = s[j]
    BY <1>4, <1>6, <1>7
  <1>9. ASSUME NEW j \in i..(Len(s) - 1) PROVE (a \o b)[j] = s[j + 1]
    <2>1. (a \o b)[j] = b[j - (i - 1)]
      BY <1>4, <1>6, <1>7
    <2>2. j - (i - 1) \in 1..(Len(s) - i) /\ (j - (i - 1)) + i = j + 1
      BY <1>7
    <2>3. QED
      BY <2>1, <2>2, <1>5
  <1>10. QED
    BY <1>3, <1>6, <1>7, <1>8, <1>9

\* Removing an element leaves the others.
LEMMA RemoveFirstProperties ==
  ASSUME NEW S, NEW s \in Seq(S), NEW e, IsInjective(s)
  PROVE  /\ RemoveFirst(s, e) \in Seq(S)
         /\ IsInjective(RemoveFirst(s, e))
         /\ ToSet(RemoveFirst(s, e)) = ToSet(s) \ {e}
         /\ Len(RemoveFirst(s, e)) = IF e \in ToSet(s) THEN Len(s) - 1 ELSE Len(s)
  <1>1. CASE ~ \E i \in 1..Len(s) : s[i] = e
    BY <1>1 DEF RemoveFirst, ToSet
  <1>2. CASE \E i \in 1..Len(s) : s[i] = e
    <2>1. PICK i \in 1..Len(s) : s[i] = e
      BY <1>2
    <2> DEFINE t == RemoveFirst(s, e)
    <2>5. /\ t \in Seq(S) /\ Len(t) = Len(s) - 1
          /\ \A j \in 1..(i - 1) : t[j] = s[j]
          /\ \A j \in i..(Len(s) - 1) : t[j] = s[j + 1]
      BY <2>1, RemoveFirstShape
    <2> HIDE DEF t
    <2>6. IsInjective(t)
      <3>1. ASSUME NEW g \in DOMAIN t, NEW h \in DOMAIN t, t[g] = t[h]
            PROVE  g = h
        <4>1. DOMAIN t = 1..(Len(s) - 1) /\ DOMAIN s = 1..Len(s) /\ Len(s) \in Nat
          BY <2>5
        <4>2. \A c, d \in 1..Len(s) : s[c] = s[d] => c = d
          BY <4>1 DEF IsInjective
        <4>3. g \in 1..(i - 1) \/ g \in i..(Len(s) - 1)
          BY <4>1, <2>1
        <4>4. h \in 1..(i - 1) \/ h \in i..(Len(s) - 1)
          BY <4>1, <2>1
        <4>5. QED
          BY <2>5, <3>1, <4>1, <4>2, <4>3, <4>4
      <3>2. QED
        BY <3>1 DEF IsInjective
    <2>7. ToSet(t) = ToSet(s) \ {e}
      <3>1. ASSUME NEW x \in ToSet(t) PROVE x \in ToSet(s) \ {e}
        <4>1. PICK j \in 1..(Len(s) - 1) : t[j] = x
          BY <2>5 DEF ToSet
        <4>2. PICK h \in 1..Len(s) : s[h] = x /\ h # i
          BY <4>1, <2>1, <2>5
        <4>3. QED
          BY <4>2, <2>1 DEF ToSet, IsInjective
      <3>2. ASSUME NEW x \in ToSet(s) \ {e} PROVE x \in ToSet(t)
        <4>1. PICK j \in 1..Len(s) : s[j] = x /\ j # i
          BY <2>1 DEF ToSet
        <4>2. PICK h \in 1..(Len(s) - 1) : t[h] = x
          <5>1. CASE j < i
            BY <4>1, <5>1, <2>1, <2>5
          <5>2. CASE j > i
            <6>1. j - 1 \in i..(Len(s) - 1) /\ (j - 1) + 1 = j
              BY <5>2, <4>1, <2>1
            <6>2. t[j - 1] = x
              BY <6>1, <4>1, <2>5
            <6>3. QED
              BY <6>1, <6>2
          <5>3. QED
            BY <5>1, <5>2, <4>1
        <4>3. QED
          BY <4>2, <2>5 DEF ToSet
      <3>3. QED
        BY <3>1, <3>2
    <2>8. e \in ToSet(s)
      BY <2>1 DEF ToSet
    <2>9. QED
      BY <2>5, <2>6, <2>7, <2>8 DEF t
  <1>3. QED
    BY <1>1, <1>2

\* The rest of a sequence, from some place on.
LEMMA SuffixProperties ==
  ASSUME NEW S, NEW s \in Seq(S), NEW n \in 0..Len(s), IsInjective(s)
  PROVE  /\ SubSeq(s, n + 1, Len(s)) \in Seq(S)
         /\ IsInjective(SubSeq(s, n + 1, Len(s)))
         /\ ToSet(SubSeq(s, n + 1, Len(s))) \subseteq ToSet(s)
         /\ Len(SubSeq(s, n + 1, Len(s))) = Len(s) - n
  <1> DEFINE t == SubSeq(s, n + 1, Len(s))
  <1>1. /\ t \in Seq(S) /\ Len(t) = Len(s) - n
        /\ \A j \in 1..Len(t) : t[j] = s[j + n]
    OBVIOUS
  <1> HIDE DEF t
  <1>2. IsInjective(t)
    <2>1. SUFFICES ASSUME NEW i \in 1..Len(t), NEW j \in 1..Len(t), t[i] = t[j]
                   PROVE  i = j
      BY <1>1 DEF IsInjective
    <2>2. i + n \in 1..Len(s) /\ j + n \in 1..Len(s)
      BY <1>1
    <2>3. s[i + n] = s[j + n]
      BY <1>1, <2>1
    <2>4. \A a, b \in 1..Len(s) : s[a] = s[b] => a = b
      BY DEF IsInjective
    <2>5. i + n = j + n
      BY <2>2, <2>3, <2>4
    <2>6. QED
      BY <1>1, <2>5
  <1>3. ToSet(t) \subseteq ToSet(s)
    BY <1>1 DEF ToSet
  <1>4. QED
    BY <1>1, <1>2, <1>3 DEF t

\* An element that is new goes to the end.
LEMMA AppendNewProperties ==
  ASSUME NEW S, NEW s \in Seq(S), NEW e \in S, IsInjective(s), e \notin ToSet(s)
  PROVE  /\ Append(s, e) \in Seq(S)
         /\ IsInjective(Append(s, e))
         /\ ToSet(Append(s, e)) = ToSet(s) \union {e}
         /\ Len(Append(s, e)) = Len(s) + 1
  <1> DEFINE t == Append(s, e)
  <1>1. /\ t \in Seq(S) /\ Len(t) = Len(s) + 1
        /\ \A j \in 1..Len(s) : t[j] = s[j]
        /\ t[Len(s) + 1] = e
    OBVIOUS
  <1> HIDE DEF t
  <1>2. IsInjective(t)
    BY <1>1 DEF IsInjective, ToSet
  <1>3. ToSet(t) = ToSet(s) \union {e}
    <2>1. ASSUME NEW x \in ToSet(t) PROVE x \in ToSet(s) \union {e}
      BY <1>1 DEF ToSet
    <2>2. ASSUME NEW x \in ToSet(s) \union {e} PROVE x \in ToSet(t)
      BY <1>1 DEF ToSet
    <2>3. QED
      BY <2>1, <2>2
  <1>4. QED
    BY <1>1, <1>2, <1>3 DEF t

\* A key that is used moves to the end.
LEMMA MoveToEndProperties ==
  ASSUME NEW S, NEW s \in Seq(S), NEW e \in S, IsInjective(s)
  PROVE  /\ MoveToEnd(s, e) \in Seq(S)
         /\ IsInjective(MoveToEnd(s, e))
         /\ ToSet(MoveToEnd(s, e)) = ToSet(s) \union {e}
         /\ e \in ToSet(s) => Len(MoveToEnd(s, e)) = Len(s)
  <1>1. /\ RemoveFirst(s, e) \in Seq(S)
        /\ IsInjective(RemoveFirst(s, e))
        /\ ToSet(RemoveFirst(s, e)) = ToSet(s) \ {e}
        /\ e \in ToSet(s) => Len(RemoveFirst(s, e)) = Len(s) - 1
    BY RemoveFirstProperties
  <1>2. QED
    <2> DEFINE t == RemoveFirst(s, e)
    <2>1. /\ t \in Seq(S) /\ IsInjective(t) /\ ToSet(t) = ToSet(s) \ {e}
          /\ e \in ToSet(s) => Len(t) = Len(s) - 1
      BY <1>1
    <2>2. MoveToEnd(s, e) = Append(t, e)
      BY DEF MoveToEnd
    <2> HIDE DEF t
    <2>3. QED
      BY <2>1, <2>2, AppendNewProperties

\* A sequence without an element keeps the order of the others.
LEMMA RemoveFirstKeepsOrder ==
  ASSUME NEW S, NEW s \in Seq(S), NEW e, NEW x, NEW y, IsInjective(s)
  PROVE  Precedes(RemoveFirst(s, e), x, y) <=> Precedes(s, x, y) /\ x # e /\ y # e
  <1>1. CASE ~ \E i \in 1..Len(s) : s[i] = e
    <2>1. RemoveFirst(s, e) = s
      BY <1>1 DEF RemoveFirst
    <2>2. QED
      BY <1>1, <2>1 DEF Precedes
  <1>2. CASE \E i \in 1..Len(s) : s[i] = e
    <2>1. PICK i \in 1..Len(s) : s[i] = e
      BY <1>2
    <2> DEFINE t == RemoveFirst(s, e)
    <2>2. /\ t \in Seq(S) /\ Len(t) = Len(s) - 1
          /\ \A j \in 1..(i - 1) : t[j] = s[j]
          /\ \A j \in i..(Len(s) - 1) : t[j] = s[j + 1]
      BY <2>1, RemoveFirstShape
    <2> HIDE DEF t
    <2>3. DOMAIN t = 1..(Len(s) - 1) /\ DOMAIN s = 1..Len(s) /\ Len(s) \in Nat
      BY <2>2
    <2>4. \A c, d \in 1..Len(s) : s[c] = s[d] => c = d
      BY <2>3 DEF IsInjective
    <2> DEFINE up(j) == IF j < i THEN j ELSE j + 1
               down(j) == IF j < i THEN j ELSE j - 1
    <2>5. \A j \in 1..(Len(s) - 1) : up(j) \in 1..Len(s) /\ up(j) # i /\ t[j] = s[up(j)]
      BY <2>1, <2>2, <2>3
    <2>6. \A j \in 1..Len(s) : j # i => /\ down(j) \in 1..(Len(s) - 1)
                                        /\ s[j] = t[down(j)]
      <3>1. ASSUME NEW j \in 1..Len(s), j # i
            PROVE  down(j) \in 1..(Len(s) - 1) /\ s[j] = t[down(j)]
        <4>1. CASE j < i
          BY <4>1, <2>1, <2>2, <2>3
        <4>2. CASE j > i
          <5>1. down(j) = j - 1 /\ j - 1 \in i..(Len(s) - 1) /\ (j - 1) + 1 = j
            BY <4>2, <2>1, <2>3
          <5>2. QED
            BY <5>1, <2>1, <2>2, <2>3
        <4>3. QED
          BY <3>1, <4>1, <4>2, <2>1
      <3>2. QED
        BY <3>1
    <2>7. ASSUME Precedes(t, x, y)
          PROVE  Precedes(s, x, y) /\ x # e /\ y # e
      <3>1. PICK c, d \in 1..(Len(s) - 1) : c < d /\ t[c] = x /\ t[d] = y
        BY <2>3, <2>7 DEF Precedes
      <3>2. up(c) < up(d)
        BY <2>1, <2>3, <3>1
      <3>3. /\ up(c) \in 1..Len(s) /\ up(c) # i /\ s[up(c)] = x
            /\ up(d) \in 1..Len(s) /\ up(d) # i /\ s[up(d)] = y
        BY <2>5, <3>1
      <3> HIDE DEF up
      <3>4. QED
        BY <2>1, <2>3, <2>4, <3>2, <3>3 DEF Precedes
    <2>8. ASSUME Precedes(s, x, y), x # e, y # e
          PROVE  Precedes(t, x, y)
      <3>1. PICK c, d \in 1..Len(s) : c < d /\ s[c] = x /\ s[d] = y
        BY <2>3, <2>8 DEF Precedes
      <3>2. c # i /\ d # i
        BY <2>1, <2>8, <3>1
      <3>3. down(c) < down(d)
        BY <2>1, <2>3, <3>1, <3>2
      <3>4. /\ down(c) \in 1..(Len(s) - 1) /\ t[down(c)] = x
            /\ down(d) \in 1..(Len(s) - 1) /\ t[down(d)] = y
        BY <2>6, <3>1, <3>2
      <3> HIDE DEF down
      <3>5. QED
        BY <2>3, <3>3, <3>4 DEF Precedes
    <2>9. QED
      BY <2>7, <2>8 DEF t
  <1>3. QED
    BY <1>1, <1>2

\* What is appended comes after all there was.
LEMMA AppendKeepsOrder ==
  ASSUME NEW S, NEW s \in Seq(S), NEW e \in S, NEW x, NEW y, e \notin ToSet(s)
  PROVE  Precedes(Append(s, e), x, y) <=>
           Precedes(s, x, y) \/ (x \in ToSet(s) /\ y = e)
  <1> DEFINE t == Append(s, e)
  <1>1. /\ t \in Seq(S) /\ Len(t) = Len(s) + 1
        /\ \A j \in 1..Len(s) : t[j] = s[j]
        /\ t[Len(s) + 1] = e
    OBVIOUS
  <1>2. DOMAIN t = 1..(Len(s) + 1) /\ DOMAIN s = 1..Len(s) /\ Len(s) \in Nat
    BY <1>1
  <1> HIDE DEF t
  <1>3. \A j \in 1..Len(s) : s[j] # e
    BY <1>2 DEF ToSet
  <1>4. ASSUME Precedes(t, x, y)
        PROVE  Precedes(s, x, y) \/ (x \in ToSet(s) /\ y = e)
    <2>1. PICK c, d \in 1..(Len(s) + 1) : c < d /\ t[c] = x /\ t[d] = y
      BY <1>2, <1>4 DEF Precedes
    <2>2. c \in 1..Len(s) /\ s[c] = x
      BY <1>1, <1>2, <2>1
    <2>3. x \in ToSet(s)
      BY <1>2, <2>2 DEF ToSet
    <2>4. CASE d = Len(s) + 1
      BY <1>1, <2>1, <2>3, <2>4
    <2>5. CASE d # Len(s) + 1
      <3>1. d \in 1..Len(s) /\ s[d] = y
        BY <1>1, <1>2, <2>1, <2>5
      <3>2. QED
        BY <1>2, <2>1, <2>2, <3>1 DEF Precedes
    <2>6. QED
      BY <2>4, <2>5
  <1>5. ASSUME Precedes(s, x, y)
        PROVE  Precedes(t, x, y)
    <2>1. PICK c, d \in 1..Len(s) : c < d /\ s[c] = x /\ s[d] = y
      BY <1>2, <1>5 DEF Precedes
    <2>2. c \in 1..(Len(s) + 1) /\ d \in 1..(Len(s) + 1) /\ t[c] = x /\ t[d] = y
      BY <1>1, <1>2, <2>1
    <2>3. QED
      BY <1>2, <2>1, <2>2 DEF Precedes
  <1>6. ASSUME x \in ToSet(s), y = e
        PROVE  Precedes(t, x, y)
    <2>1. PICK c \in 1..Len(s) : s[c] = x
      BY <1>2, <1>6 DEF ToSet
    <2>2. /\ c \in 1..(Len(s) + 1) /\ Len(s) + 1 \in 1..(Len(s) + 1) /\ c < Len(s) + 1
          /\ t[c] = x /\ t[Len(s) + 1] = y
      BY <1>1, <1>2, <1>6, <2>1
    <2>3. QED
      BY <1>2, <2>2 DEF Precedes
  <1>7. QED
    BY <1>4, <1>5, <1>6 DEF t

\* A key that is used comes after all others.
LEMMA MoveToEndOrder ==
  ASSUME NEW S, NEW s \in Seq(S), NEW e \in S, NEW x, NEW y, IsInjective(s)
  PROVE  Precedes(MoveToEnd(s, e), x, y) <=>
           \/ Precedes(s, x, y) /\ x # e /\ y # e
           \/ x \in ToSet(s) \ {e} /\ y = e
  <1> DEFINE t == RemoveFirst(s, e)
  <1>1. t \in Seq(S) /\ ToSet(t) = ToSet(s) \ {e}
    BY RemoveFirstProperties
  <1>2. Precedes(t, x, y) <=> Precedes(s, x, y) /\ x # e /\ y # e
    BY RemoveFirstKeepsOrder
  <1>3. MoveToEnd(s, e) = Append(t, e)
    BY DEF MoveToEnd
  <1> HIDE DEF t
  <1>4. e \notin ToSet(t)
    BY <1>1
  <1>5. Precedes(Append(t, e), x, y) <=> Precedes(t, x, y) \/ (x \in ToSet(t) /\ y = e)
    BY <1>1, <1>4, AppendKeepsOrder
  <1>6. QED
    BY <1>1, <1>2, <1>3, <1>5

\* The first n of a sequence without repetition, and the others.
UpTo(s, n) == {s[j] : j \in 1..n}
Beyond(s, n) == {s[j] : j \in (n + 1)..Len(s)}

\* Cutting a sequence in two.
LEMMA CutAt ==
  ASSUME NEW S, NEW s \in Seq(S), NEW n \in 0..Len(s), IsInjective(s)
  PROVE  /\ ToSet(SubSeq(s, 1, n)) = UpTo(s, n)
         /\ ToSet(SubSeq(s, n + 1, Len(s))) = Beyond(s, n)
         /\ UpTo(s, n) \union Beyond(s, n) = ToSet(s)
         /\ UpTo(s, n) \intersect Beyond(s, n) = {}
  <1>0. n \in Nat /\ Len(s) \in Nat /\ n <= Len(s) /\ DOMAIN s = 1..Len(s)
    OBVIOUS
  <1>1. ToSet(SubSeq(s, 1, n)) = UpTo(s, n)
    <2> DEFINE t == SubSeq(s, 1, n)
    <2>1. t \in Seq(S) /\ Len(t) = n /\ \A j \in 1..n : t[j] = s[j]
      OBVIOUS
    <2>2. DOMAIN t = 1..n
      BY <2>1
    <2> HIDE DEF t
    <2>3. QED
      BY <2>1, <2>2 DEF ToSet, UpTo, t
  <1>2. ToSet(SubSeq(s, n + 1, Len(s))) = Beyond(s, n)
    <2> DEFINE t == SubSeq(s, n + 1, Len(s))
    <2>1. t \in Seq(S) /\ Len(t) = Len(s) - n /\ \A j \in 1..(Len(s) - n) : t[j] = s[j + n]
      OBVIOUS
    <2>2. DOMAIN t = 1..(Len(s) - n)
      BY <2>1
    <2> HIDE DEF t
    <2>3. ASSUME NEW x \in ToSet(t) PROVE x \in Beyond(s, n)
      <3>1. PICK j \in 1..(Len(s) - n) : x = t[j]
        BY <2>2 DEF ToSet
      <3>2. j + n \in (n + 1)..Len(s) /\ x = s[j + n]
        BY <1>0, <2>1, <3>1
      <3>3. QED
        BY <3>2 DEF Beyond
    <2>4. ASSUME NEW x \in Beyond(s, n) PROVE x \in ToSet(t)
      <3>1. PICK j \in (n + 1)..Len(s) : x = s[j]
        BY DEF Beyond
      <3>2. j - n \in 1..(Len(s) - n) /\ (j - n) + n = j
        BY <1>0, <3>1
      <3>3. x = t[j - n]
        BY <2>1, <3>1, <3>2
      <3>4. QED
        BY <2>2, <3>2, <3>3 DEF ToSet
    <2>5. QED
      BY <2>3, <2>4 DEF t
  <1>3. UpTo(s, n) \union Beyond(s, n) = ToSet(s)
    BY <1>0 DEF UpTo, Beyond, ToSet
  <1>4. UpTo(s, n) \intersect Beyond(s, n) = {}
    BY <1>0 DEF UpTo, Beyond, IsInjective
  <1>5. QED
    BY <1>1, <1>2, <1>3, <1>4

\* The order of the elements of the rest is that of the whole.
LEMMA SuffixKeepsOrder ==
  ASSUME NEW S, NEW s \in Seq(S), NEW n \in 0..Len(s), NEW x, NEW y,
         Precedes(SubSeq(s, n + 1, Len(s)), x, y)
  PROVE  Precedes(s, x, y)
  <1> DEFINE t == SubSeq(s, n + 1, Len(s))
  <1>1. t \in Seq(S) /\ Len(t) = Len(s) - n /\ \A j \in 1..(Len(s) - n) : t[j] = s[j + n]
    OBVIOUS
  <1>2. DOMAIN t = 1..(Len(s) - n) /\ DOMAIN s = 1..Len(s) /\ Len(s) \in Nat /\ n \in Nat
    BY <1>1
  <1>3. PICK c, d \in DOMAIN t : c < d /\ t[c] = x /\ t[d] = y
    BY DEF Precedes
  <1> HIDE DEF t
  <1>4. /\ c + n \in 1..Len(s) /\ d + n \in 1..Len(s) /\ c + n < d + n
        /\ s[c + n] = x /\ s[d + n] = y
    BY <1>1, <1>2, <1>3
  <1>5. QED
    BY <1>2, <1>4 DEF Precedes

\* A sequence without repetition has as many elements as places.
LEMMA AsManyAsPlaces ==
  ASSUME NEW S, NEW s \in Seq(S), IsInjective(s)
  PROVE  IsFiniteSet(ToSet(s)) /\ Cardinality(ToSet(s)) = Len(s)
  <1>1. DOMAIN s = 1..Len(s) /\ Len(s) \in Nat
    OBVIOUS
  <1>2. s \in Bijection(1..Len(s), ToSet(s))
    <2>1. s \in [1..Len(s) -> ToSet(s)]
      BY <1>1 DEF ToSet
    <2>2. \A c, d \in 1..Len(s) : s[c] = s[d] => c = d
      BY <1>1 DEF IsInjective
    <2>3. \A x \in ToSet(s) : \E c \in 1..Len(s) : s[c] = x
      BY <1>1 DEF ToSet
    <2>4. QED
      BY <2>1, <2>2, <2>3 DEF Bijection, Injection, Surjection, IsInjective
  <1>3. ExistsBijection(1..Len(s), ToSet(s))
    BY <1>2 DEF ExistsBijection
  <1>4. QED
    BY <1>1, <1>3, FS_NatBijection, FS_CountingElements

-----------------------------------------------------------------------------
(* The inductive invariant.                                                *)

\* The order lists the cached keys, and so does the history without repetition.
Lists ==
  /\ Listed
  /\ IsInjective(log.uses)

\* The past lies behind, a request knows its key, and only some look it up.
Past ==
  /\ \A v \in Versions : ended[v] <= now
  /\ \A w \in Workers : work[w].began <= now
  /\ \A w \in Workers : ~ At(w, "ready") => Key(w) \in Keys
  /\ \A w \in Workers : At(w, "lookup") => ~ work[w].bypass

\* What a request has read was the truth since it came in.
ReadRecent ==
  \A w \in Workers : At(w, "loaded") =>
    /\ work[w].version \in Versions
    /\ CurrentSince(work[w].version, work[w].began)

\* What is cached was the truth a TTL and the slowest request before it expires.
CachedRecent ==
  \A k \in Cached :
    /\ entries[k].expires <= now + TTL
    /\ CurrentSince(entries[k].version, entries[k].expires - TTL - log.slowest)

CacheInv == TypeOK /\ Lists /\ Past /\ ReadRecent /\ CachedRecent

-----------------------------------------------------------------------------
(* The steps.                                                              *)

\* A step that leaves the cache, its history, the clock and the tables alone.
Quiet == UNCHANGED <<order, entries, now, version, ended, log>>

\* Such a step keeps what is said of them.
LEMMA QuietStep ==
  ASSUME CacheInv, Quiet
  PROVE  Lists' /\ CachedRecent'
  BY DEF Quiet, CacheInv, Lists, Listed, CachedRecent, CurrentSince, Cached

\* What is said of the requests holds for a new value of one of them.
LEMMA WorkStep ==
  ASSUME CacheInv, NEW w \in Workers, NEW r \in Work,
         UNCHANGED <<now, version, ended>>,
         work' = [work EXCEPT ![w] = r],
         r.began <= now,
         r.phase # "ready" => r.key \in Keys,
         r.phase = "lookup" => ~ r.bypass,
         r.phase = "loaded" => r.version \in Versions /\ CurrentSince(r.version, r.began)
  PROVE  work' \in [Workers -> Work] /\ Past' /\ ReadRecent'
  <1>1. work' \in [Workers -> Work]
    BY DEF CacheInv, TypeOK
  <1>2. \A x \in Workers : work'[x] = IF x = w THEN r ELSE work[x]
    BY DEF CacheInv, TypeOK
  <1>3. Past'
    BY <1>2 DEF CacheInv, Past, At, Key
  <1>4. ReadRecent'
    BY <1>2 DEF CacheInv, ReadRecent, At, CurrentSince
  <1>5. QED
    BY <1>1, <1>3, <1>4

\* A request that has been answered.
LEMMA ReplyStep ==
  ASSUME CacheInv, NEW w \in Workers, NEW v \in Versions \union {NoVersion},
         Reply(w, v), UNCHANGED <<now, version, ended>>
  PROVE  work' \in [Workers -> Work] /\ Past' /\ ReadRecent'
  <1> DEFINE r == Ready(v)
  <1>1. r \in Work /\ r.began = 0 /\ r.phase = "ready"
    BY DEF Ready, Work
  <1>2. now \in Nat
    BY CacheAssumption DEF CacheInv, TypeOK
  <1>3. work' = [work EXCEPT ![w] = r]
    BY DEF Reply
  <1>4. r.began <= now /\ r.phase # "loaded" /\ r.phase # "lookup"
    BY <1>1, <1>2
  <1> HIDE DEF r
  <1>5. QED
    BY <1>1, <1>3, <1>4, WorkStep

\* A request that goes on to load.
LEMMA LoadStep ==
  ASSUME CacheInv, NEW w \in Workers, At(w, "lookup"),
         Goto(w, "load"), UNCHANGED <<now, version, ended>>
  PROVE  work' \in [Workers -> Work] /\ Past' /\ ReadRecent'
  <1> DEFINE r == [work[w] EXCEPT !.phase = "load"]
  <1>1. work[w] \in Work /\ work[w].began <= now /\ Key(w) \in Keys
    BY DEF CacheInv, TypeOK, Past, At
  <1>2. r \in Work /\ r.began = work[w].began /\ r.phase = "load" /\ r.key = work[w].key
    BY <1>1 DEF Work
  <1>3. work' = [work EXCEPT ![w] = r]
    BY DEF Goto
  <1> HIDE DEF r
  <1>4. QED
    BY <1>1, <1>2, <1>3, WorkStep DEF Key

\* The log of a cache hit or a store: the key was used, nothing else changes or
\* the slowest request is a slower one.
LEMMA UseStep ==
  ASSUME CacheInv, NEW k \in Keys
  PROVE  /\ MoveToEnd(log.uses, k) \in Seq(Keys)
         /\ IsInjective(MoveToEnd(log.uses, k))
  BY MoveToEndProperties DEF CacheInv, TypeOK, Log, Lists

\* The log of a hit keeps its types.
LEMMA LogTypes ==
  ASSUME NEW l \in Log, NEW m \in Seq(Keys), NEW n \in Nat
  PROVE  [l EXCEPT !.uses = m, !.lookups = n] \in Log
  BY DEF Log

\* Cached payloads stay recent when none is new and the slowest is no faster.
LEMMA RecentStep ==
  ASSUME CacheInv, UNCHANGED <<now, version, ended>>,
         DOMAIN entries' \subseteq Cached,
         \A k \in DOMAIN entries' : entries'[k] = entries[k],
         log'.slowest = log.slowest
  PROVE  CachedRecent'
  BY DEF CacheInv, CachedRecent, CurrentSince, Cached

\* The initial state.
LEMMA InitHolds ==
  ASSUME Init
  PROVE  CacheInv
  <1>1. TypeOK
    BY CacheAssumption
    DEF Init, TypeOK, Cached, Counters, Ready, Work, Versions, Log
  <1>2. Lists
    BY CacheAssumption DEF Init, Lists, Listed, IsInjective, ToSet, Cached
  <1>3. Past /\ ReadRecent
    BY CacheAssumption DEF Init, Past, ReadRecent, Ready, At, Versions
  <1>4. CachedRecent
    BY DEF Init, CachedRecent, Cached
  <1>5. QED
    BY <1>1, <1>2, <1>3, <1>4 DEF CacheInv

\* A new request.
LEMMA RequestStep ==
  ASSUME CacheInv, NEW w \in Workers, NEW k \in Keys, NEW bypass \in BOOLEAN,
         Request(w, k, bypass)
  PROVE  CacheInv'
  <1> USE DEF Request, cache
  <1> DEFINE r == [phase |-> IF bypass THEN "load" ELSE "lookup", key |-> k,
                   bypass |-> bypass, began |-> now, version |-> NoVersion]
  <1>1. now \in Nat
    BY CacheAssumption DEF CacheInv, TypeOK
  <1>2. /\ r \in Work /\ r.began <= now /\ r.key = k /\ r.phase # "loaded"
        /\ r.phase = "lookup" => ~ r.bypass
    BY <1>1 DEF Work
  <1>3. work' = [work EXCEPT ![w] = r]
    OBVIOUS
  <1> HIDE DEF r
  <1>4. work' \in [Workers -> Work] /\ Past' /\ ReadRecent'
    <2>1. UNCHANGED <<now, version, ended>>
      OBVIOUS
    <2>2. QED
      BY <2>1, <1>2, <1>3, WorkStep
  <1>5. Lists' /\ CachedRecent'
    BY QuietStep DEF Quiet
  <1>6. TypeOK'
    BY <1>4, CacheAssumption DEF CacheInv, TypeOK, Cached
  <1>7. QED
    BY <1>4, <1>5, <1>6 DEF CacheInv

\* A hit moves a key and answers.
LEMMA HitStep ==
  ASSUME CacheInv, NEW w \in Workers, Hit(w)
  PROVE  CacheInv'
  <1>1. Key(w) \in Cached /\ Key(w) \in Keys /\ entries[Key(w)] \in Entry
    BY DEF CacheInv, TypeOK, Hit
  <1>2. entries[Key(w)].version \in Versions \union {NoVersion}
    BY <1>1 DEF Entry
  <1>3. work' \in [Workers -> Work] /\ Past' /\ ReadRecent'
    BY <1>2, ReplyStep DEF Hit
  <1>4. /\ order \in Seq(Keys) /\ IsInjective(order) /\ ToSet(order) = Cached
        /\ Len(order) <= MaxEntries
    BY DEF CacheInv, TypeOK, Lists, Listed
  <1>5. order' = MoveToEnd(order, Key(w)) /\ Cached' = Cached
    BY DEF Hit, Cached, Touched
  <1>6. /\ order' \in Seq(Keys) /\ IsInjective(order') /\ ToSet(order') = Cached'
        /\ Len(order') <= MaxEntries
    <2>1. /\ MoveToEnd(order, Key(w)) \in Seq(Keys)
          /\ IsInjective(MoveToEnd(order, Key(w)))
          /\ ToSet(MoveToEnd(order, Key(w))) = Cached \union {Key(w)}
          /\ Len(MoveToEnd(order, Key(w))) = Len(order)
      BY <1>1, <1>4, MoveToEndProperties
    <2>2. QED
      BY <1>1, <1>4, <1>5, <2>1
  <1>7. log' \in Log /\ IsInjective(log'.uses) /\ log'.slowest = log.slowest
    <2>1. /\ MoveToEnd(log.uses, Key(w)) \in Seq(Keys)
          /\ IsInjective(MoveToEnd(log.uses, Key(w)))
      BY <1>1, UseStep
    <2>2. log' = [log EXCEPT !.uses = MoveToEnd(log.uses, Key(w)), !.lookups = @ + 1]
      BY DEF Hit
    <2>3. log \in Log
      BY DEF CacheInv, TypeOK
    <2> DEFINE m == MoveToEnd(log.uses, Key(w))
    <2>4. m \in Seq(Keys) /\ log' = [log EXCEPT !.uses = m, !.lookups = @ + 1]
      BY <2>1, <2>2
    <2> HIDE DEF m
    <2>5. [log EXCEPT !.uses = m, !.lookups = @ + 1] \in Log
      <3>1. log.lookups + 1 \in Nat
        BY <2>3 DEF Log
      <3>2. QED
        BY <2>3, <2>4, <3>1, LogTypes
    <2>6. log'.uses = m /\ log'.slowest = log.slowest
      BY <2>3, <2>4 DEF Log
    <2>7. QED
      BY <2>1, <2>4, <2>5, <2>6 DEF m
  <1>8. Lists'
    BY <1>6, <1>7 DEF Lists, Listed
  <1>9. CachedRecent'
    BY <1>5, <1>7, RecentStep DEF Cached, Hit
  <1>10. TypeOK'
    BY <1>3, <1>5, <1>6, <1>7 DEF CacheInv, TypeOK, Cached, Counters, Hit
  <1>11. QED
    BY <1>3, <1>8, <1>9, <1>10 DEF CacheInv

\* An entry that has expired goes.
LEMMA ExpireStep ==
  ASSUME CacheInv, NEW w \in Workers, Expire(w)
  PROVE  CacheInv'
  <1>1. Key(w) \in Cached /\ Key(w) \in Keys
    BY DEF CacheInv, TypeOK, Expire
  <1>2. work' \in [Workers -> Work] /\ Past' /\ ReadRecent'
    BY LoadStep DEF Expire
  <1>3. /\ Cached' = Cached \ {Key(w)}
        /\ \A k \in Cached' : entries'[k] = entries[k]
    BY DEF Expire, Cached, Without
  <1>4. /\ order \in Seq(Keys) /\ IsInjective(order) /\ ToSet(order) = Cached
        /\ Len(order) <= MaxEntries
    BY DEF CacheInv, TypeOK, Lists, Listed
  <1>5. /\ order' \in Seq(Keys) /\ IsInjective(order') /\ ToSet(order') = Cached'
        /\ Len(order') <= MaxEntries
    <2>1. order' = RemoveFirst(order, Key(w))
      BY DEF Expire
    <2>2. /\ order' \in Seq(Keys) /\ IsInjective(order')
          /\ ToSet(order') = Cached \ {Key(w)}
          /\ Len(order') = IF Key(w) \in Cached THEN Len(order) - 1 ELSE Len(order)
      BY <1>4, <2>1, RemoveFirstProperties
    <2>3. QED
      BY <1>1, <1>3, <1>4, <2>2, CacheAssumption
  <1>6. log' \in Log /\ log'.uses = log.uses /\ log'.slowest = log.slowest
    <2>1. log \in Log /\ log' = [log EXCEPT !.lookups = @ + 1]
      BY DEF CacheInv, TypeOK, Expire
    <2>2. [log EXCEPT !.lookups = @ + 1] \in Log
      BY <2>1 DEF Log
    <2>3. log'.uses = log.uses /\ log'.slowest = log.slowest
      BY <2>1 DEF Log
    <2>4. QED
      BY <2>1, <2>2, <2>3
  <1>7. Lists'
    BY <1>5, <1>6 DEF CacheInv, Lists, Listed
  <1>8. CachedRecent'
    <2>1. UNCHANGED <<now, version, ended>> /\ DOMAIN entries' \subseteq Cached
      BY <1>3 DEF Expire, Cached
    <2>2. QED
      BY <1>3, <1>6, <2>1, RecentStep DEF Cached
  <1>9. TypeOK'
    <2>1. stats' \in [Counters -> Nat]
      <3>1. stats \in [Counters -> Nat]
        BY DEF CacheInv, TypeOK
      <3>2. stats' = [stats EXCEPT !["expirations"] = @ + 1, !["misses"] = @ + 1]
        BY DEF Expire
      <3>3. QED
        BY <3>1, <3>2 DEF Counters
    <2>2. Cached' \subseteq Keys /\ \A k \in Cached' : entries'[k] \in Entry
      BY <1>3 DEF CacheInv, TypeOK
    <2>3. UNCHANGED <<requests, faults, now, version, ended>>
      BY DEF Expire
    <2>4. QED
      BY <1>2, <1>5, <1>6, <2>1, <2>2, <2>3 DEF CacheInv, TypeOK
  <1>10. QED
    BY <1>2, <1>7, <1>8, <1>9 DEF CacheInv

\* What the store leaves of the cache, without the key and without the first n
\* of the rest.
LEMMA LeftProperties ==
  ASSUME CacheInv, NEW k \in Keys, NEW n \in 0..Len(RemoveFirst(order, k)),
         n = Len(RemoveFirst(order, k)) \/ Len(RemoveFirst(order, k)) - n < MaxEntries
  PROVE  LET rest == RemoveFirst(order, k)
             left == SubSeq(rest, n + 1, Len(rest))
         IN /\ ToSet(left) \subseteq Cached \ {k}
            /\ Append(left, k) \in Seq(Keys)
            /\ IsInjective(Append(left, k))
            /\ ToSet(Append(left, k)) = ToSet(left) \union {k}
            /\ Len(Append(left, k)) <= MaxEntries
  <1> DEFINE rest == RemoveFirst(order, k)
             left == SubSeq(rest, n + 1, Len(rest))
  <1>1. order \in Seq(Keys) /\ IsInjective(order) /\ ToSet(order) = Cached
    BY DEF CacheInv, TypeOK, Lists, Listed
  <1>2. rest \in Seq(Keys) /\ IsInjective(rest) /\ ToSet(rest) = Cached \ {k}
    BY <1>1, RemoveFirstProperties
  <1>3. n \in 0..Len(rest) /\ (n = Len(rest) \/ Len(rest) - n < MaxEntries)
    OBVIOUS
  <1> HIDE DEF rest
  <1>4. /\ left \in Seq(Keys) /\ IsInjective(left) /\ ToSet(left) \subseteq Cached \ {k}
        /\ Len(left) = Len(rest) - n
    BY <1>2, <1>3, SuffixProperties
  <1>5. Len(left) < MaxEntries
    BY <1>2, <1>3, <1>4, CacheAssumption
  <1> HIDE DEF left
  <1>6. k \notin ToSet(left)
    BY <1>4
  <1>7. /\ Append(left, k) \in Seq(Keys)
        /\ IsInjective(Append(left, k))
        /\ ToSet(Append(left, k)) = ToSet(left) \union {k}
        /\ Len(Append(left, k)) = Len(left) + 1
    BY <1>4, <1>6, AppendNewProperties
  <1>8. Len(Append(left, k)) <= MaxEntries
    BY <1>4, <1>5, <1>7, CacheAssumption
  <1>9. QED
    BY <1>4, <1>7, <1>8 DEF left, rest

\* A payload that was the truth since its request came in is stored.
LEMMA StoreStep ==
  ASSUME CacheInv, NEW w \in Workers, Store(w)
  PROVE  CacheInv'
  <1> DEFINE k    == Key(w)
             v    == work[w].version
             new  == [version |-> v, expires |-> now + TTL]
             rest == RemoveFirst(order, k)
  <1>1. /\ At(w, "loaded") /\ k \in Keys /\ v \in Versions
        /\ work[w].began \in Nat /\ work[w].began <= now /\ CurrentSince(v, work[w].began)
    <2>1. At(w, "loaded")
      BY DEF Store
    <2>2. work[w] \in Work
      BY DEF CacheInv, TypeOK
    <2>3. QED
      BY <2>1, <2>2 DEF CacheInv, Past, ReadRecent, At, Work
  <1>2. now \in Nat /\ log \in Log /\ TTL \in Nat
    BY CacheAssumption DEF CacheInv, TypeOK
  <1>3. PICK n \in 0..Len(rest) :
          LET left == SubSeq(rest, n + 1, Len(rest)) IN
          /\ n = Len(rest) \/ Len(rest) - n < MaxEntries
          /\ order' = Append(left, k)
          /\ entries' = [x \in ToSet(left) \union {k} |->
                          IF x = k THEN new ELSE entries[x]]
          /\ stats' = [stats EXCEPT !["evictions"] = @ + n]
    BY DEF Store, Evictions, HasRoom
  <1> DEFINE left == SubSeq(rest, n + 1, Len(rest))
  <1>4. /\ ToSet(left) \subseteq Cached \ {k}
        /\ order' \in Seq(Keys) /\ IsInjective(order')
        /\ ToSet(order') = ToSet(left) \union {k}
        /\ Len(order') <= MaxEntries
    BY <1>1, <1>3, LeftProperties
  <1>5. /\ Cached' = ToSet(left) \union {k}
        /\ entries'[k] = new
        /\ \A x \in Cached' : x # k => x \in Cached /\ entries'[x] = entries[x]
    BY <1>3, <1>4 DEF Cached
  <1>6. /\ log' \in Log /\ IsInjective(log'.uses)
        /\ log'.slowest = Larger(log.slowest, now - work[w].began)
    <2> DEFINE m == MoveToEnd(log.uses, k)
               s == Larger(log.slowest, now - work[w].began)
               r == log.replaced + Cardinality({k} \intersect Cached)
    <2>1. m \in Seq(Keys) /\ IsInjective(m)
      BY <1>1, UseStep
    <2>2. s \in Nat
      BY <1>1, <1>2 DEF Larger, Log
    <2>3. r \in Nat
      <3>1. IsFiniteSet({k} \intersect Cached)
        BY FS_Singleton, FS_Intersection
      <3>2. Cardinality({k} \intersect Cached) \in Nat
        BY <3>1, FS_CardinalityType
      <3>3. QED
        BY <1>2, <3>2 DEF Log
    <2>4. log' = [uses |-> m, slowest |-> s, lookups |-> log.lookups,
                  stored |-> log.stored + 1, replaced |-> r]
      BY DEF Store
    <2> HIDE DEF m, s, r
    <2>5. log' \in Log /\ log'.uses = m /\ log'.slowest = s
      BY <1>2, <2>1, <2>2, <2>3, <2>4 DEF Log
    <2>6. QED
      BY <2>1, <2>5 DEF s
  <1>7. UNCHANGED <<requests, faults, now, version, ended>>
    BY DEF Store
  <1>8. work' \in [Workers -> Work] /\ Past' /\ ReadRecent'
    BY <1>1, <1>7, ReplyStep DEF Store
  <1> HIDE DEF rest, left, k, v
  <1>9. Lists'
    BY <1>4, <1>5, <1>6 DEF Lists, Listed
  <1>10. CachedRecent'
    <2>1. log.slowest \in Nat /\ log'.slowest \in Nat
      BY <1>2, <1>6 DEF Log
    <2>2. /\ log.slowest <= log'.slowest
          /\ now - work[w].began <= log'.slowest
      BY <1>1, <1>2, <1>6, <2>1 DEF Larger
    <2>3. \A x \in Versions : ended[x] \in Nat
      BY CacheAssumption DEF CacheInv, TypeOK
    <2>4. ASSUME NEW x \in Cached', x # k
          PROVE  /\ entries'[x].expires <= now + TTL
                 /\ CurrentSince(entries'[x].version,
                                 entries'[x].expires - TTL - log'.slowest)
      <3>1. x \in Cached /\ entries'[x] = entries[x] /\ entries[x] \in Entry
        BY <1>5, <2>4 DEF CacheInv, TypeOK
      <3>2. entries[x].version \in Versions /\ entries[x].expires \in Nat
        BY <3>1 DEF Entry
      <3>3. /\ entries[x].expires <= now + TTL
            /\ CurrentSince(entries[x].version, entries[x].expires - TTL - log.slowest)
        BY <3>1 DEF CacheInv, CachedRecent
      <3>4. QED
        BY <1>2, <2>1, <2>2, <2>3, <3>1, <3>2, <3>3 DEF CurrentSince
    <2>5. new.expires = now + TTL /\ new.version = v
      OBVIOUS
    <2>6. CurrentSince(v, (now + TTL) - TTL - log'.slowest)
      BY <1>1, <1>2, <2>1, <2>2, <2>3 DEF CurrentSince
    <2> HIDE DEF new
    <2>7. QED
      BY <1>2, <1>5, <1>7, <2>4, <2>5, <2>6 DEF CachedRecent, CurrentSince
  <1>11. TypeOK'
    <2>1. \A x \in Cached' : entries'[x] \in Entry
      <3>1. new \in Entry
        BY <1>1, <1>2 DEF Entry
      <3>2. QED
        BY <1>5, <3>1 DEF CacheInv, TypeOK
    <2>2. Cached' \subseteq Keys
      BY <1>1, <1>4, <1>5 DEF CacheInv, TypeOK
    <2>3. stats' \in [Counters -> Nat]
      <3>1. Len(rest) \in Nat
        BY <1>1, RemoveFirstProperties DEF rest, CacheInv, TypeOK, Lists, Listed
      <3>2. n \in Nat
        BY <3>1
      <3>3. stats' = [stats EXCEPT !["evictions"] = @ + n]
        BY <1>3
      <3>4. stats \in [Counters -> Nat]
        BY DEF CacheInv, TypeOK
      <3>5. QED
        BY <3>2, <3>3, <3>4 DEF Counters
    <2>4. QED
      BY <1>4, <1>6, <1>7, <1>8, <2>1, <2>2, <2>3 DEF CacheInv, TypeOK
  <1>12. QED
    BY <1>8, <1>9, <1>10, <1>11 DEF CacheInv

\* The query reads what is true now.
LEMMA QueryStep ==
  ASSUME CacheInv, NEW w \in Workers, Query(w)
  PROVE  CacheInv'
  <1> DEFINE r == [work[w] EXCEPT !.phase = "loaded", !.version = version]
  <1>1. work[w] \in Work /\ work[w].began <= now /\ Key(w) \in Keys /\ version \in Versions
    BY DEF CacheInv, TypeOK, Past, At, Query
  <1>2. /\ r.began = work[w].began /\ r.key = work[w].key
        /\ r.version = version /\ r.phase = "loaded"
    BY <1>1 DEF Work
  <1>3. r \in Work
    BY <1>1 DEF Work
  <1>4. work' = [work EXCEPT ![w] = r]
    BY DEF CacheInv, TypeOK, Query
  <1>5. CurrentSince(r.version, r.began)
    BY <1>2 DEF CurrentSince
  <1>6. UNCHANGED <<now, version, ended>>
    BY DEF Query
  <1> HIDE DEF r
  <1>7. work' \in [Workers -> Work] /\ Past' /\ ReadRecent'
    BY <1>1, <1>2, <1>3, <1>4, <1>5, <1>6, WorkStep DEF Key
  <1>8. Lists' /\ CachedRecent'
    BY QuietStep DEF Quiet, Query, cache
  <1>9. TypeOK'
    BY <1>7 DEF CacheInv, TypeOK, Cached, Query, cache
  <1>10. QED
    BY <1>7, <1>8, <1>9 DEF CacheInv

\* A request goes on, or is answered, without the cache.
LEMMA AsideStep ==
  ASSUME CacheInv, NEW w \in Workers,
         \/ Miss(w) \/ ReadFails(w) \/ QueryFails(w)
         \/ AnswerUncached(w) \/ WriteFails(w) \/ Reject(w)
  PROVE  CacheInv'
  <1>1. UNCHANGED <<order, entries, requests, now, version, ended>>
    BY DEF Miss, ReadFails, QueryFails, AnswerUncached, WriteFails, Reject, cache
  <1>2. work' \in [Workers -> Work] /\ Past' /\ ReadRecent'
    <2>1. CASE Miss(w) \/ ReadFails(w)
      BY <1>1, <2>1, LoadStep DEF Miss, ReadFails
    <2>2. CASE QueryFails(w)
      BY <1>1, <2>2, ReplyStep DEF QueryFails
    <2>3. CASE AnswerUncached(w) \/ WriteFails(w) \/ Reject(w)
      <3>1. Reply(w, work[w].version) /\ At(w, "loaded")
        BY <2>3 DEF AnswerUncached, WriteFails, Reject
      <3>2. work[w].version \in Versions
        BY <3>1 DEF CacheInv, ReadRecent
      <3>3. QED
        BY <1>1, <3>1, <3>2, ReplyStep
    <2>4. QED
      BY <2>1, <2>2, <2>3
  <1>3. log' \in Log /\ log'.uses = log.uses /\ log'.slowest = log.slowest
    <2>1. log \in Log
      BY DEF CacheInv, TypeOK
    <2>2. CASE log' = log
      BY <2>1, <2>2
    <2>3. CASE log' = [log EXCEPT !.lookups = @ + 1]
      <3>1. [log EXCEPT !.lookups = @ + 1] \in Log
        BY <2>1 DEF Log
      <3>2. log'.uses = log.uses /\ log'.slowest = log.slowest
        BY <2>1, <2>3 DEF Log
      <3>3. QED
        BY <2>3, <3>1, <3>2
    <2>4. QED
      BY <2>2, <2>3 DEF Miss, ReadFails, QueryFails, AnswerUncached, WriteFails, Reject
  <1>4. stats' \in [Counters -> Nat] /\ faults' \in 0..MaxFaults
    <2>1. stats \in [Counters -> Nat] /\ faults \in 0..MaxFaults
      BY DEF CacheInv, TypeOK
    <2>2. \/ stats' = stats
          \/ stats' = [stats EXCEPT !["misses"] = @ + 1]
          \/ stats' = [stats EXCEPT !["rejected"] = @ + 1]
      BY DEF Miss, ReadFails, QueryFails, AnswerUncached, WriteFails, Reject
    <2>3. faults' = faults \/ (faults < MaxFaults /\ faults' = faults + 1)
      BY DEF Miss, ReadFails, QueryFails, AnswerUncached, WriteFails, Reject, Fault
    <2>4. stats' \in [Counters -> Nat]
      BY <2>1, <2>2 DEF Counters
    <2>5. faults' \in 0..MaxFaults
      BY <2>1, <2>3, CacheAssumption
    <2>6. QED
      BY <2>4, <2>5
  <1>5. Lists'
    BY <1>1, <1>3 DEF CacheInv, Lists, Listed, Cached
  <1>6. CachedRecent'
    BY <1>1, <1>3, RecentStep DEF Cached
  <1>7. TypeOK'
    BY <1>1, <1>2, <1>3, <1>4 DEF CacheInv, TypeOK, Cached
  <1>8. QED
    BY <1>2, <1>5, <1>6, <1>7 DEF CacheInv

\* Time passes.
LEMMA TickStep ==
  ASSUME CacheInv, Tick
  PROVE  CacheInv'
  <1>1. /\ now \in 0..MaxTime /\ now' = now + 1 /\ now < MaxTime
        /\ UNCHANGED <<order, entries, total, stats, work, requests, faults, version, ended, log>>
    BY DEF CacheInv, TypeOK, Tick, cache
  <1>2. TypeOK'
    BY <1>1, CacheAssumption DEF CacheInv, TypeOK, Cached
  <1>3. Lists' /\ ReadRecent'
    BY <1>1 DEF CacheInv, Lists, Listed, ReadRecent, CurrentSince, At, Cached
  <1>4. Past'
    <2>1. \A v \in Versions : ended[v] \in 0..MaxTime
      BY DEF CacheInv, TypeOK
    <2>2. \A w \in Workers : work[w].began \in Nat
      BY DEF CacheInv, TypeOK, Work
    <2>3. QED
      BY <1>1, <2>1, <2>2, CacheAssumption DEF CacheInv, Past, At, Key
  <1>5. CachedRecent'
    <2>1. \A k \in Cached : entries[k].expires \in Nat
      BY DEF CacheInv, TypeOK, Entry
    <2>2. QED
      BY <1>1, <2>1, CacheAssumption DEF CacheInv, CachedRecent, CurrentSince, Cached
  <1>6. QED
    BY <1>2, <1>3, <1>4, <1>5 DEF CacheInv

\* The tables change: what was true until now was true now.
LEMMA LoadCommitsStep ==
  ASSUME CacheInv, LoadCommits
  PROVE  CacheInv'
  <1>1. /\ version \in Versions /\ version < MaxVersion /\ version' = version + 1
        /\ now \in 0..MaxTime /\ now \in Nat
        /\ ended \in [Versions -> 0..MaxTime]
        /\ ended' = [ended EXCEPT ![version] = now]
        /\ UNCHANGED <<order, entries, total, stats, work, requests, faults, now, log>>
    BY CacheAssumption DEF CacheInv, TypeOK, LoadCommits, cache
  <1>2. TypeOK'
    <2>1. version' \in Versions
      BY <1>1, CacheAssumption DEF Versions
    <2>2. ended' \in [Versions -> 0..MaxTime]
      BY <1>1
    <2>3. QED
      BY <1>1, <2>1, <2>2 DEF CacheInv, TypeOK, Cached
  <1>3. Lists'
    BY <1>1 DEF CacheInv, Lists, Listed, Cached
  <1>4. Past'
    BY <1>1 DEF CacheInv, Past, At, Key
  <1>5. ASSUME NEW v \in Versions, NEW t \in Int, t <= now, CurrentSince(v, t)
        PROVE  CurrentSince(v, t)'
    BY <1>1, <1>5 DEF CurrentSince
  <1>6. ReadRecent'
    <2>1. ASSUME NEW w \in Workers, At(w, "loaded")
          PROVE  work[w].version \in Versions /\ CurrentSince(work[w].version, work[w].began)'
      <3>1. work[w].version \in Versions /\ CurrentSince(work[w].version, work[w].began)
        BY <2>1 DEF CacheInv, ReadRecent
      <3>2. work[w].began \in Int /\ work[w].began <= now
        BY DEF CacheInv, TypeOK, Work, Past
      <3>3. QED
        BY <1>1, <1>5, <3>1, <3>2 DEF CurrentSince
    <2>2. QED
      BY <1>1, <2>1 DEF ReadRecent, At, CurrentSince
  <1>7. CachedRecent'
    <2>1. ASSUME NEW k \in Cached
          PROVE  CurrentSince(entries[k].version, entries[k].expires - TTL - log.slowest)'
      <3>1. entries[k].version \in Versions /\ entries[k].expires \in Nat /\ log.slowest \in Nat
        BY DEF CacheInv, TypeOK, Entry, Log
      <3>2. /\ entries[k].expires <= now + TTL
            /\ CurrentSince(entries[k].version, entries[k].expires - TTL - log.slowest)
        BY DEF CacheInv, CachedRecent
      <3>3. /\ entries[k].expires - TTL - log.slowest \in Int
            /\ entries[k].expires - TTL - log.slowest <= now
        BY <1>1, <3>1, <3>2, CacheAssumption
      <3>4. QED
        BY <1>1, <1>5, <3>1, <3>2, <3>3 DEF CurrentSince
    <2>2. QED
      BY <1>1, <2>1 DEF CacheInv, CachedRecent, CurrentSince, Cached
  <1>8. QED
    BY <1>2, <1>3, <1>4, <1>6, <1>7 DEF CacheInv

\* Nothing happens.
LEMMA StutterStep ==
  ASSUME CacheInv, UNCHANGED vars
  PROVE  CacheInv'
  BY DEF CacheInv, vars, cache, TypeOK, Lists, Listed, Past, ReadRecent, CachedRecent,
         CurrentSince, Cached, At, Key

-----------------------------------------------------------------------------
(* The theorems.                                                           *)

\* The invariant holds of every reachable state of the cache and the request path
\* (api/cache.py:75-123, api/app.py:67-85).
THEOREM CacheInvariant == Spec => []CacheInv
  <1>1. Init => CacheInv
    BY InitHolds
  <1>2. CacheInv /\ [Next]_vars => CacheInv'
    <2>1. SUFFICES ASSUME CacheInv, [Next]_vars PROVE CacheInv'
      OBVIOUS
    <2>2. ASSUME NEW w \in Workers, NEW k \in Keys, NEW bypass \in BOOLEAN,
                 Request(w, k, bypass)
          PROVE  CacheInv'
      BY <2>1, <2>2, RequestStep
    <2>3. ASSUME NEW w \in Workers, Get(w) PROVE CacheInv'
      BY <2>1, <2>3, HitStep, ExpireStep, AsideStep DEF Get
    <2>4. ASSUME NEW w \in Workers, Query(w) \/ QueryFails(w) PROVE CacheInv'
      BY <2>1, <2>4, QueryStep, AsideStep
    <2>5. ASSUME NEW w \in Workers, Finish(w) PROVE CacheInv'
      BY <2>1, <2>5, StoreStep, AsideStep DEF Finish
    <2>6. CASE Tick
      BY <2>1, <2>6, TickStep
    <2>7. CASE LoadCommits
      BY <2>1, <2>7, LoadCommitsStep
    <2>8. CASE UNCHANGED vars
      BY <2>1, <2>8, StutterStep
    <2>9. QED
      BY <2>1, <2>2, <2>3, <2>4, <2>5, <2>6, <2>7, <2>8 DEF Next
  <1>3. QED
    BY <1>1, <1>2, PTL DEF Spec

\* Every variable keeps its type: counters never go below zero, a request that has
\* read holds a version of the tables (api/cache.py:75-123).
THEOREM CacheTypes == Spec => []TypeOK
  BY CacheInvariant, PTL DEF CacheInv

\* The eviction order and the entries agree, and the cache never holds more
\* entries than it may, for every bound and every sequence of calls
\* (api/cache.py:87, 101-109).
THEOREM CacheIsListed == Spec => []Listed
  <1>1. CacheInv => Listed
    BY DEF CacheInv, Lists
  <1>2. QED
    BY <1>1, CacheInvariant, PTL

\* A request that is answered was in one of the steps that reply.
LEMMA Replying ==
  ASSUME CacheInv, Next, NEW w \in Workers, Answers(w)
  PROVE  \/ Hit(w)
         \/ At(w, "loaded") /\ Reply(w, work[w].version)
  <1>1. work \in [Workers -> Work]
    BY DEF CacheInv, TypeOK
  <1>2. work'[w] # work[w]
    BY DEF Answers, At
  <1>3. ASSUME NEW x \in Workers, NEW r, work' = [work EXCEPT ![x] = r]
        PROVE  x = w
    BY <1>1, <1>2, <1>3
  <1>4. ASSUME NEW x \in Workers, NEW k \in Keys, NEW bypass \in BOOLEAN,
               Request(x, k, bypass)
        PROVE  FALSE
    BY <1>3, <1>4 DEF Request, Answers
  <1>5. ASSUME NEW x \in Workers, Expire(x) \/ Miss(x) \/ ReadFails(x) PROVE FALSE
    <2>1. Goto(x, "load")
      BY <1>5 DEF Expire, Miss, ReadFails
    <2>2. \A y \in Workers : work'[y].phase = IF y = x THEN "load" ELSE work[y].phase
      BY <1>1, <2>1 DEF Goto, Work
    <2>3. QED
      BY <2>2 DEF Answers, At
  <1>6. ASSUME NEW x \in Workers, Query(x) PROVE FALSE
    <2>1. \A y \in Workers : work'[y].phase = IF y = x THEN "loaded" ELSE work[y].phase
      BY <1>1, <1>6 DEF Query, Work
    <2>2. QED
      BY <2>1 DEF Answers, At
  <1>7. ASSUME NEW x \in Workers, QueryFails(x) PROVE FALSE
    <2>1. work' = [work EXCEPT ![x] = Ready(NoVersion)]
      BY <1>7 DEF QueryFails, Reply
    <2>2. x = w /\ work'[w].version = NoVersion
      BY <1>1, <1>3, <2>1 DEF Ready
    <2>3. QED
      BY <2>2 DEF Answers
  <1>8. ASSUME NEW x \in Workers, Hit(x) PROVE Hit(w)
    <2>1. work' = [work EXCEPT ![x] = Ready(entries[Key(x)].version)]
      BY <1>8 DEF Hit, Reply
    <2>2. QED
      BY <1>3, <1>8, <2>1
  <1>9. ASSUME NEW x \in Workers, Finish(x)
        PROVE  At(w, "loaded") /\ Reply(w, work[w].version)
    <2>1. At(x, "loaded") /\ Reply(x, work[x].version)
      BY <1>9 DEF Finish, AnswerUncached, WriteFails, Reject, Store
    <2>2. work' = [work EXCEPT ![x] = Ready(work[x].version)]
      BY <2>1 DEF Reply
    <2>3. QED
      BY <1>3, <2>1, <2>2
  <1>10. ASSUME Tick \/ LoadCommits PROVE FALSE
    BY <1>2, <1>10 DEF Tick, LoadCommits
  <1>11. QED
    BY <1>4, <1>5, <1>6, <1>7, <1>8, <1>9, <1>10 DEF Next, Get

\* What it is answered was the truth recently.
LEMMA AnsweredRecently ==
  ASSUME CacheInv, Next, NEW w \in Workers, Answers(w)
  PROVE  CurrentSince(work'[w].version,
                      IF At(w, "lookup") /\ ~ work[w].bypass
                        THEN now + 1 - TTL - log.slowest ELSE work[w].began)
  <1>1. work \in [Workers -> Work]
    BY DEF CacheInv, TypeOK
  <1>2. CASE Hit(w)
    <2> DEFINE e == entries[Key(w)]
    <2>1. At(w, "lookup") /\ ~ work[w].bypass
      BY <1>2 DEF Hit, CacheInv, Past
    <2>0. Key(w) \in Cached /\ e.expires \in Nat /\ now \in Nat
      BY <1>2, CacheAssumption DEF Hit, CacheInv, TypeOK, Entry
    <2>2. /\ Key(w) \in Cached /\ e.expires > now
          /\ work' = [work EXCEPT ![w] = Ready(e.version)]
      BY <1>2, <2>0 DEF Hit, Reply, Expired
    <2>3. work'[w].version = e.version
      BY <1>1, <2>2 DEF Ready
    <2>4. e \in Entry
      BY <2>2 DEF CacheInv, TypeOK
    <2>5. e.expires \in Nat /\ e.version \in Versions
      BY <2>4 DEF Entry
    <2>6. log.slowest \in Nat /\ now \in Nat /\ TTL \in Nat
      BY CacheAssumption DEF CacheInv, TypeOK, Log
    <2>7. CurrentSince(e.version, e.expires - TTL - log.slowest)
      BY <2>2 DEF CacheInv, CachedRecent
    <2>8. \A x \in Versions : ended[x] \in Nat
      BY CacheAssumption DEF CacheInv, TypeOK
    <2> HIDE DEF e
    <2>9. CurrentSince(e.version, now + 1 - TTL - log.slowest)
      BY <2>2, <2>5, <2>6, <2>7, <2>8 DEF CurrentSince
    <2>10. QED
      BY <2>1, <2>3, <2>9
  <1>3. CASE At(w, "loaded") /\ Reply(w, work[w].version)
    <2>1. ~ At(w, "lookup") /\ work' = [work EXCEPT ![w] = Ready(work[w].version)]
      BY <1>3 DEF At, Reply
    <2>2. work'[w].version = work[w].version
      BY <1>1, <2>1 DEF Ready
    <2>3. CurrentSince(work[w].version, work[w].began)
      BY <1>3 DEF CacheInv, ReadRecent
    <2>4. QED
      BY <2>1, <2>2, <2>3
  <1>4. QED
    BY <1>2, <1>3, Replying

\* No answer of the cache is older than the TTL and the slowest request, and no
\* answer of the database, or to a request that bypasses the cache, is older than
\* the request: for all threads, keys, bounds and interleavings (api/cache.py:81,
\* 109, api/app.py:67-85).
THEOREM AnswersStayRecent == Spec => AnswersAreRecent
  <1> DEFINE Recent ==
        \A w \in Workers : Answers(w) =>
          CurrentSince(work'[w].version,
                       IF At(w, "lookup") /\ ~ work[w].bypass
                         THEN now + 1 - TTL - log.slowest ELSE work[w].began)
  <1>1. CacheInv /\ [Next]_vars => [Recent]_vars
    BY AnsweredRecently
  <1>2. QED
    BY <1>1, CacheInvariant, PTL DEF AnswersAreRecent, Spec

-----------------------------------------------------------------------------
(* The books: bytes, order of use and counters. BooksAgree is inductive on *)
(* top of CacheInv.                                                        *)

\* The payloads the cache holds, before and after a step, have sizes, and there
\* are as many of them as places in the order.
LEMMA CachedSizes ==
  ASSUME CacheInv
  PROVE  /\ IsFiniteSet(Cached) /\ Cardinality(Cached) = Len(order)
         /\ \A S \in SUBSET Cached : IsFiniteSet(S) /\ Sized(entries, S)
  <1>1. order \in Seq(Keys) /\ IsInjective(order) /\ ToSet(order) = Cached
    BY DEF CacheInv, TypeOK, Lists, Listed
  <1>2. IsFiniteSet(Cached) /\ Cardinality(Cached) = Len(order)
    BY <1>1, AsManyAsPlaces
  <1>3. \A k \in Cached : Size[k][entries[k].version] \in Nat
    BY CacheAssumption DEF CacheInv, TypeOK, Entry
  <1>4. QED
    BY <1>2, <1>3, FS_Subset DEF Sized

\* The books before anything is cached.
LEMMA InitBooks ==
  ASSUME Init
  PROVE  BooksAgree
  <1>1. Cached = {} /\ order = <<>> /\ total = 0
    BY DEF Init, Cached
  <1>2. Listed
    BY InitHolds DEF CacheInv, Lists
  <1>3. total = BytesOf(Cached)
    BY <1>1, BytesOfNone DEF BytesOf
  <1>4. Cardinality(Cached) = 0
    BY <1>1, FS_EmptySet
  <1>5. OrderIsRecency
    BY <1>1 DEF OrderIsRecency
  <1>6. CountersReconcile
    BY <1>4 DEF Init, CountersReconcile, Counters
  <1>7. QED
    BY <1>1, <1>2, <1>3, <1>5, <1>6, CacheAssumption DEF BooksAgree, Bounded

\* A step that leaves the cache, its uses and what was stored alone.
LEMMA SameBooks ==
  ASSUME BooksAgree, UNCHANGED <<order, entries, total>>,
         log'.uses = log.uses, log'.stored = log.stored, log'.replaced = log.replaced,
         stats' \in [Counters -> Nat],
         stats'["evictions"] = stats["evictions"],
         stats'["expirations"] = stats["expirations"],
         stats'["hits"] + stats'["misses"] = log'.lookups
  PROVE  BooksAgree'
  <1>1. Cached' = Cached
    BY DEF Cached
  <1>2. \A S : BytesOf(S)' = BytesOf(S)
    BY DEF BytesOf
  <1>3. Bounded'
    <2>1. (\A k \in Cached : BytesOf({k}) <= MaxEntryBytes)'
      BY <1>1 DEF BooksAgree, Bounded, BytesOf
    <2>2. (total = BytesOf(Cached))'
      BY <1>1 DEF BooksAgree, Bounded, BytesOf
    <2>3. QED
      BY <1>1, <2>1, <2>2 DEF BooksAgree, Bounded, Listed
  <1>4. OrderIsRecency'
    BY <1>1 DEF BooksAgree, OrderIsRecency
  <1>5. CountersReconcile'
    BY <1>1 DEF BooksAgree, CountersReconcile
  <1>6. QED
    BY <1>3, <1>4, <1>5 DEF BooksAgree

\* The counters and the log of a step that leaves the cache alone.
LEMMA AsideBooks ==
  ASSUME CacheInv, BooksAgree,
         \/ \E w \in Workers :
              \/ \E k \in Keys, bypass \in BOOLEAN : Request(w, k, bypass)
              \/ Miss(w) \/ ReadFails(w) \/ Query(w) \/ QueryFails(w)
              \/ AnswerUncached(w) \/ WriteFails(w) \/ Reject(w)
         \/ Tick \/ LoadCommits \/ UNCHANGED vars
  PROVE  BooksAgree'
  <1>1. UNCHANGED <<order, entries, total>>
    BY DEF Request, Miss, ReadFails, Query, QueryFails, AnswerUncached, WriteFails,
           Reject, Tick, LoadCommits, vars, cache
  <1>2. \/ UNCHANGED <<stats, log>>
        \/ stats' = [stats EXCEPT !["rejected"] = @ + 1] /\ log' = log
        \/ /\ stats' = [stats EXCEPT !["misses"] = @ + 1]
           /\ log' = [log EXCEPT !.lookups = @ + 1]
    BY DEF Request, Miss, ReadFails, Query, QueryFails, AnswerUncached, WriteFails,
           Reject, Tick, LoadCommits, vars, cache
  <1>3. stats \in [Counters -> Nat] /\ log \in Log
    BY DEF CacheInv, TypeOK
  <1>4. stats["hits"] + stats["misses"] = log.lookups
    BY DEF BooksAgree, CountersReconcile
  <1>5. /\ stats' \in [Counters -> Nat]
        /\ stats'["evictions"] = stats["evictions"]
        /\ stats'["expirations"] = stats["expirations"]
        /\ stats'["hits"] + stats'["misses"] = log'.lookups
        /\ log'.uses = log.uses /\ log'.stored = log.stored /\ log'.replaced = log.replaced
    <2>1. CASE UNCHANGED <<stats, log>>
      BY <2>1, <1>3, <1>4
    <2>2. CASE stats' = [stats EXCEPT !["rejected"] = @ + 1] /\ log' = log
      BY <2>2, <1>3, <1>4 DEF Counters
    <2>3. CASE /\ stats' = [stats EXCEPT !["misses"] = @ + 1]
               /\ log' = [log EXCEPT !.lookups = @ + 1]
      <3>1. /\ log'.uses = log.uses /\ log'.stored = log.stored
            /\ log'.replaced = log.replaced /\ log'.lookups = log.lookups + 1
        BY <2>3, <1>3 DEF Log
      <3>2. /\ stats' \in [Counters -> Nat]
            /\ stats'["evictions"] = stats["evictions"]
            /\ stats'["expirations"] = stats["expirations"]
            /\ stats'["hits"] = stats["hits"] /\ stats'["misses"] = stats["misses"] + 1
            /\ stats["hits"] \in Nat /\ stats["misses"] \in Nat
        BY <2>3, <1>3 DEF Counters
      <3>3. QED
        BY <1>4, <3>1, <3>2
    <2>4. QED
      BY <1>2, <2>1, <2>2, <2>3
  <1>6. QED
    BY <1>1, <1>5, SameBooks

\* A hit: the key that was used comes last in both orders.
LEMMA HitBooks ==
  ASSUME CacheInv, BooksAgree, NEW w \in Workers, Hit(w)
  PROVE  BooksAgree'
  <1> DEFINE k == Key(w)
  <1>1. k \in Cached /\ k \in Keys
    BY DEF CacheInv, TypeOK, Hit
  <1>2. /\ order \in Seq(Keys) /\ IsInjective(order) /\ ToSet(order) = Cached
        /\ log.uses \in Seq(Keys) /\ IsInjective(log.uses) /\ Cached \subseteq ToSet(log.uses)
    BY DEF CacheInv, TypeOK, Lists, Listed, Log, BooksAgree, OrderIsRecency
  <1>3. /\ stats \in [Counters -> Nat] /\ log \in Log
        /\ stats["hits"] + stats["misses"] = log.lookups
        /\ log.stored = Cardinality(Cached) + stats["evictions"] + stats["expirations"]
                          + log.replaced
    BY DEF CacheInv, TypeOK, BooksAgree, CountersReconcile
  <1>4. /\ Cached' = Cached /\ entries' = entries /\ total' = total
        /\ order' = MoveToEnd(order, k)
        /\ stats' = [stats EXCEPT !["hits"] = @ + 1]
        /\ log' = [log EXCEPT !.uses = MoveToEnd(@, k), !.lookups = @ + 1]
    BY DEF Hit, Touched, Cached
  <1> HIDE DEF k
  <1>5. /\ log'.uses = MoveToEnd(log.uses, k) /\ log'.lookups = log.lookups + 1
        /\ log'.stored = log.stored /\ log'.replaced = log.replaced
    BY <1>3, <1>4 DEF Log
  <1>6. Bounded'
    <2>1. Listed'
      BY HitStep DEF CacheInv, Lists
    <2>2. (total = BytesOf(Cached))' /\ (total <= MaxTotalBytes)'
      BY <1>4 DEF BooksAgree, Bounded, BytesOf
    <2>3. (\A x \in Cached : BytesOf({x}) <= MaxEntryBytes)'
      BY <1>4 DEF BooksAgree, Bounded, BytesOf
    <2>4. QED
      BY <2>1, <2>2, <2>3 DEF Bounded
  <1>7. OrderIsRecency'
    <2>1. ToSet(MoveToEnd(log.uses, k)) = ToSet(log.uses) \union {k}
      BY <1>1, <1>2, MoveToEndProperties
    <2>2. ASSUME NEW x \in Cached, NEW y \in Cached, Precedes(MoveToEnd(order, k), x, y)
          PROVE  Precedes(MoveToEnd(log.uses, k), x, y)
      <3>1. \/ Precedes(order, x, y) /\ x # k /\ y # k
            \/ x \in ToSet(order) \ {k} /\ y = k
        BY <1>1, <1>2, <2>2, MoveToEndOrder
      <3>2. \/ Precedes(log.uses, x, y) /\ x # k /\ y # k
            \/ x \in ToSet(log.uses) \ {k} /\ y = k
        BY <1>2, <3>1 DEF BooksAgree, OrderIsRecency
      <3>3. QED
        BY <1>1, <1>2, <3>2, MoveToEndOrder
    <2>3. QED
      BY <1>2, <1>4, <1>5, <2>1, <2>2 DEF OrderIsRecency
  <1>8. CountersReconcile'
    BY <1>3, <1>4, <1>5 DEF CountersReconcile, Counters, Log
  <1>9. QED
    BY <1>6, <1>7, <1>8 DEF BooksAgree

\* The bytes of what is cached beside one key.
LEMMA BytesBeside ==
  ASSUME CacheInv, total = BytesOf(Cached), NEW k
  PROVE  total - BytesOf({k} \intersect Cached) = BytesOf(Cached \ {k})
  <1> DEFINE old == {k} \intersect Cached
             others == Cached \ {k}
  <1>1. /\ IsFiniteSet(old) /\ Sized(entries, old)
        /\ IsFiniteSet(others) /\ Sized(entries, others)
        /\ Sized(entries, Cached)
    BY CachedSizes
  <1>2. old \intersect others = {} /\ old \union others = Cached
    OBVIOUS
  <1> HIDE DEF old, others
  <1>3. BytesIn(entries, Cached) = BytesIn(entries, old) + BytesIn(entries, others)
    BY <1>1, <1>2, BytesAdd
  <1>4. BytesIn(entries, old) \in Nat /\ BytesIn(entries, others) \in Nat
    BY <1>1, BytesAreNat
  <1>5. QED
    BY <1>3, <1>4 DEF BytesOf, old, others

\* An entry that expires takes its bytes along.
LEMMA ExpireBooks ==
  ASSUME CacheInv, BooksAgree, NEW w \in Workers, Expire(w)
  PROVE  BooksAgree'
  <1> DEFINE k == Key(w)
             others == Cached \ {k}
  <1>1. k \in Cached
    BY DEF Expire
  <1>2. /\ order \in Seq(Keys) /\ IsInjective(order) /\ ToSet(order) = Cached
    BY DEF CacheInv, TypeOK, Lists, Listed
  <1>3. /\ stats \in [Counters -> Nat] /\ log \in Log
        /\ stats["hits"] + stats["misses"] = log.lookups
        /\ log.stored = Cardinality(Cached) + stats["evictions"] + stats["expirations"]
                          + log.replaced
        /\ total = BytesOf(Cached) /\ total <= MaxTotalBytes
    BY DEF CacheInv, TypeOK, BooksAgree, Bounded, CountersReconcile
  <1>4. /\ entries' = [x \in others |-> entries[x]] /\ Cached' = others
        /\ total' = total - BytesOf({k})
        /\ order' = RemoveFirst(order, k)
        /\ stats' = [stats EXCEPT !["expirations"] = @ + 1, !["misses"] = @ + 1]
        /\ log' = [log EXCEPT !.lookups = @ + 1]
    BY DEF Expire, Without, Cached
  <1>5. /\ log'.uses = log.uses /\ log'.lookups = log.lookups + 1
        /\ log'.stored = log.stored /\ log'.replaced = log.replaced
    BY <1>3, <1>4 DEF Log
  <1>6. /\ IsFiniteSet(Cached) /\ IsFiniteSet(others) /\ Sized(entries, others)
        /\ \A x \in others : IsFiniteSet({x})
    BY CachedSizes
  <1>7. total' = BytesOf(others)
    <2>1. {k} \intersect Cached = {k}
      BY <1>1
    <2> HIDE DEF k
    <2>2. QED
      BY <1>3, <1>4, <2>1, BytesBeside
  <1>8. \A S \in SUBSET others : BytesOf(S)' = BytesOf(S)
    <2>1. ASSUME NEW S \in SUBSET others PROVE BytesIn(entries', S) = BytesIn(entries, S)
      <3>1. IsFiniteSet(S) /\ \A x \in S : entries'[x].version = entries[x].version
        BY <1>4, <1>6, FS_Subset
      <3>2. QED
        BY <3>1, BytesSame
    <2>2. QED
      BY <2>1 DEF BytesOf
  <1>9. Bounded'
    <2>1. Listed'
      BY ExpireStep DEF CacheInv, Lists
    <2>2. total' = BytesOf(Cached)'
      <3>1. BytesOf(Cached)' = BytesIn(entries', others)
        BY <1>4 DEF BytesOf
      <3>2. BytesIn(entries', others) = BytesOf(others)
        BY <1>8 DEF BytesOf
      <3>3. QED
        BY <1>7, <3>1, <3>2
    <2>3. total' <= MaxTotalBytes
      <3>1. BytesIn(entries, {k}) \in Nat /\ BytesIn(entries, Cached) \in Nat
        <4>1. IsFiniteSet({k}) /\ Sized(entries, {k}) /\ Sized(entries, Cached)
          BY <1>1, CachedSizes
        <4> HIDE DEF k
        <4>2. QED
          BY <1>6, <4>1, BytesAreNat
      <3>2. QED
        BY <1>3, <1>4, <3>1, CacheAssumption DEF BytesOf
    <2>4. \A x \in Cached' : BytesOf({x})' <= MaxEntryBytes
      <3>1. ASSUME NEW x \in others PROVE BytesOf({x})' <= MaxEntryBytes
        <4>1. BytesOf({x})' = BytesIn(entries', {x})
          BY DEF BytesOf
        <4>2. BytesIn(entries', {x}) = BytesOf({x})
          BY <1>8 DEF BytesOf
        <4>3. BytesOf({x}) <= MaxEntryBytes
          BY DEF BooksAgree, Bounded
        <4>4. QED
          BY <4>1, <4>2, <4>3
      <3>2. QED
        BY <1>4, <3>1
    <2>5. QED
      BY <2>1, <2>2, <2>3, <2>4 DEF Bounded
  <1>10. OrderIsRecency'
    <2>1. ASSUME NEW x \in others, NEW y \in others, Precedes(RemoveFirst(order, k), x, y)
          PROVE  Precedes(log.uses, x, y)
      <3>1. Precedes(order, x, y)
        BY <1>2, <2>1, RemoveFirstKeepsOrder
      <3>2. QED
        BY <3>1 DEF BooksAgree, OrderIsRecency
    <2>2. others \subseteq ToSet(log.uses)
      BY DEF BooksAgree, OrderIsRecency
    <2> HIDE DEF k, others
    <2>3. QED
      BY <1>4, <1>5, <2>1, <2>2 DEF OrderIsRecency
  <1>11. CountersReconcile'
    <2>1. Cardinality(Cached') = Cardinality(Cached) - 1 /\ Cardinality(Cached) \in Nat
      BY <1>1, <1>4, <1>6, FS_RemoveElement, FS_CardinalityType
    <2>2. /\ stats'["hits"] = stats["hits"] /\ stats'["misses"] = stats["misses"] + 1
          /\ stats'["evictions"] = stats["evictions"]
          /\ stats'["expirations"] = stats["expirations"] + 1
      BY <1>3, <1>4 DEF Counters
    <2>3. /\ stats["hits"] \in Nat /\ stats["misses"] \in Nat /\ stats["evictions"] \in Nat
          /\ stats["expirations"] \in Nat /\ log.replaced \in Nat /\ log.stored \in Nat
      BY <1>3 DEF Counters, Log
    <2> HIDE DEF k, others
    <2>4. QED
      BY <1>3, <1>5, <2>1, <2>2, <2>3 DEF CountersReconcile
  <1>12. QED
    BY <1>9, <1>10, <1>11 DEF BooksAgree

\* What a store does, in terms of the sequence it evicts from.
LEMMA StoreShape ==
  ASSUME CacheInv, BooksAgree, NEW w \in Workers, Store(w)
  PROVE  LET k    == Key(w)
             size == Size[k][work[w].version]
             rest == RemoveFirst(order, k)
             used == BytesOf(ToSet(rest))
         IN
         /\ k \in Keys /\ size \in Nat /\ size <= MaxEntryBytes
         /\ rest \in Seq(Keys) /\ IsInjective(rest) /\ ToSet(rest) = Cached \ {k}
         /\ Len(rest) = Len(order) - Cardinality({k} \intersect Cached)
         /\ \E n \in 0..Len(rest) :
              /\ n = Len(rest) \/ used - BytesOf(UpTo(rest, n)) + size <= MaxTotalBytes
              /\ \A m \in 0..(n - 1) :
                   \/ Len(rest) - m >= MaxEntries
                   \/ used - BytesOf(UpTo(rest, m)) + size > MaxTotalBytes
              /\ order' = Append(SubSeq(rest, n + 1, Len(rest)), k)
              /\ DOMAIN entries' = Beyond(rest, n) \union {k}
              /\ entries'[k].version = work[w].version
              /\ \A x \in Beyond(rest, n) : entries'[x].version = entries[x].version
              /\ total' = used - BytesOf(UpTo(rest, n)) + size
              /\ stats' = [stats EXCEPT !["evictions"] = @ + n]
         /\ log'.uses = MoveToEnd(log.uses, k) /\ log'.lookups = log.lookups
         /\ log'.stored = log.stored + 1
         /\ log'.replaced = log.replaced + Cardinality({k} \intersect Cached)
  <1> DEFINE k    == Key(w)
             size == Size[k][work[w].version]
             old  == {k} \intersect Cached
             rest == RemoveFirst(order, k)
             used == BytesOf(ToSet(rest))
  <1>1. /\ At(w, "loaded") /\ Fits(w)
        /\ log' = [uses     |-> MoveToEnd(log.uses, k),
                   slowest  |-> Larger(log.slowest, now - work[w].began),
                   lookups  |-> log.lookups,
                   stored   |-> log.stored + 1,
                   replaced |-> log.replaced + Cardinality(old)]
    BY DEF Store
  <1>2. k \in Keys /\ work[w].version \in Versions
    BY <1>1 DEF CacheInv, Past, ReadRecent, At
  <1>3. size \in Nat /\ size <= MaxEntryBytes
    BY <1>1, <1>2, CacheAssumption DEF Fits
  <1>4. order \in Seq(Keys) /\ IsInjective(order) /\ ToSet(order) = Cached
    BY DEF CacheInv, TypeOK, Lists, Listed
  <1>5. /\ rest \in Seq(Keys) /\ IsInjective(rest) /\ ToSet(rest) = Cached \ {k}
        /\ Len(rest) = IF k \in Cached THEN Len(order) - 1 ELSE Len(order)
    BY <1>4, RemoveFirstProperties
  <1>6. Len(rest) = Len(order) - Cardinality(old)
    <2>1. k \in Cached => old = {k}
      OBVIOUS
    <2>2. k \notin Cached => old = {}
      OBVIOUS
    <2>3. Cardinality({k}) = 1 /\ Cardinality({}) = 0
      BY FS_Singleton, FS_EmptySet
    <2>4. Len(order) \in Nat
      BY <1>4
    <2> HIDE DEF rest, old, k, size, used
    <2>5. CASE k \in Cached
      <3>1. Len(rest) = Len(order) - 1 /\ Cardinality(old) = 1
        BY <1>5, <2>1, <2>3, <2>5
      <3>2. QED
        BY <3>1
    <2>6. CASE k \notin Cached
      <3>1. Len(rest) = Len(order) /\ Cardinality(old) = 0
        BY <1>5, <2>2, <2>3, <2>6
      <3>2. QED
        BY <2>4, <3>1
    <2>7. QED
      BY <2>5, <2>6
  <1>7. total - BytesOf(old) = used
    <2>1. total = BytesOf(Cached)
      BY DEF BooksAgree, Bounded
    <2>2. total - BytesOf({k} \intersect Cached) = BytesOf(Cached \ {k})
      BY <2>1, BytesBeside
    <2>3. QED
      BY <1>5, <2>2
  <1>8. PICK n \in Evictions(rest, used, size) :
          LET left == SubSeq(rest, n + 1, Len(rest)) IN
          /\ order' = Append(left, k)
          /\ entries' = [x \in ToSet(left) \union {k} |->
               IF x = k THEN [version |-> work[w].version, expires |-> now + TTL]
                        ELSE entries[x]]
          /\ total' = used - BytesOf(ToSet(SubSeq(rest, 1, n))) + size
          /\ stats' = [stats EXCEPT !["evictions"] = @ + n]
    BY <1>7 DEF Store
  <1>9. /\ n \in 0..Len(rest)
        /\ HasRoom(rest, used, size, n)
        /\ \A m \in 0..(n - 1) : ~ HasRoom(rest, used, size, m)
    BY <1>8 DEF Evictions
  <1>10. log'.uses = MoveToEnd(log.uses, k) /\ log'.lookups = log.lookups
         /\ log'.stored = log.stored + 1 /\ log'.replaced = log.replaced + Cardinality(old)
    BY <1>1
  <1> HIDE DEF rest, used, size, old, k
  <1>11. \A m \in 0..Len(rest) :
           /\ ToSet(SubSeq(rest, 1, m)) = UpTo(rest, m)
           /\ ToSet(SubSeq(rest, m + 1, Len(rest))) = Beyond(rest, m)
    BY <1>5, CutAt
  <1>12. n = Len(rest) \/ used - BytesOf(UpTo(rest, n)) + size <= MaxTotalBytes
    BY <1>9, <1>11 DEF HasRoom
  <1>13. ASSUME NEW m \in 0..(n - 1)
         PROVE  \/ Len(rest) - m >= MaxEntries
                \/ used - BytesOf(UpTo(rest, m)) + size > MaxTotalBytes
    <2>1. m \in 0..Len(rest) /\ Len(rest) \in Nat
      BY <1>5, <1>9
    <2>2. BytesOf(UpTo(rest, m)) \in Nat /\ used \in Nat
      <3>1. ToSet(rest) \subseteq Cached
        BY <1>5
      <3>2. UpTo(rest, m) \subseteq Cached
        BY <1>5, <2>1, <3>1, CutAt
      <3>3. QED
        BY <3>1, <3>2, CachedSizes, BytesAreNat DEF BytesOf, used
    <2>3. ~ HasRoom(rest, used, size, m) /\ ToSet(SubSeq(rest, 1, m)) = UpTo(rest, m)
      BY <1>9, <1>11, <2>1
    <2>4. QED
      BY <1>3, <2>1, <2>2, <2>3, CacheAssumption DEF HasRoom
  <1>14. /\ DOMAIN entries' = Beyond(rest, n) \union {k}
         /\ entries'[k].version = work[w].version
    BY <1>8, <1>9, <1>11
  <1>15. \A x \in Beyond(rest, n) : entries'[x].version = entries[x].version
    <2>1. k \notin Beyond(rest, n)
      BY <1>5, <1>9, CutAt
    <2>2. QED
      BY <1>8, <1>9, <1>11, <2>1
  <1>16. /\ order' = Append(SubSeq(rest, n + 1, Len(rest)), k)
         /\ total' = used - BytesOf(UpTo(rest, n)) + size
         /\ stats' = [stats EXCEPT !["evictions"] = @ + n]
    BY <1>8, <1>9, <1>11
  <1>17. QED
    BY <1>2, <1>3, <1>5, <1>6, <1>9, <1>10, <1>12, <1>13, <1>14, <1>15, <1>16
    DEF rest, used, size, old, k

\* What stays beside the new payload.
LEMMA StoreBytes ==
  ASSUME CacheInv, NEW rest \in Seq(Keys), IsInjective(rest), ToSet(rest) \subseteq Cached,
         NEW n \in 0..Len(rest)
  PROVE  /\ IsFiniteSet(UpTo(rest, n)) /\ IsFiniteSet(Beyond(rest, n))
         /\ Sized(entries, Beyond(rest, n))
         /\ BytesOf(UpTo(rest, n)) \in Nat /\ BytesOf(Beyond(rest, n)) \in Nat
         /\ BytesOf(ToSet(rest)) = BytesOf(UpTo(rest, n)) + BytesOf(Beyond(rest, n))
  <1>1. /\ UpTo(rest, n) \union Beyond(rest, n) = ToSet(rest)
        /\ UpTo(rest, n) \intersect Beyond(rest, n) = {}
    BY CutAt
  <1>2. /\ IsFiniteSet(UpTo(rest, n)) /\ Sized(entries, UpTo(rest, n))
        /\ IsFiniteSet(Beyond(rest, n)) /\ Sized(entries, Beyond(rest, n))
        /\ Sized(entries, ToSet(rest))
    BY <1>1, CachedSizes
  <1> DEFINE A == UpTo(rest, n)
             B == Beyond(rest, n)
  <1>3. /\ A \intersect B = {} /\ IsFiniteSet(A) /\ IsFiniteSet(B)
        /\ Sized(entries, A \union B) /\ A \union B = ToSet(rest)
    BY <1>1, <1>2
  <1> HIDE DEF A, B
  <1>4. BytesIn(entries, A \union B) = BytesIn(entries, A) + BytesIn(entries, B)
    BY <1>3, BytesAdd
  <1>5. BytesOf(ToSet(rest)) = BytesOf(UpTo(rest, n)) + BytesOf(Beyond(rest, n))
    BY <1>3, <1>4 DEF BytesOf, A, B
  <1>6. QED
    BY <1>2, <1>5, BytesAreNat DEF BytesOf

\* The books after a store.
LEMMA StoreBooks ==
  ASSUME CacheInv, BooksAgree, NEW w \in Workers, Store(w)
  PROVE  BooksAgree'
  <1> DEFINE k    == Key(w)
             size == Size[k][work[w].version]
             old  == {k} \intersect Cached
             rest == RemoveFirst(order, k)
             used == BytesOf(ToSet(rest))
  <1>1. /\ k \in Keys /\ size \in Nat /\ size <= MaxEntryBytes
        /\ rest \in Seq(Keys) /\ IsInjective(rest) /\ ToSet(rest) = Cached \ {k}
        /\ Len(rest) = Len(order) - Cardinality(old)
        /\ log'.uses = MoveToEnd(log.uses, k) /\ log'.lookups = log.lookups
        /\ log'.stored = log.stored + 1
        /\ log'.replaced = log.replaced + Cardinality(old)
    BY StoreShape
  <1>2. PICK n \in 0..Len(rest) :
          /\ n = Len(rest) \/ used - BytesOf(UpTo(rest, n)) + size <= MaxTotalBytes
          /\ order' = Append(SubSeq(rest, n + 1, Len(rest)), k)
          /\ DOMAIN entries' = Beyond(rest, n) \union {k}
          /\ entries'[k].version = work[w].version
          /\ \A x \in Beyond(rest, n) : entries'[x].version = entries[x].version
          /\ total' = used - BytesOf(UpTo(rest, n)) + size
          /\ stats' = [stats EXCEPT !["evictions"] = @ + n]
    BY StoreShape
  <1>3. Size[k][entries'[k].version] = size
    BY <1>2
  <1>4. order \in Seq(Keys) /\ IsInjective(order) /\ ToSet(order) = Cached
    BY DEF CacheInv, TypeOK, Lists, Listed
  <1>5. \A x, y : Precedes(rest, x, y) => Precedes(order, x, y)
    BY <1>4, RemoveFirstKeepsOrder
  <1>6. IsFiniteSet(old) /\ Cardinality(old) \in Nat
    BY CachedSizes, FS_CardinalityType
  <1>7. CacheInv'
    BY StoreStep
  <1> HIDE DEF k, size, old, rest, used
  <1> DEFINE B == Beyond(rest, n)
             left == SubSeq(rest, n + 1, Len(rest))
  <1>8. /\ IsFiniteSet(B) /\ Sized(entries, B)
        /\ BytesOf(UpTo(rest, n)) \in Nat /\ BytesOf(B) \in Nat
        /\ used = BytesOf(UpTo(rest, n)) + BytesOf(B)
    BY <1>1, StoreBytes DEF used
  <1>9. k \notin B /\ B \subseteq Cached
    BY <1>1, CutAt
  <1>10. Cached' = B \union {k}
    BY <1>2 DEF Cached
  <1>11. total' = BytesOf(B) + size
    BY <1>1, <1>2, <1>8
  <1>12. BytesIn(entries', B) = BytesOf(B)
    <2>1. \A x \in B : entries'[x].version = entries[x].version
      BY <1>2
    <2> HIDE DEF B
    <2>2. QED
      BY <1>8, <2>1, BytesSame DEF BytesOf
  <1>13. BytesIn(entries', {k}) = size
    BY <1>1, <1>3, BytesOfOne
  <1>14. Bounded'
    <2>1. Listed'
      BY <1>7 DEF CacheInv, Lists
    <2>2. BytesIn(entries', B \union {k}) = BytesIn(entries', B) + BytesIn(entries', {k})
      <3>1. Sized(entries', B \union {k})
        BY <1>1, <1>2, <1>3, <1>8 DEF Sized
      <3>2. IsFiniteSet({k}) /\ B \intersect {k} = {}
        BY <1>9, FS_Singleton
      <3> HIDE DEF B
      <3>3. QED
        BY <1>8, <3>1, <3>2, BytesAdd
    <2>3. total' = BytesOf(Cached)'
      <3>1. BytesOf(Cached)' = BytesIn(entries', Cached')
        BY DEF BytesOf
      <3>2. QED
        BY <1>10, <1>11, <1>12, <1>13, <2>2, <3>1
    <2>4. total' <= MaxTotalBytes
      <3>1. CASE n = Len(rest)
        <4>1. B = {}
          BY <1>1, <3>1 DEF Beyond
        <4>2. BytesOf(B) = 0
          BY <4>1, BytesOfNone DEF BytesOf
        <4>3. QED
          BY <1>1, <1>11, <4>2, CacheAssumption
      <3>2. CASE used - BytesOf(UpTo(rest, n)) + size <= MaxTotalBytes
        BY <1>2, <3>2
      <3>3. QED
        BY <1>2, <3>1, <3>2
    <2>5. ASSUME NEW x \in Cached'
          PROVE  BytesOf({x})' <= MaxEntryBytes
      <3>1. BytesOf({x})' = BytesIn(entries', {x})
        BY DEF BytesOf
      <3>2. CASE x = k
        BY <1>1, <1>13, <3>1, <3>2
      <3>3. CASE x \in B
        <4>1. /\ x \in Cached /\ entries'[x].version = entries[x].version
          BY <1>2, <1>9, <3>3
        <4>2. BytesOf({x}) <= MaxEntryBytes
          BY <4>1 DEF BooksAgree, Bounded
        <4>3. \A y \in {x} : entries'[y].version = entries[y].version
          BY <4>1
        <4>4. BytesIn(entries', {x}) = BytesIn(entries, {x})
          <5> DEFINE one == {x}
          <5>1. IsFiniteSet(one)
            BY FS_Singleton
          <5>2. \A y \in one : entries'[y].version = entries[y].version
            BY <4>3
          <5> HIDE DEF one
          <5>3. BytesIn(entries', one) = BytesIn(entries, one)
            BY <5>1, <5>2, BytesSame
          <5>4. QED
            BY <5>3 DEF one
        <4>5. QED
          BY <3>1, <4>2, <4>4 DEF BytesOf
      <3>4. QED
        BY <1>10, <2>5, <3>2, <3>3
    <2>6. QED
      BY <2>1, <2>3, <2>4, <2>5 DEF Bounded
  <1>15. OrderIsRecency'
    <2>1. log.uses \in Seq(Keys) /\ IsInjective(log.uses) /\ Cached \subseteq ToSet(log.uses)
      BY DEF CacheInv, TypeOK, Log, Lists, BooksAgree, OrderIsRecency
    <2>2. ToSet(MoveToEnd(log.uses, k)) = ToSet(log.uses) \union {k}
      BY <1>1, <2>1, MoveToEndProperties
    <2>3. left \in Seq(Keys) /\ ToSet(left) = B
      <3>1. left \in Seq(Keys)
        BY <1>1
      <3>2. QED
        BY <1>1, <3>1, CutAt
    <2>4. ASSUME NEW x, NEW y, Precedes(Append(left, k), x, y)
          PROVE  Precedes(MoveToEnd(log.uses, k), x, y)
      <3>1. Precedes(left, x, y) \/ (x \in B /\ y = k)
        <4> HIDE DEF left
        <4>1. QED
          BY <1>1, <1>9, <2>3, <2>4, AppendKeepsOrder
      <3>2. CASE Precedes(left, x, y)
        <4>1. x \in B /\ y \in B
          BY <2>3, <3>2 DEF Precedes, ToSet
        <4>2. Precedes(order, x, y)
          BY <1>1, <1>5, <3>2, SuffixKeepsOrder
        <4>3. Precedes(log.uses, x, y) /\ x # k /\ y # k
          BY <1>9, <4>1, <4>2 DEF BooksAgree, OrderIsRecency
        <4>4. QED
          BY <1>1, <2>1, <4>3, MoveToEndOrder
      <3>3. CASE x \in B /\ y = k
        <4>1. x \in ToSet(log.uses) \ {k}
          BY <1>9, <2>1, <3>3
        <4>2. QED
          BY <1>1, <2>1, <3>3, <4>1, MoveToEndOrder
      <3>4. QED
        BY <3>1, <3>2, <3>3
    <2>5. (\A x, y \in Cached : Precedes(order, x, y) => Precedes(log.uses, x, y))'
      <3>1. order' = Append(left, k)
        BY <1>2
      <3>2. QED
        BY <1>1, <2>4, <3>1
    <2>6. (Cached \subseteq ToSet(log.uses))'
      BY <1>1, <1>9, <1>10, <2>1, <2>2
    <2>7. QED
      BY <2>5, <2>6 DEF OrderIsRecency
  <1>16. CountersReconcile'
    <2>1. /\ stats \in [Counters -> Nat] /\ log \in Log
          /\ stats["hits"] + stats["misses"] = log.lookups
          /\ log.stored = Cardinality(Cached) + stats["evictions"] + stats["expirations"]
                            + log.replaced
      BY DEF CacheInv, TypeOK, BooksAgree, CountersReconcile
    <2>2. /\ stats'["hits"] = stats["hits"] /\ stats'["misses"] = stats["misses"]
          /\ stats'["evictions"] = stats["evictions"] + n
          /\ stats'["expirations"] = stats["expirations"]
      BY <1>2, <2>1 DEF Counters
    <2>3. /\ stats["hits"] \in Nat /\ stats["misses"] \in Nat /\ stats["evictions"] \in Nat
          /\ stats["expirations"] \in Nat /\ log.replaced \in Nat /\ log.stored \in Nat
      BY <2>1 DEF Counters, Log
    <2>4. Cardinality(Cached) = Len(order) /\ Len(order) \in Nat
      BY <1>4, CachedSizes
    <2>5. Cardinality(Cached') = Len(rest) - n + 1
      <3>1. Cardinality(Cached)' = Len(order')
        <4>1. order' \in Seq(Keys) /\ IsInjective(order') /\ ToSet(order') = Cached'
          BY <1>7 DEF CacheInv, TypeOK, Lists, Listed
        <4>2. QED
          BY <4>1, AsManyAsPlaces
      <3>2. left \in Seq(Keys) /\ Len(left) = Len(rest) - n
        BY <1>1
      <3>3. order' = Append(left, k)
        BY <1>2
      <3> HIDE DEF left
      <3>4. QED
        BY <3>1, <3>2, <3>3
    <2>6. n \in Nat /\ Len(rest) \in Nat
      BY <1>1, <1>2
    <2>7. /\ log'.lookups = log.lookups /\ log'.stored = log.stored + 1
          /\ log'.replaced = log.replaced + Cardinality(old)
          /\ Len(rest) = Len(order) - Cardinality(old)
      BY <1>1
    <2>8. stats'["hits"] + stats'["misses"] = log'.lookups
      BY <2>1, <2>2, <2>7
    <2>9. log'.stored = Cardinality(Cached') + stats'["evictions"] + stats'["expirations"]
                          + log'.replaced
      <3> DEFINE c == Cardinality(old)
                 ev == stats["evictions"]
                 ex == stats["expirations"]
                 re == log.replaced
                 l == Len(rest)
      <3>1. c \in Nat /\ ev \in Nat /\ ex \in Nat /\ re \in Nat /\ l \in Nat /\ n \in Nat
        BY <1>6, <2>3, <2>6
      <3>2. Len(order) = l + c
        BY <2>4, <2>7, <3>1
      <3>3. log'.stored = ((l + c) + ev + ex + re) + 1
        BY <2>1, <2>4, <2>7, <3>2
      <3>4. /\ Cardinality(Cached') = l - n + 1
            /\ stats'["evictions"] = ev + n /\ stats'["expirations"] = ex
            /\ log'.replaced = re + c
        BY <2>2, <2>5, <2>7
      <3> HIDE DEF c, ev, ex, re, l
      <3>5. ((l + c) + ev + ex + re) + 1 = (l - n + 1) + (ev + n) + ex + (re + c)
        BY <3>1
      <3>6. QED
        BY <3>3, <3>4, <3>5
    <2>10. Cardinality(Cached)' = Cardinality(Cached')
      OBVIOUS
    <2>11. QED
      BY <2>8, <2>9, <2>10 DEF CountersReconcile
  <1>17. QED
    BY <1>14, <1>15, <1>16 DEF BooksAgree

\* Bytes, order of use and counters agree with what is cached, for all bounds,
\* sizes, threads and interleavings: _total_bytes, the OrderedDict and the counters
\* of BoundedTTLCache are each updated in get, set and _remove (api/cache.py:75-123).
THEOREM BooksAlwaysAgree == Spec => []BooksAgree
  <1>1. Init => CacheInv /\ BooksAgree
    BY InitHolds, InitBooks
  <1>2. CacheInv /\ BooksAgree /\ [Next]_vars => BooksAgree'
    <2>1. SUFFICES ASSUME CacheInv, BooksAgree, [Next]_vars PROVE BooksAgree'
      OBVIOUS
    <2>2. ASSUME NEW w \in Workers, Hit(w) \/ Expire(w) \/ Store(w) PROVE BooksAgree'
      BY <2>1, <2>2, HitBooks, ExpireBooks, StoreBooks
    <2>3. QED
      BY <2>1, <2>2, AsideBooks DEF Next, Get, Finish
  <1>3. QED
    BY <1>1, <1>2, CacheInvariant, PTL DEF Spec

-----------------------------------------------------------------------------
(* Evictions.                                                              *)

\* The keys used after x, and x, are the rest from the place of x on.
LEMMA UsedAfterIsBeyond ==
  ASSUME CacheInv, NEW k, NEW i \in 1..Len(RemoveFirst(order, k))
  PROVE  LET rest == RemoveFirst(order, k) IN
         /\ UsedAfter(rest[i]) \ {k} = Beyond(rest, i)
         /\ Beyond(rest, i - 1) = {rest[i]} \union Beyond(rest, i)
  <1> DEFINE rest == RemoveFirst(order, k)
             x == rest[i]
  <1>1. order \in Seq(Keys) /\ IsInjective(order) /\ ToSet(order) = Cached
    BY DEF CacheInv, TypeOK, Lists, Listed
  <1>2. rest \in Seq(Keys) /\ IsInjective(rest) /\ ToSet(rest) = Cached \ {k}
    BY <1>1, RemoveFirstProperties
  <1>3. \A y : Precedes(rest, x, y) <=> Precedes(order, x, y) /\ x # k /\ y # k
    BY <1>1, RemoveFirstKeepsOrder
  <1>4. i \in 1..Len(rest)
    OBVIOUS
  <1> HIDE DEF rest
  <1>5. DOMAIN rest = 1..Len(rest) /\ Len(rest) \in Nat
    BY <1>2
  <1>6. \A c, d \in 1..Len(rest) : rest[c] = rest[d] => c = d
    BY <1>2, <1>5 DEF IsInjective
  <1>7. \A y : Precedes(rest, x, y) <=> y \in Beyond(rest, i)
    <2>1. ASSUME NEW y, Precedes(rest, x, y) PROVE y \in Beyond(rest, i)
      <3>1. PICK c, d \in 1..Len(rest) : c < d /\ rest[c] = x /\ rest[d] = y
        BY <1>5, <2>1 DEF Precedes
      <3>2. c = i /\ d \in (i + 1)..Len(rest)
        BY <1>4, <1>5, <1>6, <3>1
      <3>3. QED
        BY <3>1, <3>2 DEF Beyond
    <2>2. ASSUME NEW y \in Beyond(rest, i) PROVE Precedes(rest, x, y)
      <3>1. PICK d \in (i + 1)..Len(rest) : rest[d] = y
        BY DEF Beyond
      <3>2. d \in 1..Len(rest) /\ i < d
        BY <1>4, <1>5, <3>1
      <3>3. QED
        BY <1>4, <1>5, <3>1, <3>2 DEF Precedes
    <2>3. QED
      BY <2>1, <2>2
  <1>8. x \in Cached \ {k}
    BY <1>2, <1>4, <1>5 DEF ToSet
  <1>9. Beyond(rest, i) \subseteq Cached \ {k}
    BY <1>2, <1>4, <1>5 DEF Beyond, ToSet
  <1>10. UsedAfter(x) \ {k} = Beyond(rest, i)
    BY <1>3, <1>7, <1>8, <1>9 DEF UsedAfter
  <1>11. Beyond(rest, i - 1) = {x} \union Beyond(rest, i)
    <2>1. (i - 1) + 1 = i
      BY <1>4
    <2>2. i..Len(rest) = {i} \union (i + 1)..Len(rest)
      BY <1>4, <1>5
    <2>3. QED
      BY <2>1, <2>2 DEF Beyond
  <1>12. QED
    BY <1>10, <1>11 DEF rest

\* What a store evicts had no room, with all that was used after it, beside what
\* is stored.
LEMMA StoreEvicts ==
  ASSUME CacheInv, BooksAgree, NEW w \in Workers, Store(w),
         NEW x \in Cached \ DOMAIN entries'
  PROVE  LET wanted == {x, Last(order')} \union UsedAfter(x)
         IN /\ \/ Cardinality(wanted) > MaxEntries
               \/ BytesIn(Overlaid(entries', entries), wanted) > MaxTotalBytes
            /\ DOMAIN entries' \subseteq UsedAfter(x) \union {Last(order')}
  <1> DEFINE k    == Key(w)
             size == Size[k][work[w].version]
             rest == RemoveFirst(order, k)
             used == BytesOf(ToSet(rest))
  <1>1. /\ k \in Keys /\ size \in Nat
        /\ rest \in Seq(Keys) /\ IsInjective(rest) /\ ToSet(rest) = Cached \ {k}
    BY StoreShape
  <1>2. PICK n \in 0..Len(rest) :
          /\ \A m \in 0..(n - 1) :
               \/ Len(rest) - m >= MaxEntries
               \/ used - BytesOf(UpTo(rest, m)) + size > MaxTotalBytes
          /\ order' = Append(SubSeq(rest, n + 1, Len(rest)), k)
          /\ DOMAIN entries' = Beyond(rest, n) \union {k}
          /\ entries'[k].version = work[w].version
          /\ \A y \in Beyond(rest, n) : entries'[y].version = entries[y].version
    BY StoreShape
  <1>3. Size[k][entries'[k].version] = size
    BY <1>2
  <1>4. \A i \in 1..Len(rest) :
          /\ UsedAfter(rest[i]) \ {k} = Beyond(rest, i)
          /\ Beyond(rest, i - 1) = {rest[i]} \union Beyond(rest, i)
    BY UsedAfterIsBeyond
  <1> HIDE DEF k, size, rest, used
  <1>5. Last(order') = k
    <2> DEFINE left == SubSeq(rest, n + 1, Len(rest))
    <2>1. left \in Seq(Keys)
      BY <1>1
    <2> HIDE DEF left
    <2>2. Append(left, k)[Len(Append(left, k))] = k
      BY <1>1, <2>1
    <2>3. QED
      BY <1>2, <2>2 DEF Last, left
  <1>6. Len(rest) \in Nat /\ DOMAIN rest = 1..Len(rest)
    BY <1>1
  <1>7. x \in UpTo(rest, n)
    BY <1>1, <1>2, CutAt
  <1>8. PICK i \in 1..n : rest[i] = x
    BY <1>7 DEF UpTo
  <1> DEFINE m == i - 1
             late == Beyond(rest, m)
             both == Overlaid(entries', entries)
  <1>9. m \in 0..(n - 1) /\ m \in 0..Len(rest) /\ i \in 1..Len(rest)
    BY <1>6, <1>8
  <1>10. /\ UsedAfter(x) \ {k} = Beyond(rest, i)
         /\ late = {x} \union Beyond(rest, i)
    BY <1>4, <1>8, <1>9
  <1>11. k \notin late /\ late \subseteq Cached
    <2>1. late \subseteq ToSet(rest)
      <3> HIDE DEF m
      <3>1. QED
        BY <1>1, <1>9, CutAt
    <2>2. QED
      BY <1>1, <2>1
  <1>12. {x, k} \union UsedAfter(x) = late \union {k}
    BY <1>10
  <1>13. IsFiniteSet(late) /\ Cardinality(late) = Len(rest) - m
    <2> DEFINE t == SubSeq(rest, m + 1, Len(rest))
    <2>1. t \in Seq(Keys) /\ Len(t) = Len(rest) - m /\ IsInjective(t) /\ ToSet(t) = late
      <3> HIDE DEF m
      <3>1. QED
        BY <1>1, <1>9, CutAt, SuffixProperties
    <2> HIDE DEF t
    <2>2. QED
      BY <2>1, AsManyAsPlaces
  <1>14. /\ BytesOf(UpTo(rest, m)) \in Nat /\ BytesOf(late) \in Nat /\ Sized(entries, late)
         /\ used = BytesOf(UpTo(rest, m)) + BytesOf(late)
    <2> HIDE DEF m
    <2>1. QED
      BY <1>1, <1>9, StoreBytes DEF used
  <1>15. \A y \in late : both[y].version = entries[y].version
    <2>1. \A y \in late : both[y] = IF y \in DOMAIN entries' THEN entries'[y] ELSE entries[y]
      BY <1>11 DEF Overlaid, Cached
    <2>2. \A y \in late : y \in DOMAIN entries' => entries'[y].version = entries[y].version
      BY <1>2, <1>11
    <2>3. QED
      BY <2>1, <2>2
  <1>16. both[k] = entries'[k]
    BY <1>2 DEF Overlaid
  <1>17. ASSUME Len(rest) - m >= MaxEntries
         PROVE  Cardinality({x, k} \union UsedAfter(x)) > MaxEntries
    <2>1. Cardinality(late \union {k}) = Cardinality(late) + 1
      BY <1>11, <1>13, FS_AddElement
    <2>2. Cardinality(late \union {k}) > MaxEntries
      BY <1>6, <1>9, <1>13, <1>17, <2>1, CacheAssumption
    <2>3. QED
      BY <1>12, <2>2
  <1> HIDE DEF both, late
  <1>18. ASSUME used - BytesOf(UpTo(rest, m)) + size > MaxTotalBytes
         PROVE  BytesIn(both, {x, k} \union UsedAfter(x)) > MaxTotalBytes
    <2>1. BytesIn(both, late) = BytesOf(late)
      BY <1>13, <1>15, BytesSame DEF BytesOf
    <2>2. BytesIn(both, {k}) = size
      BY <1>1, <1>3, <1>16, BytesOfOne
    <2>3. BytesIn(both, late \union {k}) = BytesIn(both, late) + BytesIn(both, {k})
      <3>1. Sized(both, late \union {k})
        BY <1>1, <1>3, <1>14, <1>15, <1>16 DEF Sized
      <3>2. IsFiniteSet({k}) /\ late \intersect {k} = {}
        BY <1>11, FS_Singleton
      <3>3. QED
        BY <1>13, <3>1, <3>2, BytesAdd
    <2>4. BytesIn(both, late \union {k}) > MaxTotalBytes
      BY <1>1, <1>14, <1>18, <2>1, <2>2, <2>3, CacheAssumption
    <2>5. QED
      BY <1>12, <2>4
  <1>19. Beyond(rest, n) \subseteq Beyond(rest, i)
    BY <1>6, <1>8 DEF Beyond
  <1>20. DOMAIN entries' \subseteq UsedAfter(x) \union {k}
    BY <1>2, <1>10, <1>19
  <1>21. \/ Cardinality({x, k} \union UsedAfter(x)) > MaxEntries
         \/ BytesIn(Overlaid(entries', entries), {x, k} \union UsedAfter(x)) > MaxTotalBytes
    BY <1>2, <1>9, <1>17, <1>18 DEF both
  <1>22. QED
    BY <1>5, <1>20, <1>21

\* Whatever leaves the cache has expired, or had no room: for all bounds, sizes,
\* threads and interleavings of get and set (api/cache.py:81-83, 102-108).
THEOREM EvictionsMakeRoom == Spec => EvictsForRoom
  <1> DEFINE wanted(k) == {k, Last(order')} \union UsedAfter(k)
             Leaves(k) ==
               IF log'.stored = log.stored THEN entries[k].expires <= now
               ELSE /\ \/ Cardinality(wanted(k)) > MaxEntries
                       \/ BytesIn(Overlaid(entries', entries), wanted(k)) > MaxTotalBytes
                    /\ DOMAIN entries' \subseteq UsedAfter(k) \union {Last(order')}
             Leave == \A k \in Cached \ DOMAIN entries' : Leaves(k)
  <1>1. ASSUME CacheInv, BooksAgree, Next
        PROVE  Leave
    <2>1. CASE entries' = entries
      BY <2>1 DEF Cached
    <2>2. ASSUME NEW w \in Workers, Expire(w)
          PROVE  Leave
      <3>1. log \in Log /\ log' = [log EXCEPT !.lookups = @ + 1]
        BY <1>1, <2>2 DEF CacheInv, TypeOK, Expire
      <3>2. log'.stored = log.stored
        BY <3>1 DEF Log
      <3>3. Cached \ DOMAIN entries' = {Key(w)} /\ entries[Key(w)].expires <= now
        BY <2>2 DEF Expire, Without, Expired, Cached
      <3>4. QED
        BY <3>2, <3>3
    <2>3. ASSUME NEW w \in Workers, Store(w)
          PROVE  Leave
      <3>1. log'.stored # log.stored
        <4>1. log'.stored = log.stored + 1 /\ log.stored \in Nat
          BY <1>1, <2>3 DEF Store, CacheInv, TypeOK, Log
        <4>2. QED
          BY <4>1
      <3>2. ASSUME NEW k \in Cached \ DOMAIN entries' PROVE Leaves(k)
        BY <1>1, <2>3, <3>1, StoreEvicts
      <3>3. QED
        BY <3>2
    <2>4. QED
      <3>1. \/ entries' = entries
            \/ \E w \in Workers : Expire(w) \/ Store(w)
        BY <1>1
        DEF Next, Get, Finish, Request, Hit, Miss, ReadFails, Query, QueryFails,
            AnswerUncached, WriteFails, Reject, Tick, LoadCommits, cache
      <3>2. QED
        BY <2>1, <2>2, <2>3, <3>1
  <1>2. CacheInv /\ BooksAgree /\ [Next]_vars => [Leave]_vars
    BY <1>1
  <1>3. [Leave]_vars <=>
        [\A k \in Cached \ DOMAIN entries' :
           IF log'.stored = log.stored THEN entries[k].expires <= now
           ELSE LET stored == Last(order')
                    wanted2 == {k, stored} \union UsedAfter(k)
                IN /\ \/ Cardinality(wanted2) > MaxEntries
                      \/ BytesIn(Overlaid(entries', entries), wanted2) > MaxTotalBytes
                   /\ DOMAIN entries' \subseteq UsedAfter(k) \union {stored}]_vars
    OBVIOUS
  <1> HIDE DEF Leave
  <1>4. QED
    BY <1>2, <1>3, CacheInvariant, BooksAlwaysAgree, PTL DEF EvictsForRoom, Spec
=============================================================================
