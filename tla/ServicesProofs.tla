--------------------------- MODULE ServicesProofs ---------------------------
(***************************************************************************)
(* Theorems about the services that share no state, for every value of the *)
(* constants: the seven of MCServices, one after the other and then side   *)
(* by side as the run Services has them, and the event pipeline, whose     *)
(* safety is also shown to be that of EventDelivery.                       *)
(***************************************************************************)
EXTENDS MCServices, EventPipeline, FiniteSetTheorems, TLAPS

-----------------------------------------------------------------------------
(* Sequences.                                                               *)

LEMMA Appended ==
    ASSUME NEW S, NEW s \in Seq(S), NEW x \in S
    PROVE  /\ Append(s, x) \in Seq(S)
           /\ Len(Append(s, x)) = Len(s) + 1 /\ Len(s) \in Nat
           /\ DOMAIN s = 1..Len(s) /\ DOMAIN Append(s, x) = 1..Len(s) + 1
           /\ \A i \in DOMAIN s : Append(s, x)[i] = s[i] /\ s[i] \in S
           /\ Append(s, x)[Len(s) + 1] = x
           /\ ToSet(Append(s, x)) = ToSet(s) \cup {x}
  BY DEF ToSet

LEMMA Ranges ==
    ASSUME NEW S, NEW s \in Seq(S)
    PROVE  /\ ToSet(s) \subseteq S /\ Len(s) \in Nat /\ DOMAIN s = 1..Len(s)
           /\ \A i \in DOMAIN s : s[i] \in ToSet(s)
           /\ \A x \in ToSet(s) : \E i \in DOMAIN s : s[i] = x
  BY DEF ToSet

LEMMA Emptied == ASSUME NEW S PROVE <<>> \in Seq(S) /\ ToSet(<<>>) = {}
  BY DEF ToSet

LEMMA AppendedOnce ==
    ASSUME NEW S, NEW s \in Seq(S), NEW x \in S, IsInjective(s), x \notin ToSet(s)
    PROVE  IsInjective(Append(s, x))
<1>1. /\ DOMAIN s = 1..Len(s) /\ DOMAIN Append(s, x) = 1..Len(s) + 1 /\ Len(s) \in Nat
      /\ \A i \in DOMAIN s : Append(s, x)[i] = s[i] /\ s[i] \in ToSet(s)
      /\ Append(s, x)[Len(s) + 1] = x
  BY Appended, Ranges
<1> QED
  BY <1>1 DEF IsInjective

LEMMA EmptyOnce == IsInjective(<<>>)
  BY DEF IsInjective

LEMMA MinOfTwo == ASSUME NEW a \in Int, NEW b \in Int PROVE Min({a, b}) = IF a <= b THEN a ELSE b
  BY DEF Min

LEMMA CutOff ==
    ASSUME NEW S, NEW w \in Seq(S), NEW m \in 1..Len(w)
    PROVE  /\ SubSeq(w, 1, m) \in Seq(S) /\ Len(SubSeq(w, 1, m)) = m
           /\ DOMAIN SubSeq(w, 1, m) = 1..m
           /\ \A k \in 1..m : SubSeq(w, 1, m)[k] = w[k]
<1>1. Len(w) \in Nat /\ m \in Nat /\ 1 <= m /\ m <= Len(w) /\ 1..m \subseteq 1..Len(w)
  OBVIOUS
<1>2. \A k \in 1..m : w[k] \in S
  BY <1>1
<1> QED
  BY <1>1, <1>2

\* A new first element, and as many of the others as fit.
LEMMA Prepended ==
    ASSUME NEW S, NEW h \in Seq(S), NEW x \in S, NEW m \in 1..Len(h) + 1
    PROVE  /\ SubSeq(<<x>> \o h, 1, m) \in Seq(S) /\ Len(SubSeq(<<x>> \o h, 1, m)) = m
           /\ DOMAIN SubSeq(<<x>> \o h, 1, m) = 1..m
           /\ SubSeq(<<x>> \o h, 1, m)[1] = x
           /\ \A k \in 2..m : k - 1 \in DOMAIN h /\ SubSeq(<<x>> \o h, 1, m)[k] = h[k - 1]
<1>1. Len(h) \in Nat /\ DOMAIN h = 1..Len(h) /\ m \in Nat /\ 1 <= m /\ m <= Len(h) + 1
  OBVIOUS
<1>2. /\ <<x>> \o h \in Seq(S) /\ Len(<<x>> \o h) = Len(h) + 1
      /\ (<<x>> \o h)[1] = x
      /\ \A k \in 2..Len(h) + 1 : (<<x>> \o h)[k] = h[k - 1]
  BY <1>1
<1> DEFINE w == <<x>> \o h
<1>3. w \in Seq(S) /\ m \in 1..Len(w)
  BY <1>1, <1>2
<1>4. w[1] = x /\ \A k \in 2..m : k - 1 \in DOMAIN h /\ w[k] = h[k - 1]
  BY <1>1, <1>2
<1> HIDE DEF w
<1>5. /\ SubSeq(w, 1, m) \in Seq(S) /\ Len(SubSeq(w, 1, m)) = m
      /\ DOMAIN SubSeq(w, 1, m) = 1..m
      /\ \A k \in 1..m : SubSeq(w, 1, m)[k] = w[k]
  BY <1>3, CutOff
<1>6. SubSeq(w, 1, m)[1] = x /\ \A k \in 2..m : k - 1 \in DOMAIN h /\ SubSeq(w, 1, m)[k] = h[k - 1]
  BY <1>1, <1>4, <1>5
<1> QED
  BY <1>5, <1>6 DEF w

LEMMA CappedLength ==
    ASSUME NEW n \in Nat, NEW cap \in Nat \ {0}
    PROVE  Min({cap, n + 1}) \in 1..n + 1 /\ Min({cap, n + 1}) <= cap
  BY MinOfTwo

LEMMA Removed ==
    ASSUME NEW S, NEW s \in Seq(S), NEW i \in DOMAIN s
    PROVE  /\ RemoveAt(s, i) \in Seq(S)
           /\ \A k \in DOMAIN RemoveAt(s, i) : \E j \in DOMAIN s : RemoveAt(s, i)[k] = s[j]
<1> DEFINE a == SubSeq(s, 1, i - 1)
<1> DEFINE b == SubSeq(s, i + 1, Len(s))
<1>1. Len(s) \in Nat /\ DOMAIN s = 1..Len(s) /\ i \in 1..Len(s)
  OBVIOUS
<1>2. /\ a \in Seq(S) /\ Len(a) = i - 1 /\ \A k \in 1..i - 1 : a[k] = s[k]
  BY <1>1
<1>3. /\ b \in Seq(S) /\ Len(b) = Len(s) - i /\ \A k \in 1..Len(s) - i : b[k] = s[i + k]
  BY <1>1
<1> HIDE DEF a, b
<1>4. /\ a \o b \in Seq(S) /\ DOMAIN (a \o b) = 1..(Len(a) + Len(b))
      /\ \A k \in 1..(Len(a) + Len(b)) : (a \o b)[k] = IF k <= Len(a) THEN a[k] ELSE b[k - Len(a)]
  BY <1>2, <1>3
<1>5. ASSUME NEW k \in DOMAIN (a \o b) PROVE \E j \in DOMAIN s : (a \o b)[k] = s[j]
  <2>0. k \in Int /\ 1 <= k /\ k <= (i - 1) + (Len(s) - i) /\ i \in Int /\ Len(s) \in Int
    BY <1>1, <1>2, <1>3, <1>4
  <2>1. CASE k <= i - 1
    <3>1. k \in 1..i - 1 /\ k \in DOMAIN s
      BY <1>1, <2>0, <2>1
    <3>2. (a \o b)[k] = a[k]
      BY <1>2, <1>4, <2>1
    <3> QED
      BY <1>2, <3>1, <3>2
  <2>2. CASE k > i - 1
    <3>1. k - (i - 1) \in 1..Len(s) - i /\ i + (k - (i - 1)) \in 1..Len(s)
      BY <1>1, <2>0, <2>2
    <3>2. (a \o b)[k] = b[k - (i - 1)]
      <4>1. Len(a) = i - 1 /\ ~(k <= Len(a))
        BY <1>2, <2>0, <2>2
      <4>2. (a \o b)[k] = b[k - Len(a)]
        BY <1>4, <4>1
      <4> QED
        BY <4>1, <4>2
    <3> QED
      BY <1>1, <1>3, <3>1, <3>2
  <2> QED
    BY <2>0, <2>1, <2>2
<1>6. RemoveAt(s, i) = a \o b
  BY DEF RemoveAt, a, b
<1> QED
  BY <1>4, <1>5, <1>6

LEMMA Widened == ASSUME NEW S, NEW T, S \subseteq T, NEW s \in Seq(S) PROVE s \in Seq(T)
<1>1. Len(s) \in Nat /\ s \in [1..Len(s) -> S]
  OBVIOUS
<1>2. s \in [1..Len(s) -> T]
  BY <1>1
<1> QED
  BY <1>1, <1>2

-----------------------------------------------------------------------------
(* Sums over finite sets.                                                   *)

\* The sum of f over the subsets of a set, as MapThenFoldSet takes it: one element
\* after the other, each picked by CHOOSE.
Pick(T) == CHOOSE x \in T : TRUE
Adds(f, S, g) ==
    g = [T \in SUBSET S |-> IF T = {} THEN 0 ELSE f[Pick(T)] + g[T \ {Pick(T)}]]
Sums(f, S) == CHOOSE g : Adds(f, S, g)
SumOf(f, S) == Sums(f, S)[S]

LEMMA Folded == ASSUME NEW f PROVE SumOfSeries(f) = SumOf(f, DOMAIN f)
  BY DEF SumOfSeries, MapThenSumSet, MapThenFoldSet, SumOf, Sums, Adds, Pick

\* Induction over the subsets of a finite set: of those that are different, one has
\* no smaller one.
LEMMA SmallestSet ==
    ASSUME NEW S, IsFiniteSet(S), NEW B \in SUBSET SUBSET S, B # {}
    PROVE  \E T \in B : \A U \in B : U \subseteq T => U = T
<1> DEFINE R == StrictSubsetOrdering(S)
<1>1. IsWellFoundedOn(R, FiniteSubsetsOf(S))
  BY FS_StrictSubsetOrderingWellFounded
<1>2. B \subseteq FiniteSubsetsOf(S)
  BY FS_Subset DEF FiniteSubsetsOf
<1>3. ASSUME NEW T \in B, NEW U \in B, U \subseteq T, U # T PROVE <<U, T>> \in R
  BY <1>3 DEF StrictSubsetOrdering
<1> HIDE DEF R
<1>4. PICK T \in B : \A U \in B : ~(<<U, T>> \in R)
  BY <1>1, <1>2, WFMin
<1> QED
  BY <1>3, <1>4

LEMMA Picked == ASSUME NEW T, T # {} PROVE Pick(T) \in T /\ T \ {Pick(T)} # T
  BY DEF Pick

LEMMA AddsAt ==
    ASSUME NEW f, NEW S, NEW g, Adds(f, S, g), NEW T \in SUBSET S
    PROVE  g[T] = IF T = {} THEN 0 ELSE f[Pick(T)] + g[T \ {Pick(T)}]
<1> DEFINE v(T1) == IF T1 = {} THEN 0 ELSE f[Pick(T1)] + g[T1 \ {Pick(T1)}]
<1>1. g = [T1 \in SUBSET S |-> v(T1)]
  BY DEF Adds
<1> HIDE DEF v
<1>2. g[T] = v(T)
  BY <1>1
<1> QED
  BY <1>2 DEF v

\* Two such functions agree where both are defined, and there is one for each set.
LEMMA AddsOnce ==
    ASSUME NEW f, NEW S, NEW g, Adds(f, S, g), NEW S2, NEW h, Adds(f, S2, h),
           NEW T, T \subseteq S, T \subseteq S2, IsFiniteSet(T)
    PROVE  g[T] = h[T]
<1> DEFINE B == {U \in SUBSET T : g[U] # h[U]}
<1> SUFFICES ASSUME B # {} PROVE FALSE
  OBVIOUS
<1>1. PICK U \in B : \A W \in B : W \subseteq U => W = U
  <2> HIDE DEF B
  <2>1. B \in SUBSET SUBSET T
    BY DEF B
  <2> QED
    BY <2>1, SmallestSet
<1>2. U # {}
  BY AddsAt
<1> DEFINE W == U \ {Pick(U)}
<1>3. W \in SUBSET T /\ W \subseteq U /\ W # U
  BY <1>2, Picked
<1>4. g[W] = h[W]
  BY <1>1, <1>3
<1>5. g[U] = f[Pick(U)] + g[W] /\ h[U] = f[Pick(U)] + h[W]
  BY <1>2, AddsAt
<1> QED
  BY <1>1, <1>4, <1>5

LEMMA AddsAll ==
    ASSUME NEW f, NEW S, IsFiniteSet(S)
    PROVE  Adds(f, S, Sums(f, S))
<1> DEFINE B == {T \in SUBSET S : ~Adds(f, T, Sums(f, T))}
<1> SUFFICES ASSUME B # {} PROVE FALSE
  OBVIOUS
<1>1. PICK T \in B : \A U \in B : U \subseteq T => U = T
  <2> HIDE DEF B
  <2>1. B \in SUBSET SUBSET S
    BY DEF B
  <2> QED
    BY <2>1, SmallestSet
<1>2. \A U \in SUBSET T : U # T => Adds(f, U, Sums(f, U))
  BY <1>1
<1> DEFINE v(U) == IF U = {} THEN 0 ELSE f[Pick(U)] + SumOf(f, U \ {Pick(U)})
           g == [U \in SUBSET T |-> v(U)]
<1> HIDE DEF v
<1>3. ASSUME NEW U \in SUBSET T, U # T PROVE SumOf(f, U) = v(U)
  <2>1. Adds(f, U, Sums(f, U)) /\ IsFiniteSet(U)
    BY <1>2, <1>3, FS_Subset
  <2>2. SumOf(f, U) = IF U = {} THEN 0 ELSE f[Pick(U)] + Sums(f, U)[U \ {Pick(U)}]
    BY <2>1, AddsAt DEF SumOf
  <2>3. CASE U # {}
    <3>1. Adds(f, U \ {Pick(U)}, Sums(f, U \ {Pick(U)}))
      BY <1>2, <2>3, Picked
    <3>2. IsFiniteSet(U \ {Pick(U)})
      BY <2>1, FS_Subset
    <3>3. Sums(f, U)[U \ {Pick(U)}] = SumOf(f, U \ {Pick(U)})
      BY <2>1, <3>1, <3>2, AddsOnce DEF SumOf
    <3> QED
      BY <2>2, <2>3, <3>3 DEF v
  <2> QED
    BY <2>2, <2>3 DEF v
<1>4. ASSUME NEW U \in SUBSET T
      PROVE  v(U) = IF U = {} THEN 0 ELSE f[Pick(U)] + g[U \ {Pick(U)}]
  <2>1. U # {} => g[U \ {Pick(U)}] = SumOf(f, U \ {Pick(U)})
    BY <1>3, Picked
  <2> QED
    BY <2>1 DEF v
<1>5. Adds(f, T, g)
  BY <1>4 DEF Adds
<1> HIDE DEF g
<1>6. Adds(f, T, Sums(f, T))
  BY <1>5 DEF Sums
<1> QED
  BY <1>1, <1>6

\* A sum is taken element by element, in whatever order, and set by set.
LEMMA SumAt ==
    ASSUME NEW f, NEW S, IsFiniteSet(S)
    PROVE  SumOf(f, S) = IF S = {} THEN 0 ELSE f[Pick(S)] + SumOf(f, S \ {Pick(S)})
<1>1. Adds(f, S, Sums(f, S)) /\ IsFiniteSet(S \ {Pick(S)})
  BY AddsAll, FS_Subset
<1>2. Adds(f, S \ {Pick(S)}, Sums(f, S \ {Pick(S)}))
  BY <1>1, AddsAll
<1>3. Sums(f, S)[S \ {Pick(S)}] = SumOf(f, S \ {Pick(S)})
  BY <1>1, <1>2, AddsOnce DEF SumOf
<1>4. Sums(f, S)[S] = IF S = {} THEN 0 ELSE f[Pick(S)] + Sums(f, S)[S \ {Pick(S)}]
  BY <1>1, AddsAt
<1> QED
  BY <1>3, <1>4 DEF SumOf

LEMMA SumType ==
    ASSUME NEW f, NEW S, IsFiniteSet(S), \A x \in S : f[x] \in Int
    PROVE  SumOf(f, S) \in Int
<1> DEFINE B == {T \in SUBSET S : SumOf(f, T) \notin Int}
<1> SUFFICES ASSUME B # {} PROVE FALSE
  BY DEF B
<1>1. PICK T \in B : \A U \in B : U \subseteq T => U = T
  <2> HIDE DEF B
  <2>1. B \in SUBSET SUBSET S
    BY DEF B
  <2> QED
    BY <2>1, SmallestSet
<1>2. IsFiniteSet(T) /\ SumOf(f, T) = IF T = {} THEN 0 ELSE f[Pick(T)] + SumOf(f, T \ {Pick(T)})
  BY <1>1, FS_Subset, SumAt
<1>3. T # {} => Pick(T) \in S /\ SumOf(f, T \ {Pick(T)}) \in Int
  BY <1>1, Picked
<1> QED
  BY <1>1, <1>2, <1>3

\* Any element may be taken out first.
LEMMA SumTaken ==
    ASSUME NEW f, NEW S, IsFiniteSet(S), \A x \in S : f[x] \in Int, NEW x \in S
    PROVE  SumOf(f, S) = f[x] + SumOf(f, S \ {x})
<1> DEFINE B == {T \in SUBSET S : \E y \in T : SumOf(f, T) # f[y] + SumOf(f, T \ {y})}
<1> SUFFICES ASSUME B # {} PROVE FALSE
  BY DEF B
<1>1. PICK T \in B : \A U \in B : U \subseteq T => U = T
  <2> HIDE DEF B
  <2>1. B \in SUBSET SUBSET S
    BY DEF B
  <2> QED
    BY <2>1, SmallestSet
<1>2. PICK y \in T : SumOf(f, T) # f[y] + SumOf(f, T \ {y})
  BY <1>1
<1>3. PICK p \in T : IsFiniteSet(T) /\ SumOf(f, T) = f[p] + SumOf(f, T \ {p})
  <2>1. Pick(T) \in T /\ IsFiniteSet(T) /\ T # {}
    BY <1>1, <1>2, Picked, FS_Subset
  <2> QED
    BY <2>1, SumAt
<1>4. p # y
  BY <1>2, <1>3
<1>5. ASSUME NEW U, U \subseteq T, U # T, NEW z \in U
      PROVE  SumOf(f, U) = f[z] + SumOf(f, U \ {z})
  BY <1>1, <1>5
<1>6. PICK W : W = T \ {p, y}
  OBVIOUS
<1>7. SumOf(f, T \ {p}) = f[y] + SumOf(f, W)
  <2>1. (T \ {p}) \ {y} = W /\ y \in T \ {p} /\ T \ {p} \subseteq T /\ T \ {p} # T
    BY <1>4, <1>6
  <2>2. SumOf(f, T \ {p}) = f[y] + SumOf(f, (T \ {p}) \ {y})
    BY <1>5, <2>1
  <2> QED
    BY <2>1, <2>2
<1>8. SumOf(f, T \ {y}) = f[p] + SumOf(f, W)
  <2>1. (T \ {y}) \ {p} = W /\ p \in T \ {y} /\ T \ {y} \subseteq T /\ T \ {y} # T
    BY <1>4, <1>6
  <2>2. SumOf(f, T \ {y}) = f[p] + SumOf(f, (T \ {y}) \ {p})
    BY <1>5, <2>1
  <2> QED
    BY <2>1, <2>2
<1>9. f[p] \in Int /\ f[y] \in Int /\ SumOf(f, W) \in Int
  <2>1. IsFiniteSet(W) /\ W \subseteq S
    BY <1>1, <1>3, <1>6, FS_Subset
  <2> QED
    BY <1>1, <2>1, SumType
<1> QED
  BY <1>2, <1>3, <1>7, <1>8, <1>9

LEMMA SumSame ==
    ASSUME NEW f, NEW g, NEW S, IsFiniteSet(S), \A x \in S : f[x] = g[x]
    PROVE  SumOf(f, S) = SumOf(g, S)
<1> DEFINE B == {T \in SUBSET S : SumOf(f, T) # SumOf(g, T)}
<1> SUFFICES ASSUME B # {} PROVE FALSE
  BY DEF B
<1>1. PICK T \in B : \A U \in B : U \subseteq T => U = T
  <2> HIDE DEF B
  <2>1. B \in SUBSET SUBSET S
    BY DEF B
  <2> QED
    BY <2>1, SmallestSet
<1>2. /\ IsFiniteSet(T)
      /\ SumOf(f, T) = IF T = {} THEN 0 ELSE f[Pick(T)] + SumOf(f, T \ {Pick(T)})
      /\ SumOf(g, T) = IF T = {} THEN 0 ELSE g[Pick(T)] + SumOf(g, T \ {Pick(T)})
  BY <1>1, FS_Subset, SumAt
<1>3. T # {} => Pick(T) \in S /\ SumOf(f, T \ {Pick(T)}) = SumOf(g, T \ {Pick(T)})
  BY <1>1, Picked
<1> QED
  BY <1>1, <1>2, <1>3

LEMMA SumUnion ==
    ASSUME NEW f, NEW S, IsFiniteSet(S), NEW R, IsFiniteSet(R), S \cap R = {},
           \A x \in S \cup R : f[x] \in Int
    PROVE  SumOf(f, S \cup R) = SumOf(f, S) + SumOf(f, R)
<1> DEFINE B == {T \in SUBSET S : SumOf(f, T \cup R) # SumOf(f, T) + SumOf(f, R)}
<1> SUFFICES ASSUME B # {} PROVE FALSE
  BY DEF B
<1>1. PICK T \in B : \A U \in B : U \subseteq T => U = T
  <2> HIDE DEF B
  <2>1. B \in SUBSET SUBSET S
    BY DEF B
  <2> QED
    BY <2>1, SmallestSet
<1>2. IsFiniteSet(T) /\ IsFiniteSet(T \cup R) /\ SumOf(f, R) \in Int
  BY <1>1, FS_Subset, FS_Union, SumType
<1>0. SumOf(f, T \cup R) # SumOf(f, T) + SumOf(f, R)
  BY <1>1
<1>3. CASE T = {}
  <2>1. SumOf(f, T) = 0 /\ T \cup R = R
    BY <1>2, <1>3, SumAt
  <2>2. 0 + SumOf(f, R) = SumOf(f, R)
    BY <1>2
  <2> QED
    BY <1>0, <2>1, <2>2
<1>4. CASE T # {}
  <2> DEFINE x == Pick(T)
             U == T \ {x}
  <2>1. x \in T /\ U \in SUBSET S /\ U \subseteq T /\ U # T
    BY <1>1, <1>4, Picked
  <2> HIDE DEF x
  <2>2. SumOf(f, U \cup R) = SumOf(f, U) + SumOf(f, R)
    BY <1>1, <2>1
  <2>3. (T \cup R) \ {x} = U \cup R
    BY <1>1, <2>1
  <2>4. SumOf(f, T \cup R) = f[x] + SumOf(f, U \cup R)
    <3>1. \A y \in T \cup R : f[y] \in Int
      BY <1>1
    <3>2. SumOf(f, T \cup R) = f[x] + SumOf(f, (T \cup R) \ {x})
      BY <1>2, <2>1, <3>1, SumTaken
    <3> QED
      BY <2>3, <3>2
  <2>5. SumOf(f, T) = f[x] + SumOf(f, U)
    BY <1>1, <1>2, <2>1, SumTaken
  <2>6. f[x] \in Int /\ SumOf(f, U) \in Int
    BY <1>1, <1>2, <2>1, FS_Subset, SumType
  <2> QED
    BY <1>1, <1>2, <2>2, <2>4, <2>5, <2>6
<1> QED
  BY <1>3, <1>4

LEMMA SumNat ==
    ASSUME NEW f, NEW S, IsFiniteSet(S), \A x \in S : f[x] \in Nat
    PROVE  SumOf(f, S) \in Nat
<1> DEFINE B == {T \in SUBSET S : SumOf(f, T) \notin Nat}
<1> SUFFICES ASSUME B # {} PROVE FALSE
  BY DEF B
<1>1. PICK T \in B : \A U \in B : U \subseteq T => U = T
  <2> HIDE DEF B
  <2>1. B \in SUBSET SUBSET S
    BY DEF B
  <2> QED
    BY <2>1, SmallestSet
<1>2. IsFiniteSet(T) /\ SumOf(f, T) = IF T = {} THEN 0 ELSE f[Pick(T)] + SumOf(f, T \ {Pick(T)})
  BY <1>1, FS_Subset, SumAt
<1>3. T # {} => Pick(T) \in S /\ SumOf(f, T \ {Pick(T)}) \in Nat
  BY <1>1, Picked
<1> QED
  BY <1>1, <1>2, <1>3

\* Less of what is not negative is not more.
LEMMA SumOfPart ==
    ASSUME NEW f, NEW S, IsFiniteSet(S), \A x \in S : f[x] \in Nat, NEW R \in SUBSET S
    PROVE  SumOf(f, R) <= SumOf(f, S)
<1>1. IsFiniteSet(R) /\ IsFiniteSet(S \ R) /\ R \cap (S \ R) = {} /\ R \cup (S \ R) = S
  BY FS_Subset
<1>2. SumOf(f, S) = SumOf(f, R) + SumOf(f, S \ R)
  BY <1>1, SumUnion
<1>3. SumOf(f, R) \in Nat /\ SumOf(f, S \ R) \in Nat
  BY <1>1, SumNat
<1> QED
  BY <1>2, <1>3

\* A cardinality is a sum of ones.
LEMMA SumOfOnes ==
    ASSUME NEW f, NEW S, IsFiniteSet(S), \A x \in S : f[x] = 1
    PROVE  SumOf(f, S) = Cardinality(S)
<1> DEFINE B == {T \in SUBSET S : SumOf(f, T) # Cardinality(T)}
<1> SUFFICES ASSUME B # {} PROVE FALSE
  BY DEF B
<1>1. PICK T \in B : \A U \in B : U \subseteq T => U = T
  <2> HIDE DEF B
  <2>1. B \in SUBSET SUBSET S
    BY DEF B
  <2> QED
    BY <2>1, SmallestSet
<1>2. IsFiniteSet(T) /\ SumOf(f, T) = IF T = {} THEN 0 ELSE f[Pick(T)] + SumOf(f, T \ {Pick(T)})
  BY <1>1, FS_Subset, SumAt
<1>3. T # {} => Pick(T) \in T /\ SumOf(f, T \ {Pick(T)}) = Cardinality(T \ {Pick(T)})
  BY <1>1, Picked
<1>4. /\ Cardinality(T) \in Nat /\ (T = {} => Cardinality(T) = 0)
      /\ Pick(T) \in T => Cardinality(T \ {Pick(T)}) = Cardinality(T) - 1
  BY <1>2, FS_CardinalityType, FS_EmptySet, FS_RemoveElement
<1> QED
  BY <1>1, <1>2, <1>3, <1>4

\* The rows R, grouped by the values V of a column, with g the sums of f by group.
\* There may be values that none of these rows has.
RowsWith(R, column, v) == {r \in R : r[column] = v}
Grouped(f, R, column, V, g) ==
    /\ IsFiniteSet(R) /\ IsFiniteSet(V)
    /\ \A r \in R : f[r] \in Int /\ r[column] \in V
    /\ \A v \in V : g[v] = SumOf(f, RowsWith(R, column, v))

\* The sums of the groups add up to that of the rows, and so do their numbers.
LEMMA SumOfGroups ==
    ASSUME NEW f, NEW R, NEW column, NEW V, NEW g, Grouped(f, R, column, V, g)
    PROVE  SumOf(g, V) = SumOf(f, R)
<1>0. /\ IsFiniteSet(R) /\ IsFiniteSet(V)
      /\ \A r \in R : f[r] \in Int /\ r[column] \in V
      /\ \A v \in V : g[v] = SumOf(f, RowsWith(R, column, v))
  BY DEF Grouped
<1> USE <1>0
<1> DEFINE In(T) == {r \in R : r[column] \in T}
           B == {T \in SUBSET V : SumOf(g, T) # SumOf(f, In(T))}
<1>1. ASSUME B = {} PROVE SumOf(g, V) = SumOf(f, R)
  <2>1. In(V) = R /\ V \notin B
    BY <1>1
  <2> QED
    BY <2>1
<1> SUFFICES ASSUME B # {} PROVE FALSE
  BY <1>1
<1>2. PICK T \in B : \A U \in B : U \subseteq T => U = T
  <2> HIDE DEF B
  <2>1. B \in SUBSET SUBSET V
    BY DEF B
  <2> QED
    BY <2>1, SmallestSet
<1>3. IsFiniteSet(T) /\ T \in SUBSET V
  BY <1>2, FS_Subset
<1>4. \A v \in V : g[v] \in Int
  <2> SUFFICES ASSUME NEW v \in V PROVE g[v] \in Int
    OBVIOUS
  <2>1. PICK A : A = {r \in R : r[column] = v} /\ A = RowsWith(R, column, v)
    BY DEF RowsWith
  <2>2. IsFiniteSet(A) /\ \A r \in A : f[r] \in Int
    BY <2>1, FS_Subset
  <2>3. SumOf(f, A) \in Int
    BY ONLY <2>2, SumType
  <2> QED
    BY <2>1, <2>3
<1>5. SumOf(g, T) # SumOf(f, In(T))
  BY <1>2
<1>6. CASE T = {}
  <2>1. In(T) = {} /\ IsFiniteSet({})
    BY <1>6, FS_EmptySet
  <2>2. SumOf(f, {}) = 0 /\ SumOf(g, {}) = 0
    BY <2>1, SumAt
  <2> QED
    BY <1>5, <1>6, <2>1, <2>2
<1>7. CASE T # {}
  <2>1. PICK v \in T : TRUE
    BY <1>7
  <2>2. PICK U : U = T \ {v}
    OBVIOUS
  <2>3. U \in SUBSET V /\ U \subseteq T /\ U # T
    BY <1>3, <2>2
  <2>4. SumOf(g, U) = SumOf(f, In(U))
    BY <1>2, <2>3
  <2>5. SumOf(g, T) = g[v] + SumOf(g, U)
    BY <1>3, <1>4, <2>2, SumTaken
  <2>6. PICK A : A = {r \in R : r[column] = v} /\ A = RowsWith(R, column, v)
    BY DEF RowsWith
  <2>7. PICK C : C = In(U)
    OBVIOUS
  <2>8. IsFiniteSet(A) /\ IsFiniteSet(C) /\ A \cap C = {} /\ A \cup C = In(T)
        /\ \A r \in A \cup C : f[r] \in Int
    <3>1. A \in SUBSET R /\ C \in SUBSET R
      BY <2>6, <2>7
    <3>2. A \cap C = {} /\ A \cup C = In(T)
      BY <2>2, <2>6, <2>7
    <3> QED
      BY <3>1, <3>2, FS_Subset
  <2>9. SumOf(f, A \cup C) = SumOf(f, A) + SumOf(f, C)
    BY <2>8, SumUnion
  <2>10. g[v] = SumOf(f, A)
    BY <1>3, <2>6
  <2> QED
    BY <1>5, <2>4, <2>5, <2>7, <2>8, <2>9, <2>10
<1> QED
  BY <1>6, <1>7

LEMMA CountOfGroups ==
    ASSUME NEW R, NEW column, NEW V, NEW g,
           IsFiniteSet(R), IsFiniteSet(V), \A r \in R : r[column] \in V,
           \A v \in V : g[v] = Cardinality(RowsWith(R, column, v))
    PROVE  SumOf(g, V) = Cardinality(R)
<1>0. PICK one : one = [r \in R |-> 1]
  OBVIOUS
<1>1. \A r \in R : one[r] = 1
  BY <1>0
<1>2. SumOf(one, R) = Cardinality(R)
  BY <1>1, SumOfOnes
<1>3. \A v \in V : g[v] = SumOf(one, RowsWith(R, column, v))
  <2> SUFFICES ASSUME NEW v \in V PROVE g[v] = SumOf(one, RowsWith(R, column, v))
    OBVIOUS
  <2>1. PICK A : A = {r \in R : r[column] = v} /\ A = RowsWith(R, column, v)
    BY DEF RowsWith
  <2>2. IsFiniteSet(A) /\ \A r \in A : one[r] = 1
    BY <1>1, <2>1, FS_Subset
  <2>3. SumOf(one, A) = Cardinality(A)
    BY <2>2, SumOfOnes
  <2> QED
    BY <2>1, <2>3
<1>4. \A r \in R : one[r] \in Int /\ r[column] \in V
  BY <1>1
<1>5. SumOf(g, V) = SumOf(one, R)
  <2>1. IsFiniteSet(R) /\ IsFiniteSet(V)
    OBVIOUS
  <2>2. Grouped(one, R, column, V, g)
    BY <1>3, <1>4, <2>1 DEF Grouped
  <2> QED
    BY <2>2, SumOfGroups
<1> QED
  BY <1>2, <1>5

LEMMA Cancelled ==
    ASSUME NEW n \in Nat \ {0}, NEW p \in Int, NEW m \in Int, n * p <= n * m
    PROVE  p <= m
  OBVIOUS

\* What rounding adds or takes is at most half of one.
LEMMA RoundedIs ==
    ASSUME NEW n \in Nat \ {0}, NEW x \in Nat
    PROVE  /\ Rounded(x, n) \in Nat
           /\ 2 * (n * Rounded(x, n)) <= 2 * x + n
           /\ 2 * x <= 2 * (n * Rounded(x, n)) + n
<1>1. PICK d \in Nat \ {0} : d = 2 * n
  OBVIOUS
<1>2. PICK y \in Nat : y = 2 * x + n
  OBVIOUS
<1>3. \A q \in Int : q = y \div d => q \in Nat /\ d * q <= y /\ y < d * q + d
  OBVIOUS
<1>4. Rounded(x, n) = y \div d
  BY <1>1, <1>2 DEF Rounded
<1>5. y \div d \in Nat
  OBVIOUS
<1>6. PICK q \in Nat : q = y \div d
  BY <1>5
<1>7. d * q <= y /\ y < d * q + d
  BY <1>3, <1>6
<1>8. d * q = 2 * (n * q)
  BY <1>1
<1>9. n * q \in Nat
  OBVIOUS
<1> QED
  BY <1>1, <1>2, <1>4, <1>6, <1>7, <1>8, <1>9

\* Each rounded, the shares of n add up to their sum's share but for half of one
\* each.
SharesNear(p, g, n, T) ==
    /\ 2 * (n * SumOf(p, T)) <= 20000 * SumOf(g, T) + n * Cardinality(T)
    /\ 20000 * SumOf(g, T) <= 2 * (n * SumOf(p, T)) + n * Cardinality(T)

LEMMA SumOfShares ==
    ASSUME NEW V, IsFiniteSet(V), NEW n \in Nat \ {0}, NEW g, \A v \in V : g[v] \in Nat,
           NEW p, \A v \in V : p[v] = Rounded(10000 * g[v], n)
    PROVE  SharesNear(p, g, n, V)
<1> DEFINE B == {T \in SUBSET V : ~SharesNear(p, g, n, T)}
<1>1. \A v \in V : /\ p[v] \in Nat /\ g[v] \in Nat
                   /\ 2 * (n * p[v]) <= 20000 * g[v] + n
                   /\ 20000 * g[v] <= 2 * (n * p[v]) + n
  <2> SUFFICES ASSUME NEW v \in V
               PROVE  /\ p[v] \in Nat /\ g[v] \in Nat
                      /\ 2 * (n * p[v]) <= 20000 * g[v] + n
                      /\ 20000 * g[v] <= 2 * (n * p[v]) + n
    OBVIOUS
  <2>1. PICK x \in Nat : x = 10000 * g[v]
    OBVIOUS
  <2>2. p[v] = Rounded(x, n)
    BY <2>1
  <2>3. p[v] \in Nat /\ 2 * (n * p[v]) <= 2 * x + n /\ 2 * x <= 2 * (n * p[v]) + n
    <3>1. /\ Rounded(x, n) \in Nat
          /\ 2 * (n * Rounded(x, n)) <= 2 * x + n
          /\ 2 * x <= 2 * (n * Rounded(x, n)) + n
      BY ONLY RoundedIs, n \in Nat \ {0}, x \in Nat
    <3> QED
      BY ONLY <2>2, <3>1
  <2> QED
    BY <2>1, <2>3
<1> SUFFICES ASSUME B # {} PROVE FALSE
  OBVIOUS
<1>3. PICK T \in B : \A U \in B : U \subseteq T => U = T
  <2> HIDE DEF B
  <2>1. B \in SUBSET SUBSET V
    BY DEF B
  <2> QED
    BY <2>1, SmallestSet
<1>4. IsFiniteSet(T) /\ T \in SUBSET V
  BY <1>3, FS_Subset
<1>5. ~SharesNear(p, g, n, T)
  BY <1>3
<1>6. CASE T = {}
  <2>1. SumOf(p, T) = 0 /\ SumOf(g, T) = 0
    BY ONLY <1>4, <1>6, SumAt
  <2>2. Cardinality(T) = 0 /\ n * 0 = 0
    BY ONLY <1>6, FS_EmptySet, n \in Nat \ {0}
  <2> QED
    BY <1>5, <2>1, <2>2 DEF SharesNear
<1>7. CASE T # {}
  <2>1. PICK v \in T : TRUE
    BY <1>7
  <2>2. PICK U : U = T \ {v}
    BY ONLY <1>7
  <2>3. U \in SUBSET V /\ U \subseteq T /\ U # T /\ IsFiniteSet(U)
    BY <1>4, <2>2, FS_Subset
  <2>4. SharesNear(p, g, n, U)
    BY <1>3, <2>3
  <2>5. SumOf(p, T) = p[v] + SumOf(p, U) /\ SumOf(g, T) = g[v] + SumOf(g, U)
    <3>1. \A x \in T : p[x] \in Int /\ g[x] \in Int
      BY <1>1, <1>4
    <3> QED
      BY <1>4, <2>2, <3>1, SumTaken
  <2>6. SumOf(p, U) \in Nat /\ SumOf(g, U) \in Nat
    BY <1>1, <2>3, SumNat
  <2>7. /\ p[v] \in Nat /\ g[v] \in Nat
        /\ 2 * (n * p[v]) <= 20000 * g[v] + n /\ 20000 * g[v] <= 2 * (n * p[v]) + n
    BY <1>1, <1>4
  <2>8. Cardinality(T) = Cardinality(U) + 1 /\ Cardinality(U) \in Nat
    <3>1. Cardinality(U) = Cardinality(T) - 1 /\ Cardinality(T) \in Nat
      <4>1. IsFiniteSet(T) /\ v \in T
        BY <1>4, <2>1
      <4>2. Cardinality(T \ {v}) = IF v \in T THEN Cardinality(T) - 1 ELSE Cardinality(T)
        BY ONLY <4>1, FS_RemoveElement
      <4>3. Cardinality(T) \in Nat
        BY ONLY <4>1, FS_CardinalityType
      <4> QED
        BY ONLY <2>2, <4>1, <4>2, <4>3
    <3> QED
      BY <2>3, <3>1, FS_CardinalityType
  <2>9. /\ n * (p[v] + SumOf(p, U)) = n * p[v] + n * SumOf(p, U)
        /\ n * (Cardinality(U) + 1) = n * Cardinality(U) + n
        /\ n * p[v] \in Nat /\ n * SumOf(p, U) \in Nat /\ n * Cardinality(U) \in Nat
    <3>1. PICK a, b, k : a = p[v] /\ b = SumOf(p, U) /\ k = Cardinality(U)
      BY ONLY <1>7
    <3>2. a \in Nat /\ b \in Nat /\ k \in Nat
      BY ONLY <2>6, <2>7, <2>8, <3>1
    <3>3. n * (a + b) = n * a + n * b /\ n * (k + 1) = n * k + n
          /\ n * a \in Nat /\ n * b \in Nat /\ n * k \in Nat
      BY ONLY <3>2, n \in Nat \ {0}
    <3> QED
      BY ONLY <3>1, <3>3
  <2> QED
    BY ONLY <1>5, <2>4, <2>5, <2>6, <2>7, <2>8, <2>9, n \in Nat \ {0} DEF SharesNear
<1> QED
  BY <1>6, <1>7

\* A finite set of integers has a greatest and a least one.
LEMMA Highest ==
    ASSUME NEW S, S \subseteq Int, IsFiniteSet(S), S # {}
    PROVE  \E x \in S : \A y \in S : y <= x
<1> DEFINE B == {T \in SUBSET S : T # {} /\ ~\E x \in T : \A y \in T : y <= x}
<1> SUFFICES ASSUME B # {} PROVE FALSE
  OBVIOUS
<1>1. PICK T \in B : \A U \in B : U \subseteq T => U = T
  <2> HIDE DEF B
  <2>1. B \in SUBSET SUBSET S
    BY DEF B
  <2>2. IsFiniteSet(S) /\ B # {}
    OBVIOUS
  <2> QED
    BY ONLY <2>1, <2>2, SmallestSet
<1>2. T \subseteq Int /\ T # {} /\ ~\E x \in T : \A y \in T : y <= x
  BY <1>1
<1>3. PICK z \in T : TRUE
  BY <1>2
<1>4. PICK U : U = T \ {z}
  OBVIOUS
<1>5. U # {} => \E x \in U : \A y \in U : y <= x
  <2>1. U \subseteq T /\ U # T /\ U \in SUBSET S
    BY <1>1, <1>3, <1>4
  <2>2. U \notin B
    BY <1>1, <2>1
  <2> QED
    BY <2>1, <2>2
<1>6. CASE U = {}
  <2>1. \A y \in T : y = z
    BY <1>4, <1>6
  <2> QED
    BY <1>2, <2>1
<1>7. CASE U # {}
  <2>1. PICK x \in U : \A y \in U : y <= x
    BY <1>5, <1>7
  <2>2. x \in T /\ \A y \in T : y = z \/ y <= x
    BY <1>4, <2>1
  <2>3. CASE z <= x
    BY <1>2, <2>2, <2>3
  <2>4. CASE ~(z <= x)
    <3>1. \A y \in T : y <= z
      BY <1>2, <2>2, <2>4
    <3> QED
      BY <1>2, <3>1
  <2> QED
    BY <2>3, <2>4
<1> QED
  BY <1>6, <1>7

LEMMA MaxIs ==
    ASSUME NEW S, S \subseteq Int, IsFiniteSet(S), S # {}
    PROVE  Max(S) \in S /\ \A y \in S : y <= Max(S)
<1>1. \E x \in S : \A y \in S : x >= y
  BY Highest
<1> QED
  BY <1>1 DEF Max

LEMMA Lowest ==
    ASSUME NEW S, S \subseteq Int, IsFiniteSet(S), S # {}
    PROVE  \E x \in S : \A y \in S : x <= y
<1> DEFINE B == {T \in SUBSET S : T # {} /\ ~\E x \in T : \A y \in T : x <= y}
<1> SUFFICES ASSUME B # {} PROVE FALSE
  OBVIOUS
<1>1. PICK T \in B : \A U \in B : U \subseteq T => U = T
  <2> HIDE DEF B
  <2>1. B \in SUBSET SUBSET S
    BY DEF B
  <2>2. IsFiniteSet(S) /\ B # {}
    OBVIOUS
  <2> QED
    BY ONLY <2>1, <2>2, SmallestSet
<1>2. T \subseteq Int /\ T # {} /\ ~\E x \in T : \A y \in T : x <= y
  BY <1>1
<1>3. PICK z \in T : TRUE
  BY <1>2
<1>4. PICK U : U = T \ {z}
  OBVIOUS
<1>5. U # {} => \E x \in U : \A y \in U : x <= y
  <2>1. U \subseteq T /\ U # T /\ U \in SUBSET S
    BY <1>1, <1>3, <1>4
  <2>2. U \notin B
    BY <1>1, <2>1
  <2> QED
    BY <2>1, <2>2
<1>6. CASE U = {}
  <2>1. \A y \in T : y = z
    BY <1>4, <1>6
  <2> QED
    BY <1>2, <2>1
<1>7. CASE U # {}
  <2>1. PICK x \in U : \A y \in U : x <= y
    BY <1>5, <1>7
  <2>2. x \in T /\ \A y \in T : y = z \/ x <= y
    BY <1>4, <2>1
  <2>3. CASE x <= z
    BY <1>2, <2>2, <2>3
  <2>4. CASE ~(x <= z)
    <3>1. \A y \in T : z <= y
      BY <1>2, <2>2, <2>4
    <3> QED
      BY <1>2, <3>1
  <2> QED
    BY <2>3, <2>4
<1> QED
  BY <1>6, <1>7

-----------------------------------------------------------------------------
(* Analytics: what the answers of one report have in common.                *)

\* What a summary got is what each query would still return, as long as no row
\* entered or left the window.
CurrentInv ==
    report.kind = "summary" /\ report.changed = 0 =>
        \A q \in DOMAIN report.got : report.got[q] = SummaryValue(q, report.window)

\* Whatever changed, it is off by at most the rows that did: n are there now.
SummaryNear(got, n, changed) ==
    /\ "total" \in DOMAIN got => got["total"] \in Nat /\ n <= got["total"] + changed
    /\ "activeUsers" \in DOMAIN got =>
          got["activeUsers"] \in Nat /\ got["activeUsers"] <= n + changed
    /\ {"total", "activeUsers"} \subseteq DOMAIN got =>
          got["activeUsers"] <= got["total"] + changed
SearchNear(got, n, changed, l, o) ==
    /\ "count" \in DOMAIN got =>
          got["count"] \in Nat /\ got["count"] <= n /\ n <= got["count"] + changed
    /\ "data" \in DOMAIN got => Len(got["data"]) \in Page(n - changed, l, o)..Page(n, l, o)
    /\ {"count", "data"} \subseteq DOMAIN got =>
          Len(got["data"]) \in Page(got["count"] - changed, l, o)..Page(got["count"] + changed, l, o)
RowCount == Cardinality(RowsInWindow(report.window))
NearInv ==
    /\ report.kind = "summary" => SummaryNear(report.got, RowCount, report.changed)
    /\ report.kind = "search" =>
         SearchNear(report.got, Cardinality(Matching(report.filter)), report.changed,
                    report.limit, report.offset)

\* The table is within its bound.
AnalyticsInv ==
    /\ AnalyticsTypeOK /\ IsFiniteSet(rows) /\ Cardinality(rows) <= MaxRows
    /\ CurrentInv /\ NearInv

LEMMA Kinds ==
    ASSUME AnalyticsTypeOK
    PROVE  \/ report = NoReport /\ report.kind = "none" /\ Asked = {}
           \/ /\ report # NoReport /\ report.kind = "summary" /\ Asked = SummaryQueries
              /\ report \in Summaries({report.got}) /\ DOMAIN report.got \subseteq Asked
              /\ report.window \in Windows /\ report.changed \in Nat
           \/ /\ report # NoReport /\ report.kind = "search" /\ Asked = SearchQueries
              /\ report \in Searches({report.got}) /\ DOMAIN report.got \subseteq Asked
              /\ report.changed \in Nat /\ report.limit \in Nat /\ report.offset \in Nat
<1>1. NoReport.kind = "none"
  BY DEF NoReport
<1>2. CASE report = NoReport
  BY <1>1, <1>2 DEF Asked
<1>3. CASE report \in Summaries({report.got}) /\ DOMAIN report.got \subseteq Asked
  <2>1. report.kind = "summary" /\ report.window \in Windows /\ report.changed \in Nat
    BY <1>3 DEF Summaries
  <2> QED
    BY <1>1, <1>3, <2>1 DEF Asked
<1>4. CASE report \in Searches({report.got}) /\ DOMAIN report.got \subseteq Asked
  <2>1. /\ report.kind = "search" /\ report.changed \in Nat
        /\ report.limit \in Nat /\ report.offset \in Nat
    BY <1>4, AnalyticsAssumption DEF Searches
  <2> QED
    BY <1>1, <1>4, <2>1 DEF Asked
<1> QED
  BY <1>2, <1>3, <1>4 DEF AnalyticsTypeOK

LEMMA AnalyticsInitially == AnalyticsInit => AnalyticsInv
<1>1. IsFiniteSet({}) /\ Cardinality({}) = 0
  BY FS_EmptySet
<1>2. NoReport.kind = "none"
  BY DEF NoReport
<1> QED
  BY <1>1, <1>2, AnalyticsAssumption
     DEF AnalyticsInit, AnalyticsInv, AnalyticsTypeOK, CurrentInv, NearInv

LEMMA RowTypes ==
    ASSUME AnalyticsTypeOK, NEW r \in rows
    PROVE  r["time"] \in 0..MaxMinute /\ r["latencyMs"] \in Int /\ r["bytes"] \in Nat
<1>1. PICK s \in Samples, i \in 1..MaxRows, t \in 0..MaxMinute : r = Row(s, i, t)
  BY DEF AnalyticsTypeOK
<1>2. s.latencyMs \in Int /\ s.bytes \in Nat
  BY AnalyticsAssumption
<1>3. r["time"] = t /\ r["latencyMs"] = s.latencyMs /\ r["bytes"] = s.bytes
  BY <1>1 DEF Row
<1> QED
  BY <1>2, <1>3

\* The rows a report looks at.
LEMMA LookedAt ==
    ASSUME AnalyticsInv
    PROVE  /\ IsFiniteSet(RowsInWindow(report.window))
           /\ RowCount \in Nat /\ (RowCount = 0 => RowsInWindow(report.window) = {})
           /\ IsFiniteSet(Matching(report.filter)) /\ Cardinality(Matching(report.filter)) \in Nat
<1>1. RowsInWindow(report.window) \subseteq rows /\ Matching(report.filter) \subseteq rows
  BY DEF RowsInWindow, Matching, MatchingRows
<1> QED
  BY <1>1, FS_Subset, FS_CardinalityType, FS_EmptySet DEF AnalyticsInv, RowCount

\* Every bound of SummaryNear and SearchNear gives way as far as rows change.
LEMMA SummaryDrifts ==
    ASSUME NEW got, NEW n \in Nat, NEW m \in Nat, NEW c \in Nat, NEW d \in Nat,
           SummaryNear(got, n, c), m <= n + d, n <= m + d
    PROVE  SummaryNear(got, m, c + d)
  BY DEF SummaryNear

LEMMA Smallest ==
    ASSUME NEW a \in Int, NEW b \in Int
    PROVE  /\ Min({a, b}) = IF a <= b THEN a ELSE b
           /\ Max({a, b}) = IF a >= b THEN a ELSE b
  BY DEF Min, Max

LEMMA SmallestOfThree ==
    ASSUME NEW a \in Int, NEW b \in Int, NEW c \in Int
    PROVE  Min({a, b, c}) = IF a <= b /\ a <= c THEN a ELSE IF b <= c THEN b ELSE c
  BY DEF Min

LEMMA PageIs ==
    ASSUME NEW count \in Int, NEW l \in Nat, NEW o \in Nat
    PROVE  Page(count, l, o) =
             IF count <= o THEN 0
             ELSE IF l <= MaxLimit THEN IF o + l <= count THEN l ELSE count - o
                  ELSE IF o + MaxLimit <= count THEN MaxLimit ELSE count - o
<1>1. MaxLimit \in Nat
  BY AnalyticsAssumption
<1> DEFINE least == Min({l, MaxLimit, count - o})
<1>2. least = IF l <= MaxLimit /\ l <= count - o THEN l
              ELSE IF MaxLimit <= count - o THEN MaxLimit ELSE count - o
  BY <1>1, SmallestOfThree
<1>3. least \in Int
  BY <1>1, <1>2
<1> HIDE DEF least
<1>4. Max({0, least}) = IF 0 >= least THEN 0 ELSE least
  BY <1>3, Smallest
<1> QED
  BY <1>1, <1>2, <1>4 DEF Page, least

LEMMA PageGrows ==
    ASSUME NEW a \in Int, NEW b \in Int, NEW l \in Nat, NEW o \in Nat, a <= b
    PROVE  Page(a, l, o) \in Nat /\ Page(b, l, o) \in Nat /\ Page(a, l, o) <= Page(b, l, o)
<1>1. MaxLimit \in Nat
  BY AnalyticsAssumption
<1>2. Page(a, l, o) =
        IF a <= o THEN 0
        ELSE IF l <= MaxLimit THEN IF o + l <= a THEN l ELSE a - o
             ELSE IF o + MaxLimit <= a THEN MaxLimit ELSE a - o
  BY PageIs
<1>3. Page(b, l, o) =
        IF b <= o THEN 0
        ELSE IF l <= MaxLimit THEN IF o + l <= b THEN l ELSE b - o
             ELSE IF o + MaxLimit <= b THEN MaxLimit ELSE b - o
  BY PageIs
<1>4. CASE l <= MaxLimit
  BY <1>1, <1>2, <1>3, <1>4
<1>5. CASE ~(l <= MaxLimit)
  BY <1>1, <1>2, <1>3, <1>5
<1> QED
  BY <1>4, <1>5

\* The same of two numbers that are given by expressions.
LEMMA PageBetween ==
    ASSUME NEW a, NEW b, NEW l \in Nat, NEW o \in Nat, a \in Int /\ b \in Int /\ a <= b
    PROVE  Page(a, l, o) \in Nat /\ Page(b, l, o) \in Nat /\ Page(a, l, o) <= Page(b, l, o)
  BY PageGrows

LEMMA SearchDrifts ==
    ASSUME NEW got, NEW n \in Nat, NEW m \in Nat, NEW c \in Nat, NEW d \in Nat,
           NEW l \in Nat, NEW o \in Nat,
           SearchNear(got, n, c, l, o), n <= m, m <= n + d
    PROVE  SearchNear(got, m, c + d, l, o)
<1>2. ASSUME NEW k \in Nat, NEW x, x \in Page(k - c, l, o)..Page(k + c, l, o)
      PROVE  x \in Page(k - (c + d), l, o)..Page(k + (c + d), l, o)
  <2>1. /\ Page(k - c, l, o) \in Nat /\ Page(k - (c + d), l, o) \in Nat
        /\ Page(k - (c + d), l, o) <= Page(k - c, l, o)
    <3>1. (k - (c + d)) \in Int /\ (k - c) \in Int /\ (k - (c + d)) <= (k - c)
      OBVIOUS
    <3> QED
      BY ONLY <3>1, PageBetween, l \in Nat, o \in Nat
  <2>2. /\ Page(k + c, l, o) \in Nat /\ Page(k + (c + d), l, o) \in Nat
        /\ Page(k + c, l, o) <= Page(k + (c + d), l, o)
    <3>1. (k + c) \in Int /\ (k + (c + d)) \in Int /\ (k + c) <= (k + (c + d))
      OBVIOUS
    <3> QED
      BY ONLY <3>1, PageBetween, l \in Nat, o \in Nat
  <2> QED
    BY <1>2, <2>1, <2>2
<1>1. "data" \in DOMAIN got => Len(got["data"]) \in Page(m - (c + d), l, o)..Page(m, l, o)
  <2> SUFFICES ASSUME "data" \in DOMAIN got
               PROVE  Len(got["data"]) \in Page(m - (c + d), l, o)..Page(m, l, o)
    OBVIOUS
  <2>1. Len(got["data"]) \in Page(n - c, l, o)..Page(n, l, o)
    BY DEF SearchNear
  <2>2. /\ Page(n - c, l, o) \in Nat /\ Page(m - (c + d), l, o) \in Nat
        /\ Page(m - (c + d), l, o) <= Page(n - c, l, o)
    <3>1. (m - (c + d)) \in Int /\ (n - c) \in Int /\ (m - (c + d)) <= (n - c)
      OBVIOUS
    <3> QED
      BY ONLY <3>1, PageBetween, l \in Nat, o \in Nat
  <2>3. Page(n, l, o) \in Nat /\ Page(m, l, o) \in Nat /\ Page(n, l, o) <= Page(m, l, o)
    <3>1. n \in Int /\ m \in Int /\ n <= m
      OBVIOUS
    <3> QED
      BY ONLY <3>1, PageBetween, l \in Nat, o \in Nat
  <2> QED
    BY <2>1, <2>2, <2>3
<1>3. "count" \in DOMAIN got =>
          got["count"] \in Nat /\ got["count"] <= m /\ m <= got["count"] + (c + d)
  BY DEF SearchNear
<1>4. {"count", "data"} \subseteq DOMAIN got =>
          Len(got["data"]) \in Page(got["count"] - (c + d), l, o)..Page(got["count"] + (c + d), l, o)
  BY <1>2 DEF SearchNear
<1> QED
  BY <1>1, <1>3, <1>4 DEF SearchNear

\* What changes of a report when the rows of X enter or leave what it looks at.
LEMMA ChangeIs ==
    ASSUME AnalyticsTypeOK, NEW X, IsFiniteSet(X), ChangedBy(X)
    PROVE  /\ report'.kind = report.kind
           /\ report = NoReport => report' = NoReport /\ report.kind = "none"
           /\ report # NoReport =>
                /\ report'.got = report.got /\ report'.changed = report.changed + Cardinality(X)
                /\ report.changed \in Nat /\ Cardinality(X) \in Nat
                /\ report' \in Summaries({report'.got}) \cup Searches({report'.got})
                /\ DOMAIN report'.got \subseteq Asked'
           /\ report.kind = "summary" => report # NoReport /\ report'.window = report.window
           /\ report.kind = "search" =>
                /\ report # NoReport /\ report'.filter = report.filter
                /\ report'.limit = report.limit /\ report'.offset = report.offset
<1>1. CASE report = NoReport
  BY <1>1, Kinds DEF ChangedBy, NoReport
<1>2. CASE report # NoReport
  <2>1. PICK c : c = report.changed + Cardinality(X)
    OBVIOUS
  <2>2. report' = [report EXCEPT !.changed = c]
    BY <1>2, <2>1 DEF ChangedBy
  <2>3. c \in Nat /\ Cardinality(X) \in Nat /\ report.changed \in Nat
    BY <1>2, <2>1, Kinds, FS_CardinalityType
  <2>4. CASE report \in Summaries({report.got}) /\ report.kind = "summary"
    <3>1. /\ report' \in Summaries({report.got}) /\ report'.got = report.got
          /\ report'.kind = "summary" /\ report'.window = report.window /\ report'.changed = c
      BY <2>2, <2>3, <2>4 DEF Summaries
    <3>2. DOMAIN report'.got \subseteq Asked'
      BY <1>2, <2>4, <3>1, Kinds DEF Asked
    <3> QED
      BY <1>2, <2>1, <2>3, <2>4, <3>1, <3>2
  <2>5. CASE report \in Searches({report.got}) /\ report.kind = "search"
    <3>1. /\ report' \in Searches({report.got}) /\ report'.got = report.got
          /\ report'.kind = "search" /\ report'.changed = c /\ report'.filter = report.filter
          /\ report'.limit = report.limit /\ report'.offset = report.offset
      BY <2>2, <2>3, <2>5 DEF Searches
    <3>2. DOMAIN report'.got \subseteq Asked'
      BY <1>2, <2>5, <3>1, Kinds DEF Asked
    <3> QED
      BY <1>2, <2>1, <2>3, <2>5, <3>1, <3>2
  <2> QED
    BY <1>2, <2>4, <2>5, Kinds
<1> QED
  BY <1>1, <1>2

\* As long as its rows stay, no query of a summary changes.
LEMMA SummaryStays ==
    ASSUME report'.window = report.window,
           RowsInWindow(report.window)' = RowsInWindow(report.window), NEW q
    PROVE  SummaryValue(q, report.window)' = SummaryValue(q, report.window)
  BY DEF SummaryValue, getErrorRate, getCacheHitRatio, getLatencyPercentiles, getActiveUsers

\* A report is off by what entered or left what it looks at, and by no more.
LEMMA ChangeKeeps ==
    ASSUME AnalyticsInv, NEW X, IsFiniteSet(X), ChangedBy(X), IsFiniteSet(rows'),
           report.kind = "summary" /\ X = {} =>
               RowsInWindow(report.window)' = RowsInWindow(report.window),
           report.kind = "summary" =>
               /\ RowCount' <= RowCount + Cardinality(X) /\ RowCount <= RowCount' + Cardinality(X),
           report.kind = "search" =>
               /\ Cardinality(Matching(report.filter)) <= Cardinality(Matching(report.filter))'
               /\ Cardinality(Matching(report.filter))'
                    <= Cardinality(Matching(report.filter)) + Cardinality(X)
    PROVE  /\ CurrentInv' /\ NearInv'
           /\ \/ report' = NoReport
              \/ /\ report' \in Summaries({report'.got}) \cup Searches({report'.got})
                 /\ DOMAIN report'.got \subseteq Asked'
<1>1. AnalyticsTypeOK /\ CurrentInv /\ NearInv
  BY DEF AnalyticsInv
<1>2. /\ report'.kind = report.kind
      /\ report = NoReport => report' = NoReport /\ report.kind = "none"
      /\ report # NoReport =>
           /\ report'.got = report.got /\ report'.changed = report.changed + Cardinality(X)
           /\ report.changed \in Nat /\ Cardinality(X) \in Nat
           /\ report' \in Summaries({report'.got}) \cup Searches({report'.got})
           /\ DOMAIN report'.got \subseteq Asked'
      /\ report.kind = "summary" => report # NoReport /\ report'.window = report.window
      /\ report.kind = "search" =>
           /\ report # NoReport /\ report'.filter = report.filter
           /\ report'.limit = report.limit /\ report'.offset = report.offset
  BY ONLY <1>1, IsFiniteSet(X), ChangedBy(X), ChangeIs
<1>3. CASE report.kind \notin {"summary", "search"}
  BY <1>2, <1>3 DEF CurrentInv, NearInv
<1>4. CASE report.kind = "summary"
  <2>1. RowCount \in Nat /\ RowCount' \in Nat
    <3>1. RowsInWindow(report.window)' \subseteq rows'
      BY DEF RowsInWindow
    <3> QED
      BY <3>1, LookedAt, FS_Subset, FS_CardinalityType DEF RowCount
  <2>2. SummaryNear(report.got, RowCount', report.changed + Cardinality(X))
    <3>1. SummaryNear(report.got, RowCount, report.changed)
      BY <1>1, <1>4 DEF NearInv
    <3> QED
      BY <1>2, <1>4, <2>1, <3>1, SummaryDrifts
  <2>3. NearInv'
    BY <1>2, <1>4, <2>2 DEF NearInv
  <2>4. CurrentInv'
    <3> SUFFICES ASSUME report'.changed = 0, NEW q \in DOMAIN report.got
                 PROVE  report.got[q] = SummaryValue(q, report.window)'
      BY <1>2, <1>4 DEF CurrentInv
    <3>1. report.changed = 0 /\ Cardinality(X) = 0
      BY <1>2, <1>4
    <3>2. X = {}
      BY <3>1, FS_EmptySet
    <3>3. report.got[q] = SummaryValue(q, report.window)
      BY <1>1, <1>4, <3>1 DEF CurrentInv
    <3> QED
      BY <1>2, <1>4, <3>2, <3>3, SummaryStays
  <2> QED
    BY <1>2, <1>4, <2>3, <2>4
<1>5. CASE report.kind = "search"
  <2>1. /\ Cardinality(Matching(report.filter)) \in Nat
        /\ Cardinality(Matching(report.filter))' \in Nat
    <3>1. Matching(report.filter)' \subseteq rows'
      BY DEF Matching, MatchingRows
    <3> QED
      BY <3>1, LookedAt, FS_Subset, FS_CardinalityType
  <2>2. report.limit \in Nat /\ report.offset \in Nat
    BY <1>1, <1>5, Kinds
  <2>3. SearchNear(report.got, Cardinality(Matching(report.filter))',
                   report.changed + Cardinality(X), report.limit, report.offset)
    <3>1. SearchNear(report.got, Cardinality(Matching(report.filter)), report.changed,
                     report.limit, report.offset)
      BY <1>1, <1>5 DEF NearInv
    <3> QED
      BY <1>2, <1>5, <2>1, <2>2, <3>1, SearchDrifts
  <2>4. NearInv'
    BY <1>2, <1>5, <2>3 DEF NearInv
  <2> QED
    BY <1>2, <1>5, <2>4 DEF CurrentInv
<1> QED
  BY <1>3, <1>4, <1>5

\* A set to which another is added.
LEMMA Grown ==
    ASSUME NEW A, NEW X, IsFiniteSet(A), IsFiniteSet(X)
    PROVE  /\ Cardinality(A) <= Cardinality(A \cup X)
           /\ Cardinality(A \cup X) <= Cardinality(A) + Cardinality(X)
<1>1. /\ IsFiniteSet(A \cup X)
      /\ Cardinality(A \cup X) = Cardinality(A) + Cardinality(X) - Cardinality(A \cap X)
  BY FS_Union
<1>2. A \subseteq A \cup X /\ A \cap X \subseteq A
  OBVIOUS
<1>3. /\ Cardinality(A) <= Cardinality(A \cup X) /\ Cardinality(A \cap X) \in Nat
      /\ Cardinality(A) \in Nat /\ Cardinality(X) \in Nat
  BY <1>1, <1>2, FS_Subset, FS_CardinalityType
<1> QED
  BY <1>1, <1>3

LEMMA InsertKeeps ==
    ASSUME AnalyticsInv, NEW s \in Samples, NEW t \in 0..minute, InsertEvent(s, t)
    PROVE  AnalyticsInv'
<1>1. /\ AnalyticsTypeOK /\ IsFiniteSet(rows)
  BY DEF AnalyticsInv
<1> DEFINE row == Row(s, Cardinality(rows) + 1, t)
           X == {r \in {row} : InScope(r)}
<1>2. /\ Cardinality(rows) < MaxRows /\ minute' = minute /\ ChangedBy(X)
      /\ rows' = rows \cup {row}
  BY DEF InsertEvent
<1>3. Cardinality(rows) + 1 \in 1..MaxRows /\ t \in 0..MaxMinute
  BY <1>1, <1>2, FS_CardinalityType, AnalyticsAssumption DEF AnalyticsTypeOK
<1>4. IsFiniteSet(rows') /\ Cardinality(rows') <= MaxRows
  <2>1. Cardinality(rows) \in Nat /\ MaxRows \in Nat
    BY <1>1, FS_CardinalityType, AnalyticsAssumption
  <2>2. PICK r : r = row
    OBVIOUS
  <2>3. /\ IsFiniteSet(rows \cup {r})
        /\ Cardinality(rows \cup {r}) \in {Cardinality(rows), Cardinality(rows) + 1}
    BY <1>1, FS_AddElement
  <2> QED
    BY <1>2, <2>1, <2>2, <2>3
<1>5. rows' \subseteq {Row(u, i, m) : u \in Samples, i \in 1..MaxRows, m \in 0..MaxMinute}
  BY <1>1, <1>2, <1>3 DEF AnalyticsTypeOK
<1> HIDE DEF row
<1>6. IsFiniteSet(X)
  <2>1. IsFiniteSet({row}) /\ X \subseteq {row}
    BY FS_Singleton
  <2> QED
    BY <2>1, FS_Subset
<1>7. report.kind = "summary" => RowsInWindow(report.window)' = RowsInWindow(report.window) \cup X
  <2> SUFFICES ASSUME report.kind = "summary"
               PROVE  RowsInWindow(report.window)' = RowsInWindow(report.window) \cup X
    OBVIOUS
  <2>1. report'.window = report.window
    BY ONLY <1>1, <1>2, <1>6, report.kind = "summary", ChangeIs
  <2>2. \A r : InScope(r) <=> r.time > minute - report.window
    BY DEF InScope
  <2> QED
    BY <1>2, <2>1, <2>2 DEF RowsInWindow
<1>8. report.kind = "search" => Matching(report.filter)' = Matching(report.filter) \cup X
  <2> SUFFICES ASSUME report.kind = "search"
               PROVE  Matching(report.filter)' = Matching(report.filter) \cup X
    OBVIOUS
  <2>1. report'.filter = report.filter
    BY ONLY <1>1, <1>2, <1>6, report.kind = "search", ChangeIs
  <2>2. \A r : InScope(r) <=> r \in MatchingRows({r}, report.filter)
    BY DEF InScope
  <2> QED
    BY <1>2, <2>1, <2>2 DEF Matching, MatchingRows
<1> HIDE DEF X
<1>9. report.kind = "summary" =>
          RowCount' <= RowCount + Cardinality(X) /\ RowCount <= RowCount' + Cardinality(X)
  <2>1. IsFiniteSet(RowsInWindow(report.window)) /\ Cardinality(X) \in Nat /\ RowCount \in Nat
    BY <1>6, LookedAt, FS_CardinalityType
  <2>2. report.kind = "summary" => RowCount <= RowCount' /\ RowCount' <= RowCount + Cardinality(X)
    BY <1>6, <1>7, <2>1, Grown DEF RowCount
  <2>3. report.kind = "summary" => RowCount' \in Nat
    <3>1. RowsInWindow(report.window)' \subseteq rows'
      BY DEF RowsInWindow
    <3> QED
      BY <1>4, <3>1, FS_Subset, FS_CardinalityType DEF RowCount
  <2> QED
    BY <2>1, <2>2, <2>3
<1>10. report.kind = "search" =>
          /\ Cardinality(Matching(report.filter)) <= Cardinality(Matching(report.filter))'
          /\ Cardinality(Matching(report.filter))'
               <= Cardinality(Matching(report.filter)) + Cardinality(X)
  <2>1. IsFiniteSet(Matching(report.filter))
    BY LookedAt
  <2> QED
    BY <1>6, <1>8, <2>1, Grown
<1>11. /\ CurrentInv' /\ NearInv'
       /\ \/ report' = NoReport
          \/ /\ report' \in Summaries({report'.got}) \cup Searches({report'.got})
             /\ DOMAIN report'.got \subseteq Asked'
  BY <1>2, <1>4, <1>6, <1>7, <1>9, <1>10, ChangeKeeps
<1> QED
  BY <1>1, <1>2, <1>4, <1>5, <1>11 DEF AnalyticsInv, AnalyticsTypeOK

LEMMA MinuteKeeps == ASSUME AnalyticsInv, Minute PROVE AnalyticsInv'
<1>1. AnalyticsTypeOK /\ IsFiniteSet(rows) /\ Cardinality(rows) <= MaxRows
  BY DEF AnalyticsInv
<1>2. minute' \in 0..MaxMinute /\ minute' = minute + 1 /\ rows' = rows /\ minute \in Nat
  BY <1>1, AnalyticsAssumption DEF Minute, AnalyticsTypeOK
<1> DEFINE X == {r \in rows : report.kind = "summary" /\ r.time = minute' - report.window}
<1>3. ChangedBy(X) /\ IsFiniteSet(X)
  BY <1>1, FS_Subset DEF Minute
<1>4. report.kind = "summary" =>
          /\ RowsInWindow(report.window) = RowsInWindow(report.window)' \cup X
          /\ RowsInWindow(report.window)' \subseteq rows
  <2> SUFFICES ASSUME report.kind = "summary"
               PROVE  /\ RowsInWindow(report.window) = RowsInWindow(report.window)' \cup X
                      /\ RowsInWindow(report.window)' \subseteq rows
    OBVIOUS
  <2>1. report'.window = report.window
    BY ONLY <1>1, <1>3, report.kind = "summary", ChangeIs
  <2>2. report.window \in Nat
    BY <1>1, Kinds, AnalyticsAssumption
  <2>3. \A r \in rows : r.time \in Int
    BY <1>1, RowTypes
  <2>4. RowsInWindow(report.window)' = {r \in rows : r.time > minute' - report.window}
    BY <1>2, <2>1 DEF RowsInWindow
  <2> QED
    BY <1>2, <2>2, <2>3, <2>4 DEF RowsInWindow
<1>5. report.kind = "search" => X = {} /\ Matching(report.filter)' = Matching(report.filter)
  <2>1. report.kind = "search" => report'.filter = report.filter
    BY ONLY <1>1, <1>3, ChangeIs
  <2> QED
    BY <1>2, <2>1 DEF Matching
<1> HIDE DEF X
<1>6. report.kind = "summary" =>
          RowCount' <= RowCount + Cardinality(X) /\ RowCount <= RowCount' + Cardinality(X)
  <2> SUFFICES ASSUME report.kind = "summary"
               PROVE  RowCount' <= RowCount + Cardinality(X) /\ RowCount <= RowCount' + Cardinality(X)
    OBVIOUS
  <2>1. IsFiniteSet(RowsInWindow(report.window)') /\ RowCount' \in Nat
    BY <1>1, <1>4, FS_Subset, FS_CardinalityType DEF RowCount
  <2>2. RowCount' <= RowCount /\ RowCount <= RowCount' + Cardinality(X)
    BY <1>3, <1>4, <2>1, Grown DEF RowCount
  <2>3. RowCount \in Nat /\ Cardinality(X) \in Nat
    BY <1>3, LookedAt, FS_CardinalityType
  <2> QED
    BY <2>1, <2>2, <2>3
<1>7. report.kind = "search" =>
          /\ Cardinality(Matching(report.filter)) <= Cardinality(Matching(report.filter))'
          /\ Cardinality(Matching(report.filter))'
               <= Cardinality(Matching(report.filter)) + Cardinality(X)
  <2>1. Cardinality({}) = 0 /\ Cardinality(Matching(report.filter)) \in Nat
    BY LookedAt, FS_EmptySet
  <2> QED
    BY <1>5, <2>1
<1>8. /\ CurrentInv' /\ NearInv'
      /\ \/ report' = NoReport
         \/ /\ report' \in Summaries({report'.got}) \cup Searches({report'.got})
            /\ DOMAIN report'.got \subseteq Asked'
  <2>1. report.kind = "summary" /\ X = {} =>
            RowsInWindow(report.window)' = RowsInWindow(report.window)
    BY <1>4
  <2>2. IsFiniteSet(rows')
    BY <1>1, <1>2
  <2> QED
    BY <1>3, <1>6, <1>7, <2>1, <2>2, ChangeKeeps
<1> QED
  BY <1>1, <1>2, <1>8 DEF AnalyticsInv, AnalyticsTypeOK

\* A report that has just been asked for.
LEMMA AskKeeps ==
    ASSUME AnalyticsInv,
           \/ \E w \in Windows : AskSummary(w)
           \/ \E f \in Filters, n \in Limits, o \in Limits \cup {0} : AskSearch(f, n, o)
    PROVE  AnalyticsInv'
<1>1. /\ AnalyticsTypeOK /\ IsFiniteSet(rows) /\ Cardinality(rows) <= MaxRows
      /\ rows' = rows /\ minute' = minute
  BY DEF AnalyticsInv, AskSummary, AskSearch
<1>2. DOMAIN <<>> = {}
  OBVIOUS
<1>3. CASE \E w \in Windows : AskSummary(w)
  <2>1. PICK w \in Windows : AskSummary(w)
    BY <1>3
  <2>2. report' = [kind |-> "summary", window |-> w, got |-> <<>>, changed |-> 0]
    BY <2>1 DEF AskSummary
  <2>3. /\ report'.got = <<>> /\ report'.window = w /\ report'.changed = 0
        /\ report'.kind = "summary"
    BY <2>2
  <2>4. report' \in Summaries({report'.got})
    BY <2>2, <2>3 DEF Summaries
  <2>5. CurrentInv' /\ NearInv' /\ DOMAIN report'.got \subseteq Asked'
    BY <1>2, <2>3 DEF CurrentInv, NearInv, SummaryNear
  <2> QED
    BY <1>1, <2>4, <2>5 DEF AnalyticsInv, AnalyticsTypeOK
<1>4. CASE \E f \in Filters, n \in Limits, o \in Limits \cup {0} : AskSearch(f, n, o)
  <2>1. PICK f \in Filters, n \in Limits, o \in Limits \cup {0} : AskSearch(f, n, o)
    BY <1>4
  <2>2. report' = [kind |-> "search", filter |-> f, limit |-> n, offset |-> o,
                   got |-> <<>>, changed |-> 0]
    BY <2>1 DEF AskSearch
  <2>3. /\ report'.got = <<>> /\ report'.filter = f /\ report'.limit = n /\ report'.offset = o
        /\ report'.changed = 0 /\ report'.kind = "search"
    BY <2>2
  <2>4. report' \in Searches({report'.got})
    BY <2>2, <2>3 DEF Searches
  <2>5. CurrentInv' /\ NearInv' /\ DOMAIN report'.got \subseteq Asked'
    BY <1>2, <2>3 DEF CurrentInv, NearInv, SearchNear
  <2> QED
    BY <1>1, <2>4, <2>5 DEF AnalyticsInv, AnalyticsTypeOK
<1> QED
  BY <1>3, <1>4

\* No more different values in a column than rows.
LEMMA ColumnValues ==
    ASSUME NEW S, IsFiniteSet(S), NEW column
    PROVE  /\ IsFiniteSet({r[column] : r \in S})
           /\ Cardinality({r[column] : r \in S}) <= Cardinality(S)
<1> DEFINE T == {r[column] : r \in S}
<1> DEFINE f == [r \in S |-> r[column]]
<1>1. f \in Surjection(S, T)
  BY DEF Surjection
<1> HIDE DEF f, T
<1>2. IsFiniteSet(T) /\ Cardinality(T) <= Cardinality(S)
  BY <1>1, FS_Surjection
<1> QED
  BY <1>2 DEF T

\* A summary's answer to one query, in terms of the rows that are in the window.
LEMMA SummaryAnswers ==
    ASSUME AnalyticsInv, report.kind = "summary"
    PROVE  /\ SummaryValue("total", report.window) = RowCount
           /\ SummaryValue("activeUsers", report.window) \in Nat
           /\ SummaryValue("activeUsers", report.window) <= RowCount
<1> DEFINE S == RowsInWindow(report.window)
           U == NotNull(S, "userId")
<1>1. IsFiniteSet(S) /\ Cardinality(S) \in Nat
  BY LookedAt DEF RowCount
<1>2. U \subseteq S
  BY DEF NotNull
<1>3. IsFiniteSet(U) /\ Cardinality(U) <= Cardinality(S) /\ Cardinality(U) \in Nat
  BY <1>1, <1>2, FS_Subset, FS_CardinalityType
<1>4. SummaryValue("activeUsers", report.window) = Cardinality({r.userId : r \in U})
  BY DEF SummaryValue, getActiveUsers
<1>5. SummaryValue("total", report.window) = Cardinality(S)
  BY DEF SummaryValue, getErrorRate
<1>6. /\ IsFiniteSet({r["userId"] : r \in U})
      /\ Cardinality({r["userId"] : r \in U}) <= Cardinality(U)
  BY <1>3, ColumnValues
<1>7. Cardinality({r["userId"] : r \in U}) \in Nat
  BY <1>6, FS_CardinalityType
<1>8. RowCount = Cardinality(S)
  BY DEF RowCount
<1> HIDE DEF U, S
<1> QED
  BY <1>1, <1>3, <1>4, <1>5, <1>6, <1>7, <1>8

\* A page has what the total leaves after its offset, up to its limit.
LEMMA PageLength ==
    ASSUME NEW S, IsFiniteSet(S), NEW n \in Nat, NEW o \in Nat, NEW page \in Pages(S, n, o)
    PROVE  Len(page) = IF Cardinality(S) <= o THEN 0
                       ELSE IF o + n <= Cardinality(S) THEN n ELSE Cardinality(S) - o
<1>1. PICK s \in SetToSeqs(S) : page = SubSeq(s, o + 1, Min({o + n, Len(s)}))
  BY DEF Pages
<1>2. Cardinality(S) \in Nat
  BY FS_CardinalityType
<1>3. s \in [1..Cardinality(S) -> S]
  BY <1>1 DEF SetToSeqs
<1>4. s \in Seq(S) /\ Len(s) = Cardinality(S)
  BY <1>2, <1>3
<1> DEFINE m == Min({o + n, Len(s)})
<1>5. m = IF o + n <= Cardinality(S) THEN o + n ELSE Cardinality(S)
  BY <1>2, <1>4, Smallest
<1>6. m \in Nat /\ m <= Len(s) /\ o + 1 \in Nat /\ 1 <= o + 1
  BY <1>2, <1>4, <1>5
<1> HIDE DEF m
<1>7. Len(SubSeq(s, o + 1, m)) = IF o + 1 <= m THEN m - (o + 1) + 1 ELSE 0
  BY <1>4, <1>6
<1> QED
  BY <1>1, <1>2, <1>5, <1>7 DEF m

LEMMA SearchAnswers ==
    ASSUME AnalyticsInv, report.kind = "search",
           NEW page \in SearchValues("data", report.filter, report.limit, report.offset)
    PROVE  Len(page) = Page(Cardinality(Matching(report.filter)), report.limit, report.offset)
<1>1. report.limit \in Nat /\ report.offset \in Nat /\ MaxLimit \in Nat
  BY Kinds, AnalyticsAssumption DEF AnalyticsInv
<1> DEFINE n == Min({report.limit, MaxLimit})
           S == Matching(report.filter)
<1>2. n = IF report.limit <= MaxLimit THEN report.limit ELSE MaxLimit
  BY <1>1, Smallest
<1>3. n \in Nat
  BY <1>1, <1>2
<1>4. page \in Pages(S, n, report.offset)
  BY DEF SearchValues
<1>5. IsFiniteSet(S) /\ Cardinality(S) \in Nat
  BY LookedAt
<1> HIDE DEF n, S
<1>6. Len(page) = IF Cardinality(S) <= report.offset THEN 0
            ELSE IF report.offset + n <= Cardinality(S) THEN n ELSE Cardinality(S) - report.offset
  BY <1>1, <1>3, <1>4, <1>5, PageLength
<1>7. Len(page) = Page(Cardinality(S), report.limit, report.offset)
  BY <1>1, <1>2, <1>5, <1>6, PageIs
<1> QED
  BY <1>7 DEF S

LEMMA AnswerKeeps ==
    ASSUME AnalyticsInv, NEW q \in Asked, Answer(q)
    PROVE  AnalyticsInv'
<1>1. AnalyticsTypeOK /\ IsFiniteSet(rows) /\ Cardinality(rows) <= MaxRows /\ CurrentInv /\ NearInv
  BY DEF AnalyticsInv
<1>2. q \notin DOMAIN report.got /\ rows' = rows /\ minute' = minute
  BY DEF Answer
<1>3. report # NoReport /\ DOMAIN report.got \subseteq Asked
  BY <1>1, Kinds
<1>4. CASE report.kind = "summary"
  <2> DEFINE v == SummaryValue(q, report.window)
  <2> DEFINE longer == With(report.got, q, v)
  <2>1. report \in Summaries({report.got}) /\ report' = [report EXCEPT !.got = longer]
    BY <1>1, <1>4, Kinds DEF Answer
  <2>2. /\ DOMAIN longer = DOMAIN report.got \cup {q} /\ longer[q] = v
        /\ \A x \in DOMAIN report.got : longer[x] = report.got[x]
    BY <1>2 DEF With
  <2> HIDE DEF longer
  <2>3. /\ report' \in Summaries({longer}) /\ report'.kind = "summary" /\ report'.got = longer
        /\ report'.window = report.window /\ report'.changed = report.changed
    BY <1>4, <2>1 DEF Summaries
  <2>4. RowsInWindow(report.window)' = RowsInWindow(report.window) /\ RowCount' = RowCount
    BY <1>2, <2>3 DEF RowsInWindow, RowCount
  <2>5. CurrentInv'
    <3> SUFFICES ASSUME report.changed = 0, NEW x \in DOMAIN report'.got
                 PROVE  report'.got[x] = SummaryValue(x, report.window)'
      BY <2>3 DEF CurrentInv
    <3>1. report'.got[x] = SummaryValue(x, report.window)
      BY <1>1, <1>3, <1>4, <2>2, <2>3 DEF CurrentInv
    <3> QED
      BY <2>3, <2>4, <3>1, SummaryStays
  <2>6. SummaryNear(longer, RowCount, report.changed)
    <3>1. SummaryNear(report.got, RowCount, report.changed)
      BY <1>1, <1>4 DEF NearInv
    <3>2. RowCount \in Nat /\ report.changed \in Nat
      BY <1>1, <1>4, Kinds, LookedAt
    <3>3. /\ q = "total" => v = RowCount
          /\ q = "activeUsers" => v \in Nat /\ v <= RowCount
      BY <1>4, SummaryAnswers
    <3> HIDE DEF v
    <3>4. CASE q = "total"
      BY <2>2, <3>1, <3>2, <3>3, <3>4 DEF SummaryNear
    <3>5. CASE q = "activeUsers"
      BY <2>2, <3>1, <3>2, <3>3, <3>5 DEF SummaryNear
    <3>6. CASE q \notin {"total", "activeUsers"}
      BY <2>2, <3>1, <3>6 DEF SummaryNear
    <3> QED
      BY <3>4, <3>5, <3>6
  <2>7. NearInv'
    BY <2>3, <2>4, <2>6 DEF NearInv
  <2>8. DOMAIN report'.got \subseteq Asked'
    BY <1>3, <1>4, <2>2, <2>3 DEF Asked
  <2> QED
    BY <1>1, <1>2, <2>3, <2>5, <2>7, <2>8 DEF AnalyticsInv, AnalyticsTypeOK
<1>5. CASE report.kind = "search"
  <2>1. PICK v \in SearchValues(q, report.filter, report.limit, report.offset) :
            report' = [report EXCEPT !.got = With(report.got, q, v)]
    BY <1>5 DEF Answer
  <2> DEFINE longer == With(report.got, q, v)
  <2>2. /\ DOMAIN longer = DOMAIN report.got \cup {q} /\ longer[q] = v
        /\ \A x \in DOMAIN report.got : longer[x] = report.got[x]
    BY <1>2 DEF With
  <2>3. report \in Searches({report.got}) /\ report' = [report EXCEPT !.got = longer]
    BY <1>1, <1>5, <2>1, Kinds
  <2> HIDE DEF longer
  <2>4. /\ report' \in Searches({longer}) /\ report'.kind = "search" /\ report'.got = longer
        /\ report'.filter = report.filter /\ report'.limit = report.limit
        /\ report'.offset = report.offset /\ report'.changed = report.changed
    BY <1>5, <2>3 DEF Searches
  <2>5. Matching(report.filter)' = Matching(report.filter)
    BY <1>2, <2>4 DEF Matching
  <2>6. SearchNear(longer, Cardinality(Matching(report.filter)), report.changed,
                   report.limit, report.offset)
    <3>1. PICK n, c, l, o : /\ n = Cardinality(Matching(report.filter)) /\ c = report.changed
                            /\ l = report.limit /\ o = report.offset
      OBVIOUS
    <3>2. SearchNear(report.got, n, c, l, o)
      BY <1>1, <1>5, <3>1 DEF NearInv
    <3>3. n \in Nat /\ c \in Nat /\ l \in Nat /\ o \in Nat
      BY <1>1, <1>5, <3>1, Kinds, LookedAt
    <3>4. CASE q = "count"
      <4>1. v = n
        BY <2>1, <3>1, <3>4 DEF SearchValues
      <4>2. n <= n + c /\ n - c \in Int /\ n + c \in Int
        BY <3>3
      <4>3. /\ Page(n - c, l, o) \in Nat /\ Page(n, l, o) \in Nat /\ Page(n + c, l, o) \in Nat
            /\ Page(n, l, o) <= Page(n + c, l, o)
        <5>1. (n - c) <= n /\ n <= (n + c) /\ n \in Int
          BY <3>3
        <5>2. Page(n - c, l, o) \in Nat /\ Page(n, l, o) \in Nat
          BY ONLY <3>3, <4>2, <5>1, PageBetween
        <5>3. Page(n + c, l, o) \in Nat /\ Page(n, l, o) <= Page(n + c, l, o)
          BY ONLY <3>3, <4>2, <5>1, PageBetween
        <5>4. Page(n - c, l, o) <= Page(n, l, o)
          BY ONLY <3>3, <4>2, <5>1, PageBetween
        <5> QED
          BY ONLY <5>2, <5>3, <5>4
      <4> QED
        <5>1. PICK lo, mid, hi : /\ lo = Page(n - c, l, o) /\ mid = Page(n, l, o)
                                 /\ hi = Page(n + c, l, o)
          BY Zenon
        <5>2. "data" \in DOMAIN longer => Len(longer["data"]) \in lo..mid
          BY <2>2, <3>2, <3>4, <5>1 DEF SearchNear
        <5>3. lo \in Nat /\ mid \in Nat /\ hi \in Nat /\ mid <= hi
          BY ONLY <4>3, <5>1
        <5>4. "data" \in DOMAIN longer => Len(longer["data"]) \in lo..hi
          BY ONLY <5>2, <5>3
        <5>5. longer["count"] = n
          BY <2>2, <3>4, <4>1
        <5>6. SearchNear(longer, n, c, l, o)
          BY ONLY <3>3, <5>1, <5>2, <5>4, <5>5 DEF SearchNear
        <5> QED
          BY ONLY <3>1, <5>6
    <3>5. CASE q = "data"
      <4>1. Len(v) = Page(n, l, o)
        BY <1>5, <2>1, <3>1, <3>5, SearchAnswers
      <4>2. Page(n - c, l, o) \in Nat /\ Page(n, l, o) \in Nat /\ Page(n - c, l, o) <= Page(n, l, o)
        <5>1. (n - c) \in Int /\ n \in Int /\ (n - c) <= n
          BY <3>3
        <5> QED
          BY ONLY <3>3, <5>1, PageBetween
      <4>3. ASSUME NEW k \in Nat, k <= n, n <= k + c
            PROVE  Page(n, l, o) \in Page(k - c, l, o)..Page(k + c, l, o)
        <5>1. /\ Page(k - c, l, o) \in Nat /\ Page(n, l, o) \in Nat
              /\ Page(k - c, l, o) <= Page(n, l, o)
          <6>1. (k - c) \in Int /\ n \in Int /\ (k - c) <= n
            BY <3>3, <4>3
          <6> QED
            BY ONLY <3>3, <6>1, PageBetween
        <5>2. Page(k + c, l, o) \in Nat /\ Page(n, l, o) <= Page(k + c, l, o)
          <6>1. (k + c) \in Int /\ n \in Int /\ n <= (k + c)
            BY <3>3, <4>3
          <6> QED
            BY ONLY <3>3, <6>1, PageBetween
        <5> QED
          BY <5>1, <5>2
      <4> QED
        <5>1. "count" \in DOMAIN longer =>
                /\ longer["count"] \in Nat /\ longer["count"] <= n /\ n <= longer["count"] + c
          BY <2>2, <3>2, <3>5 DEF SearchNear
        <5>2. PICK k, size : k = longer["count"] /\ size = Len(longer["data"])
          BY Zenon
        <5>3. size = Page(n, l, o)
          BY <2>2, <3>5, <4>1, <5>2
        <5>4. "count" \in DOMAIN longer => size \in Page(k - c, l, o)..Page(k + c, l, o)
          BY ONLY <4>3, <5>1, <5>2, <5>3
        <5>5. size \in Page(n - c, l, o)..Page(n, l, o)
          BY ONLY <4>2, <5>3
        <5>6. SearchNear(longer, n, c, l, o)
          BY ONLY <3>3, <5>1, <5>2, <5>4, <5>5 DEF SearchNear
        <5> QED
          BY ONLY <3>1, <5>6
    <3> QED
      BY <1>5, <3>1, <3>4, <3>5 DEF Asked, SearchQueries
  <2>7. CurrentInv' /\ NearInv'
    BY <2>4, <2>5, <2>6 DEF CurrentInv, NearInv
  <2>8. DOMAIN report'.got \subseteq Asked'
    BY <1>3, <1>5, <2>2, <2>4 DEF Asked
  <2> QED
    BY <1>1, <1>2, <2>4, <2>7, <2>8 DEF AnalyticsInv, AnalyticsTypeOK
<1> QED
  BY <1>1, <1>4, <1>5, Kinds

LEMMA AnalyticsSteps == ASSUME AnalyticsInv, [AnalyticsNext]_analyticsVars PROVE AnalyticsInv'
<1>1. CASE UNCHANGED analyticsVars
  <2>1. rows' = rows /\ minute' = minute /\ report' = report
    BY <1>1 DEF analyticsVars
  <2>2. /\ RowsInWindow(report.window)' = RowsInWindow(report.window) /\ RowCount' = RowCount
        /\ Matching(report.filter)' = Matching(report.filter)
    BY <2>1 DEF RowsInWindow, RowCount, Matching
  <2>3. CurrentInv' /\ NearInv'
    BY <2>1, <2>2, SummaryStays DEF AnalyticsInv, CurrentInv, NearInv
  <2> QED
    BY <2>1, <2>3 DEF AnalyticsInv, AnalyticsTypeOK, Asked
<1>2. CASE Respond
  <2>1. NoReport.kind = "none"
    BY DEF NoReport
  <2> QED
    BY <1>2, <2>1 DEF Respond, AnalyticsInv, AnalyticsTypeOK, CurrentInv, NearInv
<1>3. CASE AnalyticsNext
  BY <1>2, <1>3, InsertKeeps, MinuteKeeps, AskKeeps, AnswerKeeps DEF AnalyticsNext
<1> QED
  BY <1>1, <1>3

\* The sum over no rows.
LEMMA NoSum == ASSUME NEW column PROVE SumOver({}, column) = 0
<1>1. PICK f : f = [r \in {} |-> r[column]]
  OBVIOUS
<1>2. DOMAIN f = {} /\ IsFiniteSet({})
  BY <1>1, FS_EmptySet
<1>3. SumOver({}, column) = SumOf(f, {})
  BY <1>1, <1>2, Folded DEF SumOver
<1> QED
  BY <1>2, <1>3, SumAt

\* Without requests every number of the summary is zero.
LEMMA EmptySummary ==
    ASSUME NEW w, RowsInWindow(w) = {}, NEW q \in SummaryQueries
    PROVE  SummaryValue(q, w) = 0
<1>1. Cardinality({}) = 0
  BY FS_EmptySet
<1>2. Failed({}) = {} /\ Hits({}) = {} /\ \A column : NotNull({}, column) = {}
  BY DEF Failed, Hits, NotNull
<1>3. Ratio(0, 0) = 0 /\ Average({}, "latencyMs") = 0 /\ SumOver({}, "bytes") = 0
  BY NoSum DEF Ratio, Average
<1>4. CASE q = "total"
  BY <1>1, <1>4 DEF SummaryValue, getErrorRate
<1>5. CASE q = "hitRatio"
  BY <1>1, <1>2, <1>3, <1>5 DEF SummaryValue, getCacheHitRatio
<1>6. CASE q = "p95"
  <2>1. percentile_cont(95, {}) = 0
    BY <1>1 DEF percentile_cont
  <2> QED
    BY <1>6, <2>1 DEF SummaryValue, getLatencyPercentiles
<1>7. CASE q = "errorRate"
  BY <1>1, <1>2, <1>3, <1>7 DEF SummaryValue, getErrorRate
<1>8. CASE q = "activeUsers"
  <2>1. {r.userId : r \in {}} = {}
    OBVIOUS
  <2>2. getActiveUsers(w) = Cardinality({r.userId : r \in {}})
    BY <1>2 DEF getActiveUsers
  <2> QED
    BY <1>1, <1>8, <2>1, <2>2 DEF SummaryValue
<1>9. CASE q = "bytes"
  BY <1>3, <1>9 DEF SummaryValue
<1>10. CASE q = "avg"
  BY <1>3, <1>10 DEF SummaryValue
<1> QED
  BY <1>4, <1>5, <1>6, <1>7, <1>8, <1>9, <1>10 DEF SummaryQueries

LEMMA CoherentAnswers == ASSUME AnalyticsInv PROVE AnswersCoherent
<1>1. AnalyticsTypeOK /\ IsFiniteSet(rows) /\ CurrentInv /\ NearInv
  BY DEF AnalyticsInv
<1> SUFFICES ASSUME report # NoReport, DOMAIN report.got = Asked
             PROVE  IF report.kind = "summary"
                    THEN /\ report.got["activeUsers"] <= report.got["total"] + report.changed
                         /\ report.got["total"] = 0 /\ report.changed = 0 =>
                                \A q \in SummaryQueries : report.got[q] = 0
                    ELSE Len(report.got["data"]) \in
                            Page(report.got["count"] - report.changed, report.limit, report.offset)
                            ..Page(report.got["count"] + report.changed, report.limit, report.offset)
  BY DEF AnswersCoherent, AllAnswered
<1>2. CASE report.kind = "summary"
  <2>1. DOMAIN report.got = SummaryQueries
    BY <1>1, <1>2, Kinds
  <2>2. report.got["activeUsers"] <= report.got["total"] + report.changed
    BY <1>1, <1>2, <2>1 DEF NearInv, SummaryNear, SummaryQueries
  <2>3. ASSUME report.got["total"] = 0, report.changed = 0, NEW q \in SummaryQueries
        PROVE  report.got[q] = 0
    <3>1. \A x \in SummaryQueries : report.got[x] = SummaryValue(x, report.window)
      BY <1>1, <1>2, <2>1, <2>3 DEF CurrentInv
    <3>2. RowCount = 0
      BY <1>2, <2>3, <3>1, SummaryAnswers DEF SummaryQueries
    <3>3. RowsInWindow(report.window) = {}
      BY <3>2, LookedAt
    <3> QED
      BY <3>1, <3>3, EmptySummary
  <2> QED
    BY <1>2, <2>2, <2>3
<1>3. CASE report.kind # "summary"
  <2>1. report.kind = "search" /\ Asked = SearchQueries
    BY <1>1, <1>3, Kinds
  <2> QED
    BY <1>1, <1>3, <2>1 DEF NearInv, SearchNear, SearchQueries
<1> QED
  BY <1>2, <1>3

-----------------------------------------------------------------------------
(* Analytics: what the reports have in common.                              *)

\* What the queries find: finitely many rows, and groups of them none of which is
\* empty.
LEMMA WindowIs ==
    ASSUME AnalyticsInv, NEW w \in Windows
    PROVE  /\ IsFiniteSet(RowsInWindow(w)) /\ RowsInWindow(w) \in SUBSET rows
           /\ Cardinality(RowsInWindow(w)) \in Nat /\ Cardinality(RowsInWindow(w)) <= MaxRows
           /\ \A r \in RowsInWindow(w) :
                /\ r["time"] \in Nat /\ r["latencyMs"] \in Int /\ r["bytes"] \in Nat
                /\ minute - w < r["time"] /\ minute - w \in Int
<1>1. RowsInWindow(w) \in SUBSET rows
  BY DEF RowsInWindow
<1>2. /\ IsFiniteSet(RowsInWindow(w)) /\ Cardinality(RowsInWindow(w)) \in Nat
      /\ Cardinality(RowsInWindow(w)) <= Cardinality(rows) /\ Cardinality(rows) \in Nat
  BY <1>1, FS_Subset, FS_CardinalityType DEF AnalyticsInv
<1>3. MaxRows \in Nat /\ MaxMinute \in Nat /\ minute \in 0..MaxMinute /\ w \in Nat
  BY AnalyticsAssumption DEF AnalyticsInv, AnalyticsTypeOK
<1>4. ASSUME NEW r \in RowsInWindow(w)
      PROVE  /\ r["time"] \in Nat /\ r["latencyMs"] \in Int /\ r["bytes"] \in Nat
             /\ minute - w < r["time"] /\ minute - w \in Int
  <2>1. r["time"] \in 0..MaxMinute /\ r["latencyMs"] \in Int /\ r["bytes"] \in Nat
    BY <1>1, RowTypes DEF AnalyticsInv
  <2>2. r.time > minute - w
    BY DEF RowsInWindow
  <2> QED
    BY <1>3, <2>1, <2>2
<1> QED
  BY <1>1, <1>2, <1>3, <1>4 DEF AnalyticsInv

LEMMA GroupsAre ==
    ASSUME NEW S, IsFiniteSet(S), NEW column
    PROVE  /\ DOMAIN GroupsOf(S, column) = {r[column] : r \in S}
           /\ IsFiniteSet(DOMAIN GroupsOf(S, column))
           /\ Cardinality(DOMAIN GroupsOf(S, column)) \in Nat
           /\ Cardinality(DOMAIN GroupsOf(S, column)) <= Cardinality(S)
           /\ \A r \in S : r[column] \in DOMAIN GroupsOf(S, column)
           /\ \A v \in DOMAIN GroupsOf(S, column) :
                /\ GroupsOf(S, column)[v] = RowsWith(S, column, v)
                /\ GroupsOf(S, column)[v] \in SUBSET S /\ \E r \in S : r \in GroupsOf(S, column)[v]
                /\ IsFiniteSet(GroupsOf(S, column)[v])
                /\ Cardinality(GroupsOf(S, column)[v]) \in Nat
<1> DEFINE V == {r[column] : r \in S}
<1>1. IsFiniteSet(V) /\ Cardinality(V) <= Cardinality(S)
  BY ColumnValues
<1>2. Cardinality(V) \in Nat
  BY <1>1, FS_CardinalityType
<1>3. DOMAIN GroupsOf(S, column) = V /\ \A r \in S : r[column] \in V
  BY DEF GroupsOf
<1>4. ASSUME NEW v \in V
      PROVE  /\ GroupsOf(S, column)[v] = RowsWith(S, column, v)
             /\ GroupsOf(S, column)[v] \in SUBSET S /\ \E r \in S : r \in GroupsOf(S, column)[v]
  BY DEF GroupsOf, RowsWith
<1>5. ASSUME NEW v \in V
      PROVE  /\ IsFiniteSet(GroupsOf(S, column)[v])
             /\ Cardinality(GroupsOf(S, column)[v]) \in Nat
  BY <1>4, FS_Subset, FS_CardinalityType
<1> HIDE DEF V
<1> QED
  BY <1>1, <1>2, <1>3, <1>4, <1>5 DEF V

\* The numbers of rows of each value, of all rows or of those of a kind, add up.
LEMMA GroupsAddUp ==
    ASSUME NEW S, IsFiniteSet(S), NEW column, NEW R \in SUBSET S, NEW f,
           DOMAIN f = DOMAIN GroupsOf(S, column),
           \A v \in DOMAIN f : f[v] = Cardinality(RowsWith(R, column, v))
    PROVE  SumOfSeries(f) = Cardinality(R)
<1>1. /\ IsFiniteSet(R) /\ IsFiniteSet(DOMAIN f) /\ \A r \in R : r[column] \in DOMAIN f
  BY GroupsAre, FS_Subset
<1>2. SumOf(f, DOMAIN f) = Cardinality(R)
  BY <1>1, CountOfGroups
<1> QED
  BY <1>2, Folded

\* The reports, one after the other.
LEMMA RateAddsUp ==
    ASSUME AnalyticsInv, NEW w \in Windows
    PROVE  SumOfSeries(getRequestRate(w)) = getErrorRate(w).total
<1> DEFINE S == RowsInWindow(w)
           g == GroupsOf(S, "time")
<1>1. IsFiniteSet(S) /\ S \in SUBSET S
  BY WindowIs
<1>2. getErrorRate(w).total = Cardinality(S)
  BY DEF getErrorRate
<1>3. DOMAIN getRequestRate(w) = DOMAIN g /\ \A t \in DOMAIN g : getRequestRate(w)[t] = Cardinality(g[t])
  BY DEF getRequestRate
<1> HIDE DEF S
<1>4. \A t \in DOMAIN g : getRequestRate(w)[t] = Cardinality(RowsWith(S, "time", t))
  BY <1>1, <1>3, GroupsAre
<1> HIDE DEF g
<1>5. SumOfSeries(getRequestRate(w)) = Cardinality(S)
  BY <1>1, <1>3, <1>4, GroupsAddUp DEF g
<1> QED
  BY <1>2, <1>5

LEMMA SumOverIs ==
    ASSUME NEW S, NEW column, NEW T \in SUBSET S, IsFiniteSet(T)
    PROVE  SumOver(T, column) = SumOf([r \in S |-> r[column]], T)
<1>1. PICK f : f = [r \in T |-> r[column]]
  OBVIOUS
<1>2. PICK h : h = [r \in S |-> r[column]]
  OBVIOUS
<1>3. SumOver(T, column) = SumOf(f, T)
  BY <1>1, Folded DEF SumOver
<1>4. \A r \in T : f[r] = h[r]
  BY <1>1, <1>2
<1> QED
  BY <1>2, <1>3, <1>4, SumSame

LEMMA BandwidthAddsUp ==
    ASSUME AnalyticsInv, NEW w \in Windows
    PROVE  getCacheHitRatio(w).cachedBytes <= SumOfSeries(getBandwidthOverTime(w))
<1> DEFINE S == RowsInWindow(w)
           g == GroupsOf(S, "time")
           b == getBandwidthOverTime(w)
<1>1. IsFiniteSet(S) /\ \A r \in S : r["bytes"] \in Nat
  BY WindowIs
<1>2. Hits(S) \in SUBSET S
  BY DEF Hits
<1>3. getCacheHitRatio(w).cachedBytes = SumOver(Hits(S), "bytes")
  BY DEF getCacheHitRatio
<1>4. DOMAIN b = DOMAIN g /\ \A t \in DOMAIN g : b[t] = SumOver(g[t], "bytes")
  BY DEF getBandwidthOverTime
<1> HIDE DEF S, b
<1>5. PICK f : f = [r \in S |-> r["bytes"]]
  OBVIOUS
<1>6. \A r \in S : f[r] \in Nat /\ f[r] \in Int
  BY <1>1, <1>5
<1>7. SumOver(Hits(S), "bytes") = SumOf(f, Hits(S))
  BY <1>1, <1>2, <1>5, FS_Subset, SumOverIs
<1>8. IsFiniteSet(DOMAIN g) /\ \A r \in S : r["time"] \in DOMAIN g
  BY <1>1, GroupsAre
<1>9. \A t \in DOMAIN g : b[t] = SumOf(f, RowsWith(S, "time", t))
  <2> SUFFICES ASSUME NEW t \in DOMAIN g PROVE b[t] = SumOf(f, RowsWith(S, "time", t))
    OBVIOUS
  <2>1. g[t] = RowsWith(S, "time", t) /\ g[t] \in SUBSET S /\ IsFiniteSet(g[t])
    BY <1>1, GroupsAre
  <2>2. b[t] = SumOver(g[t], "bytes")
    BY <1>4
  <2> HIDE DEF g
  <2> QED
    BY <1>5, <2>1, <2>2, SumOverIs
<1> HIDE DEF g
<1>10. Grouped(f, S, "time", DOMAIN g, b)
  BY <1>1, <1>6, <1>8, <1>9 DEF Grouped
<1>11. SumOf(b, DOMAIN g) = SumOf(f, S)
  BY <1>10, SumOfGroups
<1>12. SumOf(f, Hits(S)) <= SumOf(f, S)
  BY <1>1, <1>2, <1>6, SumOfPart
<1>13. SumOfSeries(b) = SumOf(b, DOMAIN g)
  BY <1>4, Folded
<1> QED
  BY <1>3, <1>7, <1>11, <1>12, <1>13 DEF b, S

LEMMA ErrorsAddUp ==
    ASSUME AnalyticsInv, NEW w \in Windows
    PROVE  /\ \A v \in DOMAIN getRequestsByService(w) :
                getRequestsByService(w)[v].errorCount <= getRequestsByService(w)[v].count
           /\ SumOfSeries([v \in DOMAIN getRequestsByService(w) |-> getRequestsByService(w)[v].errorCount])
                = Cardinality(Failed(NotNull(RowsInWindow(w), "service")))
<1> DEFINE S == NotNull(RowsInWindow(w), "service")
           g == GroupsOf(S, "service")
           answer == getRequestsByService(w)
           R == Failed(S)
<1>1. IsFiniteSet(S)
  BY WindowIs, FS_Subset DEF NotNull
<1>2. R \in SUBSET S
  BY DEF Failed
<1>3. DOMAIN answer = DOMAIN g
      /\ \A v \in DOMAIN g : /\ answer[v].count = Cardinality(g[v])
                             /\ answer[v].errorCount = Cardinality(Failed(g[v]))
  BY DEF getRequestsByService
<1> HIDE DEF S, answer
<1>4. ASSUME NEW v \in DOMAIN g
      PROVE  /\ answer[v].errorCount <= answer[v].count
             /\ answer[v].errorCount = Cardinality(RowsWith(R, "service", v))
  <2>1. g[v] = RowsWith(S, "service", v) /\ IsFiniteSet(g[v])
    BY <1>1, GroupsAre
  <2> HIDE DEF g
  <2>2. Failed(g[v]) = RowsWith(R, "service", v)
    BY <2>1 DEF Failed, RowsWith
  <2>3. Failed(g[v]) \in SUBSET g[v]
    BY DEF Failed
  <2>4. Cardinality(Failed(g[v])) <= Cardinality(g[v])
    BY <2>1, <2>3, FS_Subset
  <2> QED
    BY <1>3, <2>2, <2>4
<1> HIDE DEF g, R
<1>5. PICK f : f = [v \in DOMAIN answer |-> answer[v].errorCount]
  OBVIOUS
<1>6. DOMAIN f = DOMAIN g /\ \A v \in DOMAIN f : f[v] = Cardinality(RowsWith(R, "service", v))
  BY <1>3, <1>4, <1>5
<1>7. SumOfSeries(f) = Cardinality(R)
  BY <1>1, <1>2, <1>6, GroupsAddUp DEF g
<1> QED
  BY <1>3, <1>4, <1>5, <1>7 DEF answer, R, S

\* There is a latency at each position, and the latencies rise with the positions.
LEMMA RankIs ==
    ASSUME NEW S, IsFiniteSet(S), \A r \in S : r.latencyMs \in Int,
           NEW k \in Nat, k < Cardinality(S)
    PROVE  /\ AtRank(S, k) \in Int
           /\ Cardinality({r \in S : r.latencyMs < AtRank(S, k)}) <= k
           /\ Cardinality({r \in S : r.latencyMs <= AtRank(S, k)}) > k
<1> DEFINE L == {r.latencyMs : r \in S}
           Under(x) == {r \in S : r.latencyMs < x}
           UpTo(x) == {r \in S : r.latencyMs <= x}
           C == {x \in L : Cardinality(UpTo(x)) > k}
<1>1. IsFiniteSet(L) /\ L \subseteq Int /\ L # {}
  <2>1. IsFiniteSet({r["latencyMs"] : r \in S})
    BY ColumnValues
  <2>2. S # {}
    BY FS_EmptySet
  <2> QED
    BY <2>1, <2>2
<1>2. \A x : Cardinality(Under(x)) \in Nat /\ Cardinality(UpTo(x)) \in Nat
  <2> SUFFICES ASSUME NEW x PROVE Cardinality(Under(x)) \in Nat /\ Cardinality(UpTo(x)) \in Nat
    OBVIOUS
  <2>1. Under(x) \in SUBSET S /\ UpTo(x) \in SUBSET S
    OBVIOUS
  <2> HIDE DEF Under, UpTo
  <2> QED
    BY <2>1, FS_Subset, FS_CardinalityType
<1>3. C # {}
  <2>1. PICK x \in L : \A y \in L : y <= x
    <3> HIDE DEF L
    <3> QED
      BY <1>1, Highest
  <2>2. UpTo(x) = S
    BY <2>1
  <2> HIDE DEF UpTo
  <2> QED
    BY <2>1, <2>2
<1>4. IsFiniteSet(C) /\ C \subseteq Int
  <2>1. C \in SUBSET L
    OBVIOUS
  <2> HIDE DEF C, L
  <2> QED
    BY <1>1, <2>1, FS_Subset
<1>5. PICK x \in C : \A y \in C : x <= y
  <2> HIDE DEF C
  <2> QED
    BY <1>3, <1>4, Lowest
<1>6. x \in L /\ x \in Int /\ Cardinality(UpTo(x)) > k
  BY <1>4, <1>5
<1>7. Cardinality(Under(x)) <= k
  <2>1. CASE Under(x) = {}
    <3> HIDE DEF Under
    <3> QED
      BY <2>1, FS_EmptySet
  <2>2. CASE Under(x) # {}
    <3> DEFINE M == {y \in L : y < x}
    <3>1. M # {} /\ M \in SUBSET L /\ M \subseteq Int
      BY <1>1, <2>2
    <3>2. IsFiniteSet(M)
      <4> HIDE DEF M, L
      <4> QED
        BY <1>1, <3>1, FS_Subset
    <3>3. PICK y \in M : \A z \in M : z <= y
      <4> HIDE DEF M
      <4> QED
        BY <3>1, <3>2, Highest
    <3>4. y \in L /\ y \in Int /\ y < x
      BY <1>1, <3>3
    <3>5. Under(x) = UpTo(y)
      <4>1. ASSUME NEW r \in S PROVE r.latencyMs < x <=> r.latencyMs <= y
        <5>1. r.latencyMs \in L /\ r.latencyMs \in Int
          OBVIOUS
        <5> QED
          BY <1>6, <3>3, <3>4, <5>1
      <4> QED
        BY <4>1
    <3>6. y \notin C
      BY <1>5, <1>6, <3>4
    <3>7. ~(Cardinality(UpTo(y)) > k)
      BY <3>4, <3>6
    <3> QED
      BY <1>2, <3>5, <3>7
  <2> QED
    BY <2>1, <2>2
<1>8. AtRank(S, k) \in L /\ Cardinality(Under(AtRank(S, k))) <= k /\ Cardinality(UpTo(AtRank(S, k))) > k
  BY <1>6, <1>7 DEF AtRank
<1> QED
  BY <1>1, <1>8

LEMMA RanksRise ==
    ASSUME NEW S, IsFiniteSet(S), \A r \in S : r.latencyMs \in Int,
           NEW j \in Nat, NEW k \in Nat, j <= k, k < Cardinality(S)
    PROVE  AtRank(S, j) <= AtRank(S, k)
<1>1. Cardinality(S) \in Nat
  BY FS_CardinalityType
<1>2. PICK a : a = AtRank(S, j)
  OBVIOUS
<1>3. PICK b : b = AtRank(S, k)
  OBVIOUS
<1>4. /\ a \in Int /\ b \in Int
      /\ Cardinality({r \in S : r.latencyMs < a}) <= j
      /\ Cardinality({r \in S : r.latencyMs <= b}) > k
  <2>1. j < Cardinality(S)
    BY <1>1
  <2>2. /\ AtRank(S, j) \in Int
        /\ Cardinality({r \in S : r.latencyMs < AtRank(S, j)}) <= j
    BY <2>1, RankIs
  <2>3. /\ AtRank(S, k) \in Int
        /\ Cardinality({r \in S : r.latencyMs <= AtRank(S, k)}) > k
    BY RankIs
  <2> QED
    BY <1>2, <1>3, <2>2, <2>3
<1> SUFFICES ASSUME b < a PROVE FALSE
  BY <1>2, <1>3, <1>4
<1>5. PICK A : A = {r \in S : r.latencyMs < a}
  OBVIOUS
<1>6. PICK B : B = {r \in S : r.latencyMs <= b}
  OBVIOUS
<1>7. A \in SUBSET S /\ B \subseteq A
  BY <1>4, <1>5, <1>6
<1>8. IsFiniteSet(A) /\ Cardinality(A) \in Nat /\ Cardinality(B) \in Nat /\ Cardinality(B) <= Cardinality(A)
  BY <1>7, FS_Subset, FS_CardinalityType
<1> QED
  BY <1>4, <1>5, <1>6, <1>8

\* Between two positions, and from one to the next, the interpolation rises.
LEMMA Between ==
    ASSUME NEW low \in Int, NEW high \in Int, low <= high, NEW m \in Nat, m <= 100
    PROVE  /\ 100 * low + m * (high - low) \in Int
           /\ 100 * low <= 100 * low + m * (high - low)
           /\ 100 * low + m * (high - low) <= 100 * high
  OBVIOUS

LEMMA Steeper ==
    ASSUME NEW low \in Int, NEW high \in Int, low <= high, NEW m \in Nat, NEW o \in Nat, m <= o
    PROVE  100 * low + m * (high - low) <= 100 * low + o * (high - low)
  OBVIOUS

\* The latency at a position in hundredths.
AtPlace(S, place) ==
    LET low == AtRank(S, place \div 100)
        high == AtRank(S, IF place % 100 = 0 THEN place \div 100 ELSE place \div 100 + 1)
    IN  100 * low + (place % 100) * (high - low)

LEMMA PlacesRise ==
    ASSUME NEW S, IsFiniteSet(S), \A r \in S : r.latencyMs \in Int,
           NEW i \in Nat, NEW j \in Nat, i <= j, j <= 100 * (Cardinality(S) - 1)
    PROVE  AtPlace(S, i) <= AtPlace(S, j)
<1>1. PICK n : n = Cardinality(S)
  OBVIOUS
<1>2. n \in Nat
  BY <1>1, FS_CardinalityType
<1>3. PICK d : d = i \div 100
  OBVIOUS
<1>4. PICK e : e = j \div 100
  OBVIOUS
<1>5. PICK m : m = i % 100
  OBVIOUS
<1>6. PICK o : o = j % 100
  OBVIOUS
<1>7. /\ d \in Nat /\ e \in Nat /\ m \in 0..99 /\ o \in 0..99
      /\ i = 100 * d + m /\ j = 100 * e + o
  BY <1>3, <1>4, <1>5, <1>6
<1>8. PICK dd : dd = IF m = 0 THEN d ELSE d + 1
  OBVIOUS
<1>9. PICK ee : ee = IF o = 0 THEN e ELSE e + 1
  OBVIOUS
<1>10. /\ dd \in Nat /\ ee \in Nat /\ d <= dd /\ e <= ee /\ dd < n /\ ee < n /\ d < n /\ e < n
       /\ (d = e /\ m <= o) \/ (d < e /\ dd <= e)
  BY <1>1, <1>2, <1>7, <1>8, <1>9
<1>11. /\ AtRank(S, d) \in Int /\ AtRank(S, dd) \in Int /\ AtRank(S, d) <= AtRank(S, dd)
       /\ AtRank(S, e) \in Int /\ AtRank(S, ee) \in Int /\ AtRank(S, e) <= AtRank(S, ee)
       /\ dd <= e => AtRank(S, dd) <= AtRank(S, e)
  <2>1. /\ IsFiniteSet(S) /\ \A r \in S : r.latencyMs \in Int
        /\ d \in Nat /\ dd \in Nat /\ e \in Nat /\ ee \in Nat
        /\ d < Cardinality(S) /\ dd < Cardinality(S) /\ e < Cardinality(S) /\ ee < Cardinality(S)
        /\ d <= dd /\ e <= ee
    BY <1>1, <1>7, <1>10
  <2>2. AtRank(S, d) \in Int /\ AtRank(S, dd) \in Int /\ AtRank(S, e) \in Int /\ AtRank(S, ee) \in Int
    BY ONLY <2>1, RankIs
  <2>3. AtRank(S, d) <= AtRank(S, dd) /\ AtRank(S, e) <= AtRank(S, ee)
    BY ONLY <2>1, RanksRise
  <2>4. dd <= e => AtRank(S, dd) <= AtRank(S, e)
    BY ONLY <2>1, RanksRise
  <2> QED
    BY <2>2, <2>3, <2>4
<1>12. /\ AtPlace(S, i) = 100 * AtRank(S, d) + m * (AtRank(S, dd) - AtRank(S, d))
       /\ AtPlace(S, j) = 100 * AtRank(S, e) + o * (AtRank(S, ee) - AtRank(S, e))
  BY <1>3, <1>4, <1>5, <1>6, <1>8, <1>9 DEF AtPlace
<1>13. /\ AtPlace(S, i) \in Int /\ AtPlace(S, j) \in Int
       /\ AtPlace(S, i) <= 100 * AtRank(S, dd) /\ 100 * AtRank(S, e) <= AtPlace(S, j)
  <2>1. /\ 100 * AtRank(S, d) + m * (AtRank(S, dd) - AtRank(S, d)) \in Int
        /\ 100 * AtRank(S, d) + m * (AtRank(S, dd) - AtRank(S, d)) <= 100 * AtRank(S, dd)
    <3>1. m \in Nat /\ m <= 100
      BY <1>7
    <3> QED
      BY ONLY <1>11, <3>1, Between
  <2>2. /\ 100 * AtRank(S, e) + o * (AtRank(S, ee) - AtRank(S, e)) \in Int
        /\ 100 * AtRank(S, e) <= 100 * AtRank(S, e) + o * (AtRank(S, ee) - AtRank(S, e))
    <3>1. o \in Nat /\ o <= 100
      BY <1>7
    <3> QED
      BY ONLY <1>11, <3>1, Between
  <2> QED
    BY <1>12, <2>1, <2>2
<1>14. CASE d < e /\ dd <= e
  BY <1>11, <1>13, <1>14
<1>15. CASE d = e /\ m <= o /\ m = 0
  <2>1. AtPlace(S, i) <= 100 * AtRank(S, d)
    BY <1>8, <1>13, <1>15
  <2> QED
    BY <1>11, <1>13, <1>15, <2>1
<1>16. CASE d = e /\ m <= o /\ m # 0
  <2>1. dd = ee /\ o \in Nat /\ m \in Nat
    BY <1>7, <1>8, <1>9, <1>16
  <2> QED
    BY <1>11, <1>12, <1>16, <2>1, Steeper
<1> QED
  BY <1>10, <1>14, <1>15, <1>16

LEMMA PercentilesRise ==
    ASSUME AnalyticsInv, NEW w \in Windows
    PROVE  /\ getLatencyPercentiles(w)[50] <= getLatencyPercentiles(w)[95]
           /\ getLatencyPercentiles(w)[95] <= getLatencyPercentiles(w)[99]
<1>1. PICK S : S = RowsInWindow(w)
  OBVIOUS
<1>2. IsFiniteSet(S) /\ Cardinality(S) \in Nat /\ \A r \in S : r.latencyMs \in Int
  <2>1. \A r \in S : r["latencyMs"] \in Int
    BY <1>1, WindowIs
  <2> QED
    BY <1>1, <2>1, WindowIs
<1>3. \A q \in {50, 95, 99} : getLatencyPercentiles(w)[q] = percentile_cont(q, S)
  BY <1>1 DEF getLatencyPercentiles
<1>4. CASE Cardinality(S) = 0
  <2>1. \A q : percentile_cont(q, S) = 0
    BY <1>4 DEF percentile_cont
  <2> QED
    BY <1>3, <2>1
<1>5. CASE Cardinality(S) # 0
  <2>1. PICK n : n = Cardinality(S) - 1
    OBVIOUS
  <2>2. n \in Nat /\ 50 * n \in Nat /\ 95 * n \in Nat /\ 99 * n \in Nat
        /\ 50 * n <= 95 * n /\ 95 * n <= 99 * n /\ 99 * n <= 100 * n
    BY <1>2, <1>5, <2>1
  <2>3. \A q : percentile_cont(q, S) = AtPlace(S, q * n)
    BY <1>5, <2>1 DEF percentile_cont, AtPlace
  <2>4. AtPlace(S, 50 * n) <= AtPlace(S, 95 * n)
    BY <1>2, <2>1, <2>2, PlacesRise
  <2>5. AtPlace(S, 95 * n) <= AtPlace(S, 99 * n)
    BY <1>2, <2>1, <2>2, PlacesRise
  <2> QED
    BY <1>3, <2>3, <2>4, <2>5
<1> QED
  BY <1>4, <1>5

LEMMA TopPathsAddUp ==
    ASSUME AnalyticsInv, NEW w \in Windows, NEW top \in getTopPaths(MaxRows, w)
    PROVE  SumOfSeries([v \in DOMAIN top |-> top[v].count]) = getErrorRate(w).total
<1> DEFINE S == RowsInWindow(w)
           g == GroupsOf(S, "path")
<1>1. IsFiniteSet(S) /\ S \in SUBSET S /\ Cardinality(S) \in Nat /\ Cardinality(S) <= MaxRows
      /\ MaxRows \in Nat
  BY WindowIs, AnalyticsAssumption
<1>2. PICK T \in TopGroups(MaxRows, g) :
        top = [v \in T |-> [count |-> Cardinality(g[v]), avgLatency |-> Average(g[v], "latencyMs")]]
  BY DEF getTopPaths
<1>3. getErrorRate(w).total = Cardinality(S)
  BY DEF getErrorRate
<1> HIDE DEF S
<1>4. IsFiniteSet(DOMAIN g) /\ Cardinality(DOMAIN g) \in Nat /\ Cardinality(DOMAIN g) <= Cardinality(S)
      /\ \A v \in DOMAIN g : g[v] = RowsWith(S, "path", v)
  BY <1>1, GroupsAre
<1> HIDE DEF g
<1>5. T \in SUBSET DOMAIN g /\ Cardinality(T) = Min({MaxRows, Cardinality(DOMAIN g)})
  BY <1>2 DEF TopGroups
<1>6. Min({MaxRows, Cardinality(DOMAIN g)}) = Cardinality(DOMAIN g)
  <2>1. \A a, b \in Int : b <= a => Min({a, b}) = b
    BY DEF Min
  <2> QED
    BY <1>1, <1>4, <2>1
<1>7. T = DOMAIN g
  BY <1>4, <1>5, <1>6, FS_Subset
<1>8. PICK f : f = [v \in DOMAIN top |-> top[v].count]
  OBVIOUS
<1>9. DOMAIN f = DOMAIN g /\ \A v \in DOMAIN f : f[v] = Cardinality(RowsWith(S, "path", v))
  BY <1>2, <1>4, <1>7, <1>8
<1>10. SumOfSeries(f) = Cardinality(S)
  BY <1>1, <1>9, GroupsAddUp DEF g
<1> QED
  BY <1>3, <1>8, <1>10

LEMMA SharesAddUp ==
    ASSUME AnalyticsInv, NEW w \in Windows, NEW geo \in getGeoDistribution(w)
    PROVE  SharesMakeAWhole(geo, NotNull(RowsInWindow(w), "country"))
<1> DEFINE S == NotNull(RowsInWindow(w), "country")
           g == GroupsOf(S, "country")
<1>1. IsFiniteSet(S) /\ Cardinality(S) \in Nat /\ S \in SUBSET S
  BY WindowIs, FS_Subset, FS_CardinalityType DEF NotNull
<1>2. PICK T \in TopGroups(MaxCountries, g) :
        geo = [v \in T |-> [count |-> Cardinality(g[v]),
                            pct |-> Rounded(10000 * Cardinality(g[v]), Cardinality(S))]]
  BY DEF getGeoDistribution
<1> HIDE DEF S
<1>3. /\ IsFiniteSet(DOMAIN g) /\ DOMAIN g = {r.country : r \in S}
      /\ \A v \in DOMAIN g : g[v] = RowsWith(S, "country", v) /\ Cardinality(g[v]) \in Nat
  <2>1. DOMAIN GroupsOf(S, "country") = {r["country"] : r \in S}
    BY ONLY Zenon DEF GroupsOf
  <2> QED
    BY <1>1, <2>1, GroupsAre
<1>4. T \in SUBSET DOMAIN g /\ IsFiniteSet(T) /\ Cardinality(T) \in Nat
  BY <1>2, <1>3, FS_Subset, FS_CardinalityType DEF TopGroups
<1> HIDE DEF g
<1>5. DOMAIN geo = T
  BY <1>2
<1>6. PICK f : f = [v \in DOMAIN geo |-> geo[v].pct]
  OBVIOUS
<1>7. PICK c : c = [v \in DOMAIN g |-> Cardinality(g[v])]
  OBVIOUS
<1>8. DOMAIN c = DOMAIN g /\ \A v \in DOMAIN c : c[v] = Cardinality(RowsWith(S, "country", v)) /\ c[v] \in Nat
  BY <1>3, <1>7
<1>9. SumOf(c, DOMAIN g) = Cardinality(S)
  BY <1>1, <1>8, GroupsAddUp, Folded DEF g
<1>10. SumOf(c, T) \in Nat /\ SumOf(c, T) <= Cardinality(S)
  BY <1>3, <1>4, <1>8, <1>9, SumOfPart, SumNat
<1>11. SumOfSeries(f) = SumOf(f, T)
  BY <1>5, <1>6, Folded
<1>12. CASE Cardinality(S) = 0
  <2>1. S = {} /\ T = {} /\ Cardinality(T) = 0
    BY <1>1, <1>3, <1>4, <1>12, FS_EmptySet
  <2>2. SumOf(f, {}) = 0
    BY FS_EmptySet, SumAt
  <2> QED
    BY <1>5, <1>6, <1>11, <2>1, <2>2 DEF SharesMakeAWhole, S
<1>13. CASE Cardinality(S) # 0
  <2>1. PICK n \in Nat \ {0} : n = Cardinality(S)
    BY <1>1, <1>13
  <2>2. \A v \in T : f[v] = Rounded(10000 * c[v], n) /\ c[v] \in Nat
    BY <1>2, <1>4, <1>5, <1>6, <1>7, <1>8, <2>1
  <2>3. SharesNear(f, c, n, T)
    BY <1>4, <2>2, SumOfShares
  <2>4. \A v \in T : f[v] \in Nat
    <3>1. \A x \in Nat : Rounded(x, n) \in Nat
      BY RoundedIs
    <3>2. \A v \in T : 10000 * c[v] \in Nat
      BY <2>2
    <3> QED
      BY ONLY <2>2, <3>1, <3>2
  <2>5. SumOf(f, T) \in Nat
    BY <1>4, <2>4, SumNat
  <2>6. PICK p, k, m \in Nat : p = SumOf(f, T) /\ k = Cardinality(T) /\ m = SumOf(c, T)
    BY <1>4, <1>10, <2>5
  <2>7. /\ 2 * (n * p) <= 20000 * m + n * k
        /\ 20000 * m <= 2 * (n * p) + n * k
    BY <2>3, <2>6 DEF SharesNear
  <2>8. 2 * p <= 20000 + k
    <3>1. m <= n
      BY <1>10, <2>1, <2>6
    <3>2. n * (2 * p) <= n * (20000 + k)
      BY <2>7, <3>1
    <3> QED
      BY <3>2, Cancelled
  <2>9. DOMAIN geo = {r.country : r \in S} => 2 * p >= 20000 - k
    <3> SUFFICES ASSUME DOMAIN geo = {r.country : r \in S}
                 PROVE  2 * p >= 20000 - k
      OBVIOUS
    <3>1. m = n
      BY <1>3, <1>5, <1>9, <2>1, <2>6
    <3>2. n * 20000 <= n * (2 * p + k)
      BY <2>7, <3>1
    <3>3. 20000 <= 2 * p + k
      BY <3>2, Cancelled
    <3> QED
      BY <3>3
  <2> QED
    BY <1>5, <1>6, <1>11, <2>6, <2>8, <2>9 DEF SharesMakeAWhole, S
<1> QED
  BY <1>12, <1>13

LEMMA EdgesSeenInWindow ==
    ASSUME AnalyticsInv, NEW w \in Windows, NEW v \in DOMAIN getEdgeStats(w)
    PROVE  minute - w < getEdgeStats(w)[v].lastSeen
<1> DEFINE S == NotNull(RowsInWindow(w), "edgeRegion")
           g == GroupsOf(S, "edgeRegion")
<1>1. S \in SUBSET RowsInWindow(w)
  BY DEF NotNull
<1>0. v \in DOMAIN g
  BY DEF getEdgeStats
<1>2. getEdgeStats(w)[v].lastSeen = Max({r.time : r \in g[v]})
  BY DEF getEdgeStats
<1> HIDE DEF S
<1>3. IsFiniteSet(S) /\ \A r \in S : r["time"] \in Nat /\ minute - w < r["time"]
  BY <1>1, WindowIs, FS_Subset
<1>4. IsFiniteSet(g[v]) /\ g[v] \in SUBSET S /\ g[v] # {}
  <2>0. IsFiniteSet(S)
    BY <1>3
  <2>1. IsFiniteSet(g[v])
    BY ONLY <1>0, <2>0, GroupsAre
  <2>2. g[v] \in SUBSET S
    BY ONLY <1>0, <2>0, GroupsAre
  <2>3. g[v] # {}
    BY ONLY <1>0, <2>0, GroupsAre
  <2> QED
    BY <2>1, <2>2, <2>3
<1> HIDE DEF g
<1>5. PICK A : A = g[v]
  OBVIOUS
<1>6. PICK times : times = {r["time"] : r \in A}
  OBVIOUS
<1>7. IsFiniteSet(times)
  BY <1>4, <1>5, <1>6, ColumnValues
<1>8. times # {} /\ times \subseteq Int /\ \A t \in times : minute - w < t
  BY <1>3, <1>4, <1>5, <1>6
<1>9. Max(times) \in times
  BY <1>7, <1>8, MaxIs
<1> QED
  BY <1>2, <1>5, <1>6, <1>8, <1>9

LEMMA ReportsAgreeing == ASSUME AnalyticsInv PROVE ReportsAddUp
<1> SUFFICES ASSUME NEW w \in Windows
    PROVE  /\ SumOfSeries(getRequestRate(w)) = getErrorRate(w).total
           /\ DOMAIN getCacheHitRatioTimeSeries(w) = DOMAIN getRequestRate(w)
           /\ getCacheHitRatio(w).hits + getCacheHitRatio(w).misses = getErrorRate(w).total
           /\ getCacheHitRatio(w).cachedBytes <= SumOfSeries(getBandwidthOverTime(w))
           /\ \A v \in DOMAIN getRequestsByService(w) :
                getRequestsByService(w)[v].errorCount <= getRequestsByService(w)[v].count
           /\ SumOfSeries([v \in DOMAIN getRequestsByService(w) |-> getRequestsByService(w)[v].errorCount])
                = Cardinality(Failed(NotNull(RowsInWindow(w), "service")))
           /\ getLatencyPercentiles(w)[50] <= getLatencyPercentiles(w)[95]
           /\ getLatencyPercentiles(w)[95] <= getLatencyPercentiles(w)[99]
           /\ \A top \in getTopPaths(MaxRows, w) :
                 SumOfSeries([v \in DOMAIN top |-> top[v].count]) = getErrorRate(w).total
           /\ \A geo \in getGeoDistribution(w) :
                SharesMakeAWhole(geo, NotNull(RowsInWindow(w), "country"))
           /\ \A v \in DOMAIN getEdgeStats(w) : minute - w < getEdgeStats(w)[v].lastSeen
  BY DEF ReportsAddUp
<1>1. DOMAIN getCacheHitRatioTimeSeries(w) = DOMAIN getRequestRate(w)
  BY DEF getCacheHitRatioTimeSeries, getRequestRate
<1>2. getCacheHitRatio(w).hits + getCacheHitRatio(w).misses = getErrorRate(w).total
  <2>1. PICK S : S = RowsInWindow(w)
    OBVIOUS
  <2>2. Hits(S) \in SUBSET S
    BY DEF Hits
  <2>3. Cardinality(S) \in Nat /\ Cardinality(Hits(S)) \in Nat
    BY <2>1, <2>2, WindowIs, FS_Subset, FS_CardinalityType
  <2>4. /\ getCacheHitRatio(w).hits = Cardinality(Hits(S))
        /\ getCacheHitRatio(w).misses = Cardinality(S) - Cardinality(Hits(S))
        /\ getErrorRate(w).total = Cardinality(S)
    BY <2>1 DEF getCacheHitRatio, getErrorRate
  <2> QED
    BY <2>3, <2>4
<1> QED
  BY <1>1, <1>2, RateAddsUp, BandwidthAddsUp, ErrorsAddUp, PercentilesRise, TopPathsAddUp, SharesAddUp,
     EdgesSeenInWindow

\* The table, the clock and the report in progress keep their types, whatever is
\* inserted while the queries of getSummaryStats or searchEvents run.
THEOREM AnalyticsTyped == AnalyticsSpec => []AnalyticsTypeOK
<1>1. AnalyticsInv => AnalyticsTypeOK
  BY DEF AnalyticsInv
<1> QED
  BY <1>1, AnalyticsInitially, AnalyticsSteps, PTL DEF AnalyticsSpec

\* The numbers of one summary or search agree but for as many rows as entered or
\* left what it looks at while its Promise.all ran.
THEOREM AnswersAgree == AnalyticsSpec => []AnswersCoherent
  BY CoherentAnswers, AnalyticsInitially, AnalyticsSteps, PTL DEF AnalyticsSpec

\* Whatever was inserted, however late, the reports shown side by side add up to the
\* same requests, the listed countries' shares to no more than a whole and half a
\* hundredth of a percent each, the percentiles are in order, no edge was last seen
\* before the window, and the numbers of one answer are apart by at most the rows
\* that came or went meanwhile.
THEOREM ReportsAgree == AnalyticsSpec => []ReportsReconcile
<1>1. AnalyticsInv => ReportsReconcile
  BY CoherentAnswers, ReportsAgreeing DEF ReportsReconcile
<1> QED
  BY <1>1, AnalyticsInitially, AnalyticsSteps, PTL DEF AnalyticsSpec

-----------------------------------------------------------------------------
(* Alerts: the walk of a check, the debounce and the dispatch.              *)

CheckRecords ==
    [pc : {"idle", "next", "fetch", "dispatch"}, start : 0..now, shared : BOOLEAN,
     list : Seq(Rules), i : Nat \ {0}, rule : Rules \cup {NoRule}, todo : SUBSET Channels,
     sent : SUBSET Channels, failed : BOOLEAN, seen : SUBSET RuleIds]
HistoryRecords == [rule : RuleIds, start : 0..now]

\* Between its awaits a check stands at a rule of the array it walks, though the
\* rule may have been replaced there by one with the same id.
Stands(q, list) ==
    /\ q.pc = "idle" => q.i = 1
    /\ \A k \in 1 .. q.i - 1 : k <= Len(list) /\ list[k].id \in q.seen
    /\ q.pc \in {"fetch", "dispatch"} =>
          q.rule \in Rules /\ q.i <= Len(list) /\ list[q.i].id = q.rule.id
WalkInv == \A c \in Checks : Stands(check[c], Walked(c))

\* Without overlap at most one check runs, nothing triggers a rule between its
\* debounce test and its record, and no older record is newer than lastTriggered.
AloneInv ==
    ~overlapped =>
        /\ \A c, d \in Checks : check[c].pc # "idle" /\ check[d].pc # "idle" => c = d
        /\ \A c \in Checks : check[c].pc = "fetch" =>
              check[c].start - lastTriggered[check[c].rule.id] >= Debounce
        /\ \A j \in DOMAIN history : history[j].start <= lastTriggered[history[j].rule]
        /\ \A i, j \in DOMAIN history :
              i < j /\ history[i].rule = history[j].rule =>
                  history[i].start - history[j].start >= Debounce

\* While every rule has an array of channels, a dispatch without a failure has
\* sent to every channel it has done with, but for the excused ones.
Arrays == (\A r \in NewRules : r.isArray) /\ (\A i \in DOMAIN Rule0 : Rule0[i].isArray)
Excused == IF SlackUrl THEN {} ELSE {"slack"}
AllArrays(list) == \A i \in DOMAIN list : list[i].isArray
SentInv ==
    /\ AllArrays(rules)
    /\ \A c \in Checks :
          /\ AllArrays(check[c].list)
          /\ check[c].pc \in {"fetch", "dispatch"} => check[c].rule.isArray
          /\ check[c].pc = "dispatch" /\ ~check[c].failed =>
                check[c].rule.channels \subseteq check[c].todo \cup check[c].sent \cup Excused
    /\ SuccessMeansSent

AlertInv == AlertTypeOK /\ WalkInv /\ AloneInv /\ (Arrays => SentInv)

LEMMA AlertTypes ==
    ASSUME AlertTypeOK
    PROVE  /\ check \in [Checks -> CheckRecords] /\ rules \in Seq(Rules)
           /\ history \in Seq(HistoryRecords) /\ Len(history) <= HistoryCap
           /\ lastTriggered \in [RuleIds -> -Debounce..MaxTime]
           /\ now \in 0..MaxTime /\ MaxTime \in Nat /\ Debounce \in Nat \ {0}
           /\ overlapped \in BOOLEAN
           /\ \A c \in Checks : Walked(c) \in Seq(Rules)
  BY AlertsAssumption DEF AlertTypeOK, CheckRecords, HistoryRecords, Walked

LEMMA CheckSet ==
    ASSUME AlertTypeOK, NEW c \in Checks, NEW q \in CheckRecords, check' = [check EXCEPT ![c] = q]
    PROVE  /\ check' \in [Checks -> CheckRecords] /\ check'[c] = q
           /\ \A d \in Checks \ {c} : check'[d] = check[d]
<1>1. check \in [Checks -> CheckRecords]
  BY AlertTypes
<1> QED
  BY <1>1

\* The type of everything but the checks, where it stays as it is.
LEMMA OnlyChecks ==
    ASSUME AlertTypeOK, check' \in [Checks -> CheckRecords],
           UNCHANGED <<now, rules, lastTriggered, history, edits>>, overlapped' \in BOOLEAN,
           notified' \in [status : {"failed", "success"}, missed : SUBSET Channels]
    PROVE  AlertTypeOK'
  BY DEF AlertTypeOK, CheckRecords

LEMMA WalkKept ==
    ASSUME WalkInv, NEW c \in Checks, \A d \in Checks \ {c} : check'[d] = check[d], rules' = rules,
           check'[c].shared = check[c].shared, check'[c].list = check[c].list,
           Stands(check'[c], Walked(c))
    PROVE  WalkInv'
<1>1. Walked(c)' = Walked(c)
  BY DEF Walked
<1>2. \A d \in Checks \ {c} : Walked(d)' = Walked(d) /\ Stands(check[d], Walked(d))
  BY DEF Walked, WalkInv
<1> QED
  BY <1>1, <1>2 DEF WalkInv

LEMMA AloneKept ==
    ASSUME AloneInv, NEW c \in Checks, \A d \in Checks \ {c} : check'[d] = check[d],
           UNCHANGED <<history, lastTriggered, overlapped>>,
           check'[c].pc # "idle" => check[c].pc # "idle",
           ~overlapped /\ check'[c].pc = "fetch" =>
               check'[c].start - lastTriggered[check'[c].rule.id] >= Debounce
    PROVE  AloneInv'
<1> SUFFICES ASSUME ~overlapped
             PROVE  /\ \A d, e \in Checks : check'[d].pc # "idle" /\ check'[e].pc # "idle" => d = e
                    /\ \A d \in Checks : check'[d].pc = "fetch" =>
                          check'[d].start - lastTriggered[check'[d].rule.id] >= Debounce
  BY DEF AloneInv
<1>1. \A d \in Checks : check'[d].pc # "idle" => check[d].pc # "idle"
  OBVIOUS
<1> QED
  BY <1>1 DEF AloneInv

LEMMA SentKept ==
    ASSUME SentInv, NEW c \in Checks, \A d \in Checks \ {c} : check'[d] = check[d], rules' = rules,
           check'[c].list = check[c].list,
           check'[c].pc \in {"fetch", "dispatch"} => check'[c].rule.isArray,
           check'[c].pc = "dispatch" /\ ~check'[c].failed =>
               check'[c].rule.channels \subseteq check'[c].todo \cup check'[c].sent \cup Excused,
           SuccessMeansSent'
    PROVE  SentInv'
  BY DEF SentInv, AllArrays

\* On to the next rule: the one at the index has been visited.
LEMMA Advances ==
    ASSUME AlertInv, NEW c \in Checks, NEW id \in RuleIds, Advance(c, id),
           check[c].i <= Len(Walked(c)), Walked(c)[check[c].i].id = id
    PROVE  /\ check' \in [Checks -> CheckRecords]
           /\ \A d \in Checks \ {c} : check'[d] = check[d]
           /\ check'[c].pc = "next" /\ check'[c].start = check[c].start
           /\ check'[c].shared = check[c].shared /\ check'[c].list = check[c].list
           /\ Stands(check'[c], Walked(c))
<1> DEFINE q == [check[c] EXCEPT !.pc = "next", !.i = @ + 1, !.rule = NoRule, !.todo = {},
                                 !.sent = {}, !.failed = FALSE, !.seen = @ \cup {id}]
<1>1. check[c] \in CheckRecords /\ check[c].i \in Nat \ {0}
  BY AlertTypes DEF AlertInv, CheckRecords
<1>2. check' = [check EXCEPT ![c] = q]
  BY DEF Advance
<1>3. /\ q \in CheckRecords /\ q.pc = "next" /\ q.start = check[c].start
      /\ q.shared = check[c].shared /\ q.list = check[c].list
      /\ q.i = check[c].i + 1 /\ q.seen = check[c].seen \cup {id}
  <2> DEFINE n == check[c].i + 1
  <2> DEFINE v == check[c].seen \cup {id}
  <2>1. n \in Nat \ {0} /\ v \in SUBSET RuleIds
    BY <1>1 DEF CheckRecords
  <2> HIDE DEF n, v
  <2>2. q = [check[c] EXCEPT !.pc = "next", !.i = n, !.rule = NoRule, !.todo = {},
                             !.sent = {}, !.failed = FALSE, !.seen = v]
    BY DEF n, v
  <2> HIDE DEF q
  <2>3. q \in CheckRecords /\ q.pc = "next"
    BY <1>1, <2>1, <2>2 DEF CheckRecords
  <2>4. q.start = check[c].start /\ q.shared = check[c].shared /\ q.list = check[c].list
    BY <1>1, <2>2 DEF CheckRecords
  <2>5. q.i = n /\ q.seen = v
    BY <1>1, <2>2 DEF CheckRecords
  <2> QED
    BY <2>3, <2>4, <2>5 DEF n, v
<1> HIDE DEF q
<1>4. /\ check' \in [Checks -> CheckRecords] /\ check'[c] = q
      /\ \A d \in Checks \ {c} : check'[d] = check[d]
  BY <1>2, <1>3, CheckSet DEF AlertInv
<1>5. Stands(q, Walked(c))
  <2>1. \A k \in 1 .. check[c].i - 1 : k <= Len(Walked(c)) /\ Walked(c)[k].id \in check[c].seen
    BY DEF AlertInv, WalkInv, Stands
  <2>2. \A k \in 1 .. q.i - 1 : k \in 1 .. check[c].i - 1 \/ k = check[c].i
    BY <1>1, <1>3
  <2> QED
    BY <1>3, <2>1, <2>2 DEF Stands
<1> QED
  BY <1>3, <1>4, <1>5

\* A check that goes on to the next rule keeps the invariant, if nothing was
\* triggered and what it recorded, if anything, is true.
LEMMA AdvanceKeeps ==
    ASSUME AlertInv, NEW c \in Checks, NEW id \in RuleIds, Advance(c, id), check[c].pc # "idle",
           check[c].i <= Len(Walked(c)), Walked(c)[check[c].i].id = id,
           UNCHANGED <<now, rules, lastTriggered, history, edits, overlapped>>,
           notified' \in [status : {"failed", "success"}, missed : SUBSET Channels],
           Arrays => SuccessMeansSent'
    PROVE  AlertInv'
<1>1. /\ check' \in [Checks -> CheckRecords]
      /\ \A d \in Checks \ {c} : check'[d] = check[d]
      /\ check'[c].pc = "next" /\ check'[c].start = check[c].start
      /\ check'[c].shared = check[c].shared /\ check'[c].list = check[c].list
      /\ Stands(check'[c], Walked(c))
  BY Advances
<1>2. AlertTypeOK'
  BY <1>1, OnlyChecks, AlertTypes DEF AlertInv
<1>3. WalkInv'
  BY <1>1, WalkKept DEF AlertInv
<1>4. AloneInv'
  BY <1>1, AloneKept DEF AlertInv
<1>5. Arrays => SentInv'
  BY <1>1, SentKept DEF AlertInv
<1> QED
  BY <1>2, <1>3, <1>4, <1>5 DEF AlertInv

LEMMA IdleChecks ==
    /\ IdleCheck.pc = "idle" /\ IdleCheck.list = <<>> /\ IdleCheck.i = 1 /\ IdleCheck.shared
    /\ AlertTypeOK => IdleCheck \in CheckRecords /\ [IdleCheck EXCEPT !.pc = "next", !.start = now] \in CheckRecords
    /\ \A list : Stands(IdleCheck, list) /\ Stands([IdleCheck EXCEPT !.pc = "next", !.start = now], list)
<1>1. /\ IdleCheck.pc = "idle" /\ IdleCheck.list = <<>> /\ IdleCheck.i = 1 /\ IdleCheck.shared
  BY DEF IdleCheck
<1>2. ASSUME AlertTypeOK
      PROVE  /\ IdleCheck \in CheckRecords
             /\ [IdleCheck EXCEPT !.pc = "next", !.start = now] \in CheckRecords
  <2>1. 0 \in 0..now /\ now \in 0..now /\ <<>> \in Seq(Rules)
    BY <1>2, AlertTypes
  <2>2. IdleCheck \in CheckRecords
    BY <2>1 DEF IdleCheck, CheckRecords
  <2>3. [IdleCheck EXCEPT !.pc = "next", !.start = now] \in CheckRecords
    BY <2>1, <2>2 DEF CheckRecords
  <2> QED
    BY <2>2, <2>3
<1>3. \A list : Stands(IdleCheck, list) /\ Stands([IdleCheck EXCEPT !.pc = "next", !.start = now], list)
  BY DEF IdleCheck, Stands
<1> QED
  BY <1>1, <1>2, <1>3

LEMMA AlertInitially == AlertInit => AlertInv
<1> SUFFICES ASSUME AlertInit PROVE AlertInv
  OBVIOUS
<1>1. /\ lastTriggered = [r \in RuleIds |-> -Debounce] /\ history = <<>>
      /\ check = [c \in Checks |-> IdleCheck] /\ rules = Rule0 /\ Rule0 \in Seq(Rules)
      /\ now = 0 /\ edits = 0 /\ overlapped = FALSE
      /\ notified = [status |-> "success", missed |-> {}]
  BY AlertsAssumption DEF AlertInit, Notification
<1>3. lastTriggered \in [RuleIds -> -Debounce..MaxTime]
  <2>1. -Debounce \in -Debounce..MaxTime
    BY AlertsAssumption
  <2> QED
    BY <1>1, <2>1
<1>4. /\ now \in 0..MaxTime /\ edits \in 0..MaxEdits /\ history \in Seq(HistoryRecords)
      /\ Len(history) <= HistoryCap
  BY <1>1, AlertsAssumption
<1>5. IdleCheck \in CheckRecords
  <2>1. 0 \in 0..now /\ <<>> \in Seq(Rules)
    BY <1>1
  <2> QED
    BY <2>1 DEF IdleCheck, CheckRecords
<1>6. AlertTypeOK
  <2>1. notified \in [status : {"failed", "success"}, missed : SUBSET Channels]
    BY <1>1
  <2> QED
    BY <1>1, <1>3, <1>4, <1>5, <2>1 DEF AlertTypeOK, CheckRecords, HistoryRecords
<1>7. WalkInv
  BY <1>1, IdleChecks DEF WalkInv
<1>8. AloneInv
  BY <1>1, IdleChecks DEF AloneInv
<1>9. Arrays => SentInv
  <2>1. SuccessMeansSent
    BY <1>1 DEF SuccessMeansSent
  <2>2. \A c \in Checks : check[c].pc = "idle" /\ check[c].list = <<>>
    BY <1>1, IdleChecks
  <2> QED
    BY <1>1, <2>1, <2>2 DEF Arrays, SentInv, AllArrays
<1> QED
  BY <1>6, <1>7, <1>8, <1>9 DEF AlertInv

\* The rules change, but every check still walks the ids it walked: those
\* before its index, and the one at it while it awaits.
LEMMA RulesChange ==
    ASSUME AlertInv, rules' \in Seq(Rules), Edit, UNCHANGED <<now, lastTriggered, history, notified, overlapped>>,
           check' \in [Checks -> CheckRecords],
           \A c \in Checks :
               /\ check'[c].pc = check[c].pc /\ check'[c].start = check[c].start
               /\ check'[c].rule = check[c].rule /\ check'[c].i = check[c].i
               /\ check'[c].seen = check[c].seen /\ check'[c].todo = check[c].todo
               /\ check'[c].sent = check[c].sent /\ check'[c].failed = check[c].failed
               /\ check'[c].list \in {check[c].list, rules}
               /\ \/ check[c].pc = "idle" /\ Stands(check'[c], Walked(c)')
                  \/ /\ Len(Walked(c)') >= Len(Walked(c))
                     /\ \A k \in 1..Len(Walked(c)) : Walked(c)'[k].id = Walked(c)[k].id,
           Arrays /\ AllArrays(rules) => AllArrays(rules')
    PROVE  AlertInv'
<1>1. edits' \in 0..MaxEdits
  BY AlertsAssumption DEF Edit, AlertInv, AlertTypeOK
<1>2. AlertTypeOK'
  BY <1>1 DEF AlertInv, AlertTypeOK, CheckRecords
<1>3. WalkInv'
  <2> SUFFICES ASSUME NEW c \in Checks PROVE Stands(check'[c], Walked(c)')
    BY DEF WalkInv
  <2>1. Stands(check[c], Walked(c)) /\ Len(Walked(c)) \in Nat /\ check[c].i \in Nat \ {0}
    BY AlertTypes DEF AlertInv, WalkInv, CheckRecords
  <2>2. CASE Stands(check'[c], Walked(c)')
    BY <2>2
  <2>3. CASE /\ Len(Walked(c)') >= Len(Walked(c))
             /\ \A k \in 1..Len(Walked(c)) : Walked(c)'[k].id = Walked(c)[k].id
    <3>1. Len(Walked(c)') \in Nat
      <4>1. check'[c].list \in Seq(Rules)
        BY DEF CheckRecords
      <4>2. Walked(c)' \in Seq(Rules)
        BY <4>1 DEF Walked
      <4> QED
        BY <4>2
    <3>2. ASSUME NEW k \in 1..check[c].i - 1
          PROVE  k <= Len(Walked(c)') /\ Walked(c)'[k].id \in check[c].seen
      <4>1. k <= Len(Walked(c)) /\ Walked(c)[k].id \in check[c].seen
        BY <2>1 DEF Stands
      <4> QED
        BY <2>1, <2>3, <3>1, <4>1
    <3>3. check[c].pc \in {"fetch", "dispatch"} =>
            /\ check[c].rule \in Rules /\ check[c].i <= Len(Walked(c)')
            /\ Walked(c)'[check[c].i].id = check[c].rule.id
      BY <2>1, <2>3, <3>1 DEF Stands
    <3>4. check[c].pc = "idle" => check[c].i = 1
      BY <2>1 DEF Stands
    <3> QED
      BY <3>2, <3>3, <3>4 DEF Stands
  <2> QED
    BY <2>2, <2>3
<1>4. AloneInv'
  BY DEF AlertInv, AloneInv
<1>5. Arrays => SentInv'
  <2> SUFFICES ASSUME Arrays PROVE SentInv'
    OBVIOUS
  <2>1. SentInv /\ AllArrays(rules) /\ AllArrays(rules')
    BY DEF AlertInv, SentInv
  <2>2. \A c \in Checks : AllArrays(check'[c].list)
    BY <2>1 DEF SentInv
  <2>3. SuccessMeansSent'
    BY <2>1 DEF SentInv, SuccessMeansSent
  <2> QED
    BY <2>1, <2>2, <2>3 DEF SentInv
<1> QED
  BY <1>2, <1>3, <1>4, <1>5 DEF AlertInv

LEMMA AlertSteps == AlertInv /\ [AlertNext]_alertVars => AlertInv'
<1> SUFFICES ASSUME AlertInv, [AlertNext]_alertVars PROVE AlertInv'
  OBVIOUS
<1>1. /\ AlertTypeOK /\ WalkInv /\ AloneInv /\ (Arrays => SentInv)
      /\ check \in [Checks -> CheckRecords] /\ rules \in Seq(Rules)
      /\ history \in Seq(HistoryRecords) /\ Len(history) <= HistoryCap
      /\ lastTriggered \in [RuleIds -> -Debounce..MaxTime]
      /\ now \in 0..MaxTime /\ MaxTime \in Nat /\ Debounce \in Nat \ {0}
      /\ overlapped \in BOOLEAN
      /\ \A c \in Checks : Walked(c) \in Seq(Rules)
  BY AlertTypes DEF AlertInv
<1>2. notified \in [status : {"failed", "success"}, missed : SUBSET Channels]
  BY <1>1 DEF AlertTypeOK
<1>3. notified' = notified => (Arrays => SuccessMeansSent')
  BY <1>1 DEF SentInv, SuccessMeansSent
<1>4. \A c \in Checks : check[c] \in CheckRecords /\ Stands(check[c], Walked(c))
  BY <1>1 DEF WalkInv
<1>5. CASE Tick
  <2>1. /\ now' = now + 1 /\ now' \in 0..MaxTime
        /\ UNCHANGED <<rules, lastTriggered, history, check, notified, edits, overlapped>>
    BY <1>1, <1>5 DEF Tick
  <2>2. 0..now \subseteq 0..now'
    BY <1>1, <2>1
  <2>3. HistoryRecords \subseteq [rule : RuleIds, start : 0..now']
    BY <2>2 DEF HistoryRecords
  <2>4. history \in Seq([rule : RuleIds, start : 0..now'])
    <3> DEFINE later == [rule : RuleIds, start : 0..now']
    <3>1. HistoryRecords \subseteq later
      BY <2>3
    <3> HIDE DEF later
    <3>2. history \in Seq(later)
      BY <1>1, <3>1, Widened
    <3> QED
      BY <3>2 DEF later
  <2>5. check \in [Checks -> [pc : {"idle", "next", "fetch", "dispatch"}, start : 0..now', shared : BOOLEAN,
           list : Seq(Rules), i : Nat \ {0}, rule : Rules \cup {NoRule}, todo : SUBSET Channels,
           sent : SUBSET Channels, failed : BOOLEAN, seen : SUBSET RuleIds]]
    BY <1>1, <2>2 DEF CheckRecords
  <2>6. AlertTypeOK'
    BY <1>1, <2>1, <2>4, <2>5 DEF AlertTypeOK
  <2>7. WalkInv'
    BY <1>1, <2>1 DEF WalkInv, Walked
  <2>8. AloneInv' /\ (Arrays => SentInv')
    BY <1>1, <2>1 DEF AloneInv, SentInv, SuccessMeansSent
  <2> QED
    BY <2>6, <2>7, <2>8 DEF AlertInv
<1>6. ASSUME NEW c \in Checks, StartCheck(c) PROVE AlertInv'
  <2> DEFINE q == [IdleCheck EXCEPT !.pc = "next", !.start = now]
  <2>1. /\ check[c].pc = "idle" /\ check' = [check EXCEPT ![c] = q]
        /\ overlapped' = (overlapped \/ \E d \in Checks : check[d].pc # "idle")
        /\ UNCHANGED <<now, rules, lastTriggered, history, notified, edits>>
    BY <1>6 DEF StartCheck
  <2>2. /\ q \in CheckRecords /\ \A list : Stands(q, list)
    BY <1>1, IdleChecks
  <2>3. q.pc = "next" /\ q.list = <<>>
    BY DEF IdleCheck
  <2> HIDE DEF q
  <2>4. /\ check' \in [Checks -> CheckRecords] /\ check'[c] = q
        /\ \A d \in Checks \ {c} : check'[d] = check[d]
    BY <1>1, <2>1, <2>2, CheckSet
  <2>5. AlertTypeOK'
    BY <1>1, <1>2, <2>1, <2>4, OnlyChecks
  <2>6. WalkInv'
    <3>1. \A d \in Checks \ {c} : Walked(d)' = Walked(d)
      BY <2>1, <2>4 DEF Walked
    <3> QED
      BY <1>4, <2>2, <2>4, <3>1 DEF WalkInv
  <2>7. AloneInv'
    <3> SUFFICES ASSUME ~overlapped'
                 PROVE  /\ \A d, e \in Checks : check'[d].pc # "idle" /\ check'[e].pc # "idle" => d = e
                        /\ \A d \in Checks : check'[d].pc # "fetch"
      BY <1>1, <2>1 DEF AloneInv
    <3>1. \A d \in Checks : check[d].pc = "idle"
      BY <2>1
    <3> QED
      BY <2>3, <2>4, <3>1
  <2>8. Arrays => SentInv'
    <3>1. AllArrays(<<>>)
      BY DEF AllArrays
    <3> SUFFICES ASSUME Arrays PROVE SentInv'
      OBVIOUS
    <3>2. SentInv /\ SuccessMeansSent'
      BY <1>1, <1>3, <2>1
    <3> QED
      BY <2>1, <2>3, <2>4, <3>1, <3>2 DEF SentInv
  <2> QED
    BY <2>5, <2>6, <2>7, <2>8 DEF AlertInv
<1>7. ASSUME NEW c \in Checks, VisitRule(c) PROVE AlertInv'
  <2>1. /\ check[c].pc = "next"
        /\ UNCHANGED <<now, rules, lastTriggered, history, notified, overlapped, edits>>
    BY <1>7 DEF VisitRule
  <2>2. CASE check[c].i > Len(Walked(c))
    <3>1. check' = [check EXCEPT ![c] = IdleCheck]
      BY <1>7, <2>2 DEF VisitRule
    <3>2. /\ check' \in [Checks -> CheckRecords] /\ check'[c] = IdleCheck
          /\ \A d \in Checks \ {c} : check'[d] = check[d]
      BY <1>1, <3>1, CheckSet, IdleChecks
    <3>3. AlertTypeOK'
      BY <1>1, <1>2, <2>1, <3>2, OnlyChecks
    <3>4. WalkInv'
      <4>1. \A d \in Checks \ {c} : Walked(d)' = Walked(d)
        BY <2>1, <3>2 DEF Walked
      <4> QED
        BY <1>4, <3>2, <4>1, IdleChecks DEF WalkInv
    <3>5. AloneInv'
      BY <1>1, <2>1, <3>2, IdleChecks, AloneKept
    <3>6. Arrays => SentInv'
      <4>1. AllArrays(<<>>)
        BY DEF AllArrays
      <4> SUFFICES ASSUME Arrays PROVE SentInv'
        OBVIOUS
      <4>2. SentInv /\ SuccessMeansSent'
        BY <1>1, <1>3, <2>1
      <4> QED
        BY <2>1, <3>2, <4>1, <4>2, IdleChecks DEF SentInv
    <3> QED
      BY <3>3, <3>4, <3>5, <3>6 DEF AlertInv
  <2>3. CASE ~(check[c].i > Len(Walked(c)))
    <3> DEFINE rule == Walked(c)[check[c].i]
    <3>1. /\ check[c].i \in DOMAIN Walked(c) /\ check[c].i <= Len(Walked(c))
          /\ rule \in Rules /\ rule.id \in RuleIds
      <4>1. check[c].i \in Nat \ {0} /\ Walked(c) \in Seq(Rules)
        BY <1>1, <1>4 DEF CheckRecords
      <4>2. Len(Walked(c)) \in Nat /\ DOMAIN Walked(c) = 1..Len(Walked(c))
        BY <4>1
      <4>3. check[c].i \in DOMAIN Walked(c) /\ check[c].i <= Len(Walked(c))
        BY <2>3, <4>1, <4>2
      <4>4. rule \in Rules
        BY <4>1, <4>3
      <4> QED
        BY <4>3, <4>4 DEF Rules
    <3>2. CASE Due(c, rule)
      <4> DEFINE q == [check[c] EXCEPT !.pc = "fetch", !.rule = rule]
      <4>1. check' = [check EXCEPT ![c] = q]
        BY <1>1, <1>7, <2>3, <3>2 DEF VisitRule
      <4>2. check[c].start - lastTriggered[rule.id] >= Debounce
        BY <3>2 DEF Due
      <4> HIDE DEF rule
      <4>3. /\ q \in CheckRecords /\ q.pc = "fetch" /\ q.rule = rule
            /\ q.start = check[c].start /\ q.shared = check[c].shared /\ q.list = check[c].list
            /\ q.i = check[c].i /\ q.seen = check[c].seen
        BY <1>4, <3>1 DEF CheckRecords
      <4> HIDE DEF q
      <4>4. /\ check' \in [Checks -> CheckRecords] /\ check'[c] = q
            /\ \A d \in Checks \ {c} : check'[d] = check[d]
        BY <1>1, <4>1, <4>3, CheckSet
      <4>5. Stands(q, Walked(c))
        BY <1>4, <3>1, <4>3 DEF Stands, rule
      <4>6. AlertTypeOK'
        BY <1>1, <1>2, <2>1, <4>4, OnlyChecks
      <4>7. WalkInv'
        BY <1>1, <2>1, <4>3, <4>4, <4>5, WalkKept
      <4>8. AloneInv'
        BY <1>1, <2>1, <4>2, <4>3, <4>4, AloneKept
      <4>9. Arrays => SentInv'
        <5> SUFFICES ASSUME Arrays PROVE SentInv'
          OBVIOUS
        <5>1. SentInv /\ SuccessMeansSent'
          BY <1>1, <1>3, <2>1
        <5>2. rule.isArray
          <6>1. AllArrays(rules) /\ AllArrays(check[c].list)
            BY <5>1 DEF SentInv
          <6> QED
            BY <3>1, <6>1 DEF AllArrays, Walked, rule
        <5> QED
          BY <2>1, <4>3, <4>4, <5>1, <5>2, SentKept
      <4> QED
        BY <4>6, <4>7, <4>8, <4>9 DEF AlertInv
    <3>3. CASE ~Due(c, rule)
      <4>1. Advance(c, rule.id)
        BY <1>7, <2>3, <3>3 DEF VisitRule
      <4>2. check[c].pc # "idle"
        BY <2>1
      <4> QED
        BY <1>2, <1>3, <2>1, <3>1, <4>1, <4>2, AdvanceKeeps
    <3> QED
      BY <3>2, <3>3
  <2> QED
    BY <2>2, <2>3
<1>8. ASSUME NEW c \in Checks, check[c].pc \in {"fetch", "dispatch"}, Advance(c, check[c].rule.id),
             UNCHANGED <<now, rules, lastTriggered, history, overlapped, edits>>,
             notified' \in [status : {"failed", "success"}, missed : SUBSET Channels],
             Arrays => SuccessMeansSent'
      PROVE  AlertInv'
  <2>1. /\ check[c].rule.id \in RuleIds /\ check[c].i <= Len(Walked(c))
        /\ Walked(c)[check[c].i].id = check[c].rule.id
    BY <1>4, <1>8 DEF Stands, Rules
  <2> QED
    BY <1>8, <2>1, AdvanceKeeps
<1>9. ASSUME NEW c \in Checks, FetchFails(c) PROVE AlertInv'
  <2>1. /\ check[c].pc = "fetch" /\ Advance(c, check[c].rule.id)
        /\ UNCHANGED <<now, rules, lastTriggered, history, overlapped, edits>> /\ notified' = notified
    BY <1>9 DEF FetchFails
  <2> QED
    BY <1>2, <1>3, <1>8, <2>1

<1>10. ASSUME NEW c \in Checks, NEW stats \in Stats, Evaluate(c, stats) PROVE AlertInv'
  <2> DEFINE rule == check[c].rule
  <2> DEFINE e == [rule |-> rule.id, start |-> check[c].start]
  <2>1. /\ check[c].pc = "fetch" /\ rule \in Rules /\ rule.id \in RuleIds
        /\ check[c].i <= Len(Walked(c)) /\ Walked(c)[check[c].i].id = rule.id
        /\ check[c].start \in 0..now /\ rule.channels \in SUBSET Channels
        /\ UNCHANGED <<now, rules, overlapped, edits>>
    BY <1>4, <1>10 DEF Evaluate, Stands, Rules, CheckRecords
  <2>2. CASE ~Triggered(rule, stats)
    <3>1. /\ Advance(c, rule.id) /\ UNCHANGED <<lastTriggered, history>> /\ notified' = notified
      BY <1>10, <2>2 DEF Evaluate
    <3> QED
      BY <1>2, <1>3, <1>8, <2>1, <3>1
  <2>3. CASE Triggered(rule, stats)
    <3>1. /\ history' = SubSeq(<<e>> \o history, 1, Min({HistoryCap, Len(history) + 1}))
          /\ lastTriggered' = [lastTriggered EXCEPT ![rule.id] = check[c].start]
          /\ IF rule.isArray
             THEN /\ check' = [check EXCEPT ![c].pc = "dispatch", ![c].todo = rule.channels]
                  /\ UNCHANGED notified
             ELSE /\ Advance(c, rule.id)
                  /\ notified' = Notification(rule.channels, {}, FALSE)
      BY <1>10, <2>3 DEF Evaluate
    <3>2. /\ e \in HistoryRecords /\ e.rule = rule.id /\ e.start = check[c].start
      BY <2>1 DEF HistoryRecords
    <3>3. /\ lastTriggered' \in [RuleIds -> -Debounce..MaxTime]
          /\ lastTriggered'[rule.id] = check[c].start
          /\ \A r \in RuleIds \ {rule.id} : lastTriggered'[r] = lastTriggered[r]
      <4>1. check[c].start \in -Debounce..MaxTime
        BY <1>1, <2>1
      <4> QED
        BY <1>1, <2>1, <3>1, <4>1
    <3> DEFINE m == Min({HistoryCap, Len(history) + 1})
    <3> HIDE DEF e, rule, m
    <3>4. /\ history' \in Seq(HistoryRecords) /\ Len(history') = m /\ m \in Nat /\ m <= HistoryCap
          /\ DOMAIN history' = 1..m /\ history'[1] = e
          /\ \A k \in 2..m : k - 1 \in DOMAIN history /\ history'[k] = history[k - 1]
      <4>1. history \in Seq(HistoryRecords) /\ Len(history) \in Nat
        BY <1>1
      <4>2. m \in 1..Len(history) + 1 /\ m <= HistoryCap
        BY <4>1, AlertsAssumption, CappedLength DEF m
      <4>3. history' = SubSeq(<<e>> \o history, 1, m) /\ e \in HistoryRecords
        BY <3>1, <3>2 DEF m
      <4>4. /\ history' \in Seq(HistoryRecords) /\ Len(history') = m
            /\ DOMAIN history' = 1..m /\ history'[1] = e
            /\ \A k \in 2..m : k - 1 \in DOMAIN history /\ history'[k] = history[k - 1]
        BY <4>1, <4>2, <4>3, Prepended
      <4> QED
        BY <4>1, <4>2, <4>4
    <3>5. /\ check' \in [Checks -> CheckRecords]
          /\ \A d \in Checks \ {c} : check'[d] = check[d]
          /\ check'[c].pc \in {"next", "dispatch"} /\ check'[c].list = check[c].list
          /\ check'[c].shared = check[c].shared /\ Stands(check'[c], Walked(c))
          /\ notified' \in [status : {"failed", "success"}, missed : SUBSET Channels]
          /\ rule.isArray => /\ notified' = notified /\ check'[c].rule = rule
                             /\ check'[c].pc = "dispatch" /\ check'[c].todo = rule.channels
      <4>1. CASE rule.isArray
        <5> DEFINE q == [check[c] EXCEPT !.pc = "dispatch", !.todo = rule.channels]
        <5>1. check' = [check EXCEPT ![c] = q] /\ notified' = notified
          BY <1>1, <3>1, <4>1
        <5>2. /\ q \in CheckRecords /\ q.pc = "dispatch" /\ q.todo = rule.channels
              /\ q.list = check[c].list /\ q.shared = check[c].shared /\ q.rule = rule
              /\ q.i = check[c].i /\ q.seen = check[c].seen
          BY <1>4, <2>1 DEF CheckRecords, rule
        <5> HIDE DEF q
        <5>3. /\ check' \in [Checks -> CheckRecords] /\ check'[c] = q
              /\ \A d \in Checks \ {c} : check'[d] = check[d]
          BY <1>1, <5>1, <5>2, CheckSet
        <5>4. Stands(q, Walked(c))
          BY <1>4, <2>1, <5>2 DEF Stands
        <5> QED
          BY <1>2, <5>1, <5>2, <5>3, <5>4
      <4>2. CASE ~rule.isArray
        <5>1. /\ check' \in [Checks -> CheckRecords]
              /\ \A d \in Checks \ {c} : check'[d] = check[d]
              /\ check'[c].pc = "next"
              /\ check'[c].shared = check[c].shared /\ check'[c].list = check[c].list
              /\ Stands(check'[c], Walked(c))
          BY <2>1, <3>1, <4>2, Advances
        <5>2. notified' \in [status : {"failed", "success"}, missed : SUBSET Channels]
          BY <2>1, <3>1, <4>2 DEF Notification
        <5> QED
          BY <4>2, <5>1, <5>2
      <4> QED
        BY <4>1, <4>2
    <3>6. AlertTypeOK'
      BY <1>1, <2>1, <3>3, <3>4, <3>5 DEF AlertTypeOK, CheckRecords, HistoryRecords
    <3>7. WalkInv'
      BY <1>1, <2>1, <3>5, WalkKept
    <3>8. AloneInv'
      <4> SUFFICES ASSUME ~overlapped PROVE AloneInv'
        BY <2>1 DEF AloneInv
      <4>1. \A d \in Checks : d # c => check[d].pc = "idle"
        BY <1>1, <2>1 DEF AloneInv
      <4>2. \A d \in Checks : check'[d].pc # "idle" => d = c
        BY <3>5, <4>1
      <4>3. \A d \in Checks : check'[d].pc # "fetch"
        BY <3>5, <4>1
      <4>4. /\ lastTriggered[rule.id] \in Int /\ check[c].start \in Int
            /\ check[c].start - lastTriggered[rule.id] >= Debounce
            /\ check[c].start >= lastTriggered[rule.id]
        <5>1. lastTriggered[rule.id] \in -Debounce..MaxTime
          BY <1>1, <2>1
        <5>2. check[c].start - lastTriggered[rule.id] >= Debounce
          BY <1>1, <2>1 DEF AloneInv, rule
        <5> QED
          BY <1>1, <2>1, <5>1, <5>2
      <4>5. ASSUME NEW j \in DOMAIN history
            PROVE  /\ history[j].rule \in RuleIds /\ history[j].start \in Int
                   /\ lastTriggered[history[j].rule] \in Int
                   /\ history[j].start <= lastTriggered[history[j].rule]
        <5>1. history[j] \in HistoryRecords
          BY <1>1
        <5>2. history[j].rule \in RuleIds /\ history[j].start \in 0..now
          BY <5>1 DEF HistoryRecords
        <5>3. lastTriggered[history[j].rule] \in -Debounce..MaxTime
          BY <1>1, <5>2
        <5>4. history[j].start <= lastTriggered[history[j].rule]
          BY <1>1 DEF AloneInv
        <5> QED
          BY <1>1, <5>2, <5>3, <5>4
      <4>6. ASSUME NEW j \in DOMAIN history'
            PROVE  history'[j].start <= lastTriggered'[history'[j].rule]
        <5>1. CASE j = 1
          BY <2>1, <3>2, <3>3, <3>4, <4>4, <5>1
        <5>2. CASE j # 1
          <6>1. j \in 2..m /\ j - 1 \in DOMAIN history /\ history'[j] = history[j - 1]
            BY <3>4, <5>2
          <6>2. CASE history[j - 1].rule = rule.id
            BY <3>3, <4>4, <4>5, <6>1, <6>2
          <6>3. CASE history[j - 1].rule # rule.id
            BY <3>3, <4>5, <6>1, <6>3
          <6> QED
            BY <6>2, <6>3
        <5> QED
          BY <5>1, <5>2
      <4>7. ASSUME NEW i \in DOMAIN history', NEW j \in DOMAIN history', i < j,
                   history'[i].rule = history'[j].rule
            PROVE  history'[i].start - history'[j].start >= Debounce
        <5>1. /\ i \in 1..m /\ j \in 2..m /\ j - 1 \in DOMAIN history
              /\ history'[j] = history[j - 1]
          BY <3>4, <4>7
        <5>2. CASE i = 1
          <6>1. history[j - 1].rule = rule.id /\ history'[i].start = check[c].start
            BY <3>2, <3>4, <4>7, <5>1, <5>2
          <6>2. history[j - 1].start <= lastTriggered[rule.id] /\ history[j - 1].start \in Int
            BY <4>5, <5>1, <6>1
          <6> QED
            BY <1>1, <4>4, <5>1, <6>1, <6>2
        <5>3. CASE i # 1
          <6>1. i \in 2..m /\ i - 1 \in DOMAIN history /\ history'[i] = history[i - 1] /\ i - 1 < j - 1
            BY <3>4, <4>7, <5>1, <5>3
          <6> QED
            BY <1>1, <4>7, <5>1, <6>1 DEF AloneInv
        <5> QED
          BY <5>2, <5>3
      <4> QED
        BY <4>2, <4>3, <4>6, <4>7 DEF AloneInv
    <3>9. Arrays => SentInv'
      <4> SUFFICES ASSUME Arrays PROVE SentInv'
        OBVIOUS
      <4>1. SentInv /\ rule.isArray
        BY <1>1, <2>1 DEF SentInv, rule
      <4>2. SuccessMeansSent'
        BY <1>3, <3>5, <4>1
      <4> QED
        BY <2>1, <3>5, <4>1, <4>2, SentKept
    <3> QED
      BY <3>6, <3>7, <3>8, <3>9 DEF AlertInv
  <2> QED
    BY <2>2, <2>3
<1>11. ASSUME NEW c \in Checks, NEW channel \in Channels, NEW ok \in BOOLEAN, SendChannel(c, channel, ok)
       PROVE  AlertInv'
  <2> DEFINE q == [check[c] EXCEPT !.todo = @ \ {channel}, !.sent = @ \cup Delivered(channel, ok),
                                   !.failed = @ \/ ~ok]
  <2>1. /\ check[c].pc = "dispatch" /\ check' = [check EXCEPT ![c] = q]
        /\ UNCHANGED <<now, rules, lastTriggered, history, notified, overlapped, edits>>
    BY <1>1, <1>11 DEF SendChannel
  <2>2. Delivered(channel, ok) \subseteq Channels
    BY DEF Delivered
  <2>3. (check[c].failed \/ ~ok) \in BOOLEAN
    OBVIOUS
  <2>4. /\ q \in CheckRecords /\ q.pc = "dispatch"
        /\ q.list = check[c].list /\ q.shared = check[c].shared /\ q.rule = check[c].rule
        /\ q.i = check[c].i /\ q.seen = check[c].seen
    BY <1>4, <2>1, <2>2, <2>3 DEF CheckRecords
  <2>5. /\ q.todo = check[c].todo \ {channel} /\ q.sent = check[c].sent \cup Delivered(channel, ok)
        /\ q.failed = (check[c].failed \/ ~ok)
    BY <1>4 DEF CheckRecords
  <2> HIDE DEF q
  <2>6. /\ check' \in [Checks -> CheckRecords] /\ check'[c] = q
        /\ \A d \in Checks \ {c} : check'[d] = check[d]
    BY <1>1, <2>1, <2>4, CheckSet
  <2>7. AlertTypeOK'
    BY <1>1, <1>2, <2>1, <2>6, OnlyChecks
  <2>8. WalkInv'
    <3>1. Stands(q, Walked(c))
      BY <1>4, <2>1, <2>4 DEF Stands
    <3> QED
      BY <1>1, <2>1, <2>4, <2>6, <3>1, WalkKept
  <2>9. AloneInv'
    BY <1>1, <2>1, <2>4, <2>6, AloneKept
  <2>10. Arrays => SentInv'
    <3> SUFFICES ASSUME Arrays PROVE SentInv'
      OBVIOUS
    <3>1. SentInv /\ SuccessMeansSent' /\ check[c].rule.isArray
      BY <1>1, <1>3, <2>1 DEF SentInv
    <3>2. ASSUME ~q.failed PROVE q.rule.channels \subseteq q.todo \cup q.sent \cup Excused
      <4>1. ~check[c].failed /\ ok
        BY <2>5, <3>2
      <4>2. check[c].rule.channels \subseteq check[c].todo \cup check[c].sent \cup Excused
        BY <2>1, <3>1, <4>1 DEF SentInv
      <4>3. channel \in Delivered(channel, ok) \cup Excused
        BY <4>1, AlertsAssumption DEF Delivered, Excused
      <4> QED
        BY <2>4, <2>5, <4>2, <4>3
    <3> QED
      BY <2>1, <2>4, <2>6, <3>1, <3>2, SentKept
  <2> QED
    BY <2>7, <2>8, <2>9, <2>10 DEF AlertInv
<1>12. ASSUME NEW c \in Checks, EndDispatch(c) PROVE AlertInv'
  <2>1. /\ check[c].pc = "dispatch" /\ check[c].todo = {} /\ Advance(c, check[c].rule.id)
        /\ notified' = Notification(check[c].rule.channels, check[c].sent, check[c].failed)
        /\ UNCHANGED <<now, rules, lastTriggered, history, overlapped, edits>>
    BY <1>12 DEF EndDispatch
  <2>2. check[c].rule.channels \in SUBSET Channels
    BY <1>4, <2>1 DEF Stands, Rules
  <2>3. notified' \in [status : {"failed", "success"}, missed : SUBSET Channels]
    BY <2>1, <2>2 DEF Notification
  <2>4. ASSUME Arrays PROVE SuccessMeansSent'
    <3>1. ~check[c].failed => check[c].rule.channels \subseteq check[c].sent \cup Excused
      BY <1>1, <2>1, <2>4 DEF SentInv
    <3> QED
      BY <2>1, <3>1 DEF SuccessMeansSent, Notification, Excused
  <2> QED
    BY <1>8, <2>1, <2>3, <2>4
<1>13. ASSUME NEW bad \in SUBSET Channels, TestNotification(bad) PROVE AlertInv'
  <2> DEFINE sent == UNION {Delivered(ch, TRUE) : ch \in Channels \ bad}
  <2>1. /\ notified' = Notification(Channels, sent, bad # {})
        /\ UNCHANGED <<now, rules, lastTriggered, history, check, overlapped, edits>>
    BY <1>13 DEF TestNotification
  <2>2. bad = {} => Channels \ sent \subseteq Excused
    <3>1. ASSUME NEW ch \in Channels, bad = {} PROVE ch \in sent \cup Excused
      BY <3>1, AlertsAssumption DEF Delivered, Excused
    <3> QED
      BY <3>1
  <2> HIDE DEF sent
  <2>3. AlertTypeOK'
    <3>1. notified' \in [status : {"failed", "success"}, missed : SUBSET Channels]
      BY <2>1 DEF Notification
    <3> QED
      BY <1>1, <2>1, <3>1, OnlyChecks
  <2>4. WalkInv' /\ AloneInv'
    BY <1>1, <2>1 DEF WalkInv, AloneInv, Walked
  <2>5. SuccessMeansSent'
    BY <2>1, <2>2 DEF SuccessMeansSent, Notification, Excused
  <2>6. Arrays => SentInv'
    BY <1>1, <2>1, <2>5 DEF SentInv
  <2> QED
    BY <2>3, <2>4, <2>6 DEF AlertInv
<1>14. ASSUME NEW rule \in NewRules, CreateRule(rule) PROVE AlertInv'
  <2> DEFINE r == WithId(Len(Rule0) + edits', rule)
  <2>1. /\ Edit /\ rules' = Append(rules, r)
        /\ UNCHANGED <<now, lastTriggered, history, check, notified, overlapped>>
    BY <1>14 DEF CreateRule
  <2>2. Len(Rule0) + edits' \in RuleIds
    <3>1. edits \in 0..MaxEdits /\ Len(Rule0) \in Nat
      BY <1>1, AlertsAssumption DEF AlertTypeOK
    <3> QED
      BY <2>1, <3>1, AlertsAssumption DEF Edit, RuleIds
  <2>3. r \in Rules /\ r.isArray = rule.isArray
    BY <2>2, AlertsAssumption DEF WithId, Rules
  <2> HIDE DEF r
  <2>4. /\ rules' \in Seq(Rules) /\ Len(rules') = Len(rules) + 1 /\ Len(rules) \in Nat
        /\ DOMAIN rules = 1..Len(rules) /\ DOMAIN rules' = 1..Len(rules) + 1
        /\ \A k \in 1..Len(rules) : rules'[k] = rules[k]
        /\ rules'[Len(rules) + 1] = r
    BY <1>1, <2>1, <2>3, Appended
  <2>5. ASSUME NEW c \in Checks
        PROVE  /\ Len(Walked(c)') >= Len(Walked(c))
               /\ \A k \in 1..Len(Walked(c)) : Walked(c)'[k].id = Walked(c)[k].id
    <3>1. CASE check[c].shared
      BY <2>1, <2>4, <3>1 DEF Walked
    <3>2. CASE ~check[c].shared
      <4>1. Walked(c)' = Walked(c)
        BY <2>1, <3>2 DEF Walked
      <4>2. Len(Walked(c)) \in Nat
        BY <1>1
      <4> QED
        BY <4>1, <4>2
    <3> QED
      BY <3>1, <3>2
  <2>6. Arrays /\ AllArrays(rules) => AllArrays(rules')
    <3> SUFFICES ASSUME Arrays, AllArrays(rules), NEW k \in DOMAIN rules' PROVE rules'[k].isArray
      BY DEF AllArrays
    <3>1. CASE k = Len(rules) + 1
      BY <2>3, <2>4, <3>1 DEF Arrays
    <3>2. CASE k # Len(rules) + 1
      BY <2>4, <3>2 DEF AllArrays
    <3> QED
      BY <3>1, <3>2
  <2> QED
    BY <1>1, <2>1, <2>4, <2>5, <2>6, RulesChange
<1>15. ASSUME NEW id \in RuleIds, NEW enabled \in BOOLEAN, UpdateRule(id, enabled) PROVE AlertInv'
  <2>1. PICK i \in RuleAt(id) : rules' = [rules EXCEPT ![i].enabled = enabled]
    BY <1>15 DEF UpdateRule
  <2>2. Edit /\ UNCHANGED <<now, lastTriggered, history, check, notified, overlapped>>
    BY <1>15 DEF UpdateRule
  <2>3. i \in DOMAIN rules /\ Len(rules) \in Nat /\ DOMAIN rules = 1..Len(rules) /\ rules[i] \in Rules
    BY <1>1 DEF RuleAt
  <2> DEFINE r == [rules[i] EXCEPT !.enabled = enabled]
  <2>4. r \in Rules /\ r.id = rules[i].id /\ r.isArray = rules[i].isArray
    BY <2>3 DEF Rules
  <2>5. rules' = [rules EXCEPT ![i] = r]
    BY <2>1
  <2> HIDE DEF r
  <2>6. /\ rules' \in Seq(Rules) /\ Len(rules') = Len(rules) /\ DOMAIN rules' = DOMAIN rules
        /\ \A k \in DOMAIN rules : rules'[k] = IF k = i THEN r ELSE rules[k]
    BY <1>1, <2>3, <2>4, <2>5
  <2>7. ASSUME NEW c \in Checks
        PROVE  /\ Len(Walked(c)') >= Len(Walked(c))
               /\ \A k \in 1..Len(Walked(c)) : Walked(c)'[k].id = Walked(c)[k].id
    <3>1. CASE check[c].shared
      BY <2>2, <2>3, <2>4, <2>6, <3>1 DEF Walked
    <3>2. CASE ~check[c].shared
      <4>1. Walked(c)' = Walked(c)
        BY <2>2, <3>2 DEF Walked
      <4>2. Len(Walked(c)) \in Nat
        BY <1>1
      <4> QED
        BY <4>1, <4>2
    <3> QED
      BY <3>1, <3>2
  <2>8. Arrays /\ AllArrays(rules) => AllArrays(rules')
    BY <2>3, <2>4, <2>6 DEF AllArrays
  <2> QED
    BY <1>1, <2>2, <2>6, <2>7, <2>8, RulesChange
<1>16. ASSUME NEW id \in RuleIds, DeleteRule(id) PROVE AlertInv'
  <2>1. /\ Edit /\ rules' = Without(id)
        /\ check' = [d \in Checks |-> IF check[d].pc = "idle" THEN check[d]
                        ELSE [check[d] EXCEPT !.shared = FALSE, !.list = Walked(d)]]
        /\ UNCHANGED <<now, lastTriggered, history, notified, overlapped>>
    BY <1>16 DEF DeleteRule
  <2>2. /\ rules' \in Seq(Rules)
        /\ \A k \in DOMAIN rules' : \E j \in DOMAIN rules : rules'[k] = rules[j]
    <3>1. CASE RuleAt(id) = {}
      BY <1>1, <2>1, <3>1 DEF Without
    <3>2. CASE RuleAt(id) # {}
      <4>1. PICK i : i = CHOOSE j \in RuleAt(id) : TRUE
        OBVIOUS
      <4>2. i \in DOMAIN rules /\ rules' = RemoveAt(rules, i)
        BY <2>1, <3>2, <4>1 DEF Without, RuleAt
      <4> QED
        BY <1>1, <4>2, Removed
    <3> QED
      BY <3>1, <3>2
  <2>3. ASSUME NEW c \in Checks
        PROVE  /\ check'[c] \in CheckRecords
               /\ check'[c].pc = check[c].pc /\ check'[c].start = check[c].start
               /\ check'[c].rule = check[c].rule /\ check'[c].i = check[c].i
               /\ check'[c].seen = check[c].seen /\ check'[c].todo = check[c].todo
               /\ check'[c].sent = check[c].sent /\ check'[c].failed = check[c].failed
               /\ check'[c].list \in {check[c].list, rules}
               /\ \/ check[c].pc = "idle" /\ check'[c] = check[c]
                  \/ ~check'[c].shared /\ check'[c].list = Walked(c)
    <3>1. CASE check[c].pc = "idle"
      <4>1. check'[c] = check[c]
        BY <2>1, <3>1
      <4> QED
        BY <1>4, <3>1, <4>1
    <3>2. CASE check[c].pc # "idle"
      <4> DEFINE q == [check[c] EXCEPT !.shared = FALSE, !.list = Walked(c)]
      <4>1. check'[c] = q
        BY <2>1, <3>2
      <4>2. Walked(c) \in Seq(Rules) /\ Walked(c) \in {check[c].list, rules}
        BY <1>1 DEF Walked
      <4>3. /\ q \in CheckRecords
            /\ q.pc = check[c].pc /\ q.start = check[c].start
            /\ q.rule = check[c].rule /\ q.i = check[c].i
            /\ q.seen = check[c].seen /\ q.todo = check[c].todo
            /\ q.sent = check[c].sent /\ q.failed = check[c].failed
            /\ q.list = Walked(c) /\ ~q.shared
        BY <1>4, <4>2 DEF CheckRecords
      <4> HIDE DEF q
      <4> QED
        BY <4>1, <4>2, <4>3
    <3> QED
      BY <3>1, <3>2
  <2>4. check' \in [Checks -> CheckRecords]
    <3>1. check' = [d \in Checks |-> check'[d]]
      BY <2>1
    <3> QED
      BY <2>3, <3>1
  <2>5. ASSUME NEW c \in Checks
        PROVE  \/ check[c].pc = "idle" /\ Stands(check'[c], Walked(c)')
               \/ /\ Len(Walked(c)') >= Len(Walked(c))
                  /\ \A k \in 1..Len(Walked(c)) : Walked(c)'[k].id = Walked(c)[k].id
    <3>1. CASE check[c].pc = "idle" /\ check'[c] = check[c]
      <4>1. check[c].i = 1 /\ 1..check[c].i - 1 = {}
        BY <1>4, <3>1 DEF Stands
      <4> QED
        BY <3>1, <4>1 DEF Stands
    <3>2. CASE ~check'[c].shared /\ check'[c].list = Walked(c)
      <4>1. Walked(c)' = Walked(c) /\ Len(Walked(c)) \in Nat
        BY <1>1, <3>2 DEF Walked
      <4> QED
        BY <4>1
    <3> QED
      BY <2>3, <3>1, <3>2
  <2>6. AllArrays(rules) => AllArrays(rules')
    BY <2>2 DEF AllArrays
  <2> QED
    BY <1>1, <2>1, <2>2, <2>3, <2>4, <2>5, <2>6, RulesChange
<1>17. CASE UNCHANGED alertVars
  BY <1>1, <1>17 DEF alertVars, AlertInv, AlertTypeOK, WalkInv, AloneInv, SentInv, SuccessMeansSent, Walked
<1> QED
  BY <1>5, <1>6, <1>7, <1>9, <1>10, <1>11, <1>12, <1>13, <1>14, <1>15, <1>16, <1>17 DEF AlertNext

\* The rules, the timestamps and the checks in flight keep their types while rules
\* are added, replaced and removed under a running checkAlerts.
THEOREM AlertsTyped == AlertSpec => []AlertTypeOK
<1>1. AlertSpec => []AlertInv
  BY AlertInitially, AlertSteps, PTL DEF AlertSpec
<1> QED
  BY <1>1, PTL DEF AlertInv

\* checkAlerts, which walks the live array or a copy, passes over no rule that was
\* there when it began and still is.
THEOREM NoRuleIsSkipped == AlertSpec => []NoRuleSkipped
<1>1. AlertInv => NoRuleSkipped
  BY DEF AlertInv, WalkInv, Stands, NoRuleSkipped
<1>2. AlertSpec => []AlertInv
  BY AlertInitially, AlertSteps, PTL DEF AlertSpec
<1> QED
  BY <1>1, <1>2, PTL

\* As long as no two checks overlap, a rule does not fire twice within its debounce.
THEOREM AlertsDebounced == AlertSpec => []DebounceHolds
<1>1. AlertInv => DebounceHolds
  BY DEF AlertInv, AloneInv, DebounceHolds
<1>2. AlertSpec => []AlertInv
  BY AlertInitially, AlertSteps, PTL DEF AlertSpec
<1> QED
  BY <1>1, <1>2, PTL

\* While every rule's channels is an array, as its type says (the API does not
\* check it), an entry of the history that says success was sent to all of them.
THEOREM SuccessWasSent == ASSUME Arrays PROVE AlertSpec => []SuccessMeansSent
<1>1. AlertInv => SuccessMeansSent
  BY DEF AlertInv, SentInv
<1>2. AlertSpec => []AlertInv
  BY AlertInitially, AlertSteps, PTL DEF AlertSpec
<1> QED
  BY <1>1, <1>2, PTL

-----------------------------------------------------------------------------
(* Realtime: what the emitter counts, and the rooms a connection is in.     *)

\* When the last update was emitted; the start, if none was.
LastUpdate == due - Window

\* A sample the emitter still has and has not counted came no earlier than the
\* last update, one it has counted once no later, one counted twice before it.
MetricsInv ==
    /\ 0 <= LastUpdate /\ LastUpdate <= clock
    /\ \A r \in DOMAIN received :
        /\ received[r] <= clock
        /\ counted[r] = 0 => r \in recentRequests \/ r \in late
        /\ counted[r] <= 2
        /\ counted[r] # 0 => LastUpdate \in emitted
        /\ counted[r] = 2 => received[r] \in emitted
        /\ r \in recentRequests =>
              CASE counted[r] = 0 -> received[r] >= LastUpdate
                [] counted[r] = 1 -> received[r] <= LastUpdate
                [] OTHER          -> received[r] < LastUpdate
    /\ \A r \in Requests \ DOMAIN received : counted[r] = 0

\* The last of the messages about a room, or else what the server has, tells
\* whether the room's hook is current.
IsLast(list, k) == \A j \in DOMAIN list : j > k => list[j][2] # list[k][2]
Leads(list, base, hooks) ==
    /\ \A k \in DOMAIN list : IsLast(list, k) => (list[k][1] = "subscribe" <=> list[k][2] \in hooks)
    /\ \A room \in Rooms : (\A k \in DOMAIN list : list[k][2] # room) => (room \in base <=> room \in hooks)

FeedInv ==
    /\ IF up THEN buffer = <<>> /\ Leads(wire, rooms, current)
             ELSE wire = <<>> /\ rooms = {} /\ Leads(buffer, {}, current)
    /\ \A i \in DOMAIN live : live[i] <= Len(received)
    /\ \A i, j \in DOMAIN live : i < j => live[i] > live[j]
    /\ "events" \in mounted /\ ~isPaused => shown = live

RealtimeInv == RealtimeTypeOK /\ MetricsInv /\ FeedInv

LEMMA MessageParts ==
    ASSUME NEW m \in Messages
    PROVE  m[1] \in {"subscribe", "unsubscribe"} /\ m[2] \in Rooms
  BY DEF Messages

LEMMA LeadsNothing ==
    ASSUME NEW base, NEW hooks
    PROVE  Leads(<<>>, base, hooks) <=> \A room \in Rooms : room \in base <=> room \in hooks
<1>1. DOMAIN <<>> = {}
  OBVIOUS
<1> QED
  BY <1>1 DEF Leads

\* A message about a room is the last word on it.
LEMMA LeadsOn ==
    ASSUME NEW list \in Seq(Messages), NEW base, NEW hooks, NEW m \in Messages, NEW later,
           Leads(list, base, hooks),
           \A room \in Rooms \ {m[2]} : room \in later <=> room \in hooks,
           m[1] = "subscribe" <=> m[2] \in later
    PROVE  Leads(Append(list, m), base, later)
<1> DEFINE longer == Append(list, m)
<1>1. /\ DOMAIN list = 1..Len(list) /\ DOMAIN longer = 1..Len(list) + 1 /\ Len(list) \in Nat
      /\ \A k \in DOMAIN list : longer[k] = list[k] /\ list[k] \in Messages
      /\ longer[Len(list) + 1] = m
  BY Appended
<1> HIDE DEF longer
<1>2. ASSUME NEW k \in DOMAIN longer, IsLast(longer, k)
      PROVE  longer[k][1] = "subscribe" <=> longer[k][2] \in later
  <2>1. CASE k = Len(list) + 1
    BY <1>1, <2>1
  <2>2. CASE k # Len(list) + 1
    <3>1. k \in DOMAIN list /\ longer[k] = list[k] /\ list[k][2] \in Rooms
      BY <1>1, <2>2, MessageParts
    <3>2. m[2] # list[k][2]
      BY <1>1, <1>2, <3>1 DEF IsLast
    <3>3. IsLast(list, k)
      BY <1>1, <1>2, <3>1 DEF IsLast
    <3>4. list[k][1] = "subscribe" <=> list[k][2] \in hooks
      BY <3>1, <3>3 DEF Leads
    <3> QED
      BY <3>1, <3>2, <3>4
  <2> QED
    BY <2>1, <2>2
<1>3. ASSUME NEW room \in Rooms, \A k \in DOMAIN longer : longer[k][2] # room
      PROVE  room \in base <=> room \in later
  <2>1. room # m[2]
    <3>1. Len(list) + 1 \in DOMAIN longer
      BY <1>1
    <3> QED
      BY <1>1, <1>3, <3>1
  <2>2. \A k \in DOMAIN list : list[k][2] # room
    <3>1. DOMAIN list \subseteq DOMAIN longer
      BY <1>1
    <3> QED
      BY <1>1, <1>3, <3>1
  <2> QED
    BY <2>1, <2>2 DEF Leads
<1> QED
  BY <1>2, <1>3 DEF Leads, longer

\* The server does what the first message says.
LEMMA LeadsHandled ==
    ASSUME NEW list \in Seq(Messages), list # <<>>, NEW base, NEW hooks, NEW after,
           Leads(list, base, hooks),
           after = IF list[1][1] = "subscribe" THEN base \cup {list[1][2]} ELSE base \ {list[1][2]}
    PROVE  Leads(Tail(list), after, hooks)
<1> DEFINE rest == Tail(list)
<1>1. /\ Len(list) \in Nat /\ 1 <= Len(list) /\ DOMAIN list = 1..Len(list)
      /\ DOMAIN rest = 1..Len(list) - 1
      /\ \A k \in DOMAIN rest : rest[k] = list[k + 1]
  OBVIOUS
<1> HIDE DEF rest
<1>2. \A k \in DOMAIN rest : k + 1 \in DOMAIN list
  BY <1>1
<1>3. \A k \in DOMAIN list : k # 1 => k - 1 \in DOMAIN rest /\ list[k] = rest[k - 1]
  BY <1>1
<1>4. ASSUME NEW k \in DOMAIN rest, IsLast(rest, k)
      PROVE  rest[k][1] = "subscribe" <=> rest[k][2] \in hooks
  <2>1. IsLast(list, k + 1)
    <3> SUFFICES ASSUME NEW j \in DOMAIN list, j > k + 1 PROVE list[j][2] # list[k + 1][2]
      BY DEF IsLast
    <3>1. j # 1 /\ j - 1 > k
      BY <1>1
    <3>2. j - 1 \in DOMAIN rest /\ list[j] = rest[j - 1]
      BY <1>3, <3>1
    <3> QED
      BY <1>1, <1>4, <3>1, <3>2 DEF IsLast
  <2>2. list[k + 1][1] = "subscribe" <=> list[k + 1][2] \in hooks
    BY <1>2, <2>1 DEF Leads
  <2> QED
    BY <1>1, <2>2
<1>5. ASSUME NEW room \in Rooms, \A k \in DOMAIN rest : rest[k][2] # room
      PROVE  room \in after <=> room \in hooks
  <2>1. 1 \in DOMAIN list
    BY <1>1
  <2>2. CASE room = list[1][2]
    <3>1. IsLast(list, 1)
      BY <1>1, <1>3, <1>5, <2>2 DEF IsLast
    <3>2. list[1][1] = "subscribe" <=> room \in hooks
      BY <2>1, <2>2, <3>1 DEF Leads
    <3> QED
      BY <2>2, <3>2
  <2>3. CASE room # list[1][2]
    <3>1. \A k \in DOMAIN list : list[k][2] # room
      BY <1>1, <1>3, <1>5, <2>3
    <3>2. room \in base <=> room \in hooks
      BY <3>1 DEF Leads
    <3> QED
      BY <2>3, <3>2
  <2> QED
    BY <2>2, <2>3
<1> QED
  BY <1>4, <1>5 DEF Leads, rest

LEMMA RealtimeTypes ==
    ASSUME RealtimeTypeOK
    PROVE  /\ clock \in 0..MaxClock /\ due \in Nat /\ Window \in Nat \ {0} /\ MaxClock \in Nat
           /\ received \in Seq(0..MaxClock) /\ Len(received) \in Nat /\ Len(received) <= MaxRequests
           /\ DOMAIN received = 1..Len(received) /\ DOMAIN received \subseteq Requests
           /\ recentRequests \subseteq DOMAIN received
           /\ counted \in [Requests -> Nat] /\ emitted \subseteq 0..MaxClock
           /\ \A r \in DOMAIN received : received[r] \in Nat
           /\ wire \in Seq(Messages) /\ buffer \in Seq(Messages)
           /\ live \in Seq(Requests)
           /\ isPaused \in BOOLEAN
<1>1. /\ received \in Seq(0..MaxClock) /\ MaxClock \in Nat /\ MaxRequests \in Nat /\ Window \in Nat \ {0}
      /\ Len(received) <= MaxRequests
  BY RealtimeAssumption DEF RealtimeTypeOK
<1>2. Len(received) \in Nat /\ DOMAIN received = 1..Len(received)
  BY <1>1
<1>3. DOMAIN received \subseteq Requests
  BY <1>1, <1>2 DEF Requests
<1>4. \A r \in DOMAIN received : received[r] \in Nat
  BY <1>1
<1> QED
  BY <1>1, <1>2, <1>3, <1>4 DEF RealtimeTypeOK

LEMMA LiveAreNumbers == ASSUME RealtimeTypeOK PROVE \A i \in DOMAIN live : live[i] \in Nat
<1>1. live \in Seq(Requests)
  BY DEF RealtimeTypeOK
<1>2. \A i \in DOMAIN live : live[i] \in Requests
  BY <1>1
<1>3. Requests \subseteq Nat
  BY RealtimeAssumption DEF Requests
<1> QED
  BY <1>2, <1>3

LEMMA RealtimeInitially == RealtimeInit => RealtimeInv
<1> SUFFICES ASSUME RealtimeInit PROVE RealtimeInv
  OBVIOUS
<1> USE DEF RealtimeInit
<1>1. RealtimeTypeOK
  <2>1. Window \in Nat /\ 0 \in 0..MaxClock /\ 0 \in 0..MaxCalls /\ 0 <= MaxRequests /\ 0 <= MaxEvents
    BY RealtimeAssumption
  <2>2. counted \in [Requests -> Nat]
    OBVIOUS
  <2>3. /\ received \in Seq(0..MaxClock) /\ Len(received) = 0 /\ Len(live) = 0
        /\ wire \in Seq(Messages) /\ buffer \in Seq(Messages)
        /\ live \in Seq(Requests) /\ shown \in Seq(Requests)
    OBVIOUS
  <2> QED
    BY <2>1, <2>2, <2>3 DEF RealtimeTypeOK
<1>2. MetricsInv
  <2>1. LastUpdate = 0
    BY RealtimeAssumption DEF LastUpdate
  <2>2. DOMAIN received = {}
    OBVIOUS
  <2> QED
    BY <2>1, <2>2 DEF MetricsInv
<1>3. FeedInv
  <2>1. DOMAIN live = {}
    OBVIOUS
  <2> QED
    BY <2>1, LeadsNothing DEF FeedInv
<1> QED
  BY <1>1, <1>2, <1>3 DEF RealtimeInv

\* The lists of the hook and the page, when a request is listed or not.
LEMMA ReceiveKeeps == ASSUME RealtimeInv, Receive PROVE RealtimeInv'
<1>1. /\ RealtimeTypeOK /\ MetricsInv /\ FeedInv
  BY DEF RealtimeInv
<1> DEFINE n == Len(received) + 1
<1>2. /\ Len(received) < MaxRequests /\ received' = Append(received, clock)
      /\ recentRequests' = recentRequests \cup {Len(received')}
      /\ UNCHANGED <<clock, due, counted, emitted, late,
                     up, rooms, wire, buffer, mounted, current, isPaused, calls>>
  BY DEF Receive
<1>3. /\ received' \in Seq(0..MaxClock) /\ Len(received') = n /\ n \in Nat
      /\ DOMAIN received = 1..Len(received) /\ DOMAIN received' = 1..n
      /\ \A r \in DOMAIN received : received'[r] = received[r]
      /\ received'[n] = clock
  BY <1>1, <1>2, Appended, RealtimeTypes
<1>4. n \in Requests /\ n <= MaxRequests
  BY <1>1, <1>2, RealtimeAssumption, RealtimeTypes DEF Requests
<1>5. MetricsInv'
  <2>1. LastUpdate' = LastUpdate /\ 0 <= LastUpdate /\ LastUpdate <= clock /\ LastUpdate \in Int
    BY <1>1, <1>2, RealtimeTypes DEF MetricsInv, LastUpdate
  <2>2. counted[n] = 0 /\ n \notin DOMAIN received
    BY <1>1, <1>3, <1>4, RealtimeTypes DEF MetricsInv
  <2>3. ASSUME NEW r \in DOMAIN received'
        PROVE  /\ received'[r] <= clock
               /\ counted[r] = 0 => r \in recentRequests' \/ r \in late
               /\ counted[r] <= 2
               /\ counted[r] # 0 => LastUpdate \in emitted
               /\ counted[r] = 2 => received'[r] \in emitted
               /\ r \in recentRequests' =>
                     CASE counted[r] = 0 -> received'[r] >= LastUpdate
                       [] counted[r] = 1 -> received'[r] <= LastUpdate
                       [] OTHER          -> received'[r] < LastUpdate
    <3>1. CASE r = n
      BY <1>1, <1>2, <1>3, <2>1, <2>2, <3>1, RealtimeTypes
    <3>2. CASE r # n
      <4>1. r \in DOMAIN received /\ received'[r] = received[r] /\ (r \in recentRequests' <=> r \in recentRequests)
        BY <1>2, <1>3, <3>2
      <4> QED
        BY <1>1, <4>1 DEF MetricsInv
    <3> QED
      BY <3>1, <3>2
  <2>4. \A r \in Requests \ DOMAIN received' : counted[r] = 0
    <3>1. DOMAIN received \subseteq DOMAIN received'
      BY <1>3
    <3> QED
      BY <1>1, <3>1 DEF MetricsInv
  <2> QED
    BY <1>2, <2>1, <2>3, <2>4 DEF MetricsInv
<1>6. CASE UNCHANGED <<live, shown>>
  <2>1. RealtimeTypeOK'
    BY <1>1, <1>2, <1>3, <1>4, <1>6 DEF RealtimeTypeOK
  <2>2. FeedInv'
    <3>1. \A i \in DOMAIN live : live[i] <= n
      <4>1. \A i \in DOMAIN live : live[i] \in Nat
        BY <1>1, LiveAreNumbers
      <4>2. \A i \in DOMAIN live : live[i] <= Len(received)
        BY <1>1 DEF FeedInv
      <4>3. Len(received) \in Nat /\ Len(received) < n
        BY <1>3
      <4> HIDE DEF n
      <4> QED
        BY <1>3, <4>1, <4>2, <4>3
    <3> QED
      BY <1>1, <1>2, <1>3, <1>6, <3>1 DEF FeedInv
  <2> QED
    BY <1>5, <2>1, <2>2 DEF RealtimeInv
<1>7. CASE Show(ListWith(Len(received')), isPaused)
  <2> DEFINE m == Min({MaxEvents, Len(live) + 1})
  <2>1. live' = SubSeq(<<n>> \o live, 1, m) /\ shown' = IF isPaused THEN shown ELSE live'
    BY <1>3, <1>7 DEF Show, ListWith
  <2>2. live \in Seq(Requests) /\ Len(live) \in Nat
    BY <1>1, RealtimeTypes
  <2>3. m \in 1..Len(live) + 1 /\ m <= MaxEvents
    BY <2>2, CappedLength, RealtimeAssumption
  <2> HIDE DEF m
  <2>4. /\ live' \in Seq(Requests) /\ Len(live') = m /\ DOMAIN live' = 1..m /\ live'[1] = n
        /\ \A k \in 2..m : k - 1 \in DOMAIN live /\ live'[k] = live[k - 1]
    BY <1>4, <2>1, <2>2, <2>3, Prepended
  <2>5. shown' \in Seq(Requests)
    BY <1>1, <2>1, <2>4 DEF RealtimeTypeOK
  <2>6. RealtimeTypeOK'
    BY <1>1, <1>2, <1>3, <1>4, <2>3, <2>4, <2>5 DEF RealtimeTypeOK
  <2>7. \A i \in DOMAIN live : live[i] \in Nat /\ live[i] < n
    <3>1. \A i \in DOMAIN live : live[i] \in Nat
      BY <1>1, LiveAreNumbers
    <3>2. \A i \in DOMAIN live : live[i] <= Len(received)
      BY <1>1 DEF FeedInv
    <3>3. Len(received) \in Nat /\ Len(received) < n
      BY <1>1, RealtimeTypes
    <3> HIDE DEF n
    <3> QED
      BY <1>3, <3>1, <3>2, <3>3
  <2>8. ASSUME NEW i \in DOMAIN live' PROVE live'[i] <= n
    <3>1. CASE i = 1
      BY <1>3, <2>4, <3>1
    <3>2. CASE i # 1
      <4>1. i \in 2..m
        BY <2>4, <3>2
      <4> QED
        BY <1>3, <2>4, <2>7, <4>1
    <3> QED
      BY <3>1, <3>2
  <2>9. ASSUME NEW i \in DOMAIN live', NEW j \in DOMAIN live', i < j PROVE live'[i] > live'[j]
    <3>1. j \in 2..m /\ j - 1 \in DOMAIN live /\ live'[j] = live[j - 1]
      BY <2>3, <2>4, <2>9
    <3>2. CASE i = 1
      BY <1>3, <2>4, <2>7, <3>1, <3>2
    <3>3. CASE i # 1
      <4>1. i \in 2..m /\ i - 1 \in DOMAIN live /\ live'[i] = live[i - 1] /\ i - 1 < j - 1
        BY <2>3, <2>4, <2>9, <3>3
      <4> QED
        BY <1>1, <3>1, <4>1 DEF FeedInv
    <3> QED
      BY <3>2, <3>3
  <2>10. FeedInv'
    BY <1>1, <1>2, <1>3, <2>1, <2>8, <2>9 DEF FeedInv
  <2> QED
    BY <1>5, <2>6, <2>10 DEF RealtimeInv
<1> QED
  BY <1>6, <1>7 DEF Receive

\* What the window of a late or punctual update takes in.
LEMMA EmitKeeps == ASSUME RealtimeInv, EmitMetrics PROVE RealtimeInv'
<1>1. /\ RealtimeTypeOK /\ MetricsInv /\ FeedInv
      /\ clock \in Nat /\ due \in Nat /\ Window \in Nat \ {0}
      /\ DOMAIN received \subseteq Requests /\ recentRequests \subseteq DOMAIN received
      /\ counted \in [Requests -> Nat] /\ \A r \in DOMAIN received : received[r] \in Nat
  BY RealtimeTypes DEF RealtimeInv
<1>2. /\ clock >= due
      /\ recentRequests' = {r \in recentRequests : InWindow(r)}
      /\ counted' = [r \in Requests |-> counted[r] + IF r \in recentRequests' THEN 1 ELSE 0]
      /\ emitted' = emitted \cup {clock}
      /\ due' = clock + Window
      /\ UNCHANGED <<clock, received, feedVars>>
  BY DEF EmitMetrics
<1>7. late' = IF clock > due THEN late \cup recentRequests ELSE late
  BY DEF EmitMetrics
<1>8. late \subseteq late' /\ late' \subseteq late \cup recentRequests /\ (clock > due => recentRequests \subseteq late')
  BY <1>7
<1>9. \A i \in recentRequests : i \in recentRequests' <=> received[i] >= clock - Window
  BY <1>2 DEF InWindow
<1>3. \A r \in Requests : /\ r \in recentRequests' => counted'[r] = counted[r] + 1
                          /\ r \notin recentRequests' => counted'[r] = counted[r]
  BY <1>1, <1>2
<1>4. RealtimeTypeOK'
  <2>1. counted' \in [Requests -> Nat]
    BY <1>1, <1>2
  <2>2. due' \in Nat /\ emitted' \subseteq 0..MaxClock /\ late' \subseteq Requests
    BY <1>1, <1>2, <1>8 DEF RealtimeTypeOK
  <2> QED
    BY <1>1, <1>2, <2>1, <2>2 DEF RealtimeTypeOK, feedVars
<1>5. MetricsInv'
  <2>1. LastUpdate' = clock /\ LastUpdate = due - Window /\ LastUpdate < clock /\ clock \in emitted'
    BY <1>1, <1>2 DEF LastUpdate
  <2>2. ASSUME NEW r \in DOMAIN received
        PROVE  /\ counted'[r] = 0 => r \in recentRequests' \/ r \in late'
               /\ counted'[r] <= 2
               /\ counted'[r] = 2 => received[r] \in emitted'
               /\ r \in recentRequests' =>
                     CASE counted'[r] = 0 -> received[r] >= clock
                       [] counted'[r] = 1 -> received[r] <= clock
                       [] OTHER           -> received[r] < clock
    <3>1. /\ received[r] \in Nat /\ received[r] <= clock /\ counted[r] \in Nat /\ counted[r] <= 2
          /\ counted[r] = 0 => r \in recentRequests \/ r \in late
          /\ counted[r] # 0 => LastUpdate \in emitted
          /\ counted[r] = 2 => received[r] \in emitted
      BY <1>1 DEF MetricsInv
    <3>2. /\ r \in recentRequests /\ counted[r] = 0 => received[r] >= LastUpdate
          /\ r \in recentRequests /\ counted[r] = 1 => received[r] <= LastUpdate
          /\ r \in recentRequests /\ counted[r] = 2 => received[r] < LastUpdate
      BY <1>1 DEF MetricsInv
    <3>3. CASE r \in recentRequests'
      <4>1. r \in recentRequests /\ received[r] >= clock - Window /\ counted'[r] = counted[r] + 1
        BY <1>1, <1>2, <1>3, <3>3 DEF InWindow
      <4>2. CASE counted[r] = 0
        BY <3>1, <3>3, <4>1, <4>2
      <4>3. CASE counted[r] = 1
        <5>1. received[r] = LastUpdate
          BY <1>1, <1>2, <2>1, <3>1, <3>2, <4>1, <4>3
        <5> QED
          BY <1>2, <2>1, <3>1, <3>3, <4>1, <4>3, <5>1
      <4>4. CASE counted[r] = 2
        BY <1>1, <1>2, <2>1, <3>1, <3>2, <4>1, <4>4
      <4> QED
        BY <3>1, <4>2, <4>3, <4>4
    <3>4. CASE r \notin recentRequests'
      <4>1. counted'[r] = counted[r]
        BY <1>1, <1>3, <3>4
      <4>2. CASE counted[r] = 0 /\ r \in recentRequests
        <5>1. received[r] < clock - Window
          BY <1>1, <1>9, <3>1, <3>4, <4>2
        <5>2. received[r] >= due - Window
          BY <2>1, <3>2, <4>2
        <5>3. r \in late'
          BY <1>1, <1>8, <3>1, <4>2, <5>1, <5>2
        <5> QED
          BY <3>1, <3>4, <4>1, <4>2, <5>3
      <4>3. CASE counted[r] = 0 /\ r \notin recentRequests
        BY <1>8, <3>1, <3>4, <4>1, <4>3
      <4>4. CASE counted[r] # 0
        BY <1>2, <3>1, <3>4, <4>1, <4>4
      <4> QED
        BY <4>2, <4>3, <4>4
    <3> QED
      BY <3>3, <3>4
  <2>3. \A r \in Requests \ DOMAIN received : counted'[r] = 0
    BY <1>1, <1>2, <1>3 DEF MetricsInv
  <2>4. \A r \in DOMAIN received : received[r] <= clock
    BY <1>1 DEF MetricsInv
  <2> QED
    BY <1>1, <1>2, <2>1, <2>2, <2>3, <2>4 DEF MetricsInv
<1>6. FeedInv'
  BY <1>1, <1>2 DEF FeedInv, feedVars
<1> QED
  BY <1>4, <1>5, <1>6 DEF RealtimeInv

\* Nothing the metrics are about changes.
LEMMA MetricsStay ==
    ASSUME RealtimeInv, UNCHANGED metricVars
    PROVE  /\ MetricsInv'
           /\ clock' = clock /\ due' = due /\ received' = received /\ recentRequests' = recentRequests
           /\ counted' = counted /\ emitted' = emitted /\ late' = late
  BY DEF RealtimeInv, MetricsInv, metricVars, LastUpdate

LEMMA PassKeeps == ASSUME RealtimeInv, Pass PROVE RealtimeInv'
<1>1. RealtimeTypeOK /\ MetricsInv /\ FeedInv
  BY DEF RealtimeInv
<1>2. /\ clock < MaxClock /\ clock' = clock + 1
      /\ UNCHANGED <<due, received, recentRequests, counted, emitted, late>> /\ UNCHANGED feedVars
  BY DEF Pass
<1>3. clock \in Nat /\ clock' \in 0..MaxClock /\ \A r \in DOMAIN received : received[r] \in Nat
  BY <1>1, <1>2, RealtimeTypes
<1>4. RealtimeTypeOK'
  BY <1>1, <1>2, <1>3 DEF RealtimeTypeOK, feedVars
<1>5. MetricsInv'
  <2>1. LastUpdate' = LastUpdate /\ 0 <= LastUpdate /\ LastUpdate <= clock /\ LastUpdate \in Int
    BY <1>1, <1>2, RealtimeTypes DEF LastUpdate, MetricsInv
  <2>2. LastUpdate <= clock'
    BY <1>2, <1>3, <2>1
  <2>3. \A r \in DOMAIN received : received[r] <= clock'
    <3>1. \A r \in DOMAIN received : received[r] <= clock
      BY <1>1 DEF MetricsInv
    <3> QED
      BY <1>2, <1>3, <3>1
  <2> QED
    BY <1>1, <1>2, <2>1, <2>2, <2>3 DEF MetricsInv
<1>6. FeedInv'
  BY <1>1, <1>2 DEF FeedInv, feedVars
<1> QED
  BY <1>4, <1>5, <1>6 DEF RealtimeInv

LEMMA ConnectKeeps == ASSUME RealtimeInv, Connect PROVE RealtimeInv'
<1>1. RealtimeTypeOK /\ MetricsInv /\ FeedInv
  BY DEF RealtimeInv
<1>2. /\ ~up /\ up' = TRUE /\ rooms' = {} /\ wire' = buffer /\ buffer' = <<>>
      /\ UNCHANGED metricVars
      /\ UNCHANGED <<mounted, current, live, shown, isPaused, calls>>
  BY DEF Connect
<1>3. MetricsInv' /\ UNCHANGED <<clock, due, received, recentRequests, counted, emitted, late>>
  BY <1>2, MetricsStay
<1>4. RealtimeTypeOK'
  <2>1. buffer' \in Seq(Messages) /\ rooms' \subseteq Rooms /\ up' \in BOOLEAN
    BY <1>2, Emptied
  <2> QED
    BY <1>1, <1>2, <1>3, <2>1 DEF RealtimeTypeOK
<1>5. FeedInv'
  <2>1. Leads(buffer, {}, current)
    BY <1>1, <1>2 DEF FeedInv
  <2>2. Leads(wire', rooms', current')
    BY <1>2, <2>1
  <2> QED
    BY <1>1, <1>2, <1>3, <2>2 DEF FeedInv
<1> QED
  BY <1>3, <1>4, <1>5 DEF RealtimeInv

LEMMA BreakKeeps == ASSUME RealtimeInv, Break PROVE RealtimeInv'
<1>1. RealtimeTypeOK /\ MetricsInv /\ FeedInv
  BY DEF RealtimeInv
<1>2. /\ up /\ up' = FALSE /\ rooms' = {} /\ wire' = <<>> /\ current' = {}
      /\ calls < MaxCalls /\ calls' = calls + 1
      /\ UNCHANGED metricVars
      /\ UNCHANGED <<buffer, mounted, live, shown, isPaused>>
  BY DEF Break, Call
<1>3. MetricsInv' /\ UNCHANGED <<clock, due, received, recentRequests, counted, emitted, late>>
  BY <1>2, MetricsStay
<1>4. RealtimeTypeOK'
  <2>1. wire' \in Seq(Messages) /\ rooms' \subseteq Rooms /\ up' \in BOOLEAN /\ current' \subseteq mounted'
    BY <1>2, Emptied
  <2>2. calls' \in 0..MaxCalls
    BY <1>1, <1>2, RealtimeAssumption DEF RealtimeTypeOK
  <2> QED
    BY <1>1, <1>2, <1>3, <2>1, <2>2 DEF RealtimeTypeOK
<1>5. FeedInv'
  <2>1. buffer = <<>>
    BY <1>1, <1>2 DEF FeedInv
  <2>2. Leads(buffer', {}, current')
    BY <1>2, <2>1, LeadsNothing
  <2> QED
    BY <1>1, <1>2, <1>3, <2>2 DEF FeedInv
<1> QED
  BY <1>3, <1>4, <1>5 DEF RealtimeInv

LEMMA HandleKeeps == ASSUME RealtimeInv, Handle PROVE RealtimeInv'
<1>1. RealtimeTypeOK /\ MetricsInv /\ FeedInv
  BY DEF RealtimeInv
<1>2. /\ up /\ wire # <<>> /\ wire' = Tail(wire)
      /\ rooms' = IF wire[1][1] = "subscribe" THEN rooms \cup {wire[1][2]} ELSE rooms \ {wire[1][2]}
      /\ UNCHANGED metricVars
      /\ UNCHANGED <<up, buffer, mounted, current, live, shown, isPaused, calls>>
  <2>1. wire \in Seq(Messages)
    BY <1>1 DEF RealtimeTypeOK
  <2>2. Handle => wire # <<>>
    BY DEF Handle
  <2>3. Head(wire) = wire[1]
    BY <2>1, <2>2
  <2> QED
    BY <2>3 DEF Handle
<1>3. MetricsInv' /\ UNCHANGED <<clock, due, received, recentRequests, counted, emitted, late>>
  BY <1>2, MetricsStay
<1>4. wire \in Seq(Messages) /\ wire[1] \in Messages /\ wire' \in Seq(Messages)
  BY <1>1, <1>2 DEF RealtimeTypeOK
<1>5. RealtimeTypeOK'
  <2>1. rooms' \subseteq Rooms
    BY <1>1, <1>2, <1>4, MessageParts DEF RealtimeTypeOK
  <2> QED
    BY <1>1, <1>2, <1>3, <1>4, <2>1 DEF RealtimeTypeOK
<1>6. FeedInv'
  <2>1. buffer = <<>> /\ Leads(wire, rooms, current)
    BY <1>1, <1>2 DEF FeedInv
  <2>2. Leads(Tail(wire), rooms', current)
    BY <1>2, <1>4, <2>1, LeadsHandled
  <2>3. Leads(wire', rooms', current')
    BY <1>2, <2>2
  <2> QED
    BY <1>1, <1>2, <1>3, <2>1, <2>3 DEF FeedInv
<1> QED
  BY <1>3, <1>5, <1>6 DEF RealtimeInv

LEMMA PauseKeeps == ASSUME RealtimeInv, Pause PROVE RealtimeInv'
<1>1. RealtimeTypeOK /\ MetricsInv /\ FeedInv
  BY DEF RealtimeInv
<1>2. /\ "events" \in mounted /\ isPaused' = ~isPaused /\ live' = live
      /\ shown' = IF isPaused' THEN shown ELSE live
      /\ UNCHANGED metricVars
      /\ UNCHANGED <<up, rooms, wire, buffer, mounted, current, calls>>
  BY DEF Pause, Show
<1>3. MetricsInv' /\ UNCHANGED <<clock, due, received, recentRequests, counted, emitted, late>>
  BY <1>2, MetricsStay
<1>4. RealtimeTypeOK'
  BY <1>1, <1>2, <1>3 DEF RealtimeTypeOK
<1>5. FeedInv'
  BY <1>1, <1>2, <1>3 DEF FeedInv
<1> QED
  BY <1>3, <1>4, <1>5 DEF RealtimeInv

\* What the client says of a room, by the socket or into its buffer.
LEMMA EmitLeads ==
    ASSUME RealtimeInv, NEW m \in Messages, NEW later, Emit(m),
           UNCHANGED <<up, rooms>>,
           \A room \in Rooms \ {m[2]} : room \in later <=> room \in current,
           m[1] = "subscribe" <=> m[2] \in later
    PROVE  /\ wire' \in Seq(Messages) /\ buffer' \in Seq(Messages)
           /\ IF up' THEN buffer' = <<>> /\ Leads(wire', rooms', later)
                     ELSE wire' = <<>> /\ rooms' = {} /\ Leads(buffer', {}, later)
<1>1. /\ wire \in Seq(Messages) /\ buffer \in Seq(Messages) /\ up \in BOOLEAN /\ up' = up /\ rooms' = rooms
  BY DEF RealtimeInv, RealtimeTypeOK
<1>2. FeedInv
  BY DEF RealtimeInv
<1>3. CASE up
  <2>1. wire' = Append(wire, m) /\ buffer' = buffer /\ buffer = <<>> /\ Leads(wire, rooms, current)
    BY <1>2, <1>3 DEF Emit, FeedInv
  <2>2. Append(wire, m) \in Seq(Messages)
    BY <1>1, Appended
  <2>3. Leads(Append(wire, m), rooms, later)
    BY <1>1, <2>1, LeadsOn
  <2> QED
    BY <1>1, <1>3, <2>1, <2>2, <2>3
<1>4. CASE ~up
  <2>1. buffer' = Append(buffer, m) /\ wire' = wire /\ wire = <<>> /\ rooms = {} /\ Leads(buffer, {}, current)
    BY <1>2, <1>4 DEF Emit, FeedInv
  <2>2. Append(buffer, m) \in Seq(Messages)
    BY <1>1, Appended
  <2>3. Leads(Append(buffer, m), {}, later)
    BY <1>1, <2>1, LeadsOn
  <2> QED
    BY <1>1, <1>4, <2>1, <2>2, <2>3
<1> QED
  BY <1>1, <1>3, <1>4

LEMMA MountKeeps == ASSUME RealtimeInv, NEW room \in Rooms, Mount(room) PROVE RealtimeInv'
<1>1. RealtimeTypeOK /\ MetricsInv /\ FeedInv
  BY DEF RealtimeInv
<1>2. /\ room \notin mounted /\ calls < MaxCalls /\ calls' = calls + 1
      /\ mounted' = mounted \cup {room} /\ current' = current \cup {room}
      /\ Emit(<<"subscribe", room>>)
      /\ IF room = "events" THEN live' = <<>> /\ shown' = <<>> /\ isPaused' = FALSE
                            ELSE UNCHANGED <<live, shown, isPaused>>
      /\ UNCHANGED metricVars /\ UNCHANGED <<up, rooms>>
  BY DEF Mount, Call
<1>3. MetricsInv' /\ UNCHANGED <<clock, due, received, recentRequests, counted, emitted, late>>
  BY <1>2, MetricsStay
<1>4. <<"subscribe", room>> \in Messages
  BY DEF Messages
<1>5. /\ wire' \in Seq(Messages) /\ buffer' \in Seq(Messages)
      /\ IF up' THEN buffer' = <<>> /\ Leads(wire', rooms', current')
                ELSE wire' = <<>> /\ rooms' = {} /\ Leads(buffer', {}, current')
  BY <1>2, <1>4, EmitLeads
<1>6. RealtimeTypeOK'
  <2>1. mounted' \subseteq Rooms /\ current' \subseteq mounted' /\ calls' \in 0..MaxCalls
    BY <1>1, <1>2, RealtimeAssumption, SMTT(30) DEF RealtimeTypeOK
  <2>2. live' \in Seq(Requests) /\ shown' \in Seq(Requests) /\ Len(live') <= MaxEvents /\ isPaused' \in BOOLEAN
    <3>1. Len(<<>>) <= MaxEvents
      BY RealtimeAssumption
    <3> QED
      BY <1>1, <1>2, <3>1, Emptied DEF RealtimeTypeOK
  <2> QED
    BY <1>1, <1>2, <1>3, <1>5, <2>1, <2>2 DEF RealtimeTypeOK
<1>7. FeedInv'
  <2>1. CASE room = "events"
    <3>1. DOMAIN live' = {} /\ live' = shown'
      BY <1>2, <2>1
    <3> QED
      BY <1>5, <3>1 DEF FeedInv
  <2>2. CASE room # "events"
    <3>1. UNCHANGED <<live, shown, isPaused>> /\ ("events" \in mounted' <=> "events" \in mounted)
      BY <1>2, <2>2
    <3> QED
      BY <1>1, <1>3, <1>5, <3>1 DEF FeedInv
  <2> QED
    BY <2>1, <2>2
<1> QED
  BY <1>3, <1>6, <1>7 DEF RealtimeInv

LEMMA UnmountKeeps == ASSUME RealtimeInv, NEW room \in Rooms, Unmount(room) PROVE RealtimeInv'
<1>1. RealtimeTypeOK /\ MetricsInv /\ FeedInv
  BY DEF RealtimeInv
<1>2. /\ room \in mounted /\ calls < MaxCalls /\ calls' = calls + 1
      /\ mounted' = mounted \ {room} /\ current' = current \ {room}
      /\ Emit(<<"unsubscribe", room>>)
      /\ UNCHANGED metricVars /\ UNCHANGED <<up, rooms, live, shown, isPaused>>
  BY DEF Unmount, Call
<1>3. MetricsInv' /\ UNCHANGED <<clock, due, received, recentRequests, counted, emitted, late>>
  BY <1>2, MetricsStay
<1>4. <<"unsubscribe", room>> \in Messages /\ "unsubscribe" # "subscribe"
  BY DEF Messages
<1>5. /\ wire' \in Seq(Messages) /\ buffer' \in Seq(Messages)
      /\ IF up' THEN buffer' = <<>> /\ Leads(wire', rooms', current')
                ELSE wire' = <<>> /\ rooms' = {} /\ Leads(buffer', {}, current')
  BY <1>2, <1>4, EmitLeads
<1>6. RealtimeTypeOK'
  <2>1. mounted' \subseteq Rooms /\ current' \subseteq mounted' /\ calls' \in 0..MaxCalls
    BY <1>1, <1>2, RealtimeAssumption DEF RealtimeTypeOK
  <2> QED
    BY <1>1, <1>2, <1>3, <1>5, <2>1 DEF RealtimeTypeOK
<1>7. FeedInv'
  BY <1>1, <1>2, <1>3, <1>5 DEF FeedInv
<1> QED
  BY <1>3, <1>6, <1>7 DEF RealtimeInv

LEMMA RealtimeSteps == ASSUME RealtimeInv, [RealtimeNext]_realtimeVars PROVE RealtimeInv'
<1>1. CASE UNCHANGED realtimeVars
  BY <1>1 DEF realtimeVars, metricVars, feedVars, RealtimeInv, RealtimeTypeOK, MetricsInv, FeedInv, LastUpdate
<1>2. CASE RealtimeNext
  BY <1>2, ReceiveKeeps, PassKeeps, EmitKeeps, ConnectKeeps, BreakKeeps, HandleKeeps, PauseKeeps,
     MountKeeps, UnmountKeeps DEF RealtimeNext
<1> QED
  BY <1>1, <1>2

\* The emitter's samples, the rooms and what is on the wire keep their types.
THEOREM RealtimeTyped == RealtimeSpec => []RealtimeTypeOK
<1>1. RealtimeInv => RealtimeTypeOK
  BY DEF RealtimeInv
<1> QED
  BY <1>1, RealtimeInitially, RealtimeSteps, PTL DEF RealtimeSpec

\* The metrics emitter counts every request event that no late callback of its
\* interval has met, once unless it came in the millisecond of an update.
THEOREM MetricsAreComplete == RealtimeSpec => []MetricsCountOnce
<1>1. RealtimeInv => MetricsCountOnce
  BY DEF RealtimeInv, MetricsInv, MetricsCountOnce
<1> QED
  BY <1>1, RealtimeInitially, RealtimeSteps, PTL DEF RealtimeSpec

\* The rooms of a connection are those of the hooks mounted since it last broke,
\* through mounts, unmounts and buffered emits; older hooks do not ask again.
THEOREM FeedIsTheHooks == RealtimeSpec => []FeedFollowsHooks
<1>1. ASSUME RealtimeInv PROVE FeedFollowsHooks
  <2>1. RealtimeTypeOK /\ FeedInv
    BY <1>1 DEF RealtimeInv
  <2>2. up /\ wire = <<>> => rooms = current
    <3>1. ASSUME up, wire = <<>> PROVE rooms = current
      <4>1. Leads(<<>>, rooms, current)
        BY <2>1, <3>1 DEF FeedInv
      <4>2. rooms \subseteq Rooms /\ current \subseteq Rooms
        BY <2>1 DEF RealtimeTypeOK
      <4> QED
        BY <4>1, <4>2, LeadsNothing
    <3> QED
      BY <3>1
  <2> QED
    BY <2>1, <2>2 DEF FeedInv, FeedFollowsHooks
<1> QED
  BY <1>1, RealtimeInitially, RealtimeSteps, PTL DEF RealtimeSpec

-----------------------------------------------------------------------------
(* Multipart: whole objects, one row each.                                  *)

UploadRecords == [pc : {"idle", "send", "push", "assemble", "save", "publish", "abort", "forget"},
                  upload : Uploads, part : 0..PartCount]

\* MinIO holds what is counted, and what a call is about to count.
HeldInv ==
    /\ \A c \in UploadCalls : ucall[c].pc \in {"send", "push"} => ucall[c].part \in PartNumbers
    /\ \A u \in Uploads : minio[u] = "open" =>
         /\ ToSet(parts[u]) \subseteq atMinio[u]
         /\ \A c \in UploadCalls : At(c, "push", u) => ucall[c].part \in atMinio[u]

\* Parts are only added after completeUpload has counted them.
WholeInv ==
    \A u \in Uploads :
        /\ minio[u] = "assembled" /\ IsInjective(parts[u]) => atMinio[u] = PartNumbers
        /\ \A c \in UploadCalls : At(c, "assemble", u) => Len(parts[u]) >= PartCount

\* MinIO lets one call assemble an upload, and only that one saves its row.
RowInv ==
    \A u \in Uploads :
        /\ fileRows[u] <= 1 /\ (fileRows[u] = 1 => minio[u] = "assembled")
        /\ \A c \in UploadCalls : At(c, "save", u) => minio[u] = "assembled" /\ fileRows[u] = 0
        /\ \A c, d \in UploadCalls : At(c, "save", u) /\ At(d, "save", u) => c = d
        /\ minio[u] = "assembled" /\ fileRows[u] = 0 =>
              trouble > 0 \/ \E c \in UploadCalls : At(c, "save", u)

\* Only an upload that was initiated has a session, parts or calls.
KnownInv ==
    /\ \A u \in Uploads : u \in session \/ parts[u] # <<>> => minio[u] # "none"
    /\ \A c \in UploadCalls : ucall[c].pc # "idle" => minio[ucall[c].upload] # "none"

UploadInv == MultipartTypeOK /\ KnownInv /\ HeldInv /\ WholeInv /\ RowInv

\* n distinct numbers out of 1..n are all of them.
LEMMA Distinct ==
    ASSUME NEW n \in Nat, NEW s \in Seq(1..n), IsInjective(s)
    PROVE  Len(s) <= n /\ (Len(s) >= n => ToSet(s) = 1..n)
<1>1. /\ Len(s) \in Nat /\ DOMAIN s = 1..Len(s) /\ s \in [1..Len(s) -> 1..n]
      /\ \A i \in 1..Len(s) : s[i] \in 1..n
  BY Ranges
<1>2. s \in Injection(1..Len(s), 1..n)
  BY <1>1 DEF Injection, IsInjective
<1>3. IsFiniteSet(1..n) /\ Cardinality(1..n) = n /\ Cardinality(1..Len(s)) = Len(s)
  <2>1. IsFiniteSet(1..n) /\ Cardinality(1..n) = IF 1 > n THEN 0 ELSE n - 1 + 1
    BY FS_Interval
  <2>2. ASSUME NEW m \in Nat PROVE Cardinality(1..m) = m
    <3>1. Cardinality(1..m) = IF 1 > m THEN 0 ELSE m - 1 + 1
      BY FS_Interval
    <3> QED
      BY <3>1
  <2> QED
    BY <1>1, <2>1, <2>2
<1>4. Len(s) <= n /\ (Len(s) = n <=> s \in Surjection(1..Len(s), 1..n))
  <2>1. /\ Cardinality(1..Len(s)) <= Cardinality(1..n)
        /\ Cardinality(1..Len(s)) = Cardinality(1..n) <=> s \in Surjection(1..Len(s), 1..n)
    BY <1>2, <1>3, FS_Injection
  <2> QED
    BY <1>3, <2>1
<1>5. s \in Surjection(1..Len(s), 1..n) => ToSet(s) = 1..n
  BY <1>1 DEF Surjection, ToSet
<1>6. Len(s) >= n => Len(s) = n
  <2>1. Len(s) \in Nat /\ Len(s) <= n
    BY <1>1, <1>4
  <2> QED
    BY <2>1
<1> QED
  BY <1>4, <1>5, <1>6

\* At most 100 % of n parts.
LEMMA Percent ==
    ASSUME NEW n \in Nat \ {0}, NEW k \in Nat, k <= n
    PROVE  (100 * k) \div n <= 100
<1> DEFINE y == (100 * k) \div n
<1>1. y \in Int /\ n * y <= 100 * k
  OBVIOUS
<1> HIDE DEF y
<1>2. CASE y >= 101
  <2>1. PICK d \in Nat : y = 101 + d
    <3>1. y - 101 \in Nat /\ y = 101 + (y - 101)
      BY <1>1, <1>2
    <3> QED
      BY <3>1
  <2>2. n * y = 101 * n + n * d
    BY <2>1
  <2>3. n * d >= 0
    BY <2>1
  <2>4. n * d \in Int
    BY <2>1
  <2> QED
    BY <1>1, <2>2, <2>3, <2>4
<1>3. CASE ~(y >= 101)
  BY <1>1, <1>3 DEF y
<1> QED
  BY <1>2, <1>3

LEMMA Percentages ==
    ASSUME MultipartTypeOK, NEW u \in Uploads, IsInjective(parts[u])
    PROVE  Progress(u) <= 100
<1>1. parts[u] \in Seq(1..PartCount) /\ PartCount \in Nat \ {0}
  BY MultipartAssumption DEF MultipartTypeOK, PartNumbers
<1>2. Len(parts[u]) \in Nat /\ Len(parts[u]) <= PartCount
  BY <1>1, Distinct
<1> QED
  BY <1>1, <1>2, Percent DEF Progress

LEMMA Shortened ==
    ASSUME NEW S, NEW s \in Seq(S), NEW x \in S, IsInjective(Append(s, x))
    PROVE  IsInjective(s)
<1>1. /\ DOMAIN s = 1..Len(s) /\ DOMAIN Append(s, x) = 1..Len(s) + 1 /\ Len(s) \in Nat
      /\ \A i \in DOMAIN s : Append(s, x)[i] = s[i]
  BY Appended
<1> QED
  BY <1>1 DEF IsInjective

LEMMA CallChanges ==
    ASSUME MultipartTypeOK, NEW c \in UploadCalls, NEW r \in UploadRecords,
           ucall' = [ucall EXCEPT ![c] = r]
    PROVE  /\ ucall' \in [UploadCalls -> UploadRecords] /\ ucall'[c] = r
           /\ \A d \in UploadCalls \ {c} : ucall'[d] = ucall[d]
  BY DEF MultipartTypeOK, UploadRecords

LEMMA NoCallTyped == NoCall \in UploadRecords /\ NoCall.pc = "idle"
<1>1. (CHOOSE u \in Uploads : TRUE) \in Uploads
  BY MultipartAssumption
<1>2. 0 \in 0..PartCount
  BY MultipartAssumption
<1> QED
  BY <1>1, <1>2 DEF NoCall, UCall, UploadRecords

\* What the three ways to move a call do to the calls.
LEMMA Begins ==
    ASSUME MultipartTypeOK, NEW c \in UploadCalls, NEW u \in Uploads, NEW p \in 0..PartCount,
           NEW pc \in {"send", "assemble", "abort"}, Begin(c, pc, u, p)
    PROVE  /\ ucall' \in [UploadCalls -> UploadRecords]
           /\ ucall'[c].pc = pc /\ ucall'[c].upload = u /\ ucall'[c].part = p
           /\ \A d \in UploadCalls \ {c} : ucall'[d] = ucall[d]
           /\ ucall[c].pc = "idle"
<1>1. UCall(pc, u, p) \in UploadRecords
  BY DEF UCall, UploadRecords
<1>2. ucall' = [ucall EXCEPT ![c] = UCall(pc, u, p)] /\ ucall[c].pc = "idle"
  BY DEF Begin
<1>3. /\ ucall' \in [UploadCalls -> UploadRecords] /\ ucall'[c] = UCall(pc, u, p)
      /\ \A d \in UploadCalls \ {c} : ucall'[d] = ucall[d]
  BY <1>1, <1>2, CallChanges
<1> QED
  BY <1>2, <1>3 DEF UCall

LEMMA Goes ==
    ASSUME MultipartTypeOK, NEW c \in UploadCalls, NEW pc \in {"push", "save", "publish", "forget"},
           Goto(c, pc)
    PROVE  /\ ucall' \in [UploadCalls -> UploadRecords]
           /\ ucall'[c].pc = pc /\ ucall'[c].upload = ucall[c].upload /\ ucall'[c].part = ucall[c].part
           /\ \A d \in UploadCalls \ {c} : ucall'[d] = ucall[d]
<1> DEFINE r == [ucall[c] EXCEPT !.pc = pc]
<1>1. ucall[c] \in UploadRecords
  BY DEF MultipartTypeOK, UploadRecords
<1>2. r \in UploadRecords /\ r.pc = pc /\ r.upload = ucall[c].upload /\ r.part = ucall[c].part
  BY <1>1 DEF UploadRecords
<1>3. ucall' = [ucall EXCEPT ![c] = r]
  BY DEF Goto
<1> HIDE DEF r
<1>4. /\ ucall' \in [UploadCalls -> UploadRecords] /\ ucall'[c] = r
      /\ \A d \in UploadCalls \ {c} : ucall'[d] = ucall[d]
  BY <1>2, <1>3, CallChanges
<1> QED
  BY <1>2, <1>4

LEMMA Returns ==
    ASSUME MultipartTypeOK, NEW c \in UploadCalls, Return(c)
    PROVE  /\ ucall' \in [UploadCalls -> UploadRecords] /\ ucall'[c].pc = "idle"
           /\ \A d \in UploadCalls \ {c} : ucall'[d] = ucall[d]
<1>1. ucall' = [ucall EXCEPT ![c] = NoCall]
  BY DEF Return
<1>2. /\ ucall' \in [UploadCalls -> UploadRecords] /\ ucall'[c] = NoCall
      /\ \A d \in UploadCalls \ {c} : ucall'[d] = ucall[d]
  BY <1>1, CallChanges, NoCallTyped
<1> QED
  BY <1>2, NoCallTyped

LEMMA UploadInitially == MultipartInit => UploadInv
<1> SUFFICES ASSUME MultipartInit PROVE UploadInv
  OBVIOUS
<1>1. ucall \in [UploadCalls -> UploadRecords] /\ \A c \in UploadCalls : ucall[c].pc = "idle"
  BY NoCallTyped DEF MultipartInit
<1>2. MultipartTypeOK
  BY <1>1, MultipartAssumption DEF MultipartInit, MultipartTypeOK, UploadRecords
<1>3. KnownInv /\ HeldInv /\ WholeInv /\ RowInv
  BY <1>1 DEF MultipartInit, KnownInv, HeldInv, WholeInv, RowInv, At
<1> QED
  BY <1>2, <1>3 DEF UploadInv

\* Calls that save no row, before the step or after it, leave the rows as they are.
LEMMA RowsKept ==
    ASSUME RowInv, NEW c \in UploadCalls, ucall[c].pc # "save", ucall'[c].pc # "save",
           \A d \in UploadCalls \ {c} : ucall'[d] = ucall[d],
           \A v \in Uploads : minio'[v] = "assembled" <=> minio[v] = "assembled",
           UNCHANGED <<fileRows, trouble>>
    PROVE  RowInv'
<1>1. \A d \in UploadCalls, v \in Uploads : At(d, "save", v)' <=> At(d, "save", v)
  BY DEF At
<1>2. ASSUME NEW v \in Uploads
      PROVE  /\ fileRows'[v] <= 1 /\ (fileRows'[v] = 1 => minio'[v] = "assembled")
             /\ \A d \in UploadCalls : At(d, "save", v)' => minio'[v] = "assembled" /\ fileRows'[v] = 0
             /\ \A d, e \in UploadCalls : At(d, "save", v)' /\ At(e, "save", v)' => d = e
             /\ minio'[v] = "assembled" /\ fileRows'[v] = 0 =>
                   trouble' > 0 \/ \E d \in UploadCalls : At(d, "save", v)'
  BY <1>1 DEF RowInv
<1> QED
  BY <1>2 DEF RowInv

\* A call that counts nothing leaves the counted parts as they are.
LEMMA PartsKept ==
    ASSUME HeldInv, WholeInv, NEW c \in UploadCalls,
           \A d \in UploadCalls \ {c} : ucall'[d] = ucall[d],
           ucall'[c].pc \in {"idle", "send", "abort", "publish", "forget"},
           ucall'[c].pc = "send" => ucall'[c].part \in PartNumbers,
           UNCHANGED <<parts, minio, atMinio>>
    PROVE  HeldInv' /\ WholeInv'
<1>1. \A d \in UploadCalls, v \in Uploads : At(d, "push", v)' => d # c /\ At(d, "push", v)
  BY DEF At
<1>2. \A d \in UploadCalls, v \in Uploads : At(d, "assemble", v)' => d # c /\ At(d, "assemble", v)
  BY DEF At
<1>3. \A d \in UploadCalls : ucall'[d].pc \in {"send", "push"} => ucall'[d].part \in PartNumbers
  BY DEF HeldInv
<1>4. HeldInv'
  <2>1. ASSUME NEW v \in Uploads, minio[v] = "open"
        PROVE  /\ ToSet(parts[v]) \subseteq atMinio[v]
               /\ \A d \in UploadCalls : At(d, "push", v)' => ucall'[d].part \in atMinio[v]
    BY <1>1, <2>1 DEF HeldInv
  <2> QED
    BY <1>3, <2>1 DEF HeldInv
<1>5. WholeInv'
  BY <1>2 DEF WholeInv
<1> QED
  BY <1>4, <1>5

\* Calls are of uploads that were initiated, and sessions too.
LEMMA KnownKept ==
    ASSUME MultipartTypeOK, KnownInv, NEW c \in UploadCalls, NEW u \in Uploads,
           ucall' \in [UploadCalls -> UploadRecords],
           \A d \in UploadCalls \ {c} : ucall'[d] = ucall[d],
           ucall'[c].pc # "idle" => ucall'[c].upload = u,
           u \in session \/ (ucall[c].pc # "idle" /\ ucall[c].upload = u),
           session' \subseteq session \cup {u},
           \A v \in Uploads : (minio'[v] = "none" <=> minio[v] = "none") /\ (v = u \/ parts'[v] = parts[v])
    PROVE  KnownInv'
<1>1. minio[u] # "none"
  BY DEF KnownInv
<1>2. \A v \in Uploads : v \in session' \/ parts'[v] # <<>> => minio'[v] # "none"
  BY <1>1 DEF KnownInv
<1>3. \A d \in UploadCalls : ucall'[d].pc # "idle" => minio'[ucall'[d].upload] # "none"
  <2>1. ASSUME NEW d \in UploadCalls PROVE ucall[d].upload \in Uploads /\ ucall'[d].upload \in Uploads
    BY DEF MultipartTypeOK, UploadRecords
  <2> QED
    BY <1>1, <2>1 DEF KnownInv
<1> QED
  BY <1>2, <1>3 DEF KnownInv

\* A call of an upload that changes nothing but the sessions and the sends.
LEMMA QuietCall ==
    ASSUME UploadInv, NEW c \in UploadCalls, NEW u \in Uploads,
           ucall' \in [UploadCalls -> UploadRecords],
           \A d \in UploadCalls \ {c} : ucall'[d] = ucall[d],
           ucall[c].pc # "save",
           ucall'[c].pc \in {"idle", "send", "abort", "publish", "forget"},
           ucall'[c].pc = "send" => ucall'[c].part \in PartNumbers,
           ucall'[c].pc # "idle" => ucall'[c].upload = u,
           u \in session \/ (ucall[c].pc # "idle" /\ ucall[c].upload = u),
           session' \subseteq session \cup {u}, sends' \in [Uploads -> 0..MaxSends],
           UNCHANGED <<parts, minio, atMinio, fileRows, trouble>>
    PROVE  UploadInv'
<1>1. MultipartTypeOK'
  BY DEF UploadInv, MultipartTypeOK, UploadRecords
<1>2. HeldInv' /\ WholeInv'
  BY PartsKept DEF UploadInv
<1>3. RowInv'
  BY RowsKept DEF UploadInv
<1>4. KnownInv'
  BY KnownKept DEF UploadInv
<1> QED
  BY <1>1, <1>2, <1>3, <1>4 DEF UploadInv

LEMMA UploadSteps == UploadInv /\ [MultipartNext]_uploadVars => UploadInv'
<1> SUFFICES ASSUME UploadInv, [MultipartNext]_uploadVars PROVE UploadInv'
  OBVIOUS
<1>1. /\ MultipartTypeOK /\ KnownInv /\ HeldInv /\ WholeInv /\ RowInv
      /\ ucall \in [UploadCalls -> UploadRecords] /\ sends \in [Uploads -> 0..MaxSends]
      /\ \A v \in Uploads : parts[v] \in Seq(PartNumbers)
  BY DEF UploadInv, MultipartTypeOK, UploadRecords
<1>2. ASSUME NEW u \in Uploads, Initiate(u) PROVE UploadInv'
  <2>1. /\ minio[u] = "none" /\ minio' = [minio EXCEPT ![u] = "open"] /\ session' = session \cup {u}
        /\ UNCHANGED <<parts, atMinio, fileRows, ucall, sends, trouble>>
    BY <1>2 DEF Initiate
  <2>2. minio'[u] = "open" /\ \A v \in Uploads \ {u} : minio'[v] = minio[v]
    BY <1>1, <2>1 DEF MultipartTypeOK
  <2>3. MultipartTypeOK'
    BY <1>1, <2>1 DEF MultipartTypeOK
  <2>4. KnownInv'
    <3>1. \A d \in UploadCalls : ucall[d].upload \in Uploads
      BY <1>1 DEF UploadRecords
    <3> QED
      BY <1>1, <2>1, <2>2, <3>1 DEF KnownInv
  <2>5. parts[u] = <<>> /\ \A d \in UploadCalls : ~At(d, "push", u)
    BY <1>1, <2>1 DEF KnownInv, At
  <2>6. HeldInv'
    <3>1. ToSet(parts[u]) = {}
      BY <2>5, Emptied
    <3>2. ASSUME NEW v \in Uploads, minio'[v] = "open"
          PROVE  /\ ToSet(parts[v]) \subseteq atMinio[v]
                 /\ \A d \in UploadCalls : At(d, "push", v) => ucall[d].part \in atMinio[v]
      BY <1>1, <2>2, <2>5, <3>1, <3>2 DEF HeldInv
    <3> QED
      BY <1>1, <2>1, <3>2 DEF HeldInv, At
  <2>7. WholeInv'
    BY <1>1, <2>1, <2>2 DEF WholeInv, At
  <2>8. RowInv'
    BY <1>1, <2>1, <2>2 DEF RowInv, At
  <2> QED
    BY <2>3, <2>4, <2>6, <2>7, <2>8 DEF UploadInv
<1>3. ASSUME NEW u \in Uploads, NEW c \in UploadCalls, NEW p \in PartNumbers, UploadPart(c, u, p)
      PROVE  UploadInv'
  <2>1. /\ u \in session /\ sends[u] < MaxSends /\ Begin(c, "send", u, p)
        /\ sends' = [sends EXCEPT ![u] = @ + 1]
        /\ UNCHANGED <<session, parts, minio, atMinio, fileRows, trouble>>
    BY <1>3 DEF UploadPart
  <2>2. p \in 0..PartCount
    BY MultipartAssumption DEF PartNumbers
  <2>3. /\ ucall' \in [UploadCalls -> UploadRecords]
        /\ ucall'[c].pc = "send" /\ ucall'[c].upload = u /\ ucall'[c].part = p
        /\ \A d \in UploadCalls \ {c} : ucall'[d] = ucall[d]
        /\ ucall[c].pc = "idle"
    BY <1>1, <2>1, <2>2, Begins
  <2>4. sends' \in [Uploads -> 0..MaxSends]
    <3>1. sends[u] + 1 \in 0..MaxSends
      BY <1>1, <2>1, MultipartAssumption
    <3> QED
      BY <1>1, <2>1, <3>1
  <2>5. u \in session \/ (ucall[c].pc # "idle" /\ ucall[c].upload = u)
    BY <2>1
  <2> QED
    BY <2>1, <2>3, <2>4, <2>5, QuietCall
<1>4. ASSUME NEW u \in Uploads, NEW c \in UploadCalls, StorePart(c, u), minio[u] = "open"
      PROVE  UploadInv'
  <2>1. /\ ucall[c].pc = "send" /\ ucall[c].upload = u /\ Goto(c, "push")
        /\ atMinio' = [atMinio EXCEPT ![u] = @ \cup {ucall[c].part}]
        /\ UNCHANGED <<session, parts, minio, fileRows, sends, trouble>>
    BY <1>4 DEF StorePart, At
  <2>2. /\ ucall' \in [UploadCalls -> UploadRecords]
        /\ ucall'[c].pc = "push" /\ ucall'[c].upload = u /\ ucall'[c].part = ucall[c].part
        /\ \A d \in UploadCalls \ {c} : ucall'[d] = ucall[d]
    BY <1>1, <2>1, Goes
  <2>3. ucall[c].part \in PartNumbers
    BY <1>1, <2>1 DEF HeldInv
  <2>4. /\ atMinio' \in [Uploads -> SUBSET PartNumbers]
        /\ atMinio'[u] = atMinio[u] \cup {ucall[c].part}
        /\ \A v \in Uploads \ {u} : atMinio'[v] = atMinio[v]
    BY <1>1, <2>1, <2>3 DEF MultipartTypeOK
  <2>5. MultipartTypeOK'
    BY <1>1, <2>1, <2>2, <2>4 DEF MultipartTypeOK, UploadRecords
  <2>6. KnownInv'
    BY <1>1, <2>1, <2>2, KnownKept
  <2>7. HeldInv'
    <3>1. \A d \in UploadCalls : ucall'[d].pc \in {"send", "push"} => ucall'[d].part \in PartNumbers
      BY <1>1, <2>2, <2>3 DEF HeldInv
    <3>2. ASSUME NEW v \in Uploads, minio[v] = "open"
          PROVE  /\ ToSet(parts[v]) \subseteq atMinio'[v]
                 /\ \A d \in UploadCalls : At(d, "push", v)' => ucall'[d].part \in atMinio'[v]
      BY <1>1, <2>2, <2>4, <3>2, ZenonT(40) DEF HeldInv, At
    <3> QED
      BY <2>1, <3>1, <3>2 DEF HeldInv
  <2>8. WholeInv'
    <3>1. \A d \in UploadCalls, v \in Uploads : At(d, "assemble", v)' => At(d, "assemble", v)
      BY <2>2 DEF At
    <3> QED
      BY <1>1, <1>4, <2>1, <2>4, <3>1 DEF WholeInv
  <2>9. RowInv'
    BY <1>1, <2>1, <2>2, RowsKept
  <2> QED
    BY <2>5, <2>6, <2>7, <2>8, <2>9 DEF UploadInv
<1>5. ASSUME NEW u \in Uploads, NEW c \in UploadCalls, ucall[c].pc \notin {"idle", "save"},
             ucall[c].upload = u, Return(c), session' \subseteq session,
             UNCHANGED <<parts, minio, atMinio, fileRows, sends, trouble>>
      PROVE  UploadInv'
  <2>1. /\ ucall' \in [UploadCalls -> UploadRecords] /\ ucall'[c].pc = "idle"
        /\ \A d \in UploadCalls \ {c} : ucall'[d] = ucall[d]
    BY <1>1, <1>5, Returns
  <2> QED
    BY <1>1, <1>5, <2>1, QuietCall
<1>6. ASSUME NEW u \in Uploads, NEW c \in UploadCalls, PushPart(c, u) PROVE UploadInv'
  <2>1. /\ ucall[c].pc = "push" /\ ucall[c].upload = u /\ Return(c)
        /\ parts' = [parts EXCEPT ![u] = Append(@, ucall[c].part)] /\ session' = session \cup {u}
        /\ UNCHANGED <<minio, atMinio, fileRows, sends, trouble>>
    BY <1>6 DEF PushPart, At
  <2>2. /\ ucall' \in [UploadCalls -> UploadRecords] /\ ucall'[c].pc = "idle"
        /\ \A d \in UploadCalls \ {c} : ucall'[d] = ucall[d]
    BY <1>1, <2>1, Returns
  <2>3. ucall[c].part \in PartNumbers
    BY <1>1, <2>1 DEF HeldInv
  <2>4. /\ parts' \in [Uploads -> Seq(PartNumbers)]
        /\ parts'[u] = Append(parts[u], ucall[c].part)
        /\ \A v \in Uploads \ {u} : parts'[v] = parts[v]
    BY <1>1, <2>1, <2>3, Appended DEF MultipartTypeOK
  <2>5. /\ Len(parts'[u]) = Len(parts[u]) + 1 /\ Len(parts[u]) \in Nat
        /\ ToSet(parts'[u]) = ToSet(parts[u]) \cup {ucall[c].part}
        /\ IsInjective(parts'[u]) => IsInjective(parts[u])
    BY <1>1, <2>3, <2>4, Appended, Shortened
  <2>6. MultipartTypeOK'
    BY <1>1, <2>1, <2>2, <2>4 DEF MultipartTypeOK, UploadRecords
  <2>7. KnownInv'
    BY <1>1, <2>1, <2>2, <2>4, KnownKept
  <2>8. HeldInv'
    <3>1. \A d \in UploadCalls : ucall'[d].pc \in {"send", "push"} => ucall'[d].part \in PartNumbers
      BY <1>1, <2>2 DEF HeldInv
    <3>2. minio[u] = "open" => ucall[c].part \in atMinio[u]
      BY <1>1, <2>1 DEF HeldInv, At
    <3>3. ASSUME NEW v \in Uploads, minio[v] = "open"
          PROVE  /\ ToSet(parts'[v]) \subseteq atMinio[v]
                 /\ \A d \in UploadCalls : At(d, "push", v)' => ucall'[d].part \in atMinio[v]
      BY <1>1, <2>2, <2>4, <2>5, <3>2, <3>3 DEF HeldInv, At
    <3> QED
      BY <2>1, <3>1, <3>3 DEF HeldInv
  <2>9. WholeInv'
    <3>1. \A d \in UploadCalls, v \in Uploads : At(d, "assemble", v)' => At(d, "assemble", v)
      BY <2>2 DEF At
    <3>2. ASSUME NEW v \in Uploads PROVE Len(parts[v]) >= PartCount => Len(parts'[v]) >= PartCount
      BY <2>4, <2>5, MultipartAssumption
    <3>3. ASSUME NEW v \in Uploads PROVE IsInjective(parts'[v]) => IsInjective(parts[v])
      BY <2>4, <2>5
    <3> QED
      BY <1>1, <2>1, <3>1, <3>2, <3>3 DEF WholeInv
  <2>10. RowInv'
    BY <1>1, <2>1, <2>2, RowsKept
  <2> QED
    BY <2>6, <2>7, <2>8, <2>9, <2>10 DEF UploadInv
<1>7. ASSUME NEW u \in Uploads, NEW c \in UploadCalls, CompleteUpload(c, u) PROVE UploadInv'
  <2>1. /\ u \in session /\ Len(parts[u]) = PartCount /\ Begin(c, "assemble", u, 0)
        /\ UNCHANGED <<session, parts, minio, atMinio, fileRows, sends, trouble>>
    BY <1>7 DEF CompleteUpload
  <2>2. /\ ucall' \in [UploadCalls -> UploadRecords]
        /\ ucall'[c].pc = "assemble" /\ ucall'[c].upload = u
        /\ \A d \in UploadCalls \ {c} : ucall'[d] = ucall[d]
        /\ ucall[c].pc = "idle"
    <3>1. 0 \in 0..PartCount
      BY MultipartAssumption
    <3> QED
      BY <1>1, <2>1, <3>1, Begins
  <2>3. MultipartTypeOK'
    BY <1>1, <2>1, <2>2 DEF MultipartTypeOK, UploadRecords
  <2>4. KnownInv'
    <3>1. u \in session \/ (ucall[c].pc # "idle" /\ ucall[c].upload = u)
      BY <2>1
    <3> QED
      BY <1>1, <2>1, <2>2, <3>1, KnownKept
  <2>5. HeldInv'
    <3>1. \A d \in UploadCalls : ucall'[d].pc \in {"send", "push"} => ucall'[d].part \in PartNumbers
      BY <1>1, <2>2 DEF HeldInv
    <3>2. \A d \in UploadCalls, v \in Uploads : At(d, "push", v)' => d # c /\ At(d, "push", v)
      BY <2>2 DEF At
    <3>3. ASSUME NEW v \in Uploads, minio[v] = "open"
          PROVE  /\ ToSet(parts[v]) \subseteq atMinio[v]
                 /\ \A d \in UploadCalls : At(d, "push", v)' => ucall'[d].part \in atMinio[v]
      BY <1>1, <2>2, <3>2, <3>3 DEF HeldInv
    <3> QED
      BY <2>1, <3>1, <3>3 DEF HeldInv
  <2>6. WholeInv'
    <3>1. ASSUME NEW d \in UploadCalls, NEW v \in Uploads, At(d, "assemble", v)'
          PROVE  Len(parts[v]) >= PartCount
      <4>1. CASE d = c
        BY <2>1, <2>2, <3>1, <4>1, MultipartAssumption DEF At
      <4>2. CASE d # c
        BY <1>1, <2>2, <3>1, <4>2 DEF WholeInv, At
      <4> QED
        BY <4>1, <4>2
    <3> QED
      BY <1>1, <2>1, <3>1 DEF WholeInv
  <2>7. RowInv'
    BY <1>1, <2>1, <2>2, RowsKept
  <2> QED
    BY <2>3, <2>4, <2>5, <2>6, <2>7 DEF UploadInv
<1>8. ASSUME NEW u \in Uploads, NEW c \in UploadCalls, At(c, "assemble", u), minio[u] = "open",
             minio' = [minio EXCEPT ![u] = "assembled"], Goto(c, "save"),
             atMinio' = [atMinio EXCEPT ![u] = ToSet(parts[u])],
             UNCHANGED <<session, parts, fileRows, sends, trouble>>
      PROVE  UploadInv'
  <2>1. /\ ucall[c].pc = "assemble" /\ ucall[c].upload = u /\ Len(parts[u]) >= PartCount
        /\ parts[u] \in Seq(1..PartCount) /\ PartCount \in Nat
    BY <1>1, <1>8, MultipartAssumption DEF At, WholeInv, PartNumbers
  <2>2. /\ ucall' \in [UploadCalls -> UploadRecords]
        /\ ucall'[c].pc = "save" /\ ucall'[c].upload = u
        /\ \A d \in UploadCalls \ {c} : ucall'[d] = ucall[d]
    BY <1>1, <1>8, <2>1, Goes
  <2>3. ToSet(parts[u]) \subseteq PartNumbers /\ (IsInjective(parts[u]) => ToSet(parts[u]) = PartNumbers)
    BY <2>1, Ranges, Distinct DEF PartNumbers
  <2>4. /\ minio' \in [Uploads -> {"none", "open", "assembled", "aborted"}]
        /\ minio'[u] = "assembled" /\ \A v \in Uploads \ {u} : minio'[v] = minio[v]
    BY <1>1, <1>8 DEF MultipartTypeOK
  <2>5. /\ atMinio' \in [Uploads -> SUBSET PartNumbers]
        /\ atMinio'[u] = ToSet(parts[u]) /\ \A v \in Uploads \ {u} : atMinio'[v] = atMinio[v]
    BY <1>1, <1>8, <2>3 DEF MultipartTypeOK
  <2>6. MultipartTypeOK'
    BY <1>1, <1>8, <2>2, <2>4, <2>5 DEF MultipartTypeOK, UploadRecords
  <2>7. KnownInv'
    BY <1>1, <1>8, <2>1, <2>2, <2>4, KnownKept
  <2>8. HeldInv'
    <3>1. \A d \in UploadCalls : ucall'[d].pc \in {"send", "push"} => ucall'[d].part \in PartNumbers
      BY <1>1, <2>2 DEF HeldInv
    <3>2. ASSUME NEW v \in Uploads, minio'[v] = "open"
          PROVE  /\ ToSet(parts[v]) \subseteq atMinio'[v]
                 /\ \A d \in UploadCalls : At(d, "push", v)' => ucall'[d].part \in atMinio'[v]
      BY <1>1, <2>2, <2>4, <2>5, <3>2 DEF HeldInv, At
    <3> QED
      BY <1>8, <3>1, <3>2 DEF HeldInv
  <2>9. WholeInv'
    <3>1. \A d \in UploadCalls, v \in Uploads : At(d, "assemble", v)' => At(d, "assemble", v)
      BY <2>2 DEF At
    <3> QED
      BY <1>1, <1>8, <2>3, <2>4, <2>5, <3>1 DEF WholeInv
  <2>10. RowInv'
    <3>1. fileRows[u] = 0 /\ \A d \in UploadCalls : ~At(d, "save", u)
      BY <1>1, <1>8 DEF RowInv, MultipartTypeOK
    <3>2. \A d \in UploadCalls : At(d, "save", u)' <=> d = c
      BY <2>2, <3>1 DEF At
    <3>3. \A d \in UploadCalls, v \in Uploads \ {u} : At(d, "save", v)' <=> At(d, "save", v)
      BY <2>1, <2>2 DEF At
    <3>4. ASSUME NEW v \in Uploads
          PROVE  /\ fileRows[v] <= 1 /\ (fileRows[v] = 1 => minio'[v] = "assembled")
                 /\ \A d \in UploadCalls : At(d, "save", v)' => minio'[v] = "assembled" /\ fileRows[v] = 0
                 /\ \A d, e \in UploadCalls : At(d, "save", v)' /\ At(e, "save", v)' => d = e
                 /\ minio'[v] = "assembled" /\ fileRows[v] = 0 =>
                       trouble > 0 \/ \E d \in UploadCalls : At(d, "save", v)'
      <4>1. CASE v = u
        BY <2>4, <3>1, <3>2, <4>1
      <4>2. CASE v # u
        BY <1>1, <2>4, <3>3, <4>2 DEF RowInv
      <4> QED
        BY <4>1, <4>2
    <3> QED
      BY <1>8, <3>4 DEF RowInv
  <2> QED
    BY <2>6, <2>7, <2>8, <2>9, <2>10 DEF UploadInv
<1>9. ASSUME NEW u \in Uploads, NEW c \in UploadCalls, SaveRow(c, u) PROVE UploadInv'
  <2>1. /\ ucall[c].pc = "save" /\ ucall[c].upload = u /\ Goto(c, "publish")
        /\ fileRows' = [fileRows EXCEPT ![u] = @ + 1] /\ session' \subseteq session
        /\ UNCHANGED <<parts, minio, atMinio, sends, trouble>>
    BY <1>9 DEF SaveRow, At
  <2>2. /\ ucall' \in [UploadCalls -> UploadRecords]
        /\ ucall'[c].pc = "publish" /\ ucall'[c].upload = u
        /\ \A d \in UploadCalls \ {c} : ucall'[d] = ucall[d]
    BY <1>1, <2>1, Goes
  <2>3. /\ minio[u] = "assembled" /\ fileRows[u] = 0
        /\ \A d \in UploadCalls \ {c} : ~At(d, "save", u)
    BY <1>1, <2>1 DEF RowInv, At
  <2>4. /\ fileRows' \in [Uploads -> Nat] /\ fileRows'[u] = 1
        /\ \A v \in Uploads \ {u} : fileRows'[v] = fileRows[v]
    BY <1>1, <2>1, <2>3 DEF MultipartTypeOK
  <2>5. MultipartTypeOK'
    BY <1>1, <2>1, <2>2, <2>4 DEF MultipartTypeOK, UploadRecords
  <2>6. KnownInv'
    BY <1>1, <2>1, <2>2, KnownKept
  <2>7. HeldInv' /\ WholeInv'
    BY <1>1, <2>1, <2>2, PartsKept
  <2>8. RowInv'
    <3>1. \A d \in UploadCalls : ~At(d, "save", u)'
      BY <2>2, <2>3 DEF At
    <3>2. \A d \in UploadCalls, v \in Uploads \ {u} : At(d, "save", v)' <=> At(d, "save", v)
      BY <2>1, <2>2 DEF At
    <3>3. ASSUME NEW v \in Uploads
          PROVE  /\ fileRows'[v] <= 1 /\ (fileRows'[v] = 1 => minio[v] = "assembled")
                 /\ \A d \in UploadCalls : At(d, "save", v)' => minio[v] = "assembled" /\ fileRows'[v] = 0
                 /\ \A d, e \in UploadCalls : At(d, "save", v)' /\ At(e, "save", v)' => d = e
                 /\ minio[v] = "assembled" /\ fileRows'[v] = 0 =>
                       trouble > 0 \/ \E d \in UploadCalls : At(d, "save", v)'
      <4>1. CASE v = u
        BY <2>3, <2>4, <3>1, <4>1
      <4>2. CASE v # u
        BY <1>1, <2>4, <3>2, <4>2 DEF RowInv
      <4> QED
        BY <4>1, <4>2
    <3> QED
      BY <2>1, <3>3 DEF RowInv
  <2> QED
    BY <2>5, <2>6, <2>7, <2>8 DEF UploadInv
<1>10. ASSUME NEW u \in Uploads, NEW c \in UploadCalls, AbortUpload(c, u) PROVE UploadInv'
  <2>1. /\ u \in session /\ Begin(c, "abort", u, 0)
        /\ UNCHANGED <<session, parts, minio, atMinio, fileRows, sends, trouble>>
    BY <1>10 DEF AbortUpload
  <2>2. /\ ucall' \in [UploadCalls -> UploadRecords]
        /\ ucall'[c].pc = "abort" /\ ucall'[c].upload = u
        /\ \A d \in UploadCalls \ {c} : ucall'[d] = ucall[d]
        /\ ucall[c].pc = "idle"
    <3>1. 0 \in 0..PartCount
      BY MultipartAssumption
    <3> QED
      BY <1>1, <2>1, <3>1, Begins
  <2>3. u \in session \/ (ucall[c].pc # "idle" /\ ucall[c].upload = u)
    BY <2>1
  <2> QED
    BY <1>1, <2>1, <2>2, <2>3, QuietCall
<1>11. ASSUME NEW u \in Uploads, NEW c \in UploadCalls, At(c, "abort", u), minio[u] = "open",
              minio' = [minio EXCEPT ![u] = "aborted"], Goto(c, "forget"),
              atMinio' = [atMinio EXCEPT ![u] = {}],
              UNCHANGED <<session, parts, fileRows, sends, trouble>>
       PROVE  UploadInv'
  <2>1. ucall[c].pc = "abort" /\ ucall[c].upload = u
    BY <1>11 DEF At
  <2>2. /\ ucall' \in [UploadCalls -> UploadRecords]
        /\ ucall'[c].pc = "forget" /\ ucall'[c].upload = u
        /\ \A d \in UploadCalls \ {c} : ucall'[d] = ucall[d]
    BY <1>1, <1>11, <2>1, Goes
  <2>3. /\ minio' \in [Uploads -> {"none", "open", "assembled", "aborted"}]
        /\ minio'[u] = "aborted" /\ \A v \in Uploads \ {u} : minio'[v] = minio[v]
        /\ atMinio' \in [Uploads -> SUBSET PartNumbers]
        /\ \A v \in Uploads \ {u} : atMinio'[v] = atMinio[v]
    BY <1>1, <1>11 DEF MultipartTypeOK
  <2>4. MultipartTypeOK'
    BY <1>1, <1>11, <2>2, <2>3 DEF MultipartTypeOK, UploadRecords
  <2>5. KnownInv'
    BY <1>1, <1>11, <2>1, <2>2, <2>3, KnownKept, SMTT(30)
  <2>6. HeldInv'
    <3>1. \A d \in UploadCalls : ucall'[d].pc \in {"send", "push"} => ucall'[d].part \in PartNumbers
      BY <1>1, <2>2 DEF HeldInv
    <3>2. ASSUME NEW v \in Uploads, minio'[v] = "open"
          PROVE  /\ ToSet(parts[v]) \subseteq atMinio'[v]
                 /\ \A d \in UploadCalls : At(d, "push", v)' => ucall'[d].part \in atMinio'[v]
      BY <1>1, <2>2, <2>3, <3>2 DEF HeldInv, At
    <3> QED
      BY <1>11, <3>1, <3>2 DEF HeldInv
  <2>7. WholeInv'
    <3>1. \A d \in UploadCalls, v \in Uploads : At(d, "assemble", v)' => At(d, "assemble", v)
      BY <2>2 DEF At
    <3> QED
      BY <1>1, <1>11, <2>3, <3>1 DEF WholeInv
  <2>8. RowInv'
    BY <1>1, <1>11, <2>1, <2>2, <2>3, RowsKept
  <2> QED
    BY <2>4, <2>5, <2>6, <2>7, <2>8 DEF UploadInv
<1>12. ASSUME Trouble, UNCHANGED <<parts, minio, atMinio, fileRows, sends>>, session' \subseteq session,
              ucall' \in [UploadCalls -> UploadRecords],
              \A d \in UploadCalls : ucall'[d].pc = "idle" \/ ucall'[d] = ucall[d]
       PROVE  UploadInv'
  <2>1. trouble' \in 0..MaxUploadFaults /\ trouble' > 0
    BY <1>1, <1>12, MultipartAssumption DEF Trouble, MultipartTypeOK
  <2>2. MultipartTypeOK'
    BY <1>1, <1>12, <2>1 DEF MultipartTypeOK, UploadRecords
  <2>3. \A d \in UploadCalls, v \in Uploads :
          /\ At(d, "push", v)' => At(d, "push", v) /\ ucall'[d] = ucall[d]
          /\ At(d, "assemble", v)' => At(d, "assemble", v)
          /\ At(d, "save", v)' => At(d, "save", v)
    BY <1>12 DEF At
  <2>4. KnownInv'
    BY <1>1, <1>12 DEF KnownInv
  <2>5. HeldInv'
    <3>1. \A d \in UploadCalls : ucall'[d].pc \in {"send", "push"} => ucall'[d].part \in PartNumbers
      BY <1>1, <1>12 DEF HeldInv
    <3>2. ASSUME NEW v \in Uploads, minio[v] = "open"
          PROVE  /\ ToSet(parts[v]) \subseteq atMinio[v]
                 /\ \A d \in UploadCalls : At(d, "push", v)' => ucall'[d].part \in atMinio[v]
      BY <1>1, <2>3, <3>2 DEF HeldInv
    <3> QED
      BY <1>12, <3>1, <3>2 DEF HeldInv
  <2>6. WholeInv'
    BY <1>1, <1>12, <2>3 DEF WholeInv
  <2>7. RowInv'
    <3>1. ASSUME NEW v \in Uploads
          PROVE  /\ fileRows[v] <= 1 /\ (fileRows[v] = 1 => minio[v] = "assembled")
                 /\ \A d \in UploadCalls : At(d, "save", v)' => minio[v] = "assembled" /\ fileRows[v] = 0
                 /\ \A d, e \in UploadCalls : At(d, "save", v)' /\ At(e, "save", v)' => d = e
      BY <1>1, <2>3 DEF RowInv
    <3> QED
      BY <1>12, <2>1, <3>1 DEF RowInv
  <2> QED
    BY <2>2, <2>4, <2>5, <2>6, <2>7 DEF UploadInv
<1>13. ASSUME NEW u \in Uploads, NEW c \in UploadCalls, StorePart(c, u) PROVE UploadInv'
  <2>1. minio[u] = "open" => UploadInv'
    BY <1>4, <1>13
  <2>2. minio[u] # "open" => UploadInv'
    BY <1>5, <1>13 DEF StorePart, At
  <2> QED
    BY <2>1, <2>2
<1>14. ASSUME NEW u \in Uploads, NEW c \in UploadCalls, Assemble(c, u) PROVE UploadInv'
  <2>1. At(c, "assemble", u) /\ UNCHANGED <<session, parts, fileRows, sends, trouble>>
    BY <1>14 DEF Assemble
  <2>2. CASE minio[u] = "open" /\ minio' = [minio EXCEPT ![u] = "assembled"]
             /\ atMinio' = [atMinio EXCEPT ![u] = ToSet(parts[u])] /\ Goto(c, "save")
    BY <1>8, <2>1, <2>2
  <2>3. CASE Return(c) /\ UNCHANGED <<minio, atMinio>>
    <3>1. ucall[c].pc = "assemble" /\ ucall[c].upload = u
      BY <2>1 DEF At
    <3> QED
      BY <1>5, <2>1, <2>3, <3>1
  <2> QED
    BY <1>14, <2>2, <2>3 DEF Assemble
<1>15. ASSUME NEW u \in Uploads, NEW c \in UploadCalls, Publish(c, u) PROVE UploadInv'
  BY <1>5, <1>15 DEF Publish, At
<1>16. ASSUME NEW u \in Uploads, NEW c \in UploadCalls, Drop(c, u) PROVE UploadInv'
  <2>1. minio[u] = "open" => UploadInv'
    BY <1>11, <1>16 DEF Drop
  <2>2. minio[u] # "open" => UploadInv'
    BY <1>5, <1>16 DEF Drop, At
  <2> QED
    BY <2>1, <2>2
<1>17. ASSUME NEW u \in Uploads, NEW c \in UploadCalls, Forget(c, u) PROVE UploadInv'
  BY <1>5, <1>17 DEF Forget, At
<1>18. ASSUME NEW c \in UploadCalls, CommandFails(c) PROVE UploadInv'
  <2>1. /\ Trouble /\ Return(c) /\ UNCHANGED <<session, parts, minio, atMinio, fileRows, sends>>
    BY <1>18 DEF CommandFails
  <2>2. /\ ucall' \in [UploadCalls -> UploadRecords] /\ ucall'[c].pc = "idle"
        /\ \A d \in UploadCalls \ {c} : ucall'[d] = ucall[d]
    BY <1>1, <2>1, Returns
  <2> QED
    BY <1>12, <2>1, <2>2
<1>19. CASE StorageRestart
  <2>1. ucall' \in [UploadCalls -> UploadRecords] /\ \A d \in UploadCalls : ucall'[d].pc = "idle"
    BY <1>19, NoCallTyped DEF StorageRestart
  <2> QED
    BY <1>12, <1>19, <2>1 DEF StorageRestart
<1>20. CASE UNCHANGED uploadVars
  BY <1>1, <1>20 DEF uploadVars, UploadInv, MultipartTypeOK, KnownInv, HeldInv, WholeInv, RowInv, At
<1> QED
  BY <1>2, <1>3, <1>6, <1>7, <1>9, <1>10, <1>13, <1>14, <1>15, <1>16, <1>17, <1>18, <1>19, <1>20
  DEF MultipartNext

LEMMA UploadsWhole == ASSUME UploadInv PROVE UploadsStayWhole
<1>1. ASSUME NEW u \in Uploads, IsInjective(parts[u]) PROVE Progress(u) <= 100
  BY <1>1, Percentages DEF UploadInv
<1> QED
  BY <1>1 DEF UploadInv, HeldInv, WholeInv, RowInv, UploadsStayWhole

\* The Redis sessions, MinIO's parts and the calls in flight keep their types.
THEOREM UploadsTyped == MultipartSpec => []MultipartTypeOK
<1>1. MultipartSpec => []UploadInv
  BY UploadInitially, UploadSteps, PTL DEF MultipartSpec
<1> QED
  BY <1>1, PTL DEF UploadInv

\* However uploadPart, completeUpload and abortUpload interleave and fail, an object
\* is assembled from all its parts unless a part was counted twice, and it gets one
\* row of the table files at most.
THEOREM UploadsAreWhole == MultipartSpec => []UploadsStayWhole
<1>1. MultipartSpec => []UploadInv
  BY UploadInitially, UploadSteps, PTL DEF MultipartSpec
<1> QED
  BY <1>1, UploadsWhole, PTL

-----------------------------------------------------------------------------
(* EdgeDelivery: how old an answer can get.                                 *)

FetchRecords == [pc : {"idle", "gwGet", "edgeGet", "edgeTtl", "diskGet", "originGet", "reply"},
                 keep : BOOLEAN, answer : AnswerSet, old : BOOLEAN]
GwWrites == [pc : {"idle", "redis"}, keep : {FALSE}, answer : AnswerSet, old : BOOLEAN]
EdgeWrites == [pc : {"idle", "redisOnly", "redis", "disk"}, keep : {FALSE}, answer : AnswerSet, old : BOOLEAN]

\* Whoever carries an answer does so over one tick at most.
Late(flight) == IF flight.old THEN 1 ELSE 0

\* How long an answer says that it lasts; a max-age of another entry says
\* nothing of the body, which was made for one tick at least.
Promise(answer) ==
    answer.age + (IF answer.mixed \/ answer.maxAge = 0 THEN 1 ELSE answer.maxAge)

\* An entry has aged by what its TTL has lost since it was written.  Nothing on
\* disk is fresh, so that what the edge stores comes straight from the origin.
EdgeAges ==
    /\ edgeDisk.sinceCreated = EdgeTtl + 1
    /\ edgeRedis.answer.age + edgeRedis.ttl <= EdgeTtl + 1
    /\ edgeRedis.ttl = 0 => edgeRedis.answer.age = 0
    /\ Promise(gwCache.answer) + gwCache.ttl <= EdgeTtl + GwTtl + 3
    /\ gwCache.ttl = 0 => Promise(gwCache.answer) = 1
    /\ \A q \in Fetches :
        /\ Promise(fetch[q].answer) <= EdgeTtl + 1 + Late(fetch[q])
        /\ Promise(gwWrite[q].answer) <= EdgeTtl + 2 + Late(gwWrite[q])
        /\ edgeWrite[q].answer.age <= Late(edgeWrite[q])
EdgeInv == EdgeTypeOK /\ EdgeAges

LEMMA AnswerFacts ==
    ASSUME NEW a \in AnswerSet
    PROVE  /\ a.age \in Nat /\ a.maxAge \in Nat /\ Promise(a) \in Nat /\ EdgeTtl \in Nat /\ GwTtl \in Nat
           /\ a.age <= MaxAge /\ a.maxAge <= EdgeTtl
           /\ a.age + 1 <= Promise(a)
           /\ ~a.mixed => a.age + a.maxAge <= Promise(a)
           /\ Body(a) \in AnswerSet /\ Body(a).age = a.age /\ Promise(Body(a)) = a.age + 1
<1>1. MaxAge \in Nat /\ EdgeTtl \in Nat /\ GwTtl \in Nat
  BY EdgeAssumption DEF MaxAge
<1>2. a.age \in 0..MaxAge /\ a.maxAge \in 0..EdgeTtl
  BY DEF AnswerSet
<1>3. Body(a) \in AnswerSet /\ Body(a).age = a.age /\ Body(a).maxAge = 0
  <2>1. PICK zero \in 0..EdgeTtl : zero = 0
    BY <1>1
  <2>4. PICK no \in BOOLEAN : no = FALSE
    BY Zenon
  <2> DEFINE b == [a EXCEPT !.maxAge = zero, !.mixed = no]
  <2>2. b \in AnswerSet /\ b.age = a.age /\ b.maxAge = zero
    BY DEF AnswerSet
  <2>3. Body(a) = b
    BY <2>1, <2>4, Zenon DEF Body
  <2> QED
    BY <2>1, <2>2, <2>3
<1>4. Promise(a) = a.age + 1 \/ (~a.mixed /\ a.maxAge # 0 /\ Promise(a) = a.age + a.maxAge)
  BY DEF Promise
<1>5. Promise(Body(a)) = a.age + 1
  BY <1>3 DEF Promise
<1>6. ~a.mixed => a.age + a.maxAge <= Promise(a)
  BY <1>1, <1>2 DEF Promise
<1> QED
  BY <1>1, <1>2, <1>3, <1>4, <1>5, <1>6

LEMMA NoAnswerFacts == NoAnswer \in AnswerSet /\ NoAnswer.age = 0 /\ Promise(NoAnswer) = 1
  BY EdgeAssumption DEF NoAnswer, AnswerSet, Promise, MaxAge

LEMMA OlderFacts ==
    ASSUME NEW a \in AnswerSet
    PROVE  /\ Older(a) \in AnswerSet
           /\ Older(a).age <= a.age + 1 /\ Promise(Older(a)) <= Promise(a) + 1
<1>1. MaxAge \in Nat
  BY EdgeAssumption DEF MaxAge
<1>2. CASE a.kind = "none" \/ a.age = MaxAge
  <2>1. Older(a) = a
    BY <1>2 DEF Older
  <2> QED
    BY <2>1, AnswerFacts
<1>3. CASE ~(a.kind = "none" \/ a.age = MaxAge)
  <2>1. Older(a) = [a EXCEPT !.age = @ + 1]
    BY <1>3 DEF Older
  <2>2. a.age + 1 \in 0..MaxAge
    BY <1>1, <1>3, AnswerFacts
  <2> QED
    BY <2>1, <2>2, AnswerFacts DEF AnswerSet, Promise
<1> QED
  BY <1>2, <1>3

\* What the two operations on a cache entry leave of it.
LEMMA AgedFacts ==
    ASSUME NEW ttl \in Nat, NEW entry \in [answer : AnswerSet, ttl : 0..ttl]
    PROVE  /\ Aged(entry) \in [answer : AnswerSet, ttl : 0..ttl]
           /\ \/ entry.ttl <= 1 /\ Aged(entry) = NoEntry
              \/ /\ Aged(entry).ttl = entry.ttl - 1 /\ entry.ttl > 1
                 /\ Aged(entry).answer.age <= entry.answer.age + 1
                 /\ Promise(Aged(entry).answer) <= Promise(entry.answer) + 1
<1>1. NoEntry \in [answer : AnswerSet, ttl : 0..ttl]
  BY NoAnswerFacts DEF NoEntry, Entry
<1>2. CASE entry.ttl <= 1
  BY <1>1, <1>2 DEF Aged
<1>3. CASE ~(entry.ttl <= 1)
  <2>1. Aged(entry) = Entry(Older(entry.answer), entry.ttl - 1)
    BY <1>3 DEF Aged
  <2>2. entry.answer \in AnswerSet /\ entry.ttl \in 0..ttl /\ entry.ttl > 1
    BY <1>3
  <2>3. Aged(entry).ttl = entry.ttl - 1 /\ Aged(entry).answer = Older(entry.answer)
    BY <2>1 DEF Entry
  <2>4. entry.ttl - 1 \in 0..ttl /\ Older(entry.answer) \in AnswerSet
    BY <2>2, OlderFacts
  <2> QED
    BY <2>1, <2>2, <2>3, <2>4, OlderFacts DEF Entry
<1> QED
  BY <1>2, <1>3

LEMMA NoEntryFacts ==
    NoEntry.ttl = 0 /\ NoEntry.answer.age = 0 /\ Promise(NoEntry.answer) = 1 /\ NoEntry.answer \in AnswerSet
  BY NoAnswerFacts DEF NoEntry, Entry

LEMMA LandedFacts ==
    /\ Landed \in FetchRecords /\ Landed \in GwWrites /\ Landed \in EdgeWrites
    /\ Landed.answer = NoAnswer /\ Landed.old = FALSE /\ Late(Landed) = 0
  BY NoAnswerFacts DEF Landed, Flight, FetchRecords, GwWrites, EdgeWrites, Late

LEMMA LateFacts == \A flight : Late(flight) \in {0, 1}
  BY DEF Late

LEMMA EdgeTypes ==
    ASSUME EdgeTypeOK
    PROVE  /\ fetch \in [Fetches -> FetchRecords]
           /\ gwWrite \in [Fetches -> GwWrites] /\ edgeWrite \in [Fetches -> EdgeWrites]
           /\ gwCache \in [answer : AnswerSet, ttl : 0..GwTtl]
           /\ edgeRedis \in [answer : AnswerSet, ttl : 0..EdgeTtl]
           /\ edgeDisk \in [answer : AnswerSet, sinceCreated : 0..EdgeTtl + 1]
           /\ gwCache.answer \in AnswerSet /\ gwCache.ttl \in 0..GwTtl
           /\ edgeRedis.answer \in AnswerSet /\ edgeRedis.ttl \in 0..EdgeTtl
           /\ edgeDisk.answer \in AnswerSet
           /\ \A q \in Fetches : /\ fetch[q] \in FetchRecords /\ fetch[q].answer \in AnswerSet
                                 /\ gwWrite[q] \in GwWrites /\ gwWrite[q].answer \in AnswerSet
                                 /\ edgeWrite[q] \in EdgeWrites /\ edgeWrite[q].answer \in AnswerSet
<1>1. /\ fetch \in [Fetches -> FetchRecords]
      /\ gwWrite \in [Fetches -> GwWrites] /\ edgeWrite \in [Fetches -> EdgeWrites]
      /\ gwCache \in [answer : AnswerSet, ttl : 0..GwTtl]
      /\ edgeRedis \in [answer : AnswerSet, ttl : 0..EdgeTtl]
      /\ edgeDisk \in [answer : AnswerSet, sinceCreated : 0..EdgeTtl + 1]
  BY DEF EdgeTypeOK, FetchRecords, GwWrites, EdgeWrites
<1>2. ASSUME NEW q \in Fetches
      PROVE  /\ fetch[q] \in FetchRecords /\ fetch[q].answer \in AnswerSet
             /\ gwWrite[q] \in GwWrites /\ gwWrite[q].answer \in AnswerSet
             /\ edgeWrite[q] \in EdgeWrites /\ edgeWrite[q].answer \in AnswerSet
  <2>1. fetch[q] \in FetchRecords /\ gwWrite[q] \in GwWrites /\ edgeWrite[q] \in EdgeWrites
    BY <1>1
  <2> QED
    BY <2>1 DEF FetchRecords, GwWrites, EdgeWrites
<1> QED
  BY <1>1, <1>2

\* One flight is replaced; the others are untouched.
LEMMA Replaced ==
    ASSUME NEW S, NEW f \in [Fetches -> S], NEW q \in Fetches, NEW r \in S
    PROVE  LET f2 == [f EXCEPT ![q] = r] IN
           /\ f2 \in [Fetches -> S] /\ f2[q] = r
           /\ \A x \in Fetches \ {q} : f2[x] = f[x]
  OBVIOUS

LEMMA EdgeInitially == ASSUME EdgeInit PROVE EdgeInv
<1> USE EdgeAssumption
<1>1. EdgeTypeOK
  <2>1. NoEntry \in [answer : AnswerSet, ttl : 0..GwTtl] /\ NoEntry \in [answer : AnswerSet, ttl : 0..EdgeTtl]
    BY NoAnswerFacts DEF NoEntry, Entry
  <2>2. OnDisk(NoAnswer) \in [answer : AnswerSet, sinceCreated : 0..EdgeTtl + 1]
    BY NoAnswerFacts DEF OnDisk
  <2> QED
    BY <2>1, <2>2, LandedFacts DEF EdgeInit, EdgeTypeOK, FetchRecords, GwWrites, EdgeWrites
<1>2. EdgeAges
  <2>1. OnDisk(NoAnswer).sinceCreated = EdgeTtl + 1
    BY DEF OnDisk
  <2> QED
    BY <2>1, LandedFacts, NoEntryFacts, NoAnswerFacts DEF EdgeInit, EdgeAges
<1> QED
  BY <1>1, <1>2 DEF EdgeInv

\* The fetches, the gateway's side and the edge's side keep their part of
\* EdgeInv; an action that leaves one side alone keeps it for free.
FetchesFine(f) ==
    /\ f \in [Fetches -> FetchRecords]
    /\ \A q \in Fetches : Promise(f[q].answer) <= EdgeTtl + 1 + Late(f[q])
GatewayFine(entry, f) ==
    /\ entry \in [answer : AnswerSet, ttl : 0..GwTtl]
    /\ Promise(entry.answer) + entry.ttl <= EdgeTtl + GwTtl + 3
    /\ entry.ttl = 0 => Promise(entry.answer) = 1
    /\ f \in [Fetches -> GwWrites]
    /\ \A q \in Fetches : Promise(f[q].answer) <= EdgeTtl + 2 + Late(f[q])
EdgeFine(entry, disk, f) ==
    /\ entry \in [answer : AnswerSet, ttl : 0..EdgeTtl]
    /\ entry.answer.age + entry.ttl <= EdgeTtl + 1
    /\ entry.ttl = 0 => entry.answer.age = 0
    /\ disk \in [answer : AnswerSet, sinceCreated : 0..EdgeTtl + 1]
    /\ disk.sinceCreated = EdgeTtl + 1
    /\ f \in [Fetches -> EdgeWrites]
    /\ \A q \in Fetches : f[q].answer.age <= Late(f[q])

LEMMA EdgeSides ==
    EdgeInv <=> /\ FetchesFine(fetch)
                /\ GatewayFine(gwCache, gwWrite) /\ EdgeFine(edgeRedis, edgeDisk, edgeWrite)
  BY DEF EdgeInv, EdgeTypeOK, EdgeAges, FetchesFine, GatewayFine, EdgeFine, FetchRecords, GwWrites,
     EdgeWrites

LEMMA LandedFine ==
    ASSUME NEW q \in Fetches
    PROVE  /\ \A f : FetchesFine(f) => FetchesFine([f EXCEPT ![q] = Landed])
           /\ \A c, f : GatewayFine(c, f) => GatewayFine(c, [f EXCEPT ![q] = Landed])
           /\ \A c, d, f : EdgeFine(c, d, f) => EdgeFine(c, d, [f EXCEPT ![q] = Landed])
<1>1. ASSUME NEW f, FetchesFine(f) PROVE FetchesFine([f EXCEPT ![q] = Landed])
  <2> DEFINE f2 == [f EXCEPT ![q] = Landed]
  <2>1. f2 \in [Fetches -> FetchRecords] /\ f2[q] = Landed /\ \A x \in Fetches \ {q} : f2[x] = f[x]
    BY <1>1, LandedFacts, Replaced DEF FetchesFine
  <2> QED
    BY <1>1, <2>1, LandedFacts, NoAnswerFacts, EdgeAssumption DEF FetchesFine
<1>2. ASSUME NEW c, NEW f, GatewayFine(c, f) PROVE GatewayFine(c, [f EXCEPT ![q] = Landed])
  <2> DEFINE f2 == [f EXCEPT ![q] = Landed]
  <2>1. f2 \in [Fetches -> GwWrites] /\ f2[q] = Landed /\ \A x \in Fetches \ {q} : f2[x] = f[x]
    BY <1>2, LandedFacts, Replaced DEF GatewayFine
  <2> QED
    BY <1>2, <2>1, LandedFacts, NoAnswerFacts, EdgeAssumption DEF GatewayFine
<1>3. ASSUME NEW c, NEW d, NEW f, EdgeFine(c, d, f) PROVE EdgeFine(c, d, [f EXCEPT ![q] = Landed])
  <2> DEFINE f2 == [f EXCEPT ![q] = Landed]
  <2>1. f2 \in [Fetches -> EdgeWrites] /\ f2[q] = Landed /\ \A x \in Fetches \ {q} : f2[x] = f[x]
    BY <1>3, LandedFacts, Replaced DEF EdgeFine
  <2> QED
    BY <1>3, <2>1, LandedFacts, NoAnswerFacts, EdgeAssumption DEF EdgeFine
<1> QED
  BY <1>1, <1>2, <1>3

LEMMA FlownFine ==
    ASSUME FetchesFine(fetch), NEW q \in Fetches,
           NEW pc \in {"idle", "gwGet", "edgeGet", "edgeTtl", "diskGet", "originGet", "reply"}
    PROVE  FetchesFine([fetch EXCEPT ![q].pc = pc])
<1> DEFINE f2 == [fetch EXCEPT ![q].pc = pc]
<1>1. /\ f2 \in [Fetches -> FetchRecords]
      /\ \A x \in Fetches : f2[x].answer = fetch[x].answer /\ f2[x].old = fetch[x].old
  <2>1. fetch \in [Fetches -> FetchRecords]
    BY DEF FetchesFine
  <2> QED
    BY <2>1 DEF FetchRecords
<1> HIDE DEF f2
<1>2. ASSUME NEW x \in Fetches PROVE Promise(f2[x].answer) <= EdgeTtl + 1 + Late(f2[x])
  <2>1. Late(f2[x]) = Late(fetch[x]) /\ f2[x].answer = fetch[x].answer
    BY <1>1 DEF Late
  <2> QED
    BY <2>1 DEF FetchesFine
<1>3. FetchesFine(f2)
  BY <1>1, <1>2 DEF FetchesFine
<1> QED
  BY <1>3 DEF f2

LEMMA CarriedFine ==
    ASSUME FetchesFine(fetch), NEW q \in Fetches, NEW pc \in {"edgeTtl", "reply"},
           NEW a \in AnswerSet, Promise(a) <= EdgeTtl + 1 + Late(fetch[q])
    PROVE  FetchesFine([fetch EXCEPT ![q].pc = pc, ![q].answer = a])
<1> DEFINE f2 == [fetch EXCEPT ![q].pc = pc, ![q].answer = a]
<1>1. /\ f2 \in [Fetches -> FetchRecords] /\ f2[q].answer = a /\ f2[q].old = fetch[q].old
      /\ \A x \in Fetches \ {q} : f2[x] = fetch[x]
  <2>1. fetch \in [Fetches -> FetchRecords]
    BY DEF FetchesFine
  <2> QED
    BY <2>1 DEF FetchRecords
<1> HIDE DEF f2
<1>2. Late(f2[q]) = Late(fetch[q])
  BY <1>1 DEF Late
<1>3. FetchesFine(f2)
  BY <1>1, <1>2 DEF FetchesFine
<1> QED
  BY <1>3 DEF f2

\* The answer of the origin, and what its storing goroutine starts with.
LEMMA MadeFine ==
    ASSUME NEW q \in Fetches, EdgeFine(edgeRedis, edgeDisk, edgeWrite)
    PROVE  /\ Made(EdgeTtl) \in AnswerSet /\ Promise(Made(EdgeTtl)) = EdgeTtl
           /\ EdgeFine(edgeRedis, edgeDisk, [edgeWrite EXCEPT ![q] = Flight("redis", FALSE, Made(EdgeTtl))])
<1>1. Made(EdgeTtl) \in AnswerSet /\ Promise(Made(EdgeTtl)) = EdgeTtl /\ Made(EdgeTtl).age = 0
  BY EdgeAssumption DEF Made, AnswerSet, Promise, MaxAge
<1> DEFINE r == Flight("redis", FALSE, Made(EdgeTtl))
           f2 == [edgeWrite EXCEPT ![q] = r]
<1>2. r \in EdgeWrites /\ r.answer.age = 0 /\ Late(r) = 0
  BY <1>1 DEF Flight, EdgeWrites, Late
<1>3. f2 \in [Fetches -> EdgeWrites] /\ f2[q] = r /\ \A x \in Fetches \ {q} : f2[x] = edgeWrite[x]
  BY <1>2, Replaced DEF EdgeFine
<1> HIDE DEF r, f2
<1>4. EdgeFine(edgeRedis, edgeDisk, f2)
  BY <1>2, <1>3 DEF EdgeFine
<1> QED
  BY <1>1, <1>4 DEF r, f2

Waited(flight, answer) == [flight EXCEPT !.answer = answer, !.old = TRUE]

LEMMA EdgeSteps == ASSUME EdgeInv, [EdgeNext]_edgeVars PROVE EdgeInv'
<1> USE EdgeAssumption
<1>0. /\ FetchesFine(fetch)
      /\ GatewayFine(gwCache, gwWrite) /\ EdgeFine(edgeRedis, edgeDisk, edgeWrite)
  BY EdgeSides
<1> SUFFICES /\ FetchesFine(fetch')
             /\ GatewayFine(gwCache', gwWrite') /\ EdgeFine(edgeRedis', edgeDisk', edgeWrite')
  BY DEF EdgeInv, EdgeTypeOK, EdgeAges, FetchesFine, GatewayFine, EdgeFine, FetchRecords, GwWrites,
     EdgeWrites
<1>1. ASSUME NEW q \in Fetches, Ask(q) PROVE FetchesFine(fetch')
  <2>1. ASSUME NEW pc \in {"gwGet", "edgeGet"}, NEW keep \in BOOLEAN,
               fetch' = [fetch EXCEPT ![q] = Flight(pc, keep, NoAnswer)]
        PROVE  FetchesFine(fetch')
    <3> DEFINE r == Flight(pc, keep, NoAnswer)
    <3>1. r \in FetchRecords /\ r.answer = NoAnswer /\ Late(r) = 0
      BY NoAnswerFacts DEF Flight, FetchRecords, Late
    <3>2. fetch' \in [Fetches -> FetchRecords] /\ fetch'[q] = r /\ \A x \in Fetches \ {q} : fetch'[x] = fetch[x]
      BY <1>0, <2>1, <3>1, Replaced DEF FetchesFine
    <3> HIDE DEF r
    <3> QED
      BY <1>0, <3>1, <3>2, NoAnswerFacts DEF FetchesFine
  <2> QED
    BY <1>1, <2>1 DEF Ask
<1>2. ASSUME NEW q \in Fetches, GwGet(q) PROVE FetchesFine(fetch')
  BY <1>0, <1>2, LandedFine, FlownFine DEF GwGet, Land, FlyOn
<1>3. ASSUME NEW q \in Fetches, Reply(q) PROVE FetchesFine(fetch') /\ GatewayFine(gwCache, gwWrite')
  <2>1. FetchesFine(fetch')
    BY <1>0, <1>3, LandedFine DEF Reply, Land
  <2> DEFINE r == Flight("redis", FALSE, fetch[q].answer)
             f2 == [gwWrite EXCEPT ![q] = r]
  <2>2. r \in GwWrites /\ Late(r) = 0 /\ r.answer = fetch[q].answer /\ Promise(r.answer) <= EdgeTtl + 2
    <3>1. fetch[q] \in FetchRecords /\ Promise(fetch[q].answer) <= EdgeTtl + 1 + Late(fetch[q])
      BY <1>0 DEF FetchesFine
    <3>2. fetch[q].answer \in AnswerSet
      BY <3>1 DEF FetchRecords
    <3>3. Promise(fetch[q].answer) \in Nat /\ Late(fetch[q]) \in {0, 1}
      BY <3>2, AnswerFacts, LateFacts
    <3> QED
      BY <3>1, <3>2, <3>3 DEF Flight, GwWrites, Late
  <2>3. f2 \in [Fetches -> GwWrites] /\ f2[q] = r /\ \A x \in Fetches \ {q} : f2[x] = gwWrite[x]
    BY <1>0, <2>2, Replaced DEF GatewayFine
  <2>4. gwWrite' \in {gwWrite, f2}
    BY <1>3 DEF Reply
  <2> HIDE DEF r, f2
  <2>5. GatewayFine(gwCache, f2)
    BY <1>0, <2>2, <2>3 DEF GatewayFine
  <2> QED
    BY <1>0, <2>1, <2>4, <2>5
<1>4. ASSUME NEW q \in Fetches, GwStore(q) PROVE GatewayFine(gwCache', gwWrite')
  <2>1. gwWrite[q].answer \in AnswerSet /\ Promise(gwWrite[q].answer) <= EdgeTtl + 3
    <3>1. gwWrite[q] \in GwWrites /\ Promise(gwWrite[q].answer) <= EdgeTtl + 2 + Late(gwWrite[q])
      BY <1>0 DEF GatewayFine
    <3>2. gwWrite[q].answer \in AnswerSet
      BY <3>1 DEF GwWrites
    <3>3. Promise(gwWrite[q].answer) \in Nat /\ Late(gwWrite[q]) \in {0, 1}
      BY <3>2, AnswerFacts, LateFacts
    <3> QED
      BY <3>1, <3>2, <3>3
  <2>2. /\ gwCache' \in [answer : AnswerSet, ttl : 0..GwTtl]
        /\ gwCache'.answer = gwWrite[q].answer /\ gwCache'.ttl = GwTtl
    BY <1>4, <2>1 DEF GwStore, Entry
  <2>3. GatewayFine(gwCache', gwWrite)
    BY <1>0, <2>1, <2>2, AnswerFacts DEF GatewayFine
  <2> QED
    BY <1>4, <2>3, LandedFine DEF GwStore
<1>5. ASSUME NEW q \in Fetches, EdgeGet(q) PROVE FetchesFine(fetch')
  <2>1. CASE edgeRedis.ttl > 0 /\ CarryTo(q, "edgeTtl", Body(edgeRedis.answer))
    <3>1. edgeRedis.answer \in AnswerSet /\ edgeRedis.ttl \in 0..EdgeTtl
          /\ edgeRedis.answer.age + edgeRedis.ttl <= EdgeTtl + 1
      BY <1>0 DEF EdgeFine
    <3>2. /\ Body(edgeRedis.answer) \in AnswerSet /\ edgeRedis.answer.age \in Nat
          /\ Promise(Body(edgeRedis.answer)) = edgeRedis.answer.age + 1
          /\ Late(fetch[q]) \in {0, 1}
      BY <3>1, AnswerFacts, LateFacts
    <3>3. Promise(Body(edgeRedis.answer)) <= EdgeTtl + 1 + Late(fetch[q])
      BY <2>1, <3>1, <3>2
    <3> HIDE DEF Body
    <3> QED
      BY <1>0, <2>1, <3>2, <3>3, CarriedFine DEF CarryTo
  <2>2. CASE FlyOn(q, "diskGet")
    BY <1>0, <2>2, FlownFine DEF FlyOn
  <2> QED
    BY <1>5, <2>1, <2>2 DEF EdgeGet
<1>22. ASSUME NEW q \in Fetches, EdgeGetTtl(q) PROVE FetchesFine(fetch')
  <2>1. PICK left \in {edgeRedis.ttl, 0} :
            Carry(q, [fetch[q].answer EXCEPT
                        !.maxAge = left,
                        !.mixed = left > 0 /\ edgeRedis.answer.age < fetch[q].answer.age])
    BY <1>22 DEF EdgeGetTtl
  <2>2. PICK a : a = fetch[q].answer
    OBVIOUS
  <2>3. PICK mixed \in BOOLEAN : mixed = (left > 0 /\ edgeRedis.answer.age < a.age)
    OBVIOUS
  <2> DEFINE b == [a EXCEPT !.maxAge = left, !.mixed = mixed]
  <2>4. /\ edgeRedis.answer \in AnswerSet /\ edgeRedis.ttl \in 0..EdgeTtl
        /\ edgeRedis.answer.age + edgeRedis.ttl <= EdgeTtl + 1
    BY <1>0 DEF EdgeFine
  <2>5. a \in AnswerSet /\ Promise(a) <= EdgeTtl + 1 + Late(fetch[q])
    BY <1>0, <2>2 DEF FetchesFine, FetchRecords
  <2>6. /\ edgeRedis.answer.age \in Nat /\ a.age \in Nat /\ a.age + 1 <= Promise(a)
        /\ Promise(a) \in Nat /\ Late(fetch[q]) \in {0, 1} /\ left \in 0..EdgeTtl
    BY <2>4, <2>5, AnswerFacts, LateFacts
  <2>7. b \in AnswerSet /\ b.age = a.age /\ b.maxAge = left /\ b.mixed = mixed
    BY <2>5, <2>6 DEF AnswerSet
  <2>8. fetch' = [fetch EXCEPT ![q].pc = "reply", ![q].answer = b]
    BY <2>1, <2>2, <2>3 DEF Carry, CarryTo
  <2> HIDE DEF b
  <2>9. Promise(b) <= EdgeTtl + 1 + Late(fetch[q])
    <3>1. CASE mixed \/ left = 0
      BY <2>5, <2>6, <2>7, <3>1 DEF Promise
    <3>2. CASE ~mixed /\ left # 0
      <4>1. left = edgeRedis.ttl /\ left > 0
        BY <2>6, <3>2
      <4>3. ~(left > 0 /\ edgeRedis.answer.age < a.age)
        BY <2>3, <3>2, Zenon
      <4>4. a.age <= edgeRedis.answer.age
        BY <2>6, <4>1, <4>3
      <4>2. Promise(b) = a.age + left
        BY <2>7, <3>2 DEF Promise
      <4> QED
        BY <2>4, <2>6, <4>1, <4>2, <4>4
    <3> QED
      BY <3>1, <3>2
  <2> QED
    BY <1>0, <2>7, <2>8, <2>9, CarriedFine
<1>6. ASSUME NEW q \in Fetches, DiskGet(q)
      PROVE  FetchesFine(fetch') /\ EdgeFine(edgeRedis, edgeDisk', edgeWrite)
             /\ edgeWrite' = edgeWrite
  <2>1. ~DiskFresh
    BY <1>0 DEF DiskFresh, EdgeFine
  <2>2. fetch' = [fetch EXCEPT ![q].pc = "originGet"] /\ edgeDisk' = OnDisk(NoAnswer) /\ edgeWrite' = edgeWrite
    BY <1>6, <2>1 DEF DiskGet, FlyOn
  <2>3. OnDisk(NoAnswer) \in [answer : AnswerSet, sinceCreated : 0..EdgeTtl + 1]
        /\ OnDisk(NoAnswer).sinceCreated = EdgeTtl + 1
    BY NoAnswerFacts DEF OnDisk
  <2>4. EdgeFine(edgeRedis, edgeDisk', edgeWrite)
    BY <1>0, <2>2, <2>3 DEF EdgeFine
  <2> QED
    BY <1>0, <2>2, <2>4, FlownFine
<1>7. ASSUME NEW q \in Fetches, OriginGet(q)
      PROVE  FetchesFine(fetch') /\ EdgeFine(edgeRedis, edgeDisk, edgeWrite')
  <2>1. /\ fetch' = [fetch EXCEPT ![q].pc = "reply", ![q].answer = Made(EdgeTtl)]
        /\ edgeWrite' = [edgeWrite EXCEPT ![q] = Flight("redis", FALSE, Made(EdgeTtl))]
    BY <1>7 DEF OriginGet, Carry, CarryTo
  <2> DEFINE f2 == [edgeWrite EXCEPT ![q] = Flight("redis", FALSE, Made(EdgeTtl))]
  <2>2. /\ Made(EdgeTtl) \in AnswerSet /\ Promise(Made(EdgeTtl)) = EdgeTtl
        /\ EdgeFine(edgeRedis, edgeDisk, f2)
    BY <1>0, MadeFine
  <2>3. edgeWrite' = f2 /\ Promise(Made(EdgeTtl)) <= EdgeTtl + 1 + Late(fetch[q])
    BY <2>1, <2>2, LateFacts
  <2> HIDE DEF f2
  <2> QED
    BY <1>0, <2>1, <2>2, <2>3, CarriedFine
<1>23. ASSUME NEW q \in Fetches, OriginFails(q) PROVE FetchesFine(fetch')
  <2>1. fetch' = [fetch EXCEPT ![q].pc = "reply", ![q].answer = Made(0)]
    BY <1>23 DEF OriginFails, Carry, CarryTo
  <2>2. Made(0) \in AnswerSet /\ Promise(Made(0)) = 1
    BY DEF Made, AnswerSet, Promise, MaxAge
  <2>3. Promise(Made(0)) <= EdgeTtl + 1 + Late(fetch[q])
    BY <2>2, LateFacts
  <2> QED
    BY <1>0, <2>1, <2>2, <2>3, CarriedFine
<1>8. ASSUME NEW q \in Fetches, EdgeStore(q) PROVE EdgeFine(edgeRedis', edgeDisk, edgeWrite')
  <2>1. edgeWrite \in [Fetches -> EdgeWrites] /\ edgeWrite[q] \in EdgeWrites
        /\ edgeWrite[q].answer.age <= Late(edgeWrite[q])
    BY <1>0 DEF EdgeFine
  <2>2. edgeWrite[q].answer \in AnswerSet /\ edgeWrite[q].answer.age <= 1 /\ edgeWrite[q].answer.age \in Nat
    <3>1. edgeWrite[q].answer \in AnswerSet
      BY <2>1 DEF EdgeWrites
    <3>2. edgeWrite[q].answer.age \in Nat /\ Late(edgeWrite[q]) \in {0, 1}
      BY <3>1, AnswerFacts, LateFacts
    <3> QED
      BY <2>1, <3>1, <3>2
  <2> DEFINE e2 == Entry(edgeWrite[q].answer, EdgeTtl)
  <2>3. /\ e2 \in [answer : AnswerSet, ttl : 0..EdgeTtl]
        /\ e2.answer.age + e2.ttl <= EdgeTtl + 1 /\ e2.ttl # 0
    BY <2>2 DEF Entry
  <2> HIDE DEF e2
  <2>4. EdgeFine(edgeRedis', edgeDisk, edgeWrite)
    <3>1. edgeRedis' \in {e2, edgeRedis}
      BY <1>8 DEF EdgeStore, e2
    <3> QED
      BY <1>0, <2>3, <3>1 DEF EdgeFine
  <2>5. CASE edgeWrite' = [edgeWrite EXCEPT ![q].pc = "disk"]
    <3>1. edgeWrite' \in [Fetches -> EdgeWrites]
          /\ \A x \in Fetches : edgeWrite'[x].answer = edgeWrite[x].answer /\ edgeWrite'[x].old = edgeWrite[x].old
      BY <2>1, <2>5 DEF EdgeWrites
    <3> QED
      BY <2>4, <3>1 DEF EdgeFine, Late
  <2>6. CASE edgeWrite' = [edgeWrite EXCEPT ![q] = Landed]
    BY <2>4, <2>6, LandedFine
  <2> QED
    BY <1>8, <2>5, <2>6 DEF EdgeStore
<1>9. ASSUME NEW q \in Fetches, EdgeStoreDisk(q) PROVE EdgeFine(edgeRedis, edgeDisk', edgeWrite')
  <2>1. edgeWrite[q] \in EdgeWrites
    BY <1>0 DEF EdgeFine
  <2>2. edgeWrite[q].answer \in AnswerSet
    BY <2>1 DEF EdgeWrites
  <2>3. OnDisk(edgeWrite[q].answer) \in [answer : AnswerSet, sinceCreated : 0..EdgeTtl + 1]
        /\ OnDisk(edgeWrite[q].answer).sinceCreated = EdgeTtl + 1
    BY <2>2 DEF OnDisk
  <2>4. EdgeFine(edgeRedis, edgeDisk', edgeWrite)
    BY <1>0, <1>9, <2>3 DEF EdgeFine, EdgeStoreDisk
  <2> QED
    BY <1>9, <2>4, LandedFine DEF EdgeStoreDisk
<1>10. ASSUME NEW target \in PurgeTargets, EdgePurge(target) PROVE EdgeFine(edgeRedis', edgeDisk, edgeWrite)
  <2>1. edgeRedis' \in {NoEntry, edgeRedis}
    BY <1>10 DEF EdgePurge
  <2>2. NoEntry \in [answer : AnswerSet, ttl : 0..EdgeTtl]
    BY NoAnswerFacts DEF NoEntry, Entry
  <2> QED
    BY <1>0, <2>1, <2>2, NoEntryFacts DEF EdgeFine
<1>11. ASSUME NEW q \in Fetches, EdgeFetchFails(q) PROVE FetchesFine(fetch')
  BY <1>0, <1>11, LandedFine DEF EdgeFetchFails, Land
<1>12. ASSUME NEW q \in Fetches, WriteFails(q)
       PROVE  GatewayFine(gwCache, gwWrite') /\ EdgeFine(edgeRedis, edgeDisk, edgeWrite')
  BY <1>0, <1>12, LandedFine DEF WriteFails
<1>13. ASSUME EdgeTick
       PROVE  FetchesFine(fetch') /\ GatewayFine(gwCache', gwWrite') /\ EdgeFine(edgeRedis', edgeDisk', edgeWrite')
  <2>1. ASSUME NEW S, NEW f \in [Fetches -> S], NEW q \in Fetches, ~f[q].old,
               f[q].answer \in AnswerSet,
               \A r \in S, a \in AnswerSet :
                   /\ Waited(r, a) \in S
                   /\ Waited(r, a).answer = a
                   /\ Waited(r, a).old = TRUE
        PROVE  /\ Wait(f)[q] \in S
               /\ Wait(f)[q].answer.age <= f[q].answer.age + Late(Wait(f)[q])
               /\ Promise(Wait(f)[q].answer) <= Promise(f[q].answer) + Late(Wait(f)[q])
    <3>1. Wait(f)[q] = IF f[q].pc = "idle" THEN f[q] ELSE [f[q] EXCEPT !.answer = Older(@), !.old = TRUE]
      BY DEF Wait
    <3>2. CASE f[q].pc = "idle"
      <4>1. Late(f[q]) = 0 /\ Wait(f)[q] = f[q] /\ f[q] \in S
        BY <2>1, <3>1, <3>2 DEF Late
      <4>2. f[q].answer.age \in Nat /\ Promise(f[q].answer) \in Nat
        BY <2>1, AnswerFacts
      <4> QED
        BY <4>1, <4>2
    <3>3. CASE f[q].pc # "idle"
      <4> DEFINE a == Older(f[q].answer)
      <4>1. Wait(f)[q] = Waited(f[q], a) /\ f[q] \in S
        BY <3>1, <3>3 DEF Waited
      <4>2. a \in AnswerSet
        BY <2>1, OlderFacts
      <4> HIDE DEF a
      <4>3. Wait(f)[q].answer = a /\ Wait(f)[q].old = TRUE /\ Wait(f)[q] \in S
        BY <2>1, <4>1, <4>2
      <4>4. Wait(f)[q] \in S /\ Late(Wait(f)[q]) = 1
        BY <4>3 DEF Late
      <4>5. a.age <= f[q].answer.age + 1 /\ Promise(a) <= Promise(f[q].answer) + 1
        BY <2>1, OlderFacts DEF a
      <4> QED
        BY <4>3, <4>4, <4>5
    <3> QED
      BY <3>2, <3>3
  <2>2. /\ \A q \in Fetches : ~fetch[q].old /\ ~gwWrite[q].old /\ ~edgeWrite[q].old
        /\ gwCache' = Aged(gwCache) /\ edgeRedis' = Aged(edgeRedis)
        /\ edgeDisk' = [edgeDisk EXCEPT !.answer = Older(@)]
        /\ fetch' = Wait(fetch) /\ gwWrite' = Wait(gwWrite) /\ edgeWrite' = Wait(edgeWrite)
    BY <1>13 DEF EdgeTick
  <2>3. /\ \A r \in FetchRecords, a \in AnswerSet :
             /\ Waited(r, a) \in FetchRecords
             /\ Waited(r, a).answer = a
             /\ Waited(r, a).old = TRUE
        /\ \A r \in FetchRecords : r.answer \in AnswerSet
    BY DEF FetchRecords, Waited
  <2>4. /\ \A r \in GwWrites, a \in AnswerSet :
             /\ Waited(r, a) \in GwWrites
             /\ Waited(r, a).answer = a
             /\ Waited(r, a).old = TRUE
        /\ \A r \in GwWrites : r.answer \in AnswerSet
    BY DEF GwWrites, Waited
  <2>5. /\ \A r \in EdgeWrites, a \in AnswerSet :
             /\ Waited(r, a) \in EdgeWrites
             /\ Waited(r, a).answer = a
             /\ Waited(r, a).old = TRUE
        /\ \A r \in EdgeWrites : r.answer \in AnswerSet
    BY DEF EdgeWrites, Waited
  <2>6. FetchesFine(fetch')
    <3>1. fetch \in [Fetches -> FetchRecords] /\ \A q \in Fetches : fetch[q] \in FetchRecords
      BY <1>0 DEF FetchesFine
    <3>2. \A q \in Fetches : /\ Wait(fetch)[q] \in FetchRecords
                             /\ Promise(Wait(fetch)[q].answer) <= Promise(fetch[q].answer) + Late(Wait(fetch)[q])
      BY <2>1, <2>2, <2>3, <3>1
    <3>3. Wait(fetch) \in [Fetches -> FetchRecords]
      BY <3>2 DEF Wait
    <3>4. ASSUME NEW q \in Fetches
          PROVE  Promise(Wait(fetch)[q].answer) <= EdgeTtl + 1 + Late(Wait(fetch)[q])
      <4>1. fetch[q].answer \in AnswerSet /\ Wait(fetch)[q].answer \in AnswerSet
        BY <2>3, <3>1, <3>2
      <4>2. /\ Promise(fetch[q].answer) \in Nat /\ Promise(Wait(fetch)[q].answer) \in Nat
            /\ Late(Wait(fetch)[q]) \in {0, 1}
        BY <4>1, AnswerFacts, LateFacts
      <4>3. Promise(fetch[q].answer) <= EdgeTtl + 1
        BY <1>0, <2>2 DEF FetchesFine, Late
      <4> QED
        BY <3>2, <4>2, <4>3
    <3> QED
      BY <2>2, <3>3, <3>4 DEF FetchesFine
  <2>7. GatewayFine(gwCache', gwWrite')
    <3>1. gwWrite \in [Fetches -> GwWrites] /\ \A q \in Fetches : gwWrite[q] \in GwWrites
      BY <1>0 DEF GatewayFine
    <3>2. \A q \in Fetches : /\ Wait(gwWrite)[q] \in GwWrites
                             /\ Promise(Wait(gwWrite)[q].answer) <= Promise(gwWrite[q].answer) + Late(Wait(gwWrite)[q])
      BY <2>1, <2>2, <2>4, <3>1
    <3>3. Wait(gwWrite) \in [Fetches -> GwWrites]
      BY <3>2 DEF Wait
    <3>4. ASSUME NEW q \in Fetches
          PROVE  Promise(Wait(gwWrite)[q].answer) <= EdgeTtl + 2 + Late(Wait(gwWrite)[q])
      <4>1. gwWrite[q].answer \in AnswerSet /\ Wait(gwWrite)[q].answer \in AnswerSet
        BY <2>4, <3>1, <3>2
      <4>2. /\ Promise(gwWrite[q].answer) \in Nat /\ Promise(Wait(gwWrite)[q].answer) \in Nat
            /\ Late(Wait(gwWrite)[q]) \in {0, 1}
        BY <4>1, AnswerFacts, LateFacts
      <4>3. Promise(gwWrite[q].answer) <= EdgeTtl + 2
        BY <1>0, <2>2 DEF GatewayFine, Late
      <4> QED
        BY <3>2, <4>2, <4>3
    <3>5. /\ gwCache \in [answer : AnswerSet, ttl : 0..GwTtl] /\ gwCache.ttl \in 0..GwTtl
          /\ gwCache.answer \in AnswerSet /\ Promise(gwCache.answer) + gwCache.ttl <= EdgeTtl + GwTtl + 3
      BY <1>0 DEF GatewayFine
    <3>6. Aged(gwCache) \in [answer : AnswerSet, ttl : 0..GwTtl] /\ Aged(gwCache).answer \in AnswerSet
      BY <3>5, AgedFacts
    <3>7. /\ Promise(Aged(gwCache).answer) + Aged(gwCache).ttl <= EdgeTtl + GwTtl + 3
          /\ Aged(gwCache).ttl = 0 => Promise(Aged(gwCache).answer) = 1
      <4>1. Promise(gwCache.answer) \in Nat /\ Promise(Aged(gwCache).answer) \in Nat
        BY <3>5, <3>6, AnswerFacts
      <4>2. CASE gwCache.ttl <= 1 /\ Aged(gwCache) = NoEntry
        BY <4>2, NoEntryFacts
      <4>3. CASE /\ Aged(gwCache).ttl = gwCache.ttl - 1 /\ gwCache.ttl > 1
                 /\ Promise(Aged(gwCache).answer) <= Promise(gwCache.answer) + 1
        BY <3>5, <4>1, <4>3
      <4> QED
        BY <3>5, <4>2, <4>3, AgedFacts
    <3> QED
      BY <2>2, <3>3, <3>4, <3>6, <3>7 DEF GatewayFine
  <2>8. EdgeFine(edgeRedis', edgeDisk', edgeWrite')
    <3>1. edgeWrite \in [Fetches -> EdgeWrites] /\ \A q \in Fetches : edgeWrite[q] \in EdgeWrites
      BY <1>0 DEF EdgeFine
    <3>2. \A q \in Fetches : /\ Wait(edgeWrite)[q] \in EdgeWrites
                             /\ Wait(edgeWrite)[q].answer.age <= edgeWrite[q].answer.age + Late(Wait(edgeWrite)[q])
      BY <2>1, <2>2, <2>5, <3>1
    <3>3. Wait(edgeWrite) \in [Fetches -> EdgeWrites]
      BY <3>2 DEF Wait
    <3>4. ASSUME NEW q \in Fetches
          PROVE  Wait(edgeWrite)[q].answer.age <= Late(Wait(edgeWrite)[q])
      <4>1. edgeWrite[q].answer \in AnswerSet /\ Wait(edgeWrite)[q].answer \in AnswerSet
        BY <2>5, <3>1, <3>2
      <4>2. /\ edgeWrite[q].answer.age \in Nat /\ Wait(edgeWrite)[q].answer.age \in Nat
            /\ Late(Wait(edgeWrite)[q]) \in {0, 1}
        BY <4>1, AnswerFacts, LateFacts
      <4>3. edgeWrite[q].answer.age <= 0
        BY <1>0, <2>2 DEF EdgeFine, Late
      <4> QED
        BY <3>2, <4>2, <4>3
    <3>5. /\ edgeRedis \in [answer : AnswerSet, ttl : 0..EdgeTtl] /\ edgeRedis.ttl \in 0..EdgeTtl
          /\ edgeRedis.answer \in AnswerSet /\ edgeRedis.answer.age + edgeRedis.ttl <= EdgeTtl + 1
          /\ edgeDisk \in [answer : AnswerSet, sinceCreated : 0..EdgeTtl + 1]
          /\ edgeDisk.sinceCreated = EdgeTtl + 1 /\ edgeDisk.answer \in AnswerSet
      BY <1>0 DEF EdgeFine
    <3>6. Aged(edgeRedis) \in [answer : AnswerSet, ttl : 0..EdgeTtl] /\ Aged(edgeRedis).answer \in AnswerSet
      BY <3>5, AgedFacts
    <3>7. /\ Aged(edgeRedis).answer.age + Aged(edgeRedis).ttl <= EdgeTtl + 1
          /\ Aged(edgeRedis).ttl = 0 => Aged(edgeRedis).answer.age = 0
      <4>1. edgeRedis.answer.age \in Nat /\ Aged(edgeRedis).answer.age \in Nat
        BY <3>5, <3>6, AnswerFacts
      <4>2. CASE edgeRedis.ttl <= 1 /\ Aged(edgeRedis) = NoEntry
        BY <4>2, NoEntryFacts
      <4>3. CASE /\ Aged(edgeRedis).ttl = edgeRedis.ttl - 1 /\ edgeRedis.ttl > 1
                 /\ Aged(edgeRedis).answer.age <= edgeRedis.answer.age + 1
        BY <3>5, <4>1, <4>3
      <4> QED
        BY <3>5, <4>2, <4>3, AgedFacts
    <3>8. /\ edgeDisk' \in [answer : AnswerSet, sinceCreated : 0..EdgeTtl + 1]
          /\ edgeDisk'.sinceCreated = EdgeTtl + 1
      <4>1. Older(edgeDisk.answer) \in AnswerSet
        BY <3>5, OlderFacts
      <4> QED
        BY <2>2, <3>5, <4>1
    <3> QED
      BY <2>2, <3>3, <3>4, <3>6, <3>7, <3>8 DEF EdgeFine
  <2> QED
    BY <2>6, <2>7, <2>8
<1>14. CASE \E q \in Fetches : Ask(q) \/ GwGet(q) \/ EdgeGet(q) \/ EdgeGetTtl(q) \/ OriginFails(q)
                                \/ EdgeFetchFails(q)
  BY <1>0, <1>1, <1>2, <1>5, <1>22, <1>23, <1>11, <1>14
  DEF Ask, GwGet, EdgeGet, EdgeGetTtl, OriginFails, EdgeFetchFails
<1>15. CASE \E q \in Fetches : Reply(q) \/ GwStore(q)
  BY <1>0, <1>3, <1>4, <1>15 DEF Reply, GwStore
<1>16. CASE \E q \in Fetches : DiskGet(q) \/ OriginGet(q) \/ EdgeStore(q) \/ EdgeStoreDisk(q)
  BY <1>0, <1>6, <1>7, <1>8, <1>9, <1>16 DEF DiskGet, OriginGet, EdgeStore, EdgeStoreDisk
<1>17. CASE \E q \in Fetches : WriteFails(q)
  BY <1>0, <1>12, <1>17 DEF WriteFails
<1>18. CASE \E target \in PurgeTargets : EdgePurge(target)
  BY <1>0, <1>10, <1>18 DEF EdgePurge
<1>20. CASE EdgeTick
  BY <1>0, <1>13, <1>20 DEF EdgeTick
<1>21. CASE UNCHANGED edgeVars
  BY <1>0, <1>21 DEF edgeVars
<1> QED
  BY <1>14, <1>15, <1>16, <1>17, <1>18, <1>20, <1>21 DEF EdgeNext

LEMMA EdgeBounds == ASSUME EdgeInv PROVE BoundedStaleness
<1>1. /\ edgeRedis.answer.age \in Nat /\ edgeRedis.ttl \in Nat
      /\ gwCache.answer \in AnswerSet /\ gwCache.ttl \in Nat /\ EdgeTtl \in Nat /\ GwTtl \in Nat
      /\ \A q \in Fetches : fetch[q].answer \in AnswerSet
  BY EdgeTypes, AnswerFacts, EdgeAssumption DEF EdgeInv
<1>2. edgeRedis.answer.age <= EdgeTtl
  BY <1>1 DEF EdgeInv, EdgeAges
<1>3. LET a == gwCache.answer IN
      /\ a.age <= EdgeTtl + GwTtl + 1
      /\ a.age + a.maxAge <= IF a.mixed THEN 2 * EdgeTtl + GwTtl + 1 ELSE EdgeTtl + GwTtl + 2
  <2>1. PICK a \in AnswerSet : a = gwCache.answer
    BY <1>1
  <2>2. /\ a.age \in Nat /\ a.maxAge \in Nat /\ Promise(a) \in Nat /\ a.maxAge <= EdgeTtl
        /\ a.age + 1 <= Promise(a)
        /\ ~a.mixed => a.age + a.maxAge <= Promise(a)
    BY AnswerFacts
  <2>3. Promise(a) <= EdgeTtl + GwTtl + 2
    <3>1. Promise(a) + gwCache.ttl <= EdgeTtl + GwTtl + 3 /\ (gwCache.ttl = 0 => Promise(a) = 1)
      BY <2>1 DEF EdgeInv, EdgeAges
    <3> QED
      BY <1>1, <2>2, <3>1
  <2>4. a.age <= EdgeTtl + GwTtl + 1 /\ a.age + a.maxAge <= 2 * EdgeTtl + GwTtl + 1
    BY <1>1, <2>2, <2>3
  <2>5. ~a.mixed => a.age + a.maxAge <= EdgeTtl + GwTtl + 2
    BY <1>1, <2>2, <2>3
  <2> QED
    BY <2>1, <2>4, <2>5, Zenon
<1>4. ASSUME NEW q \in Fetches
      PROVE  LET a == fetch[q].answer IN
             /\ a.age <= EdgeTtl + 1
             /\ a.age + a.maxAge <= IF a.mixed THEN 2 * EdgeTtl + 1 ELSE EdgeTtl + 2
  <2>1. PICK a \in AnswerSet : a = fetch[q].answer
    BY <1>1
  <2>2. /\ a.age \in Nat /\ a.maxAge \in Nat /\ Promise(a) \in Nat /\ a.maxAge <= EdgeTtl
        /\ a.age + 1 <= Promise(a)
        /\ ~a.mixed => a.age + a.maxAge <= Promise(a)
        /\ Late(fetch[q]) \in {0, 1}
    BY AnswerFacts, LateFacts
  <2>3. Promise(a) <= EdgeTtl + 1 + Late(fetch[q])
    BY <2>1 DEF EdgeInv, EdgeAges
  <2>4. a.age <= EdgeTtl + 1 /\ a.age + a.maxAge <= 2 * EdgeTtl + 1
    BY <1>1, <2>2, <2>3
  <2>5. ~a.mixed => a.age + a.maxAge <= EdgeTtl + 2
    BY <1>1, <2>2, <2>3
  <2> QED
    BY <2>1, <2>4, <2>5, Zenon
<1> QED
  BY <1>2, <1>3, <1>4 DEF BoundedStaleness

\* The three caches and the requests and writes in flight keep their types.
THEOREM EdgeTyped == EdgeSpec => []EdgeTypeOK
<1>1. EdgeSpec => []EdgeInv
  BY EdgeInitially, EdgeSteps, PTL DEF EdgeSpec
<1> QED
  BY <1>1, PTL DEF EdgeInv

\* What the edge stores is never older than its TTL, a body is never older than the
\* two TTLs and a tick on its way, and none is used for longer than that and its
\* max-age, where the max-age of an entry younger than the body counts in full.
THEOREM EdgeStalenessBounded == EdgeSpec => []BoundedStaleness
<1>1. EdgeSpec => []EdgeInv
  BY EdgeInitially, EdgeSteps, PTL DEF EdgeSpec
<1> QED
  BY <1>1, EdgeBounds, PTL

-----------------------------------------------------------------------------
(* Resilience: what "healthy" saw.                                          *)

CallRecords == [service : Services \cup {"none"}, unsettled : BOOLEAN]

\* The proxy's promise resolves before the proxy answers: no call is open when
\* the breaker's timeout comes, and one that is under way has no answer yet.
CallInv ==
    \A c \in ProxyCalls : ~call[c].unsettled /\ (~Free(c) => answers[c] = 0)

\* During a check what is up now was up, and every service asked so far was, or
\* the check has seen the failure.
HealthInv ==
    /\ healthStep \in DOMAIN Checked => serviceUp \subseteq wasUp
    /\ ~isDegraded => \A i \in DOMAIN Checked : i < healthStep => Checked[i] \in wasUp

ResilienceInv == ResilienceTypeOK /\ CallInv /\ HealthInv

LEMMA ServicesKnown ==
    /\ Proxied \subseteq Services /\ InitialBreakers \subseteq Services
    /\ Len(Checked) \in Nat /\ DOMAIN Checked = 1..Len(Checked)
    /\ \A i \in DOMAIN Checked : Checked[i] \in Services
    /\ 0 \in 0..Len(Checked) + 1 /\ 1 \in 0..Len(Checked) + 1
  BY ResilienceAssumption DEF Services

LEMMA ResilienceInitially == ResilienceInit => ResilienceInv
<1> SUFFICES ASSUME ResilienceInit PROVE ResilienceInv
  OBVIOUS
<1>1. ResilienceTypeOK
  <2>1. /\ circuit \in [Services -> {"CLOSED", "OPEN", "HALF_OPEN"}]
        /\ fired \in [Services -> 0..MaxFires] /\ answers \in [ProxyCalls -> 0..1]
        /\ \A s \in Services : circuit[s] = "CLOSED" /\ fired[s] = 0
    BY ResilienceAssumption DEF ResilienceInit
  <2>2. call \in [ProxyCalls -> [service : Services \cup {"none"}, unsettled : BOOLEAN]]
    BY DEF ResilienceInit, Nobody
  <2> QED
    BY <2>1, <2>2, ServicesKnown DEF ResilienceInit, ResilienceTypeOK
<1>2. CallInv
  BY DEF ResilienceInit, CallInv, Nobody, Free
<1>3. HealthInv
  BY ServicesKnown DEF ResilienceInit, HealthInv
<1> QED
  BY <1>1, <1>2, <1>3 DEF ResilienceInv

LEMMA ResilienceSteps == ResilienceInv /\ [ResilienceNext]_resilienceVars => ResilienceInv'
<1> SUFFICES ASSUME ResilienceInv, [ResilienceNext]_resilienceVars PROVE ResilienceInv'
  OBVIOUS
<1>1. /\ ResilienceTypeOK /\ CallInv /\ HealthInv
      /\ call \in [ProxyCalls -> CallRecords] /\ answers \in [ProxyCalls -> 0..1]
      /\ circuit \in [Services -> {"CLOSED", "OPEN", "HALF_OPEN"}]
      /\ fired \in [Services -> 0..MaxFires] /\ breakers \subseteq Services
      /\ MaxFires \in Nat
  BY ResilienceAssumption DEF ResilienceInv, ResilienceTypeOK, CallRecords
<1>2. Nobody \in CallRecords /\ ~Nobody.unsettled
  BY DEF Nobody, CallRecords
<1>3. ASSUME UNCHANGED <<serviceUp, healthVars>> PROVE HealthInv'
  BY <1>1, <1>3 DEF HealthInv, healthVars
<1>4. ASSUME NEW c \in ProxyCalls, NEW s \in Unknown, HandleUnknown(c, s) PROVE ResilienceInv'
  <2>1. /\ call[c] = Nobody /\ answers' = [answers EXCEPT ![c] = 1]
        /\ UNCHANGED <<serviceUp, breakers, circuit, fired, call, healthVars>>
    BY <1>4 DEF HandleUnknown, Free, AnswerNow
  <2>2. ResilienceTypeOK'
    BY <1>1, <2>1 DEF ResilienceTypeOK, healthVars
  <2>3. CallInv'
    BY <1>1, <2>1 DEF CallInv, Free
  <2> QED
    BY <1>3, <2>1, <2>2, <2>3 DEF ResilienceInv
<1>5. ASSUME NEW c \in ProxyCalls, NEW s \in Proxied, HandleKnown(c, s) PROVE ResilienceInv'
  <2>1. /\ call[c] = Nobody /\ fired[s] < MaxFires /\ s \in Services
        /\ breakers' = breakers \cup {s} /\ fired' = [fired EXCEPT ![s] = @ + 1]
        /\ UNCHANGED <<serviceUp, healthVars>>
    BY <1>5, ServicesKnown DEF HandleKnown, Free
  <2>2. fired' \in [Services -> 0..MaxFires] /\ \A t \in Services \ {s} : fired'[t] = fired[t]
    <3>1. fired[s] + 1 \in 0..MaxFires
      BY <1>1, <2>1
    <3> QED
      BY <1>1, <2>1, <3>1
  <2>3. CASE circuit[s] = "OPEN"
    <3>1. answers' = [answers EXCEPT ![c] = 1] /\ UNCHANGED <<circuit, call>>
      BY <1>5, <2>3 DEF HandleKnown, AnswerNow
    <3>2. ResilienceTypeOK'
      BY <1>1, <2>1, <2>2, <3>1 DEF ResilienceTypeOK, healthVars
    <3>3. CallInv'
      BY <1>1, <2>1, <3>1 DEF CallInv, Free
    <3> QED
      BY <1>3, <2>1, <3>2, <3>3 DEF ResilienceInv
  <2>4. CASE circuit[s] # "OPEN"
    <3> DEFINE r == [service |-> s, unsettled |-> FALSE]
    <3>1. /\ circuit' = [circuit EXCEPT ![s] = Succeeded(s)]
          /\ call' = [call EXCEPT ![c] = r] /\ answers' = [answers EXCEPT ![c] = 0]
      BY <1>5, <2>4 DEF HandleKnown
    <3>2. r \in CallRecords /\ ~r.unsettled
      BY <2>1 DEF CallRecords
    <3> HIDE DEF r
    <3>3. Succeeded(s) \in {"CLOSED", "OPEN", "HALF_OPEN"}
      BY <1>1, <2>1 DEF Succeeded
    <3>4. /\ circuit' \in [Services -> {"CLOSED", "OPEN", "HALF_OPEN"}]
          /\ \A t \in Services \ {s} : circuit'[t] = circuit[t]
      BY <1>1, <3>1, <3>3
    <3>5. /\ call' \in [ProxyCalls -> CallRecords] /\ answers' \in [ProxyCalls -> 0..1]
          /\ call'[c] = r /\ answers'[c] = 0
          /\ \A d \in ProxyCalls \ {c} : call'[d] = call[d] /\ answers'[d] = answers[d]
      BY <1>1, <3>1, <3>2
    <3>6. ResilienceTypeOK'
      BY <1>1, <2>1, <2>2, <3>4, <3>5 DEF ResilienceTypeOK, healthVars, CallRecords
    <3>7. CallInv'
      BY <1>1, <3>2, <3>5 DEF CallInv, Free
    <3> QED
      BY <1>3, <2>1, <3>6, <3>7 DEF ResilienceInv
  <2> QED
    BY <2>3, <2>4
<1>6. ASSUME NEW c \in ProxyCalls, ProxyAnswers(c) PROVE ResilienceInv'
  <2>1. /\ ~Free(c) /\ answers' = [answers EXCEPT ![c] = @ + 1] /\ call' = [call EXCEPT ![c] = Nobody]
        /\ UNCHANGED <<serviceUp, breakers, circuit, fired, healthVars>>
    BY <1>6 DEF ProxyAnswers
  <2>2. answers[c] = 0
    BY <1>1, <2>1 DEF CallInv
  <2>3. /\ call' \in [ProxyCalls -> CallRecords] /\ answers' \in [ProxyCalls -> 0..1]
        /\ call'[c] = Nobody
        /\ \A d \in ProxyCalls \ {c} : call'[d] = call[d] /\ answers'[d] = answers[d]
    BY <1>1, <1>2, <2>1, <2>2
  <2>4. ResilienceTypeOK'
    BY <1>1, <2>1, <2>3 DEF ResilienceTypeOK, healthVars, CallRecords
  <2>5. CallInv'
    BY <1>1, <1>2, <2>3 DEF CallInv, Free
  <2> QED
    BY <1>3, <2>1, <2>4, <2>5 DEF ResilienceInv
<1>7. CASE TimeOut
  <2>1. \A c \in ProxyCalls : call[c] \in CallRecords /\ call[c].unsettled = FALSE
    BY <1>1 DEF CallInv, CallRecords
  <2>2. ASSUME NEW s \in Services
        PROVE  Cardinality({c \in ProxyCalls : call[c].service = s /\ call[c].unsettled}) = 0
    <3>1. {c \in ProxyCalls : call[c].service = s /\ call[c].unsettled} = {}
      BY <2>1
    <3> QED
      BY <3>1, FS_EmptySet
  <2>3. \A s \in Services : circuit'[s] = IF circuit[s] = "OPEN" THEN "HALF_OPEN" ELSE circuit[s]
    BY <1>7, <2>2 DEF TimeOut, Opens
  <2>4. DOMAIN circuit' = Services /\ circuit' = [s \in Services |-> circuit'[s]]
    BY <1>7 DEF TimeOut
  <2>5. circuit' \in [Services -> {"CLOSED", "OPEN", "HALF_OPEN"}]
    BY <1>1, <2>3, <2>4
  <2>6. \A c \in ProxyCalls : [call[c] EXCEPT !.unsettled = FALSE] = call[c]
    BY <2>1 DEF CallRecords
  <2>7. call' = call
    BY <1>1, <1>7, <2>6 DEF TimeOut
  <2>8. answers' = answers
    <3>1. \A c \in ProxyCalls : answers[c] + (IF call[c].unsettled THEN 1 ELSE 0) = answers[c]
      BY <1>1, <2>1
    <3> QED
      BY <1>1, <1>7, <3>1 DEF TimeOut
  <2>9. fired' = [s \in Services |-> 0] /\ UNCHANGED <<serviceUp, breakers, healthVars>>
    BY <1>7 DEF TimeOut
  <2>10. ResilienceTypeOK'
    BY <1>1, <2>3, <2>5, <2>7, <2>8, <2>9 DEF ResilienceTypeOK, healthVars
  <2>11. CallInv'
    BY <1>1, <2>7, <2>8 DEF CallInv, Free
  <2> QED
    BY <1>3, <2>9, <2>10, <2>11 DEF ResilienceInv
<1>8. ASSUME NEW s \in Services, ResetBreaker(s) PROVE ResilienceInv'
  <2>1. /\ circuit' = [circuit EXCEPT ![s] = "CLOSED"] /\ s \in breakers
        /\ UNCHANGED <<serviceUp, breakers, fired, call, answers, healthVars>>
    BY <1>8 DEF ResetBreaker
  <2>2. ResilienceTypeOK'
    BY <1>1, <2>1 DEF ResilienceTypeOK, healthVars
  <2>3. CallInv'
    BY <1>1, <2>1 DEF CallInv, Free
  <2> QED
    BY <1>3, <2>1, <2>2, <2>3 DEF ResilienceInv
<1>9. CASE CheckBegin
  <2>1. /\ healthStep' = 1 /\ isDegraded' = FALSE /\ wasUp' = serviceUp
        /\ UNCHANGED <<serviceUp, breakers, circuit, fired, call, answers, breakerSeen>>
    BY <1>9 DEF CheckBegin
  <2>2. ResilienceTypeOK'
    <3>1. healthStep' \in 0..Len(Checked) + 1
      BY <2>1, ServicesKnown
    <3> QED
      BY <1>1, <2>1, <3>1 DEF ResilienceTypeOK
  <2>3. CallInv'
    BY <1>1, <2>1 DEF CallInv, Free
  <2>4. HealthInv'
    BY <2>1, ServicesKnown DEF HealthInv
  <2> QED
    BY <2>2, <2>3, <2>4 DEF ResilienceInv
<1>13. CASE AskService
  <2>1. /\ healthStep \in DOMAIN Checked /\ breakerSeen' = circuit[Checked[healthStep]]
        /\ UNCHANGED <<serviceUp, breakers, circuit, fired, call, answers, healthStep, isDegraded, wasUp>>
    BY <1>13 DEF AskService
  <2>2. circuit[Checked[healthStep]] \in {"CLOSED", "OPEN", "HALF_OPEN"}
    BY <1>1, <2>1, ServicesKnown
  <2>3. ResilienceTypeOK'
    BY <1>1, <2>1, <2>2 DEF ResilienceTypeOK
  <2>4. CallInv'
    BY <1>1, <2>1 DEF CallInv, Free
  <2>5. HealthInv'
    BY <1>1, <2>1 DEF HealthInv
  <2> QED
    BY <2>3, <2>4, <2>5 DEF ResilienceInv
<1>10. CASE CheckService
  <2>1. PICK answered \in BOOLEAN :
          /\ answered => Checked[healthStep] \in serviceUp
          /\ isDegraded' = Seen(answered)
    BY <1>10 DEF CheckService
  <2>2. /\ healthStep \in DOMAIN Checked /\ healthStep' = healthStep + 1 /\ breakerSeen' = "none"
        /\ UNCHANGED <<serviceUp, breakers, circuit, fired, call, answers, wasUp>>
    BY <1>10 DEF CheckService
  <2>3. isDegraded' \in BOOLEAN /\ healthStep' \in 0..Len(Checked) + 1
    BY <1>1, <2>1, <2>2, ServicesKnown DEF Seen
  <2>4. ResilienceTypeOK'
    BY <1>1, <2>2, <2>3 DEF ResilienceTypeOK
  <2>5. CallInv'
    BY <1>1, <2>2 DEF CallInv, Free
  <2>6. ~isDegraded' => ~isDegraded /\ Checked[healthStep] \in wasUp
    BY <1>1, <2>1, <2>2 DEF Seen, HealthInv
  <2>7. HealthInv'
    <3>1. \A i \in DOMAIN Checked : i < healthStep + 1 => i < healthStep \/ i = healthStep
      BY <2>2, ServicesKnown
    <3> QED
      BY <1>1, <2>2, <2>6, <3>1 DEF HealthInv
  <2> QED
    BY <2>4, <2>5, <2>7 DEF ResilienceInv
<1>11. ASSUME NEW s \in Services, FlipService(s) PROVE ResilienceInv'
  <2>1. /\ serviceUp' \subseteq Services
        /\ wasUp' = IF healthStep \in DOMAIN Checked THEN wasUp \cup serviceUp' ELSE wasUp
        /\ UNCHANGED <<breakers, circuit, fired, call, answers, healthStep, breakerSeen, isDegraded>>
    BY <1>1, <1>11 DEF FlipService, ResilienceTypeOK
  <2>2. ResilienceTypeOK'
    BY <1>1, <2>1 DEF ResilienceTypeOK
  <2>3. CallInv'
    BY <1>1, <2>1 DEF CallInv, Free
  <2>4. HealthInv'
    BY <1>1, <2>1 DEF HealthInv
  <2> QED
    BY <2>2, <2>3, <2>4 DEF ResilienceInv
<1>12. CASE UNCHANGED resilienceVars
  BY <1>1, <1>12 DEF resilienceVars, ResilienceInv, ResilienceTypeOK, CallInv, HealthInv, Free
<1> QED
  BY <1>4, <1>5, <1>6, <1>7, <1>8, <1>9, <1>10, <1>11, <1>12, <1>13 DEF ResilienceNext

\* The breakers, the calls and the health report keep their types.
THEOREM ResilienceTyped == ResilienceSpec => []ResilienceTypeOK
<1>1. ResilienceSpec => []ResilienceInv
  BY ResilienceInitially, ResilienceSteps, PTL DEF ResilienceSpec
<1> QED
  BY <1>1, PTL DEF ResilienceInv

\* When the health check says "healthy", every service it asked was up at some time
\* during the check.
THEOREM HealthyWasUp == ResilienceSpec => []HealthyMeansUp
<1>1. ResilienceInv => HealthyMeansUp
  <2>1. \A i \in DOMAIN Checked : i < Len(Checked) + 1
    BY ServicesKnown
  <2> QED
    BY <2>1 DEF ResilienceInv, HealthInv, HealthyMeansUp
<1>2. ResilienceSpec => []ResilienceInv
  BY ResilienceInitially, ResilienceSteps, PTL DEF ResilienceSpec
<1> QED
  BY <1>1, <1>2, PTL

-----------------------------------------------------------------------------
(* CdnResponses: what a client is told about the age of what it gets.       *)

StoredEntries == [body : Bodies, ttl : 0..MaxTtl]
RememberedEntries == [body : Bodies, promise : 0..MaxTtl, ttl : 0..MemTtl]
GetRecords == [pc : {"idle", "redisGet", "getTtl", "fetch", "store", "stored", "remember",
                     "respond"},
               query : Queries, body : Bodies, promise : 0..MaxTtl, old : BOOLEAN]

\* An entry is of the variant of its key, and has aged by what its TTL has lost
\* since it was written, with a body that was old by one tick at most in Redis,
\* and by one tick and a whole TTL in memory.
StoredFine(q, e) ==
    e.ttl > 0 => e.body.query = q /\ e.body.age + e.ttl <= MaxTtl + 1
RememberedFine(q, m) ==
    m.ttl > 0 => m.body.query = q /\ m.body.age + m.ttl <= MaxTtl + 1 + MemTtl
GetFine(r) ==
    /\ r.pc \in {"getTtl", "store", "stored", "remember", "respond"} => r.body.query = r.query
    /\ r.pc = "store" => r.body.age <= Late(r)
    /\ r.pc \in {"getTtl", "stored", "remember"} => r.body.age <= MaxTtl + Late(r)
    /\ r.pc = "respond" => r.body.age <= MaxTtl + MemTtl + Late(r)

RedisFine(f) == f \in [Queries -> StoredEntries] /\ \A q \in Queries : StoredFine(q, f[q])
MemoryFine(f) == f \in [Queries -> RememberedEntries] /\ \A q \in Queries : RememberedFine(q, f[q])
GetsFine(f) == f \in [Gets -> GetRecords] /\ \A g \in Gets : GetFine(f[g])
ResponseInv ==
    /\ file \in FileTypes \cup {"none"}
    /\ RedisFine(redisEntry) /\ MemoryFine(memoryEntry) /\ GetsFine(get)

LEMMA ResponseNumbers ==
    MaxTtl \in Nat /\ MemTtl \in Nat /\ DefaultAge \in Nat /\ MaxTtl > 0 /\ MemTtl > 0 /\ Ttls \subseteq 1..MaxTtl
  BY ResponseAssumption

LEMMA NothingFine ==
    /\ NoBody \in Bodies
    /\ NotStored \in StoredEntries /\ NotStored.ttl = 0
    /\ NotRemembered \in RememberedEntries /\ NotRemembered.ttl = 0
    /\ Ended \in GetRecords /\ Ended.pc = "idle"
<1>1. NoBody \in Bodies
  BY ResponseAssumption DEF NoBody, Bodies
<1>2. NoBody.query \in Queries
  BY <1>1 DEF Bodies
<1> QED
  BY <1>1, <1>2, ResponseNumbers DEF NotStored, NotRemembered, Ended, Get, StoredEntries,
     RememberedEntries, GetRecords

LEMMA ResponseInitially == ASSUME ResponseInit PROVE ResponseInv
  BY NothingFine DEF ResponseInit, ResponseInv, RedisFine, MemoryFine, GetsFine, StoredFine,
     RememberedFine, GetFine

\* One request, or one entry, is replaced; the others are untouched.
LEMMA GetReplaced ==
    ASSUME GetsFine(get), NEW g \in Gets, NEW r \in GetRecords, GetFine(r)
    PROVE  GetsFine([get EXCEPT ![g] = r])
<1> DEFINE f2 == [get EXCEPT ![g] = r]
<1>1. f2 \in [Gets -> GetRecords] /\ f2[g] = r /\ \A x \in Gets \ {g} : f2[x] = get[x]
  BY DEF GetsFine
<1> QED
  BY <1>1 DEF GetsFine

LEMMA RedisReplaced ==
    ASSUME RedisFine(redisEntry), NEW q \in Queries, NEW e \in StoredEntries, StoredFine(q, e)
    PROVE  RedisFine([redisEntry EXCEPT ![q] = e])
<1> DEFINE f2 == [redisEntry EXCEPT ![q] = e]
<1>1. f2 \in [Queries -> StoredEntries] /\ f2[q] = e /\ \A x \in Queries \ {q} : f2[x] = redisEntry[x]
  BY DEF RedisFine
<1> QED
  BY <1>1 DEF RedisFine

LEMMA MemoryReplaced ==
    ASSUME MemoryFine(memoryEntry), NEW q \in Queries, NEW m \in RememberedEntries, RememberedFine(q, m)
    PROVE  MemoryFine([memoryEntry EXCEPT ![q] = m])
<1> DEFINE f2 == [memoryEntry EXCEPT ![q] = m]
<1>1. f2 \in [Queries -> RememberedEntries] /\ f2[q] = m
      /\ \A x \in Queries \ {q} : f2[x] = memoryEntry[x]
  BY DEF MemoryFine
<1> QED
  BY <1>1 DEF MemoryFine

\* A request between two steps, as a record of its type, whose fields change.
LEMMA GetFields ==
    ASSUME GetsFine(get), NEW g \in Gets
    PROVE  /\ get[g] \in GetRecords /\ GetFine(get[g])
           /\ get[g].query \in Queries /\ get[g].body \in Bodies /\ get[g].promise \in 0..MaxTtl
           /\ get[g].body.age \in Nat /\ Late(get[g]) \in {0, 1} /\ get[g].old \in BOOLEAN
           /\ redisEntry \in [Queries -> StoredEntries] => redisEntry[get[g].query] \in StoredEntries
<1>1. get[g] \in GetRecords /\ GetFine(get[g])
  BY DEF GetsFine
<1>2. get[g].query \in Queries /\ get[g].body \in Bodies /\ get[g].promise \in 0..MaxTtl
      /\ get[g].old \in BOOLEAN
  BY <1>1 DEF GetRecords
<1> QED
  BY <1>1, <1>2 DEF Bodies, Late

LEMMA EntryFields ==
    ASSUME RedisFine(redisEntry), MemoryFine(memoryEntry), NEW q \in Queries
    PROVE  /\ redisEntry[q].body \in Bodies /\ redisEntry[q].ttl \in 0..MaxTtl
           /\ redisEntry[q].body.age \in Nat /\ StoredFine(q, redisEntry[q])
           /\ memoryEntry[q].body \in Bodies /\ memoryEntry[q].ttl \in 0..MemTtl
           /\ memoryEntry[q].promise \in 0..MaxTtl
           /\ memoryEntry[q].body.age \in Nat /\ RememberedFine(q, memoryEntry[q])
<1>1. redisEntry[q] \in StoredEntries /\ memoryEntry[q] \in RememberedEntries
  BY DEF RedisFine, MemoryFine
<1>2. redisEntry[q].body \in Bodies /\ memoryEntry[q].body \in Bodies
  BY <1>1 DEF StoredEntries, RememberedEntries
<1> QED
  BY <1>1, <1>2 DEF RedisFine, MemoryFine, StoredEntries, RememberedEntries, Bodies

-----------------------------------------------------------------------------
(* The steps of CdnResponses.                                               *)

LEMMA ServeKeeps ==
    ASSUME ResponseInv, NEW g \in Gets, NEW q \in Queries, ServeMemory(g, q) \/ ServeMiss(g, q)
    PROVE  GetsFine(get')
<1> USE ResponseNumbers
<1>1. CASE ServeMemory(g, q)
  <2> DEFINE m == memoryEntry[q]
             w == Get("respond", q, m.body, m.promise)
  <2>1. m.ttl > 0 /\ get' = [get EXCEPT ![g] = w]
    BY <1>1 DEF ServeMemory
  <2>2. m.body \in Bodies /\ m.body.age \in Nat /\ m.promise \in 0..MaxTtl /\ m.ttl \in 0..MemTtl
        /\ RememberedFine(q, m)
    BY EntryFields DEF ResponseInv
  <2>3. w \in GetRecords /\ w.pc = "respond" /\ w.body = m.body /\ w.query = q /\ Late(w) = 0
    BY <2>2 DEF Get, GetRecords, Late
  <2>4. m.body.query = q /\ m.body.age <= MaxTtl + MemTtl
    BY <2>1, <2>2 DEF RememberedFine
  <2>5. GetFine(w)
    BY <2>2, <2>3, <2>4 DEF GetFine
  <2> QED
    BY <2>1, <2>3, <2>5, GetReplaced DEF ResponseInv
<1>2. CASE ServeMiss(g, q)
  <2> DEFINE w == Get("redisGet", q, NoBody, 0)
  <2>1. get' = [get EXCEPT ![g] = w]
    BY <1>2 DEF ServeMiss
  <2>2. w \in GetRecords /\ w.pc = "redisGet"
    BY NothingFine DEF Get, GetRecords
  <2>3. GetFine(w)
    BY <2>2 DEF GetFine
  <2> QED
    BY <2>1, <2>2, <2>3, GetReplaced DEF ResponseInv
<1> QED
  BY <1>1, <1>2

LEMMA ReadKeeps ==
    ASSUME ResponseInv, NEW g \in Gets, LookUp(g) \/ ReadTtl(g) \/ ReadTtlFails(g) \/ FetchFile(g)
    PROVE  GetsFine(get')
<1> USE ResponseNumbers
<1> DEFINE r == get[g]
           e == redisEntry[r.query]
<1>0. /\ r \in GetRecords /\ GetFine(r) /\ r.query \in Queries /\ r.body \in Bodies /\ r.promise \in 0..MaxTtl
      /\ r.body.age \in Nat /\ Late(r) \in {0, 1}
      /\ e.body \in Bodies /\ e.ttl \in 0..MaxTtl /\ e.body.age \in Nat /\ StoredFine(r.query, e)
  BY GetFields, EntryFields DEF ResponseInv
<1>1. CASE LookUp(g) /\ e.ttl > 0
  <2> DEFINE w == [r EXCEPT !.pc = "getTtl", !.body = e.body, !.promise = r.promise]
  <2>1. get' = [get EXCEPT ![g] = w]
    BY <1>0, <1>1 DEF LookUp, GetRecords
  <2> HIDE DEF r, e
  <2>2. w \in GetRecords /\ w.pc = "getTtl" /\ w.query = r.query /\ w.body = e.body /\ Late(w) = Late(r)
    <3>1. w \in GetRecords /\ w.pc = "getTtl" /\ w.query = r.query /\ w.body = e.body /\ w.old = r.old
      BY <1>0 DEF GetRecords
    <3> QED
      BY <3>1 DEF Late
  <2> HIDE DEF w
  <2>3. e.body.query = r.query /\ e.body.age <= MaxTtl
    BY <1>0, <1>1 DEF StoredFine
  <2>4. GetFine(w)
    BY <1>0, <2>2, <2>3 DEF GetFine
  <2> QED
    BY <2>1, <2>2, <2>4, GetReplaced DEF ResponseInv
<1>2. CASE LookUp(g) /\ ~(e.ttl > 0)
  <2> DEFINE w == [r EXCEPT !.pc = "fetch", !.body = r.body, !.promise = r.promise]
  <2>1. get' = [get EXCEPT ![g] = w]
    BY <1>0, <1>2 DEF LookUp, On, GetRecords
  <2> HIDE DEF r, e
  <2>2. w \in GetRecords /\ w.pc = "fetch"
    BY <1>0 DEF GetRecords
  <2> HIDE DEF w
  <2>3. GetFine(w)
    BY <2>2 DEF GetFine
  <2> QED
    BY <2>1, <2>2, <2>3, GetReplaced DEF ResponseInv
<1>3. CASE ReadTtl(g)
  <2> DEFINE w == [r EXCEPT !.pc = "remember", !.body = r.body, !.promise = e.ttl]
  <2>1. r.pc = "getTtl" /\ get' = [get EXCEPT ![g] = w]
    BY <1>0, <1>3 DEF ReadTtl, GetRecords
  <2> HIDE DEF r, e
  <2>2. w \in GetRecords /\ w.pc = "remember" /\ w.query = r.query /\ w.body = r.body /\ Late(w) = Late(r)
    <3>1. w \in GetRecords /\ w.pc = "remember" /\ w.query = r.query /\ w.body = r.body /\ w.old = r.old
      BY <1>0 DEF GetRecords
    <3> QED
      BY <3>1 DEF Late
  <2> HIDE DEF w
  <2>3. GetFine(w)
    BY <1>0, <2>1, <2>2 DEF GetFine
  <2> QED
    BY <2>1, <2>2, <2>3, GetReplaced DEF ResponseInv
<1>4. CASE ReadTtlFails(g)
  <2> DEFINE w == [r EXCEPT !.pc = "fetch", !.body = NoBody, !.promise = r.promise]
  <2>1. get' = [get EXCEPT ![g] = w]
    BY <1>0, <1>4 DEF ReadTtlFails, GetRecords
  <2> HIDE DEF r, e
  <2>2. w \in GetRecords /\ w.pc = "fetch"
    BY <1>0, NothingFine DEF GetRecords
  <2> HIDE DEF w
  <2>3. GetFine(w)
    BY <2>2 DEF GetFine
  <2> QED
    BY <2>1, <2>2, <2>3, GetReplaced DEF ResponseInv
<1>5. CASE FetchFile(g)
  <2> DEFINE b == [source |-> file, query |-> r.query, age |-> 0]
             w == [r EXCEPT !.pc = "store", !.body = b, !.promise = r.promise]
  <2>1. get' = [get EXCEPT ![g] = w]
    BY <1>0, <1>5 DEF FetchFile, GetRecords
  <2> HIDE DEF r, e
  <2>2. b \in Bodies /\ b.age = 0 /\ b.query = r.query
    BY <1>0 DEF Bodies, ResponseInv
  <2> HIDE DEF b
  <2>3. w \in GetRecords /\ w.pc = "store" /\ w.query = r.query /\ w.body = b /\ Late(w) = Late(r)
    <3>1. w \in GetRecords /\ w.pc = "store" /\ w.query = r.query /\ w.body = b /\ w.old = r.old
      BY <1>0, <2>2 DEF GetRecords
    <3> QED
      BY <3>1 DEF Late
  <2> HIDE DEF w
  <2>4. GetFine(w)
    BY <1>0, <2>2, <2>3 DEF GetFine
  <2> QED
    BY <2>1, <2>3, <2>4, GetReplaced DEF ResponseInv
<1> QED
  BY <1>1, <1>2, <1>3, <1>4, <1>5

LEMMA StoreKeeps ==
    ASSUME ResponseInv, NEW g \in Gets, NEW ttl \in Ttls, Store(g, ttl)
    PROVE  GetsFine(get') /\ RedisFine(redisEntry')
<1> USE ResponseNumbers
<1> DEFINE r == get[g]
           e == [body |-> r.body, ttl |-> ttl]
           w == [r EXCEPT !.pc = "stored", !.body = r.body, !.promise = r.promise]
<1>1. /\ r \in GetRecords /\ GetFine(r) /\ r.query \in Queries /\ r.body \in Bodies /\ r.promise \in 0..MaxTtl
      /\ r.body.age \in Nat /\ Late(r) \in {0, 1}
  BY GetFields DEF ResponseInv
<1>2. r.pc = "store" /\ redisEntry' = [redisEntry EXCEPT ![r.query] = e] /\ get' = [get EXCEPT ![g] = w]
  BY <1>1 DEF Store, On, GetRecords
<1> HIDE DEF r
<1>3. w \in GetRecords /\ w.pc = "stored" /\ w.query = r.query /\ w.body = r.body /\ Late(w) = Late(r)
  <2>1. w \in GetRecords /\ w.pc = "stored" /\ w.query = r.query /\ w.body = r.body /\ w.old = r.old
    BY <1>1 DEF GetRecords
  <2> QED
    BY <2>1 DEF Late
<1> HIDE DEF w
<1>4. r.body.query = r.query /\ r.body.age <= Late(r)
  BY <1>1, <1>2 DEF GetFine
<1>5. GetFine(w)
  BY <1>1, <1>3, <1>4 DEF GetFine
<1>6. e \in StoredEntries /\ e.body = r.body /\ e.ttl = ttl /\ ttl \in 1..MaxTtl
  BY <1>1 DEF StoredEntries
<1> HIDE DEF e
<1>7. StoredFine(r.query, e)
  BY <1>1, <1>4, <1>6 DEF StoredFine
<1> QED
  BY <1>1, <1>2, <1>3, <1>5, <1>6, <1>7, GetReplaced, RedisReplaced DEF ResponseInv

LEMMA RememberKeeps ==
    ASSUME ResponseInv, NEW g \in Gets, Remember(g)
    PROVE  GetsFine(get') /\ MemoryFine(memoryEntry')
<1> USE ResponseNumbers
<1> DEFINE r == get[g]
           m == [body |-> r.body, promise |-> r.promise, ttl |-> MemTtl]
           w == [r EXCEPT !.pc = "respond", !.body = r.body, !.promise = r.promise]
<1>1. /\ r \in GetRecords /\ GetFine(r) /\ r.query \in Queries /\ r.body \in Bodies /\ r.promise \in 0..MaxTtl
      /\ r.body.age \in Nat /\ Late(r) \in {0, 1}
  BY GetFields DEF ResponseInv
<1>2. r.pc \in {"stored", "remember"} /\ memoryEntry' = [memoryEntry EXCEPT ![r.query] = m] /\ get' = [get EXCEPT ![g] = w]
  BY <1>1 DEF Remember, On, GetRecords
<1> HIDE DEF r
<1>3. w \in GetRecords /\ w.pc = "respond" /\ w.query = r.query /\ w.body = r.body /\ Late(w) = Late(r)
  <2>1. w \in GetRecords /\ w.pc = "respond" /\ w.query = r.query /\ w.body = r.body /\ w.old = r.old
    BY <1>1 DEF GetRecords
  <2> QED
    BY <2>1 DEF Late
<1> HIDE DEF w
<1>4. r.body.query = r.query /\ r.body.age <= MaxTtl + Late(r)
  BY <1>1, <1>2 DEF GetFine
<1>5. GetFine(w)
  BY <1>1, <1>3, <1>4 DEF GetFine
<1>6. m \in RememberedEntries /\ m.body = r.body /\ m.ttl = MemTtl
  BY <1>1 DEF RememberedEntries
<1> HIDE DEF m
<1>7. RememberedFine(r.query, m)
  BY <1>1, <1>4, <1>6 DEF RememberedFine
<1> QED
  BY <1>1, <1>2, <1>3, <1>5, <1>6, <1>7, GetReplaced, MemoryReplaced DEF ResponseInv

\* The entries of memory and the requests that a restart or an invalidation
\* leaves.
LEMMA EndKeeps ==
    ASSUME ResponseInv
    PROVE  /\ MemoryFine([q \in Queries |-> NotRemembered]) /\ GetsFine([g \in Gets |-> Ended])
           /\ \A g \in Gets : GetsFine([get EXCEPT ![g] = Ended])
<1>1. MemoryFine([q \in Queries |-> NotRemembered]) /\ GetsFine([g \in Gets |-> Ended]) /\ GetFine(Ended)
  BY NothingFine DEF MemoryFine, RememberedFine, GetsFine, GetFine
<1> QED
  BY <1>1, NothingFine, GetReplaced DEF ResponseInv

LEMMA AgedBodies ==
    ASSUME NEW b \in Bodies
    PROVE  LET w == [b EXCEPT !.age = b.age + 1]
           IN  w \in Bodies /\ w.age = b.age + 1 /\ w.query = b.query /\ b.age \in Nat
  BY DEF Bodies

LEMMA AgedEntries ==
    ASSUME NEW e \in StoredEntries \cup RememberedEntries, NEW none, e.ttl > 1
    PROVE  /\ Elapsed(e, none).body = [e.body EXCEPT !.age = e.body.age + 1]
           /\ Elapsed(e, none).ttl = e.ttl - 1
           /\ e \in StoredEntries => Elapsed(e, none) \in StoredEntries
           /\ e \in RememberedEntries => Elapsed(e, none) \in RememberedEntries
<1> USE ResponseNumbers
<1> DEFINE c == [e.body EXCEPT !.age = e.body.age + 1]
           n == e.ttl - 1
           w == [e EXCEPT !.body = c, !.ttl = n]
<1>1. e.body \in Bodies /\ e.ttl \in Nat
  BY DEF StoredEntries, RememberedEntries
<1>2. Elapsed(e, none) = w
  BY <1>1 DEF Elapsed
<1>3. c \in Bodies
  BY <1>1, AgedBodies
<1>4. n \in Nat /\ (e \in StoredEntries => n \in 0..MaxTtl) /\ (e \in RememberedEntries => n \in 0..MemTtl)
  BY DEF StoredEntries, RememberedEntries
<1> HIDE DEF c, n
<1>5. w.body = c /\ w.ttl = n
  BY DEF StoredEntries, RememberedEntries
<1>6. e \in StoredEntries => w \in StoredEntries
  BY <1>3, <1>4 DEF StoredEntries
<1>7. e \in RememberedEntries => w \in RememberedEntries
  BY <1>3, <1>4 DEF RememberedEntries
<1> QED
  BY <1>2, <1>5, <1>6, <1>7 DEF c, n

LEMMA TickKeeps ==
    ASSUME ResponseInv, ResponseTick
    PROVE  RedisFine(redisEntry') /\ MemoryFine(memoryEntry') /\ GetsFine(get')
<1> USE ResponseNumbers
<1>1. ASSUME NEW q \in Queries
      PROVE  Elapsed(redisEntry[q], NotStored) \in StoredEntries
             /\ StoredFine(q, Elapsed(redisEntry[q], NotStored))
  <2> DEFINE e == redisEntry[q]
             b == [e.body EXCEPT !.age = e.body.age + 1]
             w == Elapsed(e, NotStored)
  <2>1. e \in StoredEntries /\ e.body \in Bodies /\ e.ttl \in 0..MaxTtl /\ StoredFine(q, e)
    BY EntryFields DEF ResponseInv, RedisFine
  <2>2. CASE e.ttl <= 1
    BY <2>2, NothingFine DEF Elapsed, StoredFine
  <2>3. CASE ~(e.ttl <= 1)
    <3>2. b \in Bodies /\ b.age = e.body.age + 1 /\ b.query = e.body.query /\ e.body.age \in Nat
      BY <2>1, AgedBodies
    <3>3. w \in StoredEntries /\ w.body = b /\ w.ttl = e.ttl - 1
      <4>1. e \in StoredEntries \cup RememberedEntries /\ e.ttl > 1
        BY <2>1, <2>3, ResponseNumbers
      <4> QED
        BY <2>1, <4>1, AgedEntries
    <3> HIDE DEF w, b
    <3>4. StoredFine(q, w)
      BY <2>1, <2>3, <3>2, <3>3 DEF StoredFine
    <3> QED
      BY <3>3, <3>4 DEF w
  <2> QED
    BY <2>2, <2>3
<1>2. ASSUME NEW q \in Queries
      PROVE  Elapsed(memoryEntry[q], NotRemembered) \in RememberedEntries
             /\ RememberedFine(q, Elapsed(memoryEntry[q], NotRemembered))
  <2> DEFINE m == memoryEntry[q]
             b == [m.body EXCEPT !.age = m.body.age + 1]
             w == Elapsed(m, NotRemembered)
  <2>1. m \in RememberedEntries /\ m.body \in Bodies /\ m.ttl \in 0..MemTtl /\ RememberedFine(q, m)
    BY EntryFields DEF ResponseInv, MemoryFine
  <2>2. CASE m.ttl <= 1
    BY <2>2, NothingFine DEF Elapsed, RememberedFine
  <2>3. CASE ~(m.ttl <= 1)
    <3>2. b \in Bodies /\ b.age = m.body.age + 1 /\ b.query = m.body.query /\ m.body.age \in Nat
      BY <2>1, AgedBodies
    <3>3. w \in RememberedEntries /\ w.body = b /\ w.ttl = m.ttl - 1
      <4>1. m \in StoredEntries \cup RememberedEntries /\ m.ttl > 1
        BY <2>1, <2>3, ResponseNumbers
      <4> QED
        BY <2>1, <4>1, AgedEntries
    <3> HIDE DEF w, b
    <3>4. RememberedFine(q, w)
      BY <2>1, <2>3, <3>2, <3>3 DEF RememberedFine
    <3> QED
      BY <3>3, <3>4 DEF w
  <2> QED
    BY <2>2, <2>3
<1>3. ASSUME NEW g \in Gets PROVE get'[g] \in GetRecords /\ GetFine(get'[g])
  <2> DEFINE r == get[g]
             b == [r.body EXCEPT !.age = r.body.age + 1]
             w == [r EXCEPT !.body.age = r.body.age + 1, !.old = TRUE]
  <2>1. r \in GetRecords /\ GetFine(r) /\ r.body \in Bodies /\ ~r.old /\ r.old \in BOOLEAN
    BY GetFields DEF ResponseInv, ResponseTick
  <2>2. CASE r.pc = "idle"
    BY <2>1, <2>2 DEF ResponseTick
  <2>3. CASE r.pc # "idle"
    <3>1. get'[g] = w
      BY <2>3 DEF ResponseTick
    <3>2. b \in Bodies /\ b.age = r.body.age + 1 /\ b.query = r.body.query /\ r.body.age \in Nat
      BY <2>1, AgedBodies
    <3>3. /\ w \in GetRecords /\ w.body = b /\ w.pc = r.pc /\ w.query = r.query /\ w.old = TRUE
      BY <2>1, <3>2 DEF GetRecords
    <3> HIDE DEF w, b
    <3>4. Late(r) = 0 /\ Late(w) = 1
      BY <2>1, <3>3 DEF Late
    <3>5. GetFine(w)
      BY <2>1, <3>2, <3>3, <3>4 DEF GetFine
    <3> QED
      BY <3>1, <3>3, <3>5
  <2> QED
    BY <2>2, <2>3
<1>4. /\ redisEntry' = [q \in Queries |-> Elapsed(redisEntry[q], NotStored)]
      /\ memoryEntry' = [q \in Queries |-> Elapsed(memoryEntry[q], NotRemembered)]
      /\ get' \in [Gets -> GetRecords]
  <2>1. get' = [g \in Gets |-> get'[g]]
    BY DEF ResponseTick
  <2> QED
    BY <1>3, <2>1 DEF ResponseTick
<1> QED
  BY <1>1, <1>2, <1>3, <1>4 DEF RedisFine, MemoryFine, GetsFine

LEMMA ResponseSteps == ASSUME ResponseInv, [ResponseNext]_responseVars PROVE ResponseInv'
<1>1. CASE \E g \in Gets, q \in Queries : ServeMemory(g, q) \/ ServeMiss(g, q)
  BY <1>1, ServeKeeps DEF ResponseInv, ServeMemory, ServeMiss
<1>2. CASE \E g \in Gets : LookUp(g) \/ ReadTtl(g) \/ ReadTtlFails(g) \/ FetchFile(g)
  BY <1>2, ReadKeeps DEF ResponseInv, LookUp, ReadTtl, ReadTtlFails, FetchFile
<1>3. CASE \E g \in Gets : \E ttl \in Ttls : Store(g, ttl)
  BY <1>3, StoreKeeps DEF ResponseInv, Store
<1>4. CASE \E g \in Gets : Remember(g)
  BY <1>4, RememberKeeps DEF ResponseInv, Remember
<1>5. CASE \E g \in Gets : AnswerClient(g) \/ GetFails(g)
  BY <1>5, EndKeeps DEF ResponseInv, AnswerClient, GetFails
<1>6. CASE Invalidated \/ NodeRestart
  BY <1>6, EndKeeps DEF ResponseInv, Invalidated, NodeRestart
<1>7. CASE FileChanges
  BY <1>7 DEF ResponseInv, FileChanges
<1>8. CASE ResponseTick
  <2>1. RedisFine(redisEntry') /\ MemoryFine(memoryEntry') /\ GetsFine(get')
    BY <1>8, TickKeeps
  <2> QED
    BY <1>8, <2>1 DEF ResponseInv, ResponseTick
<1>9. CASE UNCHANGED responseVars
  BY <1>9 DEF ResponseInv, responseVars
<1> QED
  BY <1>1, <1>2, <1>3, <1>4, <1>5, <1>6, <1>7, <1>8, <1>9 DEF ResponseNext

\* The content type that goes out is that of what sharp wrote.
LEMMA EncodingNamed ==
    ASSUME NEW b \in Bodies
    PROVE  ContentType(b) = Encoding(b) \/ (b.source = "image/svg+xml" /\ b.query.fmt \notin Known)
<1>1. CASE b.source # "image/svg+xml" \/ ~isImage(b.source)
  BY <1>1 DEF ContentType, Encoding
<1>2. CASE isImage(b.source) /\ b.source = "image/svg+xml" /\ b.query.fmt \in Known
  <2> DEFINE f == Format(b.query.fmt, b.source)
  <2>1. f \in {"webp", "avif", "png", "jpeg", "jpg"}
    BY <1>2 DEF Format, Known
  <2>2. Coded(f, b.source) = Coded(f, "image/png")
    BY <2>1 DEF Coded
  <2> QED
    BY <1>2, <2>2 DEF ContentType, Encoding
<1> QED
  BY <1>1, <1>2

LEMMA ResponseInvMeans == ASSUME ResponseInv PROVE ResponseTypeOK /\ AnswersAreTrue
<1> USE ResponseNumbers
<1>1. ResponseTypeOK
  BY DEF ResponseInv, ResponseTypeOK, RedisFine, MemoryFine, GetsFine, StoredEntries, RememberedEntries,
     GetRecords
<1>2. ASSUME NEW g \in Gets, get[g].pc = "respond"
      PROVE  /\ get[g].body.query = get[g].query
             /\ \/ ContentType(get[g].body) = Encoding(get[g].body)
                \/ (get[g].body.source = "image/svg+xml" /\ get[g].body.query.fmt \notin Known)
             /\ get[g].body.age + PromisedAge(get[g]) <= MaxTtl + MemTtl + Longest + 1
  <2>1. /\ GetFine(get[g]) /\ get[g].body \in Bodies /\ get[g].promise \in 0..MaxTtl
        /\ get[g].body.age \in Nat /\ Late(get[g]) \in {0, 1}
    BY GetFields DEF ResponseInv
  <2>2. get[g].body.query = get[g].query /\ get[g].body.age <= MaxTtl + MemTtl + 1
    BY <1>2, <2>1 DEF GetFine
  <2>3. PromisedAge(get[g]) \in Nat /\ Longest \in Nat /\ PromisedAge(get[g]) <= Longest
    BY <2>1 DEF PromisedAge, Longest
  <2> QED
    BY <2>1, <2>2, <2>3, EncodingNamed
<1> QED
  BY <1>1, <1>2 DEF AnswersAreTrue

\* The entries of both levels and the requests in flight keep their types.
THEOREM ResponsesTyped == ResponseSpec => []ResponseTypeOK
<1>1. ResponseSpec => []ResponseInv
  BY ResponseInitially, ResponseSteps, PTL DEF ResponseSpec
<1> QED
  BY <1>1, ResponseInvMeans, PTL

\* Whatever serveFile finds in memory, in Redis or at the origin, and however GET
\* and TTL of an entry fall apart: the variant is the one asked for, its content
\* type that of its bytes, and the max-age promised on top of its age bounded.
THEOREM AnswersStayTrue == ResponseSpec => []AnswersAreTrue
<1>1. ResponseSpec => []ResponseInv
  BY ResponseInitially, ResponseSteps, PTL DEF ResponseSpec
<1> QED
  BY <1>1, ResponseInvMeans, PTL

-----------------------------------------------------------------------------
(* The run of all seven: each of them behaves as it does alone.             *)

LEMMA Composed ==
    Spec => /\ AnalyticsSpec /\ AlertSpec /\ RealtimeSpec /\ MultipartSpec
            /\ EdgeSpec /\ ResilienceSpec /\ ResponseSpec
<1>1. Init => /\ AnalyticsInit /\ AlertInit /\ RealtimeInit /\ MultipartInit
              /\ EdgeInit /\ ResilienceInit /\ ResponseInit
  BY DEF Init
<1>2. ASSUME [Next]_servicesVars
      PROVE  /\ [AnalyticsNext]_analyticsVars /\ [AlertNext]_alertVars
             /\ [RealtimeNext]_realtimeVars /\ [MultipartNext]_uploadVars
             /\ [EdgeNext]_edgeVars /\ [ResilienceNext]_resilienceVars
             /\ [ResponseNext]_responseVars
  <2>1. CASE UNCHANGED servicesVars
    BY <2>1 DEF servicesVars
  <2>2. CASE Next
    BY <2>2 DEF Next, Analytics_, Alerts_, Realtime_, Multipart_, Edge_, Resilience_, Responses_
  <2> QED
    BY <1>2, <2>1, <2>2
<1> QED
  BY <1>1, <1>2, PTL DEF Spec, AnalyticsSpec, AlertSpec, RealtimeSpec, MultipartSpec, EdgeSpec, ResilienceSpec,
     ResponseSpec

\* Every component the run picks keeps its types.
THEOREM ServicesTyped == Spec => []ServicesTypeOK
<1> DEFINE Focus == focus \in {"analytics", "alerts", "realtime", "uploads", "edge", "resilience",
                            "responses"}
<1>1. Init => Focus
  BY DEF Init
<1>2. Focus /\ [Next]_servicesVars => Focus'
  BY DEF Next, servicesVars
<1>3. /\ Focus /\ AnalyticsTypeOK /\ AlertTypeOK /\ RealtimeTypeOK /\ MultipartTypeOK
      /\ EdgeTypeOK /\ ResilienceTypeOK /\ ResponseTypeOK
      => ServicesTypeOK
  BY DEF ServicesTypeOK
<1> HIDE DEF Focus
<1> QED
  BY <1>1, <1>2, <1>3, Composed, AnalyticsTyped, AlertsTyped, RealtimeTyped, UploadsTyped, EdgeTyped,
     ResilienceTyped, ResponsesTyped, PTL DEF Spec

\* What the run checks of the seven: no alert is repeated within its debounce and no
\* rule skipped, every sample is counted, the rooms follow the hooks, uploads stay
\* whole, answers outlive their TTLs at the edge or the CDN by no more than is said,
\* what is called healthy was up at some time of the check, and the reports and the
\* numbers of each agree but for rounding and rows that come or go.
THEOREM ServicesSafe ==
    Spec => [](/\ ReportsReconcile /\ DebounceHolds /\ NoRuleSkipped /\ MetricsCountOnce
               /\ FeedFollowsHooks /\ UploadsStayWhole /\ BoundedStaleness /\ HealthyMeansUp
               /\ AnswersAreTrue)
  BY Composed, ReportsAgree, AlertsDebounced, NoRuleIsSkipped, MetricsAreComplete, FeedIsTheHooks,
     UploadsAreWhole, EdgeStalenessBounded, HealthyWasUp, AnswersStayTrue, PTL

-----------------------------------------------------------------------------
(* The event pipeline: what it counts on, and what it never does.           *)

\* Each group's position: never beyond its topic, and never behind what it has
\* committed.
ReadersInv ==
    \A g \in Groups :
        /\ group[g].at <= End(g) /\ group[g].committed <= End(g)
        /\ group[g].at >= 0 => group[g].committed <= Resolved(g)

\* While the worker is busy with an entry, it stands before it.
WorkerInv ==
    retry # "idle" => Reading("dlq", dlq) /\ Current.attempt < MaxRetries

\* A blocked eachMessage belongs to a message that is being inserted.
BlockedInv ==
    blocked => /\ group["analytics"].at >= 1
               /\ log[group["analytics"].at] \in ToSet(flushing)

\* Nothing is heard of an event before its response has finished.
UnsentInv ==
    \A e \in Events : publish[e] = "new" =>
        /\ stored[e] = 0
        /\ e \notin ToSet(log) \cup ToSet(batch) \cup ToSet(flushing)
        /\ \A i \in DOMAIN dlq : dlq[i].event # e

PipelineInv == PipelineTypeOK /\ ReadersInv /\ WorkerInv /\ BlockedInv /\ UnsentInv

\* A failed send comes before every entry of the DLQ, and a second one before
\* any that is tried again.
DlqInv ==
    /\ (\E e \in Events : publish[e] = "parking") \/ dlq # <<>> => faults["kafka"] > 0
    /\ retry = "parking" \/ (\E i \in DOMAIN dlq : dlq[i].attempt > 0) => faults["kafka"] > 1

\* Without a restart a group that committed is still reading.  Without a failed
\* insert either, what the consumer has read is in memory or stored, what the
\* worker has read is in the log, and what was handed to Kafka is in a topic.
NothingLost == faults["db"] = 0 /\ faults["crash"] = 0
Kept(e) == e \in missed \cup ToSet(batch) \cup ToSet(flushing) \/ stored[e] > 0
AccountedInv ==
    NothingLost =>
        /\ \A g \in Groups : group[g].at < 0 => group[g].committed = None
        /\ \A i \in DOMAIN log : i <= group["analytics"].at => Kept(log[i])
        /\ \A i \in DOMAIN dlq : i <= group["dlq"].at =>
             dlq[i].event \in missed \cup ToSet(log) \/ faults["kafka"] > 1
        /\ \A e \in Events : publish[e] = "done" =>
             \/ e \in ToSet(log) \/ \E i \in DOMAIN dlq : dlq[i].event = e
             \/ faults["kafka"] > 1

\* Without a failure of Kafka or a restart there is one copy of every event: in
\* flight, in the log before the consumer, in one of the two batches, or stored.
NothingRepeated == faults["kafka"] = 0 /\ faults["crash"] = 0
Taken(e) == e \in ToSet(batch) \cup ToSet(flushing) \/ stored[e] > 0
OnceInv ==
    NothingRepeated =>
        /\ IsInjective(log) /\ IsInjective(batch) /\ IsInjective(flushing)
        /\ ToSet(batch) \cap ToSet(flushing) = {}
        /\ \A e \in Events :
             /\ publish[e] = "sending" => e \notin ToSet(log)
             /\ Taken(e) => e \in ToSet(log)
             /\ stored[e] <= 1
             /\ stored[e] > 0 => e \notin ToSet(batch) \cup ToSet(flushing)
        /\ \A i \in DOMAIN log : Taken(log[i]) => i <= group["analytics"].at

CausesInv == PipelineInv /\ DlqInv /\ AccountedInv /\ OnceInv

LEMMA SetAt ==
    ASSUME NEW f \in [Groups -> Readers], NEW g \in Groups, NEW n \in Nat \cup {None, Off}
    PROVE  LET f2 == [f EXCEPT ![g].at = n] IN
           /\ f2 \in [Groups -> Readers]
           /\ f2[g].at = n /\ f2[g].committed = f[g].committed
           /\ \A h \in Groups \ {g} : f2[h] = f[h]
  BY DEF Readers

LEMMA SetCommitted ==
    ASSUME NEW f \in [Groups -> Readers], NEW g \in Groups, NEW n \in Nat \cup {None}
    PROVE  LET f2 == [f EXCEPT ![g].committed = n] IN
           /\ f2 \in [Groups -> Readers]
           /\ f2[g].committed = n /\ f2[g].at = f[g].at
           /\ \A h \in Groups \ {g} : f2[h] = f[h]
  BY DEF Readers

LEMMA Advancing ==
    ASSUME group \in [Groups -> Readers], NEW g \in Groups, group[g].at >= 0
    PROVE  /\ Advanced(g) \in [Groups -> Readers]
           /\ Advanced(g)[g].at = group[g].at + 1
           /\ Advanced(g)[g].committed = group[g].committed
           /\ \A h \in Groups \ {g} : Advanced(g)[h] = group[h]
  BY DEF Advanced, Readers, Off, None

LEMMA FaultCounts ==
    ASSUME faults \in [FaultKinds -> 0..MaxFaults], NEW kind \in FaultKinds, Fault(kind)
    PROVE  /\ faults' \in [FaultKinds -> 0..MaxFaults]
           /\ faults'[kind] = faults[kind] + 1
           /\ \A k \in FaultKinds \ {kind} : faults'[k] = faults[k]
  <1>1. faults["kafka"] \in Nat /\ faults["db"] \in Nat /\ faults["crash"] \in Nat /\ faults[kind] \in Nat
    BY PipelineAssumption DEF FaultKinds
  <1>2. faults[kind] < MaxFaults
    BY <1>1, PipelineAssumption DEF Fault, FaultKinds
  <1> QED
    BY <1>1, <1>2, PipelineAssumption DEF Fault, FaultKinds

\* A group that reads a topic stands before a message of it.
LEMMA ReadingEntry ==
    ASSUME PipelineTypeOK, Reading("dlq", dlq)
    PROVE  /\ group["dlq"].at + 1 \in DOMAIN dlq
           /\ Current \in Entries /\ Current.event \in Events /\ Current.attempt \in 0..MaxRetries
           /\ "dlq" \in Groups /\ group["dlq"].at \in Nat
  <1>1. "dlq" \in Groups /\ group["dlq"] \in Readers
    BY DEF PipelineTypeOK, Groups
  <1>2. group["dlq"].at \in Nat
    BY <1>1 DEF Reading, Readers, None, Off
  <1>3. dlq \in Seq(Entries)
    BY DEF PipelineTypeOK
  <1>4. group["dlq"].at + 1 \in DOMAIN dlq
    BY <1>2, <1>3, Ranges DEF Reading
  <1>5. Current \in Entries
    BY <1>3, <1>4 DEF Current
  <1> QED
    BY <1>1, <1>2, <1>4, <1>5 DEF Entries

LEMMA ReadingLog ==
    ASSUME PipelineTypeOK, Reading("analytics", log)
    PROVE  /\ group["analytics"].at + 1 \in DOMAIN log
           /\ log[group["analytics"].at + 1] \in Events
           /\ "analytics" \in Groups /\ group["analytics"].at \in Nat
  <1>1. "analytics" \in Groups /\ group["analytics"] \in Readers
    BY DEF PipelineTypeOK, Groups
  <1>2. group["analytics"].at \in Nat
    BY <1>1 DEF Reading, Readers, None, Off
  <1>3. log \in Seq(Events)
    BY DEF PipelineTypeOK
  <1>4. group["analytics"].at + 1 \in DOMAIN log
    BY <1>2, <1>3, Ranges DEF Reading
  <1> QED
    BY <1>1, <1>2, <1>3, <1>4

LEMMA EndType ==
    ASSUME PipelineTypeOK, NEW g \in Groups
    PROVE  End(g) \in Nat /\ Written(g) \subseteq Events
  <1>1. log \in Seq(Events) /\ dlq \in Seq(Entries)
    BY DEF PipelineTypeOK
  <1>2. CASE g = "dlq"
    <2>1. ASSUME NEW i \in DOMAIN dlq PROVE dlq[i].event \in Events
      <3>1. dlq[i] \in Entries
        BY <1>1
      <3> QED
        BY <3>1 DEF Entries
    <2> QED
      BY <1>1, <1>2, <2>1 DEF End, Written
  <1>3. CASE g # "dlq"
    BY <1>1, <1>3, Ranges DEF End, Written
  <1> QED
    BY <1>2, <1>3

-----------------------------------------------------------------------------
LEMMA PipelineTypes ==
    ASSUME PipelineTypeOK, WorkerInv, BlockedInv, PipelineNext
    PROVE  PipelineTypeOK'
<1> USE PipelineAssumption
<1>1. ASSUME NEW e \in Events, Finish(e) PROVE PipelineTypeOK'
  BY <1>1 DEF PipelineTypeOK, Finish
<1>2. ASSUME NEW e \in Events, Send(e) PROVE PipelineTypeOK'
  BY <1>2, Appended DEF PipelineTypeOK, Send
<1>3. ASSUME NEW e \in Events, SendFails(e) PROVE PipelineTypeOK'
  <2>1. log' \in Seq(Events)
    <3>1. log \in Seq(Events) /\ Append(log, e) \in Seq(Events)
      BY Appended DEF PipelineTypeOK
    <3> QED
      BY <1>3, <3>1 DEF SendFails, MaybeWritten
  <2>2. faults' \in [FaultKinds -> 0..MaxFaults]
    BY <1>3, FaultCounts DEF PipelineTypeOK, SendFails, FaultKinds
  <2> QED
    BY <1>3, <2>1, <2>2 DEF PipelineTypeOK, SendFails
<1>4. ASSUME NEW e \in Events, Park(e) PROVE PipelineTypeOK'
  <2>1. DlqEntry(e, 0) \in Entries
    BY DEF DlqEntry, Entries
  <2>2. publish' \in [Events -> {"new", "sending", "parking", "done"}]
    BY <1>4 DEF PipelineTypeOK, Park
  <2>3. dlq' \in Seq(Entries)
    <3>1. dlq \in Seq(Entries) /\ Append(dlq, DlqEntry(e, 0)) \in Seq(Entries)
      BY <2>1, Appended DEF PipelineTypeOK
    <3> QED
      BY <1>4, <3>1 DEF Park
  <2>4. faults' \in [FaultKinds -> 0..MaxFaults]
    BY <1>4, FaultCounts DEF PipelineTypeOK, Park, FaultKinds
  <2> QED
    BY <1>4, <2>2, <2>3, <2>4 DEF PipelineTypeOK, Park
<1>5. CASE TakeEntry
  <2>1. group' \in [Groups -> Readers]
    <3>1. group' \in {Advanced("dlq"), group} /\ Reading("dlq", dlq)
      BY <1>5 DEF TakeEntry
    <3>2. group["dlq"].at >= 0
      BY <3>1 DEF Reading
    <3>3. group \in [Groups -> Readers] /\ "dlq" \in Groups
      BY DEF PipelineTypeOK, Groups
    <3> QED
      BY <3>1, <3>2, <3>3, Advancing
  <2> QED
    BY <1>5, <2>1 DEF PipelineTypeOK, TakeEntry
<1>6. CASE Resend
  <2>1. Reading("dlq", dlq)
    BY <1>6 DEF WorkerInv, Resend
  <2>2. group' \in [Groups -> Readers]
    BY <1>6, <2>1, ReadingEntry, Advancing DEF PipelineTypeOK, Resend
  <2>3. log' \in Seq(Events)
    <3>1. log \in Seq(Events) /\ Append(log, Current.event) \in Seq(Events)
      BY <2>1, ReadingEntry, Appended DEF PipelineTypeOK
    <3> QED
      BY <1>6, <3>1 DEF Resend, MaybeWritten
  <2>4. faults' \in [FaultKinds -> 0..MaxFaults]
    BY <1>6, FaultCounts DEF PipelineTypeOK, Resend, FaultKinds
  <2> QED
    BY <1>6, <2>2, <2>3, <2>4 DEF PipelineTypeOK, Resend
<1>7. CASE Repark
  <2>1. Reading("dlq", dlq) /\ Current.attempt < MaxRetries
    BY <1>7 DEF WorkerInv, Repark
  <2>2. group' \in [Groups -> Readers]
    BY <1>7, <2>1, ReadingEntry, Advancing DEF PipelineTypeOK, Repark
  <2>3. DlqEntry(Current.event, Current.attempt + 1) \in Entries
    BY <2>1, ReadingEntry DEF DlqEntry, Entries
  <2>4. dlq' \in Seq(Entries)
    <3>1. /\ dlq \in Seq(Entries)
          /\ Append(dlq, DlqEntry(Current.event, Current.attempt + 1)) \in Seq(Entries)
      BY <2>3, Appended DEF PipelineTypeOK
    <3> QED
      BY <1>7, <3>1 DEF Repark
  <2>5. faults' \in [FaultKinds -> 0..MaxFaults]
    BY <1>7, FaultCounts DEF PipelineTypeOK, Repark, FaultKinds
  <2>6. dlqTopic
    BY <2>1, ReadingEntry DEF PipelineTypeOK, Reading
  <2> QED
    BY <1>7, <2>2, <2>4, <2>5, <2>6 DEF PipelineTypeOK, Repark
<1>8. ASSUME NEW g \in Groups, Join(g) PROVE PipelineTypeOK'
  <2>1. group' \in [Groups -> Readers]
    <3>1. group[g].committed \in Nat \cup {None}
      BY DEF PipelineTypeOK, Readers
    <3>2. End(g) \in Nat
      BY EndType
    <3>3. group \in [Groups -> Readers]
      BY DEF PipelineTypeOK
    <3>4. /\ [group EXCEPT ![g].at = Off] \in [Groups -> Readers]
          /\ [group EXCEPT ![g].at = End(g)] \in [Groups -> Readers]
          /\ [group EXCEPT ![g].at = group[g].committed] \in [Groups -> Readers]
      BY <3>1, <3>2, <3>3, SetAt
    <3> QED
      BY <1>8, <3>4 DEF Join
  <2>2. missed' \subseteq Events
    BY <1>8, EndType DEF PipelineTypeOK, Join
  <2> QED
    BY <1>8, <2>1, <2>2 DEF PipelineTypeOK, Join
<1>9. ASSUME NEW g \in Groups, JoinFails(g) PROVE PipelineTypeOK'
  BY <1>9, SetAt, FaultCounts DEF PipelineTypeOK, JoinFails, FaultKinds
<1>10. ASSUME NEW g \in Groups, Commit(g) PROVE PipelineTypeOK'
  <2>1. Resolved(g) \in Nat
    <3>1. group[g].at \in Nat
      <4>1. group[g] \in Readers /\ group[g].at >= 0
        BY <1>10 DEF PipelineTypeOK, Commit
      <4> QED
        BY <4>1 DEF Readers, None, Off
    <3> QED
      BY <3>1 DEF BlockedInv, Resolved
  <2>2. group' \in [Groups -> Readers]
    <3>1. [group EXCEPT ![g].committed = Resolved(g)] \in [Groups -> Readers]
      BY <2>1, SetCommitted DEF PipelineTypeOK
    <3> QED
      BY <1>10, <3>1 DEF Commit
  <2> QED
    BY <1>10, <2>2 DEF PipelineTypeOK, Commit
<1>11. CASE Consume
  <2>1. group' \in [Groups -> Readers]
    <3>1. group' = Advanced("analytics") /\ Reading("analytics", log)
      BY <1>11 DEF Consume
    <3>2. group["analytics"].at >= 0
      BY <3>1 DEF Reading
    <3>3. group \in [Groups -> Readers] /\ "analytics" \in Groups
      BY DEF PipelineTypeOK, Groups
    <3> QED
      BY <3>1, <3>2, <3>3, Advancing
  <2> DEFINE b == Append(batch, log[group["analytics"].at + 1])
  <2>2. b \in Seq(Events) /\ b # <<>>
    <3>1. batch \in Seq(Events) /\ log[group["analytics"].at + 1] \in Events
      BY <1>11, ReadingLog DEF PipelineTypeOK, Consume
    <3> QED
      BY <3>1
  <2>3. /\ batch' \in Seq(Events) /\ flushing' \in Seq(Events)
        /\ blocked' \in BOOLEAN /\ (blocked' => flushing' # <<>>)
    <3> HIDE DEF b
    <3>0. /\ flushing \in Seq(Events) /\ blocked \in BOOLEAN
          /\ (blocked => flushing # <<>>) /\ <<>> \in Seq(Events)
      BY Emptied DEF PipelineTypeOK
    <3>1. \/ flushing' = b /\ batch' = <<>> /\ blocked' = TRUE
          \/ batch' = b /\ flushing' = flushing /\ blocked' = blocked
      BY <1>11 DEF Consume, b
    <3> QED
      <4>1. CASE flushing' = b /\ batch' = <<>> /\ blocked' = TRUE
        BY <2>2, <3>0, <4>1
      <4>2. CASE batch' = b /\ flushing' = flushing /\ blocked' = blocked
        BY <2>2, <3>0, <4>2, Zenon
      <4> QED
        BY <3>1, <4>1, <4>2
  <2> QED
    BY <1>11, <2>1, <2>3 DEF PipelineTypeOK, Consume
<1>12. CASE FlushTimer
  BY <1>12 DEF PipelineTypeOK, FlushTimer
<1>13. CASE Ingest
  <2>1. ASSUME NEW e \in Events PROVE Count(e, flushing) \in Nat
    <3>1. Len(flushing) \in Nat /\ DOMAIN flushing = 1..Len(flushing)
      BY DEF PipelineTypeOK
    <3>2. IsFiniteSet(1..Len(flushing))
      BY <3>1, FS_Interval
    <3>3. IsFiniteSet({i \in DOMAIN flushing : flushing[i] = e})
      BY <3>1, <3>2, FS_Subset
    <3> QED
      BY <3>3, FS_CardinalityType DEF Count
  <2>2. stored' \in [Events -> Nat]
    <3>1. stored \in [Events -> Nat]
      BY DEF PipelineTypeOK
    <3>2. stored' = [e \in Events |-> stored[e] + Count(e, flushing)]
      BY <1>13 DEF Ingest
    <3> QED
      BY <2>1, <3>1, <3>2
  <2> QED
    BY <1>13, <2>2, Emptied DEF PipelineTypeOK, Ingest
<1>14. CASE IngestFails
  <2>1. faults' \in [FaultKinds -> 0..MaxFaults]
    BY <1>14, FaultCounts DEF PipelineTypeOK, IngestFails, FaultKinds
  <2> QED
    BY <1>14, <2>1, Emptied DEF PipelineTypeOK, IngestFails
<1>15. CASE GatewayCrash
  <2>1. group' \in [Groups -> Readers]
    <3>1. [group EXCEPT !["dlq"].at = None] \in [Groups -> Readers]
      BY SetAt DEF PipelineTypeOK, Groups
    <3> QED
      BY <1>15, <3>1 DEF GatewayCrash
  <2>2. faults' \in [FaultKinds -> 0..MaxFaults]
    BY <1>15, FaultCounts DEF PipelineTypeOK, GatewayCrash, FaultKinds
  <2> QED
    BY <1>15, <2>1, <2>2 DEF PipelineTypeOK, GatewayCrash
<1>16. CASE AnalyticsCrash
  <2>1. group' \in [Groups -> Readers]
    <3>1. [group EXCEPT !["analytics"].at = None] \in [Groups -> Readers]
      BY SetAt DEF PipelineTypeOK, Groups
    <3> QED
      BY <1>16, <3>1 DEF AnalyticsCrash
  <2>2. faults' \in [FaultKinds -> 0..MaxFaults]
    BY <1>16, FaultCounts DEF PipelineTypeOK, AnalyticsCrash, FaultKinds
  <2> QED
    BY <1>16, <2>1, <2>2, Emptied DEF PipelineTypeOK, AnalyticsCrash
<1> QED
  BY <1>1, <1>2, <1>3, <1>4, <1>5, <1>6, <1>7, <1>8, <1>9, <1>10, <1>11, <1>12,
     <1>13, <1>14, <1>15, <1>16 DEF PipelineNext

-----------------------------------------------------------------------------
(* How a step moves the topics and the groups.                              *)

LEMMA TopicsGrow ==
    ASSUME PipelineTypeOK, WorkerInv, PipelineNext
    PROVE  /\ log' = log \/ \E e \in Events : log' = Append(log, e)
           /\ dlq' = dlq \/ \E x \in Entries : dlq' = Append(dlq, x)
<1>1. ASSUME NEW e \in Events, Finish(e) \/ Send(e) \/ SendFails(e)
      PROVE  /\ log' \in {log, Append(log, e)}
             /\ dlq' = dlq
  BY <1>1 DEF Finish, Send, SendFails, MaybeWritten
<1>2. ASSUME NEW e \in Events, Park(e)
      PROVE  log' = log /\ dlq' \in {dlq, Append(dlq, DlqEntry(e, 0))} /\ DlqEntry(e, 0) \in Entries
  <2>1. DlqEntry(e, 0) \in Entries
    BY PipelineAssumption DEF DlqEntry, Entries
  <2>2. log' = log /\ (dlq' = Append(dlq, DlqEntry(e, 0)) \/ dlq' = dlq)
    BY <1>2 DEF Park
  <2> QED
    BY <2>1, <2>2
<1>3. CASE Resend
  <2>1. Current.event \in Events
    BY <1>3, ReadingEntry DEF WorkerInv, Resend
  <2>2. log' \in {log, Append(log, Current.event)} /\ dlq' = dlq
    BY <1>3 DEF Resend, MaybeWritten
  <2> QED
    BY <2>1, <2>2
<1>4. CASE Repark
  <2> DEFINE x == DlqEntry(Current.event, Current.attempt + 1)
  <2>1. x \in Entries
    <3>1. Current.event \in Events /\ Current.attempt \in Nat /\ Current.attempt < MaxRetries
      BY <1>4, ReadingEntry DEF WorkerInv, Repark
    <3> QED
      BY <3>1, PipelineAssumption DEF DlqEntry, Entries
  <2>2. log' = log /\ dlq' \in {dlq, Append(dlq, x)}
    BY <1>4 DEF Repark
  <2> QED
    BY <2>1, <2>2
<1>5. ASSUME \/ TakeEntry \/ Consume \/ FlushTimer \/ Ingest \/ IngestFails
             \/ GatewayCrash \/ AnalyticsCrash
      PROVE  log' = log /\ dlq' = dlq
  BY <1>5 DEF TakeEntry, Consume, FlushTimer, Ingest, IngestFails, GatewayCrash, AnalyticsCrash
<1>6. ASSUME NEW g \in Groups, Join(g) \/ JoinFails(g) \/ Commit(g)
      PROVE  log' = log /\ dlq' = dlq
  BY <1>6 DEF Join, JoinFails, Commit
<1> QED
  BY <1>1, <1>2, <1>3, <1>4, <1>5, <1>6 DEF PipelineNext

\* Nothing is removed from a topic, and no message changes its position.
LEMMA TopicsKept ==
    ASSUME PipelineTypeOK, WorkerInv, PipelineNext
    PROVE  /\ \A g \in Groups : End(g) \in Nat /\ End(g)' \in Nat /\ End(g) <= End(g)'
           /\ DOMAIN log = 1..Len(log) /\ DOMAIN log' = 1..Len(log')
           /\ DOMAIN dlq = 1..Len(dlq) /\ DOMAIN dlq' = 1..Len(dlq')
           /\ \A i \in DOMAIN log : i \in DOMAIN log' /\ log'[i] = log[i]
           /\ \A i \in DOMAIN dlq : i \in DOMAIN dlq' /\ dlq'[i] = dlq[i]
           /\ ToSet(log) \subseteq ToSet(log')
<1>1. log \in Seq(Events) /\ dlq \in Seq(Entries)
  BY DEF PipelineTypeOK
<1>2. /\ Len(log) \in Nat /\ Len(log') \in Nat /\ Len(log) <= Len(log')
      /\ DOMAIN log = 1..Len(log) /\ DOMAIN log' = 1..Len(log')
      /\ \A i \in DOMAIN log : log'[i] = log[i]
      /\ ToSet(log) \subseteq ToSet(log')
  <2>1. CASE log' = log
    BY <1>1, <2>1, Ranges
  <2>2. CASE \E e \in Events : log' = Append(log, e)
    BY <1>1, <2>2, Appended
  <2> QED
    BY <2>1, <2>2, TopicsGrow
<1>3. /\ Len(dlq) \in Nat /\ Len(dlq') \in Nat /\ Len(dlq) <= Len(dlq')
      /\ DOMAIN dlq = 1..Len(dlq) /\ DOMAIN dlq' = 1..Len(dlq')
      /\ \A i \in DOMAIN dlq : dlq'[i] = dlq[i]
  <2>1. CASE dlq' = dlq
    BY <1>1, <2>1, Ranges
  <2>2. CASE \E x \in Entries : dlq' = Append(dlq, x)
    BY <1>1, <2>2, Appended
  <2> QED
    BY <2>1, <2>2, TopicsGrow
<1> QED
  BY <1>2, <1>3 DEF End

\* A group stays, takes one message, joins, leaves, or commits.
LEMMA ReadersMove ==
    ASSUME PipelineTypeOK, WorkerInv, PipelineNext, NEW g \in Groups
    PROVE  \/ /\ group'[g] = group[g]
              /\ g = "analytics" /\ blocked' => blocked
           \/ /\ group[g].at >= 0 /\ group[g].at < End(g)
              /\ g = "analytics" => Consume /\ ~blocked
              /\ g = "dlq" => TakeEntry \/ Resend \/ Repark
              /\ group'[g].at = group[g].at + 1
              /\ group'[g].committed = group[g].committed
           \/ /\ group[g].at = None /\ blocked' = blocked /\ Join(g) /\ (g = "dlq" => dlqTopic)
              /\ group'[g].at = IF group[g].committed = None THEN End(g) ELSE group[g].committed
              /\ group'[g].committed = group[g].committed
           \/ /\ group[g].at = None \/ faults'["crash"] > 0
              /\ group'[g].at \in {None, Off}
              /\ group'[g].committed = group[g].committed
           \/ /\ group[g].at >= 0 /\ blocked' = blocked /\ Commit(g)
              /\ group'[g].at = group[g].at
              /\ group'[g].committed = Resolved(g)
<1>0. /\ group \in [Groups -> Readers] /\ "dlq" \in Groups /\ "analytics" \in Groups
      /\ group[g].at \in Nat \cup {None, Off} /\ group[g].committed \in Nat \cup {None}
  <2>1. group \in [Groups -> Readers] /\ group[g] \in Readers
    BY DEF PipelineTypeOK
  <2> QED
    BY <2>1 DEF Readers, Groups
<1>1. ASSUME NEW e \in Events, Finish(e) \/ Send(e) \/ SendFails(e) \/ Park(e)
      PROVE  group' = group /\ blocked' = blocked
  BY <1>1 DEF Finish, Send, SendFails, Park
<1>2. ASSUME FlushTimer \/ Ingest \/ IngestFails
      PROVE  group' = group /\ (blocked' => blocked)
  BY <1>2 DEF FlushTimer, Ingest, IngestFails
<1>3. ASSUME TakeEntry \/ Resend \/ Repark
      PROVE  /\ group' = group \/ (group' = Advanced("dlq") /\ Reading("dlq", dlq))
             /\ blocked' = blocked
  BY <1>3 DEF TakeEntry, Resend, Repark, WorkerInv
<1>4. CASE Consume
  <2>1. group' = Advanced("analytics") /\ Reading("analytics", log) /\ ~blocked
    BY <1>4 DEF Consume
  <2>2. CASE g = "analytics"
    BY <1>0, <1>4, <2>1, <2>2, Advancing DEF Reading, End
  <2>3. CASE g # "analytics"
    BY <1>0, <2>1, <2>3, Advancing DEF Reading
  <2> QED
    BY <2>2, <2>3
<1>5. ASSUME group' = Advanced("dlq"), Reading("dlq", dlq), blocked' = blocked,
             TakeEntry \/ Resend \/ Repark
      PROVE  \/ group'[g] = group[g] /\ blocked' = blocked
             \/ /\ group[g].at >= 0 /\ group[g].at < End(g) /\ g = "dlq"
                /\ group'[g].at = group[g].at + 1
                /\ group'[g].committed = group[g].committed
  <2>1. CASE g = "dlq"
    BY <1>0, <1>5, <2>1, Advancing DEF Reading, End
  <2>2. CASE g # "dlq"
    BY <1>0, <1>5, <2>2, Advancing DEF Reading
  <2> QED
    BY <2>1, <2>2
<1>6. ASSUME NEW h \in Groups, NEW n \in Nat \cup {None, Off}, group' = [group EXCEPT ![h].at = n]
      PROVE  \/ h # g /\ group'[g] = group[g]
             \/ /\ h = g /\ group'[g].at = n
                /\ group'[g].committed = group[g].committed
  BY <1>0, <1>6, SetAt
<1>7. ASSUME NEW h \in Groups, Join(h)
      PROVE  /\ blocked' = blocked
             /\ \/ group'[g] = group[g]
                \/ /\ group[g].at = None /\ Join(g) /\ (g = "dlq" => dlqTopic)
                   /\ group'[g].at = IF group[g].committed = None THEN End(g) ELSE group[g].committed
                   /\ group'[g].committed = group[g].committed
                \/ /\ group[g].at = None /\ group'[g].at = Off
                   /\ group'[g].committed = group[g].committed
  <2> DEFINE n == IF group[h].committed = None THEN End(h) ELSE group[h].committed
  <2>1. n \in Nat
    <3>1. group[h] \in Readers
      BY <1>0
    <3> QED
      BY <3>1, EndType DEF Readers
  <2>2. /\ \/ group' = [group EXCEPT ![h].at = n] /\ (h = "dlq" => dlqTopic)
           \/ group' = [group EXCEPT ![h].at = Off]
        /\ group[h].at = None /\ blocked' = blocked
    BY <1>7 DEF Join
  <2> HIDE DEF n
  <2>3. CASE group' = [group EXCEPT ![h].at = n] /\ (h = "dlq" => dlqTopic)
    <3>1. h # g => group'[g] = group[g]
      BY <1>6, <2>1, <2>3
    <3>2. h = g => group'[g].at = n /\ group'[g].committed = group[g].committed
      BY <1>6, <2>1, <2>3
    <3> QED
      BY <1>7, <2>2, <2>3, <3>1, <3>2 DEF n
  <2>4. CASE group' = [group EXCEPT ![h].at = Off]
    BY <1>6, <2>2, <2>4
  <2> QED
    BY <2>2, <2>3, <2>4
<1>8. ASSUME NEW h \in Groups, JoinFails(h)
      PROVE  /\ blocked' = blocked
             /\ \/ group'[g] = group[g]
                \/ /\ group[g].at = None /\ group'[g].at = Off
                   /\ group'[g].committed = group[g].committed
  <2>1. group' = [group EXCEPT ![h].at = Off] /\ blocked' = blocked /\ group[h].at = None
    BY <1>8 DEF JoinFails
  <2> QED
    BY <1>6, <2>1
<1>9. ASSUME NEW h \in Groups, Commit(h)
      PROVE  /\ blocked' = blocked
             /\ \/ group'[g] = group[g]
                \/ /\ group[g].at >= 0 /\ group'[g].at = group[g].at /\ Commit(g)
                   /\ group'[g].committed = Resolved(g)
  <2>1. group' = [group EXCEPT ![h].committed = Resolved(h)] /\ blocked' = blocked
        /\ group[h].at >= 0
    BY <1>9 DEF Commit
  <2>2. Resolved(h) \in Nat \cup {None}
    <3>1. group[h] \in Readers
      BY <1>0
    <3> QED
      BY <2>1, <3>1 DEF Resolved, Readers, None, Off
  <2>3. CASE h = g
    BY <1>0, <1>9, <2>1, <2>2, <2>3, SetCommitted
  <2>4. CASE h # g
    BY <1>0, <2>1, <2>2, <2>4, SetCommitted
  <2> QED
    BY <2>3, <2>4
<1>10. CASE GatewayCrash
  <2>1. group' = [group EXCEPT !["dlq"].at = None] /\ blocked' = blocked
    BY <1>10 DEF GatewayCrash
  <2>2. faults'["crash"] > 0
    <3>1. faults["crash"] \in 0..MaxFaults /\ faults'["crash"] = faults["crash"] + 1
      BY <1>10, FaultCounts DEF GatewayCrash, PipelineTypeOK, FaultKinds
    <3> QED
      BY <3>1, PipelineAssumption
  <2> QED
    BY <1>0, <1>6, <2>1, <2>2
<1>11. CASE AnalyticsCrash
  <2>1. group' = [group EXCEPT !["analytics"].at = None] /\ blocked' = FALSE
    BY <1>11 DEF AnalyticsCrash
  <2>2. faults'["crash"] > 0
    <3>1. faults["crash"] \in 0..MaxFaults /\ faults'["crash"] = faults["crash"] + 1
      BY <1>11, FaultCounts DEF AnalyticsCrash, PipelineTypeOK, FaultKinds
    <3> QED
      BY <3>1, PipelineAssumption
  <2> QED
    BY <1>0, <1>6, <2>1, <2>2
<1>12. CASE \E e \in Events : Finish(e) \/ Send(e) \/ SendFails(e) \/ Park(e)
  BY <1>1, <1>12
<1>13. CASE TakeEntry \/ Resend \/ Repark
  BY <1>3, <1>5, <1>13
<1>14. CASE \E h \in Groups : Join(h) \/ JoinFails(h) \/ Commit(h)
  BY <1>7, <1>8, <1>9, <1>14
<1>15. CASE FlushTimer \/ Ingest \/ IngestFails
  BY <1>2, <1>15
<1> QED
  BY <1>4, <1>10, <1>11, <1>12, <1>13, <1>14, <1>15 DEF PipelineNext

-----------------------------------------------------------------------------
(* The strengthenings are kept.                                             *)

LEMMA ReadersKept ==
    ASSUME PipelineTypeOK, WorkerInv, BlockedInv, ReadersInv, PipelineNext
    PROVE  ReadersInv'
<1> SUFFICES ASSUME NEW g \in Groups
             PROVE  /\ group'[g].at <= End(g)' /\ group'[g].committed <= End(g)'
                    /\ group'[g].at >= 0 => group'[g].committed <= Resolved(g)'
  BY DEF ReadersInv
<1>1. End(g) \in Nat /\ End(g)' \in Nat /\ End(g) <= End(g)'
  BY TopicsKept
<1>2. /\ group[g].at \in Int /\ group[g].committed \in Int
      /\ group[g].committed \in Nat \/ group[g].committed = None
  <2>1. group[g] \in Readers
    BY DEF PipelineTypeOK
  <2> QED
    BY <2>1 DEF Readers, None, Off
<1>3. /\ group[g].at <= End(g) /\ group[g].committed <= End(g)
      /\ group[g].at >= 0 => group[g].committed <= Resolved(g)
  BY DEF ReadersInv
<1>4. ASSUME g = "analytics", blocked PROVE group[g].at >= 1
  BY <1>4 DEF BlockedInv
<1> USE <1>1, <1>2, <1>3, <1>4 DEF Resolved
<1>5. CASE group'[g] = group[g] /\ (g = "analytics" /\ blocked' => blocked)
  BY <1>5
<1>6. CASE /\ group[g].at >= 0 /\ group[g].at < End(g) /\ (g = "analytics" => ~blocked)
           /\ group'[g].at = group[g].at + 1
           /\ group'[g].committed = group[g].committed
  BY <1>6
<1>7. CASE /\ group[g].at = None /\ blocked' = blocked
           /\ group'[g].at = IF group[g].committed = None THEN End(g) ELSE group[g].committed
           /\ group'[g].committed = group[g].committed
  BY <1>7 DEF None
<1>8. CASE group'[g].at \in {None, Off} /\ group'[g].committed = group[g].committed
  BY <1>8 DEF None, Off
<1>9. CASE /\ group[g].at >= 0 /\ blocked' = blocked /\ group'[g].at = group[g].at
           /\ group'[g].committed = Resolved(g)
  BY <1>9
<1> QED
  BY ReadersMove, <1>5, <1>6, <1>7, <1>8, <1>9

LEMMA WorkerKept ==
    ASSUME PipelineTypeOK, WorkerInv, PipelineNext
    PROVE  WorkerInv'
<1> SUFFICES ASSUME retry' # "idle"
             PROVE  /\ group'["dlq"].at >= 0 /\ group'["dlq"].at < Len(dlq')
                    /\ Current'.attempt < MaxRetries
  BY DEF WorkerInv, Reading
<1>0. "dlq" \in Groups /\ None < 0
  BY DEF Groups, None
<1>1. /\ Reading("dlq", dlq) /\ Current.attempt < MaxRetries
      /\ group'["dlq"].at = group["dlq"].at
  <2>1. CASE retry = "idle"
    <3>1. CASE TakeEntry
      <4>1. ~(Current.attempt >= MaxRetries) /\ group' = group /\ Reading("dlq", dlq)
        BY <2>1, <3>1 DEF TakeEntry
      <4>2. Current.attempt \in 0..MaxRetries /\ MaxRetries \in Nat
        BY <4>1, ReadingEntry, PipelineAssumption
      <4>3. Current.attempt < MaxRetries
        BY <4>1, <4>2
      <4> QED
        BY <4>1, <4>3
    <3>2. retry' = retry \/ TakeEntry
      BY <2>1 DEF PipelineNext, Finish, Send, SendFails, Park, Resend, Repark, Join, JoinFails,
                  Commit, Consume, FlushTimer, Ingest, IngestFails, GatewayCrash, AnalyticsCrash
    <3> QED
      BY <2>1, <3>1, <3>2
  <2>2. CASE retry # "idle"
    <3>1. Reading("dlq", dlq) /\ Current.attempt < MaxRetries
      BY <2>2 DEF WorkerInv
    <3>2. group["dlq"].at >= 0 /\ group["dlq"].at # None /\ group["dlq"].at \in Nat
      BY <1>0, <3>1, ReadingEntry DEF Reading
    <3>3. CASE \/ \E e \in Events : Finish(e) \/ Send(e) \/ SendFails(e) \/ Park(e)
               \/ Resend \/ FlushTimer \/ Ingest \/ IngestFails
      <4>1. group' = group \/ retry' = "idle"
        BY <3>3 DEF Finish, Send, SendFails, Park, Resend, FlushTimer, Ingest, IngestFails
      <4> QED
        BY <3>1, <4>1
    <3>4. CASE TakeEntry \/ Repark \/ GatewayCrash
      BY <2>2, <3>4 DEF TakeEntry, Repark, GatewayCrash
    <3>5. ASSUME NEW h \in Groups, Join(h) \/ JoinFails(h) PROVE group'["dlq"].at = group["dlq"].at
      <4>1. h # "dlq"
        BY <3>2, <3>5 DEF Join, JoinFails
      <4>2. group'["dlq"] = group["dlq"]
        BY <1>0, <3>5, <4>1 DEF Join, JoinFails, PipelineTypeOK
      <4> QED
        BY <4>2
    <3>6. ASSUME NEW h \in Groups, Commit(h) PROVE group'["dlq"].at = group["dlq"].at
      <4>1. group' = [group EXCEPT ![h].committed = Resolved(h)]
        BY <3>6 DEF Commit
      <4>2. "dlq" \in DOMAIN group /\ group["dlq"] \in Readers
        BY <1>0 DEF PipelineTypeOK
      <4> QED
        BY <4>1, <4>2 DEF Readers
    <3>7. CASE Consume \/ AnalyticsCrash
      <4>1. group'["dlq"] = group["dlq"]
        BY <1>0, <3>7 DEF PipelineTypeOK, Consume, AnalyticsCrash, Advanced
      <4> QED
        BY <3>1, <4>1
    <3> QED
      BY <3>1, <3>3, <3>4, <3>5, <3>6, <3>7 DEF PipelineNext
  <2> QED
    BY <2>1, <2>2
<1>2. group["dlq"].at + 1 \in DOMAIN dlq /\ group["dlq"].at \in Nat
  BY <1>1, ReadingEntry
<1>3. Len(dlq) \in Nat /\ Len(dlq') \in Nat /\ Len(dlq) <= Len(dlq') /\ DOMAIN dlq = 1..Len(dlq)
  BY <1>0, TopicsKept DEF End
<1>4. dlq'[group["dlq"].at + 1] = dlq[group["dlq"].at + 1]
  BY <1>2, TopicsKept
<1> QED
  BY <1>1, <1>2, <1>3, <1>4 DEF Current

LEMMA BlockedKept ==
    ASSUME PipelineTypeOK, WorkerInv, ReadersInv, BlockedInv, PipelineNext
    PROVE  BlockedInv'
<1> SUFFICES ASSUME blocked'
             PROVE  /\ group'["analytics"].at >= 1
                    /\ log'[group'["analytics"].at] \in ToSet(flushing')
  BY DEF BlockedInv
<1>0. "analytics" \in Groups /\ None < 0 /\ group["analytics"] \in Readers
  BY DEF Groups, None, PipelineTypeOK
<1>1. CASE Consume
  <2>1. /\ Reading("analytics", log) /\ group' = Advanced("analytics") /\ log' = log /\ ~blocked
    BY <1>1 DEF Consume
  <2> DEFINE x == log[group["analytics"].at + 1]
  <2>2. group["analytics"].at \in Nat /\ x \in Events
    BY <2>1, ReadingLog
  <2>3. group'["analytics"].at = group["analytics"].at + 1
    BY <1>0, <2>1, <2>2, Advancing DEF PipelineTypeOK
  <2>4. flushing' = Append(batch, x)
    BY <1>1, <2>1 DEF Consume
  <2>5. x \in ToSet(flushing')
    BY <2>2, <2>4, Appended DEF PipelineTypeOK
  <2> QED
    BY <2>1, <2>2, <2>3, <2>5
<1>2. CASE ~Consume
  <2>1. blocked /\ flushing' = flushing
    BY <1>2 DEF PipelineTypeOK, PipelineNext, Finish, Send, SendFails, Park, TakeEntry, Resend,
                Repark, Join, JoinFails, Commit, FlushTimer, Ingest, IngestFails, GatewayCrash,
                AnalyticsCrash
  <2>2. group["analytics"].at >= 1 /\ log[group["analytics"].at] \in ToSet(flushing)
    BY <2>1 DEF BlockedInv
  <2>3. group'["analytics"].at = group["analytics"].at
    <3>1. CASE \/ \E e \in Events : Finish(e) \/ Send(e) \/ SendFails(e) \/ Park(e)
               \/ FlushTimer \/ Ingest \/ IngestFails
      BY <3>1 DEF Finish, Send, SendFails, Park, FlushTimer, Ingest, IngestFails
    <3>2. CASE TakeEntry \/ Resend \/ Repark \/ GatewayCrash
      BY <1>0, <3>2 DEF TakeEntry, Resend, Repark, GatewayCrash, Advanced, PipelineTypeOK
    <3>3. ASSUME NEW h \in Groups, Join(h) \/ JoinFails(h)
          PROVE  group'["analytics"].at = group["analytics"].at
      <4>1. h # "analytics"
        <5>1. group[h].at = None
          BY <3>3 DEF Join, JoinFails
        <5> QED
          BY <2>2, <5>1 DEF None
      <4>2. group'["analytics"] = group["analytics"]
        BY <1>0, <3>3, <4>1 DEF Join, JoinFails, PipelineTypeOK
      <4> QED
        BY <4>2
    <3>4. ASSUME NEW h \in Groups, Commit(h)
          PROVE  group'["analytics"].at = group["analytics"].at
      <4>1. group' = [group EXCEPT ![h].committed = Resolved(h)]
        BY <3>4 DEF Commit
      <4>2. "analytics" \in DOMAIN group
        BY <1>0 DEF PipelineTypeOK
      <4> QED
        BY <1>0, <4>1, <4>2 DEF Readers
    <3>5. ~AnalyticsCrash
      BY DEF AnalyticsCrash
    <3> QED
      BY <1>2, <3>1, <3>2, <3>3, <3>4, <3>5 DEF PipelineNext
  <2>4. group["analytics"].at \in DOMAIN log
    <3>1. group["analytics"].at <= Len(log)
      BY <1>0 DEF ReadersInv, End
    <3>2. group["analytics"].at \in Int
      BY <1>0 DEF Readers, None, Off
    <3> QED
      BY <2>2, <3>1, <3>2, TopicsKept
  <2> QED
    BY <2>1, <2>2, <2>3, <2>4, TopicsKept
<1> QED
  BY <1>1, <1>2

\* What a batch holds is counted: no copy of an event that is not in it.
LEMMA Counting ==
    ASSUME NEW S, NEW s \in Seq(S), NEW e
    PROVE  /\ Count(e, s) \in Nat
           /\ e \in ToSet(s) <=> Count(e, s) > 0
<1> DEFINE P == {i \in DOMAIN s : s[i] = e}
<1>1. IsFiniteSet(P)
  <2>1. IsFiniteSet(1..Len(s)) /\ DOMAIN s = 1..Len(s)
    BY FS_Interval
  <2> QED
    BY <2>1, FS_Subset
<1>2. Cardinality(P) \in Nat /\ (Cardinality(P) = 0 <=> P = {})
  BY <1>1, FS_CardinalityType, FS_EmptySet
<1>3. e \in ToSet(s) <=> P # {}
  BY Ranges
<1> QED
  BY <1>2, <1>3 DEF Count

LEMMA UnsentKept ==
    ASSUME PipelineTypeOK, WorkerInv, UnsentInv, PipelineNext
    PROVE  UnsentInv'
<1> SUFFICES ASSUME NEW e \in Events, publish'[e] = "new"
             PROVE  /\ stored'[e] = 0
                    /\ e \notin ToSet(log') \cup ToSet(batch') \cup ToSet(flushing')
                    /\ \A i \in DOMAIN dlq' : dlq'[i].event # e
  BY DEF UnsentInv
<1>1. publish[e] = "new"
  BY DEF PipelineTypeOK, PipelineNext, Finish, Send, SendFails, Park, TakeEntry, Resend, Repark,
         Join, JoinFails, Commit, Consume, FlushTimer, Ingest, IngestFails, GatewayCrash,
         AnalyticsCrash
<1>2. /\ stored[e] = 0 /\ e \notin ToSet(log) /\ e \notin ToSet(batch) /\ e \notin ToSet(flushing)
      /\ \A i \in DOMAIN dlq : dlq[i].event # e
  BY <1>1 DEF UnsentInv
<1>3. /\ log \in Seq(Events) /\ dlq \in Seq(Entries) /\ batch \in Seq(Events)
      /\ flushing \in Seq(Events) /\ stored \in [Events -> Nat] /\ publish \in [Events -> {"new", "sending", "parking", "done"}]
  BY DEF PipelineTypeOK
<1>4. e \notin ToSet(log')
  <2>1. ASSUME NEW x \in Events, x # e, log' = Append(log, x) PROVE e \notin ToSet(log')
    BY <1>2, <1>3, <2>1, Appended
  <2>2. ASSUME NEW x \in Events, Finish(x) \/ Send(x) \/ SendFails(x) \/ Park(x) PROVE e \notin ToSet(log')
    <3>1. log' = log \/ (log' = Append(log, x) /\ publish'[x] # "new")
      BY <1>3, <2>2 DEF Finish, Send, SendFails, Park, MaybeWritten
    <3> QED
      BY <1>2, <2>1, <3>1
  <2>3. CASE Resend
    <3>1. Reading("dlq", dlq)
      BY <2>3 DEF WorkerInv, Resend
    <3>2. Current.event \in Events /\ Current.event # e
      BY <1>2, <3>1, ReadingEntry DEF Current
    <3>3. log' \in {log, Append(log, Current.event)}
      BY <2>3 DEF Resend, MaybeWritten
    <3> QED
      BY <1>2, <2>1, <3>2, <3>3
  <2>4. (\A x \in Events : ~(Finish(x) \/ Send(x) \/ SendFails(x) \/ Park(x))) /\ ~Resend => log' = log
    BY DEF PipelineNext, TakeEntry, Repark, Join, JoinFails, Commit, Consume, FlushTimer, Ingest,
           IngestFails, GatewayCrash, AnalyticsCrash
  <2> QED
    BY <1>2, <2>2, <2>3, <2>4
<1>5. \A i \in DOMAIN dlq' : dlq'[i].event # e
  <2>1. ASSUME NEW x \in Entries, x.event # e, dlq' = Append(dlq, x)
        PROVE  \A i \in DOMAIN dlq' : dlq'[i].event # e
    BY <1>2, <1>3, <2>1, Appended
  <2>2. ASSUME NEW x \in Events, Finish(x) \/ Send(x) \/ SendFails(x) \/ Park(x)
        PROVE  \A i \in DOMAIN dlq' : dlq'[i].event # e
    <3>1. dlq' = dlq \/ (dlq' = Append(dlq, DlqEntry(x, 0)) /\ publish'[x] # "new")
      BY <1>3, <2>2 DEF Finish, Send, SendFails, Park
    <3>2. DlqEntry(x, 0) \in Entries /\ DlqEntry(x, 0).event = x
      BY PipelineAssumption DEF DlqEntry, Entries
    <3> QED
      BY <1>2, <2>1, <3>1, <3>2
  <2>3. CASE Repark
    <3>1. Reading("dlq", dlq) /\ Current.attempt < MaxRetries
      BY <2>3 DEF WorkerInv, Repark
    <3>2. Current.event \in Events /\ Current.event # e /\ Current.attempt \in 0..MaxRetries
      BY <1>2, <3>1, ReadingEntry DEF Current
    <3>3. /\ DlqEntry(Current.event, Current.attempt + 1) \in Entries
          /\ DlqEntry(Current.event, Current.attempt + 1).event # e
      BY <3>1, <3>2, PipelineAssumption DEF DlqEntry, Entries
    <3>4. dlq' \in {dlq, Append(dlq, DlqEntry(Current.event, Current.attempt + 1))}
      BY <2>3 DEF Repark
    <3> QED
      BY <1>2, <2>1, <3>3, <3>4
  <2>4. (\A x \in Events : ~(Finish(x) \/ Send(x) \/ SendFails(x) \/ Park(x))) /\ ~Repark => dlq' = dlq
    BY DEF PipelineNext, TakeEntry, Resend, Join, JoinFails, Commit, Consume, FlushTimer, Ingest,
           IngestFails, GatewayCrash, AnalyticsCrash
  <2> QED
    BY <1>2, <2>2, <2>3, <2>4
<1>6. e \notin ToSet(batch') \cup ToSet(flushing')
  <2>1. CASE Consume
    <3> DEFINE x == log[group["analytics"].at + 1]
    <3>1. x \in Events /\ x # e
      <4>1. Reading("analytics", log)
        BY <2>1 DEF Consume
      <4> QED
        BY <1>2, <1>3, <4>1, ReadingLog, Ranges
    <3>2. e \notin ToSet(Append(batch, x)) /\ e \notin ToSet(<<>>)
      BY <1>2, <1>3, <3>1, Appended, Emptied
    <3>3. batch' \in {<<>>, Append(batch, x)} /\ flushing' \in {flushing, Append(batch, x)}
      BY <2>1 DEF Consume
    <3> QED
      BY <1>2, <3>2, <3>3
  <2>2. ~Consume => batch' \in {batch, <<>>} /\ flushing' \in {flushing, batch, <<>>}
    BY DEF PipelineNext, Finish, Send, SendFails, Park, TakeEntry, Resend, Repark, Join, JoinFails,
           Commit, FlushTimer, Ingest, IngestFails, GatewayCrash, AnalyticsCrash
  <2> QED
    BY <1>2, <2>1, <2>2, Emptied
<1>7. stored'[e] = 0
  <2>1. CASE Ingest
    <3>1. Count(e, flushing) = 0
      BY <1>2, <1>3, Counting
    <3> QED
      BY <1>2, <1>3, <2>1, <3>1 DEF Ingest
  <2>2. ~Ingest => stored' = stored
    BY DEF PipelineNext, Finish, Send, SendFails, Park, TakeEntry, Resend, Repark, Join, JoinFails,
           Commit, Consume, FlushTimer, IngestFails, GatewayCrash, AnalyticsCrash
  <2> QED
    BY <1>2, <2>1, <2>2
<1> QED
  BY <1>4, <1>5, <1>6, <1>7

LEMMA PipelineInitially == ASSUME PipelineInit PROVE PipelineInv
  <1>1. PipelineTypeOK
    <2>1. Reader(None, None) \in Readers
      BY DEF Reader, Readers
    <2>2. [kind \in FaultKinds |-> 0] \in [FaultKinds -> 0..MaxFaults]
      BY PipelineAssumption
    <2>3. /\ log \in Seq(Events) /\ dlq \in Seq(Entries) /\ batch \in Seq(Events)
          /\ flushing \in Seq(Events)
      BY Emptied DEF PipelineInit
    <2>4. dlqTopic \in BOOLEAN /\ (Len(dlq) > 0 => dlqTopic)
      BY DEF PipelineInit
    <2> QED
      BY <2>1, <2>2, <2>3, <2>4 DEF PipelineInit, PipelineTypeOK
  <1>2. ReadersInv /\ WorkerInv /\ BlockedInv
    BY DEF PipelineInit, ReadersInv, WorkerInv, BlockedInv, Reader, None, Groups, End
  <1>3. UnsentInv
    BY Emptied DEF PipelineInit, UnsentInv
  <1> QED
    BY <1>1, <1>2, <1>3 DEF PipelineInv

LEMMA PipelineSteps == ASSUME PipelineInv, [PipelineNext]_pipelineVars PROVE PipelineInv'
<1>1. CASE PipelineNext
  BY <1>1, PipelineTypes, ReadersKept, WorkerKept, BlockedKept, UnsentKept DEF PipelineInv
<1>2. CASE UNCHANGED pipelineVars
  BY <1>2 DEF pipelineVars, PipelineInv, PipelineTypeOK, ReadersInv, WorkerInv, BlockedInv,
              UnsentInv, End, Resolved, Reading, Current
<1> QED
  BY <1>1, <1>2

\* The topics, the positions of the consumer groups and the batches keep their
\* types through every failure.
THEOREM PipelineTyped == PipelineSpec => []PipelineTypeOK
<1>1. PipelineSpec => []PipelineInv
  BY PipelineInitially, PipelineSteps, PTL DEF PipelineSpec
<1> QED
  BY <1>1, PTL DEF PipelineInv

-----------------------------------------------------------------------------
(* What has gone wrong is not forgotten, and what becomes of an event has a *)
(* cause.                                                                   *)

LEMMA FaultsKept ==
    ASSUME PipelineTypeOK, PipelineNext, NEW k \in FaultKinds
    PROVE  faults[k] \in Nat /\ faults'[k] \in Nat /\ faults[k] <= faults'[k]
<1>1. faults \in [FaultKinds -> 0..MaxFaults]
  BY DEF PipelineTypeOK
<1>2. ASSUME NEW kind \in FaultKinds, Fault(kind)
      PROVE  faults[k] \in Nat /\ faults'[k] \in Nat /\ faults[k] <= faults'[k]
  <2>1. faults[k] \in 0..MaxFaults /\ faults'[k] \in {faults[k], faults[k] + 1}
    BY <1>1, <1>2, FaultCounts
  <2> QED
    BY <2>1, PipelineAssumption
<1>3. faults' = faults \/ \E kind \in FaultKinds : Fault(kind)
  BY DEF FaultKinds, PipelineNext, Finish, Send, SendFails, Park, TakeEntry, Resend, Repark, Join,
         JoinFails, Commit, Consume, FlushTimer, Ingest, IngestFails, GatewayCrash, AnalyticsCrash
<1> QED
  BY <1>1, <1>2, <1>3, PipelineAssumption

LEMMA FaultSeen ==
    ASSUME PipelineTypeOK, NEW k \in FaultKinds, Fault(k)
    PROVE  faults[k] \in Nat /\ faults'[k] = faults[k] + 1
  BY FaultCounts, PipelineAssumption DEF PipelineTypeOK

LEMMA DlqKept ==
    ASSUME PipelineTypeOK, WorkerInv, DlqInv, PipelineNext
    PROVE  DlqInv'
<1>1. "kafka" \in FaultKinds
  BY DEF FaultKinds
<1> DEFINE k == faults["kafka"]
<1>2. k \in Nat /\ k' \in Nat /\ k <= k'
  BY <1>1, FaultsKept
<1>3. dlq \in Seq(Entries) /\ publish \in [Events -> {"new", "sending", "parking", "done"}]
  BY DEF PipelineTypeOK
<1>4. ASSUME (\E e \in Events : publish'[e] = "parking") \/ dlq' # <<>>
      PROVE  k' > 0
  <2>1. CASE k > 0
    BY <1>2, <2>1
  <2>2. CASE ~(k > 0)
    <3>1. (\A e \in Events : publish[e] # "parking") /\ dlq = <<>>
      BY <2>2 DEF DlqInv
    <3>2. ~Reading("dlq", dlq)
      BY <3>1, <1>3, ReadingEntry DEF PipelineTypeOK, Reading
    <3>3. \A e \in Events : ~Park(e)
      BY <3>1 DEF Park
    <3>4. ~Repark
      BY <3>2 DEF Repark, WorkerInv
    <3>5. CASE \E e \in Events : SendFails(e)
      <4>1. Fault("kafka")
        BY <3>5 DEF SendFails
      <4> QED
        BY <1>1, <1>2, <4>1, FaultSeen
    <3>6. CASE \A e \in Events : ~SendFails(e)
      <4>1. dlq' = dlq
        BY <3>3, <3>4, <3>6 DEF PipelineNext, Finish, Send, TakeEntry, Resend, Join, JoinFails,
           Commit, Consume, FlushTimer, Ingest, IngestFails, GatewayCrash, AnalyticsCrash
      <4>2. \A e \in Events : publish'[e] # "parking"
        BY <1>3, <3>1, <3>3, <3>4, <3>6 DEF PipelineNext, Finish, Send, TakeEntry, Resend, Join,
           JoinFails, Commit, Consume, FlushTimer, Ingest, IngestFails, GatewayCrash, AnalyticsCrash
      <4> QED
        BY <1>4, <3>1, <4>1, <4>2
    <3> QED
      BY <3>5, <3>6
  <2> QED
    BY <2>1, <2>2
<1>5. ASSUME retry' = "parking" \/ (\E i \in DOMAIN dlq' : dlq'[i].attempt > 0)
      PROVE  k' > 1
  <2>1. CASE k > 1
    BY <1>2, <2>1
  <2>2. CASE ~(k > 1)
    <3>1. retry # "parking" /\ (\A i \in DOMAIN dlq : ~(dlq[i].attempt > 0))
      BY <2>2 DEF DlqInv
    <3>2. ~Repark
      BY <3>1 DEF Repark
    <3>3. CASE Resend /\ retry' = "parking"
      <4>1. Reading("dlq", dlq) /\ Fault("kafka")
        BY <3>3 DEF Resend, WorkerInv
      <4>2. dlq # <<>>
        BY <1>3, <4>1, ReadingEntry DEF PipelineTypeOK, Reading
      <4>3. k > 0
        BY <4>2 DEF DlqInv
      <4> QED
        BY <1>1, <1>2, <4>1, <4>3, FaultSeen
    <3>4. CASE ~(Resend /\ retry' = "parking")
      <4>1. retry' # "parking"
        BY <3>1, <3>2, <3>4 DEF PipelineNext, Finish, Send, SendFails, Park, TakeEntry, Join,
           JoinFails, Commit, Consume, FlushTimer, Ingest, IngestFails, GatewayCrash, AnalyticsCrash
      <4>2. dlq' = dlq \/ \E e \in Events : dlq' = Append(dlq, DlqEntry(e, 0))
        BY <3>2 DEF PipelineNext, Finish, Send, SendFails, Park, TakeEntry, Resend, Join,
           JoinFails, Commit, Consume, FlushTimer, Ingest, IngestFails, GatewayCrash, AnalyticsCrash
      <4>3. ASSUME NEW e \in Events, dlq' = Append(dlq, DlqEntry(e, 0))
            PROVE  \A i \in DOMAIN dlq' : ~(dlq'[i].attempt > 0)
        <5>1. DlqEntry(e, 0) \in Entries /\ DlqEntry(e, 0).attempt = 0
          BY PipelineAssumption DEF DlqEntry, Entries
        <5> QED
          BY <1>3, <3>1, <4>3, <5>1, Appended
      <4> QED
        BY <1>5, <3>1, <4>1, <4>2, <4>3
    <3> QED
      BY <3>3, <3>4
  <2> QED
    BY <2>1, <2>2
<1> QED
  BY <1>4, <1>5 DEF DlqInv

\* Only a failed insert or a restart takes an event out of memory unstored.
LEMMA StaysKept ==
    ASSUME PipelineTypeOK, PipelineNext, NothingLost', NEW e \in Events, Kept(e)
    PROVE  Kept(e)'
<1>1. /\ log \in Seq(Events) /\ batch \in Seq(Events) /\ flushing \in Seq(Events)
      /\ stored \in [Events -> Nat] /\ stored[e] \in Nat
  BY DEF PipelineTypeOK
<1>2. ~IngestFails /\ ~AnalyticsCrash
  <2>1. "db" \in FaultKinds /\ "crash" \in FaultKinds
    BY DEF FaultKinds
  <2>2. ~Fault("db") /\ ~Fault("crash")
    BY <2>1, FaultSeen DEF NothingLost
  <2> QED
    BY <2>2 DEF IngestFails, AnalyticsCrash
<1>3. CASE Consume
  <2> DEFINE x == log[group["analytics"].at + 1]
  <2>1. x \in Events
    BY <1>3, ReadingLog DEF Consume
  <2>2. ToSet(Append(batch, x)) = ToSet(batch) \cup {x}
    BY <1>1, <2>1, Appended
  <2>3. /\ stored' = stored /\ missed' = missed
        /\ \/ flushing' = Append(batch, x) /\ flushing = <<>>
           \/ batch' = Append(batch, x) /\ flushing' = flushing
    BY <1>3 DEF Consume
  <2> QED
    BY <2>2, <2>3, Emptied DEF Kept
<1>4. CASE FlushTimer
  BY <1>4, Emptied DEF FlushTimer, Kept
<1>5. CASE Ingest
  <2>1. Count(e, flushing) \in Nat /\ (e \in ToSet(flushing) <=> Count(e, flushing) > 0)
    BY <1>1, Counting
  <2>2. stored'[e] = stored[e] + Count(e, flushing)
    BY <1>5 DEF Ingest
  <2>3. batch' = batch /\ missed' = missed
    BY <1>5 DEF Ingest
  <2>4. CASE e \in ToSet(flushing) \/ stored[e] > 0
    BY <1>1, <2>1, <2>2, <2>4 DEF Kept
  <2>5. CASE e \in missed \cup ToSet(batch)
    BY <2>3, <2>5 DEF Kept
  <2> QED
    BY <2>4, <2>5 DEF Kept
<1>6. CASE ~Consume /\ ~FlushTimer /\ ~Ingest
  <2>1. batch' = batch /\ flushing' = flushing /\ stored' = stored /\ missed \subseteq missed'
    BY <1>2, <1>6 DEF PipelineNext, Finish, Send, SendFails, Park, TakeEntry, Resend, Repark, Join,
       JoinFails, Commit, GatewayCrash
  <2> QED
    BY <2>1 DEF Kept
<1> QED
  BY <1>3, <1>4, <1>5, <1>6

LEMMA AccountedKept ==
    ASSUME PipelineInv, DlqInv, AccountedInv, PipelineNext
    PROVE  AccountedInv'
<1> USE DEF PipelineInv
<1> SUFFICES ASSUME NothingLost'
             PROVE  /\ \A g \in Groups : group'[g].at < 0 => group'[g].committed = None
                    /\ \A i \in DOMAIN log' : i <= group'["analytics"].at => Kept(log[i])'
                    /\ \A i \in DOMAIN dlq' : i <= group'["dlq"].at =>
                         dlq'[i].event \in missed' \cup ToSet(log') \/ faults'["kafka"] > 1
                    /\ \A e \in Events : publish'[e] = "done" =>
                         \/ e \in ToSet(log') \/ \E i \in DOMAIN dlq' : dlq'[i].event = e
                         \/ faults'["kafka"] > 1
  BY DEF AccountedInv
<1>0. {"kafka", "db", "crash"} = FaultKinds /\ {"analytics", "dlq"} = Groups
  BY DEF FaultKinds, Groups
<1>1. /\ NothingLost /\ ~(faults'["crash"] > 0)
      /\ faults["kafka"] \in Nat /\ faults'["kafka"] \in Nat /\ faults["kafka"] <= faults'["kafka"]
  BY <1>0, FaultsKept DEF NothingLost
<1>2. /\ \A g \in Groups : group[g].at < 0 => group[g].committed = None
      /\ \A i \in DOMAIN log : i <= group["analytics"].at => Kept(log[i])
      /\ \A i \in DOMAIN dlq : i <= group["dlq"].at =>
           dlq[i].event \in missed \cup ToSet(log) \/ faults["kafka"] > 1
      /\ \A e \in Events : publish[e] = "done" =>
           \/ e \in ToSet(log) \/ \E i \in DOMAIN dlq : dlq[i].event = e
           \/ faults["kafka"] > 1
  BY <1>1 DEF AccountedInv
<1>3. /\ log \in Seq(Events) /\ dlq \in Seq(Entries)
      /\ publish \in [Events -> {"new", "sending", "parking", "done"}]
      /\ group \in [Groups -> Readers] /\ group' \in [Groups -> Readers]
  BY PipelineTypes DEF PipelineTypeOK
<1>4. ASSUME NEW g \in Groups
      PROVE  group[g].at \in Nat \cup {None, Off} /\ group[g].committed \in Nat \cup {None}
  <2>1. group[g] \in Readers
    BY <1>3
  <2> QED
    BY <2>1 DEF Readers
<1>5. None < 0 /\ Off < 0 /\ None \in Int /\ Off \in Int
  BY DEF None, Off
<1>6. ASSUME NEW g \in Groups, group'[g].at < 0 PROVE group'[g].committed = None
  <2>1. group[g].at \in Int /\ End(g) \in Nat /\ (group[g].committed \in Nat \/ group[g].committed = None)
    BY <1>4, <1>5, TopicsKept
  <2>2. group[g].at < 0 => group[g].committed = None
    BY <1>2
  <2>4. \/ group'[g] = group[g]
        \/ group'[g].at = group[g].at + 1 /\ group[g].at >= 0
        \/ /\ group[g].at = None
           /\ group'[g].at = IF group[g].committed = None THEN End(g) ELSE group[g].committed
        \/ group[g].at = None /\ group'[g].committed = group[g].committed
        \/ group'[g].at = group[g].at /\ group[g].at >= 0
    BY <1>1, ReadersMove
  <2> QED
    BY <1>5, <1>6, <2>1, <2>2, <2>4
<1>7. ASSUME NEW i \in DOMAIN log', i <= group'["analytics"].at PROVE Kept(log[i])'
  <2> DEFINE g == "analytics"
  <2>0. g \in Groups /\ group[g].at <= End(g) /\ End(g) = Len(log) /\ End(g) \in Nat
    BY <1>0, TopicsKept DEF ReadersInv, End
  <2>1. i \in Nat /\ i > 0 /\ (i <= Len(log) => i \in DOMAIN log) /\ (i <= group[g].at => i \in DOMAIN log)
    <3>1. group[g].at \in Int /\ DOMAIN log' = 1..Len(log') /\ DOMAIN log = 1..Len(log)
      BY <1>4, <1>5, <2>0, TopicsKept
    <3> QED
      BY <1>7, <2>0, <3>1
  <2>2. ASSUME i <= group[g].at PROVE Kept(log[i])'
    <3>1. log[i] \in Events /\ log'[i] = log[i] /\ Kept(log[i])
      BY <1>2, <1>3, <2>1, <2>2, TopicsKept
    <3>2. ASSUME NEW e \in Events, e = log[i] PROVE Kept(e)'
      BY <1>1, <3>1, <3>2, StaysKept
    <3> QED
      BY <3>1, <3>2 DEF Kept
  <2>3. CASE group'[g] = group[g] \/ group'[g].at = group[g].at
    BY <1>7, <2>2, <2>3
  <2>4. CASE Consume
    <3> DEFINE x == log[group["analytics"].at + 1]
    <3>1. x \in Events /\ group[g].at \in Nat
      BY <2>4, ReadingLog DEF Consume
    <3>2. log' = log /\ group' = Advanced(g)
      BY <2>4 DEF Consume
    <3>3. group'[g].at = group[g].at + 1
      BY <1>3, <2>0, <3>1, <3>2, Advancing
    <3>4. CASE i = group[g].at + 1
      <4>1. x \in ToSet(Append(batch, x))
        BY <3>1, Appended DEF PipelineTypeOK
      <4>2. flushing' = Append(batch, x) \/ batch' = Append(batch, x)
        BY <2>4 DEF Consume
      <4> QED
        BY <3>2, <3>4, <4>1, <4>2 DEF Kept
    <3>5. CASE i # group[g].at + 1
      <4>1. i <= group[g].at
        BY <1>7, <2>1, <3>1, <3>3, <3>5
      <4> QED
        BY <2>2, <4>1
    <3> QED
      BY <3>4, <3>5
  <2>5. CASE group[g].at = None /\ Join(g)
    <3>1. group[g].committed = None
      BY <1>2, <1>5, <2>0, <2>5
    <3>2. missed' = missed \cup ToSet(log) /\ log' = log
      BY <2>5, <3>1 DEF Join, Written
    <3>3. i \in DOMAIN log /\ log[i] \in ToSet(log)
      BY <1>3, <1>7, <3>2, Ranges
    <3> QED
      BY <3>2, <3>3 DEF Kept
  <2>6. CASE group'[g].at \in {None, Off}
    BY <1>5, <1>7, <2>1, <2>6
  <2> QED
    BY <2>0, <2>3, <2>4, <2>5, <2>6, ReadersMove
<1>8. ASSUME NEW i \in DOMAIN dlq', i <= group'["dlq"].at, ~(faults'["kafka"] > 1)
      PROVE  dlq'[i].event \in missed' \cup ToSet(log')
  <2> DEFINE g == "dlq"
  <2>0. g \in Groups /\ group[g].at <= End(g) /\ End(g) = Len(dlq) /\ End(g) \in Nat
    BY <1>0, TopicsKept DEF ReadersInv, End
  <2>1. i \in Nat /\ i > 0 /\ (i <= Len(dlq) => i \in DOMAIN dlq) /\ (i <= group[g].at => i \in DOMAIN dlq)
    <3>1. group[g].at \in Int /\ DOMAIN dlq' = 1..Len(dlq') /\ DOMAIN dlq = 1..Len(dlq)
      BY <1>4, <1>5, <2>0, TopicsKept
    <3> QED
      BY <1>8, <2>0, <3>1
  <2>2. ~(faults["kafka"] > 1)
    BY <1>1, <1>8
  <2>3. missed \subseteq missed'
    BY DEF PipelineNext, Finish, Send, SendFails, Park, TakeEntry, Resend, Repark, Join, JoinFails,
           Commit, Consume, FlushTimer, Ingest, IngestFails, GatewayCrash, AnalyticsCrash
  <2>4. ASSUME i <= group[g].at PROVE dlq'[i].event \in missed' \cup ToSet(log')
    <3>1. dlq'[i] = dlq[i] /\ dlq[i].event \in missed \cup ToSet(log)
      BY <1>2, <2>1, <2>2, <2>4, TopicsKept
    <3> QED
      BY <2>3, <3>1, TopicsKept
  <2>5. CASE group'[g] = group[g] \/ group'[g].at = group[g].at
    BY <1>8, <2>4, <2>5
  <2>6. CASE /\ TakeEntry \/ Resend \/ Repark
             /\ group[g].at >= 0 /\ group[g].at < End(g) /\ group'[g].at = group[g].at + 1
    <3>1. Reading(g, dlq)
      BY <2>0, <2>6 DEF Reading
    <3>2. /\ group[g].at + 1 \in DOMAIN dlq /\ group[g].at \in Nat /\ Current.event \in Events
          /\ Current.attempt \in 0..MaxRetries
      BY <3>1, ReadingEntry
    <3>3. retry # "parking" /\ ~(Current.attempt > 0)
      BY <2>2, <3>2 DEF DlqInv, Current
    <3>4. CASE i = group[g].at + 1
      <4>1. ~TakeEntry
        <5>1. group' # group
          BY <2>6, <3>2
        <5>2. TakeEntry => Current.attempt >= MaxRetries
          BY <5>1 DEF TakeEntry
        <5> QED
          BY <3>2, <3>3, <5>2, PipelineAssumption
      <4>2. Resend
        BY <2>6, <3>3, <4>1 DEF Repark
      <4>3. log' = Append(log, Current.event)
        <5>1. group' # group
          BY <2>6, <3>2
        <5> QED
          BY <4>2, <5>1 DEF Resend
      <4>4. Current.event \in ToSet(log')
        BY <1>3, <3>2, <4>3, Appended
      <4>5. dlq' = dlq
        BY <4>2 DEF Resend
      <4> QED
        BY <3>4, <4>4, <4>5 DEF Current
    <3>5. CASE i # group[g].at + 1
      <4>1. i <= group[g].at
        BY <1>8, <2>1, <2>6, <3>2, <3>5
      <4> QED
        BY <2>4, <4>1
    <3> QED
      BY <3>4, <3>5
  <2>7. CASE group[g].at = None /\ Join(g) /\ dlqTopic
    <3>1. group[g].committed = None
      BY <1>2, <1>5, <2>0, <2>7
    <3>2. missed' = missed \cup {dlq[j].event : j \in DOMAIN dlq} /\ dlq' = dlq
      BY <2>7, <3>1 DEF Join, Written
    <3> QED
      BY <1>8, <3>2
  <2>8. CASE group'[g].at \in {None, Off}
    BY <1>5, <1>8, <2>1, <2>8
  <2> QED
    BY <2>0, <2>5, <2>6, <2>7, <2>8, ReadersMove
<1>9. ASSUME NEW e \in Events, publish'[e] = "done", ~(faults'["kafka"] > 1)
      PROVE  e \in ToSet(log') \/ \E i \in DOMAIN dlq' : dlq'[i].event = e
  <2>1. CASE publish[e] = "done"
    <3>1. e \in ToSet(log) \/ \E i \in DOMAIN dlq : dlq[i].event = e
      BY <1>1, <1>2, <1>9, <2>1
    <3> QED
      BY <3>1, TopicsKept
  <2>2. CASE Send(e)
    BY <1>3, <2>2, Appended DEF Send
  <2>3. CASE Park(e)
    <3>1. ~Fault("kafka")
      <4>1. faults["kafka"] > 0
        BY <2>3 DEF Park, DlqInv
      <4> QED
        BY <1>0, <1>1, <1>9, <4>1, FaultSeen
    <3>2. dlq' = Append(dlq, DlqEntry(e, 0))
      BY <2>3, <3>1 DEF Park
    <3>3. DlqEntry(e, 0) \in Entries /\ DlqEntry(e, 0).event = e
      BY PipelineAssumption DEF DlqEntry, Entries
    <3>4. Len(dlq) + 1 \in DOMAIN dlq' /\ dlq'[Len(dlq) + 1] = DlqEntry(e, 0)
      BY <1>3, <3>2, <3>3, Appended
    <3> QED
      BY <3>3, <3>4
  <2>4. publish[e] = "done" \/ Send(e) \/ Park(e)
    <3>1. ~GatewayCrash
      BY <1>0, <1>1, FaultSeen DEF GatewayCrash, NothingLost
    <3> QED
      BY <1>3, <1>9, <3>1 DEF PipelineNext, Finish, Send, SendFails, Park, TakeEntry, Resend,
         Repark, Join, JoinFails, Commit, Consume, FlushTimer, Ingest, IngestFails, AnalyticsCrash
  <2> QED
    BY <2>1, <2>2, <2>3, <2>4
<1> QED
  BY <1>6, <1>7, <1>8, <1>9

LEMMA CountedOnce ==
    ASSUME NEW S, NEW s \in Seq(S), IsInjective(s), NEW e
    PROVE  Count(e, s) <= 1 /\ Count(e, s) \in Nat
<1> DEFINE P == {i \in DOMAIN s : s[i] = e}
<1>0. Count(e, s) = Cardinality(P)
  BY DEF Count
<1> HIDE DEF P
<1>1. CASE P = {}
  BY <1>0, <1>1, FS_EmptySet
<1>2. CASE P # {}
  <2>1. PICK i \in DOMAIN s : s[i] = e
    BY <1>2 DEF P
  <2>2. P = {i}
    BY <2>1 DEF P, IsInjective
  <2>3. Cardinality(P) = 1
    BY <2>2, FS_Singleton
  <2> QED
    BY <1>0, <2>3
<1> QED
  BY <1>1, <1>2

LEMMA OnceKept ==
    ASSUME PipelineInv, DlqInv, OnceInv, PipelineNext
    PROVE  OnceInv'
<1> USE DEF PipelineInv
<1> SUFFICES ASSUME NothingRepeated'
             PROVE  /\ IsInjective(log') /\ IsInjective(batch') /\ IsInjective(flushing')
                    /\ ToSet(batch') \cap ToSet(flushing') = {}
                    /\ \A e \in Events :
                         /\ publish'[e] = "sending" => e \notin ToSet(log')
                         /\ Taken(e)' => e \in ToSet(log')
                         /\ stored'[e] <= 1
                         /\ stored'[e] > 0 => e \notin ToSet(batch') \cup ToSet(flushing')
                    /\ \A i \in DOMAIN log' : Taken(log[i])' => i <= group'["analytics"].at
  BY DEF OnceInv
<1>0. /\ {"kafka", "db", "crash"} = FaultKinds /\ {"analytics", "dlq"} = Groups
      /\ None < 0 /\ Off < 0 /\ None \in Int /\ Off \in Int
  BY DEF FaultKinds, Groups, None, Off
<1>1. NothingRepeated /\ ~Fault("kafka") /\ ~Fault("crash")
  <2>1. ~Fault("kafka") /\ ~Fault("crash")
    BY <1>0, FaultSeen DEF NothingRepeated
  <2>2. NothingRepeated
    BY <1>0, FaultsKept DEF NothingRepeated
  <2> QED
    BY <2>1, <2>2
<1>2. /\ IsInjective(log) /\ IsInjective(batch) /\ IsInjective(flushing)
      /\ ToSet(batch) \cap ToSet(flushing) = {}
      /\ \A e \in Events :
           /\ publish[e] = "sending" => e \notin ToSet(log)
           /\ Taken(e) => e \in ToSet(log)
           /\ stored[e] <= 1
           /\ stored[e] > 0 => e \notin ToSet(batch) \cup ToSet(flushing)
      /\ \A i \in DOMAIN log : Taken(log[i]) => i <= group["analytics"].at
  BY <1>1 DEF OnceInv
<1>3. /\ log \in Seq(Events) /\ batch \in Seq(Events) /\ flushing \in Seq(Events)
      /\ publish \in [Events -> {"new", "sending", "parking", "done"}]
      /\ stored \in [Events -> Nat] /\ group \in [Groups -> Readers]
      /\ DOMAIN log = 1..Len(log) /\ Len(log) \in Nat
  BY Ranges DEF PipelineTypeOK
<1>4. group["analytics"].at \in Int /\ group["analytics"].at <= Len(log)
  <2>1. group["analytics"] \in Readers
    BY <1>0, <1>3
  <2>2. group["analytics"].at <= End("analytics")
    BY <1>0 DEF ReadersInv
  <2> QED
    BY <1>0, <2>1, <2>2 DEF Readers, End
\* without a failed send there is nothing to park and nothing to resend
<1>5. /\ \A e \in Events : ~Park(e) /\ ~SendFails(e)
      /\ ~TakeEntry /\ ~Resend /\ ~Repark /\ ~GatewayCrash /\ ~AnalyticsCrash
      /\ \A g \in Groups : ~JoinFails(g)
  <2>1. dlq = <<>> /\ \A e \in Events : publish[e] # "parking"
    BY <1>1 DEF DlqInv, NothingRepeated
  <2>2. ~Reading("dlq", dlq)
    BY <2>1, ReadingEntry DEF PipelineTypeOK, Reading
  <2> QED
    BY <1>1, <2>1, <2>2 DEF Park, SendFails, TakeEntry, Resend, Repark, GatewayCrash,
       AnalyticsCrash, JoinFails, WorkerInv
\* memory only changes its shape: what is taken stays taken, once
<1>6. CASE \/ \E e \in Events : Finish(e)
           \/ \E g \in Groups : Join(g) \/ Commit(g)
  <2>1. /\ log' = log /\ batch' = batch /\ flushing' = flushing /\ stored' = stored
        /\ \A e \in Events : publish'[e] = "sending" => publish[e] \in {"new", "sending"}
    BY <1>3, <1>6 DEF Finish, Join, Commit
  <2>2. \A e \in Events : publish'[e] = "sending" => e \notin ToSet(log)
    BY <1>2, <2>1 DEF UnsentInv
  <2>3. ASSUME NEW i \in DOMAIN log, Taken(log[i]) PROVE i <= group'["analytics"].at
    <3>1. i <= group["analytics"].at /\ i >= 1 /\ i \in Int
      BY <1>2, <1>3, <2>3
    <3>2. group["analytics"].at > 0
      BY <1>4, <3>1
    <3>3. group'["analytics"].at = group["analytics"].at
      <4>1. CASE \E e \in Events : Finish(e)
        BY <4>1 DEF Finish
      <4>2. ASSUME NEW g \in Groups, Join(g) PROVE group'["analytics"].at = group["analytics"].at
        <5>1. g # "analytics"
          <6>1. group[g].at = None
            BY <4>2 DEF Join
          <6> QED
            BY <1>0, <3>2, <6>1
        <5>2. group'["analytics"] = group["analytics"]
          BY <1>0, <1>3, <4>2, <5>1 DEF Join
        <5> QED
          BY <5>2
      <4>3. ASSUME NEW g \in Groups, Commit(g) PROVE group'["analytics"].at = group["analytics"].at
        <5>1. group' = [group EXCEPT ![g].committed = Resolved(g)]
          BY <4>3 DEF Commit
        <5>2. group["analytics"] \in Readers /\ "analytics" \in DOMAIN group
          BY <1>0, <1>3
        <5> QED
          BY <5>1, <5>2 DEF Readers
      <4> QED
        BY <1>6, <4>1, <4>2, <4>3
    <3> QED
      BY <3>1, <3>3
  <2> QED
    BY <1>2, <2>1, <2>2, <2>3 DEF Taken
<1>7. ASSUME NEW e \in Events, Send(e)
      PROVE  /\ IsInjective(log')
             /\ \A x \in Events : publish'[x] = "sending" => x \notin ToSet(log')
             /\ \A x \in Events : Taken(x)' => x \in ToSet(log')
             /\ \A i \in DOMAIN log' : Taken(log[i])' => i <= group'["analytics"].at
             /\ batch' = batch /\ flushing' = flushing /\ stored' = stored
  <2>1. /\ publish[e] = "sending" /\ publish' = [publish EXCEPT ![e] = "done"] /\ log' = Append(log, e)
        /\ batch' = batch /\ flushing' = flushing /\ stored' = stored /\ group' = group
    BY <1>7 DEF Send
  <2>2. e \notin ToSet(log) /\ ~Taken(e)
    BY <1>2, <2>1
  <2>3. IsInjective(log')
    BY <1>2, <1>3, <2>1, <2>2, AppendedOnce
  <2>4. /\ ToSet(log') = ToSet(log) \cup {e} /\ DOMAIN log' = 1..Len(log) + 1
        /\ log'[Len(log) + 1] = e
        /\ \A i \in DOMAIN log : log'[i] = log[i]
    BY <1>3, <2>1, Appended
  <2>5. \A x \in Events : Taken(x)' <=> Taken(x)
    BY <2>1 DEF Taken
  <2>6. ASSUME NEW i \in DOMAIN log', Taken(log[i])' PROVE i <= group'["analytics"].at
    <3>1. i = Len(log) + 1 \/ i \in DOMAIN log
      BY <1>3, <2>4
    <3>2. i # Len(log) + 1
      BY <2>1, <2>2, <2>4, <2>6 DEF Taken
    <3>3. i \in DOMAIN log /\ Taken(log[i])
      BY <2>1, <2>4, <2>6, <3>1, <3>2 DEF Taken
    <3> QED
      BY <1>2, <2>1, <3>3
  <2> QED
    BY <1>2, <1>3, <2>1, <2>3, <2>4, <2>5, <2>6
<1>8. CASE Consume
  <2> DEFINE at == group["analytics"].at
             x == log[at + 1]
  <2>1. /\ x \in Events /\ at \in Nat /\ at + 1 \in DOMAIN log /\ x \in ToSet(log)
    BY <1>3, <1>8, ReadingLog, Ranges DEF Consume
  <2>2. /\ log' = log /\ stored' = stored /\ publish' = publish /\ group' = Advanced("analytics")
        /\ \/ flushing' = Append(batch, x) /\ batch' = <<>> /\ flushing = <<>>
           \/ batch' = Append(batch, x) /\ flushing' = flushing
    BY <1>8 DEF Consume
  <2>3. group'["analytics"].at = at + 1
    BY <1>0, <1>3, <2>1, <2>2, Advancing
  <2>4. ~Taken(x)
    BY <1>2, <2>1
  <2>5. /\ IsInjective(Append(batch, x)) /\ ToSet(Append(batch, x)) = ToSet(batch) \cup {x}
        /\ IsInjective(<<>>) /\ ToSet(<<>>) = {}
    BY <1>2, <1>3, <2>1, <2>4, Appended, AppendedOnce, EmptyOnce, Emptied DEF Taken
  <2>6. ToSet(batch') \cup ToSet(flushing') = ToSet(batch) \cup ToSet(flushing) \cup {x}
    BY <2>2, <2>5
  <2>7. \A e \in Events : Taken(e)' => Taken(e) \/ e = x
    BY <2>2, <2>6 DEF Taken
  <2>8. ASSUME NEW i \in DOMAIN log', Taken(log[i])' PROVE i <= group'["analytics"].at
    <3>1. i \in DOMAIN log /\ log[i] \in Events /\ i \in Int
      BY <1>3, <2>2
    <3>2. Taken(log[i]) \/ log[i] = x
      BY <2>2, <2>6, <2>8 DEF Taken
    <3>3. CASE Taken(log[i])
      BY <1>2, <2>1, <2>3, <3>1, <3>3
    <3>4. CASE log[i] = x
      <4>1. i = at + 1
        BY <1>2, <2>1, <3>1, <3>4 DEF IsInjective
      <4> QED
        BY <2>1, <2>3, <4>1
    <3> QED
      BY <3>2, <3>3, <3>4
  <2>9. IsInjective(batch') /\ IsInjective(flushing') /\ ToSet(batch') \cap ToSet(flushing') = {}
    BY <1>2, <2>2, <2>4, <2>5 DEF Taken
  <2>10. \A e \in Events : /\ stored'[e] <= 1
                           /\ stored'[e] > 0 => e \notin ToSet(batch') \cup ToSet(flushing')
    BY <1>2, <2>2, <2>4, <2>6 DEF Taken
  <2>11. \A e \in Events : /\ publish'[e] = "sending" => e \notin ToSet(log')
                           /\ Taken(e)' => e \in ToSet(log')
    BY <1>2, <2>1, <2>2, <2>7
  <2>12. IsInjective(log')
    BY <1>2, <2>2
  <2> QED
    BY <2>8, <2>9, <2>10, <2>11, <2>12
<1>9. CASE FlushTimer
  <2>1. /\ flushing' = batch /\ batch' = <<>> /\ flushing = <<>>
        /\ log' = log /\ stored' = stored /\ publish' = publish /\ group' = group
    BY <1>9 DEF FlushTimer
  <2>2. ToSet(batch') = {} /\ IsInjective(batch') /\ ToSet(flushing) = {}
    BY <2>1, EmptyOnce, Emptied
  <2>3. \A e \in Events : Taken(e)' <=> Taken(e)
    BY <2>1, <2>2 DEF Taken
  <2>4. \A i \in DOMAIN log : log[i] \in Events
    BY <1>3
  <2>5. \A i \in DOMAIN log' : Taken(log[i])' => i <= group'["analytics"].at
    BY <1>2, <2>1, <2>2 DEF Taken
  <2> QED
    BY <1>2, <2>1, <2>2, <2>3, <2>5
<1>10. CASE Ingest \/ IngestFails
  <2>1. /\ flushing' = <<>> /\ batch' = batch
        /\ log' = log /\ publish' = publish /\ group' = group
    BY <1>10 DEF Ingest, IngestFails
  <2>2. ToSet(flushing') = {} /\ IsInjective(flushing')
    BY <2>1, EmptyOnce, Emptied
  <2>3. ASSUME NEW e \in Events
        PROVE  /\ stored'[e] <= 1
               /\ stored'[e] > 0 => e \notin ToSet(batch) /\ Taken(e)
    <3>1. stored[e] \in Nat /\ stored[e] <= 1 /\ (stored[e] > 0 => e \notin ToSet(batch) \cup ToSet(flushing))
      BY <1>2, <1>3
    <3>2. CASE stored' = stored
      BY <3>1, <3>2 DEF Taken
    <3>3. CASE Ingest
      <4>1. stored'[e] = stored[e] + Count(e, flushing)
        BY <3>3 DEF Ingest
      <4>2. /\ Count(e, flushing) <= 1 /\ Count(e, flushing) \in Nat
            /\ e \in ToSet(flushing) <=> Count(e, flushing) > 0
        BY <1>2, <1>3, CountedOnce, Counting
      <4>3. CASE e \in ToSet(flushing)
        <5>1. ~(stored[e] > 0) /\ e \notin ToSet(batch) /\ Taken(e)
          BY <1>2, <3>1, <4>3 DEF Taken
        <5> QED
          BY <3>1, <4>1, <4>2, <5>1
      <4>4. CASE e \notin ToSet(flushing)
        <5>1. stored'[e] = stored[e]
          BY <3>1, <4>1, <4>2, <4>4
        <5> QED
          BY <3>1, <5>1 DEF Taken
      <4> QED
        BY <4>3, <4>4
    <3> QED
      BY <1>10, <3>2, <3>3 DEF IngestFails
  <2>4. \A e \in Events : Taken(e)' => Taken(e)
    BY <2>1, <2>2, <2>3 DEF Taken
  <2>5. ASSUME NEW i \in DOMAIN log', Taken(log[i])' PROVE i <= group'["analytics"].at
    <3>1. i \in DOMAIN log /\ log[i] \in Events
      BY <1>3, <2>1
    <3>2. Taken(log[i])
      BY <2>1, <2>2, <2>3, <2>5, <3>1 DEF Taken
    <3> QED
      BY <1>2, <2>1, <3>1, <3>2
  <2> QED
    BY <1>2, <2>1, <2>2, <2>3, <2>4, <2>5
<1>11. CASE \E e \in Events : Send(e)
  <2>1. PICK e \in Events : Send(e)
    BY <1>11
  <2> QED
    BY <1>2, <1>7, <2>1
<1> QED
  BY <1>5, <1>6, <1>8, <1>9, <1>10, <1>11 DEF PipelineNext

LEMMA CausesInitially == ASSUME PipelineInit PROVE CausesInv
  <1>1. DlqInv
    BY DEF PipelineInit, DlqInv
  <1>2. AccountedInv
    BY DEF PipelineInit, AccountedInv, Reader, Groups
  <1>3. OnceInv
    BY EmptyOnce, Emptied DEF PipelineInit, OnceInv, Taken
  <1> QED
    BY <1>1, <1>2, <1>3, PipelineInitially DEF CausesInv

LEMMA CausesSteps == ASSUME CausesInv, [PipelineNext]_pipelineVars PROVE CausesInv'
<1>1. CASE PipelineNext
  BY <1>1, PipelineSteps, DlqKept, AccountedKept, OnceKept DEF CausesInv, PipelineInv
<1>2. CASE UNCHANGED pipelineVars
  <2>1. PipelineInv'
    BY <1>2, PipelineSteps DEF CausesInv
  <2>2. DlqInv' /\ AccountedInv' /\ OnceInv'
    BY <1>2 DEF pipelineVars, CausesInv, DlqInv, AccountedInv, OnceInv, NothingLost, Kept,
       NothingRepeated, Taken
  <2> QED
    BY <2>1, <2>2 DEF CausesInv
<1> QED
  BY <1>1, <1>2

LEMMA CausesKnown == ASSUME CausesInv PROVE OutcomesHaveCauses
<1> USE DEF CausesInv, PipelineInv
<1> SUFFICES ASSUME NEW e \in Events
             PROVE  /\ StatusOf(e) = "lost" =>
                        \/ e \in missed \/ \E g \in Groups : NoOffset(g) /\ e \in Written(g)
                        \/ faults["db"] > 0 \/ faults["crash"] > 0 \/ faults["kafka"] > 1
                    /\ stored[e] > 1 => faults["kafka"] > 0 \/ faults["crash"] > 0
  BY DEF OutcomesHaveCauses
<1>1. /\ stored[e] \in Nat /\ faults["db"] \in Nat /\ faults["crash"] \in Nat /\ faults["kafka"] \in Nat
      /\ publish[e] \in {"new", "sending", "parking", "done"}
      /\ "analytics" \in Groups /\ "dlq" \in Groups /\ log \in Seq(Events)
  <2>1. stored \in [Events -> Nat] /\ faults \in [FaultKinds -> 0..MaxFaults]
    BY DEF PipelineTypeOK
  <2> QED
    BY <2>1, PipelineAssumption DEF PipelineTypeOK, FaultKinds, Groups
<1>2. ASSUME stored[e] > 1 PROVE faults["kafka"] > 0 \/ faults["crash"] > 0
  BY <1>1, <1>2 DEF OnceInv, NothingRepeated
<1>3. ASSUME StatusOf(e) = "lost", e \notin missed, ~\E g \in Groups : NoOffset(g) /\ e \in Written(g),
             ~(faults["db"] > 0), ~(faults["crash"] > 0), ~(faults["kafka"] > 1)
      PROVE  FALSE
  <2>1. /\ ~(stored[e] > 0) /\ publish[e] # "new" /\ ~InMemory(e)
        /\ \A g \in Groups : ~CarriedBy(g, e)
    <3> DEFINE carriers == {g \in Groups : CarriedBy(g, e)}
    <3>1. "lost" # "stored" /\ "lost" # "unsent" /\ "lost" # "travelling" /\ "lost" # "stranded"
      OBVIOUS
    <3>2. carriers = {}
      BY <1>3, <3>1 DEF StatusOf
    <3> QED
      BY <1>3, <3>1, <3>2 DEF StatusOf
  <2>2. NothingLost /\ publish[e] = "done"
    BY <1>1, <1>3, <2>1 DEF NothingLost, InMemory
  <2>3. ASSUME NEW g \in Groups, e \in Written(g)
        PROVE  group[g].at >= 0 /\ Low(g) <= group[g].at /\ Low(g) \in Int
    <3>1. group[g].at \in Nat \cup {None, Off} /\ group[g].committed \in Nat \cup {None}
      <4>1. group[g] \in Readers
        BY DEF PipelineTypeOK
      <4> QED
        BY <4>1 DEF Readers
    <3>2. ~NoOffset(g)
      BY <1>3, <2>3
    <3>3. ~(group[g].at < 0)
      BY <2>2, <3>2 DEF AccountedInv, NoOffset
    <3> QED
      BY <3>1, <3>2, <3>3 DEF Low, None, Off
  <2>4. ~(e \in ToSet(log))
    <3>1. SUFFICES ASSUME e \in ToSet(log) PROVE FALSE
      OBVIOUS
    <3>2. PICK i \in DOMAIN log : log[i] = e
      BY <1>1, <3>1, Ranges
    <3>3. e \in Written("analytics")
      BY <3>1 DEF Written
    <3>4. ~(i > Low("analytics"))
      BY <1>1, <2>1, <3>2 DEF CarriedBy
    <3>5. i <= group["analytics"].at
      <4>1. group["analytics"].at \in Int
        <5>1. group["analytics"] \in Readers
          BY <1>1 DEF PipelineTypeOK
        <5> QED
          BY <5>1 DEF Readers, None, Off
      <4>2. i \in Int
        BY <1>1, <3>2, Ranges
      <4> QED
        BY <1>1, <2>3, <3>3, <3>4, <4>1, <4>2
    <3>6. Kept(e)
      BY <2>2, <3>2, <3>5 DEF AccountedInv
    <3> QED
      BY <1>3, <2>1, <3>6 DEF Kept, InMemory
  <2>5. PICK i \in DOMAIN dlq : dlq[i].event = e
    BY <1>3, <2>2, <2>4 DEF AccountedInv
  <2>6. e \in Written("dlq") /\ ~(i > Low("dlq"))
    BY <1>1, <2>1, <2>5 DEF Written, CarriedBy
  <2>7. i <= group["dlq"].at
    <3>1. group["dlq"].at \in Int
      <4>1. group["dlq"] \in Readers
        BY <1>1 DEF PipelineTypeOK
      <4> QED
        BY <4>1 DEF Readers, None, Off
    <3>2. i \in Int
      BY <2>5, Ranges DEF PipelineTypeOK
    <3> QED
      BY <1>1, <2>3, <2>6, <3>1, <3>2
  <2> QED
    BY <1>3, <2>2, <2>4, <2>5, <2>7 DEF AccountedInv
<1> QED
  BY <1>2, <1>3

\* However publishing, batching, retrying and restarting interleave: an event that
\* was lost, repeated or given up has a failure of Kafka, the database or a process
\* behind it.
THEOREM EventOutcomesHaveCauses == PipelineSpec => []OutcomesHaveCauses
<1>1. PipelineSpec => []CausesInv
  BY CausesInitially, CausesSteps, PTL DEF PipelineSpec
<1> QED
  BY <1>1, CausesKnown, PTL

-----------------------------------------------------------------------------
(* The pipeline implements EventDelivery: no end is undone.                 *)

\* Low(g) is the committed offset or, without one, the position of the group.
LowInv ==
    \A g \in Groups :
        /\ Low(g) \in Nat /\ Low(g) <= End(g)
        /\ group[g].at >= 0 => Low(g) <= group[g].at
        /\ group[g].at \in Int /\ group[g].committed \in Int
        /\ Low(g) = IF group[g].committed # None THEN group[g].committed
                    ELSE IF group[g].at < 0 THEN End(g) ELSE group[g].at

LEMMA LowKnown == ASSUME PipelineInv PROVE LowInv
<1> USE DEF PipelineInv
<1> SUFFICES ASSUME NEW g \in Groups
             PROVE  /\ Low(g) \in Nat /\ Low(g) <= End(g)
                    /\ group[g].at >= 0 => Low(g) <= group[g].at
                    /\ group[g].at \in Int /\ group[g].committed \in Int
                    /\ Low(g) = IF group[g].committed # None THEN group[g].committed
                                ELSE IF group[g].at < 0 THEN End(g) ELSE group[g].at
  BY DEF LowInv
<1>1. group[g].at \in Nat \cup {None, Off} /\ group[g].committed \in Nat \cup {None}
  <2>1. group[g] \in Readers
    BY DEF PipelineTypeOK
  <2> QED
    BY <2>1 DEF Readers
<1>2. End(g) \in Nat
  BY EndType
<1>3. /\ group[g].at <= End(g) /\ group[g].committed <= End(g)
      /\ group[g].at >= 0 => group[g].committed <= group[g].at
  <2>1. group[g].at \in Int /\ group[g].committed \in Int
    BY <1>1 DEF None, Off
  <2> QED
    BY <2>1 DEF ReadersInv, Resolved
<1>4. Low(g) = IF group[g].committed # None THEN group[g].committed
               ELSE IF group[g].at < 0 THEN End(g) ELSE group[g].at
  BY <1>1, <1>2, <1>3 DEF Low, NoOffset, None, Off
<1> QED
  BY <1>1, <1>2, <1>3, <1>4 DEF None, Off

\* Only a commit that leaves out the message being inserted moves Low back.
LEMMA LowKept ==
    ASSUME PipelineInv, PipelineNext, NEW g \in Groups
    PROVE  \/ Low(g) <= Low(g)'
           \/ /\ g = "analytics" /\ blocked /\ Low(g) = group[g].at /\ Low(g)' = group[g].at - 1
              /\ group[g].at >= 0 /\ Commit(g)
<1> USE DEF PipelineInv
<1>1. PipelineInv'
  BY PipelineSteps
<1>2. LowInv /\ LowInv'
  BY <1>1, LowKnown, PTL
<1>3. /\ Low(g) \in Nat /\ Low(g)' \in Nat /\ Low(g) <= End(g)
      /\ group[g].at >= 0 => Low(g) <= group[g].at
      /\ group[g].at \in Int /\ group[g].committed \in Int
      /\ group'[g].at \in Int /\ group'[g].committed \in Int
      /\ Low(g) = IF group[g].committed # None THEN group[g].committed
                  ELSE IF group[g].at < 0 THEN End(g) ELSE group[g].at
      /\ Low(g)' = IF group'[g].committed # None THEN group'[g].committed
                   ELSE IF group'[g].at < 0 THEN End(g)' ELSE group'[g].at
  BY <1>2 DEF LowInv
<1>4. End(g) \in Nat /\ End(g)' \in Nat /\ End(g) <= End(g)'
  BY TopicsKept
<1>5. None < 0 /\ Off < 0 /\ None \in Int /\ Off \in Int
  BY DEF None, Off
<1>6. CASE group'[g] = group[g]
  BY <1>3, <1>4, <1>6
<1>7. CASE group[g].at >= 0 /\ group'[g].at = group[g].at + 1 /\ group'[g].committed = group[g].committed
  BY <1>3, <1>4, <1>7
<1>8. CASE /\ group[g].at = None
           /\ group'[g].at = IF group[g].committed = None THEN End(g) ELSE group[g].committed
           /\ group'[g].committed = group[g].committed
  BY <1>3, <1>4, <1>5, <1>8
<1>9. CASE group'[g].at \in {None, Off} /\ group'[g].committed = group[g].committed
  <2>1. group[g].at <= End(g)
    BY DEF ReadersInv
  <2> QED
    BY <1>3, <1>4, <1>5, <1>9, <2>1
<1>10. CASE /\ group[g].at >= 0 /\ Commit(g) /\ group'[g].at = group[g].at
            /\ group'[g].committed = Resolved(g)
  <2>1. g = "analytics" /\ blocked => group[g].at >= 1
    BY DEF BlockedInv
  <2>2. Resolved(g) \in Nat /\ (~(g = "analytics" /\ blocked) => Resolved(g) = group[g].at)
        /\ (g = "analytics" /\ blocked => Resolved(g) = group[g].at - 1)
    BY <1>3, <1>10, <2>1 DEF Resolved
  <2>3. Low(g)' = Resolved(g)
    BY <1>3, <1>5, <1>10, <2>2
  <2>4. group[g].committed # None => Low(g) = group[g].committed /\ group[g].committed <= Resolved(g)
    BY <1>3, <1>10 DEF ReadersInv
  <2>5. group[g].committed = None => Low(g) = group[g].at
    BY <1>3, <1>10
  <2> QED
    BY <1>3, <1>10, <2>2, <2>3, <2>4, <2>5
<1> QED
  BY ReadersMove, <1>6, <1>7, <1>8, <1>9, <1>10

\* What StatusOf says, one end after the other.
Outside(e) == ~(stored[e] > 0) /\ publish[e] # "new" /\ ~InMemory(e)
StatusInv ==
    \A e \in Events :
        /\ StatusOf(e) \in {"unsent", "travelling", "stranded", "stored", "lost"}
        /\ StatusOf(e) = "stored" <=> stored[e] > 0
        /\ StatusOf(e) = "unsent" <=> ~(stored[e] > 0) /\ publish[e] = "new"
        /\ StatusOf(e) = "stranded" <=>
             /\ Outside(e) /\ \E g \in Groups : CarriedBy(g, e)
             /\ \A g \in Groups : CarriedBy(g, e) => group[g].at = Off
        /\ StatusOf(e) = "lost" <=> Outside(e) /\ \A g \in Groups : ~CarriedBy(g, e)

LEMMA StatusKnown == StatusInv
<1> SUFFICES ASSUME NEW e \in Events
             PROVE  /\ StatusOf(e) \in {"unsent", "travelling", "stranded", "stored", "lost"}
                    /\ StatusOf(e) = "stored" <=> stored[e] > 0
                    /\ StatusOf(e) = "unsent" <=> ~(stored[e] > 0) /\ publish[e] = "new"
                    /\ StatusOf(e) = "stranded" <=>
                         /\ Outside(e) /\ \E g \in Groups : CarriedBy(g, e)
                         /\ \A g \in Groups : CarriedBy(g, e) => group[g].at = Off
                    /\ StatusOf(e) = "lost" <=> Outside(e) /\ \A g \in Groups : ~CarriedBy(g, e)
  BY DEF StatusInv
<1> DEFINE carriers == {g \in Groups : CarriedBy(g, e)}
<1>1. StatusOf(e) = IF stored[e] > 0 THEN "stored"
                    ELSE IF publish[e] = "new" THEN "unsent"
                    ELSE IF InMemory(e) \/ \E g \in carriers : group[g].at # Off THEN "travelling"
                    ELSE IF carriers # {} THEN "stranded" ELSE "lost"
  BY DEF StatusOf
<1>2. (\E g \in carriers : group[g].at # Off) <=> ~\A g \in Groups : CarriedBy(g, e) => group[g].at = Off
  OBVIOUS
<1>3. carriers # {} <=> \E g \in Groups : CarriedBy(g, e)
  OBVIOUS
<1> HIDE DEF carriers
<1>4. CASE stored[e] > 0
  BY <1>1, <1>4 DEF Outside
<1>5. CASE ~(stored[e] > 0) /\ publish[e] = "new"
  BY <1>1, <1>5 DEF Outside
<1>6. CASE ~(stored[e] > 0) /\ publish[e] # "new" /\ (InMemory(e) \/ \E g \in carriers : group[g].at # Off)
  <2>1. StatusOf(e) = "travelling"
    BY <1>1, <1>6
  <2>2. ~(Outside(e) /\ \A g \in Groups : CarriedBy(g, e) => group[g].at = Off)
    BY <1>2, <1>6 DEF Outside
  <2> QED
    BY <1>6, <2>1, <2>2
<1>7. CASE Outside(e) /\ ~\E g \in carriers : group[g].at # Off
  <2>1. ~(stored[e] > 0) /\ publish[e] # "new" /\ ~InMemory(e)
    BY <1>7 DEF Outside
  <2>2. StatusOf(e) = IF carriers # {} THEN "stranded" ELSE "lost"
    BY <1>1, <1>7, <2>1
  <2> QED
    BY <1>2, <1>3, <1>7, <2>1, <2>2
<1> QED
  BY <1>4, <1>5, <1>6, <1>7 DEF Outside

\* An event that is nowhere in memory leaves no new trace, except a carrier
\* that had it already.
LEMMA OutsideKept ==
    ASSUME PipelineInv, PipelineNext, NEW e \in Events, Outside(e),
           \A g \in Groups : group[g].at >= 0 => ~CarriedBy(g, e)
    PROVE  /\ Outside(e)'
           /\ \A g \in Groups : CarriedBy(g, e)' => CarriedBy(g, e)
<1> USE DEF PipelineInv
<1>1. /\ log \in Seq(Events) /\ dlq \in Seq(Entries) /\ batch \in Seq(Events) /\ flushing \in Seq(Events)
      /\ publish \in [Events -> {"new", "sending", "parking", "done"}] /\ stored \in [Events -> Nat]
      /\ stored[e] \in Nat
      /\ "analytics" \in Groups /\ "dlq" \in Groups
  BY DEF PipelineTypeOK, Groups
<1>2. /\ ~(stored[e] > 0) /\ publish[e] = "done"
      /\ e \notin ToSet(batch) /\ e \notin ToSet(flushing)
  BY <1>1 DEF Outside, InMemory
<1>3. LowInv
  BY LowKnown
\* a reader does not stand before the event
<1>4. ASSUME Reading("dlq", dlq) PROVE Current.event # e
  <2>1. group["dlq"].at + 1 \in DOMAIN dlq /\ group["dlq"].at \in Nat /\ Low("dlq") <= group["dlq"].at
        /\ Low("dlq") \in Nat
    BY <1>1, <1>3, <1>4, ReadingEntry DEF LowInv, Reading
  <2>2. ~CarriedBy("dlq", e)
    BY <1>1, <2>1
  <2> QED
    BY <2>1, <2>2 DEF CarriedBy, Current
<1>5. ASSUME Reading("analytics", log) PROVE log[group["analytics"].at + 1] # e
  <2>1. group["analytics"].at + 1 \in DOMAIN log /\ group["analytics"].at \in Nat
        /\ Low("analytics") <= group["analytics"].at /\ Low("analytics") \in Nat
    BY <1>1, <1>3, <1>5, ReadingLog DEF LowInv, Reading
  <2>2. ~CarriedBy("analytics", e)
    BY <1>1, <2>1
  <2> QED
    BY <2>1, <2>2 DEF CarriedBy
<1>6. ASSUME NEW x \in Events, Finish(x) \/ Send(x) \/ SendFails(x) \/ Park(x) PROVE x # e
  BY <1>2, <1>6 DEF Finish, Send, SendFails, Park
<1>7. publish'[e] = "done"
  BY <1>1, <1>2 DEF PipelineNext, Finish, Send, SendFails, Park, TakeEntry, Resend, Repark, Join,
     JoinFails, Commit, Consume, FlushTimer, Ingest, IngestFails, GatewayCrash, AnalyticsCrash
<1>8. e \notin ToSet(batch') \cup ToSet(flushing')
  <2>1. CASE Consume
    <3> DEFINE x == log[group["analytics"].at + 1]
    <3>1. x \in Events /\ x # e
      BY <1>5, <2>1, ReadingLog DEF Consume
    <3>2. e \notin ToSet(Append(batch, x)) /\ e \notin ToSet(<<>>)
      BY <1>1, <1>2, <3>1, Appended, Emptied
    <3>3. batch' \in {<<>>, Append(batch, x)} /\ flushing' \in {flushing, Append(batch, x)}
      BY <2>1 DEF Consume
    <3> QED
      BY <1>2, <3>2, <3>3
  <2>2. ~Consume => batch' \in {batch, <<>>} /\ flushing' \in {flushing, batch, <<>>}
    BY DEF PipelineNext, Finish, Send, SendFails, Park, TakeEntry, Resend, Repark, Join, JoinFails,
           Commit, FlushTimer, Ingest, IngestFails, GatewayCrash, AnalyticsCrash
  <2> QED
    BY <1>2, <2>1, <2>2, Emptied
<1>9. ~(stored'[e] > 0)
  <2>1. CASE Ingest
    <3>1. Count(e, flushing) = 0
      BY <1>1, <1>2, Counting
    <3> QED
      BY <1>1, <1>2, <2>1, <3>1 DEF Ingest
  <2>2. ~Ingest => stored' = stored
    BY DEF PipelineNext, Finish, Send, SendFails, Park, TakeEntry, Resend, Repark, Join, JoinFails,
           Commit, Consume, FlushTimer, IngestFails, GatewayCrash, AnalyticsCrash
  <2> QED
    BY <1>2, <2>1, <2>2
<1>10. Outside(e)'
  BY <1>7, <1>8, <1>9 DEF Outside, InMemory
<1>11. log' = log \/ \E x \in Events : x # e /\ log' = Append(log, x)
  <2>1. CASE \E x \in Events : Finish(x) \/ Send(x) \/ SendFails(x) \/ Park(x)
    BY <1>6, <2>1 DEF Finish, Send, SendFails, Park, MaybeWritten
  <2>2. CASE Resend
    <3>1. Reading("dlq", dlq)
      BY <2>2 DEF WorkerInv, Resend
    <3>2. Current.event \in Events /\ Current.event # e
      BY <1>4, <3>1, ReadingEntry
    <3> QED
      BY <2>2, <3>2 DEF Resend, MaybeWritten
  <2>3. (\A x \in Events : ~(Finish(x) \/ Send(x) \/ SendFails(x) \/ Park(x))) /\ ~Resend => log' = log
    BY DEF PipelineNext, TakeEntry, Repark, Join, JoinFails, Commit, Consume, FlushTimer, Ingest,
           IngestFails, GatewayCrash, AnalyticsCrash
  <2> QED
    BY <2>1, <2>2, <2>3
<1>12. dlq' = dlq \/ \E x \in Entries : x.event # e /\ dlq' = Append(dlq, x)
  <2>1. ASSUME NEW x \in Events, Finish(x) \/ Send(x) \/ SendFails(x) \/ Park(x)
        PROVE  dlq' = dlq \/ \E y \in Entries : y.event # e /\ dlq' = Append(dlq, y)
    <3>1. DlqEntry(x, 0) \in Entries /\ DlqEntry(x, 0).event = x
      BY PipelineAssumption DEF DlqEntry, Entries
    <3>2. dlq' \in {dlq, Append(dlq, DlqEntry(x, 0))}
      BY <2>1 DEF Finish, Send, SendFails, Park
    <3> QED
      BY <1>6, <2>1, <3>1, <3>2
  <2>2. CASE Repark
    <3>1. Reading("dlq", dlq) /\ Current.attempt < MaxRetries
      BY <2>2 DEF WorkerInv, Repark
    <3>2. Current.event \in Events /\ Current.event # e /\ Current.attempt \in 0..MaxRetries
      BY <1>4, <3>1, ReadingEntry
    <3>3. /\ DlqEntry(Current.event, Current.attempt + 1) \in Entries
          /\ DlqEntry(Current.event, Current.attempt + 1).event # e
      BY <3>1, <3>2, PipelineAssumption DEF DlqEntry, Entries
    <3>4. dlq' \in {dlq, Append(dlq, DlqEntry(Current.event, Current.attempt + 1))}
      BY <2>2 DEF Repark
    <3> QED
      BY <3>3, <3>4
  <2>3. (\A x \in Events : ~(Finish(x) \/ Send(x) \/ SendFails(x) \/ Park(x))) /\ ~Repark => dlq' = dlq
    BY DEF PipelineNext, TakeEntry, Resend, Join, JoinFails, Commit, Consume, FlushTimer, Ingest,
           IngestFails, GatewayCrash, AnalyticsCrash
  <2> QED
    BY <2>1, <2>2, <2>3
<1>13. ASSUME NEW g \in Groups, CarriedBy(g, e)' PROVE CarriedBy(g, e)
  <2>1. PipelineInv'
    BY PipelineSteps
  <2>2. LowInv'
    BY <2>1, LowKnown, PTL
  <2>3. Low(g) \in Nat /\ Low(g)' \in Nat
    BY <1>3, <2>2 DEF LowInv
  <2>4. CASE g = "dlq"
    <3>1. PICK i \in DOMAIN dlq' : i > Low(g)' /\ dlq'[i].event = e
      BY <1>13, <2>4 DEF CarriedBy
    <3>2. i \in DOMAIN dlq /\ dlq[i].event = e /\ i \in Nat
      <4>1. CASE dlq' = dlq
        BY <1>1, <3>1, <4>1, Ranges
      <4>2. ASSUME NEW x \in Entries, x.event # e, dlq' = Append(dlq, x)
            PROVE  i \in DOMAIN dlq /\ dlq[i].event = e /\ i \in Nat
        BY <1>1, <3>1, <4>2, Appended
      <4> QED
        BY <1>12, <4>1, <4>2
    <3>3. Low(g) <= Low(g)'
      BY <2>4, LowKept
    <3> QED
      BY <2>3, <2>4, <3>1, <3>2, <3>3 DEF CarriedBy
  <2>5. CASE g # "dlq"
    <3>1. PICK i \in DOMAIN log' : i > Low(g)' /\ log'[i] = e
      BY <1>13, <2>5 DEF CarriedBy
    <3>2. i \in DOMAIN log /\ log[i] = e /\ i \in Nat
      <4>1. CASE log' = log
        BY <1>1, <3>1, <4>1, Ranges
      <4>2. ASSUME NEW x \in Events, x # e, log' = Append(log, x)
            PROVE  i \in DOMAIN log /\ log[i] = e /\ i \in Nat
        BY <1>1, <3>1, <4>2, Appended
      <4> QED
        BY <1>11, <4>1, <4>2
    <3>3. CASE Low(g) <= Low(g)'
      BY <2>3, <2>5, <3>1, <3>2, <3>3 DEF CarriedBy
    <3>4. CASE /\ g = "analytics" /\ blocked /\ Low(g) = group[g].at /\ Low(g)' = group[g].at - 1
               /\ group[g].at >= 0
      \* the message left out is being inserted: it is not this event
      <4>1. log[group[g].at] \in ToSet(flushing)
        BY <3>4 DEF BlockedInv
      <4>2. i # group[g].at
        BY <1>2, <3>2, <4>1
      <4>3. i > Low(g)
        BY <2>3, <3>1, <3>2, <3>4, <4>2
      <4> QED
        BY <2>5, <3>2, <4>3 DEF CarriedBy
    <3> QED
      BY <3>3, <3>4, LowKept
  <2> QED
    BY <2>4, <2>5
<1> QED
  BY <1>10, <1>13

\* A group that is off still carries, and after a restart reads, what it has
\* not committed.
LEMMA StrandedKept ==
    ASSUME PipelineInv, PipelineNext, NEW g \in Groups, NEW e \in Events,
           CarriedBy(g, e), group[g].at = Off
    PROVE  CarriedBy(g, e)'
<1> USE DEF PipelineInv
<1>1. LowInv /\ LowInv'
  BY PipelineSteps, LowKnown, PTL
<1>2. /\ Low(g) \in Nat /\ Low(g)' \in Nat /\ End(g) \in Nat
      /\ Low(g) = IF group[g].committed # None THEN group[g].committed
                  ELSE IF group[g].at < 0 THEN End(g) ELSE group[g].at
      /\ Low(g)' = IF group'[g].committed # None THEN group'[g].committed
                   ELSE IF group'[g].at < 0 THEN End(g)' ELSE group'[g].at
  BY <1>1, TopicsKept DEF LowInv
<1>3. Low(g) # End(g)
  <2>1. CASE g = "dlq"
    <3>1. PICK i \in DOMAIN dlq : i > Low(g)
      BY <2>1 DEF CarriedBy
    <3> QED
      BY <1>2, <2>1, <3>1, TopicsKept DEF End
  <2>2. CASE g # "dlq"
    <3>1. PICK i \in DOMAIN log : i > Low(g)
      BY <2>2 DEF CarriedBy
    <3> QED
      BY <1>2, <2>2, <3>1, TopicsKept DEF End
  <2> QED
    BY <2>1, <2>2
<1>4. group'[g].committed = group[g].committed
  BY ReadersMove DEF None, Off
<1>5. Low(g)' = Low(g)
  BY <1>2, <1>3, <1>4 DEF Off
<1>6. CASE g = "dlq"
  BY <1>5, <1>6, TopicsKept DEF CarriedBy
<1>7. CASE g # "dlq"
  BY <1>5, <1>7, TopicsKept DEF CarriedBy
<1> QED
  BY <1>6, <1>7

LEMMA DeliverySteps ==
    ASSUME PipelineInv, [PipelineNext]_pipelineVars, NEW e \in Events, StatusOf(e)' # StatusOf(e)
    PROVE  <<StatusOf(e), StatusOf(e)'>> \in Delivery!Moves
<1> USE DEF PipelineInv
<1>1. PipelineNext
  <2>1. ~UNCHANGED pipelineVars
    BY DEF pipelineVars, StatusOf, InMemory, CarriedBy, Low, NoOffset, End
  <2> QED
    BY <2>1
<1>2. StatusInv /\ StatusInv'
  BY StatusKnown, PTL
<1>3. publish \in [Events -> {"new", "sending", "parking", "done"}] /\ stored \in [Events -> Nat]
  BY DEF PipelineTypeOK
<1>4. CASE StatusOf(e) = "stored"
  <2>1. stored[e] > 0 /\ stored[e] \in Nat
    BY <1>2, <1>3, <1>4 DEF StatusInv
  <2>2. CASE Ingest
    <3>1. Count(e, flushing) \in Nat
      BY Counting DEF PipelineTypeOK
    <3> QED
      BY <1>2, <1>4, <2>1, <2>2, <3>1 DEF Ingest, StatusInv
  <2>3. ~Ingest => stored' = stored
    BY <1>1 DEF PipelineNext, Finish, Send, SendFails, Park, TakeEntry, Resend, Repark, Join, JoinFails,
       Commit, Consume, FlushTimer, IngestFails, GatewayCrash, AnalyticsCrash
  <2>4. CASE ~Ingest
    BY <1>2, <1>4, <2>1, <2>3, <2>4 DEF StatusInv
  <2> QED
    BY <2>2, <2>4
<1>5. CASE StatusOf(e) = "unsent"
  <2>1. ~(stored[e] > 0) /\ publish[e] = "new"
    BY <1>2, <1>5 DEF StatusInv
  <2>2. publish'[e] \in {"new", "sending"}
    BY <1>1, <1>3, <2>1 DEF PipelineNext, Finish, Send, SendFails, Park, TakeEntry, Resend, Repark,
       Join, JoinFails, Commit, Consume, FlushTimer, Ingest, IngestFails, GatewayCrash, AnalyticsCrash
  <2>3. ~(stored'[e] > 0)
    <3>1. CASE Ingest
      <4>1. stored[e] = 0 /\ Count(e, flushing) = 0
        BY <2>1, Counting DEF UnsentInv, PipelineTypeOK
      <4> QED
        BY <3>1, <4>1 DEF Ingest
    <3>2. ~Ingest => stored' = stored
      BY <1>1 DEF PipelineNext, Finish, Send, SendFails, Park, TakeEntry, Resend, Repark, Join, JoinFails,
         Commit, Consume, FlushTimer, IngestFails, GatewayCrash, AnalyticsCrash
    <3> QED
      BY <2>1, <3>1, <3>2
  <2>4. publish'[e] = "sending" => ~Outside(e)'
    BY DEF Outside, InMemory
  <2>5. StatusOf(e)' \in {"unsent", "travelling"}
    BY <1>2, <2>2, <2>3, <2>4 DEF StatusInv
  <2> QED
    BY <1>5, <2>5 DEF Delivery!Moves
<1>6. CASE StatusOf(e) = "travelling"
  <2>1. publish[e] # "new" \/ stored[e] > 0
    BY <1>2, <1>6 DEF StatusInv
  <2>2. ~(stored[e] > 0)
    BY <1>2, <1>6 DEF StatusInv
  <2>3. publish'[e] # "new"
    BY <1>1, <1>3, <2>1, <2>2 DEF PipelineNext, Finish, Send, SendFails, Park, TakeEntry, Resend, Repark,
       Join, JoinFails, Commit, Consume, FlushTimer, Ingest, IngestFails, GatewayCrash, AnalyticsCrash
  <2>4. StatusOf(e)' \in {"stored", "stranded", "lost"}
    BY <1>2, <1>6, <2>3 DEF StatusInv
  <2> QED
    BY <1>6, <2>4 DEF Delivery!Moves
<1>7. CASE StatusOf(e) = "stranded"
  <2>1. /\ Outside(e) /\ \E g \in Groups : CarriedBy(g, e)
        /\ \A g \in Groups : CarriedBy(g, e) => group[g].at = Off
    BY <1>2, <1>7 DEF StatusInv
  <2>2. Outside(e)'
    BY <1>1, <2>1, OutsideKept DEF Off
  <2>3. \E g \in Groups : CarriedBy(g, e)'
    BY <1>1, <2>1, StrandedKept
  <2>4. StatusOf(e)' \in {"stranded", "travelling"}
    BY <1>2, <2>2, <2>3 DEF StatusInv, Outside
  <2> QED
    BY <1>7, <2>4 DEF Delivery!Moves
<1>8. CASE StatusOf(e) = "lost"
  <2>1. Outside(e) /\ \A g \in Groups : ~CarriedBy(g, e)
    BY <1>2, <1>8 DEF StatusInv
  <2>2. Outside(e)' /\ \A g \in Groups : ~CarriedBy(g, e)'
    BY <1>1, <2>1, OutsideKept
  <2>3. StatusOf(e)' = "lost"
    BY <1>2, <2>2 DEF StatusInv
  <2> QED
    BY <1>8, <2>3
<1> QED
  BY <1>2, <1>4, <1>5, <1>6, <1>7, <1>8 DEF StatusInv

\* The pipeline implements the safety of EventDelivery: an event's status only ever
\* goes the ways the abstract specification has, and no end is undone.
THEOREM PipelineKeepsEnds == PipelineSpec => Delivery!DeliverySafety
<1>1. PipelineInit => Delivery!DeliveryInit
  <2> SUFFICES ASSUME PipelineInit PROVE \A e \in Events : StatusOf(e) = "unsent"
    BY DEF Delivery!DeliveryInit
  <2>1. \A e \in Events : ~(stored[e] > 0) /\ publish[e] = "new"
    BY DEF PipelineInit
  <2> QED
    BY <2>1, StatusKnown DEF StatusInv
<1>2. PipelineInv /\ [PipelineNext]_pipelineVars
      => [Delivery!DeliveryNext]_([e \in Events |-> StatusOf(e)])
  <2> SUFFICES ASSUME PipelineInv, [PipelineNext]_pipelineVars PROVE Delivery!DeliveryNext
    OBVIOUS
  <2>1. StatusInv'
    BY StatusKnown, PTL
  <2>2. [e \in Events |-> StatusOf(e)]' \in [Events -> Delivery!Statuses]
    BY <2>1 DEF StatusInv, Delivery!Statuses
  <2>3. ASSUME NEW e \in Events, StatusOf(e)' # StatusOf(e)
        PROVE  <<StatusOf(e), StatusOf(e)'>> \in Delivery!Moves
    BY <2>3, DeliverySteps
  <2> QED
    BY <2>2, <2>3 DEF Delivery!DeliveryNext
<1>3. PipelineSpec => []PipelineInv
  BY PipelineInitially, PipelineSteps, PTL DEF PipelineSpec
<1> QED
  BY <1>1, <1>2, <1>3, PTL DEF PipelineSpec, Delivery!DeliverySafety
=============================================================================
