-------------------------- MODULE Playlist_proofs --------------------------
(***************************************************************************)
(* For any media and playlists: the items of a playlist are at the         *)
(* positions 0, 1, 2..., its counters and the media's are sums over its    *)
(* items, and the edits do to its list what their documentation says.      *)
(***************************************************************************)
EXTENDS Playlist, FiniteSetTheorems, FunctionTheorems, SequenceTheorems,
        WellFoundedInduction, TLAPS

LEMMA Constants ==
    /\ IsFiniteSet(Media) /\ IsFiniteSet(Playlists)
    /\ NoRow \notin MediaRow /\ NoRow \notin PlaylistRow
    /\ Types \subseteq {"Video", "Audio", "Unknown"}
    /\ Durations \subseteq Nat /\ 0 \in Durations
    /\ UIntMax \in Nat /\ MaxItems \in Nat /\ MaxSpoilt \in Nat
    /\ Positions \subseteq 0..UIntMax /\ Counts \subseteq 0..UIntMax
    /\ MaxItems < UIntMax
<1>1. UIntMax \in Nat /\ MaxItems \in Nat /\ MaxSpoilt \in Nat
  BY PlaylistAssumption
<1>2. NoRow \notin MediaRow \cup PlaylistRow
  BY PlaylistAssumption
<1>. QED  BY <1>1, <1>2, PlaylistAssumption DEF UInt

-----------------------------------------------------------------------------
(* What the operators of Playlist do one by one.                           *)

\* Where addInternal() puts the item it adds, and what it does for one item.
At(rows, position, i) ==
    IF position = UIntMax \/ Wrapped(position + i - 1) >= Cardinality(rows)
    THEN Cardinality(rows) ELSE Wrapped(position + i - 1)

AddRow(d, p, list, position, i) ==
    SetItems(d, p, Insert(d.items[p], list[i], At(d.items[p], position, i)))

\* What the deletion of a media does to one playlist.
Cut(d, p, m) == SetItems(d, p, DeleteRows(d.items[p], {r \in d.items[p] : r.media = m}))

-----------------------------------------------------------------------------
(* Folds over finite sets.                                                 *)

\* Induction on finite sets: a set of subsets has a smallest one.
LEMMA MinimalSubset ==
    ASSUME NEW S, IsFiniteSet(S), NEW T \in SUBSET (SUBSET S), T # {}
    PROVE  \E x \in T : \A y \in T : y \subseteq x => y = x
<1>. DEFINE R == StrictSubsetOrdering(S)
<1>1. IsWellFoundedOn(R, SUBSET S)
  BY FS_StrictSubsetOrderingWellFounded, FS_FiniteSubsetsOfFinite
<1>2. \E x \in T : \A y \in T : ~ (<<y, x>> \in R)
  <2>. HIDE DEF R
  <2>. QED  BY <1>1, WFMin
<1>. QED  BY <1>2 DEF StrictSubsetOrdering

\* A set of indices has a largest one.
LEMMA Largest ==
    ASSUME NEW n \in Nat, NEW S \in SUBSET (1..n), S # {}
    PROVE  Max(S) \in S /\ \A y \in S : y <= Max(S)
<1>. DEFINE T == {x..n : x \in S}
<1>1. PICK t \in T : \A u \in T : u \subseteq t => u = t
  <2>. DEFINE I == 1..n
  <2>1. \A x \in S : x..n \in SUBSET I
    OBVIOUS
  <2>2. T \in SUBSET (SUBSET I) /\ T # {}
    BY <2>1
  <2>3. IsFiniteSet(I)
    BY FS_Interval
  <2>. HIDE DEF T, I
  <2>. QED  BY <2>2, <2>3, MinimalSubset
<1>2. PICK x \in S : t = x..n
  BY <1>1
<1>3. ASSUME NEW y \in S, y > x
      PROVE  FALSE
  <2>1. y..n \in T /\ y..n \subseteq x..n
    BY <1>2, <1>3
  <2>2. y..n = x..n
    BY <1>1, <1>2, <2>1
  <2>3. x \in x..n /\ x \notin y..n
    BY <1>3
  <2>. QED  BY <2>2, <2>3
<1>4. \A y \in S : x >= y
  BY <1>3
<1>5. Max(S) \in S /\ \A y \in S : Max(S) >= y
  BY <1>4 DEF Max
<1>. QED  BY <1>5

\* So has a set of natural numbers a smallest one.
LEMMA Smallest ==
    ASSUME NEW S \in SUBSET Nat, S # {}
    PROVE  \E x \in S : \A y \in S : x <= y
<1>1. PICK n \in S : TRUE
  OBVIOUS
<1>. DEFINE T == {1..x : x \in S \cap 0..n}
<1>2. PICK t \in T : \A u \in T : u \subseteq t => u = t
  <2>. DEFINE I == 1..n
  <2>1. \A x \in S \cap 0..n : 1..x \in SUBSET I
    OBVIOUS
  <2>2. T \in SUBSET (SUBSET I) /\ T # {}
    BY <2>1
  <2>3. IsFiniteSet(I)
    BY FS_Interval
  <2>. HIDE DEF T, I
  <2>. QED  BY <2>2, <2>3, MinimalSubset
<1>3. PICK x \in S \cap 0..n : t = 1..x
  BY <1>2
<1>4. ASSUME NEW y \in S, y < x
      PROVE  FALSE
  <2>1. 1..y \in T /\ 1..y \subseteq 1..x
    BY <1>3, <1>4
  <2>2. 1..y = 1..x
    BY <1>2, <1>3, <2>1
  <2>3. x \in 1..x /\ x \notin 1..y
    BY <1>4
  <2>. QED  BY <2>2, <2>3
<1>. QED  BY <1>3, <1>4

\* The element a fold takes, and those it has taken before: a fold of a list takes
\* its last index.
Choice(S) == CHOOSE x \in S : TRUE
Pick(k, S) == IF k.kind \in {"rows", "list"} THEN Max(S) ELSE Choice(S)
Rest(k, S) == S \ {Pick(k, S)}

\* The folds of the model, told apart by a kind.
Step(k, x, acc) ==
    CASE k.kind = "sum" -> k.weight[x] + acc
      [] k.kind = "total" -> Plus(acc, Share(k.media[x.media], 1), 1)
      [] k.kind = "list" -> Plus(acc, Share(k.media[k.list[x]], 1), 1)
      [] k.kind = "rows" -> AddRow(acc, k.playlist, k.list, k.position, x)
      [] k.kind = "cut" -> Cut(acc, x, k.cut)

Iterates(k, base, S, iter) ==
    iter = [s \in SUBSET S |-> IF s = {} THEN base ELSE Step(k, Pick(k, s), iter[Rest(k, s)])]

Fold(k, base, S) == (CHOOSE iter : Iterates(k, base, S, iter))[S]

Unfolds(k, base, S) ==
    Fold(k, base, S) = IF S = {} THEN base ELSE Step(k, Pick(k, S), Fold(k, base, Rest(k, S)))

\* A list is folded over its indices.
Foldable(k, S) == k.kind \in {"rows", "list"} => \E n \in Nat : S \subseteq 1..n

LEMMA Picked ==
    ASSUME NEW k, NEW S, S # {}, Foldable(k, S)
    PROVE  /\ Pick(k, S) \in S /\ Pick(k, S) \notin Rest(k, S)
           /\ Rest(k, S) \subseteq S /\ Rest(k, S) # S
<1>1. Pick(k, S) \in S
  BY Largest DEF Pick, Choice, Foldable
<1>. QED  BY <1>1 DEF Rest

\* The recursion of a fold is well defined.
LEMMA FoldUnfolds ==
    ASSUME NEW k, NEW base, NEW S, IsFiniteSet(S), Foldable(k, S)
    PROVE  \A s \in SUBSET S : Unfolds(k, base, s)
<1>. DEFINE Bad == {s \in SUBSET S : ~Unfolds(k, base, s)}
<1>. SUFFICES ASSUME Bad # {} PROVE FALSE
  OBVIOUS
<1>1. PICK t \in Bad : \A u \in Bad : u \subseteq t => u = t
  <2>1. Bad \in SUBSET (SUBSET S)
    OBVIOUS
  <2>. HIDE DEF Bad
  <2>. QED  BY <2>1, MinimalSubset
<1>2. \A u \in SUBSET t : u # t => Unfolds(k, base, u)
  BY <1>1
<1>3. ASSUME NEW s \in SUBSET t, s # {}
      PROVE  Rest(k, s) \in SUBSET t /\ Rest(k, s) # t /\ Rest(k, s) \subseteq s /\ Rest(k, s) # s
  <2>1. Foldable(k, s)
    BY DEF Foldable
  <2>. QED  BY <1>3, <2>1, Picked
<1>. DEFINE G == [s \in SUBSET t |->
                     IF s = {} THEN base ELSE Step(k, Pick(k, s), Fold(k, base, Rest(k, s)))]
            H == CHOOSE iter : Iterates(k, base, t, iter)
<1>4. Iterates(k, base, t, G)
  <2>1. ASSUME NEW s \in SUBSET t, s # {}
        PROVE  G[Rest(k, s)] = Fold(k, base, Rest(k, s))
    <3>1. Rest(k, s) \in SUBSET t /\ Unfolds(k, base, Rest(k, s))
      BY <1>2, <1>3, <2>1
    <3>. QED  BY <3>1 DEF Unfolds
  <2>2. G = [s \in SUBSET t |-> IF s = {} THEN base ELSE Step(k, Pick(k, s), G[Rest(k, s)])]
    BY <2>1
  <2>. QED  BY <2>2 DEF Iterates
<1>5. Iterates(k, base, t, H) /\ Fold(k, base, t) = H[t]
  <2>. HIDE DEF G
  <2>. QED  BY <1>4 DEF Fold
<1>. HIDE DEF H
<1>6. \A s \in SUBSET t : H[s] = IF s = {} THEN base ELSE Step(k, Pick(k, s), H[Rest(k, s)])
  BY <1>5 DEF Iterates
<1>7. \A s \in SUBSET t : s # t => H[s] = Fold(k, base, s)
  <2>. DEFINE Off == {s \in SUBSET t : s # t /\ H[s] # Fold(k, base, s)}
  <2>. SUFFICES ASSUME Off # {} PROVE FALSE
    OBVIOUS
  <2>1. PICK s \in Off : \A u \in Off : u \subseteq s => u = s
    <3>1. Off \in SUBSET (SUBSET t) /\ IsFiniteSet(t)
      BY <1>1, FS_Subset
    <3>. HIDE DEF Off
    <3>. QED  BY <3>1, MinimalSubset
  <2>2. Unfolds(k, base, s)
    BY <1>2, <2>1
  <2>3. CASE s = {}
    BY <1>6, <2>1, <2>2, <2>3 DEF Unfolds
  <2>4. CASE s # {}
    <3>1. H[Rest(k, s)] = Fold(k, base, Rest(k, s))
      BY <1>3, <2>1, <2>4
    <3>. QED  BY <1>6, <2>1, <2>2, <2>4, <3>1 DEF Unfolds
  <2>. QED  BY <2>3, <2>4
<1>8. Unfolds(k, base, t)
  <2>1. CASE t = {}
    BY <1>5, <1>6, <2>1 DEF Unfolds
  <2>2. CASE t # {}
    <3>1. H[Rest(k, t)] = Fold(k, base, Rest(k, t))
      BY <1>3, <1>7, <2>2
    <3>. QED  BY <1>5, <1>6, <2>2, <3>1 DEF Unfolds
  <2>. QED  BY <2>1, <2>2
<1>. QED  BY <1>1, <1>8

-----------------------------------------------------------------------------
(* Sums.                                                                   *)

Sum(w, S) == Fold([kind |-> "sum", weight |-> w], 0, S)

LEMMA SumTaken ==
    ASSUME NEW w, NEW S, IsFiniteSet(S)
    PROVE  /\ S = {} => Sum(w, S) = 0
           /\ S # {} => \E x \in S : Sum(w, S) = w[x] + Sum(w, S \ {x})
<1>. DEFINE k == [kind |-> "sum", weight |-> w]
<1>1. Foldable(k, S)
  BY DEF Foldable
<1>2. Unfolds(k, 0, S)
  BY <1>1, FoldUnfolds
<1>3. \A x, acc : Step(k, x, acc) = w[x] + acc
  BY DEF Step
<1>4. S # {} => Pick(k, S) \in S /\ Rest(k, S) = S \ {Pick(k, S)}
  BY <1>1, Picked DEF Rest
<1>. HIDE DEF k
<1>5. /\ S = {} => Fold(k, 0, S) = 0
      /\ S # {} => Fold(k, 0, S) = w[Pick(k, S)] + Fold(k, 0, S \ {Pick(k, S)})
  BY <1>2, <1>3, <1>4 DEF Unfolds
<1>6. \A T : Sum(w, T) = Fold(k, 0, T)
  BY DEF Sum, k
<1>. QED  BY <1>4, <1>5, <1>6

LEMMA SumType ==
    ASSUME NEW S, IsFiniteSet(S), NEW w, \A x \in S : w[x] \in Int
    PROVE  Sum(w, S) \in Int
<1>. DEFINE Bad == {s \in SUBSET S : Sum(w, s) \notin Int}
<1>. SUFFICES ASSUME Bad # {} PROVE FALSE
  OBVIOUS
<1>1. PICK s \in Bad : \A u \in Bad : u \subseteq s => u = s
  <2>1. Bad \in SUBSET (SUBSET S)
    OBVIOUS
  <2>. HIDE DEF Bad
  <2>. QED  BY <2>1, MinimalSubset
<1>2. IsFiniteSet(s)
  BY <1>1, FS_Subset
<1>3. s # {}
  BY <1>1, <1>2, SumTaken
<1>4. PICK x \in s : Sum(w, s) = w[x] + Sum(w, s \ {x})
  BY <1>2, <1>3, SumTaken
<1>5. Sum(w, s \ {x}) \in Int
  BY <1>1
<1>. QED  BY <1>1, <1>4, <1>5

\* Any element can be taken first.
LEMMA SumRemove ==
    ASSUME NEW S, IsFiniteSet(S), NEW w, \A x \in S : w[x] \in Int
    PROVE  \A x \in S : Sum(w, S) = w[x] + Sum(w, S \ {x})
<1>. DEFINE Good(s) == \A x \in s : Sum(w, s) = w[x] + Sum(w, s \ {x})
            Bad == {s \in SUBSET S : ~Good(s)}
<1>. SUFFICES ASSUME Bad # {} PROVE FALSE
  OBVIOUS
<1>1. PICK s \in Bad : \A u \in Bad : u \subseteq s => u = s
  <2>1. Bad \in SUBSET (SUBSET S)
    OBVIOUS
  <2>. HIDE DEF Bad
  <2>. QED  BY <2>1, MinimalSubset
<1>2. \A u \in SUBSET s : u # s => Good(u)
  BY <1>1
<1>3. PICK x \in s : Sum(w, s) # w[x] + Sum(w, s \ {x})
  BY <1>1
<1>4. PICK p \in s : Sum(w, s) = w[p] + Sum(w, s \ {p})
  <2>1. IsFiniteSet(s) /\ s # {}
    BY <1>1, <1>3, FS_Subset
  <2>. QED  BY <2>1, SumTaken
<1>5. p # x
  BY <1>3, <1>4
<1>. HIDE DEF Good
<1>6. Sum(w, s \ {p}) = w[x] + Sum(w, (s \ {p}) \ {x})
  <2>1. Good(s \ {p}) /\ x \in s \ {p}
    BY <1>2, <1>3, <1>4, <1>5
  <2>. QED  BY <2>1 DEF Good
<1>7. Sum(w, s \ {x}) = w[p] + Sum(w, (s \ {x}) \ {p})
  <2>1. Good(s \ {x}) /\ p \in s \ {x}
    BY <1>2, <1>3, <1>4, <1>5
  <2>. QED  BY <2>1 DEF Good
<1>8. (s \ {p}) \ {x} = (s \ {x}) \ {p}
  OBVIOUS
<1>9. Sum(w, (s \ {p}) \ {x}) \in Int /\ w[x] \in Int /\ w[p] \in Int
  <2>1. IsFiniteSet((s \ {p}) \ {x}) /\ \A y \in (s \ {p}) \ {x} : w[y] \in Int
    <3>1. (s \ {p}) \ {x} \in SUBSET S
      BY <1>1
    <3>. QED  BY <3>1, FS_Subset
  <2>. QED  BY <1>1, <1>3, <1>4, <2>1, SumType
<1>10. \A r, i, j \in Int : i + (j + r) = j + (i + r)
  OBVIOUS
<1>11. Sum(w, s) = w[x] + (w[p] + Sum(w, (s \ {p}) \ {x}))
  BY <1>4, <1>6, <1>9, <1>10
<1>. QED  BY <1>3, <1>7, <1>8, <1>11

LEMMA SumSame ==
    ASSUME NEW S, IsFiniteSet(S), NEW w1, NEW w2, \A x \in S : w1[x] = w2[x] /\ w2[x] \in Int
    PROVE  Sum(w1, S) = Sum(w2, S)
<1>. DEFINE Bad == {s \in SUBSET S : Sum(w1, s) # Sum(w2, s)}
<1>. SUFFICES ASSUME Bad # {} PROVE FALSE
  OBVIOUS
<1>1. PICK s \in Bad : \A u \in Bad : u \subseteq s => u = s
  <2>1. Bad \in SUBSET (SUBSET S)
    OBVIOUS
  <2>. HIDE DEF Bad
  <2>. QED  BY <2>1, MinimalSubset
<1>2. IsFiniteSet(s)
  BY <1>1, FS_Subset
<1>3. s # {}
  BY <1>1, <1>2, SumTaken
<1>4. PICK x \in s : Sum(w1, s) = w1[x] + Sum(w1, s \ {x})
  BY <1>2, <1>3, SumTaken
<1>5. Sum(w2, s) = w2[x] + Sum(w2, s \ {x})
  BY <1>1, <1>2, <1>4, SumRemove
<1>6. Sum(w1, s \ {x}) = Sum(w2, s \ {x}) /\ w1[x] = w2[x]
  BY <1>1
<1>. QED  BY <1>1, <1>4, <1>5, <1>6

\* A sum in which one term changes.
LEMMA SumChange ==
    ASSUME NEW S, IsFiniteSet(S), NEW w1, NEW w2, NEW x \in S,
           \A y \in S : w1[y] \in Int /\ w2[y] \in Int,
           \A y \in S \ {x} : w1[y] = w2[y]
    PROVE  Sum(w2, S) = Sum(w1, S) - w1[x] + w2[x]
<1>1. IsFiniteSet(S \ {x})
  BY FS_Subset
<1>2. Sum(w1, S \ {x}) = Sum(w2, S \ {x}) /\ Sum(w1, S \ {x}) \in Int
  BY <1>1, SumSame, SumType
<1>3. Sum(w1, S) = w1[x] + Sum(w1, S \ {x}) /\ Sum(w2, S) = w2[x] + Sum(w2, S \ {x})
  BY SumRemove
<1>. QED  BY <1>2, <1>3

LEMMA SumAdd ==
    ASSUME NEW S, IsFiniteSet(S), NEW w, NEW a, NEW b,
           \A x \in S : a[x] \in Int /\ b[x] \in Int /\ w[x] = a[x] + b[x]
    PROVE  Sum(w, S) = Sum(a, S) + Sum(b, S)
<1>. DEFINE Bad == {s \in SUBSET S : Sum(w, s) # Sum(a, s) + Sum(b, s)}
<1>. SUFFICES ASSUME Bad # {} PROVE FALSE
  OBVIOUS
<1>1. PICK s \in Bad : \A u \in Bad : u \subseteq s => u = s
  <2>1. Bad \in SUBSET (SUBSET S)
    OBVIOUS
  <2>. HIDE DEF Bad
  <2>. QED  BY <2>1, MinimalSubset
<1>2. IsFiniteSet(s) /\ \A x \in s : a[x] \in Int /\ b[x] \in Int /\ w[x] = a[x] + b[x]
  BY <1>1, FS_Subset
<1>3. s # {}
  BY <1>1, <1>2, SumTaken
<1>4. PICK x \in s : Sum(w, s) = w[x] + Sum(w, s \ {x})
  BY <1>2, <1>3, SumTaken
<1>5. Sum(a, s) = a[x] + Sum(a, s \ {x}) /\ Sum(b, s) = b[x] + Sum(b, s \ {x})
  BY <1>2, SumRemove
<1>6. Sum(w, s \ {x}) = Sum(a, s \ {x}) + Sum(b, s \ {x})
  BY <1>1
<1>7. Sum(a, s \ {x}) \in Int /\ Sum(b, s \ {x}) \in Int
  <2>1. IsFiniteSet(s \ {x})
    BY <1>2, FS_Subset
  <2>. QED  BY <1>2, <2>1, SumType
<1>. QED  BY <1>1, <1>2, <1>4, <1>5, <1>6, <1>7

LEMMA SumNat ==
    ASSUME NEW S, IsFiniteSet(S), NEW w, \A x \in S : w[x] \in Nat
    PROVE  Sum(w, S) \in Nat /\ (\A x \in S : w[x] <= Sum(w, S))
<1>. DEFINE Bad == {s \in SUBSET S : Sum(w, s) \notin Nat}
<1>1. Bad = {}
  <2>. SUFFICES ASSUME Bad # {} PROVE FALSE
    OBVIOUS
  <2>1. PICK s \in Bad : \A u \in Bad : u \subseteq s => u = s
    <3>1. Bad \in SUBSET (SUBSET S)
      OBVIOUS
    <3>. HIDE DEF Bad
    <3>. QED  BY <3>1, MinimalSubset
  <2>2. IsFiniteSet(s)
    BY <2>1, FS_Subset
  <2>3. s # {}
    BY <2>1, <2>2, SumTaken
  <2>4. PICK x \in s : Sum(w, s) = w[x] + Sum(w, s \ {x})
    BY <2>2, <2>3, SumTaken
  <2>5. Sum(w, s \ {x}) \in Nat
    BY <2>1
  <2>. QED  BY <2>1, <2>4, <2>5
<1>2. \A s \in SUBSET S : Sum(w, s) \in Nat
  BY <1>1
<1>3. ASSUME NEW x \in S
      PROVE  w[x] <= Sum(w, S)
  <2>1. Sum(w, S) = w[x] + Sum(w, S \ {x})
    BY SumRemove
  <2>. QED  BY <1>2, <2>1
<1>. QED  BY <1>2, <1>3

LEMMA SumZero ==
    ASSUME NEW S, IsFiniteSet(S), NEW w, \A x \in S : w[x] = 0
    PROVE  Sum(w, S) = 0
<1>. DEFINE Bad == {s \in SUBSET S : Sum(w, s) # 0}
<1>1. Bad = {}
  <2>. SUFFICES ASSUME Bad # {} PROVE FALSE
    OBVIOUS
  <2>1. PICK s \in Bad : \A u \in Bad : u \subseteq s => u = s
    <3>1. Bad \in SUBSET (SUBSET S)
      OBVIOUS
    <3>. HIDE DEF Bad
    <3>. QED  BY <3>1, MinimalSubset
  <2>2. IsFiniteSet(s)
    BY <2>1, FS_Subset
  <2>3. s # {}
    BY <2>1, <2>2, SumTaken
  <2>4. PICK x \in s : Sum(w, s) = w[x] + Sum(w, s \ {x})
    BY <2>2, <2>3, SumTaken
  <2>5. Sum(w, s \ {x}) = 0
    BY <2>1
  <2>. QED  BY <2>1, <2>4, <2>5
<1>. QED  BY <1>1

-----------------------------------------------------------------------------
(* The folds of the model.                                                 *)

IsOrdered(k) == k.kind \in {"rows", "list"}

\* A list is folded from its first item to its last one.
LEMMA FoldList ==
    ASSUME NEW k, IsOrdered(k), NEW base, NEW n \in Nat
    PROVE  Fold(k, base, 1..n) = IF n = 0 THEN base ELSE Step(k, n, Fold(k, base, 1..(n - 1)))
<1>. DEFINE I == 1..n
<1>1. IsFiniteSet(I) /\ I \subseteq 1..n
  BY FS_Interval
<1>2. Unfolds(k, base, I)
  <2>1. Foldable(k, I)
    BY <1>1 DEF Foldable
  <2>. HIDE DEF I
  <2>. QED  BY <1>1, <2>1, FoldUnfolds
<1>3. CASE n = 0
  <2>1. I = {}
    BY <1>3
  <2>. QED  BY <1>2, <1>3, <2>1 DEF Unfolds
<1>4. CASE n # 0
  <2>1. n \in I /\ \A y \in I : y <= n
    BY <1>4
  <2>2. Max(I) \in I /\ \A y \in I : y <= Max(I)
    <3>. HIDE DEF I
    <3>. QED  BY <1>1, <2>1, Largest
  <2>3. Max(I) = n
    BY <2>1, <2>2
  <2>4. Pick(k, I) = n
    BY <2>3 DEF Pick, IsOrdered
  <2>5. I \ {n} = 1..(n - 1) /\ I # {}
    BY <2>1
  <2>6. Fold(k, base, I) = Step(k, n, Fold(k, base, I \ {n}))
    <3>. HIDE DEF I
    <3>. QED  BY <1>2, <2>4, <2>5 DEF Unfolds, Rest
  <2>. QED  BY <1>4, <2>5, <2>6
<1>. QED  BY <1>3, <1>4

RowsKind(p, list, position) ==
    [kind |-> "rows", playlist |-> p, list |-> list, position |-> position]
ListKind(rows, list) == [kind |-> "list", media |-> rows, list |-> list]

LEMMA Kinds ==
    /\ \A p, list, position : IsOrdered(RowsKind(p, list, position))
    /\ \A rows, list : IsOrdered(ListKind(rows, list))
    /\ \A p, list, position, x, acc :
          Step(RowsKind(p, list, position), x, acc) = AddRow(acc, p, list, position, x)
    /\ \A rows, list, x, acc :
          Step(ListKind(rows, list), x, acc) = Plus(acc, Share(rows[list[x]], 1), 1)
BY DEF RowsKind, ListKind, IsOrdered, Step

LEMMA AddRowsFold ==
    ASSUME NEW d, NEW p, NEW position, NEW n \in Nat, NEW list \in [1..n -> Media]
    PROVE  addRows(d, p, list, position) = Fold(RowsKind(p, list, position), d, 1..n)
<1>. DEFINE k == RowsKind(p, list, position)
            id == [i \in DOMAIN list |-> i]
            body(iter) == [s \in SUBSET (1..n) |->
                IF s = {} THEN d ELSE AddRow(iter[s \ {Max(s)}], p, list, position, id[Max(s)])]
<1>1. DOMAIN list = 1..n /\ DOMAIN id = 1..n
  OBVIOUS
<1>2. \A s \in SUBSET (1..n) : s # {} => id[Max(s)] = Max(s)
  <2>1. \A s \in SUBSET (1..n) : s # {} => Max(s) \in s
    BY Largest
  <2>. QED  BY <1>1, <2>1
<1>3. \A s : Pick(k, s) = Max(s)
  BY Kinds DEF IsOrdered, Pick
<1>. HIDE DEF id
<1>4. \A iter : Iterates(k, d, 1..n, iter) <=> iter = body(iter)
  <2>0. \A iter : body(iter) = [s \in SUBSET (1..n) |->
                IF s = {} THEN d ELSE AddRow(iter[s \ {Max(s)}], p, list, position, Max(s))]
    BY <1>2
  <2>1. \A x, acc : Step(k, x, acc) = AddRow(acc, p, list, position, x)
    BY Kinds
  <2>. HIDE DEF k, body
  <2>. QED  BY <1>3, <2>0, <2>1 DEF Iterates, Rest
<1>5. (CHOOSE iter : Iterates(k, d, 1..n, iter)) = (CHOOSE iter : iter = body(iter))
  <2>. HIDE DEF k, body
  <2>. QED  BY <1>4
<1>6. addRows(d, p, list, position) = (CHOOSE iter : iter = body(iter))[1..n]
  BY <1>1 DEF addRows, FoldLeftDomain, FoldLeft, MapThenFoldSet, AddRow, At, id
<1>. HIDE DEF body
<1>. QED  BY <1>5, <1>6 DEF Fold

LEMMA CountFold ==
    ASSUME NEW d, NEW base, NEW n \in Nat, NEW list \in [1..n -> Media]
    PROVE  FoldLeft(LAMBDA c, m : Plus(c, Share(d.media[m], 1), 1), base, list)
               = Fold(ListKind(d.media, list), base, 1..n)
<1>. DEFINE k == ListKind(d.media, list)
            body(iter) == [s \in SUBSET (1..n) |->
                IF s = {} THEN base
                ELSE Plus(iter[s \ {Max(s)}], Share(d.media[list[Max(s)]], 1), 1)]
<1>1. DOMAIN list = 1..n
  OBVIOUS
<1>2. \A s : Pick(k, s) = Max(s)
  <2>1. IsOrdered(k)
    BY Kinds
  <2>. HIDE DEF k
  <2>. QED  BY <2>1 DEF IsOrdered, Pick
<1>3. \A iter : Iterates(k, base, 1..n, iter) <=> iter = body(iter)
  <2>1. \A x, acc : Step(k, x, acc) = Plus(acc, Share(d.media[list[x]], 1), 1)
    BY Kinds
  <2>2. ASSUME NEW iter
        PROVE  [s \in SUBSET (1..n) |->
                   IF s = {} THEN base ELSE Step(k, Pick(k, s), iter[Rest(k, s)])]
                   = body(iter)
    <3>1. \A s : s \ {Max(s)} = Rest(k, s)
      BY <1>2 DEF Rest
    <3>. HIDE DEF k
    <3>. QED  BY <1>2, <2>1, <3>1
  <2>. HIDE DEF k, body
  <2>. QED  BY <2>2 DEF Iterates
<1>4. (CHOOSE iter : Iterates(k, base, 1..n, iter)) = (CHOOSE iter : iter = body(iter))
  <2>. HIDE DEF k, body
  <2>. QED  BY <1>3
<1>5. FoldLeft(LAMBDA c, m : Plus(c, Share(d.media[m], 1), 1), base, list)
          = (CHOOSE iter : iter = body(iter))[1..n]
  BY <1>1 DEF FoldLeft, MapThenFoldSet
<1>. HIDE DEF body
<1>. QED  BY <1>4, <1>5 DEF Fold

TotalKind(rows) == [kind |-> "total", media |-> rows]

LEMMA AccumulatorFold ==
    ASSUME NEW d, NEW rows
    PROVE  CounterAccumulator(d, rows) = Fold(TotalKind(d.media), Empty, rows)
<1>. DEFINE k == TotalKind(d.media)
            body(iter) == [s \in SUBSET rows |->
                IF s = {} THEN Empty
                ELSE Plus(iter[s \ {Choice(s)}],
                          Share(d.media[Choice(s).media], 1), 1)]
<1>1. /\ \A x, acc : Step(k, x, acc) = Plus(acc, Share(d.media[x.media], 1), 1)
      /\ \A s : Pick(k, s) = Choice(s)
  BY DEF Step, Pick, TotalKind
<1>2. \A iter : Iterates(k, Empty, rows, iter) <=> iter = body(iter)
  <2>. HIDE DEF k
  <2>. QED  BY <1>1 DEF Iterates, Rest
<1>3. (CHOOSE iter : Iterates(k, Empty, rows, iter)) = (CHOOSE iter : iter = body(iter))
  <2>. HIDE DEF k, body
  <2>. QED  BY <1>2
<1>4. CounterAccumulator(d, rows) = (CHOOSE iter : iter = body(iter))[rows]
  BY DEF CounterAccumulator, FoldSet, MapThenFoldSet, Choice
<1>. HIDE DEF body
<1>. QED  BY <1>3, <1>4 DEF Fold

CutKind(m) == [kind |-> "cut", cut |-> m]

LEMMA CutFold ==
    ASSUME NEW base, NEW S, NEW m
    PROVE  FoldSet(LAMBDA p, acc :
                      SetItems(acc, p, DeleteRows(acc.items[p],
                                          {r \in acc.items[p] : r.media = m})),
                   base, S)
               = Fold(CutKind(m), base, S)
<1>. DEFINE k == CutKind(m)
            body(iter) == [s \in SUBSET S |->
                IF s = {} THEN base
                ELSE Cut(iter[s \ {Choice(s)}], Choice(s), m)]
<1>1. /\ \A x, acc : Step(k, x, acc) = Cut(acc, x, m)
      /\ \A s : Pick(k, s) = Choice(s)
  BY DEF Step, Pick, CutKind
<1>2. \A iter : Iterates(k, base, S, iter) <=> iter = body(iter)
  <2>. HIDE DEF k
  <2>. QED  BY <1>1 DEF Iterates, Rest
<1>3. (CHOOSE iter : Iterates(k, base, S, iter)) = (CHOOSE iter : iter = body(iter))
  <2>. HIDE DEF k, body
  <2>. QED  BY <1>2
<1>4. FoldSet(LAMBDA p, acc :
                 SetItems(acc, p, DeleteRows(acc.items[p],
                                     {r \in acc.items[p] : r.media = m})),
              base, S)
          = (CHOOSE iter : iter = body(iter))[S]
  BY DEF FoldSet, MapThenFoldSet, Cut, Choice
<1>. HIDE DEF body
<1>. QED  BY <1>3, <1>4 DEF Fold

\* The sums over the playlists that the model and its properties write.
LEMMA SizesAdd ==
    ASSUME NEW d
    PROVE  MapThenSumSet(LAMBDA p : Cardinality(d.items[p]), Playlists)
               = Sum([p \in Playlists |-> Cardinality(d.items[p])], Playlists)
<1>. DEFINE w == [p \in Playlists |-> Cardinality(d.items[p])]
            k == [kind |-> "sum", weight |-> w]
            body(iter) == [s \in SUBSET Playlists |->
                IF s = {} THEN 0
                ELSE Cardinality(d.items[Choice(s)])
                         + iter[s \ {Choice(s)}]]
<1>1. /\ \A x \in Playlists : \A acc : Step(k, x, acc) = Cardinality(d.items[x]) + acc
      /\ \A s : Pick(k, s) = Choice(s)
  BY DEF Step, Pick
<1>2. \A iter : Iterates(k, 0, Playlists, iter) <=> iter = body(iter)
  <2>1. \A s \in SUBSET Playlists : s # {} => Choice(s) \in Playlists
    BY DEF Choice
  <2>. HIDE DEF k
  <2>. QED  BY <1>1, <2>1 DEF Iterates, Rest
<1>3. (CHOOSE iter : Iterates(k, 0, Playlists, iter)) = (CHOOSE iter : iter = body(iter))
  <2>. HIDE DEF k, body
  <2>. QED  BY <1>2
<1>4. MapThenSumSet(LAMBDA p : Cardinality(d.items[p]), Playlists)
          = (CHOOSE iter : iter = body(iter))[Playlists]
  BY DEF MapThenSumSet, MapThenFoldSet, Choice
<1>. HIDE DEF body
<1>. QED  BY <1>3, <1>4 DEF Fold, Sum

InPlaylists(its, m) == Sum([p \in Playlists |-> Occurrences(its[p], m)], Playlists)

LEMMA PlacesAdd ==
    ASSUME NEW m
    PROVE  MapThenSumSet(LAMBDA p : Occurrences(items[p], m), Playlists) = InPlaylists(items, m)
<1>. DEFINE w == [p \in Playlists |-> Occurrences(items[p], m)]
            k == [kind |-> "sum", weight |-> w]
            body(iter) == [s \in SUBSET Playlists |->
                IF s = {} THEN 0
                ELSE Occurrences(items[Choice(s)], m)
                         + iter[s \ {Choice(s)}]]
<1>1. /\ \A x \in Playlists : \A acc : Step(k, x, acc) = Occurrences(items[x], m) + acc
      /\ \A s : Pick(k, s) = Choice(s)
  BY DEF Step, Pick
<1>2. \A iter : Iterates(k, 0, Playlists, iter) <=> iter = body(iter)
  <2>1. \A s \in SUBSET Playlists : s # {} => Choice(s) \in Playlists
    BY DEF Choice
  <2>. HIDE DEF k
  <2>. QED  BY <1>1, <2>1 DEF Iterates, Rest
<1>3. (CHOOSE iter : Iterates(k, 0, Playlists, iter)) = (CHOOSE iter : iter = body(iter))
  <2>. HIDE DEF k, body
  <2>. QED  BY <1>2
<1>4. MapThenSumSet(LAMBDA p : Occurrences(items[p], m), Playlists)
          = (CHOOSE iter : iter = body(iter))[Playlists]
  BY DEF MapThenSumSet, MapThenFoldSet, Choice
<1>. HIDE DEF body
<1>. QED  BY <1>3, <1>4 DEF Fold, Sum, InPlaylists

-----------------------------------------------------------------------------
(* The rows of a playlist as a list of media.                              *)

IsList(rows, n, s) ==
    /\ n \in Nat /\ s \in [1..n -> Media]
    /\ rows = {[media |-> s[i], position |-> i - 1] : i \in 1..n}

LEMMA ListRows ==
    ASSUME NEW rows, NEW n, NEW s, IsList(rows, n, s)
    PROVE  /\ \A r \in rows : /\ r \in Item /\ r.position \in 0..(n - 1)
                              /\ r.position + 1 \in 1..n /\ r.media = s[r.position + 1]
           /\ \A i \in 1..n : [media |-> s[i], position |-> i - 1] \in rows
           /\ \A i \in 0..(n - 1) : \E r \in rows : r.position = i /\ r.media = s[i + 1]
           /\ \A q, r \in rows : q.position = r.position => q = r
<1>1. n \in Nat /\ s \in [1..n -> Media]
      /\ rows = {[media |-> s[i], position |-> i - 1] : i \in 1..n}
  BY DEF IsList
<1>2. \A r \in rows : /\ r \in Item /\ r.position \in 0..(n - 1)
                      /\ r.position + 1 \in 1..n /\ r.media = s[r.position + 1]
                      /\ r = [media |-> s[r.position + 1], position |-> r.position]
  BY <1>1 DEF Item
<1>3. \A i \in 1..n : [media |-> s[i], position |-> i - 1] \in rows
  BY <1>1
<1>4. \A i \in 0..(n - 1) : \E r \in rows : r.position = i /\ r.media = s[i + 1]
  <2>. TAKE i \in 0..(n - 1)
  <2>1. i + 1 \in 1..n /\ (i + 1) - 1 = i
    BY <1>1
  <2>2. [media |-> s[i + 1], position |-> (i + 1) - 1] \in rows
    BY <1>3, <2>1
  <2>. QED  BY <2>1, <2>2
<1>. QED  BY <1>2, <1>3, <1>4

LEMMA MakeList ==
    ASSUME NEW rows, NEW n \in Nat, NEW s \in [1..n -> Media],
           \A r \in rows : r \in Item /\ r.position + 1 \in 1..n /\ r.media = s[r.position + 1],
           \A i \in 1..n : \E r \in rows : r.position = i - 1
    PROVE  IsList(rows, n, s)
<1>. DEFINE T == {[media |-> s[i], position |-> i - 1] : i \in 1..n}
<1>1. ASSUME NEW r \in rows
      PROVE  r \in T
  <2>1. r = [media |-> s[r.position + 1], position |-> r.position]
        /\ r.position \in Nat
    BY DEF Item
  <2>2. r = [media |-> s[r.position + 1], position |-> (r.position + 1) - 1]
    BY <2>1
  <2>. QED  BY <2>2
<1>2. ASSUME NEW i \in 1..n
      PROVE  [media |-> s[i], position |-> i - 1] \in rows
  <2>1. PICK r \in rows : r.position = i - 1
    OBVIOUS
  <2>2. r.position + 1 = i
    BY <2>1
  <2>3. r = [media |-> s[i], position |-> i - 1]
    BY <2>1, <2>2 DEF Item
  <2>. QED  BY <2>3
<1>3. rows = T
  BY <1>1, <1>2
<1>. QED  BY <1>3 DEF IsList

LEMMA ListSize ==
    ASSUME NEW rows, NEW n, NEW s, IsList(rows, n, s)
    PROVE  /\ IsFiniteSet(rows) /\ Cardinality(rows) = n
           /\ {r.position : r \in rows} = 0..(n - 1)
<1>. DEFINE f == [i \in 1..n |-> [media |-> s[i], position |-> i - 1]]
<1>1. n \in Nat /\ rows = {[media |-> s[i], position |-> i - 1] : i \in 1..n}
  BY DEF IsList
<1>2. f \in Bijection(1..n, rows)
  <2>1. f \in Surjection(1..n, rows)
    BY <1>1 DEF Surjection
  <2>2. ASSUME NEW i \in 1..n, NEW j \in 1..n, f[i] = f[j]
        PROVE  i = j
    <3>1. f[i].position = i - 1 /\ f[j].position = j - 1
      OBVIOUS
    <3>. QED  BY <2>2, <3>1
  <2>3. f \in Injection(1..n, rows)
    BY <2>1, <2>2 DEF Surjection, Injection, IsInjective
  <2>. QED  BY <2>1, <2>3 DEF Bijection
<1>3. IsFiniteSet(1..n) /\ Cardinality(1..n) = n
  BY <1>1, FS_Interval
<1>4. IsFiniteSet(rows) /\ Cardinality(rows) = Cardinality(1..n)
  <2>1. ExistsBijection(1..n, rows)
    BY <1>2 DEF ExistsBijection
  <2>. QED  BY <1>3, <2>1, FS_Bijection
<1>5. {r.position : r \in rows} = 0..(n - 1)
  <2>1. \A i \in 0..(n - 1) : \E r \in rows : r.position = i
    BY ListRows
  <2>2. \A r \in rows : r.position \in 0..(n - 1)
    BY ListRows
  <2>. QED  BY <2>1, <2>2
<1>. QED  BY <1>3, <1>4, <1>5

\* A row is at the place its position says.
LEMMA ListPlace ==
    ASSUME NEW rows, NEW n, NEW s, IsList(rows, n, s), NEW r \in rows
    PROVE  Place(rows, r) = r.position
<1>. DEFINE k == r.position
            before == {q \in rows : q.position < k}
            t == [i \in 1..k |-> s[i]]
<1>1. n \in Nat /\ k \in 0..(n - 1) /\ s \in [1..n -> Media]
  BY ListRows DEF IsList
<1>2. t \in [1..k -> Media]
  BY <1>1
<1>3. \A q \in before : q \in Item /\ q.position + 1 \in 1..k /\ q.media = t[q.position + 1]
  <2>. TAKE q \in before
  <2>1. q \in Item /\ q.position \in 0..(n - 1) /\ q.media = s[q.position + 1]
        /\ q.position < k
    BY ListRows
  <2>2. q.position + 1 \in 1..k
    BY <1>1, <2>1
  <2>. QED  BY <2>1, <2>2
<1>4. \A i \in 1..k : \E q \in before : q.position = i - 1
  <2>. TAKE i \in 1..k
  <2>1. i - 1 \in 0..(n - 1) /\ i - 1 < k
    BY <1>1
  <2>2. PICK q \in rows : q.position = i - 1
    BY <2>1, ListRows
  <2>. QED  BY <2>1, <2>2
<1>5. IsList(before, k, t)
  <2>. HIDE DEF before, t, k
  <2>1. k \in Nat
    BY <1>1
  <2>. QED  BY <1>2, <1>3, <1>4, <2>1, MakeList
<1>6. Cardinality(before) = k
  <2>. HIDE DEF before, t, k
  <2>. QED  BY <1>5, ListSize
<1>. QED  BY <1>6 DEF Place

\* The media in the order of their positions are the list.
LEMMA ListOrder ==
    ASSUME NEW rows, NEW n, NEW s, IsList(rows, n, s)
    PROVE  Order(rows) = s
<1>1. Cardinality(rows) = n /\ s \in [1..n -> Media] /\ n \in Nat
  BY ListSize DEF IsList
<1>2. ASSUME NEW i \in 1..n
      PROVE  (CHOOSE r \in rows : Place(rows, r) = i - 1).media = s[i]
  <2>. DEFINE c == CHOOSE r \in rows : Place(rows, r) = i - 1
  <2>0. i - 1 \in 0..(n - 1) /\ (i - 1) + 1 = i
    BY <1>1
  <2>1. \E r \in rows : Place(rows, r) = i - 1
    BY <2>0, ListRows, ListPlace
  <2>2. c \in rows /\ Place(rows, c) = i - 1
    BY <2>1
  <2>. HIDE DEF c
  <2>3. c.position = i - 1 /\ c.media = s[c.position + 1]
    BY <2>2, ListRows, ListPlace
  <2>4. c.media = s[i]
    BY <2>0, <2>3
  <2>. QED  BY <2>4 DEF c
<1>3. Order(rows) = [i \in 1..n |-> s[i]]
  BY <1>1, <1>2 DEF Order
<1>. QED  BY <1>1, <1>3

-----------------------------------------------------------------------------
(* What a playlist holds, wherever it is.                                  *)

Same(a, b) == IF a = b THEN 1 ELSE 0

LEMMA OccurrencesType ==
    ASSUME NEW rows, IsFiniteSet(rows), NEW m
    PROVE  /\ Occurrences(rows, m) \in Nat
           /\ IsFiniteSet({r \in rows : r.media = m})
           /\ Occurrences(rows, m) = 0 <=> \A r \in rows : r.media # m
<1>. DEFINE T == {r \in rows : r.media = m}
<1>1. IsFiniteSet(T)
  BY FS_Subset
<1>2. Cardinality(T) \in Nat /\ (Cardinality(T) = 0 <=> T = {})
  <2>. HIDE DEF T
  <2>. QED  BY <1>1, FS_CardinalityType, FS_EmptySet
<1>. QED  BY <1>1, <1>2 DEF Occurrences

\* Rows that only change their positions are the same items.
LEMMA OccurrencesMoved ==
    ASSUME NEW A, IsFiniteSet(A), NEW f, DOMAIN f = A,
           \A r \in A : f[r].media = r.media,
           \A q, r \in A : f[q] = f[r] => q = r
    PROVE  LET B == {f[r] : r \in A}
           IN  /\ IsFiniteSet(B) /\ Cardinality(B) = Cardinality(A)
               /\ \A m : Occurrences(B, m) = Occurrences(A, m)
<1>. DEFINE B == {f[r] : r \in A}
<1>1. ASSUME NEW S \in SUBSET A, NEW T, T = {f[r] : r \in S}
      PROVE  IsFiniteSet(T) /\ Cardinality(T) = Cardinality(S)
  <2>. DEFINE g == [r \in S |-> f[r]]
  <2>1. g \in Surjection(S, T)
    BY <1>1 DEF Surjection
  <2>2. g \in Injection(S, T)
    BY <1>1 DEF Injection, IsInjective
  <2>3. ExistsBijection(S, T)
    BY <2>1, <2>2 DEF Bijection, ExistsBijection
  <2>4. IsFiniteSet(S)
    BY FS_Subset
  <2>. QED  BY <2>3, <2>4, FS_Bijection
<1>2. ASSUME NEW m
      PROVE  Occurrences(B, m) = Occurrences(A, m)
  <2>. DEFINE S == {r \in A : r.media = m}
              T == {r \in B : r.media = m}
  <2>1. T = {f[r] : r \in S} /\ S \in SUBSET A
    OBVIOUS
  <2>2. Cardinality(T) = Cardinality(S)
    <3>. HIDE DEF S, T
    <3>. QED  BY <1>1, <2>1
  <2>. QED  BY <2>2 DEF Occurrences
<1>3. IsFiniteSet(B) /\ Cardinality(B) = Cardinality(A)
  <2>. HIDE DEF B
  <2>1. A \in SUBSET A
    OBVIOUS
  <2>2. B = {f[r] : r \in A}
    BY DEF B
  <2>. QED  BY <1>1, <2>1, <2>2
<1>. QED  BY <1>2, <1>3

LEMMA OccurrencesAdd ==
    ASSUME NEW rows, IsFiniteSet(rows), NEW r, r \notin rows
    PROVE  \A m : Occurrences(rows \cup {r}, m) = Occurrences(rows, m) + Same(r.media, m)
<1>. TAKE m
<1>. DEFINE S == {q \in rows : q.media = m}
            T == {q \in rows \cup {r} : q.media = m}
<1>1. IsFiniteSet(S) /\ Cardinality(S) \in Nat
  BY OccurrencesType DEF Occurrences
<1>2. CASE r.media = m
  <2>1. T = S \cup {r} /\ r \notin S
    BY <1>2
  <2>2. Cardinality(T) = Cardinality(S) + 1
    <3>. HIDE DEF S, T
    <3>. QED  BY <1>1, <2>1, FS_AddElement
  <2>. QED  BY <1>2, <2>2 DEF Occurrences, Same
<1>3. CASE r.media # m
  <2>1. T = S
    BY <1>3
  <2>2. Cardinality(T) = Cardinality(S) + 0
    <3>. HIDE DEF S, T
    <3>. QED  BY <1>1, <2>1
  <2>. QED  BY <1>3, <2>2 DEF Occurrences, Same
<1>. QED  BY <1>2, <1>3

LEMMA OccurrencesWithout ==
    ASSUME NEW rows, IsFiniteSet(rows), NEW gone \in SUBSET rows
    PROVE  \A m : Occurrences(rows \ gone, m) = Occurrences(rows, m) - Occurrences(gone, m)
<1>. TAKE m
<1>. DEFINE S == {q \in rows : q.media = m}
            G == {q \in gone : q.media = m}
            T == {q \in rows \ gone : q.media = m}
<1>1. IsFiniteSet(S) /\ T = S \ G /\ S \cap G = G
  BY OccurrencesType
<1>2. Cardinality(T) = Cardinality(S) - Cardinality(G)
  <2>. HIDE DEF S, T, G
  <2>1. Cardinality(S \ G) = Cardinality(S) - Cardinality(S \cap G)
    BY <1>1, FS_Difference
  <2>. QED  BY <1>1, <2>1
<1>. QED  BY <1>2 DEF Occurrences

-----------------------------------------------------------------------------
(* Insertions.                                                             *)

PutAt(n, s, at, m) ==
    [i \in 1..(n + 1) |-> IF i <= at THEN s[i] ELSE IF i = at + 1 THEN m ELSE s[i - 1]]

Shifted(r, at) == IF r.position >= at THEN [r EXCEPT !.position = @ + 1] ELSE r

LEMMA ShiftedRow ==
    ASSUME NEW r \in Item, NEW at \in Nat
    PROVE  /\ Shifted(r, at) \in Item /\ Shifted(r, at).media = r.media
           /\ Shifted(r, at).position =
                  IF r.position >= at THEN r.position + 1 ELSE r.position
BY DEF Shifted, Item

LEMMA InsertList ==
    ASSUME NEW rows, NEW n, NEW s, IsList(rows, n, s), NEW m \in Media, NEW at \in 0..n
    PROVE  /\ IsList(Insert(rows, m, at), n + 1, PutAt(n, s, at, m))
           /\ \A x : Occurrences(Insert(rows, m, at), x) = Occurrences(rows, x) + Same(m, x)
<1>. DEFINE new == [media |-> m, position |-> at]
            moved == {Shifted(r, at) : r \in rows}
            t == PutAt(n, s, at, m)
<1>1. Insert(rows, m, at) = moved \cup {new}
  BY DEF Insert, Shifted
<1>2. n \in Nat /\ s \in [1..n -> Media] /\ at \in Nat /\ new \in Item
  BY DEF IsList, Item
<1>3. t \in [1..(n + 1) -> Media]
  BY <1>2 DEF PutAt
<1>4. ASSUME NEW r \in rows
      PROVE  /\ Shifted(r, at) \in Item /\ Shifted(r, at).position + 1 \in 1..(n + 1)
             /\ Shifted(r, at).media = t[Shifted(r, at).position + 1]
             /\ Shifted(r, at).position # at
  <2>1. r \in Item /\ r.position \in 0..(n - 1) /\ r.media = s[r.position + 1]
    BY ListRows
  <2>2. /\ Shifted(r, at) \in Item /\ Shifted(r, at).media = r.media
        /\ Shifted(r, at).position = IF r.position >= at THEN r.position + 1 ELSE r.position
    BY <1>2, <2>1, ShiftedRow
  <2>. QED  BY <1>2, <2>1, <2>2 DEF PutAt
<1>5. new.position + 1 \in 1..(n + 1) /\ new.media = t[new.position + 1]
  BY <1>2 DEF PutAt
<1>6. \A i \in 1..(n + 1) : \E r \in moved \cup {new} : r.position = i - 1
  <2>. TAKE i \in 1..(n + 1)
  <2>1. CASE i <= at
    <3>1. i - 1 \in 0..(n - 1) /\ i - 1 < at
      BY <1>2, <2>1
    <3>2. PICK r \in rows : r.position = i - 1
      BY <3>1, ListRows
    <3>3. r \in Item
      BY ListRows
    <3>4. Shifted(r, at).position = IF r.position >= at THEN r.position + 1 ELSE r.position
      BY <1>2, <3>3, ShiftedRow
    <3>5. Shifted(r, at).position = i - 1
      BY <1>2, <3>1, <3>2, <3>4
    <3>. QED  BY <3>5
  <2>2. CASE i = at + 1
    BY <1>2, <2>2
  <2>3. CASE i > at + 1
    <3>1. i - 2 \in 0..(n - 1) /\ i - 2 >= at
      BY <1>2, <2>3
    <3>2. PICK r \in rows : r.position = i - 2
      BY <3>1, ListRows
    <3>3. r \in Item
      BY ListRows
    <3>4. Shifted(r, at).position = IF r.position >= at THEN r.position + 1 ELSE r.position
      BY <1>2, <3>3, ShiftedRow
    <3>5. Shifted(r, at).position = i - 1
      BY <1>2, <3>1, <3>2, <3>4
    <3>. QED  BY <3>5
  <2>. QED  BY <1>2, <2>1, <2>2, <2>3
<1>7. IsList(moved \cup {new}, n + 1, t)
  <2>1. \A r \in moved \cup {new} :
           r \in Item /\ r.position + 1 \in 1..(n + 1) /\ r.media = t[r.position + 1]
    BY <1>2, <1>4, <1>5
  <2>. DEFINE k == n + 1
  <2>2. k \in Nat
    BY <1>2
  <2>. HIDE DEF moved, new, t, k
  <2>3. /\ t \in [1..k -> Media]
        /\ \A r \in moved \cup {new} :
              r \in Item /\ r.position + 1 \in 1..k /\ r.media = t[r.position + 1]
        /\ \A i \in 1..k : \E r \in moved \cup {new} : r.position = i - 1
    BY <1>3, <1>6, <2>1 DEF k
  <2>4. IsList(moved \cup {new}, k, t)
    BY <2>2, <2>3, MakeList
  <2>. QED  BY <2>4 DEF k
<1>8. \A x : Occurrences(moved \cup {new}, x) = Occurrences(rows, x) + Same(m, x)
  <2>. DEFINE f == [r \in rows |-> Shifted(r, at)]
  <2>1. ASSUME NEW q \in rows, NEW r \in rows, f[q] = f[r]
        PROVE  q = r
    <3>1. q \in Item /\ r \in Item /\ q.position \in Nat /\ r.position \in Nat
      BY ListRows DEF Item
    <3>2. /\ Shifted(q, at).position = IF q.position >= at THEN q.position + 1 ELSE q.position
          /\ Shifted(r, at).position = IF r.position >= at THEN r.position + 1 ELSE r.position
          /\ Shifted(q, at) = Shifted(r, at)
      BY <1>2, <2>1, <3>1, ShiftedRow
    <3>3. q.position = r.position
      BY <1>2, <3>1, <3>2
    <3>. QED  BY <3>3, ListRows
  <2>2. \A r \in rows : f[r].media = r.media
    BY <1>2, ListRows, ShiftedRow
  <2>3. moved = {f[r] : r \in rows} /\ DOMAIN f = rows
    OBVIOUS
  <2>4. IsFiniteSet(rows)
    BY ListSize
  <2>5. IsFiniteSet(moved) /\ \A x : Occurrences(moved, x) = Occurrences(rows, x)
    <3>. HIDE DEF f, moved
    <3>. QED  BY <2>1, <2>2, <2>3, <2>4, OccurrencesMoved
  <2>6. new \notin moved /\ new.media = m
    BY <1>4
  <2>. HIDE DEF moved, new
  <2>. QED  BY <2>5, <2>6, OccurrencesAdd
<1>. QED  BY <1>1, <1>7, <1>8

-----------------------------------------------------------------------------
(* Deletions.                                                              *)

Rank(gone, r) == r.position - Cardinality({g \in gone : g.position < r.position})
MovedUp(gone, r) ==
    [r EXCEPT !.position = @ - Cardinality({g \in gone : g.position < r.position})]

\* A row that stays moves to its place among those that stay.
LEMMA RankIsPlace ==
    ASSUME NEW rows, NEW n, NEW s, IsList(rows, n, s), NEW gone \in SUBSET rows,
           NEW r \in rows \ gone
    PROVE  /\ Rank(gone, r) = Place(rows \ gone, r) /\ Rank(gone, r) \in Nat
           /\ MovedUp(gone, r) \in Item /\ MovedUp(gone, r).media = r.media
           /\ MovedUp(gone, r).position = Rank(gone, r)
<1>. DEFINE before == {q \in rows : q.position < r.position}
            kept == {q \in rows \ gone : q.position < r.position}
            left == {g \in gone : g.position < r.position}
<1>1. r \in Item /\ IsFiniteSet(rows) /\ Cardinality(before) = r.position
  BY ListRows, ListSize, ListPlace DEF Place
<1>2. IsFiniteSet(before) /\ IsFiniteSet(kept)
  <2>1. before \in SUBSET rows /\ kept \in SUBSET rows
    OBVIOUS
  <2>. HIDE DEF before, kept
  <2>. QED  BY <1>1, <2>1, FS_Subset
<1>3. before \ gone = kept /\ before \cap gone = left
  OBVIOUS
<1>4. Cardinality(kept) = r.position - Cardinality(left) /\ Cardinality(kept) \in Nat
  <2>. HIDE DEF before, kept, left
  <2>1. Cardinality(before \ gone) = Cardinality(before) - Cardinality(before \cap gone)
    BY <1>2, FS_Difference
  <2>2. Cardinality(kept) \in Nat
    BY <1>2, FS_CardinalityType
  <2>. QED  BY <1>1, <1>3, <2>1, <2>2
<1>5. Rank(gone, r) = Place(rows \ gone, r) /\ Rank(gone, r) \in Nat
  BY <1>4 DEF Rank, Place
<1>6. MovedUp(gone, r) = [r EXCEPT !.position = Rank(gone, r)]
  BY <1>1 DEF MovedUp, Rank, Item
<1>. QED  BY <1>1, <1>5, <1>6 DEF Item

LEMMA RankGrows ==
    ASSUME NEW rows, IsFiniteSet(rows), rows \subseteq Item, NEW q \in rows, NEW r \in rows
    PROVE  /\ q.position < r.position => Place(rows, q) < Place(rows, r)
           /\ Place(rows, r) \in 0..(Cardinality(rows) - 1)
<1>. DEFINE B(x) == {y \in rows : y.position < x.position}
<1>1. ASSUME NEW x \in rows, NEW S \in SUBSET rows, x \in S, B(x) \subseteq S
      PROVE  Cardinality(B(x)) < Cardinality(S) /\ Cardinality(B(x)) \in Nat
             /\ Cardinality(S) \in Nat
  <2>1. x.position \in Nat /\ x \notin B(x)
    BY DEF Item
  <2>2. IsFiniteSet(S) /\ IsFiniteSet(B(x))
    <3>1. B(x) \in SUBSET rows
      OBVIOUS
    <3>. HIDE DEF B
    <3>. QED  BY <3>1, FS_Subset
  <2>. HIDE DEF B
  <2>3. B(x) \in SUBSET S /\ S # B(x)
    BY <1>1, <2>1
  <2>4. Cardinality(B(x)) <= Cardinality(S) /\ Cardinality(S) # Cardinality(B(x))
    BY <2>2, <2>3, FS_Subset
  <2>5. Cardinality(B(x)) \in Nat /\ Cardinality(S) \in Nat
    BY <2>2, FS_CardinalityType
  <2>. QED  BY <2>4, <2>5
<1>2. ASSUME q.position < r.position
      PROVE  Place(rows, q) < Place(rows, r)
  <2>1. q \in B(r) /\ B(q) \subseteq B(r) /\ B(r) \in SUBSET rows
    BY <1>2 DEF Item
  <2>. HIDE DEF B
  <2>2. Cardinality(B(q)) < Cardinality(B(r))
    BY <1>1, <2>1
  <2>. QED  BY <2>2 DEF Place, B
<1>3. Place(rows, r) \in 0..(Cardinality(rows) - 1)
  <2>1. B(r) \subseteq rows /\ rows \in SUBSET rows
    OBVIOUS
  <2>. HIDE DEF B
  <2>2. Cardinality(B(r)) < Cardinality(rows) /\ Cardinality(B(r)) \in Nat
        /\ Cardinality(rows) \in Nat
    BY <1>1, <2>1
  <2>3. Place(rows, r) = Cardinality(B(r))
    BY DEF Place, B
  <2>. QED  BY <2>2, <2>3
<1>. QED  BY <1>2, <1>3

LEMMA DeleteList ==
    ASSUME NEW rows, NEW n, NEW s, IsList(rows, n, s), NEW gone \in SUBSET rows
    PROVE  /\ \E t : IsList(DeleteRows(rows, gone), Cardinality(rows \ gone), t)
           /\ \A m : Occurrences(DeleteRows(rows, gone), m)
                         = Occurrences(rows, m) - Occurrences(gone, m)
<1>. DEFINE kept == rows \ gone
            f == [r \in kept |-> MovedUp(gone, r)]
            k == Cardinality(kept)
            new == {f[r] : r \in kept}
<1>1. IsFiniteSet(rows) /\ rows \subseteq Item
  BY ListSize, ListRows
<1>2. IsFiniteSet(kept) /\ kept \subseteq Item /\ k \in Nat
  BY <1>1, FS_Subset, FS_CardinalityType
<1>3. \A r \in kept : /\ f[r] \in Item /\ f[r].media = r.media
                      /\ f[r].position = Place(kept, r)
  BY RankIsPlace
<1>4. \A r \in kept : Place(kept, r) \in 0..(k - 1)
  <2>. HIDE DEF kept
  <2>. QED  BY <1>2, RankGrows
<1>5. ASSUME NEW q \in kept, NEW r \in kept, Place(kept, q) = Place(kept, r)
      PROVE  q = r
  <2>1. /\ q.position < r.position => Place(kept, q) < Place(kept, r)
        /\ r.position < q.position => Place(kept, r) < Place(kept, q)
    <3>. HIDE DEF kept
    <3>. QED  BY <1>2, RankGrows
  <2>2. q.position \in Nat /\ r.position \in Nat
    BY <1>2 DEF Item
  <2>3. Place(kept, q) \in Int /\ Place(kept, r) \in Int
    BY <1>4
  <2>4. q.position = r.position
    BY <1>5, <2>1, <2>2, <2>3
  <2>. QED  BY <2>4, ListRows
<1>6. DeleteRows(rows, gone) = new
  BY DEF DeleteRows, MovedUp
<1>7. \A q, r \in kept : f[q] = f[r] => q = r
  <2>. HIDE DEF f
  <2>. QED  BY <1>3, <1>5
<1>8. IsFiniteSet(new) /\ \A m : Occurrences(new, m) = Occurrences(kept, m)
  <2>1. DOMAIN f = kept
    OBVIOUS
  <2>. HIDE DEF f, kept
  <2>. QED  BY <1>2, <1>3, <1>7, <2>1, OccurrencesMoved
<1>9. \A i \in 0..(k - 1) : \E r \in kept : Place(kept, r) = i
  <2>. DEFINE g == [r \in kept |-> Place(kept, r)]
              I == 0..(k - 1)
  <2>1. g \in [kept -> I]
    <3>. HIDE DEF k, kept
    <3>. QED  BY <1>4
  <2>2. g \in Injection(kept, I)
    <3>. HIDE DEF I, kept
    <3>. QED  BY <1>5, <2>1 DEF Injection, IsInjective
  <2>3. IsFiniteSet(I) /\ Cardinality(I) = k
    <3>. HIDE DEF kept
    <3>1. k \in Int /\ k >= 0 /\ 0 \in Int /\ k - 1 \in Int
      BY <1>2
    <3>. HIDE DEF k
    <3>2. /\ IsFiniteSet(0..(k - 1))
          /\ Cardinality(0..(k - 1)) = IF 0 > k - 1 THEN 0 ELSE (k - 1) - 0 + 1
      BY <3>1, FS_Interval
    <3>. QED  BY <3>1, <3>2
  <2>4. g \in Surjection(kept, I)
    <3>. HIDE DEF g, I
    <3>. QED  BY <2>2, <2>3, FS_Injection
  <2>. QED  BY <2>4 DEF Surjection
<1>. DEFINE t == [i \in 1..k |-> (CHOOSE r \in kept : Place(kept, r) = i - 1).media]
<1>10. t \in [1..k -> Media] /\ \A r \in kept : r.media = t[Place(kept, r) + 1]
  <2>. HIDE DEF k, kept
  <2>1. ASSUME NEW i \in 1..k
        PROVE  (CHOOSE r \in kept : Place(kept, r) = i - 1).media \in Media
    <3>1. i - 1 \in 0..(k - 1)
      BY <1>2
    <3>2. \E r \in kept : Place(kept, r) = i - 1
      BY <1>9, <3>1
    <3>. QED  BY <1>2, <3>2 DEF Item
  <2>2. ASSUME NEW r \in kept
        PROVE  r.media = t[Place(kept, r) + 1]
    <3>1. Place(kept, r) + 1 \in 1..k /\ (Place(kept, r) + 1) - 1 = Place(kept, r)
      BY <1>2, <1>4
    <3>2. (CHOOSE q \in kept : Place(kept, q) = Place(kept, r)) = r
      BY <1>5
    <3>3. t[Place(kept, r) + 1]
              = (CHOOSE q \in kept : Place(kept, q) = (Place(kept, r) + 1) - 1).media
      BY <3>1
    <3>. QED  BY <3>1, <3>2, <3>3
  <2>. QED  BY <2>1, <2>2
<1>11. IsList(new, k, t)
  <2>1. \A r \in new : r \in Item /\ r.position + 1 \in 1..k /\ r.media = t[r.position + 1]
    <3>. HIDE DEF f, t, k, kept
    <3>1. \A r \in kept : Place(kept, r) + 1 \in 1..k
      BY <1>2, <1>4
    <3>. QED  BY <1>3, <1>10, <3>1
  <2>2. \A i \in 1..k : \E r \in new : r.position = i - 1
    <3>. TAKE i \in 1..k
    <3>. HIDE DEF f, t, k, kept
    <3>1. i - 1 \in 0..(k - 1)
      BY <1>2
    <3>2. PICK r \in kept : Place(kept, r) = i - 1
      BY <1>9, <3>1
    <3>. QED  BY <1>3, <3>2
  <2>. HIDE DEF f, t, k, kept, new
  <2>. QED  BY <1>2, <1>10, <2>1, <2>2, MakeList
<1>. QED  BY <1>1, <1>6, <1>8, <1>11, OccurrencesWithout

\* The rows at the positions from..to-1.
Between(rows, from, to) == {r \in rows : r.position >= from /\ r.position < to}
Skip(n, s, from, to) ==
    [i \in 1..(n - (to - from)) |-> IF i <= from THEN s[i] ELSE s[i + (to - from)]]

LEMMA RangeSize ==
    ASSUME NEW rows, NEW n, NEW s, IsList(rows, n, s),
           NEW from \in Nat, NEW to \in Nat, from <= to, to <= n
    PROVE  Cardinality(Between(rows, from, to)) = to - from
<1>. DEFINE T == Between(rows, from, to)
            I == from..(to - 1)
            g == [r \in T |-> r.position]
<1>1. \A r \in rows : r.position \in Nat
  BY ListRows DEF Item
<1>2. g \in [T -> I]
  BY <1>1 DEF Between
<1>3. g \in Injection(T, I)
  <2>1. \A q, r \in T : g[q] = g[r] => q = r
    BY ListRows DEF Between
  <2>. HIDE DEF g, T, I
  <2>. QED  BY <1>2, <2>1 DEF Injection, IsInjective
<1>4. g \in Surjection(T, I)
  <2>1. \A i \in I : \E r \in T : g[r] = i
    <3>. TAKE i \in I
    <3>1. i \in 0..(n - 1) /\ i >= from /\ i < to
      BY DEF IsList
    <3>2. PICK r \in rows : r.position = i
      BY <3>1, ListRows
    <3>. QED  BY <3>1, <3>2 DEF Between
  <2>. HIDE DEF g, T, I
  <2>. QED  BY <1>2, <2>1 DEF Surjection
<1>5. IsFiniteSet(T) /\ IsFiniteSet(I)
  <2>1. T \in SUBSET rows /\ IsFiniteSet(rows)
    BY ListSize DEF Between
  <2>. HIDE DEF T
  <2>. QED  BY <2>1, FS_Subset, FS_Interval
<1>6. Cardinality(I) = Cardinality(T)
  <2>1. ExistsBijection(T, I)
    BY <1>3, <1>4 DEF ExistsBijection, Bijection
  <2>. HIDE DEF T, I
  <2>. QED  BY <1>5, <2>1, FS_Bijection
<1>7. Cardinality(I) = to - from
  <2>1. from \in Int /\ to - 1 \in Int
    OBVIOUS
  <2>2. Cardinality(from..(to - 1)) = IF from > to - 1 THEN 0 ELSE (to - 1) - from + 1
    BY <2>1, FS_Interval
  <2>. QED  BY <2>2
<1>. QED  BY <1>6, <1>7

LEMMA RangeList ==
    ASSUME NEW rows, NEW n, NEW s, IsList(rows, n, s),
           NEW from \in Nat, NEW to \in Nat, from <= to, to <= n
    PROVE  IsList(DeleteRows(rows, Between(rows, from, to)), n - (to - from), Skip(n, s, from, to))
<1>. DEFINE gone == Between(rows, from, to)
            left(r) == {g \in gone : g.position < r.position}
            new == {MovedUp(gone, r) : r \in rows \ gone}
            k == n - (to - from)
            t == Skip(n, s, from, to)
<1>1. n \in Nat /\ k \in Nat /\ s \in [1..n -> Media]
  BY DEF IsList
<1>2. t \in [1..k -> Media]
  BY <1>1 DEF Skip
<1>3. \A r \in rows : r \in Item /\ r.position \in 0..(n - 1) /\ r.media = s[r.position + 1]
  BY ListRows
<1>4. gone \in SUBSET rows /\ Cardinality(gone) = to - from
  BY RangeSize DEF Between
<1>5. ASSUME NEW r \in rows \ gone
      PROVE  /\ r.position < from \/ r.position >= to
             /\ Rank(gone, r) = IF r.position < from THEN r.position
                                ELSE r.position - (to - from)
  <2>1. r.position < from \/ r.position >= to
    BY <1>3 DEF Between
  <2>2. CASE r.position < from
    <3>1. left(r) = {}
      BY <1>3, <2>2 DEF Between
    <3>2. Cardinality(left(r)) = 0
      <4>. HIDE DEF left
      <4>. QED  BY <3>1, FS_EmptySet
    <3>. QED  BY <1>3, <2>2, <3>2 DEF Rank
  <2>3. CASE r.position >= to
    <3>1. left(r) = gone
      BY <1>3, <2>3 DEF Between
    <3>2. Cardinality(left(r)) = to - from
      <4>. HIDE DEF left, gone
      <4>. QED  BY <1>4, <3>1
    <3>. QED  BY <1>3, <2>3, <3>2 DEF Rank
  <2>. QED  BY <2>1, <2>2, <2>3
<1>6. DeleteRows(rows, gone) = new
  BY DEF DeleteRows, MovedUp
<1>7. ASSUME NEW r \in rows \ gone
      PROVE  LET q == MovedUp(gone, r)
             IN  q \in Item /\ q.position + 1 \in 1..k /\ q.media = t[q.position + 1]
  <2>. DEFINE q == MovedUp(gone, r)
  <2>1. q \in Item /\ q.media = r.media /\ q.position = Rank(gone, r)
    BY <1>4, RankIsPlace
  <2>2. /\ r.position < from \/ r.position >= to
        /\ q.position = IF r.position < from THEN r.position ELSE r.position - (to - from)
    BY <1>5, <2>1
  <2>3. r.position \in 0..(n - 1) /\ r.media = s[r.position + 1]
    BY <1>3
  <2>. HIDE DEF q, gone
  <2>4. q.position + 1 \in 1..k
    BY <1>1, <2>2, <2>3
  <2>5. t[q.position + 1] = s[r.position + 1]
    <3>1. t[q.position + 1] = IF q.position + 1 <= from THEN s[q.position + 1]
                              ELSE s[(q.position + 1) + (to - from)]
      BY <2>4 DEF Skip
    <3>2. CASE r.position < from
      BY <2>2, <2>3, <3>1, <3>2
    <3>3. CASE r.position >= to
      <4>1. ~(q.position + 1 <= from) /\ (q.position + 1) + (to - from) = r.position + 1
        BY <2>2, <2>3, <3>3
      <4>. QED  BY <3>1, <4>1
    <3>. QED  BY <2>2, <3>2, <3>3
  <2>6. q \in Item /\ q.position + 1 \in 1..k /\ q.media = t[q.position + 1]
    BY <2>1, <2>3, <2>4, <2>5
  <2>. QED  BY <2>6 DEF q, gone
<1>8. \A i \in 1..k : \E q \in new : q.position = i - 1
  <2>. TAKE i \in 1..k
  <2>. DEFINE j == IF i <= from THEN i - 1 ELSE i - 1 + (to - from)
  <2>1. j \in 0..(n - 1) /\ (j < from \/ j >= to)
        /\ i - 1 = IF j < from THEN j ELSE j - (to - from)
    BY <1>1
  <2>. HIDE DEF j
  <2>2. PICK r \in rows : r.position = j
    BY <2>1, ListRows
  <2>3. r \in rows \ gone
    BY <2>1, <2>2 DEF Between
  <2>4. MovedUp(gone, r).position = i - 1
    <3>1. MovedUp(gone, r).position = Rank(gone, r)
      BY <1>4, <2>3, RankIsPlace
    <3>2. Rank(gone, r) = IF j < from THEN j ELSE j - (to - from)
      BY <1>5, <2>2, <2>3
    <3>. QED  BY <2>1, <3>1, <3>2
  <2>. QED  BY <2>3, <2>4
<1>9. IsList(new, k, t)
  <2>1. \A q \in new : q \in Item /\ q.position + 1 \in 1..k /\ q.media = t[q.position + 1]
    BY <1>7
  <2>. HIDE DEF new, t, k
  <2>. QED  BY <1>1, <1>2, <1>8, <2>1, MakeList
<1>. QED  BY <1>6, <1>9

-----------------------------------------------------------------------------
(* The counters of a playlist, column by column.                           *)

Bit(b) == IF b THEN 1 ELSE 0

MediaT == [Media -> MediaRow \cup {NoRow}]

Columns == ({"nb", "present"} \X Types) \cup {<<"duration", "">>, <<"unknown", "">>}

Column(c, k) ==
    CASE k[1] = "nb" -> c.nb[k[2]]
      [] k[1] = "present" -> c.present[k[2]]
      [] k[1] = "duration" -> c.duration
      [] k[1] = "unknown" -> c.nb_duration_unknown

\* What one item of a media is worth.
UnitOf(type, is_present, duration, k) ==
    CASE k[1] = "nb" -> Bit(type = k[2])
      [] k[1] = "present" -> Bit(type = k[2] /\ is_present)
      [] k[1] = "duration" -> duration
      [] k[1] = "unknown" -> Bit(duration = 0)
Unit(row, k) ==
    IF row = NoRow THEN 0 ELSE UnitOf(row.type, row.is_present, row.duration, k)

LEMMA SameColumns ==
    ASSUME NEW b \in PlaylistRow, NEW c \in PlaylistRow,
           \A k \in Columns : Column(b, k) = Column(c, k)
    PROVE  b = c
<1>1. \A t \in Types : b.nb[t] = c.nb[t]
  <2>. TAKE t \in Types
  <2>1. <<"nb", t>> \in Columns
    BY DEF Columns
  <2>2. Column(b, <<"nb", t>>) = Column(c, <<"nb", t>>)
    BY <2>1
  <2>. QED  BY <2>2 DEF Column
<1>2. \A t \in Types : b.present[t] = c.present[t]
  <2>. TAKE t \in Types
  <2>1. <<"present", t>> \in Columns
    BY DEF Columns
  <2>2. Column(b, <<"present", t>>) = Column(c, <<"present", t>>)
    BY <2>1
  <2>. QED  BY <2>2 DEF Column
<1>3. b.duration = c.duration
  <2>1. Column(b, <<"duration", "">>) = Column(c, <<"duration", "">>)
    BY DEF Columns
  <2>. QED  BY <2>1 DEF Column
<1>4. b.nb_duration_unknown = c.nb_duration_unknown
  <2>1. Column(b, <<"unknown", "">>) = Column(c, <<"unknown", "">>)
    BY DEF Columns
  <2>. QED  BY <2>1 DEF Column
<1>5. b.nb = c.nb /\ b.present = c.present
  BY <1>1, <1>2 DEF PlaylistRow
<1>. QED  BY <1>3, <1>4, <1>5 DEF PlaylistRow

LEMMA ColumnCases ==
    ASSUME NEW k \in Columns
    PROVE  \/ \E t \in Types : k = <<"nb", t>>
           \/ \E t \in Types : k = <<"present", t>>
           \/ k = <<"duration", "">>
           \/ k = <<"unknown", "">>
<1>1. CASE k \in {"nb", "present"} \X Types
  <2>1. k = <<k[1], k[2]>> /\ k[1] \in {"nb", "present"} /\ k[2] \in Types
    BY <1>1
  <2>2. CASE k[1] = "nb"
    BY <2>1, <2>2
  <2>3. CASE k[1] = "present"
    BY <2>1, <2>3
  <2>. QED  BY <2>1, <2>2, <2>3
<1>2. CASE k \in {<<"duration", "">>, <<"unknown", "">>}
  BY <1>2
<1>. QED  BY <1>1, <1>2 DEF Columns

LEMMA PlusColumns ==
    ASSUME NEW c \in PlaylistRow, NEW a \in PlaylistRow, NEW sign \in Int
    PROVE  /\ Plus(c, a, sign) \in PlaylistRow
           /\ \A k \in Columns : /\ Column(Plus(c, a, sign), k)
                                        = Column(c, k) + sign * Column(a, k)
                                 /\ Column(c, k) \in Int
<1>1. Plus(c, a, sign) \in PlaylistRow
  BY DEF Plus, PlaylistRow
<1>2. ASSUME NEW k \in Columns
      PROVE  /\ Column(Plus(c, a, sign), k) = Column(c, k) + sign * Column(a, k)
             /\ Column(c, k) \in Int
  <2>1. CASE \E t \in Types : k = <<"nb", t>>
    BY <2>1 DEF Column, Plus, PlaylistRow
  <2>2. CASE \E t \in Types : k = <<"present", t>>
    BY <2>2 DEF Column, Plus, PlaylistRow
  <2>3. CASE k = <<"duration", "">>
    BY <2>3 DEF Column, Plus, PlaylistRow
  <2>4. CASE k = <<"unknown", "">>
    BY <2>4 DEF Column, Plus, PlaylistRow
  <2>. QED  BY <2>1, <2>2, <2>3, <2>4, ColumnCases
<1>. QED  BY <1>1, <1>2

LEMMA ShareColumns ==
    ASSUME NEW row \in MediaRow, NEW n \in Int
    PROVE  /\ Share(row, n) \in PlaylistRow
           /\ \A k \in Columns : Column(Share(row, n), k) = n * Unit(row, k)
<1>0. row.duration \in Nat /\ row # NoRow
  BY Constants DEF MediaRow
<1>1. Share(row, n) \in PlaylistRow
  BY <1>0 DEF Share, PlaylistRow
<1>2. ASSUME NEW k \in Columns
      PROVE  Column(Share(row, n), k) = n * Unit(row, k)
  <2>1. CASE \E t \in Types : k = <<"nb", t>>
    BY <1>0, <2>1 DEF Column, Share, Unit, UnitOf, Bit
  <2>2. CASE \E t \in Types : k = <<"present", t>>
    BY <1>0, <2>2 DEF Column, Share, Unit, UnitOf, Bit
  <2>3. CASE k = <<"duration", "">>
    BY <1>0, <2>3 DEF Column, Share, Unit, UnitOf
  <2>4. CASE k = <<"unknown", "">>
    <3>1. /\ Column(Share(row, n), k) = IF row.duration = 0 THEN n ELSE 0
          /\ Unit(row, k) = Bit(row.duration = 0)
      BY <1>0, <2>4 DEF Column, Share, Unit, UnitOf
    <3>2. CASE row.duration = 0
      BY <3>1, <3>2 DEF Bit
    <3>3. CASE row.duration # 0
      BY <3>1, <3>3 DEF Bit
    <3>. QED  BY <3>2, <3>3
  <2>. QED  BY <2>1, <2>2, <2>3, <2>4, ColumnCases
<1>. QED  BY <1>1, <1>2

LEMMA UnitType ==
    ASSUME NEW row \in MediaRow \cup {NoRow}, NEW k \in Columns
    PROVE  Unit(row, k) \in Nat
<1>1. row # NoRow => row.duration \in Nat
  BY Constants DEF MediaRow
<1>2. CASE \E t \in Types : k = <<"nb", t>>
  BY <1>2 DEF Unit, UnitOf, Bit
<1>3. CASE \E t \in Types : k = <<"present", t>>
  BY <1>3 DEF Unit, UnitOf, Bit
<1>4. CASE k = <<"duration", "">>
  BY <1>1, <1>4 DEF Unit, UnitOf
<1>5. CASE k = <<"unknown", "">>
  BY <1>5 DEF Unit, UnitOf, Bit
<1>. QED  BY <1>2, <1>3, <1>4, <1>5, ColumnCases

-----------------------------------------------------------------------------
(* Counters as sums over the media.                                        *)

Times(rows, occ, k) == [m \in Media |-> occ[m] * Unit(rows[m], k)]
Worth(rows, occ, k) == Sum(Times(rows, occ, k), Media)

\* Counters that count so many items of each media.
Counted(c, rows, occ) ==
    c \in PlaylistRow /\ \A k \in Columns : Column(c, k) = Worth(rows, occ, k)

Occ(its) == [m \in Media |-> Occurrences(its, m)]

LEMMA TimesType ==
    ASSUME NEW rows \in MediaT, NEW occ \in [Media -> Int], NEW k \in Columns
    PROVE  Times(rows, occ, k) \in [Media -> Int]
<1>1. \A m \in Media : Unit(rows[m], k) \in Int
  BY UnitType DEF MediaT
<1>. QED  BY <1>1 DEF Times

LEMMA CountedOnce ==
    ASSUME NEW b, NEW c, NEW rows, NEW occ, Counted(b, rows, occ), Counted(c, rows, occ)
    PROVE  b = c
BY SameColumns DEF Counted

\* Counters of nothing.
LEMMA CountedEmpty ==
    ASSUME NEW rows \in MediaT, NEW occ, \A m \in Media : occ[m] = 0
    PROVE  Counted(Empty, rows, occ)
<1>1. Empty \in PlaylistRow /\ \A k \in Columns : Column(Empty, k) = 0
  <2>1. Empty \in PlaylistRow
    BY DEF Empty, PlaylistRow
  <2>2. ASSUME NEW k \in Columns
        PROVE  Column(Empty, k) = 0
    <3>1. CASE \E t \in Types : k = <<"nb", t>>
      BY <3>1 DEF Column, Empty
    <3>2. CASE \E t \in Types : k = <<"present", t>>
      BY <3>2 DEF Column, Empty
    <3>3. CASE k = <<"duration", "">>
      BY <3>3 DEF Column, Empty
    <3>4. CASE k = <<"unknown", "">>
      BY <3>4 DEF Column, Empty
    <3>. QED  BY <3>1, <3>2, <3>3, <3>4, ColumnCases
  <2>. QED  BY <2>1, <2>2
<1>2. ASSUME NEW k \in Columns
      PROVE  Worth(rows, occ, k) = 0
  <2>. DEFINE w == Times(rows, occ, k)
  <2>1. \A m \in Media : w[m] = 0
    BY UnitType DEF Times, MediaT
  <2>. HIDE DEF w
  <2>2. Sum(w, Media) = 0
    BY <2>1, Constants, SumZero
  <2>. QED  BY <2>2 DEF Worth, w
<1>. QED  BY <1>1, <1>2 DEF Counted

LEMMA Distributes ==
    /\ \A a, j, u \in Int : (a + 1 * j) * u = a * u + 1 * (j * u)
    /\ \A a, j, u \in Int : (a + -1 * j) * u = a * u + -1 * (j * u)
    /\ \A a, j \in Int : a * j \in Int
OBVIOUS

\* Some items of a media are added, or taken away.
LEMMA CountedPlus ==
    ASSUME NEW c, NEW rows \in MediaT, NEW occ \in [Media -> Int], Counted(c, rows, occ),
           NEW m \in Media, rows[m] # NoRow, NEW j \in Int, NEW sign \in {1, -1},
           NEW occ2 \in [Media -> Int], occ2[m] = occ[m] + sign * j,
           \A n \in Media \ {m} : occ2[n] = occ[n]
    PROVE  Counted(Plus(c, Share(rows[m], j), sign), rows, occ2)
<1>. DEFINE a == Share(rows[m], j)
<1>1. rows[m] \in MediaRow /\ c \in PlaylistRow /\ sign \in Int
  BY DEF MediaT, Counted
<1>2. a \in PlaylistRow /\ \A k \in Columns : Column(a, k) = j * Unit(rows[m], k)
  BY <1>1, ShareColumns
<1>3. /\ Plus(c, a, sign) \in PlaylistRow
      /\ \A k \in Columns : Column(Plus(c, a, sign), k) = Column(c, k) + sign * Column(a, k)
  BY <1>1, <1>2, PlusColumns
<1>5. ASSUME NEW k \in Columns
      PROVE  Column(Plus(c, a, sign), k) = Worth(rows, occ2, k)
  <2>. DEFINE w1 == Times(rows, occ, k)
              w2 == Times(rows, occ2, k)
              u == Unit(rows[m], k)
  <2>1. w1 \in [Media -> Int] /\ w2 \in [Media -> Int]
    BY TimesType
  <2>2. \A n \in Media \ {m} : w1[n] = w2[n]
    BY DEF Times
  <2>3. w1[m] = occ[m] * u /\ w2[m] = (occ[m] + sign * j) * u
    BY DEF Times
  <2>4. u \in Int /\ occ[m] \in Int
    BY UnitType DEF MediaT
  <2>. HIDE DEF w1, w2, u
  <2>5. w2[m] = w1[m] + sign * (j * u) /\ j * u \in Int
    <3>1. CASE sign = 1
      BY <2>3, <2>4, <3>1, Distributes
    <3>2. CASE sign = -1
      BY <2>3, <2>4, <3>2, Distributes
    <3>. QED  BY <3>1, <3>2
  <2>6. Sum(w2, Media) = Sum(w1, Media) - w1[m] + w2[m]
    BY <2>1, <2>2, Constants, SumChange
  <2>7. Sum(w1, Media) \in Int
    BY <2>1, Constants, SumType
  <2>8. Sum(w2, Media) = Sum(w1, Media) + sign * (j * u)
    <3>1. w1[m] \in Int /\ sign * (j * u) \in Int
      BY <2>1, <2>5
    <3>. DEFINE v == sign * (j * u)
    <3>. HIDE DEF v
    <3>2. v \in Int /\ w2[m] = w1[m] + v
      BY <2>5, <3>1 DEF v
    <3>3. Sum(w2, Media) = Sum(w1, Media) + v
      BY <2>6, <2>7, <3>1, <3>2
    <3>. QED  BY <3>3 DEF v
  <2>9. Column(c, k) = Sum(w1, Media) /\ Column(a, k) = j * u
    BY <1>2 DEF Counted, Worth, w1, u
  <2>10. Column(Plus(c, a, sign), k) = Sum(w2, Media)
    BY <1>3, <2>8, <2>9
  <2>. QED  BY <2>10 DEF Worth, w2
<1>. QED  BY <1>3, <1>5 DEF Counted

LEMMA OccType ==
    ASSUME NEW its, IsFiniteSet(its)
    PROVE  Occ(its) \in [Media -> Int] /\ \A m \in Media : Occ(its)[m] = Occurrences(its, m)
<1>1. ASSUME NEW m
      PROVE  Occurrences(its, m) \in Int
  <2>1. Occurrences(its, m) \in Nat
    BY OccurrencesType
  <2>. QED  BY <2>1
<1>. QED  BY <1>1 DEF Occ

\* The counters a scan of the rows computes.
LEMMA AccumulatorCounted ==
    ASSUME NEW d, d.media \in MediaT, NEW its, IsFiniteSet(its),
           \A r \in its : r.media \in Media /\ d.media[r.media] # NoRow
    PROVE  Counted(CounterAccumulator(d, its), d.media, Occ(its))
<1>. DEFINE k == TotalKind(d.media)
            Good(s) == Counted(Fold(k, Empty, s), d.media, Occ(s))
            Bad == {s \in SUBSET its : ~Good(s)}
<1>1. Bad = {}
  <2>. SUFFICES ASSUME Bad # {} PROVE FALSE
    OBVIOUS
  <2>1. PICK s \in Bad : \A u \in Bad : u \subseteq s => u = s
    <3>1. Bad \in SUBSET (SUBSET its)
      OBVIOUS
    <3>. HIDE DEF Bad
    <3>. QED  BY <3>1, MinimalSubset
  <2>2. s \in SUBSET its /\ ~Good(s) /\ \A u \in SUBSET s : u # s => Good(u)
    BY <2>1
  <2>3. IsFiniteSet(s) /\ Foldable(k, s)
    BY <2>2, FS_Subset DEF Foldable, TotalKind
  <2>. HIDE DEF Good, k
  <2>4. Unfolds(k, Empty, s)
    BY <2>3, FoldUnfolds
  <2>5. CASE s = {}
    <3>1. Fold(k, Empty, s) = Empty
      BY <2>4, <2>5 DEF Unfolds
    <3>2. \A m \in Media : Occ(s)[m] = 0
      BY <2>3, <2>5, OccType, OccurrencesType
    <3>. QED  BY <2>2, <3>1, <3>2, CountedEmpty DEF Good
  <2>6. CASE s # {}
    <3>. DEFINE x == Pick(k, s)
                u == s \ {x}
                m == x.media
    <3>1. x \in s /\ Rest(k, s) = u
      BY <2>3, <2>6, Picked DEF Rest
    <3>2. Fold(k, Empty, s) = Plus(Fold(k, Empty, u), Share(d.media[m], 1), 1)
      <4>1. \A y, acc : Step(k, y, acc) = Plus(acc, Share(d.media[y.media], 1), 1)
        BY DEF Step, TotalKind, k
      <4>. QED  BY <2>4, <2>6, <3>1, <4>1 DEF Unfolds
    <3>. HIDE DEF x
    <3>3. Good(u) /\ u \in SUBSET s /\ IsFiniteSet(u) /\ s = u \cup {x} /\ x \notin u
      BY <2>2, <2>3, <3>1, FS_Subset
    <3>. HIDE DEF u
    <3>4. m \in Media /\ d.media[m] # NoRow
      BY <2>2, <3>1
    <3>5. /\ Occ(u) \in [Media -> Int] /\ Occ(s) \in [Media -> Int]
          /\ Occ(s)[m] = Occ(u)[m] + 1 * 1
          /\ \A n \in Media \ {m} : Occ(s)[n] = Occ(u)[n]
      <4>1. \A n \in Media : Occurrences(s, n) = Occurrences(u, n) + Same(m, n)
        BY <3>3, OccurrencesAdd
      <4>2. \A n \in Media : Occurrences(u, n) \in Nat
        BY <3>3, OccurrencesType
      <4>3. Occ(u) \in [Media -> Int] /\ Occ(s) \in [Media -> Int]
        BY <2>3, <3>3, OccType
      <4>. HIDE DEF m
      <4>. QED  BY <3>4, <4>1, <4>2, <4>3 DEF Occ, Same
    <3>6. Counted(Plus(Fold(k, Empty, u), Share(d.media[m], 1), 1), d.media, Occ(s))
      <4>. HIDE DEF m
      <4>1. Counted(Fold(k, Empty, u), d.media, Occ(u))
        BY <3>3 DEF Good
      <4>2. d.media[m] # NoRow /\ m \in Media
        BY <3>4
      <4>. DEFINE c == Fold(k, Empty, u)
                  rows == d.media
                  occ == Occ(u)
                  occ2 == Occ(s)
      <4>. HIDE DEF c, rows, occ, occ2
      <4>3. /\ rows \in MediaT /\ rows[m] # NoRow /\ Counted(c, rows, occ)
            /\ occ \in [Media -> Int] /\ occ2 \in [Media -> Int]
            /\ occ2[m] = occ[m] + 1 * 1 /\ \A n \in Media \ {m} : occ2[n] = occ[n]
        BY <3>5, <4>1, <4>2 DEF c, rows, occ, occ2
      <4>4. 1 \in Int /\ 1 \in {1, -1}
        OBVIOUS
      <4>5. Counted(Plus(c, Share(rows[m], 1), 1), rows, occ2)
        BY <4>2, <4>3, <4>4, CountedPlus, Zenon
      <4>. QED  BY <4>5 DEF c, rows, occ2
    <3>. QED  BY <2>2, <3>2, <3>6 DEF Good
  <2>. QED  BY <2>5, <2>6
<1>2. Good(its)
  BY <1>1
<1>. QED  BY <1>2, AccumulatorFold

\* What counts, of a media, is worth the same.
LEMMA WorthSame ==
    ASSUME NEW rows1 \in MediaT, NEW rows2 \in MediaT,
           NEW occ1 \in [Media -> Int], NEW occ2 \in [Media -> Int], NEW k \in Columns,
           \A m \in Media : occ1[m] * Unit(rows1[m], k) = occ2[m] * Unit(rows2[m], k)
    PROVE  Worth(rows1, occ1, k) = Worth(rows2, occ2, k)
<1>1. \A m \in Media : Times(rows1, occ1, k)[m] = Times(rows2, occ2, k)[m]
  BY DEF Times
<1>2. \A m \in Media : Times(rows2, occ2, k)[m] \in Int
  BY TimesType
<1>. QED  BY <1>1, <1>2, Constants, SumSame DEF Worth

\* One media changes.
LEMMA WorthChange ==
    ASSUME NEW rows1 \in MediaT, NEW rows2 \in MediaT, NEW occ \in [Media -> Int],
           NEW k \in Columns, NEW m \in Media, \A n \in Media \ {m} : rows1[n] = rows2[n]
    PROVE  Worth(rows2, occ, k) = Worth(rows1, occ, k) - occ[m] * Unit(rows1[m], k)
                                                       + occ[m] * Unit(rows2[m], k)
<1>. DEFINE w1 == Times(rows1, occ, k)
            w2 == Times(rows2, occ, k)
<1>1. w1 \in [Media -> Int] /\ w2 \in [Media -> Int]
  BY TimesType
<1>2. \A n \in Media \ {m} : w1[n] = w2[n]
  BY DEF Times
<1>3. w1[m] = occ[m] * Unit(rows1[m], k) /\ w2[m] = occ[m] * Unit(rows2[m], k)
  BY DEF Times
<1>. HIDE DEF w1, w2
<1>4. Sum(w2, Media) = Sum(w1, Media) - w1[m] + w2[m]
  BY <1>1, <1>2, Constants, SumChange
<1>. QED  BY <1>3, <1>4 DEF Worth, w1, w2

-----------------------------------------------------------------------------
(* The database, step by step of an edit.                                  *)

PlaylistsT == [Playlists -> PlaylistRow \cup {NoRow}]
ItemsT == [Playlists -> SUBSET Item]
DbT == [media : MediaT, playlists : PlaylistsT, items : ItemsT]

Dense(rows) == \E n, s : IsList(rows, n, s)

\* What holds before and after every statement, whatever the counters.
Sound(d) ==
    /\ d \in DbT
    /\ \A p \in Playlists : Dense(d.items[p])
    /\ \A m \in Media : Exists(d, m) => d.media[m].nb_playlists = InPlaylists(d.items, m)

\* The same media but for the numbers of their playlists.
SameMedia(a, b) ==
    \A m \in Media : /\ a[m] = NoRow <=> b[m] = NoRow
                     /\ a[m] # NoRow => /\ b[m].type = a[m].type
                                        /\ b[m].is_present = a[m].is_present
                                        /\ b[m].duration = a[m].duration

LEMMA SameMediaChain ==
    ASSUME NEW a, NEW b, NEW c, SameMedia(a, b), SameMedia(b, c)
    PROVE  SameMedia(a, c)
BY DEF SameMedia

LEMMA SameUnits ==
    ASSUME NEW a, NEW b, SameMedia(a, b), NEW m \in Media, NEW k
    PROVE  Unit(a[m], k) = Unit(b[m], k)
<1>1. CASE a[m] = NoRow
  BY <1>1 DEF SameMedia, Unit
<1>2. CASE a[m] # NoRow
  <2>1. /\ b[m] # NoRow /\ b[m].type = a[m].type /\ b[m].is_present = a[m].is_present
        /\ b[m].duration = a[m].duration
    BY <1>2 DEF SameMedia
  <2>. QED  BY <1>2, <2>1 DEF Unit
<1>. QED  BY <1>1, <1>2

LEMMA SameCounted ==
    ASSUME NEW c, NEW a \in MediaT, NEW b \in MediaT, SameMedia(a, b),
           NEW occ \in [Media -> Int], Counted(c, a, occ)
    PROVE  Counted(c, b, occ)
<1>1. ASSUME NEW k \in Columns
      PROVE  Worth(a, occ, k) = Worth(b, occ, k)
  <2>1. \A m \in Media : occ[m] * Unit(a[m], k) = occ[m] * Unit(b[m], k)
    BY SameUnits
  <2>. QED  BY <2>1, WorthSame
<1>. QED  BY <1>1 DEF Counted

LEMMA DenseFinite ==
    ASSUME NEW rows, Dense(rows)
    PROVE  IsFiniteSet(rows) /\ rows \subseteq Item
BY ListSize, ListRows DEF Dense

LEMMA PlacesType ==
    ASSUME NEW its, \A p \in Playlists : IsFiniteSet(its[p]), NEW m
    PROVE  /\ InPlaylists(its, m) \in Nat
           /\ \A p \in Playlists : Occurrences(its[p], m) <= InPlaylists(its, m)
<1>. DEFINE w == [p \in Playlists |-> Occurrences(its[p], m)]
<1>1. ASSUME NEW p \in Playlists
      PROVE  w[p] \in Nat
  BY OccurrencesType
<1>. HIDE DEF w
<1>2. Sum(w, Playlists) \in Nat /\ \A p \in Playlists : w[p] <= Sum(w, Playlists)
  BY <1>1, Constants, SumNat
<1>. QED  BY <1>2 DEF InPlaylists, w

LEMMA PlacesChange ==
    ASSUME NEW its \in ItemsT, \A q \in Playlists : IsFiniteSet(its[q]),
           NEW p \in Playlists, NEW rows, IsFiniteSet(rows), NEW m
    PROVE  InPlaylists([its EXCEPT ![p] = rows], m)
               = InPlaylists(its, m) + Occurrences(rows, m) - Occurrences(its[p], m)
<1>. DEFINE its2 == [its EXCEPT ![p] = rows]
            w1 == [q \in Playlists |-> Occurrences(its[q], m)]
            w2 == [q \in Playlists |-> Occurrences(its2[q], m)]
<1>1. its2[p] = rows /\ \A q \in Playlists \ {p} : its2[q] = its[q]
  BY DEF ItemsT
<1>. HIDE DEF its2
<1>2. \A q \in Playlists : Occurrences(its[q], m) \in Int /\ Occurrences(its2[q], m) \in Int
  <2>1. ASSUME NEW S, IsFiniteSet(S)
        PROVE  Occurrences(S, m) \in Int
    <3>1. Occurrences(S, m) \in Nat
      BY <2>1, OccurrencesType
    <3>. QED  BY <3>1
  <2>2. \A q \in Playlists : IsFiniteSet(its[q]) /\ IsFiniteSet(its2[q])
    BY <1>1
  <2>. TAKE q \in Playlists
  <2>3. Occurrences(its[q], m) \in Int
    BY <2>1, <2>2
  <2>4. Occurrences(its2[q], m) \in Int
    BY <2>1, <2>2
  <2>. QED  BY <2>3, <2>4
<1>3. /\ \A q \in Playlists : w1[q] \in Int /\ w2[q] \in Int
      /\ \A q \in Playlists \ {p} : w1[q] = w2[q]
      /\ w1[p] = Occurrences(its[p], m) /\ w2[p] = Occurrences(rows, m)
  <2>1. \A q \in Playlists : /\ w1[q] = Occurrences(its[q], m)
                             /\ w2[q] = Occurrences(its2[q], m)
    OBVIOUS
  <2>. HIDE DEF w1, w2
  <2>2. \A q \in Playlists \ {p} : w1[q] = w2[q]
    BY <1>1, <2>1
  <2>3. w1[p] = Occurrences(its[p], m) /\ w2[p] = Occurrences(rows, m)
    BY <1>1, <2>1
  <2>4. \A q \in Playlists : w1[q] \in Int /\ w2[q] \in Int
    BY <1>2, <2>1
  <2>. QED  BY <2>2, <2>3, <2>4
<1>. HIDE DEF w1, w2
<1>4. Sum(w2, Playlists) = Sum(w1, Playlists) - w1[p] + w2[p] /\ Sum(w1, Playlists) \in Int
  <2>1. Sum(w1, Playlists) \in Int
    BY <1>3, Constants, SumType
  <2>2. IsFiniteSet(Playlists) /\ p \in Playlists
    BY Constants
  <2>3. Sum(w2, Playlists) = Sum(w1, Playlists) - w1[p] + w2[p]
    <3>1. \A y \in Playlists : w1[y] \in Int /\ w2[y] \in Int
      BY <1>3
    <3>2. \A y \in Playlists \ {p} : w1[y] = w2[y]
      BY <1>3
    <3>. QED  BY <2>2, <3>1, <3>2, SumChange
  <2>. QED  BY <2>1, <2>3
<1>5. Sum(w2, Playlists) = Sum(w1, Playlists) + Occurrences(rows, m) - Occurrences(its[p], m)
  BY <1>3, <1>4
<1>. QED  BY <1>5 DEF InPlaylists, w1, w2, its2

\* The rows of a playlist are replaced: the media count their places again.
LEMMA SetItemsSound ==
    ASSUME NEW d, Sound(d), NEW p \in Playlists, NEW rows, Dense(rows)
    PROVE  LET e == SetItems(d, p, rows)
           IN  /\ Sound(e) /\ e.playlists = d.playlists
               /\ e.items = [d.items EXCEPT ![p] = rows]
               /\ SameMedia(d.media, e.media)
<1>. DEFINE its == [d.items EXCEPT ![p] = rows]
            NowIn(m) == d.media[m].nb_playlists + Occurrences(rows, m)
                                                 - Occurrences(d.items[p], m)
            med == [m \in Media |-> IF d.media[m] = NoRow THEN NoRow
                                    ELSE [d.media[m] EXCEPT !.nb_playlists = NowIn(m)]]
            e == [media |-> med, playlists |-> d.playlists, items |-> its]
<1>1. /\ d.media \in MediaT /\ d.playlists \in PlaylistsT /\ d.items \in ItemsT
      /\ d = [media |-> d.media, playlists |-> d.playlists, items |-> d.items]
  BY DEF Sound, DbT
<1>2. \A m \in Media : d.media[m] # NoRow => d.media[m] \in MediaRow
  BY <1>1 DEF MediaT
<1>3. SetItems(d, p, rows) = e
  <2>1. \A m \in Media : d.media[m] # NoRow =>
           [d.media[m] EXCEPT !.nb_playlists = @ + Occurrences(rows, m)
                                                 - Occurrences(d.items[p], m)]
               = [d.media[m] EXCEPT !.nb_playlists = NowIn(m)]
    BY <1>2 DEF MediaRow
  <2>2. med = [m \in Media |->
                  IF d.media[m] = NoRow THEN NoRow
                  ELSE [d.media[m] EXCEPT !.nb_playlists = @ + Occurrences(rows, m)
                                                             - Occurrences(d.items[p], m)]]
    BY <2>1
  <2>. HIDE DEF its, NowIn, med
  <2>3. [d EXCEPT !.items[p] = rows]
            = [media |-> d.media, playlists |-> d.playlists, items |-> its]
    BY <1>1 DEF its
  <2>4. SetItems(d, p, rows) = [[d EXCEPT !.items[p] = rows] EXCEPT !.media = med]
    BY <1>1, <2>2 DEF SetItems, Exists
  <2>. DEFINE half == [d EXCEPT !.items[p] = rows]
  <2>5. half = [media |-> d.media, playlists |-> d.playlists, items |-> its]
    BY <2>3
  <2>6. SetItems(d, p, rows) = [half EXCEPT !.media = med]
    BY <2>4
  <2>. HIDE DEF half
  <2>7. [half EXCEPT !.media = med] = e
    BY <2>5
  <2>. QED  BY <2>6, <2>7
<1>4. IsFiniteSet(rows) /\ rows \subseteq Item /\ \A q \in Playlists : IsFiniteSet(d.items[q])
  BY DenseFinite DEF Sound
<1>5. its \in ItemsT /\ \A q \in Playlists : Dense(its[q])
  BY <1>1, <1>4 DEF ItemsT, Sound
<1>6. \A q \in Playlists : IsFiniteSet(its[q])
  BY <1>5, DenseFinite
<1>7. ASSUME NEW m \in Media, d.media[m] # NoRow
      PROVE  NowIn(m) = InPlaylists(its, m) /\ NowIn(m) \in Nat
  <2>1. d.media[m].nb_playlists = InPlaylists(d.items, m)
    BY <1>7 DEF Sound, Exists
  <2>2. InPlaylists(its, m)
            = InPlaylists(d.items, m) + Occurrences(rows, m) - Occurrences(d.items[p], m)
    BY <1>1, <1>4, PlacesChange
  <2>3. InPlaylists(its, m) \in Nat
    <3>. HIDE DEF its
    <3>. QED  BY <1>6, PlacesType
  <2>. QED  BY <2>1, <2>2, <2>3
<1>. HIDE DEF its, NowIn
<1>8. ASSUME NEW m \in Media
      PROVE  /\ med[m] \in MediaRow \cup {NoRow}
             /\ med[m] = NoRow <=> d.media[m] = NoRow
             /\ med[m] # NoRow => /\ med[m].nb_playlists = InPlaylists(its, m)
                                  /\ med[m].type = d.media[m].type
                                  /\ med[m].is_present = d.media[m].is_present
                                  /\ med[m].duration = d.media[m].duration
  <2>1. CASE d.media[m] = NoRow
    BY <2>1
  <2>2. CASE d.media[m] # NoRow
    <3>1. med[m] = [d.media[m] EXCEPT !.nb_playlists = NowIn(m)]
      BY <2>2
    <3>2. d.media[m] \in MediaRow /\ NowIn(m) \in Nat /\ NowIn(m) = InPlaylists(its, m)
      BY <1>2, <1>7, <2>2
    <3>3. /\ med[m] \in MediaRow /\ med[m].nb_playlists = InPlaylists(its, m)
          /\ med[m].type = d.media[m].type
          /\ med[m].is_present = d.media[m].is_present
          /\ med[m].duration = d.media[m].duration
      BY <3>1, <3>2 DEF MediaRow
    <3>4. med[m] # NoRow
      BY <3>3, Constants
    <3>. QED  BY <2>2, <3>3, <3>4
  <2>. QED  BY <2>1, <2>2
<1>9. med \in MediaT
  BY <1>8 DEF MediaT
<1>10. SameMedia(d.media, med)
  BY <1>8 DEF SameMedia
<1>. HIDE DEF med
<1>11. Sound(e)
  <2>1. e \in DbT /\ e.items = its /\ e.media = med
    BY <1>1, <1>5, <1>9 DEF DbT
  <2>. QED  BY <1>5, <1>8, <2>1 DEF Sound, Exists
<1>. QED  BY <1>3, <1>10, <1>11 DEF its

-----------------------------------------------------------------------------
(* Items added one after the other.                                        *)

Others(a, b, p) == \A q \in Playlists \ {p} : b[q] = a[q]

LEMMA AtType ==
    ASSUME NEW rows, NEW k \in Nat, Cardinality(rows) = k, NEW position \in Int, NEW i \in Int
    PROVE  At(rows, position, i) \in 0..k
<1>. DEFINE w == Wrapped(position + i - 1)
<1>1. w \in Nat
  <2>1. UIntMax + 1 \in Nat /\ UIntMax + 1 > 0 /\ position + i - 1 \in Int
    BY Constants
  <2>. QED  BY <2>1 DEF Wrapped
<1>. HIDE DEF w
<1>2. At(rows, position, i) = IF position = UIntMax \/ w >= k THEN k ELSE w
  BY DEF At, w
<1>. QED  BY <1>1, <1>2

LEMMA AddRowSound ==
    ASSUME NEW d, Sound(d), NEW p \in Playlists, NEW n \in Nat, NEW list \in [1..n -> Media],
           NEW position \in Int, NEW i \in 1..n
    PROVE  LET e == AddRow(d, p, list, position, i)
           IN  /\ Sound(e) /\ e.playlists = d.playlists /\ SameMedia(d.media, e.media)
               /\ Others(d.items, e.items, p)
               /\ \A m : Occurrences(e.items[p], m)
                             = Occurrences(d.items[p], m) + Same(list[i], m)
               /\ \A k, s : IsList(d.items[p], k, s) =>
                      IsList(e.items[p], k + 1,
                             PutAt(k, s, At(d.items[p], position, i), list[i]))
<1>. DEFINE at == At(d.items[p], position, i)
            rows == Insert(d.items[p], list[i], at)
            e == SetItems(d, p, rows)
<1>1. AddRow(d, p, list, position, i) = e
  BY DEF AddRow
<1>2. list[i] \in Media
  OBVIOUS
<1>3. ASSUME NEW k, NEW s, IsList(d.items[p], k, s)
      PROVE  /\ IsList(rows, k + 1, PutAt(k, s, at, list[i]))
             /\ \A m : Occurrences(rows, m) = Occurrences(d.items[p], m) + Same(list[i], m)
  <2>1. Cardinality(d.items[p]) = k /\ k \in Nat
    BY <1>3, ListSize DEF IsList
  <2>2. at \in 0..k
    BY <2>1, AtType
  <2>. HIDE DEF at
  <2>. QED  BY <1>2, <1>3, <2>2, InsertList
<1>4. Dense(d.items[p]) /\ d.items \in ItemsT
  BY DEF Sound, DbT
<1>5. Dense(rows) /\ \A m : Occurrences(rows, m) = Occurrences(d.items[p], m) + Same(list[i], m)
  <2>1. PICK k, s : IsList(d.items[p], k, s)
    BY <1>4 DEF Dense
  <2>. HIDE DEF rows
  <2>. QED  BY <1>3, <2>1 DEF Dense
<1>. HIDE DEF rows, at
<1>6. /\ Sound(e) /\ e.playlists = d.playlists /\ SameMedia(d.media, e.media)
      /\ e.items = [d.items EXCEPT ![p] = rows]
  BY <1>5, SetItemsSound
<1>. HIDE DEF e
<1>7. e.items[p] = rows /\ Others(d.items, e.items, p)
  BY <1>4, <1>6 DEF ItemsT, Others
<1>. QED  BY <1>1, <1>3, <1>5, <1>6, <1>7 DEF at

\* How often a media is among the first of a list.
Copies(list, i, m) == Cardinality({j \in 1..i : list[j] = m})

LEMMA CopiesStep ==
    ASSUME NEW list, NEW m
    PROVE  /\ Copies(list, 0, m) = 0
           /\ \A i \in Nat : Copies(list, i, m) \in Nat
           /\ \A i \in Nat : Copies(list, i + 1, m) = Copies(list, i, m) + Same(list[i + 1], m)
<1>. DEFINE C(i) == {j \in 1..i : list[j] = m}
<1>1. C(0) = {}
  OBVIOUS
<1>2. ASSUME NEW i \in Nat
      PROVE  IsFiniteSet(C(i)) /\ Cardinality(C(i)) \in Nat
  <2>1. IsFiniteSet(1..i) /\ C(i) \in SUBSET (1..i)
    BY FS_Interval
  <2>. HIDE DEF C
  <2>. QED  BY <2>1, FS_Subset, FS_CardinalityType
<1>3. ASSUME NEW i \in Nat
      PROVE  Cardinality(C(i + 1)) = Cardinality(C(i)) + Same(list[i + 1], m)
  <2>1. CASE list[i + 1] = m
    <3>1. C(i + 1) = C(i) \cup {i + 1} /\ i + 1 \notin C(i)
      BY <2>1
    <3>2. Same(list[i + 1], m) = 1
      BY <2>1 DEF Same
    <3>. DEFINE A == C(i)
                B == C(i + 1)
                x == i + 1
    <3>3. IsFiniteSet(A) /\ x \notin A /\ B = A \cup {x}
      BY <1>2, <3>1
    <3>. HIDE DEF A, B, x
    <3>4. Cardinality(B) = Cardinality(A) + 1
      BY <3>3, FS_AddElement
    <3>. QED  BY <3>2, <3>4 DEF A, B
  <2>2. CASE list[i + 1] # m
    <3>1. C(i + 1) = C(i)
      BY <2>2
    <3>2. Same(list[i + 1], m) = 0
      BY <2>2 DEF Same
    <3>. HIDE DEF C
    <3>. QED  BY <1>2, <3>1, <3>2
  <2>. QED  BY <2>1, <2>2
<1>4. Cardinality(C(0)) = 0
  <2>. HIDE DEF C
  <2>. QED  BY <1>1, FS_EmptySet
<1>. QED  BY <1>2, <1>3, <1>4 DEF Copies

\* What holds after the first items are added holds after all of them.
LEMMA Rising ==
    ASSUME NEW n \in Nat, NEW Good, 0 \in Good,
           \A i \in 0..(n - 1) : i \in Good => i + 1 \in Good
    PROVE  n \in Good
<1>. DEFINE Bad == {i \in 0..n : i \notin Good}
<1>. SUFFICES ASSUME Bad # {} PROVE FALSE
  OBVIOUS
<1>1. PICK i \in Bad : \A j \in Bad : i <= j
  <2>1. Bad \in SUBSET Nat
    OBVIOUS
  <2>. HIDE DEF Bad
  <2>. QED  BY <2>1, Smallest
<1>2. i # 0
  BY <1>1
<1>3. i - 1 \in 0..(n - 1) /\ i - 1 \in Good
  BY <1>1, <1>2
<1>4. (i - 1) + 1 \in Good
  BY <1>3
<1>. QED  BY <1>1, <1>4

AfterAdding(d, p, list, i, e) ==
    /\ Sound(e) /\ e.playlists = d.playlists /\ SameMedia(d.media, e.media)
    /\ Others(d.items, e.items, p)
    /\ \A m : Occurrences(e.items[p], m) = Occurrences(d.items[p], m) + Copies(list, i, m)

LEMMA AddRowsSound ==
    ASSUME NEW d, Sound(d), NEW p \in Playlists, NEW n \in Nat, NEW list \in [1..n -> Media],
           NEW position \in Int
    PROVE  AfterAdding(d, p, list, n, addRows(d, p, list, position))
<1>. DEFINE k == RowsKind(p, list, position)
            F(i) == Fold(k, d, 1..i)
            Good == {i \in 0..n : AfterAdding(d, p, list, i, F(i))}
<1>1. addRows(d, p, list, position) = F(n)
  BY AddRowsFold
<1>2. F(0) = d /\ \A i \in 0..(n - 1) : F(i + 1) = AddRow(F(i), p, list, position, i + 1)
  <2>1. IsOrdered(k) /\ \A x, acc : Step(k, x, acc) = AddRow(acc, p, list, position, x)
    BY Kinds
  <2>. HIDE DEF k
  <2>2. F(0) = d
    BY <2>1, FoldList
  <2>3. ASSUME NEW i \in 0..(n - 1)
        PROVE  F(i + 1) = AddRow(F(i), p, list, position, i + 1)
    <3>. DEFINE j == i + 1
    <3>1. j \in Nat /\ j # 0 /\ j - 1 = i
      OBVIOUS
    <3>. HIDE DEF j
    <3>2. Fold(k, d, 1..j) = Step(k, j, Fold(k, d, 1..(j - 1)))
      BY <2>1, <3>1, FoldList
    <3>. QED  BY <2>1, <3>1, <3>2 DEF j
  <2>. QED  BY <2>2, <2>3
<1>. HIDE DEF F
<1>3. \A q \in Playlists : IsFiniteSet(d.items[q])
  BY DenseFinite DEF Sound
<1>4. ASSUME NEW m
      PROVE  Occurrences(d.items[p], m) \in Nat
  BY <1>3, OccurrencesType
<1>5. 0 \in Good
  <2>1. \A m : Occurrences(d.items[p], m) = Occurrences(d.items[p], m) + Copies(list, 0, m)
    BY <1>4, CopiesStep
  <2>2. SameMedia(d.media, d.media) /\ Others(d.items, d.items, p)
    BY DEF SameMedia, Others
  <2>. QED  BY <1>2, <2>1, <2>2 DEF AfterAdding
<1>6. ASSUME NEW i \in 0..(n - 1), i \in Good
      PROVE  i + 1 \in Good
  <2>. DEFINE b == F(i)
              e == F(i + 1)
  <2>1. AfterAdding(d, p, list, i, b) /\ e = AddRow(b, p, list, position, i + 1)
        /\ i + 1 \in 1..n /\ i + 1 \in 0..n
    BY <1>2, <1>6
  <2>. HIDE DEF b, e
  <2>2. /\ Sound(e) /\ e.playlists = b.playlists /\ SameMedia(b.media, e.media)
        /\ Others(b.items, e.items, p)
        /\ \A m : Occurrences(e.items[p], m) = Occurrences(b.items[p], m) + Same(list[i + 1], m)
    <3>. DEFINE j == i + 1
    <3>. HIDE DEF j
    <3>1. j \in 1..n /\ Sound(b) /\ e = AddRow(b, p, list, position, j)
      BY <2>1 DEF j, AfterAdding
    <3>2. /\ Sound(e) /\ e.playlists = b.playlists /\ SameMedia(b.media, e.media)
          /\ Others(b.items, e.items, p)
          /\ \A m : Occurrences(e.items[p], m) = Occurrences(b.items[p], m) + Same(list[j], m)
      BY <3>1, AddRowSound
    <3>. QED  BY <3>2 DEF j
  <2>3. Others(d.items, e.items, p) /\ SameMedia(d.media, e.media) /\ e.playlists = d.playlists
    BY <2>1, <2>2, SameMediaChain DEF AfterAdding, Others
  <2>4. ASSUME NEW m
        PROVE  Occurrences(e.items[p], m) = Occurrences(d.items[p], m) + Copies(list, i + 1, m)
    <3>1. Occurrences(b.items[p], m) = Occurrences(d.items[p], m) + Copies(list, i, m)
      BY <2>1 DEF AfterAdding
    <3>2. Copies(list, i + 1, m) = Copies(list, i, m) + Same(list[i + 1], m)
          /\ Copies(list, i, m) \in Nat
      <4>1. i \in Nat
        OBVIOUS
      <4>. QED  BY <4>1, CopiesStep
    <3>3. Occurrences(e.items[p], m) = Occurrences(b.items[p], m) + Same(list[i + 1], m)
      BY <2>2
    <3>4. Same(list[i + 1], m) \in Nat
      BY DEF Same
    <3>. QED  BY <1>4, <3>1, <3>2, <3>3, <3>4
  <2>5. AfterAdding(d, p, list, i + 1, e)
    BY <2>2, <2>3, <2>4 DEF AfterAdding
  <2>. QED  BY <2>1, <2>5 DEF e
<1>7. n \in Good
  <2>. HIDE DEF Good
  <2>. QED  BY <1>5, <1>6, Rising
<1>. QED  BY <1>1, <1>7

-----------------------------------------------------------------------------
(* The counters of a list, of a playlist.                                  *)

Longer(occ, list, i) == [m \in Media |-> occ[m] + Copies(list, i, m)]

LEMMA ListCounted ==
    ASSUME NEW rows \in MediaT, NEW n \in Nat, NEW list \in [1..n -> Media],
           \A i \in 1..n : rows[list[i]] # NoRow, NEW c \in PlaylistRow
    PROVE  LET e == Fold(ListKind(rows, list), c, 1..n)
           IN  /\ e \in PlaylistRow
               /\ \A occ \in [Media -> Int] :
                     Counted(c, rows, occ) => Counted(e, rows, Longer(occ, list, n))
<1>. DEFINE k == ListKind(rows, list)
            F(i) == Fold(k, c, 1..i)
            Right(i) == /\ F(i) \in PlaylistRow
                        /\ \A occ \in [Media -> Int] :
                              Counted(c, rows, occ) => Counted(F(i), rows, Longer(occ, list, i))
            Good == {i \in 0..n : Right(i)}
<1>1. F(0) = c /\ \A i \in 0..(n - 1) : F(i + 1) = Plus(F(i), Share(rows[list[i + 1]], 1), 1)
  <2>1. IsOrdered(k) /\ \A x, acc : Step(k, x, acc) = Plus(acc, Share(rows[list[x]], 1), 1)
    BY Kinds
  <2>. HIDE DEF k
  <2>2. F(0) = c
    BY <2>1, FoldList
  <2>3. ASSUME NEW i \in 0..(n - 1)
        PROVE  F(i + 1) = Plus(F(i), Share(rows[list[i + 1]], 1), 1)
    <3>. DEFINE j == i + 1
    <3>1. j \in Nat /\ j # 0 /\ j - 1 = i
      OBVIOUS
    <3>. HIDE DEF j
    <3>2. Fold(k, c, 1..j) = Step(k, j, Fold(k, c, 1..(j - 1)))
      BY <2>1, <3>1, FoldList
    <3>. QED  BY <2>1, <3>1, <3>2 DEF j
  <2>. QED  BY <2>2, <2>3
<1>. HIDE DEF F
<1>2. \A occ \in [Media -> Int], i \in Nat : Longer(occ, list, i) \in [Media -> Int]
  <2>1. ASSUME NEW i \in Nat, NEW m
        PROVE  Copies(list, i, m) \in Int
    <3>1. Copies(list, i, m) \in Nat
      BY CopiesStep
    <3>. QED  BY <3>1
  <2>. QED  BY <2>1 DEF Longer
<1>3. 0 \in Good
  <2>1. ASSUME NEW occ \in [Media -> Int]
        PROVE  Longer(occ, list, 0) = occ
    BY CopiesStep DEF Longer
  <2>. QED  BY <1>1, <2>1
<1>4. ASSUME NEW i \in 0..(n - 1), i \in Good
      PROVE  i + 1 \in Good
  <2>. DEFINE b == F(i)
              e == F(i + 1)
              m == list[i + 1]
  <2>1. /\ i + 1 \in 0..n /\ i + 1 \in 1..n /\ i \in Nat /\ i + 1 \in Nat
        /\ e = Plus(b, Share(rows[m], 1), 1) /\ b \in PlaylistRow
    BY <1>1, <1>4
  <2>2. m \in Media /\ rows[m] # NoRow /\ rows[m] \in MediaRow
    BY <2>1 DEF MediaT
  <2>3. ASSUME NEW occ \in [Media -> Int], Counted(c, rows, occ)
        PROVE  Counted(b, rows, Longer(occ, list, i))
    BY <1>4, <2>3
  <2>. HIDE DEF b, e, m
  <2>4. e \in PlaylistRow
    <3>1. Share(rows[m], 1) \in PlaylistRow
      BY <2>2, ShareColumns
    <3>. QED  BY <2>1, <3>1, PlusColumns
  <2>5. ASSUME NEW occ \in [Media -> Int], Counted(c, rows, occ)
        PROVE  Counted(e, rows, Longer(occ, list, i + 1))
    <3>. DEFINE occ1 == Longer(occ, list, i)
                occ2 == Longer(occ, list, i + 1)
    <3>1. occ1 \in [Media -> Int] /\ occ2 \in [Media -> Int] /\ Counted(b, rows, occ1)
      BY <1>2, <2>1, <2>3, <2>5
    <3>2. \A x \in Media : occ2[x] = occ1[x] + Same(m, x)
      <4>1. \A x \in Media : Copies(list, i + 1, x) = Copies(list, i, x) + Same(m, x)
                             /\ Copies(list, i, x) \in Nat
        BY <2>1, CopiesStep DEF m
      <4>2. \A x \in Media : Same(m, x) \in Nat
        BY DEF Same
      <4>. QED  BY <4>1, <4>2 DEF Longer
    <3>3. occ2[m] = occ1[m] + 1 * 1 /\ \A x \in Media \ {m} : occ2[x] = occ1[x]
      <4>. HIDE DEF occ1, occ2
      <4>. QED  BY <2>2, <3>1, <3>2 DEF Same
    <3>4. 1 \in Int /\ 1 \in {1, -1}
      OBVIOUS
    <3>. HIDE DEF occ1, occ2
    <3>5. Counted(Plus(b, Share(rows[m], 1), 1), rows, occ2)
      BY <2>2, <3>1, <3>3, <3>4, CountedPlus, Zenon
    <3>. QED  BY <2>1, <3>5 DEF occ2
  <2>6. Right(i + 1)
    BY <2>4, <2>5 DEF e
  <2>. HIDE DEF Right
  <2>. QED  BY <2>1, <2>6
<1>5. n \in Good
  <2>. HIDE DEF Good
  <2>. QED  BY <1>3, <1>4, Rising
<1>. QED  BY <1>5 DEF F

\* The counters of a playlist are those of its items.
Matches(d, p) == Counted(d.playlists[p], d.media, Occ(d.items[p]))

LEMMA SoundType ==
    ASSUME NEW d, Sound(d)
    PROVE  /\ d \in DbT /\ d.media \in MediaT /\ d.playlists \in PlaylistsT /\ d.items \in ItemsT
           /\ \A p \in Playlists : /\ IsFiniteSet(d.items[p]) /\ d.items[p] \subseteq Item
                                   /\ Occ(d.items[p]) \in [Media -> Int]
<1>1. /\ d \in DbT /\ d.media \in MediaT /\ d.playlists \in PlaylistsT /\ d.items \in ItemsT
  BY DEF Sound, DbT
<1>2. \A p \in Playlists : IsFiniteSet(d.items[p]) /\ d.items[p] \subseteq Item
  BY DenseFinite DEF Sound
<1>. QED  BY <1>1, <1>2, OccType

LEMMA MatchesSame ==
    ASSUME NEW d, Sound(d), NEW e, Sound(e), SameMedia(d.media, e.media),
           NEW p \in Playlists, e.playlists[p] = d.playlists[p],
           \A m \in Media : Occurrences(e.items[p], m) = Occurrences(d.items[p], m),
           Matches(d, p)
    PROVE  Matches(e, p)
<1>1. Occ(e.items[p]) = Occ(d.items[p])
  BY DEF Occ
<1>. QED  BY <1>1, SoundType, SameCounted DEF Matches

\* The same database but for the counters of a playlist.
LEMMA CountersSound ==
    ASSUME NEW d, Sound(d), NEW p \in Playlists, NEW c \in PlaylistRow \cup {NoRow}
    PROVE  LET e == [d EXCEPT !.playlists[p] = c]
           IN  /\ Sound(e) /\ e.media = d.media /\ e.items = d.items
               /\ e.playlists = [d.playlists EXCEPT ![p] = c]
               /\ e.playlists[p] = c /\ Others(d.playlists, e.playlists, p)
<1>. DEFINE pl == [d.playlists EXCEPT ![p] = c]
            e == [media |-> d.media, playlists |-> pl, items |-> d.items]
<1>1. d \in DbT /\ d.media \in MediaT /\ d.playlists \in PlaylistsT /\ d.items \in ItemsT
  BY SoundType
<1>2. [d EXCEPT !.playlists[p] = c] = e
  BY <1>1 DEF DbT
<1>3. pl \in PlaylistsT /\ pl[p] = c /\ Others(d.playlists, pl, p)
  BY <1>1 DEF PlaylistsT, Others
<1>. HIDE DEF pl
<1>4. e \in DbT
  BY <1>1, <1>3 DEF DbT
<1>5. Sound(e)
  BY <1>4 DEF Sound, Exists
<1>. QED  BY <1>2, <1>3, <1>5 DEF pl

\* add(), append()
LEMMA InsertedSound ==
    ASSUME NEW d, Sound(d), NEW p \in Playlists, d.playlists[p] # NoRow,
           NEW n \in Nat, NEW list \in [1..n -> Media], \A i \in 1..n : d.media[list[i]] # NoRow,
           NEW position \in Int
    PROVE  LET e == Inserted(d, p, list, position)
               a == addRows(d, p, list, position)
           IN  /\ Sound(e) /\ e.items = a.items /\ SameMedia(d.media, e.media)
               /\ e.playlists[p] # NoRow /\ Others(d.playlists, e.playlists, p)
               /\ Others(d.items, e.items, p)
               /\ \A q \in Playlists : Matches(d, q) => Matches(e, q)
<1>. DEFINE e == Inserted(d, p, list, position)
            a == addRows(d, p, list, position)
            c == Fold(ListKind(d.media, list), d.playlists[p], 1..n)
<1>1. AfterAdding(d, p, list, n, a)
  BY AddRowsSound
<1>2. /\ d.media \in MediaT /\ d.playlists \in PlaylistsT /\ d.playlists[p] \in PlaylistRow
      /\ Occ(d.items[p]) \in [Media -> Int]
  BY SoundType DEF PlaylistsT
<1>3. c \in PlaylistRow /\ c # NoRow
      /\ \A occ \in [Media -> Int] :
            Counted(d.playlists[p], d.media, occ) => Counted(c, d.media, Longer(occ, list, n))
  BY <1>2, ListCounted, Constants
<1>4. e = [a EXCEPT !.playlists[p] = c]
  <2>1. a.playlists = d.playlists
    BY <1>1 DEF AfterAdding
  <2>2. e = [a EXCEPT !.playlists[p] =
                FoldLeft(LAMBDA b, m : Plus(b, Share(d.media[m], 1), 1), @, list)]
    BY DEF Inserted
  <2>3. FoldLeft(LAMBDA b, m : Plus(b, Share(d.media[m], 1), 1), d.playlists[p], list) = c
    BY CountFold
  <2>. HIDE DEF e, a, c
  <2>. QED  BY <2>1, <2>2, <2>3
<1>. HIDE DEF e, a, c
<1>5. /\ Sound(e) /\ e.media = a.media /\ e.items = a.items
      /\ e.playlists[p] = c /\ Others(a.playlists, e.playlists, p)
  BY <1>1, <1>3, <1>4, CountersSound DEF AfterAdding
<1>6. /\ SameMedia(d.media, e.media) /\ Others(d.items, e.items, p)
      /\ Others(d.playlists, e.playlists, p)
  BY <1>1, <1>5 DEF AfterAdding
<1>7. ASSUME NEW q \in Playlists, q # p, Matches(d, q)
      PROVE  Matches(e, q)
  <2>1. e.playlists[q] = d.playlists[q] /\ e.items[q] = d.items[q]
    BY <1>6, <1>7 DEF Others
  <2>. QED  BY <1>5, <1>6, <1>7, <2>1, MatchesSame
<1>8. ASSUME Matches(d, p)
      PROVE  Matches(e, p)
  <2>1. Counted(c, d.media, Longer(Occ(d.items[p]), list, n))
    BY <1>2, <1>3, <1>8 DEF Matches
  <2>2. Longer(Occ(d.items[p]), list, n) = Occ(e.items[p])
    BY <1>1, <1>5 DEF Longer, Occ, AfterAdding
  <2>3. Counted(c, e.media, Occ(e.items[p]))
    BY <1>2, <1>5, <1>6, <2>1, <2>2, SoundType, SameCounted
  <2>. QED  BY <1>5, <2>3 DEF Matches
<1>9. \A q \in Playlists : Matches(d, q) => Matches(e, q)
  BY <1>7, <1>8
<1>. QED  BY <1>3, <1>5, <1>6, <1>9 DEF e, a

-----------------------------------------------------------------------------
(* Items taken out, moved.                                                 *)

LEMMA DenseWithout ==
    ASSUME NEW rows, Dense(rows), NEW gone \in SUBSET rows
    PROVE  /\ Dense(DeleteRows(rows, gone))
           /\ \A m : Occurrences(DeleteRows(rows, gone), m)
                         = Occurrences(rows, m) - Occurrences(gone, m)
           /\ Cardinality(DeleteRows(rows, gone)) = Cardinality(rows) - Cardinality(gone)
<1>1. PICK n, s : IsList(rows, n, s)
  BY DEF Dense
<1>2. PICK t : IsList(DeleteRows(rows, gone), Cardinality(rows \ gone), t)
  BY <1>1, DeleteList
<1>3. Cardinality(rows \ gone) = Cardinality(rows) - Cardinality(gone)
  <2>1. rows \cap gone = gone
    OBVIOUS
  <2>2. IsFiniteSet(rows)
    BY DenseFinite
  <2>3. Cardinality(rows \ gone) = Cardinality(rows) - Cardinality(rows \cap gone)
    BY <2>2, FS_Difference
  <2>. QED  BY <2>1, <2>3
<1>. QED  BY <1>1, <1>2, <1>3, DeleteList, ListSize DEF Dense

LEMMA DenseEmpty ==
    /\ Dense({}) /\ IsList({}, 0, [i \in 1..0 |-> 0]) /\ \A m : Occurrences({}, m) = 0
<1>. DEFINE s == [i \in 1..0 |-> 0]
<1>1. s \in [1..0 -> Media] /\ {[media |-> s[i], position |-> i - 1] : i \in 1..0} = {}
  OBVIOUS
<1>2. IsList({}, 0, s)
  BY <1>1 DEF IsList
<1>3. ASSUME NEW m
      PROVE  Occurrences({}, m) = 0
  <2>1. IsFiniteSet({})
    BY FS_EmptySet
  <2>. QED  BY <2>1, OccurrencesType
<1>. QED  BY <1>2, <1>3 DEF Dense

LEMMA RangeType ==
    ASSUME NEW rows, NEW position, NEW count
    PROVE  InRange(rows, position, count) \in SUBSET rows
BY DEF InRange

LEMMA RemoveRowsSound ==
    ASSUME NEW d, Sound(d), NEW p \in Playlists, NEW position, NEW count
    PROVE  LET e == removeRows(d, p, position, count)
               gone == InRange(d.items[p], position, count)
           IN  /\ Sound(e) /\ e.playlists = d.playlists /\ SameMedia(d.media, e.media)
               /\ Others(d.items, e.items, p)
               /\ e.items[p] = DeleteRows(d.items[p], gone)
               /\ \A m : Occurrences(e.items[p], m)
                             = Occurrences(d.items[p], m) - Occurrences(gone, m)
<1>. DEFINE gone == InRange(d.items[p], position, count)
            rows == DeleteRows(d.items[p], gone)
            e == removeRows(d, p, position, count)
<1>1. /\ Dense(rows)
      /\ \A m : Occurrences(rows, m) = Occurrences(d.items[p], m) - Occurrences(gone, m)
  <2>1. Dense(d.items[p]) /\ gone \in SUBSET d.items[p]
    BY RangeType DEF Sound
  <2>. HIDE DEF gone
  <2>. QED  BY <2>1, DenseWithout
<1>2. e = SetItems(d, p, rows)
  BY DEF removeRows
<1>. HIDE DEF e, rows, gone
<1>3. /\ Sound(e) /\ e.playlists = d.playlists /\ SameMedia(d.media, e.media)
      /\ e.items = [d.items EXCEPT ![p] = rows]
  BY <1>1, <1>2, SetItemsSound
<1>4. e.items[p] = rows /\ Others(d.items, e.items, p)
  BY <1>3, SoundType DEF ItemsT, Others
<1>. QED  BY <1>1, <1>3, <1>4 DEF e, rows, gone

\* remove(): the counters are those of the rows that go, or are spoilt.
LEMMA RemovedSound ==
    ASSUME NEW d, Sound(d), \A p \in Playlists : \A r \in d.items[p] : Exists(d, r.media),
           NEW p \in Playlists, d.playlists[p] # NoRow, NEW position, NEW count
    PROVE  LET e == Removed(d, p, position, count)
               gone == InRange(d.items[p], position, count)
           IN  /\ Sound(e) /\ e.items = removeRows(d, p, position, count).items
               /\ SameMedia(d.media, e.media)
               /\ e.playlists[p] # NoRow /\ Others(d.playlists, e.playlists, p)
               /\ Others(d.items, e.items, p)
               /\ \A q \in Playlists : q # p /\ Matches(d, q) => Matches(e, q)
               /\ CountRemoved(d, p, position, count) = CounterAccumulator(d, gone)
                     /\ Matches(d, p) => Matches(e, p)
<1>. DEFINE gone == InRange(d.items[p], position, count)
            a == removeRows(d, p, position, count)
            x == CountRemoved(d, p, position, count)
            c == Plus(d.playlists[p], x, -1)
            e == Removed(d, p, position, count)
            y == CounterAccumulator(d, gone)
<1>1. /\ Sound(a) /\ a.playlists = d.playlists /\ SameMedia(d.media, a.media)
      /\ Others(d.items, a.items, p)
      /\ \A m : Occurrences(a.items[p], m) = Occurrences(d.items[p], m) - Occurrences(gone, m)
  BY RemoveRowsSound
<1>2. /\ d.media \in MediaT /\ d.playlists \in PlaylistsT /\ d.playlists[p] \in PlaylistRow
      /\ Occ(d.items[p]) \in [Media -> Int]
      /\ IsFiniteSet(d.items[p]) /\ d.items[p] \subseteq Item
  BY SoundType DEF PlaylistsT
<1>3. ASSUME NEW S \in SUBSET d.items[p]
      PROVE  Counted(CounterAccumulator(d, S), d.media, Occ(S)) /\ IsFiniteSet(S)
  <2>1. IsFiniteSet(S)
    BY <1>2, FS_Subset
  <2>2. \A r \in S : r.media \in Media /\ d.media[r.media] # NoRow
    BY <1>2 DEF Item, Exists
  <2>. QED  BY <1>2, <2>1, <2>2, AccumulatorCounted
<1>4. gone \in SUBSET d.items[p] /\ mediaItems(d, p, count, position) \in SUBSET d.items[p]
  BY RangeType DEF mediaItems
<1>5. x \in PlaylistRow /\ Counted(y, d.media, Occ(gone)) /\ IsFiniteSet(gone)
  BY <1>3, <1>4 DEF CountRemoved, Counted
<1>6. c \in PlaylistRow /\ c # NoRow
  <2>1. -1 \in Int
    OBVIOUS
  <2>. HIDE DEF x
  <2>2. c \in PlaylistRow
    BY <1>2, <1>5, <2>1, PlusColumns
  <2>. QED  BY <2>2, Constants
<1>7. e = [a EXCEPT !.playlists[p] = c]
  <2>1. e = [a EXCEPT !.playlists[p] = Plus(@, x, -1)]
    BY DEF Removed
  <2>. HIDE DEF e, a, x
  <2>. QED  BY <1>1, <2>1
<1>. HIDE DEF e, a, c, x, y, gone
<1>8. /\ Sound(e) /\ e.media = a.media /\ e.items = a.items
      /\ e.playlists[p] = c /\ Others(a.playlists, e.playlists, p)
  BY <1>1, <1>6, <1>7, CountersSound
<1>9. /\ SameMedia(d.media, e.media) /\ Others(d.items, e.items, p)
      /\ Others(d.playlists, e.playlists, p)
  BY <1>1, <1>8
<1>10. ASSUME NEW q \in Playlists, q # p, Matches(d, q)
       PROVE  Matches(e, q)
  <2>1. e.playlists[q] = d.playlists[q] /\ e.items[q] = d.items[q]
    BY <1>9, <1>10 DEF Others
  <2>. QED  BY <1>8, <1>9, <1>10, <2>1, MatchesSame
<1>11. ASSUME x = y, Matches(d, p)
       PROVE  Matches(e, p)
  <2>1. c \in PlaylistRow /\ \A k \in Columns :
           Column(c, k) = Column(d.playlists[p], k) + -1 * Column(y, k)
           /\ Column(d.playlists[p], k) \in Int /\ Column(y, k) \in Int
    <3>. DEFINE b == d.playlists[p]
                minus == -1
    <3>1. y \in PlaylistRow /\ b \in PlaylistRow /\ minus \in Int /\ c = Plus(b, y, minus)
      BY <1>2, <1>5, <1>11 DEF Counted, c
    <3>. HIDE DEF b, minus
    <3>2. /\ c \in PlaylistRow
          /\ \A k \in Columns : Column(c, k) = Column(b, k) + minus * Column(y, k)
      BY <3>1, PlusColumns
    <3>3. \A k \in Columns : Column(b, k) \in Int /\ Column(y, k) \in Int
      BY <3>1, PlusColumns
    <3>. QED  BY <3>2, <3>3 DEF b, minus
  <2>2. ASSUME NEW k \in Columns
        PROVE  Column(c, k) = Worth(e.media, Occ(e.items[p]), k)
    <3>. DEFINE w1 == Times(d.media, Occ(d.items[p]), k)
                w2 == Times(d.media, Occ(gone), k)
                w3 == Times(d.media, Occ(e.items[p]), k)
    <3>1. /\ Occ(gone) \in [Media -> Int] /\ Occ(e.items[p]) \in [Media -> Int]
          /\ Occ(d.items[p]) \in [Media -> Int]
      BY <1>2, <1>5, <1>8, OccType, SoundType
    <3>2. w1 \in [Media -> Int] /\ w2 \in [Media -> Int] /\ w3 \in [Media -> Int]
      BY <1>2, <3>1, TimesType
    <3>3. \A m \in Media : w1[m] = w3[m] + w2[m]
      <4>. TAKE m \in Media
      <4>. DEFINE u == Unit(d.media[m], k)
                  o1 == Occ(d.items[p])[m]
                  o2 == Occ(gone)[m]
                  o3 == Occ(e.items[p])[m]
      <4>1. u \in Int /\ o1 \in Int /\ o2 \in Int /\ o3 \in Int
        BY <1>2, <3>1, UnitType DEF MediaT
      <4>2. o3 = o1 - o2
        BY <1>1, <1>8 DEF Occ
      <4>3. w1[m] = o1 * u /\ w2[m] = o2 * u /\ w3[m] = o3 * u
        BY DEF Times
      <4>. HIDE DEF u, o1, o2, o3, w1, w2, w3
      <4>4. \A i, j, v \in Int : i * v = (i - j) * v + j * v
        OBVIOUS
      <4>. QED  BY <4>1, <4>2, <4>3, <4>4
    <3>. HIDE DEF w1, w2, w3
    <3>4. Sum(w1, Media) = Sum(w3, Media) + Sum(w2, Media)
          /\ Sum(w3, Media) \in Int /\ Sum(w2, Media) \in Int
      BY <3>2, <3>3, Constants, SumAdd, SumType
    <3>5. Column(d.playlists[p], k) = Sum(w1, Media) /\ Column(y, k) = Sum(w2, Media)
      BY <1>5, <1>11 DEF Matches, Counted, Worth, w1, w2
    <3>6. Column(c, k) = Sum(w3, Media)
      BY <2>1, <3>4, <3>5
    <3>7. Worth(d.media, Occ(e.items[p]), k) = Worth(e.media, Occ(e.items[p]), k)
      <4>1. e.media \in MediaT
        BY <1>8, SoundType
      <4>2. \A m \in Media : Occ(e.items[p])[m] * Unit(d.media[m], k)
                                 = Occ(e.items[p])[m] * Unit(e.media[m], k)
        BY <1>9, SameUnits
      <4>. QED  BY <1>2, <3>1, <4>1, <4>2, WorthSame
    <3>. QED  BY <3>6, <3>7 DEF Worth, w3
  <2>. QED  BY <1>8, <2>1, <2>2 DEF Matches, Counted
<1>. QED  BY <1>6, <1>8, <1>9, <1>10, <1>11 DEF e, a, x, y, gone

\* deletePlaylist() and clearContent() take all of them.
LEMMA EmptiedSound ==
    ASSUME NEW d, Sound(d), NEW p \in Playlists, NEW c \in {Empty, NoRow}
    PROVE  LET e == [SetItems(d, p, {}) EXCEPT !.playlists[p] = c]
           IN  /\ Sound(e) /\ SameMedia(d.media, e.media)
               /\ e.items[p] = {} /\ e.playlists[p] = c
               /\ Others(d.playlists, e.playlists, p) /\ Others(d.items, e.items, p)
               /\ \A q \in Playlists : q # p /\ Matches(d, q) => Matches(e, q)
               /\ c = Empty => Matches(e, p)
<1>. DEFINE a == SetItems(d, p, {})
            e == [a EXCEPT !.playlists[p] = c]
<1>1. /\ Sound(a) /\ a.playlists = d.playlists /\ SameMedia(d.media, a.media)
      /\ a.items = [d.items EXCEPT ![p] = {}]
  <2>1. Dense({})
    BY DenseEmpty
  <2>. DEFINE rows == {}
  <2>2. Dense(rows)
    BY <2>1
  <2>. HIDE DEF rows
  <2>3. LET b == SetItems(d, p, rows)
        IN  /\ Sound(b) /\ b.playlists = d.playlists
            /\ b.items = [d.items EXCEPT ![p] = rows]
            /\ SameMedia(d.media, b.media)
    BY <2>2, SetItemsSound
  <2>. QED  BY <2>3 DEF rows
<1>2. a.items[p] = {} /\ Others(d.items, a.items, p)
  BY <1>1, SoundType DEF ItemsT, Others
<1>3. c \in PlaylistRow \cup {NoRow} /\ Empty \in PlaylistRow
  BY DEF Empty, PlaylistRow
<1>. HIDE DEF a
<1>4. /\ Sound(e) /\ e.media = a.media /\ e.items = a.items
      /\ e.playlists[p] = c /\ Others(a.playlists, e.playlists, p)
  BY <1>1, <1>3, CountersSound
<1>. HIDE DEF e
<1>5. ASSUME NEW q \in Playlists, q # p, Matches(d, q)
      PROVE  Matches(e, q)
  <2>1. e.playlists[q] = d.playlists[q] /\ e.items[q] = d.items[q] /\ SameMedia(d.media, e.media)
    BY <1>1, <1>2, <1>4, <1>5 DEF Others
  <2>. QED  BY <1>4, <1>5, <2>1, MatchesSame
<1>6. ASSUME c = Empty
      PROVE  Matches(e, p)
  <2>1. \A m \in Media : Occ(e.items[p])[m] = 0
    BY <1>2, <1>4, DenseEmpty DEF Occ
  <2>2. e.media \in MediaT
    BY <1>4, SoundType
  <2>3. Counted(Empty, e.media, Occ(e.items[p]))
    BY <2>1, <2>2, CountedEmpty
  <2>. QED  BY <1>4, <1>6, <2>3 DEF Matches
<1>. QED  BY <1>1, <1>2, <1>4, <1>5, <1>6 DEF e, a

LEMMA WrappedNat ==
    ASSUME NEW x \in Int
    PROVE  Wrapped(x) \in Nat /\ Wrapped(x) <= UIntMax /\ (x \in 0..UIntMax => Wrapped(x) = x)
<1>1. UIntMax + 1 \in Nat /\ UIntMax + 1 > 0
  BY Constants
<1>. QED  BY <1>1, Constants DEF Wrapped

\* The media that move() takes out and puts back, in order.
PutBack(d, p, from, count, n, s) ==
    LET gone == InRange(d.items[p], from, count)
        k == Cardinality(gone)
        list == MovedMedia(d, p, from, count)
    IN  /\ k \in Nat /\ list \in [1..k -> Media]
        /\ gone = {} \/ (/\ k = Wrapped(from + count) - from /\ from + k <= n
                         /\ from + k = Wrapped(from + count))
        /\ \A i \in 1..k : list[i] = s[from + i]
        /\ \A m : Copies(list, k, m) = Occurrences(gone, m)

LEMMA MovedList ==
    ASSUME NEW d, NEW p, NEW n, NEW s, IsList(d.items[p], n, s),
           NEW from \in Nat, NEW count \in Nat, CanMove(d, p, from, count)
    PROVE  PutBack(d, p, from, count, n, s)
<1>. DEFINE rows == d.items[p]
            to == Wrapped(from + count)
            gone == InRange(rows, from, count)
            k == Cardinality(gone)
            list == MovedMedia(d, p, from, count)
<1>1. to \in Nat /\ n \in Nat /\ s \in [1..n -> Media]
  <2>1. from + count \in Int
    OBVIOUS
  <2>. QED  BY <2>1, WrappedNat DEF IsList
<1>2. IsFiniteSet(gone) /\ k \in Nat
  <2>1. gone \in SUBSET rows /\ IsFiniteSet(rows)
    BY RangeType, ListSize
  <2>. HIDE DEF gone, rows
  <2>. QED  BY <2>1, FS_Subset, FS_CardinalityType
<1>3. CASE gone = {}
  <2>1. k = 0
    <3>. HIDE DEF gone
    <3>. QED  BY <1>3, FS_EmptySet
  <2>2. list \in [1..k -> Media]
    <3>1. \A i : ~(i \in 1..k)
      BY <2>1
    <3>. QED  BY <3>1 DEF MovedMedia
  <2>3. ASSUME NEW m
        PROVE  Copies(list, k, m) = Occurrences(gone, m)
    <3>1. Copies(list, 0, m) = 0
      BY CopiesStep
    <3>2. Occurrences({}, m) = 0
      BY DenseEmpty
    <3>. HIDE DEF gone, list, k
    <3>. QED  BY <1>3, <2>1, <3>1, <3>2
  <2>4. \A i \in 1..k : list[i] = s[from + i]
    BY <2>1
  <2>. HIDE DEF gone, list, k
  <2>. QED  BY <1>2, <1>3, <2>2, <2>3, <2>4 DEF gone, list, k, rows, PutBack
<1>4. CASE gone # {}
  <2>1. from < to
    <3>1. PICK r \in rows : r.position >= from /\ r.position < to
      BY <1>4 DEF InRange
    <3>2. r.position \in Nat
      BY ListRows DEF Item
    <3>. QED  BY <1>1, <3>1, <3>2
  <2>2. to <= n
    <3>1. to - 1 \in from..(to - 1)
      BY <1>1, <2>1
    <3>2. PICK r \in rows : r.position = to - 1
      BY <3>1 DEF CanMove
    <3>3. r.position \in 0..(n - 1)
      BY ListRows
    <3>. QED  BY <1>1, <3>2, <3>3
  <2>3. gone = Between(rows, from, to)
    BY DEF InRange, Between
  <2>4. k = to - from
    <3>. HIDE DEF to, rows, gone
    <3>1. Cardinality(Between(rows, from, to)) = to - from
      BY <1>1, <2>1, <2>2, RangeSize DEF rows
    <3>. QED  BY <2>3, <3>1
  <2>5. ASSUME NEW i \in 1..k
        PROVE  /\ list[i] = s[from + i] /\ s[from + i] \in Media
               /\ [media |-> s[from + i], position |-> (from + i) - 1] \in gone
    <3>. DEFINE j == from + i
    <3>1. j \in 1..n /\ j - 1 \in 0..(n - 1) /\ (j - 1) + 1 = j /\ from + i - 1 = j - 1
          /\ j - 1 >= from /\ j - 1 < to
      BY <1>1, <2>1, <2>2, <2>4
    <3>. DEFINE c == CHOOSE r \in rows : r.position = j - 1
    <3>2. c \in rows /\ c.position = j - 1
      BY <3>1, ListRows
    <3>3. c.media = s[j]
      BY <3>1, <3>2, ListRows
    <3>4. list[i] = c.media
      BY <3>1 DEF MovedMedia, mediaAt
    <3>5. s[j] \in Media
      BY <1>1, <3>1
    <3>6. [media |-> s[j], position |-> j - 1] \in rows
      BY <3>1, ListRows
    <3>7. [media |-> s[j], position |-> j - 1] \in gone
      BY <3>1, <3>6 DEF InRange
    <3>. QED  BY <3>3, <3>4, <3>5, <3>7
  <2>6. list \in [1..k -> Media]
    <3>1. list = [i \in 1..k |-> list[i]]
      BY DEF MovedMedia
    <3>. HIDE DEF list, k
    <3>. QED  BY <2>5, <3>1
  <2>7. ASSUME NEW m
        PROVE  Copies(list, k, m) = Occurrences(gone, m)
    <3>. DEFINE I == {j \in 1..k : list[j] = m}
                T == {r \in gone : r.media = m}
                f == [j \in I |-> [media |-> s[from + j], position |-> (from + j) - 1]]
    <3>1. \A j \in I : j \in 1..k /\ f[j] \in gone /\ f[j].media = s[from + j]
                       /\ f[j].position = (from + j) - 1 /\ s[from + j] = m
      <4>. TAKE j \in I
      <4>1. j \in 1..k /\ list[j] = m /\ j \in I
        OBVIOUS
      <4>. HIDE DEF gone, list, k, I
      <4>2. f[j] = [media |-> s[from + j], position |-> (from + j) - 1]
        BY <4>1
      <4>. HIDE DEF f
      <4>. QED  BY <2>5, <4>1, <4>2
    <3>2. \A r \in T : \E j \in I : f[j] = r
      <4>. TAKE r \in T
      <4>1. r \in rows /\ r.position >= from /\ r.position < to /\ r.media = m
        BY DEF InRange
      <4>2. r.position \in Nat /\ r.media = s[r.position + 1]
        BY <4>1, ListRows DEF Item
      <4>. DEFINE j == r.position + 1 - from
      <4>3. j \in 1..k /\ from + j = r.position + 1 /\ (from + j) - 1 = r.position
        <5>1. k = to - from /\ to \in Nat /\ r.position \in Nat
          BY <1>1, <2>4, <4>2
        <5>2. from <= r.position /\ r.position < to
          BY <1>1, <4>1, <4>2
        <5>. HIDE DEF gone, list, k, to
        <5>. QED  BY <5>1, <5>2
      <4>. HIDE DEF j, gone, list, k
      <4>4. j \in I
        BY <2>5, <4>1, <4>2, <4>3
      <4>5. f[j] \in rows
        BY <3>1, <4>4 DEF gone, InRange
      <4>6. f[j].position = r.position
        BY <3>1, <4>3, <4>4
      <4>. HIDE DEF f, I
      <4>7. f[j] = r
        BY <4>1, <4>5, <4>6, ListRows
      <4>. QED  BY <4>4, <4>7
    <3>3. f \in Surjection(I, T)
      <4>1. \A j \in I : f[j] \in T
        <5>. HIDE DEF f, I, gone
        <5>. QED  BY <3>1
      <4>2. DOMAIN f = I /\ f = [j \in I |-> f[j]]
        OBVIOUS
      <4>. HIDE DEF f, I, T
      <4>. QED  BY <3>2, <4>1, <4>2 DEF Surjection
    <3>4. f \in Injection(I, T)
      <4>1. ASSUME NEW i \in I, NEW j \in I, f[i] = f[j]
            PROVE  i = j
        <5>1. (from + i) - 1 = (from + j) - 1 /\ i \in 1..k /\ j \in 1..k
          <6>. HIDE DEF f, I, k
          <6>. QED  BY <3>1, <4>1
        <5>. QED  BY <1>2, <5>1
      <4>. HIDE DEF f, I, T
      <4>. QED  BY <3>3, <4>1 DEF Surjection, Injection, IsInjective
    <3>5. IsFiniteSet(I)
      <4>1. I \in SUBSET (1..k) /\ IsFiniteSet(1..k)
        BY <1>2, FS_Interval
      <4>. HIDE DEF I, k
      <4>. QED  BY <4>1, FS_Subset
    <3>6. ExistsBijection(I, T)
      BY <3>3, <3>4 DEF Bijection, ExistsBijection
    <3>7. Cardinality(T) = Cardinality(I)
      <4>. HIDE DEF I, T
      <4>. QED  BY <3>5, <3>6, FS_Bijection
    <3>. QED  BY <3>7 DEF Copies, Occurrences
  <2>8. k = to - from /\ from + k <= n /\ from + k = to
    <3>. HIDE DEF k, to
    <3>. QED  BY <1>1, <2>2, <2>4
  <2>. HIDE DEF gone, list, k, to
  <2>. QED  BY <1>2, <2>5, <2>6, <2>7, <2>8 DEF gone, list, k, to, rows, PutBack
<1>. QED  BY <1>3, <1>4

\* move(): the items are the same.
LEMMA MovedSound ==
    ASSUME NEW d, Sound(d), NEW p \in Playlists, NEW from \in Nat, NEW count \in Nat,
           CanMove(d, p, from, count), NEW position \in Int
    PROVE  LET e == Moved(d, p, from, position, count)
           IN  /\ Sound(e) /\ SameMedia(d.media, e.media) /\ e.playlists = d.playlists
               /\ Others(d.items, e.items, p)
               /\ \A q \in Playlists : Matches(d, q) => Matches(e, q)
<1>. DEFINE a == removeRows(d, p, from, count)
            gone == InRange(d.items[p], from, count)
            k == Cardinality(gone)
            list == MovedMedia(d, p, from, count)
            target == IF position < from THEN position ELSE Wrapped(position - (count - 1))
            e == addRows(a, p, list, target)
<1>1. Moved(d, p, from, position, count) = e
  BY DEF Moved
<1>2. /\ Sound(a) /\ a.playlists = d.playlists /\ SameMedia(d.media, a.media)
      /\ Others(d.items, a.items, p)
      /\ \A m : Occurrences(a.items[p], m) = Occurrences(d.items[p], m) - Occurrences(gone, m)
  BY RemoveRowsSound
<1>3. /\ k \in Nat /\ list \in [1..k -> Media]
      /\ \A m : Copies(list, k, m) = Occurrences(gone, m)
  <2>1. PICK n, s : IsList(d.items[p], n, s)
    BY DEF Sound, Dense
  <2>2. PutBack(d, p, from, count, n, s)
    BY <2>1, MovedList
  <2>. QED  BY <2>2 DEF PutBack
<1>4. target \in Int
  <2>1. position - (count - 1) \in Int
    OBVIOUS
  <2>2. Wrapped(position - (count - 1)) \in Nat
    BY <2>1, WrappedNat
  <2>. QED  BY <2>2
<1>5. IsFiniteSet(d.items[p]) /\ IsFiniteSet(gone)
  <2>1. gone \in SUBSET d.items[p] /\ IsFiniteSet(d.items[p])
    BY RangeType, SoundType
  <2>. HIDE DEF gone
  <2>. QED  BY <2>1, FS_Subset
<1>. HIDE DEF a, gone, k, list, target
<1>6. AfterAdding(a, p, list, k, e)
  BY <1>2, <1>3, <1>4, AddRowsSound
<1>. HIDE DEF e
<1>7. /\ Sound(e) /\ SameMedia(d.media, e.media) /\ e.playlists = d.playlists
      /\ Others(d.items, e.items, p)
  BY <1>2, <1>6, SameMediaChain DEF AfterAdding, Others
<1>8. ASSUME NEW m \in Media
      PROVE  Occurrences(e.items[p], m) = Occurrences(d.items[p], m)
  <2>1. Occurrences(d.items[p], m) \in Nat /\ Occurrences(gone, m) \in Nat
    BY <1>5, OccurrencesType
  <2>2. Occurrences(e.items[p], m) = Occurrences(a.items[p], m) + Copies(list, k, m)
    BY <1>6 DEF AfterAdding
  <2>. QED  BY <1>2, <1>3, <2>1, <2>2
<1>9. ASSUME NEW q \in Playlists, Matches(d, q)
      PROVE  Matches(e, q)
  <2>1. \A m \in Media : Occurrences(e.items[q], m) = Occurrences(d.items[q], m)
    BY <1>7, <1>8 DEF Others
  <2>. QED  BY <1>7, <1>9, <2>1, MatchesSame
<1>. QED  BY <1>1, <1>7, <1>9

-----------------------------------------------------------------------------
(* A media changes, or goes.                                               *)

\* The triggers UpdateNbMediaOnMediaChange and UpdateDurationOnMediaChange on the
\* counters of a playlist that has the media n times.
NbCounted(c, old, row, n) ==
    [Plus(Plus(c, Share(old, n), -1), Share(row, n), 1)
        EXCEPT !.duration = c.duration, !.nb_duration_unknown = c.nb_duration_unknown]
TimeCounted(c, old, row) ==
    LET counted == Plus(Plus(c, Share(old, 1), -1), Share(row, 1), 1)
    IN  [c EXCEPT !.duration = counted.duration,
                  !.nb_duration_unknown = counted.nb_duration_unknown]
Recounted(d, m, row) ==
    [p \in Playlists |->
        LET c == d.playlists[p]
            n == Occurrences(d.items[p], m)
        IN  IF c = NoRow \/ n = 0 THEN c
            ELSE TimeCounted(NbCounted(c, d.media[m], row, n), d.media[m], row)]

IsTimed(k) == k[1] \in {"duration", "unknown"}
Weight(k, n) == IF IsTimed(k) THEN 1 ELSE n

LEMMA PlusTwice ==
    ASSUME NEW c \in PlaylistRow, NEW old \in MediaRow, NEW row \in MediaRow, NEW n \in Int
    PROVE  LET e == Plus(Plus(c, Share(old, n), -1), Share(row, n), 1)
           IN  /\ e \in PlaylistRow
               /\ \A k \in Columns :
                     Column(e, k) = Column(c, k) - n * Unit(old, k) + n * Unit(row, k)
<1>. DEFINE minus == -1
            one == 1
            a == Share(old, n)
            b == Share(row, n)
            h == Plus(c, a, minus)
            e == Plus(h, b, one)
<1>1. /\ a \in PlaylistRow /\ b \in PlaylistRow
      /\ \A k \in Columns : Column(a, k) = n * Unit(old, k) /\ Column(b, k) = n * Unit(row, k)
  BY ShareColumns
<1>2. minus \in Int /\ one \in Int
  OBVIOUS
<1>. HIDE DEF minus, one, a, b
<1>3. /\ h \in PlaylistRow
      /\ \A k \in Columns : Column(h, k) = Column(c, k) + minus * Column(a, k)
                            /\ Column(c, k) \in Int
  BY <1>1, <1>2, PlusColumns
<1>. HIDE DEF h
<1>4. /\ e \in PlaylistRow
      /\ \A k \in Columns : Column(e, k) = Column(h, k) + one * Column(b, k)
  BY <1>1, <1>2, <1>3, PlusColumns
<1>. HIDE DEF e
<1>5. ASSUME NEW k \in Columns
      PROVE  Column(e, k) = Column(c, k) - n * Unit(old, k) + n * Unit(row, k)
  <2>. DEFINE u == n * Unit(old, k)
              v == n * Unit(row, k)
  <2>1. u \in Int /\ v \in Int
    <3>1. Unit(old, k) \in Int /\ Unit(row, k) \in Int
      BY UnitType
    <3>. QED  BY <3>1, Distributes
  <2>2. Column(a, k) = u /\ Column(b, k) = v
    BY <1>1
  <2>. HIDE DEF u, v
  <2>3. Column(e, k) = Column(c, k) - u + v
    BY <1>3, <1>4, <2>1, <2>2 DEF minus, one
  <2>. QED  BY <2>3 DEF u, v
<1>. QED  BY <1>4, <1>5 DEF e, h, a, b, minus, one

LEMMA RecountedColumns ==
    ASSUME NEW c \in PlaylistRow, NEW old \in MediaRow, NEW row \in MediaRow, NEW n \in Int
    PROVE  LET e == TimeCounted(NbCounted(c, old, row, n), old, row)
           IN  /\ e \in PlaylistRow
               /\ \A k \in Columns :
                     Column(e, k) = Column(c, k) - Weight(k, n) * Unit(old, k)
                                                 + Weight(k, n) * Unit(row, k)
<1>. DEFINE a == Plus(Plus(c, Share(old, n), -1), Share(row, n), 1)
            b == NbCounted(c, old, row, n)
            t == Plus(Plus(b, Share(old, 1), -1), Share(row, 1), 1)
            e == TimeCounted(b, old, row)
<1>1. /\ a \in PlaylistRow
      /\ \A k \in Columns :
            Column(a, k) = Column(c, k) - n * Unit(old, k) + n * Unit(row, k)
  BY PlusTwice
<1>2. /\ b = [a EXCEPT !.duration = c.duration,
                       !.nb_duration_unknown = c.nb_duration_unknown]
      /\ e = [b EXCEPT !.duration = t.duration,
                       !.nb_duration_unknown = t.nb_duration_unknown]
  BY DEF NbCounted, TimeCounted
<1>. HIDE DEF a
<1>3. b \in PlaylistRow
      /\ b.nb = a.nb /\ b.present = a.present /\ b.duration = c.duration
      /\ b.nb_duration_unknown = c.nb_duration_unknown
  BY <1>1, <1>2 DEF PlaylistRow
<1>. HIDE DEF b
<1>4. /\ t \in PlaylistRow
      /\ \A k \in Columns :
            Column(t, k) = Column(b, k) - 1 * Unit(old, k) + 1 * Unit(row, k)
  <2>. DEFINE one == 1
  <2>1. one \in Int
    OBVIOUS
  <2>. HIDE DEF one
  <2>2. LET x == Plus(Plus(b, Share(old, one), -1), Share(row, one), 1)
        IN  /\ x \in PlaylistRow
            /\ \A k \in Columns :
                  Column(x, k) = Column(b, k) - one * Unit(old, k) + one * Unit(row, k)
    BY <1>3, <2>1, PlusTwice
  <2>. QED  BY <2>2 DEF one
<1>. HIDE DEF t
<1>5. e \in PlaylistRow
      /\ e.nb = a.nb /\ e.present = a.present /\ e.duration = t.duration
      /\ e.nb_duration_unknown = t.nb_duration_unknown
  BY <1>2, <1>3, <1>4 DEF PlaylistRow
<1>. HIDE DEF e
<1>6. ASSUME NEW k \in Columns
      PROVE  Column(e, k) = Column(c, k) - Weight(k, n) * Unit(old, k)
                                         + Weight(k, n) * Unit(row, k)
  <2>1. CASE \E y \in Types : k = <<"nb", y>> \/ k = <<"present", y>>
    <3>1. Column(e, k) = Column(a, k) /\ Weight(k, n) = n
      BY <1>5, <2>1 DEF Column, Weight, IsTimed
    <3>. QED  BY <1>1, <3>1
  <2>2. CASE k = <<"duration", "">>
    <3>1. Weight(k, n) = 1
      BY <2>2 DEF Weight, IsTimed
    <3>2. Column(e, k) = Column(t, k) /\ Column(b, k) = Column(c, k)
      BY <1>3, <1>5, <2>2 DEF Column
    <3>. QED  BY <1>4, <3>1, <3>2
  <2>3. CASE k = <<"unknown", "">>
    <3>1. Weight(k, n) = 1
      BY <2>3 DEF Weight, IsTimed
    <3>2. Column(e, k) = Column(t, k) /\ Column(b, k) = Column(c, k)
      BY <1>3, <1>5, <2>3 DEF Column
    <3>. QED  BY <1>4, <3>1, <3>2
  <2>. QED  BY <2>1, <2>2, <2>3, ColumnCases
<1>. QED  BY <1>5, <1>6 DEF e, b

LEMMA UpdateMediaIs ==
    ASSUME NEW d, Sound(d), NEW m \in Media, d.media[m] # NoRow, NEW row \in MediaRow
    PROVE  UpdateMedia(d, m, row) =
               [media |-> [d.media EXCEPT ![m] = row], playlists |-> Recounted(d, m, row),
                items |-> d.items]
<1>. DEFINE N(p) == Occurrences(d.items[p], m)
            pl1 == [p \in Playlists |->
                       IF d.playlists[p] = NoRow \/ N(p) = 0 THEN d.playlists[p]
                       ELSE NbCounted(d.playlists[p], d.media[m], row, N(p))]
            pl2 == [p \in Playlists |->
                       IF pl1[p] = NoRow \/ N(p) = 0 THEN pl1[p]
                       ELSE TimeCounted(pl1[p], d.media[m], row)]
            a == UpdateNbMediaOnMediaChange(d, m, row)
            b == UpdateDurationOnMediaChange(a, m, row)
<1>1. /\ d \in DbT /\ d.media \in MediaT /\ d.playlists \in PlaylistsT /\ d.items \in ItemsT
      /\ \A p \in Playlists : IsFiniteSet(d.items[p])
  BY SoundType
<1>2. a = [media |-> d.media, playlists |-> pl1, items |-> d.items]
  <2>1. a = [d EXCEPT !.playlists = pl1]
    BY DEF UpdateNbMediaOnMediaChange, OfItems, NbCounted
  <2>. HIDE DEF a, pl1
  <2>. QED  BY <1>1, <2>1 DEF DbT
<1>3. b = [media |-> d.media, playlists |-> pl2, items |-> d.items]
  <2>1. b = [a EXCEPT !.playlists = [p \in Playlists |->
                       IF a.playlists[p] = NoRow \/ Occurrences(a.items[p], m) = 0
                       THEN a.playlists[p]
                       ELSE TimeCounted(a.playlists[p], a.media[m], row)]]
    BY DEF UpdateDurationOnMediaChange, OfItems, TimeCounted
  <2>2. a.media = d.media /\ a.playlists = pl1 /\ a.items = d.items
    <3>. HIDE DEF a, pl1
    <3>. QED  BY <1>2
  <2>3. b = [a EXCEPT !.playlists = pl2]
    <3>. HIDE DEF a, b, pl1
    <3>. QED  BY <2>1, <2>2
  <2>. HIDE DEF a, b, pl1, pl2
  <2>. QED  BY <1>2, <2>3
<1>4. UpdateMedia(d, m, row) = [b EXCEPT !.media[m] = row]
  BY DEF UpdateMedia
<1>5. pl2 = Recounted(d, m, row)
  <2>1. ASSUME NEW p \in Playlists, d.playlists[p] # NoRow, N(p) # 0
        PROVE  pl1[p] # NoRow /\ pl1[p] = NbCounted(d.playlists[p], d.media[m], row, N(p))
    <3>1. N(p) \in Int
      <4>1. N(p) \in Nat
        BY <1>1, OccurrencesType
      <4>. QED  BY <4>1
    <3>2. d.playlists[p] \in PlaylistRow /\ d.media[m] \in MediaRow
      BY <1>1, <2>1 DEF PlaylistsT, MediaT
    <3>3. NbCounted(d.playlists[p], d.media[m], row, N(p)) \in PlaylistRow
      <4>. DEFINE c == d.playlists[p]
                  old == d.media[m]
                  n == N(p)
      <4>1. c \in PlaylistRow /\ old \in MediaRow /\ n \in Int
        BY <3>1, <3>2
      <4>. HIDE DEF c, old, n
      <4>2. Plus(Plus(c, Share(old, n), -1), Share(row, n), 1) \in PlaylistRow
        BY <4>1, PlusTwice
      <4>3. NbCounted(c, old, row, n) \in PlaylistRow
        BY <4>1, <4>2 DEF NbCounted, PlaylistRow
      <4>. QED  BY <4>3 DEF c, old, n
    <3>4. pl1[p] = NbCounted(d.playlists[p], d.media[m], row, N(p))
      BY <2>1
    <3>. QED  BY <3>3, <3>4, Constants
  <2>2. \A p \in Playlists : d.playlists[p] = NoRow \/ N(p) = 0 => pl1[p] = d.playlists[p]
    OBVIOUS
  <2>. HIDE DEF pl1
  <2>3. \A p \in Playlists : pl2[p] = Recounted(d, m, row)[p]
    BY <2>1, <2>2 DEF Recounted
  <2>. QED  BY <2>3 DEF Recounted
<1>. HIDE DEF b, pl2
<1>6. [b EXCEPT !.media[m] = row]
          = [media |-> [d.media EXCEPT ![m] = row], playlists |-> pl2, items |-> d.items]
  BY <1>3
<1>. QED  BY <1>4, <1>5, <1>6

LEMMA TimedUnits ==
    ASSUME NEW old \in MediaRow, NEW row \in MediaRow, row.duration = old.duration,
           NEW k \in Columns, IsTimed(k)
    PROVE  Unit(row, k) = Unit(old, k)
<1>1. row # NoRow /\ old # NoRow
  BY Constants
<1>2. CASE \E t \in Types : k = <<"nb", t>> \/ k = <<"present", t>>
  BY <1>2 DEF IsTimed
<1>3. CASE k = <<"duration", "">>
  BY <1>1, <1>3 DEF Unit, UnitOf
<1>4. CASE k = <<"unknown", "">>
  BY <1>1, <1>4 DEF Unit, UnitOf
<1>. QED  BY <1>2, <1>3, <1>4, ColumnCases

\* A row of Media is replaced.
LEMMA MediaReplaced ==
    ASSUME NEW rows \in MediaT, NEW m \in Media, NEW row \in MediaRow \cup {NoRow}
    PROVE  LET new == [rows EXCEPT ![m] = row]
           IN  /\ new \in MediaT /\ new[m] = row
               /\ \A n \in Media \ {m} : new[n] = rows[n]
BY DEF MediaT

\* Its type is known, its duration, its device comes or goes.
LEMMA UpdateMediaSound ==
    ASSUME NEW d, Sound(d), NEW m \in Media, d.media[m] # NoRow, NEW row \in MediaRow,
           row.nb_playlists = d.media[m].nb_playlists
    PROVE  LET e == UpdateMedia(d, m, row)
           IN  /\ Sound(e) /\ e.items = d.items
               /\ \A n \in Media : e.media[n] = NoRow <=> d.media[n] = NoRow
               /\ \A p \in Playlists : e.playlists[p] = NoRow <=> d.playlists[p] = NoRow
               /\ \A p \in Playlists :
                     /\ Matches(d, p) /\ IsPlaylist(d, p)
                     /\ row.duration = d.media[m].duration \/ Occurrences(d.items[p], m) <= 1
                     => Matches(e, p)
<1>. DEFINE rows == [d.media EXCEPT ![m] = row]
            pl == Recounted(d, m, row)
            e == UpdateMedia(d, m, row)
            old == d.media[m]
<1>1. /\ d \in DbT /\ d.media \in MediaT /\ d.playlists \in PlaylistsT /\ d.items \in ItemsT
      /\ old \in MediaRow /\ row # NoRow
      /\ \A p \in Playlists : IsFiniteSet(d.items[p])
  BY SoundType, Constants DEF MediaT
<1>2. e = [media |-> rows, playlists |-> pl, items |-> d.items]
  BY UpdateMediaIs
<1>3. /\ rows \in MediaT /\ rows[m] = row
      /\ \A n \in Media \ {m} : rows[n] = d.media[n]
  BY <1>1, MediaReplaced
<1>4. ASSUME NEW p \in Playlists
      PROVE  LET c == d.playlists[p]
                 n == Occurrences(d.items[p], m)
             IN  /\ n \in Nat
                 /\ c = NoRow \/ n = 0 => pl[p] = c
                 /\ c # NoRow /\ n # 0 =>
                       /\ pl[p] \in PlaylistRow /\ pl[p] # NoRow
                       /\ \A k \in Columns :
                             Column(pl[p], k) = Column(c, k) - Weight(k, n) * Unit(old, k)
                                                             + Weight(k, n) * Unit(row, k)
  <2>. DEFINE c == d.playlists[p]
              n == Occurrences(d.items[p], m)
              x == TimeCounted(NbCounted(c, old, row, n), old, row)
  <2>1. n \in Nat
    BY <1>1, OccurrencesType
  <2>2. pl[p] = IF c = NoRow \/ n = 0 THEN c ELSE x
    BY DEF Recounted
  <2>3. c # NoRow => c \in PlaylistRow
    BY <1>1 DEF PlaylistsT
  <2>. HIDE DEF n, c, pl, old
  <2>4. c # NoRow =>
           /\ x \in PlaylistRow
           /\ \A k \in Columns : Column(x, k) = Column(c, k) - Weight(k, n) * Unit(old, k)
                                                             + Weight(k, n) * Unit(row, k)
    <3>. SUFFICES ASSUME c # NoRow
                  PROVE  /\ x \in PlaylistRow
                         /\ \A k \in Columns :
                               Column(x, k) = Column(c, k) - Weight(k, n) * Unit(old, k)
                                                           + Weight(k, n) * Unit(row, k)
      OBVIOUS
    <3>1. c \in PlaylistRow /\ n \in Int
      BY <2>1, <2>3
    <3>. QED  BY <1>1, <3>1, RecountedColumns
  <2>. HIDE DEF x
  <2>. QED  BY <2>1, <2>2, <2>4, Constants DEF c, n
<1>. HIDE DEF rows, pl, e
<1>5. /\ pl \in PlaylistsT
      /\ \A p \in Playlists : pl[p] = NoRow <=> d.playlists[p] = NoRow
  <2>1. pl = [p \in Playlists |-> pl[p]]
    BY DEF pl, Recounted
  <2>2. \A p \in Playlists : d.playlists[p] \in PlaylistRow \cup {NoRow}
    BY <1>1 DEF PlaylistsT
  <2>3. \A p \in Playlists : /\ pl[p] \in PlaylistRow \cup {NoRow}
                             /\ pl[p] = NoRow <=> d.playlists[p] = NoRow
    BY <1>4, <2>2
  <2>. QED  BY <2>1, <2>3 DEF PlaylistsT
<1>6. e.media = rows /\ e.playlists = pl /\ e.items = d.items
  BY <1>2
<1>7. Sound(e)
  <2>1. e \in DbT
    BY <1>1, <1>2, <1>3, <1>5 DEF DbT
  <2>2. \A n \in Media : rows[n] # NoRow => rows[n].nb_playlists = InPlaylists(d.items, n)
    BY <1>3 DEF Sound, Exists
  <2>. QED  BY <1>6, <2>1, <2>2 DEF Sound, Exists
<1>8. ASSUME NEW p \in Playlists, Matches(d, p), IsPlaylist(d, p),
             row.duration = old.duration \/ Occurrences(d.items[p], m) <= 1
      PROVE  Matches(e, p)
  <2>. DEFINE c == d.playlists[p]
              occ == Occ(d.items[p])
              n == Occurrences(d.items[p], m)
  <2>1. occ \in [Media -> Int] /\ occ[m] = n /\ n \in Nat
    BY <1>1, <1>4, OccType
  <2>2. Counted(c, d.media, occ) /\ c # NoRow
    BY <1>8 DEF Matches, IsPlaylist
  <2>3. /\ n = 0 => pl[p] = c
        /\ n # 0 => /\ pl[p] \in PlaylistRow
                    /\ \A k \in Columns :
                             Column(pl[p], k) = Column(c, k) - Weight(k, n) * Unit(old, k)
                                                             + Weight(k, n) * Unit(row, k)
    BY <1>4, <2>2
  <2>4. row.duration = old.duration \/ n = 0 \/ n = 1
    BY <1>8, <2>1
  <2>. HIDE DEF c, occ, n
  <2>5. ASSUME NEW k \in Columns
        PROVE  Column(pl[p], k) = Worth(rows, occ, k)
    <3>. DEFINE u == Unit(old, k)
                v == Unit(row, k)
                w == Worth(d.media, occ, k)
    <3>1. Worth(rows, occ, k) = w - occ[m] * Unit(d.media[m], k) + occ[m] * Unit(rows[m], k)
      BY <1>1, <1>3, <2>1, WorthChange
    <3>2. u \in Nat /\ v \in Nat
      BY <1>1, UnitType
    <3>3. w \in Int
      <4>. DEFINE tm == Times(d.media, occ, k)
      <4>1. tm \in [Media -> Int]
        BY <1>1, <2>1, TimesType
      <4>. HIDE DEF tm
      <4>2. Sum(tm, Media) \in Int
        BY <4>1, Constants, SumType
      <4>. QED  BY <4>2 DEF tm, Worth
    <3>4. Column(c, k) = w
      BY <2>2 DEF Counted
    <3>5. Worth(rows, occ, k) = w - n * u + n * v
      BY <1>3, <2>1, <3>1
    <3>6. IsTimed(k) /\ row.duration = old.duration => u = v
      BY <1>1, TimedUnits
    <3>. HIDE DEF u, v, w
    <3>7. CASE n = 0
      BY <2>3, <3>2, <3>3, <3>4, <3>5, <3>7
    <3>8. CASE n # 0
      <4>1. Column(pl[p], k) = w - Weight(k, n) * u + Weight(k, n) * v
        BY <2>3, <3>4, <3>8 DEF u, v
      <4>2. CASE ~IsTimed(k)
        BY <3>5, <4>1, <4>2 DEF Weight
      <4>3. CASE IsTimed(k)
        <5>1. Weight(k, n) = 1
          BY <4>3 DEF Weight
        <5>2. CASE n = 1
          BY <3>5, <4>1, <5>1, <5>2
        <5>3. CASE u = v
          <6>1. n * u \in Int
            BY <2>1, <3>2
          <6>2. Worth(rows, occ, k) = w
            BY <3>3, <3>5, <5>3, <6>1
          <6>3. Column(pl[p], k) = w
            BY <3>2, <3>3, <4>1, <5>1, <5>3
          <6>. QED  BY <6>2, <6>3
        <5>. QED  BY <2>4, <3>6, <3>8, <4>3, <5>2, <5>3
      <4>. QED  BY <4>2, <4>3
    <3>. QED  BY <3>7, <3>8
  <2>6. pl[p] \in PlaylistRow
    BY <2>2, <2>3 DEF Counted
  <2>. QED  BY <1>6, <2>5, <2>6 DEF Matches, Counted, occ
<1>9. /\ \A n \in Media : e.media[n] = NoRow <=> d.media[n] = NoRow
      /\ \A p \in Playlists : e.playlists[p] = NoRow <=> d.playlists[p] = NoRow
  BY <1>1, <1>3, <1>5, <1>6
<1>. QED  BY <1>6, <1>7, <1>8, <1>9 DEF e

\* A media that no playlist has is created, or deleted.
LEMMA UnusedMediaSound ==
    ASSUME NEW d, Sound(d), NEW m \in Media, NEW row \in MediaRow \cup {NoRow},
           row # NoRow => row.nb_playlists = 0,
           \A p \in Playlists : Occurrences(d.items[p], m) = 0
    PROVE  LET e == [d EXCEPT !.media[m] = row]
           IN  /\ Sound(e) /\ e.items = d.items /\ e.playlists = d.playlists
               /\ e.media[m] = row /\ \A n \in Media \ {m} : e.media[n] = d.media[n]
               /\ \A p \in Playlists : Matches(d, p) => Matches(e, p)
<1>. DEFINE rows == [d.media EXCEPT ![m] = row]
            e == [media |-> rows, playlists |-> d.playlists, items |-> d.items]
<1>1. /\ d \in DbT /\ d.media \in MediaT /\ d.playlists \in PlaylistsT /\ d.items \in ItemsT
      /\ \A p \in Playlists : IsFiniteSet(d.items[p]) /\ Occ(d.items[p]) \in [Media -> Int]
  BY SoundType
<1>2. [d EXCEPT !.media[m] = row] = e
  BY <1>1 DEF DbT
<1>3. /\ rows \in MediaT /\ rows[m] = row
      /\ \A n \in Media \ {m} : rows[n] = d.media[n]
  BY <1>1 DEF MediaT
<1>. HIDE DEF rows
<1>4. InPlaylists(d.items, m) = 0
  <2>. DEFINE w == [p \in Playlists |-> Occurrences(d.items[p], m)]
  <2>1. \A p \in Playlists : w[p] = 0
    OBVIOUS
  <2>. HIDE DEF w
  <2>2. Sum(w, Playlists) = 0
    BY <2>1, Constants, SumZero
  <2>. QED  BY <2>2 DEF InPlaylists, w
<1>5. Sound(e)
  <2>1. e \in DbT
    BY <1>1, <1>3 DEF DbT
  <2>2. \A n \in Media : rows[n] # NoRow => rows[n].nb_playlists = InPlaylists(d.items, n)
    BY <1>3, <1>4 DEF Sound, Exists
  <2>. QED  BY <2>1, <2>2 DEF Sound, Exists
<1>6. ASSUME NEW p \in Playlists, Matches(d, p)
      PROVE  Matches(e, p)
  <2>. DEFINE occ == Occ(d.items[p])
  <2>1. occ \in [Media -> Int] /\ occ[m] = 0
    BY <1>1 DEF Occ
  <2>2. Counted(d.playlists[p], d.media, occ)
    BY <1>6 DEF Matches
  <2>. HIDE DEF occ
  <2>3. ASSUME NEW k \in Columns
        PROVE  Worth(d.media, occ, k) = Worth(rows, occ, k)
    <3>1. Unit(rows[m], k) \in Int /\ Unit(d.media[m], k) \in Int
      BY <1>1, <1>3, UnitType DEF MediaT
    <3>2. \A n \in Media : occ[n] * Unit(d.media[n], k) = occ[n] * Unit(rows[n], k)
      BY <1>3, <2>1, <3>1
    <3>. QED  BY <1>1, <1>3, <2>1, <3>2, WorthSame
  <2>. QED  BY <2>2, <2>3 DEF Matches, Counted, occ
<1>. QED  BY <1>2, <1>3, <1>5, <1>6

\* The counters without a media, and the rows without it.
Uncounted(d, m) ==
    [p \in Playlists |->
        LET c == d.playlists[p]
            n == Occurrences(d.items[p], m)
        IN  IF c = NoRow \/ n = 0 THEN c ELSE Plus(c, Share(d.media[m], n), -1)]
Holding(rows, m) == {r \in rows : r.media = m}
Without(rows, m) == DeleteRows(rows, Holding(rows, m))

LEMMA WithoutRows ==
    ASSUME NEW rows, Dense(rows), NEW m
    PROVE  /\ Dense(Without(rows, m))
           /\ \A n : Occurrences(Without(rows, m), n)
                         = IF n = m THEN 0 ELSE Occurrences(rows, n)
<1>. DEFINE gone == Holding(rows, m)
<1>1. gone \in SUBSET rows
  BY DEF Holding
<1>2. Occurrences(gone, m) = Occurrences(rows, m)
  <2>1. {r \in gone : r.media = m} = {r \in rows : r.media = m}
    BY DEF Holding
  <2>. HIDE DEF gone
  <2>. QED  BY <2>1 DEF Occurrences
<1>3. ASSUME NEW n, n # m
      PROVE  Occurrences(gone, n) = 0
  <2>1. {r \in gone : r.media = n} = {}
    BY <1>3 DEF Holding
  <2>. HIDE DEF gone
  <2>. QED  BY <2>1, FS_EmptySet DEF Occurrences
<1>4. ASSUME NEW n
      PROVE  Occurrences(rows, n) \in Nat
  BY DenseFinite, OccurrencesType
<1>. HIDE DEF gone
<1>5. /\ Dense(DeleteRows(rows, gone))
      /\ \A n : Occurrences(DeleteRows(rows, gone), n)
                    = Occurrences(rows, n) - Occurrences(gone, n)
  BY <1>1, DenseWithout
<1>. QED  BY <1>2, <1>3, <1>4, <1>5 DEF Without, gone

\* After the playlists of a set.
CutFrom(S, d, e, m) ==
    /\ Sound(e) /\ e.playlists = d.playlists /\ SameMedia(d.media, e.media)
    /\ \A q \in Playlists : e.items[q] = IF q \in S THEN Without(d.items[q], m) ELSE d.items[q]

LEMMA CutSound ==
    ASSUME NEW d, Sound(d), NEW m
    PROVE  CutFrom(Playlists, d, Fold(CutKind(m), d, Playlists), m)
<1>. DEFINE k == CutKind(m)
            Bad == {s \in SUBSET Playlists : ~CutFrom(s, d, Fold(k, d, s), m)}
<1>1. Bad = {}
  <2>. SUFFICES ASSUME Bad # {} PROVE FALSE
    OBVIOUS
  <2>1. PICK s \in Bad : \A u \in Bad : u \subseteq s => u = s
    <3>1. Bad \in SUBSET (SUBSET Playlists)
      OBVIOUS
    <3>. HIDE DEF Bad
    <3>. QED  BY <3>1, Constants, MinimalSubset
  <2>2. /\ s \in SUBSET Playlists /\ ~CutFrom(s, d, Fold(k, d, s), m)
        /\ \A u \in SUBSET s : u # s => CutFrom(u, d, Fold(k, d, u), m)
    BY <2>1
  <2>3. IsFiniteSet(s) /\ Foldable(k, s) /\ \A y, acc : Step(k, y, acc) = Cut(acc, y, m)
    BY <2>2, Constants, FS_Subset DEF Foldable, CutKind, Step
  <2>. HIDE DEF k
  <2>4. Unfolds(k, d, s)
    BY <2>3, FoldUnfolds
  <2>5. CASE s = {}
    <3>1. Fold(k, d, s) = d
      BY <2>4, <2>5 DEF Unfolds
    <3>. QED  BY <2>2, <2>5, <3>1 DEF CutFrom, SameMedia
  <2>6. CASE s # {}
    <3>. DEFINE x == Pick(k, s)
                u == s \ {x}
                a == Fold(k, d, u)
                rows == Without(a.items[x], m)
                e == SetItems(a, x, rows)
    <3>1. x \in s /\ Rest(k, s) = u
      BY <2>3, <2>6, Picked DEF Rest
    <3>2. Fold(k, d, s) = e
      <4>1. Fold(k, d, s) = Cut(a, x, m)
        BY <2>3, <2>4, <2>6, <3>1 DEF Unfolds
      <4>. QED  BY <4>1 DEF Cut, Without, Holding
    <3>. HIDE DEF x
    <3>3. CutFrom(u, d, a, m) /\ x \in Playlists /\ x \notin u /\ s = u \cup {x}
      BY <2>2, <3>1
    <3>. HIDE DEF u, a
    <3>4. Sound(a) /\ a.items[x] = d.items[x] /\ Dense(a.items[x]) /\ a.items \in ItemsT
      BY <3>3, SoundType DEF CutFrom, Sound
    <3>5. Dense(rows)
      BY <3>4, WithoutRows
    <3>6. rows = Without(d.items[x], m)
      BY <3>4
    <3>. HIDE DEF rows
    <3>7. /\ Sound(e) /\ e.playlists = a.playlists /\ SameMedia(a.media, e.media)
          /\ e.items = [a.items EXCEPT ![x] = rows]
      BY <3>3, <3>4, <3>5, SetItemsSound
    <3>. HIDE DEF e
    <3>8. ASSUME NEW q \in Playlists
          PROVE  e.items[q] = IF q \in s THEN Without(d.items[q], m) ELSE d.items[q]
      <4>1. CASE q = x
        BY <3>3, <3>4, <3>6, <3>7, <4>1 DEF ItemsT
      <4>2. CASE q # x
        BY <3>3, <3>4, <3>7, <4>2 DEF ItemsT, CutFrom
      <4>. QED  BY <4>1, <4>2
    <3>9. CutFrom(s, d, e, m)
      BY <3>3, <3>7, <3>8, SameMediaChain DEF CutFrom
    <3>. QED  BY <2>2, <3>2, <3>9
  <2>. QED  BY <2>5, <2>6
<1>. QED  BY <1>1

\* Its file is gone: the triggers of Media and of PlaylistMediaRelation.
LEMMA DeletedSound ==
    ASSUME NEW d, Sound(d), NEW m \in Media, d.media[m] # NoRow
    PROVE  LET e == UpdateNbMediaOnMediaDeletion(d, m)
           IN  /\ Sound(e)
               /\ \A q \in Playlists : e.playlists[q] = NoRow <=> d.playlists[q] = NoRow
               /\ \A q \in Playlists : d.items[q] = {} => e.items[q] = {}
               /\ \A q \in Playlists : Matches(d, q) /\ IsPlaylist(d, q) => Matches(e, q)
<1>. DEFINE e == UpdateNbMediaOnMediaDeletion(d, m)
            old == d.media[m]
            pl == Uncounted(d, m)
            rows == [d.media EXCEPT ![m] = NoRow]
            b == [media |-> rows, playlists |-> pl, items |-> d.items]
<1>1. /\ d \in DbT /\ d.media \in MediaT /\ d.playlists \in PlaylistsT /\ d.items \in ItemsT
      /\ old \in MediaRow /\ old.nb_playlists = InPlaylists(d.items, m)
      /\ \A p \in Playlists : IsFiniteSet(d.items[p]) /\ Occ(d.items[p]) \in [Media -> Int]
  BY SoundType DEF MediaT, Sound, Exists
<1>2. ASSUME NEW p \in Playlists
      PROVE  Occurrences(d.items[p], m) \in Nat
             /\ Occurrences(d.items[p], m) <= InPlaylists(d.items, m)
             /\ InPlaylists(d.items, m) \in Nat
  BY <1>1, OccurrencesType, PlacesType
<1>3. CASE old.nb_playlists = 0
  <2>1. e = [d EXCEPT !.media[m] = NoRow]
    BY <1>3 DEF UpdateNbMediaOnMediaDeletion
  <2>2. \A p \in Playlists : Occurrences(d.items[p], m) = 0
    BY <1>1, <1>2, <1>3
  <2>. DEFINE row == NoRow
  <2>3. row \in MediaRow \cup {NoRow} /\ (row # NoRow => row.nb_playlists = 0)
    OBVIOUS
  <2>4. e = [d EXCEPT !.media[m] = row]
    BY <2>1
  <2>. HIDE DEF e, row
  <2>5. /\ Sound(e) /\ e.items = d.items /\ e.playlists = d.playlists
        /\ \A p \in Playlists : Matches(d, p) => Matches(e, p)
    BY <2>2, <2>3, <2>4, UnusedMediaSound
  <2>. QED  BY <2>5 DEF e
<1>4. CASE old.nb_playlists # 0
  <2>1. e = Fold(CutKind(m), b, Playlists)
    <3>. DEFINE counted == OfItems(d, m, LAMBDA c, n : Plus(c, Share(old, n), -1))
                deleted == [counted EXCEPT !.media[m] = NoRow]
    <3>1. counted = [d EXCEPT !.playlists = pl]
      BY DEF OfItems, Uncounted
    <3>2. counted = [media |-> d.media, playlists |-> pl, items |-> d.items]
      <4>. HIDE DEF counted, pl
      <4>. QED  BY <1>1, <3>1 DEF DbT
    <3>3. deleted = b
      <4>. HIDE DEF counted, pl
      <4>. QED  BY <3>2
    <3>4. e = FoldSet(LAMBDA p, acc :
                         SetItems(acc, p, DeleteRows(acc.items[p],
                                             {r \in acc.items[p] : r.media = m})),
                      deleted, Playlists)
      BY <1>4 DEF UpdateNbMediaOnMediaDeletion
    <3>. HIDE DEF deleted, b, e
    <3>5. e = Fold(CutKind(m), deleted, Playlists)
      BY <3>4, CutFold
    <3>. QED  BY <3>3, <3>5
  <2>. HIDE DEF e
  <2>2. /\ rows \in MediaT /\ rows[m] = NoRow
        /\ \A n \in Media \ {m} : rows[n] = d.media[n]
    BY <1>1 DEF MediaT
  <2>3. ASSUME NEW p \in Playlists
        PROVE  LET c == d.playlists[p]
                   n == Occurrences(d.items[p], m)
                   x == Plus(c, Share(old, n), -1)
               IN  /\ pl[p] = IF c = NoRow \/ n = 0 THEN c ELSE x
                   /\ c # NoRow =>
                         /\ c \in PlaylistRow /\ x \in PlaylistRow
                         /\ \A k \in Columns : Column(x, k) = Column(c, k) - n * Unit(old, k)
    <3>. DEFINE c == d.playlists[p]
                n == Occurrences(d.items[p], m)
                minus == -1
                a == Share(old, n)
                x == Plus(c, a, minus)
    <3>1. pl[p] = IF c = NoRow \/ n = 0 THEN c ELSE x
      BY DEF Uncounted
    <3>2. n \in Int /\ minus \in Int
      BY <1>2
    <3>3. c # NoRow => c \in PlaylistRow
      BY <1>1 DEF PlaylistsT
    <3>. HIDE DEF c, n, minus, pl, old
    <3>4. a \in PlaylistRow /\ \A k \in Columns : Column(a, k) = n * Unit(old, k)
      BY <1>1, <3>2, ShareColumns
    <3>. HIDE DEF a
    <3>5. c # NoRow =>
             /\ x \in PlaylistRow
             /\ \A k \in Columns : /\ Column(x, k) = Column(c, k) + minus * Column(a, k)
                                   /\ Column(c, k) \in Int
      BY <3>2, <3>3, <3>4, PlusColumns
    <3>. HIDE DEF x
    <3>6. \A k \in Columns : Unit(old, k) \in Int /\ n * Unit(old, k) \in Int
      <4>. TAKE k \in Columns
      <4>1. Unit(old, k) \in Nat
        BY <1>1, UnitType
      <4>. QED  BY <3>2, <4>1
    <3>7. c # NoRow => \A k \in Columns : Column(x, k) = Column(c, k) - n * Unit(old, k)
      <4>. SUFFICES ASSUME c # NoRow, NEW k \in Columns
                    PROVE  Column(x, k) = Column(c, k) - n * Unit(old, k)
        OBVIOUS
      <4>. DEFINE u == n * Unit(old, k)
      <4>1. u \in Int /\ Column(a, k) = u
        BY <3>4, <3>6
      <4>. HIDE DEF u
      <4>2. Column(x, k) = Column(c, k) - u
        BY <3>5, <4>1 DEF minus
      <4>. QED  BY <4>2 DEF u
    <3>. QED  BY <3>1, <3>3, <3>5, <3>7 DEF c, n, minus, x, a
  <2>. HIDE DEF pl, rows
  <2>4. pl \in PlaylistsT /\ \A p \in Playlists : pl[p] = NoRow <=> d.playlists[p] = NoRow
    <3>1. pl = [p \in Playlists |-> pl[p]]
      BY DEF pl, Uncounted
    <3>2. \A p \in Playlists : /\ pl[p] \in PlaylistRow \cup {NoRow}
                               /\ pl[p] = NoRow <=> d.playlists[p] = NoRow
      <4>. TAKE p \in Playlists
      <4>. DEFINE c == d.playlists[p]
                  n == Occurrences(d.items[p], m)
                  x == Plus(c, Share(old, n), -1)
      <4>1. /\ pl[p] = IF c = NoRow \/ n = 0 THEN c ELSE x
            /\ c # NoRow => c \in PlaylistRow /\ x \in PlaylistRow
        BY <2>3
      <4>. HIDE DEF x, c, n
      <4>2. /\ pl[p] \in PlaylistRow \cup {NoRow}
            /\ pl[p] = NoRow <=> c = NoRow
        BY <4>1, Constants
      <4>. QED  BY <4>2 DEF c
    <3>. QED  BY <3>1, <3>2 DEF PlaylistsT
  <2>5. Sound(b)
    <3>1. b \in DbT
      BY <1>1, <2>2, <2>4 DEF DbT
    <3>2. \A n \in Media : rows[n] # NoRow => rows[n].nb_playlists = InPlaylists(d.items, n)
      BY <2>2 DEF Sound, Exists
    <3>. QED  BY <3>1, <3>2 DEF Sound, Exists
  <2>6. b.media = rows /\ b.playlists = pl /\ b.items = d.items
    OBVIOUS
  <2>. HIDE DEF b
  <2>7. CutFrom(Playlists, b, e, m)
    BY <2>1, <2>5, CutSound
  <2>8. /\ Sound(e) /\ e.playlists = pl /\ SameMedia(rows, e.media)
        /\ \A q \in Playlists : e.items[q] = Without(d.items[q], m)
    BY <2>6, <2>7 DEF CutFrom
  <2>9. ASSUME NEW q \in Playlists, d.items[q] = {}
        PROVE  e.items[q] = {}
    BY <2>8, <2>9 DEF Without, DeleteRows
  <2>10. ASSUME NEW q \in Playlists, Matches(d, q), IsPlaylist(d, q)
         PROVE  Matches(e, q)
    <3>. DEFINE c == d.playlists[q]
                n == Occurrences(d.items[q], m)
                x == Plus(c, Share(old, n), -1)
                occ == Occ(d.items[q])
                occ2 == Occ(e.items[q])
    <3>1. /\ pl[q] = IF n = 0 THEN c ELSE x
          /\ c \in PlaylistRow /\ x \in PlaylistRow
          /\ \A k \in Columns : Column(x, k) = Column(c, k) - n * Unit(old, k)
      BY <2>3, <2>10 DEF IsPlaylist
    <3>2. Counted(c, d.media, occ) /\ occ \in [Media -> Int] /\ occ[m] = n /\ n \in Nat
      BY <1>1, <1>2, <2>10 DEF Matches, Occ
    <3>3. occ2 \in [Media -> Int] /\ \A y \in Media \ {m} : occ2[y] = occ[y]
      <4>1. \A y \in Media : Occurrences(e.items[q], y)
                                 = IF y = m THEN 0 ELSE Occurrences(d.items[q], y)
        BY <2>8, WithoutRows DEF Sound
      <4>. QED  BY <2>8, <4>1, SoundType DEF Occ
    <3>4. e.media \in MediaT /\ e.media[m] = NoRow
      BY <2>2, <2>8, SoundType DEF SameMedia
    <3>. HIDE DEF c, n, x, occ, occ2, old
    <3>5. ASSUME NEW k \in Columns
          PROVE  Column(pl[q], k) = Worth(e.media, occ2, k)
      <4>. DEFINE w == Worth(d.media, occ, k)
                  u == Unit(old, k)
      <4>1. w \in Int
        <5>. DEFINE tm == Times(d.media, occ, k)
        <5>1. tm \in [Media -> Int]
          BY <1>1, <3>2, TimesType
        <5>. HIDE DEF tm
        <5>2. Sum(tm, Media) \in Int
          BY <5>1, Constants, SumType
        <5>. QED  BY <5>2 DEF tm, Worth
      <4>2. u \in Nat
        BY <1>1, UnitType
      <4>3. Column(c, k) = w
        BY <3>2 DEF Counted
      <4>4. Worth(rows, occ, k) = w - n * u + n * Unit(rows[m], k)
        <5>1. Worth(rows, occ, k)
                  = w - occ[m] * Unit(d.media[m], k) + occ[m] * Unit(rows[m], k)
          BY <1>1, <2>2, <3>2, WorthChange
        <5>. QED  BY <3>2, <5>1 DEF old
      <4>5. Unit(rows[m], k) = 0 /\ Unit(e.media[m], k) = 0
        BY <2>2, <3>4 DEF Unit
      <4>. HIDE DEF w, u
      <4>6. n * u \in Int
        BY <3>2, <4>2
      <4>7. Worth(rows, occ, k) = w - n * u
        BY <3>2, <4>1, <4>4, <4>5, <4>6
      <4>8. Worth(rows, occ, k) = Worth(e.media, occ2, k)
        <5>1. ASSUME NEW y \in Media
              PROVE  occ[y] * Unit(rows[y], k) = occ2[y] * Unit(e.media[y], k)
          <6>1. CASE y = m
            BY <3>2, <3>3, <4>5, <6>1
          <6>2. CASE y # m
            <7>1. Unit(rows[y], k) = Unit(e.media[y], k)
              BY <2>8, SameUnits
            <7>. QED  BY <3>3, <6>2, <7>1
          <6>. QED  BY <6>1, <6>2
        <5>. QED  BY <2>2, <3>2, <3>3, <3>4, <5>1, WorthSame
      <4>9. CASE n = 0
        BY <3>1, <4>1, <4>2, <4>3, <4>7, <4>8, <4>9
      <4>10. CASE n # 0
        BY <3>1, <4>3, <4>7, <4>8, <4>10 DEF u
      <4>. QED  BY <4>9, <4>10
    <3>6. pl[q] \in PlaylistRow
      BY <3>1
    <3>. QED  BY <2>8, <3>5, <3>6 DEF Matches, Counted, occ2
  <2>11. \A q \in Playlists : e.playlists[q] = NoRow <=> d.playlists[q] = NoRow
    BY <2>4, <2>8
  <2>. QED  BY <2>8, <2>9, <2>10, <2>11 DEF e
<1>. QED  BY <1>3, <1>4

-----------------------------------------------------------------------------
(* The inductive invariant.                                                *)

IInv ==
    /\ Sound(db)
    /\ spoilt \in [Playlists -> 0..MaxSpoilt]
    /\ \A p \in Playlists : playlists[p] = NoRow => items[p] = {}
    /\ \A p \in Playlists : \A r \in items[p] : Exists(db, r.media)
    /\ \A p \in Playlists : playlists[p] # NoRow /\ spoilt[p] = 0 => Matches(db, p)
    /\ \A p \in Playlists : Cardinality(items[p]) <= MaxItems

LEMMA Columned == db.media = media /\ db.playlists = playlists /\ db.items = items
BY DEF db

LEMMA InitIInv == Init => IInv
<1>. SUFFICES ASSUME Init PROVE IInv
  OBVIOUS
<1>1. db.media = media /\ db.playlists = playlists /\ db.items = items
  BY Columned
<1>2. db \in DbT
  BY DEF Init, db, DbT, MediaT, PlaylistsT, ItemsT
<1>3. \A p \in Playlists : db.items[p] = {} /\ Dense(db.items[p])
  BY <1>1, DenseEmpty DEF Init
<1>4. \A m \in Media : db.media[m] = NoRow
  BY <1>1 DEF Init
<1>5. Sound(db)
  BY <1>2, <1>3, <1>4 DEF Sound, Exists
<1>6. \A p \in Playlists : Cardinality(items[p]) <= MaxItems
  <2>1. Cardinality({}) = 0
    BY FS_EmptySet
  <2>. QED  BY <2>1, Constants DEF Init
<1>7. spoilt \in [Playlists -> 0..MaxSpoilt]
  BY Constants DEF Init
<1>8. \A p \in Playlists : playlists[p] = NoRow /\ items[p] = {}
  BY DEF Init
<1>. QED  BY <1>5, <1>6, <1>7, <1>8 DEF IInv

\* A transaction that is committed.
LEMMA Committing ==
    ASSUME IInv, NEW d, Sound(d), NEW wrong, Commit(d, wrong),
           \A p \in Playlists : d.playlists[p] = NoRow => d.items[p] = {},
           \A p \in Playlists :
              /\ d.playlists[p] # NoRow /\ p \notin wrong
              /\ playlists[p] # NoRow => Matches(db, p)
              => Matches(d, p)
    PROVE  IInv'
<1>1. /\ Valid(d) /\ media' = d.media /\ playlists' = d.playlists /\ items' = d.items
      /\ spoilt' = [p \in Playlists |->
                      IF IsPlaylist(d, p) /\ (spoilt[p] > 0 \/ p \in wrong) THEN spoilt[p] + 1
                      ELSE 0]
      /\ MapThenSumSet(LAMBDA p : Cardinality(d.items[p]), Playlists) <= MaxItems
      /\ \A p \in Playlists : spoilt'[p] <= MaxSpoilt
  BY DEF Commit
<1>2. db' = d
  <2>1. d = [media |-> d.media, playlists |-> d.playlists, items |-> d.items]
    BY DEF Sound, DbT
  <2>. QED  BY <1>1, <2>1 DEF db
<1>3. spoilt \in [Playlists -> 0..MaxSpoilt]
  BY DEF IInv
<1>4. spoilt' \in [Playlists -> 0..MaxSpoilt]
  <2>1. \A p \in Playlists : spoilt[p] \in Nat
    BY <1>3, Constants
  <2>2. \A p \in Playlists : spoilt'[p] \in Nat
    BY <1>1, <2>1
  <2>3. \A p \in Playlists : spoilt'[p] \in 0..MaxSpoilt
    BY <1>1, <2>2, Constants
  <2>. QED  BY <1>1, <2>3
<1>5. ASSUME NEW p \in Playlists, d.playlists[p] # NoRow, spoilt'[p] = 0
      PROVE  Matches(d, p)
  <2>1. spoilt[p] \in Nat
    BY <1>3, Constants
  <2>2. spoilt[p] = 0 /\ p \notin wrong
    BY <1>1, <1>5, <2>1 DEF IsPlaylist
  <2>3. playlists[p] # NoRow => Matches(db, p)
    BY <2>2 DEF IInv
  <2>. QED  BY <1>5, <2>2, <2>3
<1>6. ASSUME NEW p \in Playlists
      PROVE  Cardinality(d.items[p]) <= MaxItems
  <2>. DEFINE w == [q \in Playlists |-> Cardinality(d.items[q])]
  <2>1. \A q \in Playlists : w[q] \in Nat
    BY SoundType, FS_CardinalityType
  <2>2. Sum(w, Playlists) <= MaxItems
    BY <1>1, SizesAdd
  <2>3. w[p] = Cardinality(d.items[p])
    OBVIOUS
  <2>. HIDE DEF w
  <2>4. Sum(w, Playlists) \in Nat /\ w[p] <= Sum(w, Playlists)
    BY <2>1, Constants, SumNat
  <2>5. w[p] \in Nat /\ MaxItems \in Nat
    BY <2>1, Constants
  <2>. QED  BY <2>2, <2>3, <2>4, <2>5
<1>7. \A p \in Playlists : \A r \in d.items[p] : Exists(d, r.media)
  BY <1>1 DEF Valid
<1>. QED  BY <1>1, <1>2, <1>4, <1>5, <1>6, <1>7 DEF IInv

LEMMA CreatePlaylistKeeps ==
    ASSUME IInv, NEW p \in Playlists, createPlaylist(p)
    PROVE  IInv'
<1>. DEFINE d == [db EXCEPT !.playlists[p] = Empty]
<1>1. Sound(db) /\ ~IsPlaylist(db, p) /\ Commit(d, {})
  BY DEF createPlaylist, IInv
<1>2. Empty \in PlaylistRow /\ Empty # NoRow
  <2>1. Empty \in PlaylistRow
    BY DEF Empty, PlaylistRow
  <2>. QED  BY <2>1, Constants
<1>3. /\ Sound(d) /\ d.media = db.media /\ d.items = db.items
      /\ d.playlists[p] = Empty /\ Others(db.playlists, d.playlists, p)
  BY <1>1, <1>2, CountersSound
<1>4. items[p] = {} /\ \A q \in Playlists : playlists[q] = NoRow => items[q] = {}
  BY <1>1, Columned DEF IInv, IsPlaylist
<1>. HIDE DEF d
<1>5. Matches(d, p)
  <2>1. \A m \in Media : Occ(d.items[p])[m] = 0
    BY <1>3, <1>4, Columned, DenseEmpty DEF Occ
  <2>2. Counted(Empty, d.media, Occ(d.items[p]))
    BY <1>3, <2>1, SoundType, CountedEmpty
  <2>. QED  BY <1>3, <2>2 DEF Matches
<1>6. ASSUME NEW q \in Playlists, q # p, playlists[q] # NoRow => Matches(db, q),
             d.playlists[q] # NoRow
      PROVE  Matches(d, q)
  <2>1. d.playlists[q] = db.playlists[q]
    BY <1>3, <1>6 DEF Others
  <2>2. Matches(db, q)
    BY <1>6, <2>1, Columned
  <2>. QED  BY <1>3, <2>1, <2>2 DEF Matches
<1>7. \A q \in Playlists : d.playlists[q] = NoRow => d.items[q] = {}
  BY <1>2, <1>3, <1>4, Columned DEF Others
<1>. QED  BY <1>1, <1>3, <1>5, <1>6, <1>7, Committing

\* An edit that changes one playlist, and keeps it.
LEMMA EditKeeps ==
    ASSUME IInv, NEW d, Sound(d), NEW wrong, Commit(d, wrong),
           \A q \in Playlists : d.playlists[q] = NoRow <=> db.playlists[q] = NoRow,
           \A q \in Playlists : db.playlists[q] = NoRow => d.items[q] = {},
           \A q \in Playlists : q \notin wrong /\ Matches(db, q) => Matches(d, q)
    PROVE  IInv'
BY Columned, Committing

LEMMA DeletePlaylistKeeps ==
    ASSUME IInv, NEW p \in Playlists, deletePlaylist(p)
    PROVE  IInv'
<1>. DEFINE none == NoRow
            d == [SetItems(db, p, {}) EXCEPT !.playlists[p] = none]
<1>1. Sound(db) /\ Commit(d, {}) /\ none \in {Empty, NoRow} /\ none = NoRow
  BY DEF deletePlaylist, IInv
<1>2. \A q \in Playlists : playlists[q] = NoRow => items[q] = {}
  BY DEF IInv
<1>. HIDE DEF none
<1>3. /\ Sound(d) /\ d.items[p] = {} /\ d.playlists[p] = none
      /\ Others(db.playlists, d.playlists, p) /\ Others(db.items, d.items, p)
      /\ \A q \in Playlists : q # p /\ Matches(db, q) => Matches(d, q)
  BY <1>1, EmptiedSound
<1>. HIDE DEF d
<1>4. \A q \in Playlists : d.playlists[q] = NoRow => d.items[q] = {}
  BY <1>2, <1>3, Columned DEF Others
<1>5. \A q \in Playlists : /\ d.playlists[q] # NoRow
                           /\ playlists[q] # NoRow => Matches(db, q)
                           => Matches(d, q)
  BY <1>1, <1>3, Columned DEF Others
<1>. QED  BY <1>1, <1>3, <1>4, <1>5, Committing

LEMMA AddKeeps ==
    ASSUME IInv, NEW p \in Playlists, NEW list \in Lists, NEW position \in Positions,
           add(p, list, position)
    PROVE  IInv'
<1>. DEFINE d == Inserted(db, p, list, position)
<1>1. /\ Sound(db) /\ db.playlists[p] # NoRow /\ Commit(d, {})
      /\ \A i \in DOMAIN list : db.media[list[i]] # NoRow
  BY DEF add, IInv, IsPlaylist, Exists
<1>2. position \in Int
  BY Constants DEF UInt
<1>3. PICK n \in Nat : list \in [1..n -> Media]
  <2>1. CASE \E m \in Media : list = <<m>>
    <3>1. list \in [1..1 -> Media]
      BY <2>1
    <3>. QED  BY <3>1
  <2>2. CASE \E m, k \in Media : list = <<m, k>>
    <3>1. list \in [1..2 -> Media]
      BY <2>2
    <3>. QED  BY <3>1
  <2>. QED  BY <2>1, <2>2 DEF Lists
<1>4. \A i \in 1..n : db.media[list[i]] # NoRow
  BY <1>1, <1>3
<1>5. \A q \in Playlists : playlists[q] = NoRow => items[q] = {}
  BY DEF IInv
<1>6. /\ Sound(d) /\ d.playlists[p] # NoRow /\ Others(db.playlists, d.playlists, p)
      /\ Others(db.items, d.items, p)
      /\ \A q \in Playlists : Matches(db, q) => Matches(d, q)
  BY <1>1, <1>2, <1>3, <1>4, InsertedSound
<1>. HIDE DEF d
<1>7. /\ \A q \in Playlists : d.playlists[q] = NoRow <=> db.playlists[q] = NoRow
      /\ \A q \in Playlists : db.playlists[q] = NoRow => d.items[q] = {}
  BY <1>1, <1>5, <1>6, Columned DEF Others
<1>. QED  BY <1>1, <1>6, <1>7, EditKeeps

LEMMA RemoveKeeps ==
    ASSUME IInv, NEW p \in Playlists, NEW position \in Positions, NEW count \in Counts,
           removeItems(p, position, count)
    PROVE  IInv'
<1>. DEFINE d == Removed(db, p, position, count)
            gone == InRange(db.items[p], position, count)
            right == CountRemoved(db, p, position, count) = CounterAccumulator(db, gone)
            wrong == IF ~right THEN {p} ELSE {}
<1>1. Sound(db) /\ db.playlists[p] # NoRow /\ Commit(d, wrong)
  BY Columned DEF removeItems, IInv, IsPlaylist
<1>2. \A q \in Playlists : \A r \in db.items[q] : Exists(db, r.media)
  BY Columned DEF IInv
<1>3. /\ Sound(d) /\ d.playlists[p] # NoRow /\ Others(db.playlists, d.playlists, p)
      /\ Others(db.items, d.items, p)
      /\ \A q \in Playlists : q # p /\ Matches(db, q) => Matches(d, q)
      /\ right /\ Matches(db, p) => Matches(d, p)
  BY <1>1, <1>2, RemovedSound
<1>4. \A q \in Playlists : playlists[q] = NoRow => items[q] = {}
  BY DEF IInv
<1>5. p \notin wrong => right
  OBVIOUS
<1>. HIDE DEF d, right, wrong
<1>6. /\ \A q \in Playlists : d.playlists[q] = NoRow <=> db.playlists[q] = NoRow
      /\ \A q \in Playlists : db.playlists[q] = NoRow => d.items[q] = {}
  BY <1>1, <1>3, <1>4, Columned DEF Others
<1>7. \A q \in Playlists : q \notin wrong /\ Matches(db, q) => Matches(d, q)
  BY <1>3, <1>5
<1>. QED  BY <1>1, <1>3, <1>6, <1>7, EditKeeps

LEMMA MoveKeeps ==
    ASSUME IInv, NEW p \in Playlists, NEW from \in Positions, NEW position \in Positions,
           NEW count \in Counts, move(p, from, position, count)
    PROVE  IInv'
<1>. DEFINE d == Moved(db, p, from, position, count)
<1>1. Sound(db) /\ db.playlists[p] # NoRow /\ CanMove(db, p, from, count) /\ Commit(d, {})
  BY DEF move, IInv, IsPlaylist
<1>2. from \in Nat /\ count \in Nat /\ position \in Int
  BY Constants DEF UInt
<1>3. /\ Sound(d) /\ d.playlists = db.playlists /\ Others(db.items, d.items, p)
      /\ \A q \in Playlists : Matches(db, q) => Matches(d, q)
  BY <1>1, <1>2, MovedSound
<1>4. \A q \in Playlists : playlists[q] = NoRow => items[q] = {}
  BY DEF IInv
<1>. HIDE DEF d
<1>5. \A q \in Playlists : db.playlists[q] = NoRow => d.items[q] = {}
  BY <1>1, <1>3, <1>4, Columned DEF Others
<1>. QED  BY <1>1, <1>3, <1>5, EditKeeps

LEMMA ClearKeeps ==
    ASSUME IInv, NEW p \in Playlists, clearContent(p)
    PROVE  IInv'
<1>. DEFINE nothing == Empty
            d == [SetItems(db, p, {}) EXCEPT !.playlists[p] = nothing]
<1>1. /\ Sound(db) /\ db.playlists[p] # NoRow
      /\ media' = d.media /\ playlists' = d.playlists /\ items' = d.items
      /\ spoilt' = [spoilt EXCEPT ![p] = 0]
      /\ nothing \in {Empty, NoRow} /\ nothing = Empty
  BY DEF clearContent, Cleared, IInv, IsPlaylist
<1>2. /\ spoilt \in [Playlists -> 0..MaxSpoilt]
      /\ \A q \in Playlists : playlists[q] = NoRow => items[q] = {}
      /\ \A q \in Playlists : \A r \in items[q] : Exists(db, r.media)
      /\ \A q \in Playlists : playlists[q] # NoRow /\ spoilt[q] = 0 => Matches(db, q)
      /\ \A q \in Playlists : Cardinality(items[q]) <= MaxItems
  BY DEF IInv
<1>3. Empty # NoRow
  <2>1. Empty \in PlaylistRow
    BY DEF Empty, PlaylistRow
  <2>. QED  BY <2>1, Constants
<1>. HIDE DEF nothing
<1>4. /\ Sound(d) /\ SameMedia(db.media, d.media)
      /\ d.items[p] = {} /\ d.playlists[p] = nothing
      /\ Others(db.playlists, d.playlists, p) /\ Others(db.items, d.items, p)
      /\ \A q \in Playlists : q # p /\ Matches(db, q) => Matches(d, q)
      /\ nothing = Empty => Matches(d, p)
  BY <1>1, EmptiedSound
<1>. HIDE DEF d
<1>5. db' = d
  <2>1. d = [media |-> d.media, playlists |-> d.playlists, items |-> d.items]
    BY <1>4 DEF Sound, DbT
  <2>. QED  BY <1>1, <2>1 DEF db
<1>6. spoilt' \in [Playlists -> 0..MaxSpoilt] /\ \A q \in Playlists \ {p} : spoilt'[q] = spoilt[q]
  BY <1>1, <1>2, Constants
<1>7. ASSUME NEW q \in Playlists
      PROVE  /\ d.playlists[q] = NoRow => d.items[q] = {}
             /\ \A r \in d.items[q] : Exists(d, r.media)
             /\ d.playlists[q] # NoRow /\ spoilt'[q] = 0 => Matches(d, q)
             /\ Cardinality(d.items[q]) <= MaxItems
  <2>1. CASE q = p
    <3>1. Cardinality(d.items[q]) = 0 /\ d.items[q] = {}
      BY <1>4, <2>1, FS_EmptySet
    <3>2. Matches(d, q) /\ d.playlists[q] # NoRow
      BY <1>1, <1>3, <1>4, <2>1
    <3>3. 0 <= MaxItems
      BY Constants
    <3>. QED  BY <3>1, <3>2, <3>3
  <2>2. CASE q # p
    <3>1. d.items[q] = items[q] /\ d.playlists[q] = playlists[q] /\ spoilt'[q] = spoilt[q]
      BY <1>4, <1>6, <2>2, Columned DEF Others
    <3>2. \A r \in items[q] : Exists(d, r.media)
      <4>1. items[q] \subseteq Item
        BY <1>1, SoundType, Columned
      <4>. QED  BY <1>2, <1>4, <4>1 DEF SameMedia, Exists, Item
    <3>. QED  BY <1>2, <1>4, <2>2, <3>1, <3>2
  <2>. QED  BY <2>1, <2>2
<1>. QED  BY <1>1, <1>4, <1>5, <1>6, <1>7 DEF IInv

LEMMA CreateMediaKeeps ==
    ASSUME IInv, NEW m \in Media, NEW type \in Types, NEW duration \in Durations,
           createMedia(m, type, duration)
    PROVE  IInv'
<1>. DEFINE row == [type |-> type, is_present |-> TRUE, duration |-> duration,
                    nb_playlists |-> 0]
            d == [db EXCEPT !.media[m] = row]
<1>1. Sound(db) /\ ~Exists(db, m) /\ Commit(d, {})
  BY DEF createMedia, IInv
<1>2. row \in MediaRow \cup {NoRow} /\ (row # NoRow => row.nb_playlists = 0)
  BY DEF MediaRow
<1>3. \A q \in Playlists : playlists[q] = NoRow => items[q] = {}
  BY DEF IInv
<1>. HIDE DEF row
<1>4. ASSUME NEW q \in Playlists
      PROVE  Occurrences(db.items[q], m) = 0
  <2>1. {r \in db.items[q] : r.media = m} = {}
    BY <1>1, Columned DEF IInv
  <2>. QED  BY <2>1, FS_EmptySet DEF Occurrences
<1>5. /\ Sound(d) /\ d.items = db.items /\ d.playlists = db.playlists
      /\ \A q \in Playlists : Matches(db, q) => Matches(d, q)
  BY <1>1, <1>2, <1>4, UnusedMediaSound
<1>. HIDE DEF d
<1>. QED  BY <1>1, <1>3, <1>5, Columned, Committing

LEMMA UpdateMediaKeeps ==
    ASSUME IInv, NEW m \in Media, NEW row \in MediaRow,
           row.nb_playlists = media[m].nb_playlists, updateMedia(m, row)
    PROVE  IInv'
<1>. DEFINE d == UpdateMedia(db, m, row)
            wrong == {p \in Playlists : /\ row.duration # media[m].duration
                                        /\ Occurrences(items[p], m) > 1}
<1>1. Sound(db) /\ db.media[m] # NoRow /\ Commit(d, wrong)
  BY DEF updateMedia, IInv, Exists
<1>2. /\ \A q \in Playlists : playlists[q] = NoRow => items[q] = {}
      /\ \A q \in Playlists : Occurrences(items[q], m) \in Nat
  <2>1. \A q \in Playlists : IsFiniteSet(items[q])
    BY <1>1, SoundType, Columned
  <2>. QED  BY <2>1, OccurrencesType DEF IInv
<1>3. /\ Sound(d) /\ d.items = db.items
      /\ \A p \in Playlists : d.playlists[p] = NoRow <=> db.playlists[p] = NoRow
      /\ \A p \in Playlists :
            /\ Matches(db, p) /\ IsPlaylist(db, p)
            /\ row.duration = db.media[m].duration \/ Occurrences(db.items[p], m) <= 1
            => Matches(d, p)
  BY <1>1, Columned, UpdateMediaSound
<1>4. \A p \in Playlists :
         p \notin wrong => row.duration = db.media[m].duration \/ Occurrences(db.items[p], m) <= 1
  BY <1>2, Columned
<1>. HIDE DEF d, wrong
<1>5. \A p \in Playlists :
         /\ d.playlists[p] # NoRow /\ p \notin wrong
         /\ playlists[p] # NoRow => Matches(db, p)
         => Matches(d, p)
  BY <1>3, <1>4, Columned DEF IsPlaylist
<1>. QED  BY <1>1, <1>2, <1>3, <1>5, Columned, Committing

LEMMA DeleteMediaKeeps ==
    ASSUME IInv, NEW m \in Media, deleteMedia(m)
    PROVE  IInv'
<1>. DEFINE d == UpdateNbMediaOnMediaDeletion(db, m)
<1>1. Sound(db) /\ db.media[m] # NoRow /\ Commit(d, {})
  BY DEF deleteMedia, IInv, Exists
<1>2. \A q \in Playlists : playlists[q] = NoRow => items[q] = {}
  BY DEF IInv
<1>3. /\ Sound(d)
      /\ \A q \in Playlists : d.playlists[q] = NoRow <=> db.playlists[q] = NoRow
      /\ \A q \in Playlists : db.items[q] = {} => d.items[q] = {}
      /\ \A q \in Playlists : Matches(db, q) /\ IsPlaylist(db, q) => Matches(d, q)
  BY <1>1, DeletedSound
<1>. HIDE DEF d
<1>4. /\ \A q \in Playlists : d.playlists[q] = NoRow => d.items[q] = {}
      /\ \A q \in Playlists : /\ d.playlists[q] # NoRow
                              /\ playlists[q] # NoRow => Matches(db, q)
                              => Matches(d, q)
  BY <1>2, <1>3, Columned DEF IsPlaylist
<1>. QED  BY <1>1, <1>3, <1>4, Committing

LEMMA NextKeeps == IInv /\ [Next]_vars => IInv'
<1>. SUFFICES ASSUME IInv, [Next]_vars
              PROVE  IInv'
  OBVIOUS
<1>1. CASE \E p \in Playlists : createPlaylist(p) \/ deletePlaylist(p) \/ clearContent(p)
  BY <1>1, CreatePlaylistKeeps, DeletePlaylistKeeps, ClearKeeps
<1>2. CASE \E p \in Playlists, list \in Lists, position \in Positions : add(p, list, position)
  BY <1>2, AddKeeps
<1>3. CASE \E p \in Playlists, position \in Positions, count \in Counts :
              removeItems(p, position, count)
  BY <1>3, RemoveKeeps
<1>4. CASE \E p \in Playlists, from \in Positions, position \in Positions, count \in Counts :
              move(p, from, position, count)
  BY <1>4, MoveKeeps
<1>5. CASE \E m \in Media, type \in Types, duration \in Durations :
              createMedia(m, type, duration)
  BY <1>5, CreateMediaKeeps
<1>6. CASE \E m \in Media : deleteMedia(m)
  BY <1>6, DeleteMediaKeeps
<1>7. CASE \E m \in Media : Exists(db, m) /\
              \/ \E type \in Types : setType(m, type)
              \/ \E duration \in Durations : setDuration(m, duration)
              \/ \E present \in BOOLEAN : setPresent(m, present)
  <2>1. PICK m \in Media : Exists(db, m) /\
              \/ \E type \in Types : setType(m, type)
              \/ \E duration \in Durations : setDuration(m, duration)
              \/ \E present \in BOOLEAN : setPresent(m, present)
    BY <1>7
  <2>2. media[m] \in MediaRow
    BY <2>1, Columned, SoundType DEF IInv, Exists, MediaT
  <2>3. CASE \E type \in Types : setType(m, type)
    <3>1. PICK type \in Types : updateMedia(m, [media[m] EXCEPT !.type = type])
      BY <2>3 DEF setType
    <3>. DEFINE row == [media[m] EXCEPT !.type = type]
    <3>2. row \in MediaRow /\ row.nb_playlists = media[m].nb_playlists
      BY <2>2 DEF MediaRow
    <3>. HIDE DEF row
    <3>. QED  BY <3>1, <3>2, UpdateMediaKeeps DEF row
  <2>4. CASE \E duration \in Durations : setDuration(m, duration)
    <3>1. PICK duration \in Durations : updateMedia(m, [media[m] EXCEPT !.duration = duration])
      BY <2>4 DEF setDuration
    <3>. DEFINE row == [media[m] EXCEPT !.duration = duration]
    <3>2. row \in MediaRow /\ row.nb_playlists = media[m].nb_playlists
      BY <2>2 DEF MediaRow
    <3>. HIDE DEF row
    <3>. QED  BY <3>1, <3>2, UpdateMediaKeeps DEF row
  <2>5. CASE \E present \in BOOLEAN : setPresent(m, present)
    <3>1. PICK present \in BOOLEAN : updateMedia(m, [media[m] EXCEPT !.is_present = present])
      BY <2>5 DEF setPresent
    <3>. DEFINE row == [media[m] EXCEPT !.is_present = present]
    <3>2. row \in MediaRow /\ row.nb_playlists = media[m].nb_playlists
      BY <2>2 DEF MediaRow
    <3>. HIDE DEF row
    <3>. QED  BY <3>1, <3>2, UpdateMediaKeeps DEF row
  <2>. QED  BY <2>1, <2>3, <2>4, <2>5
<1>8. CASE UNCHANGED vars
  BY <1>8 DEF IInv, vars, db
<1>. QED  BY <1>1, <1>2, <1>3, <1>4, <1>5, <1>6, <1>7, <1>8 DEF Next

LEMMA Invariance == Spec => []IInv
BY InitIInv, NextKeeps, PTL DEF Spec

-----------------------------------------------------------------------------
(* The lists of the documentation.                                         *)

\* A list put into another one.
Spliced(k, s, at, list, i) ==
    [j \in 1..(k + i) |-> IF j <= at THEN s[j]
                          ELSE IF j <= at + i THEN list[j - at] ELSE s[j - i]]

LEMMA ListIsSeq ==
    ASSUME NEW n \in Nat, NEW s \in [1..n -> Media]
    PROVE  s \in Seq(Media) /\ Len(s) = n
<1>1. s \in Seq(Media)
  BY SeqDef
<1>2. Len(s) \in Nat /\ DOMAIN s = 1..Len(s)
  BY <1>1, LenProperties
<1>3. DOMAIN s = 1..n
  OBVIOUS
<1>. QED  BY <1>1, <1>2, <1>3

LEMMA SameList ==
    ASSUME NEW t \in Seq(Media), NEW n \in Nat, NEW s \in [1..n -> Media], Len(t) = n,
           \A i \in 1..n : t[i] = s[i]
    PROVE  t = s
BY ListIsSeq, SeqEqual

LEMMA SplicedIs ==
    ASSUME NEW k \in Nat, NEW s \in [1..k -> Media], NEW n \in Nat, NEW list \in [1..n -> Media],
           NEW position \in Nat
    PROVE  LET at == IF position < k THEN position ELSE k
           IN  InsertedInto(s, list, position) = Spliced(k, s, at, list, n)
<1>. DEFINE at == IF position < k THEN position ELSE k
            a == SubSeq(s, 1, at)
            c == SubSeq(s, at + 1, k)
            t == (a \o list) \o c
            u == Spliced(k, s, at, list, n)
<1>1. s \in Seq(Media) /\ Len(s) = k /\ list \in Seq(Media) /\ Len(list) = n
  BY ListIsSeq
<1>2. at \in 0..k
  OBVIOUS
<1>3. InsertedInto(s, list, position) = t
  BY <1>1 DEF InsertedInto
<1>. HIDE DEF at
<1>4. a \in Seq(Media) /\ Len(a) = at /\ \A i \in 1..at : a[i] = s[i]
  <2>1. \A i \in 1..at : s[i] \in Media
    BY <1>2
  <2>2. /\ a \in Seq(Media) /\ Len(a) = (IF 1 <= at THEN at - 1 + 1 ELSE 0)
        /\ \A i \in 1..(at - 1 + 1) : a[i] = s[1 + i - 1]
    <3>. DEFINE one == 1
    <3>1. one \in Int /\ at \in Int /\ \A i \in one..at : s[i] \in Media
      BY <1>2, <2>1
    <3>. HIDE DEF one
    <3>2. LET b == SubSeq(s, one, at)
          IN  /\ b \in Seq(Media) /\ Len(b) = (IF one <= at THEN at - one + 1 ELSE 0)
              /\ \A i \in 1..(at - one + 1) : b[i] = s[one + i - 1]
      BY <3>1, SubSeqProperties
    <3>. QED  BY <3>2 DEF one
  <2>. HIDE DEF a
  <2>. QED  BY <1>2, <2>2
<1>5. c \in Seq(Media) /\ Len(c) = k - at /\ \A i \in 1..(k - at) : c[i] = s[at + i]
  <2>. DEFINE m == at + 1
  <2>1. m \in Int /\ k \in Int /\ \A i \in m..k : s[i] \in Media
    BY <1>2
  <2>. HIDE DEF m
  <2>2. LET b == SubSeq(s, m, k)
        IN  /\ b \in Seq(Media) /\ Len(b) = (IF m <= k THEN k - m + 1 ELSE 0)
            /\ \A i \in 1..(k - m + 1) : b[i] = s[m + i - 1]
    BY <2>1, SubSeqProperties
  <2>3. /\ c \in Seq(Media) /\ Len(c) = (IF at + 1 <= k THEN k - (at + 1) + 1 ELSE 0)
        /\ \A i \in 1..(k - (at + 1) + 1) : c[i] = s[(at + 1) + i - 1]
    BY <2>2 DEF m
  <2>. HIDE DEF c
  <2>. QED  BY <1>2, <2>3
<1>. HIDE DEF a, c
<1>. DEFINE b == a \o list
<1>6. /\ b \in Seq(Media) /\ Len(b) = at + n
      /\ \A i \in 1..(at + n) : b[i] = IF i <= at THEN a[i] ELSE list[i - at]
  <2>1. /\ b \in Seq(Media) /\ Len(b) = Len(a) + Len(list)
        /\ \A i \in 1..(Len(a) + Len(list)) :
              b[i] = IF i <= Len(a) THEN a[i] ELSE list[i - Len(a)]
    BY <1>1, <1>4, ConcatProperties
  <2>. HIDE DEF b
  <2>. QED  BY <1>1, <1>4, <2>1
<1>. HIDE DEF b
<1>. DEFINE v == b \o c
<1>7. /\ v \in Seq(Media) /\ Len(v) = k + n
      /\ \A i \in 1..(k + n) : v[i] = IF i <= at + n THEN b[i] ELSE c[i - (at + n)]
  <2>1. /\ v \in Seq(Media) /\ Len(v) = Len(b) + Len(c)
        /\ \A i \in 1..(Len(b) + Len(c)) :
              v[i] = IF i <= Len(b) THEN b[i] ELSE c[i - Len(b)]
    BY <1>5, <1>6, ConcatProperties
  <2>2. Len(b) + Len(c) = k + n /\ Len(b) = at + n
    BY <1>2, <1>5, <1>6
  <2>. HIDE DEF v
  <2>. QED  BY <2>1, <2>2
<1>. HIDE DEF v
<1>8. u \in [1..(k + n) -> Media]
  BY <1>2 DEF Spliced
<1>9. ASSUME NEW i \in 1..(k + n)
      PROVE  v[i] = u[i]
  <2>1. u[i] = IF i <= at THEN s[i] ELSE IF i <= at + n THEN list[i - at] ELSE s[i - n]
    BY DEF Spliced
  <2>. HIDE DEF u
  <2>2. CASE i <= at
    BY <1>2, <1>4, <1>6, <1>7, <2>1, <2>2
  <2>3. CASE i > at /\ i <= at + n
    BY <1>2, <1>6, <1>7, <2>1, <2>3
  <2>4. CASE i > at + n
    <3>1. v[i] = c[i - (at + n)] /\ i - (at + n) \in 1..(k - at)
      BY <1>2, <1>7, <2>4
    <3>2. c[i - (at + n)] = s[at + (i - (at + n))]
      BY <1>5, <3>1
    <3>3. at + (i - (at + n)) = i - n
      BY <1>2
    <3>. QED  BY <1>2, <2>1, <2>4, <3>1, <3>2, <3>3
  <2>. QED  BY <1>2, <2>2, <2>3, <2>4
<1>. HIDE DEF u
<1>10. v = u
  <2>. DEFINE w == k + n
  <2>1. w \in Nat /\ u \in [1..w -> Media] /\ Len(v) = w /\ \A i \in 1..w : v[i] = u[i]
    BY <1>7, <1>8, <1>9
  <2>. HIDE DEF w
  <2>. QED  BY <1>7, <2>1, SameList
<1>11. t = v
  BY DEF v, b
<1>. QED  BY <1>3, <1>10, <1>11 DEF u, at

LEMMA SkipIs ==
    ASSUME NEW n \in Nat, NEW s \in [1..n -> Media], NEW from \in Nat, NEW to \in Nat,
           from <= to, to <= n
    PROVE  /\ WithoutRange(s, from, to - from) = Skip(n, s, from, to)
           /\ Skip(n, s, from, to) \in [1..(n - (to - from)) -> Media]
<1>. DEFINE u == Skip(n, s, from, to)
            a == SubSeq(s, 1, from)
            c == SubSeq(s, to + 1, n)
            t == a \o c
            k == n - (to - from)
<1>1. s \in Seq(Media) /\ Len(s) = n
  BY ListIsSeq
<1>2. WithoutRange(s, from, to - from) = t
  <2>1. from + (to - from) + 1 = to + 1
    OBVIOUS
  <2>. QED  BY <1>1, <2>1 DEF WithoutRange
<1>3. a \in Seq(Media) /\ Len(a) = from /\ \A i \in 1..from : a[i] = s[i]
  <2>. DEFINE one == 1
  <2>1. one \in Int /\ from \in Int /\ \A i \in one..from : s[i] \in Media
    OBVIOUS
  <2>. HIDE DEF one
  <2>2. LET b == SubSeq(s, one, from)
        IN  /\ b \in Seq(Media) /\ Len(b) = (IF one <= from THEN from - one + 1 ELSE 0)
            /\ \A i \in 1..(from - one + 1) : b[i] = s[one + i - 1]
    BY <2>1, SubSeqProperties
  <2>3. /\ a \in Seq(Media) /\ Len(a) = (IF 1 <= from THEN from - 1 + 1 ELSE 0)
        /\ \A i \in 1..(from - 1 + 1) : a[i] = s[1 + i - 1]
    BY <2>2 DEF one
  <2>. HIDE DEF a
  <2>. QED  BY <2>3
<1>4. c \in Seq(Media) /\ Len(c) = n - to /\ \A i \in 1..(n - to) : c[i] = s[to + i]
  <2>. DEFINE m == to + 1
  <2>1. m \in Int /\ n \in Int /\ \A i \in m..n : s[i] \in Media
    OBVIOUS
  <2>. HIDE DEF m
  <2>2. LET b == SubSeq(s, m, n)
        IN  /\ b \in Seq(Media) /\ Len(b) = (IF m <= n THEN n - m + 1 ELSE 0)
            /\ \A i \in 1..(n - m + 1) : b[i] = s[m + i - 1]
    BY <2>1, SubSeqProperties
  <2>3. /\ c \in Seq(Media) /\ Len(c) = (IF to + 1 <= n THEN n - (to + 1) + 1 ELSE 0)
        /\ \A i \in 1..(n - (to + 1) + 1) : c[i] = s[(to + 1) + i - 1]
    BY <2>2 DEF m
  <2>. HIDE DEF c
  <2>. QED  BY <2>3
<1>. HIDE DEF a, c
<1>5. /\ t \in Seq(Media) /\ Len(t) = k
      /\ \A i \in 1..k : t[i] = IF i <= from THEN a[i] ELSE c[i - from]
  <2>1. /\ t \in Seq(Media) /\ Len(t) = Len(a) + Len(c)
        /\ \A i \in 1..(Len(a) + Len(c)) :
              t[i] = IF i <= Len(a) THEN a[i] ELSE c[i - Len(a)]
    BY <1>3, <1>4, ConcatProperties
  <2>2. Len(a) + Len(c) = k /\ Len(a) = from
    BY <1>3, <1>4
  <2>. HIDE DEF t, k
  <2>. QED  BY <2>1, <2>2
<1>. HIDE DEF t
<1>6. u \in [1..k -> Media] /\ k \in Nat
  BY DEF Skip
<1>7. ASSUME NEW i \in 1..k
      PROVE  t[i] = u[i]
  <2>1. u[i] = IF i <= from THEN s[i] ELSE s[i + (to - from)]
    BY DEF Skip
  <2>. HIDE DEF u
  <2>2. CASE i <= from
    BY <1>3, <1>5, <2>1, <2>2
  <2>3. CASE i > from
    <3>1. t[i] = c[i - from] /\ i - from \in 1..(n - to)
      BY <1>5, <2>3
    <3>2. c[i - from] = s[to + (i - from)]
      BY <1>4, <3>1
    <3>3. to + (i - from) = i + (to - from)
      OBVIOUS
    <3>. QED  BY <2>1, <2>3, <3>1, <3>2, <3>3
  <2>. QED  BY <2>2, <2>3
<1>8. t = u
  <2>. HIDE DEF u, k
  <2>. QED  BY <1>5, <1>6, <1>7, SameList
<1>. QED  BY <1>2, <1>6, <1>8 DEF u, k

LEMMA TakenIs ==
    ASSUME NEW n \in Nat, NEW s \in [1..n -> Media], NEW from \in Nat, NEW count \in Nat,
           from + count <= n, NEW list \in [1..count -> Media],
           \A i \in 1..count : list[i] = s[from + i]
    PROVE  SubSeq(s, from + 1, from + count) = list
<1>. DEFINE m == from + 1
            k == from + count
            t == SubSeq(s, m, k)
<1>1. m \in Int /\ k \in Int /\ \A i \in m..k : s[i] \in Media
  OBVIOUS
<1>. HIDE DEF m, k
<1>2. /\ t \in Seq(Media) /\ Len(t) = (IF m <= k THEN k - m + 1 ELSE 0)
      /\ \A i \in 1..(k - m + 1) : t[i] = s[m + i - 1]
  BY <1>1, SubSeqProperties, SMTT(60)
<1>. HIDE DEF t
<1>3. Len(t) = count /\ \A i \in 1..count : t[i] = s[from + i]
  BY <1>2 DEF m, k
<1>4. t = list
  BY <1>2, <1>3, SameList
<1>. QED  BY <1>4 DEF t, m, k

\* addInternal(): where the list ends up.
LEMMA AddedList ==
    ASSUME NEW d, Sound(d), NEW p \in Playlists, NEW n \in Nat, NEW list \in [1..n -> Media],
           NEW position \in Nat, position = UIntMax \/ position + n - 1 <= UIntMax,
           NEW k, NEW s, IsList(d.items[p], k, s), k <= UIntMax
    PROVE  Order(addRows(d, p, list, position).items[p]) = InsertedInto(s, list, position)
<1>. DEFINE kind == RowsKind(p, list, position)
            F(i) == Fold(kind, d, 1..i)
            at == IF position < k THEN position ELSE k
            Placed(i, e) == Sound(e) /\ IsList(e.items[p], k + i, Spliced(k, s, at, list, i))
            Good == {i \in 0..n : Placed(i, F(i))}
<1>1. addRows(d, p, list, position) = F(n)
  BY AddRowsFold
<1>2. F(0) = d /\ \A i \in 0..(n - 1) : F(i + 1) = AddRow(F(i), p, list, position, i + 1)
  <2>1. IsOrdered(kind) /\ \A x, acc : Step(kind, x, acc) = AddRow(acc, p, list, position, x)
    BY Kinds
  <2>. HIDE DEF kind
  <2>2. F(0) = d
    BY <2>1, FoldList
  <2>3. ASSUME NEW i \in 0..(n - 1)
        PROVE  F(i + 1) = AddRow(F(i), p, list, position, i + 1)
    <3>. DEFINE j == i + 1
    <3>1. j \in Nat /\ j # 0 /\ j - 1 = i
      OBVIOUS
    <3>. HIDE DEF j
    <3>2. Fold(kind, d, 1..j) = Step(kind, j, Fold(kind, d, 1..(j - 1)))
      BY <2>1, <3>1, FoldList
    <3>. QED  BY <2>1, <3>1, <3>2 DEF j
  <2>. QED  BY <2>2, <2>3
<1>. HIDE DEF F
<1>3. k \in Nat /\ s \in [1..k -> Media] /\ at \in 0..k /\ UIntMax \in Nat
  BY Constants DEF IsList
<1>4. 0 \in Good
  <2>1. Spliced(k, s, at, list, 0) = s
    BY <1>3 DEF Spliced
  <2>. HIDE DEF at
  <2>. QED  BY <1>2, <1>3, <2>1
<1>5. ASSUME NEW i \in 0..(n - 1), i \in Good
      PROVE  i + 1 \in Good
  <2>. DEFINE b == F(i)
              j == i + 1
              h == k + i
              u == Spliced(k, s, at, list, i)
              e == AddRow(b, p, list, position, j)
  <2>1. /\ Sound(b) /\ IsList(b.items[p], h, u) /\ F(i + 1) = e /\ j \in 1..n /\ h \in Nat
        /\ i \in Nat
    BY <1>2, <1>3, <1>5
  <2>2. At(b.items[p], position, j) = at + i
    <3>1. Cardinality(b.items[p]) = h
      <4>. HIDE DEF b, h, u
      <4>. QED  BY <2>1, ListSize
    <3>2. CASE position = UIntMax
      <4>1. At(b.items[p], position, j) = h
        BY <3>1, <3>2 DEF At
      <4>2. at = k
        BY <1>3, <3>2
      <4>. QED  BY <4>1, <4>2
    <3>3. CASE position # UIntMax
      <4>1. position + j - 1 \in 0..UIntMax /\ position + j - 1 = position + i
        BY <1>3, <2>1, <3>3
      <4>2. Wrapped(position + j - 1) = position + i
        <5>. DEFINE x == position + j - 1
        <5>1. x \in Int /\ x \in 0..UIntMax /\ x = position + i
          BY <4>1
        <5>. HIDE DEF x
        <5>2. Wrapped(x) = x
          BY <5>1, WrappedNat
        <5>. QED  BY <5>1, <5>2 DEF x
      <4>3. At(b.items[p], position, j) = IF position + i >= h THEN h ELSE position + i
        BY <3>1, <3>3, <4>2 DEF At
      <4>. HIDE DEF b
      <4>. QED  BY <1>3, <2>1, <4>3
    <3>. QED  BY <3>2, <3>3
  <2>. HIDE DEF b, h, u, j
  <2>3. Sound(e) /\ IsList(e.items[p], h + 1, PutAt(h, u, at + i, list[j]))
    <3>1. /\ Sound(e)
          /\ \A x, y : IsList(b.items[p], x, y) =>
                 IsList(e.items[p], x + 1, PutAt(x, y, At(b.items[p], position, j), list[j]))
      <4>1. position \in Int
        OBVIOUS
      <4>. QED  BY <2>1, <4>1, AddRowSound
    <3>. HIDE DEF e, at
    <3>2. IsList(e.items[p], h + 1, PutAt(h, u, At(b.items[p], position, j), list[j]))
      BY <2>1, <3>1
    <3>. QED  BY <2>2, <3>1, <3>2
  <2>. HIDE DEF e, at
  <2>4. PutAt(h, u, at + i, list[j]) = Spliced(k, s, at, list, i + 1) /\ h + 1 = k + (i + 1)
    <3>1. h + 1 = k + (i + 1)
      BY <1>3, <2>1 DEF h
    <3>2. ASSUME NEW x \in 1..(h + 1)
          PROVE  PutAt(h, u, at + i, list[j])[x] = Spliced(k, s, at, list, i + 1)[x]
      <4>1. PutAt(h, u, at + i, list[j])[x]
                = IF x <= at + i THEN u[x] ELSE IF x = at + i + 1 THEN list[j] ELSE u[x - 1]
        BY DEF PutAt
      <4>2. Spliced(k, s, at, list, i + 1)[x]
                = IF x <= at THEN s[x]
                  ELSE IF x <= at + (i + 1) THEN list[x - at] ELSE s[x - (i + 1)]
        BY <3>1 DEF Spliced
      <4>3. \A y \in 1..h : u[y] = IF y <= at THEN s[y]
                                   ELSE IF y <= at + i THEN list[y - at] ELSE s[y - i]
        BY DEF Spliced, u, h
      <4>4. h = k + i /\ j = i + 1 /\ h \in Nat
        BY <2>1 DEF h, j
      <4>5. CASE x <= at + i
        <5>1. x \in 1..h
          BY <1>3, <2>1, <4>4, <4>5
        <5>. QED  BY <1>3, <2>1, <4>1, <4>2, <4>3, <4>5, <5>1
      <4>6. CASE x = at + i + 1
        <5>1. x - at = j
          BY <1>3, <2>1, <4>4, <4>6
        <5>. QED  BY <1>3, <2>1, <4>1, <4>2, <4>6, <5>1
      <4>7. CASE x > at + i + 1
        <5>1. x - 1 \in 1..h /\ (x - 1) - i = x - (i + 1)
          BY <1>3, <2>1, <4>4, <4>7
        <5>. QED  BY <1>3, <2>1, <4>1, <4>2, <4>3, <4>7, <5>1
      <4>. QED  BY <1>3, <2>1, <4>5, <4>6, <4>7
    <3>. QED  BY <3>1, <3>2 DEF PutAt, Spliced
  <2>5. Placed(i + 1, F(i + 1)) /\ i + 1 \in 0..n
    BY <2>1, <2>3, <2>4
  <2>. QED  BY <2>5
<1>6. n \in Good
  <2>. HIDE DEF Good
  <2>. QED  BY <1>4, <1>5, Rising
<1>7. Order(F(n).items[p]) = Spliced(k, s, at, list, n)
  <2>1. IsList(F(n).items[p], k + n, Spliced(k, s, at, list, n))
    BY <1>6
  <2>. QED  BY <2>1, ListOrder
<1>8. InsertedInto(s, list, position) = Spliced(k, s, at, list, n)
  BY <1>3, SplicedIs
<1>. QED  BY <1>1, <1>7, <1>8

LEMMA RemovedList ==
    ASSUME NEW d, Sound(d), NEW p \in Playlists, NEW n, NEW s, IsList(d.items[p], n, s),
           NEW from \in Nat, NEW count \in Nat, from + count <= n, n <= UIntMax
    PROVE  LET e == removeRows(d, p, from, count)
           IN  /\ IsList(e.items[p], n - count, WithoutRange(s, from, count))
               /\ Cardinality(InRange(d.items[p], from, count)) = count
<1>. DEFINE to == from + count
            e == removeRows(d, p, from, count)
            rows == d.items[p]
            k == n - (to - from)
<1>1. n \in Nat /\ s \in [1..n -> Media] /\ UIntMax \in Nat
  BY Constants DEF IsList
<1>2. Wrapped(to) = to
  <2>1. to \in Int /\ to \in 0..UIntMax
    BY <1>1
  <2>. HIDE DEF to
  <2>. QED  BY <2>1, WrappedNat
<1>3. InRange(rows, from, count) = Between(rows, from, to)
  <2>1. Wrapped(from + count) = to
    BY <1>2
  <2>. HIDE DEF to, rows
  <2>. QED  BY <2>1 DEF InRange, Between
<1>4. e.items[p] = DeleteRows(rows, InRange(rows, from, count))
  BY RemoveRowsSound
<1>5. to \in Nat /\ from <= to /\ to <= n /\ to - from = count
  BY <1>1
<1>. HIDE DEF e, to, rows
<1>6. /\ IsList(DeleteRows(rows, Between(rows, from, to)), n - (to - from), Skip(n, s, from, to))
      /\ Cardinality(Between(rows, from, to)) = to - from
  BY <1>5, RangeList, RangeSize DEF rows
<1>7. Skip(n, s, from, to) = WithoutRange(s, from, to - from)
  BY <1>1, <1>5, SkipIs
<1>. QED  BY <1>3, <1>4, <1>5, <1>6, <1>7 DEF e, rows

\* What the documentation says of add(), and of move().
AddsAs(d, p, m, k, position, s) ==
    Order(Inserted(d, p, <<m, k>>, position).items[p]) = InsertedInto(s, <<m, k>>, position)
MovesAs(d, p, from, position, count, s) ==
    Order(Moved(d, p, from, position, count).items[p])
        = InsertedInto(WithoutRange(s, from, count), SubSeq(s, from + 1, from + count),
                       IF position < from THEN position ELSE position - count + 1)

LEMMA InsertedList ==
    ASSUME NEW d, Sound(d), NEW p \in Playlists, d.playlists[p] # NoRow,
           NEW m \in Media, NEW k \in Media, d.media[m] # NoRow, d.media[k] # NoRow,
           NEW position \in Positions, NEW n, NEW s, IsList(d.items[p], n, s), n < UIntMax
    PROVE  AddsAs(d, p, m, k, position, s)
<1>. DEFINE list == <<m, k>>
            two == 2
<1>1. two \in Nat /\ list \in [1..two -> Media] /\ \A i \in 1..two : d.media[list[i]] # NoRow
  OBVIOUS
<1>2. /\ position \in Nat /\ position \in Int /\ n <= UIntMax
      /\ position = UIntMax \/ position + two - 1 <= UIntMax
  BY Constants DEF IsList
<1>. HIDE DEF two, list
<1>3. Inserted(d, p, list, position).items = addRows(d, p, list, position).items
  BY <1>1, <1>2, InsertedSound
<1>4. Order(addRows(d, p, list, position).items[p]) = InsertedInto(s, list, position)
  BY <1>1, <1>2, AddedList
<1>. QED  BY <1>3, <1>4 DEF list, AddsAs

LEMMA MovedRange ==
    ASSUME NEW d, Sound(d), NEW p \in Playlists, NEW n, NEW s, IsList(d.items[p], n, s),
           n < UIntMax, NEW from \in Nat, NEW count \in Nat, count # 0, from + count <= n,
           NEW position \in Nat, position < UIntMax, ~MoveIsNoop(from, position, count)
    PROVE  MovesAs(d, p, from, position, count, s)
<1>. DEFINE a == removeRows(d, p, from, count)
            rest == WithoutRange(s, from, count)
            list == MovedMedia(d, p, from, count)
            target == IF position < from THEN position ELSE position - count + 1
<1>1. n \in Nat /\ s \in [1..n -> Media] /\ UIntMax \in Nat /\ n <= UIntMax
  BY Constants DEF IsList
<1>2. /\ Wrapped(from + count) = from + count /\ Wrapped(position + 1) = position + 1
  <2>1. ASSUME NEW x \in 0..UIntMax
        PROVE  Wrapped(x) = x
    BY <2>1, WrappedNat
  <2>2. from + count \in 0..UIntMax /\ position + 1 \in 0..UIntMax
    BY <1>1
  <2>. QED  BY <2>1, <2>2
<1>3. position < from \/ position + 1 > from + count
  BY <1>1, <1>2 DEF MoveIsNoop
<1>4. target \in Nat /\ target + count - 1 <= UIntMax
  BY <1>1, <1>3
<1>5. Moved(d, p, from, position, count) = addRows(a, p, list, target)
  <2>1. CASE position < from
    BY <2>1 DEF Moved
  <2>2. CASE ~(position < from)
    <3>. DEFINE x == position - (count - 1)
    <3>1. x \in Int /\ x \in 0..UIntMax /\ x = target
      BY <1>1, <1>3, <1>4, <2>2
    <3>2. Moved(d, p, from, position, count) = addRows(a, p, list, Wrapped(x))
      BY <2>2 DEF Moved
    <3>. HIDE DEF x, target, a, list
    <3>3. Wrapped(x) = x
      BY <3>1, WrappedNat
    <3>. QED  BY <3>1, <3>2, <3>3
  <2>. QED  BY <2>1, <2>2
<1>. HIDE DEF target
<1>6. IsList(a.items[p], n - count, rest) /\ Cardinality(InRange(d.items[p], from, count)) = count
  <2>. HIDE DEF list
  <2>1. n <= UIntMax
    BY <1>1
  <2>. QED  BY <2>1, RemovedList
<1>7. list \in [1..count -> Media] /\ \A i \in 1..count : list[i] = s[from + i]
  <2>1. CanMove(d, p, from, count)
    <3>1. \A i \in 0..(n - 1) : \E r \in d.items[p] : r.position = i
      BY ListRows
    <3>2. Wrapped(from + count) - 1 \in Int /\ Wrapped(from + count) - 1 <= n - 1
      BY <1>1, <1>2
    <3>. QED  BY <1>1, <1>2, <3>1, <3>2 DEF CanMove
  <2>2. PutBack(d, p, from, count, n, s)
    BY <2>1, MovedList
  <2>. HIDE DEF list
  <2>. QED  BY <1>6, <2>2 DEF PutBack, list
<1>8. SubSeq(s, from + 1, from + count) = list
  <2>. HIDE DEF list
  <2>. QED  BY <1>1, <1>7, TakenIs
<1>9. Sound(a)
  BY RemoveRowsSound
<1>. HIDE DEF a, list, rest
<1>10. Order(addRows(a, p, list, target).items[p]) = InsertedInto(rest, list, target)
  <2>. DEFINE k == n - count
  <2>1. k <= UIntMax /\ IsList(a.items[p], k, rest)
    BY <1>1, <1>6
  <2>2. target = UIntMax \/ target + count - 1 <= UIntMax
    BY <1>4
  <2>3. target \in Nat /\ list \in [1..count -> Media]
    BY <1>4, <1>7
  <2>. HIDE DEF k
  <2>. QED  BY <1>9, <2>1, <2>2, <2>3, AddedList
<1>. QED  BY <1>5, <1>8, <1>10 DEF target, rest, MovesAs

-----------------------------------------------------------------------------
(* What the playlists promise.                                             *)

\* Every row of Media, Playlist and PlaylistMediaRelation has the columns of its
\* schema, and an item is in an existing playlist and has an existing media, whatever
\* is created, edited and deleted.
THEOREM TypeCorrect == Spec => []TypeOK
<1>1. IInv => TypeOK
  <2>. SUFFICES ASSUME IInv PROVE TypeOK
    OBVIOUS
  <2>1. Sound(db) /\ db.media = media /\ db.playlists = playlists /\ db.items = items
    BY Columned DEF IInv
  <2>2. /\ media \in MediaT /\ playlists \in PlaylistsT
        /\ \A p \in Playlists : items[p] \subseteq Item
    BY <2>1, SoundType
  <2>3. /\ spoilt \in [Playlists -> 0..MaxSpoilt]
        /\ \A p \in Playlists : playlists[p] = NoRow => items[p] = {}
        /\ \A p \in Playlists : \A r \in items[p] : Exists(db, r.media)
    BY DEF IInv
  <2>. QED  BY <2>1, <2>2, <2>3 DEF TypeOK, MediaT, PlaylistsT, IsPlaylist
<1>. QED  BY <1>1, Invariance, PTL

\* The triggers on the rows of PlaylistMediaRelation keep the positions 0, 1, 2...: a
\* list is inserted and a range removed or moved without a gap or a duplicate, and so
\* is a media that is deleted from all the playlists it is in.
THEOREM PositionsStayDense == Spec => []PositionsAreDense
<1>1. IInv => PositionsAreDense
  <2>. SUFFICES ASSUME IInv, NEW p \in Playlists
                PROVE  {r.position : r \in items[p]} = 0..(Cardinality(items[p]) - 1)
    BY DEF PositionsAreDense
  <2>1. PICK n, s : IsList(items[p], n, s)
    BY Columned DEF IInv, Sound, Dense
  <2>2. Cardinality(items[p]) = n /\ {r.position : r \in items[p]} = 0..(n - 1)
    BY <2>1, ListSize
  <2>. QED  BY <2>2
<1>. QED  BY <1>1, Invariance, PTL

\* The triggers IncrementNbPlaylist and DecrementNbPlaylist count every place of a
\* media in every playlist, whatever goes in cascade.
THEOREM NbPlaylistsStaysExact == Spec => []NbPlaylistsIsExact
<1>1. IInv => NbPlaylistsIsExact
  <2>. SUFFICES ASSUME IInv, NEW m \in Media, Exists(db, m)
                PROVE  media[m].nb_playlists
                           = MapThenSumSet(LAMBDA p : Occurrences(items[p], m), Playlists)
    BY DEF NbPlaylistsIsExact
  <2>1. media[m].nb_playlists = InPlaylists(items, m)
    BY Columned DEF IInv, Sound
  <2>2. MapThenSumSet(LAMBDA p : Occurrences(items[p], m), Playlists) = InPlaylists(items, m)
    BY PlacesAdd
  <2>. QED  BY <2>1, <2>2
<1>. QED  BY <1>1, Invariance, PTL

\* A column counts something when an item has it.
LEMMA WorthPositive ==
    ASSUME NEW rows \in MediaT, NEW its, IsFiniteSet(its), its \subseteq Item, NEW k \in Columns,
           \A m \in Media : Unit(rows[m], k) \in {0, 1}
    PROVE  Worth(rows, Occ(its), k) > 0 <=> \E r \in its : Unit(rows[r.media], k) = 1
<1>. DEFINE w == Times(rows, Occ(its), k)
<1>1. ASSUME NEW m \in Media
      PROVE  /\ w[m] \in Nat
             /\ w[m] # 0 <=> Unit(rows[m], k) = 1 /\ \E r \in its : r.media = m
  <2>. DEFINE mine == {r \in its : r.media = m}
  <2>1. IsFiniteSet(mine)
    BY FS_Subset
  <2>2. Cardinality(mine) \in Nat /\ (Cardinality(mine) = 0 <=> mine = {})
    BY <2>1, FS_CardinalityType, FS_EmptySet
  <2>3. w[m] = Cardinality(mine) * Unit(rows[m], k)
    BY DEF Times, Occ, Occurrences
  <2>4. Unit(rows[m], k) = 0 \/ Unit(rows[m], k) = 1
    OBVIOUS
  <2>5. mine # {} <=> \E r \in its : r.media = m
    OBVIOUS
  <2>. HIDE DEF mine, w
  <2>. QED  BY <2>2, <2>3, <2>4, <2>5
<1>2. /\ Sum(w, Media) \in Nat /\ \A m \in Media : w[m] <= Sum(w, Media)
      /\ Sum(w, Media) # 0 => \E m \in Media : w[m] # 0
  <2>1. \A m \in Media : w[m] \in Nat
    BY <1>1
  <2>. HIDE DEF w
  <2>. QED  BY <2>1, Constants, SumNat, SumZero
<1>3. Worth(rows, Occ(its), k) = Sum(w, Media)
  BY DEF Worth
<1>. HIDE DEF w
<1>4. Sum(w, Media) > 0 <=> \E m \in Media : w[m] # 0
  BY <1>1, <1>2
<1>5. (\E m \in Media : w[m] # 0) <=> \E r \in its : Unit(rows[r.media], k) = 1
  BY <1>1 DEF Item
<1>. QED  BY <1>3, <1>4, <1>5

LEMMA TypesListed ==
    ASSUME NEW d, Sound(d), NEW p \in Playlists, Matches(d, p),
           \A r \in d.items[p] : Exists(d, r.media),
           NEW missing \in BOOLEAN, NEW t \in Types
    PROVE  LET c == d.playlists[p]
               nb == IF missing THEN c.nb ELSE c.present
           IN  nb[t] > 0 <=>
                  \E r \in {i \in d.items[p] : missing \/ d.media[i.media].is_present} :
                     d.media[r.media].type = t
<1>. DEFINE c == d.playlists[p]
            k == IF missing THEN <<"nb", t>> ELSE <<"present", t>>
            nb == IF missing THEN c.nb ELSE c.present
<1>1. /\ d.media \in MediaT /\ IsFiniteSet(d.items[p]) /\ d.items[p] \subseteq Item
      /\ \A k2 \in Columns : Column(c, k2) = Worth(d.media, Occ(d.items[p]), k2)
  BY SoundType DEF Matches, Counted
<1>2. k \in Columns
  BY DEF Columns
<1>3. Column(c, k) = nb[t]
  <2>1. CASE missing
    BY <2>1 DEF Column
  <2>2. CASE ~missing
    BY <2>2 DEF Column
  <2>. QED  BY <2>1, <2>2
<1>4. ASSUME NEW m \in Media
      PROVE  /\ Unit(d.media[m], k) \in {0, 1}
             /\ d.media[m] # NoRow =>
                   (Unit(d.media[m], k) = 1
                       <=> d.media[m].type = t /\ (missing \/ d.media[m].is_present))
  <2>1. CASE d.media[m] = NoRow
    BY <2>1 DEF Unit
  <2>2. CASE d.media[m] # NoRow /\ missing
    BY <2>2 DEF Unit, UnitOf, Bit
  <2>3. CASE d.media[m] # NoRow /\ ~missing
    BY <2>3 DEF Unit, UnitOf, Bit
  <2>. QED  BY <2>1, <2>2, <2>3
<1>. HIDE DEF k, nb
<1>5. Worth(d.media, Occ(d.items[p]), k) > 0
          <=> \E r \in d.items[p] : Unit(d.media[r.media], k) = 1
  BY <1>1, <1>2, <1>4, WorthPositive
<1>6. \A r \in d.items[p] : /\ r.media \in Media /\ d.media[r.media] # NoRow
  BY <1>1 DEF Item, Exists
<1>. QED  BY <1>1, <1>2, <1>3, <1>4, <1>5, <1>6 DEF nb

\* Unless a documented edit spoilt them, the counters of a playlist are those a scan
\* of its items computes, present or not, of known duration or not, and the playlist
\* is listed under what it holds: every trigger and every edit that touches a counter
\* takes away for a media what it added for it.
THEOREM CountersFollowItems == Spec => []CountersMatchItems
<1>1. ASSUME IInv, NEW p \in Playlists, IsPlaylist(db, p), spoilt[p] = 0
      PROVE  /\ playlists[p] = CounterAccumulator(db, items[p])
             /\ \A missing \in BOOLEAN :
                   IsListed(playlists[p], "AudioOnly", missing) <=>
                      LET shown == {r \in items[p] : missing \/ media[r.media].is_present}
                      IN  shown # {} /\ \A r \in shown : media[r.media].type = "Audio"
  <2>1. /\ Sound(db) /\ Matches(db, p) /\ \A r \in db.items[p] : Exists(db, r.media)
    BY <1>1, Columned DEF IInv, IsPlaylist
  <2>2. /\ db.media \in MediaT /\ IsFiniteSet(db.items[p])
        /\ \A r \in db.items[p] : r.media \in Media /\ db.media[r.media] # NoRow
    BY <2>1, SoundType DEF Item, Exists
  <2>3. Counted(CounterAccumulator(db, db.items[p]), db.media, Occ(db.items[p]))
    BY <2>2, AccumulatorCounted
  <2>4. db.playlists[p] = CounterAccumulator(db, db.items[p])
    BY <2>1, <2>3, CountedOnce DEF Matches
  <2>5. ASSUME NEW missing \in BOOLEAN
        PROVE  IsListed(playlists[p], "AudioOnly", missing) <=>
                  LET shown == {r \in items[p] : missing \/ media[r.media].is_present}
                  IN  shown # {} /\ \A r \in shown : media[r.media].type = "Audio"
    <3>. DEFINE nb == IF missing THEN playlists[p].nb ELSE playlists[p].present
                shown == {r \in items[p] : missing \/ media[r.media].is_present}
    <3>1. \A t \in Types : nb[t] > 0 <=> \E r \in shown : media[r.media].type = t
      BY <1>1, <2>1, TypesListed, Columned
    <3>2. \A r \in shown : media[r.media].type \in Types
      BY <2>2, Columned DEF MediaT, MediaRow
    <3>3. IsListed(playlists[p], "AudioOnly", missing)
              <=> /\ ~(\E t \in {"Video", "Unknown"} \cap Types : nb[t] > 0)
                  /\ \E t \in {"Audio"} \cap Types : nb[t] > 0
      BY DEF IsListed
    <3>. HIDE DEF nb, shown
    <3>4. (\E t \in {"Audio"} \cap Types : nb[t] > 0)
              <=> \E r \in shown : media[r.media].type = "Audio"
      BY <3>1, <3>2
    <3>5. (\E t \in {"Video", "Unknown"} \cap Types : nb[t] > 0)
              <=> \E r \in shown : media[r.media].type # "Audio"
      <4>1. ASSUME NEW t \in {"Video", "Unknown"} \cap Types, nb[t] > 0
            PROVE  \E r \in shown : media[r.media].type # "Audio"
        BY <3>1, <4>1
      <4>2. ASSUME NEW r \in shown, media[r.media].type # "Audio"
            PROVE  \E t \in {"Video", "Unknown"} \cap Types : nb[t] > 0
        <5>. DEFINE t == media[r.media].type
        <5>1. t \in Types /\ t # "Audio"
          BY <3>2, <4>2
        <5>2. t \in {"Video", "Unknown"}
          BY <5>1, Constants
        <5>3. nb[t] > 0
          BY <3>1, <5>1
        <5>. QED  BY <5>1, <5>2, <5>3
      <4>. QED  BY <4>1, <4>2
    <3>. QED  BY <3>3, <3>4, <3>5 DEF shown
  <2>. QED  BY <2>4, <2>5, Columned
<1>2. IInv => CountersMatchItems
  BY <1>1 DEF CountersMatchItems
<1>. QED  BY <1>2, Invariance, PTL

\* Whatever the list, add() puts media in order at the position or at the end,
\* remove() takes a range out and move() puts it where the item it displaced was: the
\* rows the triggers move and the wrapped positions of addInternal() never show.
THEOREM EditsDoAsDocumented == Spec => []EditsMatchTheirDocumentation
<1>1. ASSUME IInv, NEW p \in Playlists, IsPlaylist(db, p)
      PROVE  LET s == Order(items[p])
             IN  /\ \A m, n \in {k \in Media : Exists(db, k)}, position \in Positions :
                       Order(Inserted(db, p, <<m, n>>, position).items[p])
                           = InsertedInto(s, <<m, n>>, position)
                 /\ \A from \in Positions, count \in Counts \ {0} : from + count <= Len(s) =>
                       /\ Order(Removed(db, p, from, count).items[p])
                              = WithoutRange(s, from, count)
                       /\ \A position \in Positions \ {UIntMax} :
                             ~MoveIsNoop(from, position, count) =>
                                 Order(Moved(db, p, from, position, count).items[p]) =
                                     InsertedInto(WithoutRange(s, from, count),
                                                  SubSeq(s, from + 1, from + count),
                                                  IF position < from THEN position
                                                  ELSE position - count + 1)
  <2>1. /\ Sound(db) /\ db.items[p] = items[p] /\ db.playlists[p] # NoRow
        /\ \A q \in Playlists : \A r \in db.items[q] : Exists(db, r.media)
        /\ Cardinality(items[p]) <= MaxItems
    BY <1>1, Columned DEF IInv, IsPlaylist
  <2>2. PICK n, s : IsList(db.items[p], n, s)
    BY <2>1 DEF Sound, Dense
  <2>3. Order(items[p]) = s /\ Cardinality(items[p]) = n
    BY <2>1, <2>2, ListOrder, ListSize
  <2>4. n \in Nat /\ s \in [1..n -> Media] /\ Len(s) = n /\ n < UIntMax /\ UIntMax \in Nat
    BY <2>1, <2>2, <2>3, Constants, ListIsSeq DEF IsList
  <2>5. ASSUME NEW m \in {k \in Media : Exists(db, k)}, NEW k \in {x \in Media : Exists(db, x)},
               NEW position \in Positions
        PROVE  AddsAs(db, p, m, k, position, s)
    <3>1. m \in Media /\ k \in Media /\ db.media[m] # NoRow /\ db.media[k] # NoRow
      BY DEF Exists
    <3>. QED  BY <2>1, <2>2, <2>4, <3>1, InsertedList
  <2>6. ASSUME NEW from \in Positions, NEW count \in Counts \ {0}, from + count <= n
        PROVE  /\ Order(Removed(db, p, from, count).items[p]) = WithoutRange(s, from, count)
               /\ \A position \in Positions \ {UIntMax} :
                     ~MoveIsNoop(from, position, count) =>
                         MovesAs(db, p, from, position, count, s)
    <3>1. /\ from \in Nat /\ count \in Nat /\ count # 0 /\ n <= UIntMax
          /\ \A position \in Positions \ {UIntMax} : position \in Nat /\ position < UIntMax
      BY <2>4, Constants
    <3>2. Order(Removed(db, p, from, count).items[p]) = WithoutRange(s, from, count)
      <4>1. IsList(removeRows(db, p, from, count).items[p], n - count,
                   WithoutRange(s, from, count))
        BY <2>1, <2>2, <2>6, <3>1, RemovedList
      <4>2. Removed(db, p, from, count).items = removeRows(db, p, from, count).items
        BY <2>1, RemovedSound
      <4>. QED  BY <4>1, <4>2, ListOrder
    <3>3. ASSUME NEW position \in Positions \ {UIntMax}, ~MoveIsNoop(from, position, count)
          PROVE  MovesAs(db, p, from, position, count, s)
      <4>1. position \in Nat /\ position < UIntMax
        BY <3>1
      <4>. QED  BY <2>1, <2>2, <2>4, <2>6, <3>1, <3>3, <4>1, MovedRange
    <3>. QED  BY <3>2, <3>3
  <2>. QED  BY <2>3, <2>4, <2>5, <2>6 DEF AddsAs, MovesAs
<1>2. IInv => EditsMatchTheirDocumentation
  BY <1>1 DEF EditsMatchTheirDocumentation
<1>. QED  BY <1>2, Invariance, PTL

=============================================================================
