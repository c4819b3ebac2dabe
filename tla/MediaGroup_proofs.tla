------------------------- MODULE MediaGroup_proofs -------------------------
(***************************************************************************)
(* For any media and groups: a group's duration and counters are sums over *)
(* its members, a media that was taken out stays alone, and a group goes   *)
(* with its last media.                                                    *)
(***************************************************************************)
EXTENDS MediaGroup, FiniteSetTheorems, WellFoundedInduction, TLAPS

LEMMA Constants ==
    /\ IsFiniteSet(Media) /\ IsFiniteSet(Groups)
    /\ NoRow \notin Groups /\ NoRow \notin MediaRow /\ NoRow \notin GroupRow
    /\ PrefixOf \in [Titles -> Prefixes]
    /\ "Video" \in Types /\ "Unknown" \in Types /\ Types \subseteq {"Video", "Audio", "Unknown"}
    /\ MaxDuration \in Nat /\ MaxEdits \in Nat /\ 1 \in Durations
<1>1. MaxDuration \in Nat \ {0} /\ MaxEdits \in Nat
  BY MediaGroupAssumption
<1>2. 1 \in Durations
  BY <1>1 DEF Durations
<1>3. NoRow \notin Groups \cup MediaRow \cup GroupRow
  BY MediaGroupAssumption
<1>. QED  BY <1>1, <1>2, <1>3, MediaGroupAssumption DEF Video, Unknown

-----------------------------------------------------------------------------
(* Folds over finite sets.                                                 *)

\* Induction on finite sets: a set of subsets has a smallest one.
LEMMA MinimalSubset ==
    ASSUME NEW S, IsFiniteSet(S), NEW T \in SUBSET (SUBSET S), T # {}
    PROVE  \E x \in T : \A y \in T : y \subseteq x => y = x
<1>. DEFINE R == StrictSubsetOrdering(S)
<1>1. IsWellFoundedOn(R, SUBSET S)
  BY FS_StrictSubsetOrderingWellFounded, FS_FiniteSubsetsOfFinite
<1>2. \E x \in T : \A y \in T : ~ (<<y, x>> \in R)
  <2>. HIDE DEF R
  <2>. QED  BY <1>1, WFMin
<1>. QED  BY <1>2 DEF StrictSubsetOrdering

\* The element a fold takes, and those it has taken before.
Pick(S) == CHOOSE x \in S : TRUE
Rest(S) == S \ {Pick(S)}

LEMMA Picked ==
    ASSUME NEW S, S # {}
    PROVE  /\ Pick(S) \in S /\ Pick(S) \notin Rest(S) /\ S = Rest(S) \cup {Pick(S)}
           /\ Rest(S) \subseteq S /\ Rest(S) # S
BY DEF Pick, Rest

\* The folds of the model, told apart by a kind.
Step(k, x, acc) ==
    CASE k.kind = "sum" -> k.weight[x] + acc
      [] k.kind = "name" -> commonPattern(acc, k.media[x].title)
      [] k.kind = "remove" -> remove(acc, x, acc.media[x].title)
      [] k.kind = "add" -> add(acc, k.group, x, FALSE)

Iterates(k, base, S, iter) ==
    iter = [s \in SUBSET S |-> IF s = {} THEN base ELSE Step(k, Pick(s), iter[Rest(s)])]

Fold(k, base, S) == (CHOOSE iter : Iterates(k, base, S, iter))[S]

Unfolds(k, base, S) ==
    Fold(k, base, S) = IF S = {} THEN base ELSE Step(k, Pick(S), Fold(k, base, Rest(S)))

\* The recursion of a fold is well defined.
LEMMA FoldUnfolds ==
    ASSUME NEW k, NEW base, NEW S, IsFiniteSet(S)
    PROVE  \A s \in SUBSET S : Unfolds(k, base, s)
<1>. DEFINE Bad == {s \in SUBSET S : ~Unfolds(k, base, s)}
<1>. SUFFICES ASSUME Bad # {} PROVE FALSE
  OBVIOUS
<1>1. PICK t \in Bad : \A u \in Bad : u \subseteq t => u = t
  <2>1. Bad \in SUBSET (SUBSET S)
    OBVIOUS
  <2>. HIDE DEF Bad
  <2>. QED  BY <2>1, MinimalSubset
<1>2. \A u \in SUBSET t : u # t => Unfolds(k, base, u)
  BY <1>1
<1>3. ASSUME NEW s \in SUBSET t, s # {}
      PROVE  Rest(s) \in SUBSET t /\ Rest(s) # t /\ Rest(s) \subseteq s /\ Rest(s) # s
  BY <1>3, Picked
<1>. DEFINE G == [s \in SUBSET t |->
                     IF s = {} THEN base ELSE Step(k, Pick(s), Fold(k, base, Rest(s)))]
            H == CHOOSE iter : Iterates(k, base, t, iter)
<1>4. Iterates(k, base, t, G)
  <2>1. ASSUME NEW s \in SUBSET t, s # {}
        PROVE  G[Rest(s)] = Fold(k, base, Rest(s))
    <3>1. Rest(s) \in SUBSET t /\ Unfolds(k, base, Rest(s))
      BY <1>2, <1>3, <2>1
    <3>. QED  BY <3>1 DEF Unfolds
  <2>2. G = [s \in SUBSET t |-> IF s = {} THEN base ELSE Step(k, Pick(s), G[Rest(s)])]
    BY <2>1
  <2>. QED  BY <2>2 DEF Iterates
<1>5. Iterates(k, base, t, H) /\ Fold(k, base, t) = H[t]
  <2>. HIDE DEF G
  <2>. QED  BY <1>4 DEF Fold
<1>. HIDE DEF H
<1>6. \A s \in SUBSET t : H[s] = IF s = {} THEN base ELSE Step(k, Pick(s), H[Rest(s)])
  BY <1>5 DEF Iterates
<1>7. \A s \in SUBSET t : s # t => H[s] = Fold(k, base, s)
  <2>. DEFINE Off == {s \in SUBSET t : s # t /\ H[s] # Fold(k, base, s)}
  <2>. SUFFICES ASSUME Off # {} PROVE FALSE
    OBVIOUS
  <2>1. PICK s \in Off : \A u \in Off : u \subseteq s => u = s
    <3>1. Off \in SUBSET (SUBSET t) /\ IsFiniteSet(t)
      BY <1>1, FS_Subset
    <3>. HIDE DEF Off
    <3>. QED  BY <3>1, MinimalSubset
  <2>2. Unfolds(k, base, s)
    BY <1>2, <2>1
  <2>3. CASE s = {}
    BY <1>6, <2>1, <2>2, <2>3 DEF Unfolds
  <2>4. CASE s # {}
    <3>1. H[Rest(s)] = Fold(k, base, Rest(s))
      BY <1>3, <2>1, <2>4
    <3>. QED  BY <1>6, <2>1, <2>2, <2>4, <3>1 DEF Unfolds
  <2>. QED  BY <2>3, <2>4
<1>8. Unfolds(k, base, t)
  <2>1. CASE t = {}
    BY <1>5, <1>6, <2>1 DEF Unfolds
  <2>2. CASE t # {}
    <3>1. H[Rest(t)] = Fold(k, base, Rest(t))
      BY <1>3, <1>7, <2>2
    <3>. QED  BY <1>5, <1>6, <2>2, <3>1 DEF Unfolds
  <2>. QED  BY <2>1, <2>2
<1>. QED  BY <1>1, <1>8

-----------------------------------------------------------------------------
(* Sums.                                                                   *)

Sum(w, S) == Fold([kind |-> "sum", weight |-> w], 0, S)

LEMMA SumUnfolds ==
    ASSUME NEW w, NEW S, IsFiniteSet(S)
    PROVE  Sum(w, S) = IF S = {} THEN 0 ELSE w[Pick(S)] + Sum(w, Rest(S))
<1>. DEFINE k == [kind |-> "sum", weight |-> w]
<1>1. Unfolds(k, 0, S)
  BY FoldUnfolds
<1>2. \A x, acc : Step(k, x, acc) = w[x] + acc
  BY DEF Step
<1>. QED  BY <1>1, <1>2 DEF Unfolds, Sum

LEMMA SumType ==
    ASSUME NEW S, IsFiniteSet(S), NEW w, \A x \in S : w[x] \in Int
    PROVE  Sum(w, S) \in Int
<1>. DEFINE Bad == {s \in SUBSET S : Sum(w, s) \notin Int}
<1>. SUFFICES ASSUME Bad # {} PROVE FALSE
  OBVIOUS
<1>1. PICK s \in Bad : \A u \in Bad : u \subseteq s => u = s
  <2>1. Bad \in SUBSET (SUBSET S)
    OBVIOUS
  <2>. HIDE DEF Bad
  <2>. QED  BY <2>1, MinimalSubset
<1>2. Sum(w, s) = IF s = {} THEN 0 ELSE w[Pick(s)] + Sum(w, Rest(s))
  BY <1>1, FS_Subset, SumUnfolds
<1>3. CASE s = {}
  BY <1>1, <1>2, <1>3
<1>4. CASE s # {}
  BY <1>1, <1>2, <1>4, Picked
<1>. QED  BY <1>3, <1>4

\* Any element can be taken first.
LEMMA SumRemove ==
    ASSUME NEW S, IsFiniteSet(S), NEW w, \A x \in S : w[x] \in Int
    PROVE  \A x \in S : Sum(w, S) = w[x] + Sum(w, S \ {x})
<1>. DEFINE Good(s) == \A x \in s : Sum(w, s) = w[x] + Sum(w, s \ {x})
            Bad == {s \in SUBSET S : ~Good(s)}
<1>. SUFFICES ASSUME Bad # {} PROVE FALSE
  OBVIOUS
<1>1. PICK s \in Bad : \A u \in Bad : u \subseteq s => u = s
  <2>1. Bad \in SUBSET (SUBSET S)
    OBVIOUS
  <2>. HIDE DEF Bad
  <2>. QED  BY <2>1, MinimalSubset
<1>2. \A u \in SUBSET s : u # s => Good(u)
  BY <1>1
<1>3. PICK x \in s : Sum(w, s) # w[x] + Sum(w, s \ {x})
  BY <1>1
<1>. DEFINE p == Pick(s)
<1>4. p \in s /\ Rest(s) = s \ {p} /\ Sum(w, s) = w[p] + Sum(w, s \ {p})
  BY <1>1, <1>3, Picked, FS_Subset, SumUnfolds DEF Rest
<1>5. p # x
  BY <1>3, <1>4
<1>. HIDE DEF Good, p
<1>6. Sum(w, s \ {p}) = w[x] + Sum(w, (s \ {p}) \ {x})
  <2>1. Good(s \ {p}) /\ x \in s \ {p}
    BY <1>2, <1>3, <1>4, <1>5
  <2>. QED  BY <2>1 DEF Good
<1>7. Sum(w, s \ {x}) = w[p] + Sum(w, (s \ {x}) \ {p})
  <2>1. Good(s \ {x}) /\ p \in s \ {x}
    BY <1>2, <1>3, <1>4, <1>5
  <2>. QED  BY <2>1 DEF Good
<1>8. (s \ {p}) \ {x} = (s \ {x}) \ {p}
  OBVIOUS
<1>9. Sum(w, (s \ {p}) \ {x}) \in Int /\ w[x] \in Int /\ w[p] \in Int
  <2>1. IsFiniteSet((s \ {p}) \ {x}) /\ \A y \in (s \ {p}) \ {x} : w[y] \in Int
    <3>1. (s \ {p}) \ {x} \in SUBSET S
      BY <1>1
    <3>. QED  BY <3>1, FS_Subset
  <2>. QED  BY <1>1, <1>3, <1>4, <2>1, SumType
<1>10. \A r, i, j \in Int : i + (j + r) = j + (i + r)
  OBVIOUS
<1>11. Sum(w, s) = w[x] + (w[p] + Sum(w, (s \ {p}) \ {x}))
  BY <1>4, <1>6, <1>9, <1>10
<1>. QED  BY <1>3, <1>7, <1>8, <1>11

LEMMA SumSame ==
    ASSUME NEW S, IsFiniteSet(S), NEW w1, NEW w2, \A x \in S : w1[x] = w2[x]
    PROVE  Sum(w1, S) = Sum(w2, S)
<1>. DEFINE Bad == {s \in SUBSET S : Sum(w1, s) # Sum(w2, s)}
<1>. SUFFICES ASSUME Bad # {} PROVE FALSE
  OBVIOUS
<1>1. PICK s \in Bad : \A u \in Bad : u \subseteq s => u = s
  <2>1. Bad \in SUBSET (SUBSET S)
    OBVIOUS
  <2>. HIDE DEF Bad
  <2>. QED  BY <2>1, MinimalSubset
<1>2. /\ Sum(w1, s) = IF s = {} THEN 0 ELSE w1[Pick(s)] + Sum(w1, Rest(s))
      /\ Sum(w2, s) = IF s = {} THEN 0 ELSE w2[Pick(s)] + Sum(w2, Rest(s))
  BY <1>1, FS_Subset, SumUnfolds
<1>3. CASE s = {}
  BY <1>1, <1>2, <1>3
<1>4. CASE s # {}
  BY <1>1, <1>2, <1>4, Picked
<1>. QED  BY <1>3, <1>4

\* A sum of zeros and ones counts the ones.
LEMMA SumCounts ==
    ASSUME NEW S, IsFiniteSet(S), NEW w, \A x \in S : w[x] \in {0, 1}
    PROVE  Sum(w, S) = Cardinality({x \in S : w[x] = 1})
<1>. DEFINE Ones(s) == {x \in s : w[x] = 1}
            Bad == {s \in SUBSET S : Sum(w, s) # Cardinality(Ones(s))}
<1>. SUFFICES ASSUME Bad # {} PROVE FALSE
  OBVIOUS
<1>1. PICK s \in Bad : \A u \in Bad : u \subseteq s => u = s
  <2>1. Bad \in SUBSET (SUBSET S)
    OBVIOUS
  <2>. HIDE DEF Bad
  <2>. QED  BY <2>1, MinimalSubset
<1>2. Sum(w, s) = IF s = {} THEN 0 ELSE w[Pick(s)] + Sum(w, Rest(s))
  BY <1>1, FS_Subset, SumUnfolds
<1>3. CASE s = {}
  <2>1. Ones(s) = {}
    BY <1>3
  <2>. QED  BY <1>1, <1>2, <1>3, <2>1, FS_EmptySet
<1>4. CASE s # {}
  <2>1. /\ Pick(s) \in s /\ Pick(s) \notin Rest(s) /\ s = Rest(s) \cup {Pick(s)}
        /\ Rest(s) \subseteq s /\ Rest(s) # s
    BY <1>4, Picked
  <2>2. Sum(w, Rest(s)) = Cardinality(Ones(Rest(s)))
    BY <1>1, <2>1
  <2>3. IsFiniteSet(Ones(Rest(s)))
    <3>1. Ones(Rest(s)) \in SUBSET S
      BY <1>1, <2>1
    <3>. QED  BY <3>1, FS_Subset
  <2>4. Cardinality(Ones(Rest(s))) \in Nat
    BY <2>3, FS_CardinalityType
  <2>5. CASE w[Pick(s)] = 1
    <3>1. Ones(s) = Ones(Rest(s)) \cup {Pick(s)} /\ Pick(s) \notin Ones(Rest(s))
      BY <2>1, <2>5
    <3>2. Cardinality(Ones(s)) = Cardinality(Ones(Rest(s))) + 1
      <4>. HIDE DEF Ones
      <4>. QED  BY <2>3, <3>1, FS_AddElement
    <3>. QED  BY <1>1, <1>2, <1>4, <2>2, <2>4, <2>5, <3>2
  <2>6. CASE w[Pick(s)] = 0
    <3>1. Ones(s) = Ones(Rest(s))
      BY <2>1, <2>6
    <3>2. Sum(w, s) = 0 + Cardinality(Ones(s))
      <4>. HIDE DEF Ones
      <4>. QED  BY <1>2, <1>4, <2>2, <2>6, <3>1
    <3>3. Sum(w, s) = Cardinality(Ones(s))
      <4>. HIDE DEF Ones
      <4>. QED  BY <2>4, <3>1, <3>2
    <3>. QED  BY <1>1, <3>3
  <2>. QED  BY <1>1, <2>1, <2>5, <2>6
<1>. QED  BY <1>3, <1>4

-----------------------------------------------------------------------------
(* What the members of a group weigh.                                      *)

MediaT == [Media -> MediaRow \cup {NoRow}]
GroupsT == [Groups -> GroupRow \cup {NoRow}]
Weights == [MediaRow -> Int]

\* What a row weighs in group k, and all the members of the group.
Part(row, k, w) == IF row # NoRow /\ row.group = k THEN w[row] ELSE 0
Weighted(d, w) == [m \in Media |-> w[d.media[m]]]
Of(d, k, w) == Sum(Weighted(d, w), Members(d, k))

LEMMA OfType ==
    ASSUME NEW d, d.media \in MediaT, NEW k, NEW w \in Weights
    PROVE  /\ IsFiniteSet(Members(d, k)) /\ Members(d, k) \subseteq Media
           /\ \A x \in Members(d, k) : d.media[x] \in MediaRow /\ Weighted(d, w)[x] = w[d.media[x]]
           /\ \A x \in Members(d, k) : Weighted(d, w)[x] \in Int
           /\ Of(d, k, w) \in Int
<1>1. IsFiniteSet(Members(d, k)) /\ Members(d, k) \subseteq Media
  BY Constants, FS_Subset DEF Members
<1>2. \A x \in Members(d, k) : d.media[x] \in MediaRow /\ Weighted(d, w)[x] = w[d.media[x]]
  BY DEF Members, Exists, Weighted, MediaT
<1>3. \A x \in Members(d, k) : Weighted(d, w)[x] \in Int
  BY <1>2 DEF Weights
<1>. QED  BY <1>1, <1>2, <1>3, SumType DEF Of

LEMMA Reweighed ==
    ASSUME NEW d, d.media \in MediaT, NEW m \in Media, NEW new \in MediaRow \cup {NoRow},
           NEW d2, d2.media = [d.media EXCEPT ![m] = new], NEW k \in Groups, NEW w \in Weights
    PROVE  Of(d2, k, w) = Of(d, k, w) + Part(new, k, w) - Part(d.media[m], k, w)
<1>. DEFINE A == Members(d, k)
            B == Members(d2, k)
            f == Weighted(d, w)
            g == Weighted(d2, w)
<1>1. d2.media \in MediaT /\ d2.media[m] = new /\ \A x \in Media \ {m} : d2.media[x] = d.media[x]
  BY DEF MediaT
<1>2. /\ IsFiniteSet(A) /\ (\A x \in A : f[x] \in Int) /\ Of(d, k, w) \in Int
      /\ IsFiniteSet(B) /\ (\A x \in B : g[x] \in Int) /\ Of(d2, k, w) \in Int
  BY <1>1, OfType
<1>3. A \ {m} = B \ {m}
  BY <1>1 DEF Members, Exists
<1>4. \A x \in A \ {m} : f[x] = g[x]
  BY <1>1 DEF Weighted, Members
<1>5. Sum(f, A \ {m}) = Sum(g, B \ {m})
  <2>1. IsFiniteSet(A \ {m})
    BY <1>2, FS_Subset
  <2>. HIDE DEF A, B, f, g
  <2>. QED  BY <1>3, <1>4, <2>1, SumSame
<1>6. Sum(f, A) = Part(d.media[m], k, w) + Sum(f, A \ {m})
  <2>1. CASE m \in A
    <3>1. Part(d.media[m], k, w) = f[m]
      BY <2>1 DEF Members, Exists, Weighted, Part
    <3>. HIDE DEF A, f
    <3>. QED  BY <1>2, <2>1, <3>1, SumRemove
  <2>2. CASE m \notin A
    <3>1. A \ {m} = A /\ Part(d.media[m], k, w) = 0
      BY <2>2 DEF Members, Exists, Part
    <3>2. Sum(f, A) \in Int
      BY <1>2 DEF Of
    <3>. HIDE DEF A, f
    <3>. QED  BY <3>1, <3>2
  <2>. QED  BY <2>1, <2>2
<1>7. Sum(g, B) = Part(new, k, w) + Sum(g, B \ {m})
  <2>1. CASE m \in B
    <3>1. Part(new, k, w) = g[m]
      BY <1>1, <2>1 DEF Members, Exists, Weighted, Part
    <3>. HIDE DEF B, g
    <3>. QED  BY <1>2, <2>1, <3>1, SumRemove
  <2>2. CASE m \notin B
    <3>1. B \ {m} = B /\ Part(new, k, w) = 0
      BY <1>1, <2>2 DEF Members, Exists, Part
    <3>2. Sum(g, B) \in Int
      BY <1>2 DEF Of
    <3>. HIDE DEF A, B, f, g
    <3>3. Part(new, k, w) + Sum(g, B \ {m}) = 0 + Sum(g, B)
      BY <3>1
    <3>4. 0 + Sum(g, B) = Sum(g, B)
      BY <3>2
    <3>. QED  BY <3>3, <3>4
  <2>. QED  BY <2>1, <2>2
<1>8. Sum(f, A \ {m}) \in Int
  <2>1. IsFiniteSet(A \ {m})
    BY <1>2, FS_Subset
  <2>2. \A x \in A \ {m} : f[x] \in Int
    BY <1>2
  <2>. HIDE DEF A, f
  <2>. QED  BY <2>1, <2>2, SumType
<1>9. Part(d.media[m], k, w) \in Int /\ Part(new, k, w) \in Int
  BY DEF Part, MediaT, Weights
<1>10. Of(d, k, w) = Sum(f, A) /\ Of(d2, k, w) = Sum(g, B)
  BY DEF Of
<1>. HIDE DEF A, B, f, g
<1>. QED  BY <1>5, <1>6, <1>7, <1>8, <1>9, <1>10

\* What a group counts, as a number in its row or in a share of one, and as the
\* weight of a media.
Aspects == [kind : {"nb", "present", "seen", "external", "size"}, type : Types]

Size(c) == c.nb["Video"] + c.nb["Unknown"] + (IF "Audio" \in Types THEN c.nb["Audio"] ELSE 0)
               + c.external

Value(c, a) ==
    CASE a.kind = "nb" -> c.nb[a.type]
      [] a.kind = "present" -> c.present[a.type]
      [] a.kind = "seen" -> c.seen
      [] a.kind = "external" -> c.external
      [] OTHER -> Size(c)

Counts(row, a) ==
    CASE a.kind = "nb" -> row.internal /\ row.type = a.type
      [] a.kind = "present" -> row.internal /\ row.type = a.type /\ row.is_present
      [] a.kind = "seen" -> row.played
      [] a.kind = "external" -> ~row.internal
      [] OTHER -> TRUE

Weight(a) == [row \in MediaRow |-> Bit(Counts(row, a))]
Lasting == [row \in MediaRow |-> row.duration]
One == [row \in MediaRow |-> 1]

LEMMA AreWeights ==
    /\ One \in Weights /\ Lasting \in Weights
    /\ \A a : Weight(a) \in Weights
    /\ \A a \in Aspects : a.kind = "size" => Weight(a) = One
<1>1. Durations \subseteq Int
  BY Constants DEF Durations
<1>2. Lasting \in Weights
  BY <1>1 DEF Lasting, Weights, MediaRow
<1>3. \A a \in Aspects : a.kind = "size" => Weight(a) = One
  BY DEF Weight, Counts, Bit, One
<1>. QED  BY <1>2, <1>3 DEF One, Weight, Weights, Bit

\* True of the row of every group...
Counted(d, k, row) == row.duration = Of(d, k, Lasting) /\ Size(row) = Of(d, k, One)

\* ... and of one that no external media spoilt.
Exact(d, k, row) == \A a \in Aspects : Value(row, a) = Of(d, k, Weight(a))

\* The weight of no members, and of one at least.
LEMMA Emptied ==
    ASSUME NEW d, d.media \in MediaT, NEW k
    PROVE  /\ Of(d, k, One) \in Nat
           /\ Of(d, k, One) = 0 <=> Members(d, k) = {}
           /\ Members(d, k) = {} => \A w : Of(d, k, w) = 0
<1>. DEFINE A == Members(d, k)
            f == Weighted(d, One)
<1>1. IsFiniteSet(A) /\ \A x \in A : f[x] = 1
  <2>1. \A x \in A : d.media[x] \in MediaRow /\ f[x] = One[d.media[x]]
    BY AreWeights, OfType
  <2>. QED  BY <2>1, AreWeights, OfType DEF One
<1>2. Sum(f, A) = Cardinality({x \in A : f[x] = 1})
  <2>1. \A x \in A : f[x] \in {0, 1}
    BY <1>1
  <2>. HIDE DEF f, A
  <2>. QED  BY <1>1, <2>1, SumCounts
<1>3. {x \in A : f[x] = 1} = A
  BY <1>1
<1>4. Of(d, k, One) = Cardinality(A)
  BY <1>2, <1>3 DEF Of
<1>5. Members(d, k) = {} => \A w : Of(d, k, w) = 0
  BY FS_EmptySet, SumUnfolds DEF Of
<1>. HIDE DEF A
<1>6. Cardinality(A) \in Nat /\ (Cardinality(A) = 0 <=> A = {})
  BY <1>1, FS_CardinalityType, FS_EmptySet
<1>. QED  BY <1>4, <1>5, <1>6 DEF A

-----------------------------------------------------------------------------
(* The triggers on one row.                                                *)

ShareT == [nb : [Types -> Int], present : [Types -> Int], seen : Int, present_seen : Int,
           external : Int]

LEMMA Adding ==
    ASSUME NEW row \in GroupRow, NEW share \in ShareT, NEW sign \in {1, -1},
           NEW r, r = Plus(row, share, sign)
    PROVE  /\ r \in GroupRow
           /\ r.name = row.name /\ r.forced_singleton = row.forced_singleton
           /\ r.duration = row.duration
           /\ \A t \in Types : /\ r.nb[t] = row.nb[t] + sign * share.nb[t]
                               /\ r.present[t] = row.present[t] + sign * share.present[t]
           /\ r.seen = row.seen + sign * share.seen
           /\ r.external = row.external + sign * share.external
           /\ Size(r) = Size(row) + sign * Size(share) /\ Size(row) \in Int
<1>1. /\ r.name = row.name /\ r.forced_singleton = row.forced_singleton
      /\ r.duration = row.duration
      /\ \A t \in Types : /\ r.nb[t] = row.nb[t] + sign * share.nb[t]
                          /\ r.present[t] = row.present[t] + sign * share.present[t]
      /\ r.seen = row.seen + sign * share.seen
      /\ r.external = row.external + sign * share.external
  BY DEF Plus, GroupRow
<1>2. r \in GroupRow
  <2>1. \A i, j \in Int : i + sign * j \in Int
    OBVIOUS
  <2>2. /\ [t \in Types |-> row.nb[t] + sign * share.nb[t]] \in [Types -> Int]
        /\ [t \in Types |-> row.present[t] + sign * share.present[t]] \in [Types -> Int]
        /\ row.seen + sign * share.seen \in Int
        /\ row.present_seen + sign * share.present_seen \in Int
        /\ row.external + sign * share.external \in Int
    BY <2>1 DEF GroupRow, ShareT
  <2>. QED  BY <2>2 DEF Plus, GroupRow
<1>3. Size(r) = Size(row) + sign * Size(share) /\ Size(row) \in Int
  <2>. DEFINE Audio(c) == IF "Audio" \in Types THEN c.nb["Audio"] ELSE 0
  <2>1. "Video" \in Types /\ "Unknown" \in Types
    BY Constants
  <2>2. /\ row.nb["Video"] \in Int /\ row.nb["Unknown"] \in Int /\ row.external \in Int
        /\ Audio(row) \in Int
        /\ share.nb["Video"] \in Int /\ share.nb["Unknown"] \in Int
        /\ share.external \in Int /\ Audio(share) \in Int
    BY <2>1 DEF GroupRow, ShareT
  <2>3. /\ r.nb["Video"] = row.nb["Video"] + sign * share.nb["Video"]
        /\ r.nb["Unknown"] = row.nb["Unknown"] + sign * share.nb["Unknown"]
        /\ r.external = row.external + sign * share.external
        /\ Audio(r) = Audio(row) + sign * Audio(share)
    BY <1>1, <2>1
  <2>4. \A c : Size(c) = c.nb["Video"] + c.nb["Unknown"] + Audio(c) + c.external
    BY DEF Size
  <2>. HIDE DEF Audio
  <2>5. CASE sign = 1
    BY <2>2, <2>3, <2>4, <2>5
  <2>6. CASE sign = -1
    BY <2>2, <2>3, <2>4, <2>6
  <2>. QED  BY <2>5, <2>6
<1>. QED  BY <1>1, <1>2, <1>3

\* How a share changes what is counted.
Signed(sign, n) == IF sign = 1 THEN n ELSE -n
Moves(row, r, share, sign) ==
    \A a \in Aspects : Value(r, a) = Value(row, a) + Signed(sign, Value(share, a))
Same(row, r) ==
    /\ r.name = row.name /\ r.forced_singleton = row.forced_singleton
    /\ r.duration = row.duration

LEMMA Values ==
    /\ \A row \in GroupRow, a \in Aspects : Value(row, a) \in Int
    /\ \A share \in ShareT, a \in Aspects : Value(share, a) \in Int
    /\ \A row \in GroupRow : Size(row) \in Int
    /\ \A share \in ShareT : Size(share) \in Int
    /\ \A c : \A a \in Aspects : a.kind = "size" => Value(c, a) = Size(c)
    /\ \E a \in Aspects : a.kind = "size"
<1>1. "Video" \in Types /\ "Unknown" \in Types
  BY Constants
<1>2. \A row \in GroupRow : Size(row) \in Int
  BY <1>1 DEF Size, GroupRow
<1>3. \A share \in ShareT : Size(share) \in Int
  BY <1>1 DEF Size, ShareT
<1>4. \A row \in GroupRow, a \in Aspects : Value(row, a) \in Int
  BY <1>2 DEF Value, Aspects, GroupRow
<1>5. \A share \in ShareT, a \in Aspects : Value(share, a) \in Int
  BY <1>3 DEF Value, Aspects, ShareT
<1>6. \A c : \A a \in Aspects : a.kind = "size" => Value(c, a) = Size(c)
  BY DEF Value
<1>7. [kind |-> "size", type |-> "Video"] \in Aspects
  BY <1>1 DEF Aspects
<1>. QED  BY <1>2, <1>3, <1>4, <1>5, <1>6, <1>7

LEMMA Moved ==
    ASSUME NEW row \in GroupRow, NEW share \in ShareT, NEW sign \in {1, -1}
    PROVE  /\ Plus(row, share, sign) \in GroupRow
           /\ Same(row, Plus(row, share, sign)) /\ Moves(row, Plus(row, share, sign), share, sign)
<1>. DEFINE r == Plus(row, share, sign)
<1>1. \A i \in Int : sign * i = Signed(sign, i)
  BY DEF Signed
<1>. HIDE DEF r
<1>2. /\ r \in GroupRow /\ Same(row, r)
      /\ \A t \in Types : /\ r.nb[t] = row.nb[t] + sign * share.nb[t]
                          /\ r.present[t] = row.present[t] + sign * share.present[t]
      /\ r.seen = row.seen + sign * share.seen
      /\ r.external = row.external + sign * share.external
      /\ Size(r) = Size(row) + sign * Size(share)
  BY Adding, SMTT(30) DEF r, Same
<1>3. /\ \A t \in Types : share.nb[t] \in Int /\ share.present[t] \in Int
      /\ share.seen \in Int /\ share.external \in Int /\ Size(share) \in Int
  BY Values DEF ShareT
<1>4. ASSUME NEW a \in Aspects
      PROVE  Value(r, a) = Value(row, a) + Signed(sign, Value(share, a))
  <2>1. CASE a.kind = "nb"
    BY <1>1, <1>2, <1>3, <2>1 DEF Value, Aspects
  <2>2. CASE a.kind = "present"
    BY <1>1, <1>2, <1>3, <2>2 DEF Value, Aspects
  <2>3. CASE a.kind = "seen"
    BY <1>1, <1>2, <1>3, <2>3 DEF Value, Aspects
  <2>4. CASE a.kind = "external"
    BY <1>1, <1>2, <1>3, <2>4 DEF Value, Aspects
  <2>5. CASE a.kind = "size"
    BY <1>1, <1>2, <1>3, <2>5, Values
  <2>. QED  BY <2>1, <2>2, <2>3, <2>4, <2>5 DEF Aspects
<1>. QED  BY <1>2, <1>4 DEF Moves, r

LEMMA EmptyRows ==
    ASSUME NEW row \in GroupRow
    PROVE  /\ DeleteEmptyGroups(row) = NoRow => Size(row) = 0
           /\ DeleteEmptyGroups(row) # NoRow => DeleteEmptyGroups(row) = row
           /\ (\A a \in Aspects : Value(row, a) = 0) => DeleteEmptyGroups(row) = NoRow
<1>1. IsEmpty(row) => Size(row) = 0
  <2>1. "Video" \in Types /\ "Unknown" \in Types
    BY Constants
  <2>. QED  BY <2>1 DEF IsEmpty, Size
<1>2. row # NoRow
  BY Constants
<1>3. ASSUME \A a \in Aspects : Value(row, a) = 0
      PROVE  IsEmpty(row)
  <2>1. \A t \in Types : row.nb[t] = 0
    <3>1. \A t \in Types : /\ [kind |-> "nb", type |-> t] \in Aspects
                           /\ Value(row, [kind |-> "nb", type |-> t]) = row.nb[t]
      BY DEF Aspects, Value
    <3>. QED  BY <1>3, <3>1
  <2>2. row.external = 0
    <3>1. /\ [kind |-> "external", type |-> "Video"] \in Aspects
          /\ Value(row, [kind |-> "external", type |-> "Video"]) = row.external
      BY Constants DEF Aspects, Value
    <3>. QED  BY <1>3, <3>1
  <2>. QED  BY <2>1, <2>2 DEF IsEmpty
<1>. QED  BY <1>1, <1>2, <1>3 DEF DeleteEmptyGroups

LEMMA AddIs ==
    ASSUME NEW gs \in GroupsT, NEW g \in Groups, gs[g] # NoRow, NEW share, NEW sign
    PROVE  /\ gs[g] \in GroupRow
           /\ Add(gs, g, share, sign)
                  = [gs EXCEPT ![g] = DeleteEmptyGroups(Plus(gs[g], share, sign))]
<1>1. gs[g] \in GroupRow
  BY DEF GroupsT
<1>2. g # NoRow
  BY Constants
<1>3. Add(gs, g, share, sign) = [gs EXCEPT ![g] = DeleteEmptyGroups(Plus(@, share, sign))]
  BY <1>2 DEF Add
<1>. QED  BY <1>1, <1>3

LEMMA Shares ==
    ASSUME NEW row \in MediaRow
    PROVE  /\ ByType(row) \in ShareT /\ Size(ByType(row)) = 1
           /\ ByImport(row) \in ShareT /\ Size(ByImport(row)) = 1
           /\ Presence(row) \in ShareT /\ Size(Presence(row)) = 0
           /\ row.internal => \A a \in Aspects : Value(ByType(row), a) = Weight(a)[row]
           /\ \A a \in Aspects : Value(ByImport(row), a)
                                    = IF a.kind = "seen" THEN 0 ELSE Weight(a)[row]
           /\ \A a \in Aspects : Value(Presence(row), a)
                                    = Bit(a.kind = "present" /\ row.type = a.type)
<1>1. /\ row.type \in Types /\ row.internal \in BOOLEAN
      /\ row.type = "Video" \/ row.type = "Audio" \/ row.type = "Unknown"
      /\ "Video" \in Types /\ "Unknown" \in Types
  BY Constants DEF MediaRow
<1>2. /\ ByType(row) \in ShareT
      /\ \A t \in Types : /\ ByType(row).nb[t] = Bit(row.type = t)
                          /\ ByType(row).present[t] = Bit(row.type = t /\ row.is_present)
      /\ ByType(row).seen = Bit(row.played) /\ ByType(row).external = 0
  BY DEF ByType, ShareT, Bit
<1>3. /\ ByImport(row) \in ShareT
      /\ \A t \in Types : /\ ByImport(row).nb[t] = Bit(row.internal /\ row.type = t)
                          /\ ByImport(row).present[t]
                                 = Bit(row.internal /\ row.type = t /\ row.is_present)
      /\ ByImport(row).seen = 0 /\ ByImport(row).external = Bit(~row.internal)
  BY DEF ByImport, ShareT, Bit
<1>4. /\ Presence(row) \in ShareT
      /\ \A t \in Types : Presence(row).nb[t] = 0 /\ Presence(row).present[t] = Bit(row.type = t)
      /\ Presence(row).seen = 0 /\ Presence(row).external = 0
  BY DEF Presence, ShareT, Bit
<1>5. Size(ByType(row)) = 1
  BY <1>1, <1>2 DEF Size, Bit
<1>6. Size(ByImport(row)) = 1
  BY <1>1, <1>3 DEF Size, Bit
<1>7. Size(Presence(row)) = 0
  BY <1>1, <1>4 DEF Size
<1>8. ASSUME NEW a \in Aspects, row.internal
      PROVE  Value(ByType(row), a) = Weight(a)[row]
  BY <1>2, <1>5, <1>8 DEF Value, Weight, Counts, Aspects, Bit
<1>9. ASSUME NEW a \in Aspects
      PROVE  Value(ByImport(row), a) = IF a.kind = "seen" THEN 0 ELSE Weight(a)[row]
  BY <1>3, <1>6 DEF Value, Weight, Counts, Aspects, Bit
<1>10. ASSUME NEW a \in Aspects
       PROVE  Value(Presence(row), a) = Bit(a.kind = "present" /\ row.type = a.type)
  BY <1>4, <1>7 DEF Value, Aspects, Bit
<1>. QED  BY <1>2, <1>3, <1>4, <1>5, <1>6, <1>7, <1>8, <1>9, <1>10

\* One trigger.
Addition(gs, g, share, sign, res) ==
    /\ res \in GroupsT
    /\ \A k \in Groups : k # g => res[k] = gs[k]
    /\ g # NoRow =>
         /\ res[g] # NoRow => Same(gs[g], res[g]) /\ Moves(gs[g], res[g], share, sign)
         /\ res[g] = NoRow => Size(gs[g]) + Signed(sign, Size(share)) = 0
         /\ (\A a \in Aspects : Value(gs[g], a) + Signed(sign, Value(share, a)) = 0)
               => res[g] = NoRow

LEMMA Added ==
    ASSUME NEW gs \in GroupsT, NEW g \in Groups \cup {NoRow}, g # NoRow => gs[g] # NoRow,
           NEW share \in ShareT, NEW sign \in {1, -1}
    PROVE  Addition(gs, g, share, sign, Add(gs, g, share, sign))
<1>. DEFINE res == Add(gs, g, share, sign)
<1>1. CASE g = NoRow
  BY <1>1, Constants DEF Add, Addition
<1>2. CASE g # NoRow
  <2>. DEFINE r == Plus(gs[g], share, sign)
  <2>1. gs[g] \in GroupRow /\ res = [gs EXCEPT ![g] = DeleteEmptyGroups(r)]
    BY <1>2, AddIs
  <2>2. r \in GroupRow /\ Same(gs[g], r) /\ Moves(gs[g], r, share, sign)
    BY <2>1, Moved
  <2>3. Size(r) = Size(gs[g]) + Signed(sign, Size(share))
    BY <2>2, Values DEF Moves
  <2>. HIDE DEF r
  <2>4. /\ DeleteEmptyGroups(r) = NoRow => Size(r) = 0
        /\ DeleteEmptyGroups(r) # NoRow => DeleteEmptyGroups(r) = r
        /\ (\A a \in Aspects : Value(r, a) = 0) => DeleteEmptyGroups(r) = NoRow
    BY <2>2, EmptyRows
  <2>5. /\ res \in GroupsT /\ res[g] = DeleteEmptyGroups(r)
        /\ \A k \in Groups : k # g => res[k] = gs[k]
    <3>1. DeleteEmptyGroups(r) \in GroupRow \cup {NoRow}
      BY <2>2, <2>4
    <3>. QED  BY <1>2, <2>1, <3>1 DEF GroupsT
  <2>6. (\A a \in Aspects : Value(gs[g], a) + Signed(sign, Value(share, a)) = 0)
           => \A a \in Aspects : Value(r, a) = 0
    BY <2>2 DEF Moves
  <2>. QED  BY <2>2, <2>3, <2>4, <2>5, <2>6 DEF Addition
<1>. QED  BY <1>1, <1>2

\* What leaves group down and joins group up.
Joined(k, up, S1, down, S2, a) ==
    (IF k = up THEN Value(S1, a) ELSE 0) - (IF k = down THEN Value(S2, a) ELSE 0)

\* A trigger that counts a media in its new group and out of the old one.
Swap(gs, up, S1, down, S2, res) ==
    /\ res \in GroupsT
    /\ \A k \in Groups : gs[k] = NoRow => res[k] = NoRow
    /\ \A k \in Groups : gs[k] # NoRow /\ res[k] # NoRow =>
          /\ Same(gs[k], res[k])
          /\ \A a \in Aspects :
                Value(res[k], a) = Value(gs[k], a) + Joined(k, up, S1, down, S2, a)
    /\ \A k \in Groups : gs[k] # NoRow /\ res[k] = NoRow =>
          k = down /\ up # down /\ Size(gs[k]) = 1
    /\ \A k \in Groups :
          /\ gs[k] # NoRow /\ k = down /\ up # down
          /\ \A a \in Aspects : Value(gs[k], a) = Value(S2, a)
          => res[k] = NoRow

\* What is known of the groups a media leaves and joins.
Linked(gs, up, down) ==
    /\ up \in Groups \cup {NoRow} /\ down \in Groups \cup {NoRow}
    /\ up # NoRow => gs[up] # NoRow
    /\ \A k \in Groups : gs[k] # NoRow => Size(gs[k]) >= 0
    /\ down # NoRow => gs[down] # NoRow /\ Size(gs[down]) >= 1

LEMMA Swapped ==
    ASSUME NEW gs \in GroupsT, NEW up, NEW down, Linked(gs, up, down),
           NEW S1 \in ShareT, NEW S2 \in ShareT, Size(S1) = 1, Size(S2) = 1
    PROVE  Swap(gs, up, S1, down, S2, Add(Add(gs, up, S1, 1), down, S2, -1))
<1>. DEFINE mid == Add(gs, up, S1, 1)
            res == Add(mid, down, S2, -1)
<1>. USE DEF Linked
<1>1. Addition(gs, up, S1, 1, mid)
  BY Added
<1>. HIDE DEF mid
<1>2. \A n : Signed(1, n) = n /\ Signed(-1, n) = -n
  BY DEF Signed
<1>3. \A k \in Groups : gs[k] # NoRow => gs[k] \in GroupRow /\ Size(gs[k]) \in Int
  BY Values DEF GroupsT
<1>4. up # NoRow => mid[up] # NoRow /\ Size(mid[up]) = Size(gs[up]) + 1
  <2>. HAVE up # NoRow
  <2>1. mid[up] # NoRow
    BY <1>1, <1>2, <1>3 DEF Addition
  <2>2. PICK a \in Aspects : a.kind = "size"
    BY Values
  <2>3. Value(mid[up], a) = Value(gs[up], a) + Signed(1, Value(S1, a))
    BY <1>1, <2>1 DEF Addition, Moves
  <2>. QED  BY <1>2, <2>1, <2>2, <2>3, Values
<1>5. down # NoRow => mid[down] # NoRow
  BY <1>1, <1>4 DEF Addition
<1>6. Addition(gs, up, S1, 1, mid) /\ Addition(mid, down, S2, -1, res)
  <2>1. mid \in GroupsT
    BY <1>1 DEF Addition
  <2>2. Addition(mid, down, S2, -1, Add(mid, down, S2, -1))
    BY <1>5, <2>1, Added
  <2>. QED  BY <1>1, <2>2
<1>. HIDE DEF res
<1>7. NoRow \notin Groups
  BY Constants
<1>8. ASSUME NEW k \in Groups, gs[k] = NoRow
      PROVE  res[k] = NoRow
  BY <1>1, <1>6, <1>7, <1>8 DEF Addition
<1>9. ASSUME NEW k \in Groups, gs[k] # NoRow, res[k] # NoRow
      PROVE  /\ Same(gs[k], res[k])
             /\ \A a \in Aspects :
                   Value(res[k], a) = Value(gs[k], a) + Joined(k, up, S1, down, S2, a)
  <2>1. Same(gs[k], mid[k])
    BY <1>1, <1>4, <1>7 DEF Addition, Same
  <2>2. Same(mid[k], res[k])
    BY <1>6, <1>7, <1>9 DEF Addition, Same
  <2>3. ASSUME NEW a \in Aspects
        PROVE  Value(res[k], a) = Value(gs[k], a) + Joined(k, up, S1, down, S2, a)
    <3>1. Value(S1, a) \in Int /\ Value(S2, a) \in Int /\ Value(gs[k], a) \in Int
      BY <1>3, <1>9, Values
    <3>2. Value(mid[k], a) = Value(gs[k], a) + (IF k = up THEN Value(S1, a) ELSE 0)
      BY <1>1, <1>2, <1>4, <1>7, <3>1 DEF Addition, Moves
    <3>3. Value(res[k], a) = Value(mid[k], a) - (IF k = down THEN Value(S2, a) ELSE 0)
      <4>1. Value(mid[k], a) \in Int
        BY <3>1, <3>2
      <4>. QED  BY <1>2, <1>6, <1>7, <1>9, <3>1, <4>1 DEF Addition, Moves
    <3>. QED  BY <3>1, <3>2, <3>3 DEF Joined
  <2>. QED  BY <2>1, <2>2, <2>3 DEF Same
<1>10. ASSUME NEW k \in Groups, gs[k] # NoRow, res[k] = NoRow
       PROVE  k = down /\ up # down /\ Size(gs[k]) = 1
  <2>1. k = down
    BY <1>1, <1>4, <1>6, <1>7, <1>10 DEF Addition
  <2>2. Size(mid[k]) + Signed(-1, Size(S2)) = 0
    BY <1>6, <1>7, <1>10, <2>1 DEF Addition
  <2>3. Size(mid[k]) = 1
    <3>1. Size(mid[k]) \in Int
      BY <1>1, <1>5, <1>7, <2>1, Values DEF Addition, GroupsT
    <3>. QED  BY <1>2, <2>2, <3>1
  <2>4. up # down
    BY <1>3, <1>4, <1>7, <1>10, <2>1, <2>3
  <2>. QED  BY <1>1, <1>10, <2>1, <2>3, <2>4 DEF Addition
<1>11. ASSUME NEW k \in Groups, gs[k] # NoRow, k = down, up # down,
              \A a \in Aspects : Value(gs[k], a) = Value(S2, a)
       PROVE  res[k] = NoRow
  <2>1. mid[k] = gs[k]
    BY <1>1, <1>11 DEF Addition
  <2>2. \A a \in Aspects : Value(mid[k], a) + Signed(-1, Value(S2, a)) = 0
    BY <1>2, <1>11, <2>1, Values
  <2>. QED  BY <1>6, <1>7, <1>11, <2>2 DEF Addition
<1>12. Swap(gs, up, S1, down, S2, res)
  BY <1>6, <1>8, <1>9, <1>10, <1>11 DEF Addition, Swap
<1>. QED  BY <1>12 DEF res, mid

\* A trigger that changes a name or a duration leaves what is counted.
Keeps(row, r) ==
    /\ r \in GroupRow /\ r.forced_singleton = row.forced_singleton
    /\ \A a \in Aspects : Value(r, a) = Value(row, a)

LEMMA Kept ==
    ASSUME NEW row \in GroupRow
    PROVE  /\ \A n \in Int : LET r == [row EXCEPT !.duration = n]
                             IN  Keeps(row, r) /\ r.duration = n /\ r.name = row.name
           /\ \A n \in Names : LET r == [row EXCEPT !.name = n]
                               IN  Keeps(row, r) /\ r.duration = row.duration /\ r.name = n
<1>1. ASSUME NEW r, r.nb = row.nb, r.present = row.present, r.seen = row.seen,
             r.external = row.external
      PROVE  \A a \in Aspects : Value(r, a) = Value(row, a)
  BY <1>1 DEF Value, Size
<1>2. ASSUME NEW n \in Int
      PROVE  LET r == [row EXCEPT !.duration = n]
             IN  Keeps(row, r) /\ r.duration = n /\ r.name = row.name
  <2>. DEFINE r == [row EXCEPT !.duration = n]
  <2>1. /\ r \in GroupRow /\ r.forced_singleton = row.forced_singleton
        /\ r.nb = row.nb /\ r.present = row.present /\ r.seen = row.seen
        /\ r.external = row.external /\ r.duration = n /\ r.name = row.name
    BY DEF GroupRow
  <2>. HIDE DEF r
  <2>2. Keeps(row, r) /\ r.duration = n /\ r.name = row.name
    BY <1>1, <2>1 DEF Keeps
  <2>. QED  BY <2>2 DEF r
<1>3. ASSUME NEW n \in Names
      PROVE  LET r == [row EXCEPT !.name = n]
             IN  Keeps(row, r) /\ r.duration = row.duration /\ r.name = n
  <2>. DEFINE r == [row EXCEPT !.name = n]
  <2>1. /\ r \in GroupRow /\ r.forced_singleton = row.forced_singleton
        /\ r.nb = row.nb /\ r.present = row.present /\ r.seen = row.seen
        /\ r.external = row.external /\ r.duration = row.duration /\ r.name = n
    BY DEF GroupRow
  <2>. HIDE DEF r
  <2>2. Keeps(row, r) /\ r.duration = row.duration /\ r.name = n
    BY <1>1, <2>1 DEF Keeps
  <2>. QED  BY <2>2 DEF r
<1>. QED  BY <1>2, <1>3

\* A duration that is added to one group.
Lengthened(gs, g, duration, res) ==
    /\ res \in GroupsT
    /\ \A k \in Groups :
          /\ gs[k] = NoRow <=> res[k] = NoRow
          /\ gs[k] # NoRow =>
                /\ Keeps(gs[k], res[k]) /\ res[k].name = gs[k].name
                /\ res[k].duration = gs[k].duration + (IF k = g THEN duration ELSE 0)

LEMMA DurationAdded ==
    ASSUME NEW gs \in GroupsT, NEW g \in Groups \cup {NoRow}, g # NoRow => gs[g] # NoRow,
           NEW duration \in Int
    PROVE  Lengthened(gs, g, duration, AddDuration(gs, g, duration))
<1>. DEFINE res == AddDuration(gs, g, duration)
<1>1. \A k \in Groups : gs[k] # NoRow =>
         gs[k] \in GroupRow /\ Keeps(gs[k], gs[k]) /\ gs[k].duration \in Int
  BY DEF Keeps, GroupsT, GroupRow
<1>2. CASE g = NoRow
  <2>1. res = gs /\ \A k \in Groups : k # g
    BY <1>2, Constants DEF AddDuration
  <2>. QED  BY <1>1, <2>1 DEF Lengthened
<1>3. CASE g # NoRow
  <2>. DEFINE n == gs[g].duration + duration
              r == [gs[g] EXCEPT !.duration = n]
  <2>1. n \in Int
    BY <1>1, <1>3
  <2>2. res = [gs EXCEPT ![g] = r]
    BY <1>3 DEF AddDuration
  <2>. HIDE DEF n
  <2>3. Keeps(gs[g], r) /\ r.duration = n /\ r.name = gs[g].name
    BY <1>1, <1>3, <2>1, Kept
  <2>4. r \in GroupRow /\ r # NoRow
    BY <2>3, Constants DEF Keeps
  <2>. HIDE DEF r
  <2>5. res \in GroupsT /\ res[g] = r /\ \A k \in Groups : k # g => res[k] = gs[k]
    BY <1>3, <2>2, <2>4 DEF GroupsT
  <2>6. ASSUME NEW k \in Groups
        PROVE  /\ gs[k] = NoRow <=> res[k] = NoRow
               /\ gs[k] # NoRow =>
                     /\ Keeps(gs[k], res[k]) /\ res[k].name = gs[k].name
                     /\ res[k].duration = gs[k].duration + (IF k = g THEN duration ELSE 0)
    <3>1. CASE k = g
      BY <1>3, <2>3, <2>4, <2>5, <3>1 DEF n
    <3>2. CASE k # g
      BY <1>1, <2>5, <3>2
    <3>. QED  BY <3>1, <3>2
  <2>. QED  BY <2>5, <2>6 DEF Lengthened
<1>. QED  BY <1>2, <1>3

\* A media that is alone gives its title to its group.
Retitled(gs, old, new, res) ==
    /\ res \in GroupsT
    /\ \A k \in Groups :
          /\ gs[k] = NoRow <=> res[k] = NoRow
          /\ gs[k] # NoRow =>
                /\ Keeps(gs[k], res[k]) /\ res[k].duration = gs[k].duration
                /\ res[k].name = IF old.title # new.title /\ new.group = k
                                     /\ gs[k].forced_singleton
                                 THEN new.title ELSE gs[k].name

LEMMA SingletonRenamed ==
    ASSUME NEW gs \in GroupsT, NEW old \in MediaRow, NEW new \in MediaRow,
           new.group # NoRow => gs[new.group] # NoRow
    PROVE  Retitled(gs, old, new, RenameForcedSingleton(gs, old, new))
<1>. DEFINE res == RenameForcedSingleton(gs, old, new)
            g == new.group
<1>1. \A k \in Groups : gs[k] # NoRow => gs[k] \in GroupRow /\ Keeps(gs[k], gs[k])
  BY DEF Keeps, GroupsT
<1>2. g \in Groups \cup {NoRow} /\ new.title \in Names
  BY DEF MediaRow, Names
<1>3. CASE old.title # new.title /\ g # NoRow /\ gs[g].forced_singleton
  <2>. DEFINE r == [gs[g] EXCEPT !.name = new.title]
  <2>1. res = [gs EXCEPT ![g] = r]
    BY <1>3 DEF RenameForcedSingleton
  <2>2. Keeps(gs[g], r) /\ r.duration = gs[g].duration /\ r.name = new.title
    BY <1>1, <1>2, <1>3, Kept
  <2>3. r \in GroupRow /\ r # NoRow
    BY <2>2, Constants DEF Keeps
  <2>. HIDE DEF r
  <2>4. res \in GroupsT /\ res[g] = r /\ \A k \in Groups : k # g => res[k] = gs[k]
    BY <1>2, <1>3, <2>1, <2>3 DEF GroupsT
  <2>5. ASSUME NEW k \in Groups
        PROVE  /\ gs[k] = NoRow <=> res[k] = NoRow
               /\ gs[k] # NoRow =>
                     /\ Keeps(gs[k], res[k]) /\ res[k].duration = gs[k].duration
                     /\ res[k].name = IF old.title # new.title /\ new.group = k
                                          /\ gs[k].forced_singleton
                                      THEN new.title ELSE gs[k].name
    <3>1. CASE k = g
      BY <1>3, <2>2, <2>3, <2>4, <3>1
    <3>2. CASE k # g
      BY <1>1, <2>4, <3>2
    <3>. QED  BY <3>1, <3>2
  <2>. QED  BY <2>4, <2>5 DEF Retitled
<1>4. CASE ~(old.title # new.title /\ g # NoRow /\ gs[g].forced_singleton)
  <2>1. res = gs /\ NoRow \notin Groups
    BY <1>4, Constants DEF RenameForcedSingleton
  <2>. QED  BY <1>1, <1>4, <2>1 DEF Retitled
<1>. QED  BY <1>3, <1>4

-----------------------------------------------------------------------------
(* The triggers on a media that changes.                                   *)

\* The changes the code makes to a row: a media changes groups, or it is shown or
\* hidden with its device, or the rest changes.
Legit(old, new) ==
    /\ old.group # new.group =>
          /\ old.internal = new.internal /\ old.type = new.type /\ old.played = new.played
          /\ old.is_present = new.is_present /\ old.title = new.title
    /\ old.is_present # new.is_present =>
          /\ old.internal /\ new.internal /\ old.group = new.group
          /\ old.type = new.type /\ old.played = new.played
    /\ old.internal # new.internal => old.played = new.played

\* The name and the duration are the first to follow.
Begun(gs, old, new, res) ==
    /\ res \in GroupsT
    /\ \A k \in Groups :
          /\ gs[k] = NoRow <=> res[k] = NoRow
          /\ gs[k] # NoRow =>
                /\ Keeps(gs[k], res[k])
                /\ res[k].name = IF old.title # new.title /\ new.group = k
                                     /\ gs[k].forced_singleton
                                 THEN new.title ELSE gs[k].name
                /\ res[k].duration = gs[k].duration + Part(new, k, Lasting)
                                         - Part(old, k, Lasting)

LEMMA Parts ==
    ASSUME NEW row \in MediaRow, NEW k \in Groups
    PROVE  /\ Part(row, k, Lasting) = IF row.group = k THEN row.duration ELSE 0
           /\ Part(row, k, One) = IF row.group = k THEN 1 ELSE 0
           /\ \A a : Part(row, k, Weight(a)) = IF row.group = k THEN Weight(a)[row] ELSE 0
           /\ \A a : Weight(a)[row] \in {0, 1}
           /\ row.duration \in Int
<1>1. row # NoRow /\ Durations \subseteq Int
  BY Constants DEF Durations
<1>. QED  BY <1>1 DEF Part, Lasting, One, Weight, Bit, MediaRow

LEMMA Beginning ==
    ASSUME NEW gs \in GroupsT, NEW old \in MediaRow, NEW new \in MediaRow,
           Linked(gs, new.group, old.group)
    PROVE  LET Renamed == RenameForcedSingleton(gs, old, new)
           IN  Begun(gs, old, new, UpdateDurationOnMediaChange(Renamed, old, new))
<1>. DEFINE g1 == RenameForcedSingleton(gs, old, new)
            g2 == AddDuration(g1, old.group, -old.duration)
            g3 == AddDuration(g2, new.group, new.duration)
<1>1. /\ new.group \in Groups \cup {NoRow} /\ old.group \in Groups \cup {NoRow}
      /\ new.group # NoRow => gs[new.group] # NoRow
      /\ old.group # NoRow => gs[old.group] # NoRow
      /\ old.duration \in Int /\ new.duration \in Int
  <2>1. Durations \subseteq Int
    BY Constants DEF Durations
  <2>. QED  BY <2>1 DEF Linked, MediaRow
<1>2. Retitled(gs, old, new, g1)
  BY <1>1, SingletonRenamed
<1>. HIDE DEF g1
<1>3. Lengthened(g1, old.group, -old.duration, g2)
  <2>1. g1 \in GroupsT /\ (old.group # NoRow => g1[old.group] # NoRow) /\ -old.duration \in Int
    BY <1>1, <1>2 DEF Retitled
  <2>. QED  BY <1>1, <2>1, DurationAdded
<1>. HIDE DEF g2
<1>4. Lengthened(g2, new.group, new.duration, g3)
  <2>1. g2 \in GroupsT /\ (new.group # NoRow => g2[new.group] # NoRow)
    BY <1>1, <1>2, <1>3 DEF Retitled, Lengthened
  <2>. QED  BY <1>1, <2>1, DurationAdded
<1>. HIDE DEF g3
<1>5. ASSUME NEW k \in Groups
      PROVE  /\ gs[k] = NoRow <=> g3[k] = NoRow
             /\ gs[k] # NoRow =>
                   /\ Keeps(gs[k], g3[k])
                   /\ g3[k].name = IF old.title # new.title /\ new.group = k
                                       /\ gs[k].forced_singleton
                                   THEN new.title ELSE gs[k].name
                   /\ g3[k].duration = gs[k].duration + Part(new, k, Lasting)
                                           - Part(old, k, Lasting)
  <2>1. /\ gs[k] = NoRow <=> g1[k] = NoRow
        /\ g1[k] = NoRow <=> g2[k] = NoRow
        /\ g2[k] = NoRow <=> g3[k] = NoRow
    BY <1>2, <1>3, <1>4 DEF Retitled, Lengthened
  <2>2. ASSUME gs[k] # NoRow
        PROVE  /\ Keeps(gs[k], g1[k]) /\ Keeps(g1[k], g2[k]) /\ Keeps(g2[k], g3[k])
               /\ g1[k].name = IF old.title # new.title /\ new.group = k
                                   /\ gs[k].forced_singleton
                               THEN new.title ELSE gs[k].name
               /\ g2[k].name = g1[k].name /\ g3[k].name = g2[k].name
               /\ g1[k].duration = gs[k].duration
               /\ g2[k].duration = g1[k].duration + (IF k = old.group THEN -old.duration ELSE 0)
               /\ g3[k].duration = g2[k].duration + (IF k = new.group THEN new.duration ELSE 0)
    BY <1>2, <1>3, <1>4, <2>1, <2>2 DEF Retitled, Lengthened
  <2>3. ASSUME gs[k] # NoRow
        PROVE  Keeps(gs[k], g3[k])
    BY <2>2, <2>3 DEF Keeps
  <2>4. ASSUME gs[k] # NoRow
        PROVE  g3[k].duration = gs[k].duration + Part(new, k, Lasting) - Part(old, k, Lasting)
    <3>1. gs[k].duration \in Int
      BY <2>4 DEF GroupsT, GroupRow
    <3>. QED  BY <1>1, <2>2, <2>4, <3>1, Parts
  <2>. QED  BY <2>1, <2>2, <2>3, <2>4
<1>6. Begun(gs, old, new, g3)
  BY <1>4, <1>5 DEF Begun, Lengthened
<1>. QED  BY <1>6 DEF g1, g2, g3, UpdateDurationOnMediaChange

LEMMA StillLinked ==
    ASSUME NEW gs, NEW old, NEW new, NEW res, Begun(gs, old, new, res),
           Linked(gs, new.group, old.group)
    PROVE  Linked(res, new.group, old.group)
<1>1. \A k \in Groups : gs[k] # NoRow => Size(res[k]) = Size(gs[k])
  BY Values DEF Begun, Keeps
<1>. QED  BY <1>1 DEF Begun, Linked

Has(row, k) == row # NoRow /\ row.group = k

\* The change of a media spoils the counters of group k.
Blurs(k, old, new) ==
    old # NoRow /\ Spoils(old, new) /\ (Has(old, k) \/ Has(new, k))

\* What becomes of the row of a group that stays...
Follows(row, r, k, old, new) ==
    /\ r.forced_singleton = row.forced_singleton
    /\ r.name = IF /\ old # NoRow /\ new # NoRow /\ old.title # new.title
                   /\ new.group = k /\ row.forced_singleton
                THEN new.title ELSE row.name
    /\ r.duration = row.duration + Part(new, k, Lasting) - Part(old, k, Lasting)
    /\ Size(r) = Size(row) + Part(new, k, One) - Part(old, k, One)
    /\ ~Blurs(k, old, new) =>
          \A a \in Aspects :
             Value(r, a) = Value(row, a) + Part(new, k, Weight(a)) - Part(old, k, Weight(a))

\* ... and which ones go, when the row of a media is inserted, changed or deleted.
Tracks(gs, res, old, new) ==
    /\ res \in GroupsT
    /\ \A k \in Groups :
          /\ gs[k] = NoRow => res[k] = NoRow
          /\ gs[k] # NoRow /\ res[k] # NoRow => Follows(gs[k], res[k], k, old, new)
          /\ gs[k] # NoRow /\ res[k] = NoRow =>
                Has(old, k) /\ ~Has(new, k) /\ Size(gs[k]) = 1
          /\ /\ gs[k] # NoRow /\ Has(old, k) /\ ~Has(new, k) /\ ~Blurs(k, old, new)
             /\ \A a \in Aspects : Value(gs[k], a) = Weight(a)[old]
             => res[k] = NoRow

\* The shares the triggers move weigh what the media does, unless it spoils.
Fair(old, new, S1, S2) ==
    \A a \in Aspects :
       IF old.group = new.group
       THEN Value(S1, a) - Value(S2, a) = Weight(a)[new] - Weight(a)[old]
       ELSE Value(S1, a) = Weight(a)[new] /\ Value(S2, a) = Weight(a)[old]

LEMMA OneSwap ==
    ASSUME NEW gs \in GroupsT, NEW old \in MediaRow, NEW new \in MediaRow,
           NEW g, Begun(gs, old, new, g),
           NEW S1 \in ShareT, NEW S2 \in ShareT, Size(S1) = 1, Size(S2) = 1,
           NEW res, Swap(g, new.group, S1, old.group, S2, res),
           ~Spoils(old, new) => Fair(old, new, S1, S2)
    PROVE  Tracks(gs, res, old, new)
<1>1. old # NoRow /\ new # NoRow
  BY Constants
<1>2. /\ \A k : Has(old, k) <=> old.group = k
      /\ \A k : Has(new, k) <=> new.group = k
  BY <1>1 DEF Has
<1>3. res \in GroupsT
  BY DEF Swap
<1>4. \A k \in Groups : gs[k] = NoRow => res[k] = NoRow
  BY DEF Swap, Begun
<1>5. \A k \in Groups : gs[k] # NoRow =>
         g[k] # NoRow /\ Keeps(gs[k], g[k]) /\ Size(g[k]) = Size(gs[k])
  BY Values DEF Begun, Keeps
<1>6. ASSUME NEW k \in Groups, gs[k] # NoRow, res[k] # NoRow
      PROVE  Follows(gs[k], res[k], k, old, new)
  <2>1. Same(g[k], res[k])
    BY <1>5, <1>6 DEF Swap
  <2>2. \A a \in Aspects :
           Value(res[k], a) = Value(gs[k], a) + Joined(k, new.group, S1, old.group, S2, a)
    BY <1>5, <1>6 DEF Swap, Keeps
  <2>3. \A a \in Aspects :
           Value(S1, a) \in Int /\ Value(S2, a) \in Int /\ Value(gs[k], a) \in Int
    BY <1>6, Values DEF GroupsT
  <2>4. Size(res[k]) = Size(gs[k]) + Part(new, k, One) - Part(old, k, One)
    <3>1. PICK a \in Aspects : a.kind = "size"
      BY Values
    <3>2. /\ Value(res[k], a) = Size(res[k]) /\ Value(gs[k], a) = Size(gs[k])
          /\ Value(S1, a) = 1 /\ Value(S2, a) = 1
      BY <3>1, Values
    <3>3. Joined(k, new.group, S1, old.group, S2, a) = Part(new, k, One) - Part(old, k, One)
      BY <3>2, Parts DEF Joined
    <3>4. Part(new, k, One) \in Int /\ Part(old, k, One) \in Int /\ Size(gs[k]) \in Int
      BY <2>3, <3>2, Parts
    <3>. QED  BY <2>2, <3>2, <3>3, <3>4
  <2>5. ASSUME NEW a \in Aspects, ~Blurs(k, old, new)
        PROVE  Value(res[k], a)
                   = Value(gs[k], a) + Part(new, k, Weight(a)) - Part(old, k, Weight(a))
    <3>1. /\ Part(new, k, Weight(a)) = IF new.group = k THEN Weight(a)[new] ELSE 0
          /\ Part(old, k, Weight(a)) = IF old.group = k THEN Weight(a)[old] ELSE 0
          /\ Weight(a)[new] \in Int /\ Weight(a)[old] \in Int
      BY Parts
    <3>2. CASE old.group # k /\ new.group # k
      BY <2>2, <2>3, <3>1, <3>2 DEF Joined
    <3>3. CASE old.group = k \/ new.group = k
      <4>1. Fair(old, new, S1, S2)
        BY <1>1, <1>2, <2>5, <3>3 DEF Blurs
      <4>2. IF old.group = new.group
            THEN Value(S1, a) - Value(S2, a) = Weight(a)[new] - Weight(a)[old]
            ELSE Value(S1, a) = Weight(a)[new] /\ Value(S2, a) = Weight(a)[old]
        BY <4>1 DEF Fair
      <4>. QED  BY <2>2, <2>3, <3>1, <3>3, <4>2 DEF Joined
    <3>. QED  BY <3>2, <3>3
  <2>6. g[k].name = (IF old.title # new.title /\ new.group = k /\ gs[k].forced_singleton
                     THEN new.title ELSE gs[k].name)
        /\ g[k].duration = gs[k].duration + Part(new, k, Lasting) - Part(old, k, Lasting)
        /\ g[k].forced_singleton = gs[k].forced_singleton
    BY <1>6 DEF Begun, Keeps
  <2>. QED  BY <1>1, <2>1, <2>4, <2>5, <2>6 DEF Follows, Same
<1>7. ASSUME NEW k \in Groups, gs[k] # NoRow, res[k] = NoRow
      PROVE  Has(old, k) /\ ~Has(new, k) /\ Size(gs[k]) = 1
  BY <1>2, <1>5, <1>7 DEF Swap
<1>8. ASSUME NEW k \in Groups, gs[k] # NoRow, Has(old, k), ~Has(new, k), ~Blurs(k, old, new),
             \A a \in Aspects : Value(gs[k], a) = Weight(a)[old]
      PROVE  res[k] = NoRow
  <2>1. Fair(old, new, S1, S2) /\ old.group = k /\ new.group # k
    BY <1>1, <1>2, <1>8 DEF Blurs
  <2>2. \A a \in Aspects : Value(g[k], a) = Value(S2, a)
    BY <1>5, <1>8, <2>1 DEF Fair, Keeps
  <2>. QED  BY <1>5, <1>8, <2>1, <2>2 DEF Swap
<1>. QED  BY <1>3, <1>4, <1>6, <1>7, <1>8 DEF Tracks

\* A media that stays where it is.
LEMMA Stayed ==
    ASSUME NEW gs \in GroupsT, NEW old \in MediaRow, NEW new \in MediaRow,
           old.group = new.group,
           NEW g, Begun(gs, old, new, g), NEW res \in GroupsT,
           \A k \in Groups :
              /\ g[k] = NoRow <=> res[k] = NoRow
              /\ g[k] # NoRow =>
                    /\ Same(g[k], res[k]) /\ Size(res[k]) = Size(g[k])
                    /\ k # new.group \/ ~Spoils(old, new) =>
                          \A a \in Aspects : Value(res[k], a) = Value(g[k], a)
                              + (IF k = new.group THEN Weight(a)[new] - Weight(a)[old] ELSE 0)
    PROVE  Tracks(gs, res, old, new)
<1>1. old # NoRow /\ new # NoRow
  BY Constants
<1>2. /\ \A k : Has(old, k) <=> old.group = k
      /\ \A k : Has(new, k) <=> new.group = k
  BY <1>1 DEF Has
<1>3. \A k \in Groups : gs[k] = NoRow <=> res[k] = NoRow
  BY DEF Begun
<1>4. ASSUME NEW k \in Groups, gs[k] # NoRow
      PROVE  Follows(gs[k], res[k], k, old, new)
  <2>1. Keeps(gs[k], g[k]) /\ g[k] # NoRow /\ Same(g[k], res[k])
    BY <1>4 DEF Begun
  <2>2. Size(res[k]) = Size(gs[k]) + Part(new, k, One) - Part(old, k, One)
    <3>1. Size(res[k]) = Size(gs[k]) /\ Size(gs[k]) \in Int
      BY <1>4, <2>1, Values DEF Keeps, GroupsT
    <3>2. Part(new, k, One) = Part(old, k, One) /\ Part(new, k, One) \in Int
      BY Parts
    <3>. QED  BY <3>1, <3>2
  <2>3. ASSUME NEW a \in Aspects, ~Blurs(k, old, new)
        PROVE  Value(res[k], a)
                   = Value(gs[k], a) + Part(new, k, Weight(a)) - Part(old, k, Weight(a))
    <3>1. k # new.group \/ ~Spoils(old, new)
      BY <1>1, <1>2, <2>3 DEF Blurs
    <3>2. Value(res[k], a) = Value(gs[k], a)
              + (IF k = new.group THEN Weight(a)[new] - Weight(a)[old] ELSE 0)
      BY <2>1, <3>1 DEF Keeps
    <3>3. /\ Part(new, k, Weight(a)) = IF new.group = k THEN Weight(a)[new] ELSE 0
          /\ Part(old, k, Weight(a)) = IF old.group = k THEN Weight(a)[old] ELSE 0
          /\ Weight(a)[new] \in Int /\ Weight(a)[old] \in Int
      BY Parts
    <3>4. Value(gs[k], a) \in Int
      BY <1>4, Values DEF GroupsT
    <3>. QED  BY <3>2, <3>3, <3>4
  <2>4. g[k].name = (IF old.title # new.title /\ new.group = k /\ gs[k].forced_singleton
                     THEN new.title ELSE gs[k].name)
        /\ g[k].duration = gs[k].duration + Part(new, k, Lasting) - Part(old, k, Lasting)
        /\ g[k].forced_singleton = gs[k].forced_singleton
    BY <1>4 DEF Begun, Keeps
  <2>. QED  BY <1>1, <2>1, <2>2, <2>3, <2>4 DEF Follows, Same
<1>. QED  BY <1>2, <1>3, <1>4 DEF Tracks

\* Both counts of a media that stays where it is.
LEMMA Turned ==
    ASSUME NEW g \in GroupsT, NEW h, Linked(g, h, h),
           NEW S1 \in ShareT, NEW S2 \in ShareT, Size(S1) = 1, Size(S2) = 1,
           NEW res, Swap(g, h, S1, h, S2, res)
    PROVE  /\ res \in GroupsT
           /\ \A k \in Groups :
                 /\ g[k] = NoRow <=> res[k] = NoRow
                 /\ g[k] # NoRow =>
                       /\ Same(g[k], res[k]) /\ Size(res[k]) = Size(g[k])
                       /\ \A a \in Aspects : Value(res[k], a) = Value(g[k], a)
                              + (IF k = h THEN Value(S1, a) - Value(S2, a) ELSE 0)
           /\ Linked(res, h, h)
<1>1. \A k \in Groups : g[k] = NoRow <=> res[k] = NoRow
  BY DEF Swap
<1>2. ASSUME NEW k \in Groups, g[k] # NoRow, NEW a \in Aspects
      PROVE  Value(res[k], a) = Value(g[k], a)
                 + (IF k = h THEN Value(S1, a) - Value(S2, a) ELSE 0)
  <2>1. Value(S1, a) \in Int /\ Value(S2, a) \in Int /\ Value(g[k], a) \in Int
    BY <1>2, Values DEF GroupsT
  <2>2. Value(res[k], a) = Value(g[k], a) + Joined(k, h, S1, h, S2, a)
    BY <1>1, <1>2 DEF Swap
  <2>. QED  BY <2>1, <2>2 DEF Joined
<1>3. ASSUME NEW k \in Groups, g[k] # NoRow
      PROVE  Size(res[k]) = Size(g[k]) /\ Size(g[k]) \in Int
  <2>1. PICK a \in Aspects : a.kind = "size"
    BY Values
  <2>2. /\ Value(res[k], a) = Size(res[k]) /\ Value(g[k], a) = Size(g[k])
        /\ Value(S1, a) = 1 /\ Value(S2, a) = 1 /\ Value(g[k], a) \in Int
    BY <1>3, <2>1, Values DEF GroupsT
  <2>. QED  BY <1>2, <1>3, <2>1, <2>2
<1>4. \A k \in Groups : g[k] # NoRow => Same(g[k], res[k])
  BY <1>1 DEF Swap
<1>5. Linked(res, h, h)
  BY <1>1, <1>3 DEF Linked
<1>. QED  BY <1>1, <1>2, <1>3, <1>4, <1>5 DEF Swap

\* What a media is counted for depends on four of its columns.
LEMMA SameWeight ==
    ASSUME NEW old \in MediaRow, NEW new \in MediaRow, old.internal = new.internal,
           old.played = new.played, old.is_present = new.is_present,
           ~old.internal \/ old.type = new.type
    PROVE  \A a \in Aspects : Weight(a)[new] = Weight(a)[old]
BY DEF Weight, Counts

\* A media that changes groups.
LEMMA Moving ==
    ASSUME NEW gs \in GroupsT, NEW old \in MediaRow, NEW new \in MediaRow, Legit(old, new),
           Linked(gs, new.group, old.group), old.group # new.group,
           NEW g, Begun(gs, old, new, g)
    PROVE  LET Typed == UpdateNbMediaPerType(g, old, new)
           IN  Tracks(gs, UpdateNbMediaOnImportTypeChange(Typed, old, new), old, new)
<1>. DEFINE S1 == IF new.internal THEN ByType(new) ELSE ByImport(new)
            S2 == IF new.internal THEN ByType(old) ELSE ByImport(old)
            res == Add(Add(g, new.group, S1, 1), old.group, S2, -1)
<1>1. /\ old.internal = new.internal /\ old.type = new.type /\ old.played = new.played
      /\ old.is_present = new.is_present /\ new.internal \in BOOLEAN
  BY DEF Legit, MediaRow
<1>2. UpdateNbMediaOnImportTypeChange(UpdateNbMediaPerType(g, old, new), old, new) = res
  <2>1. CASE new.internal
    <3>1. UpdateNbMediaPerType(g, old, new) = res
      BY <2>1 DEF UpdateNbMediaPerType
    <3>. HIDE DEF res
    <3>. QED  BY <1>1, <2>1, <3>1 DEF UpdateNbMediaOnImportTypeChange
  <2>2. CASE ~new.internal
    <3>1. UpdateNbMediaPerType(g, old, new) = g
      BY <2>2 DEF UpdateNbMediaPerType
    <3>. QED  BY <1>1, <2>2, <3>1 DEF UpdateNbMediaOnImportTypeChange
  <2>. QED  BY <1>1, <2>1, <2>2
<1>3. S1 \in ShareT /\ S2 \in ShareT /\ Size(S1) = 1 /\ Size(S2) = 1
  BY Shares
<1>4. ASSUME ~Spoils(old, new)
      PROVE  Fair(old, new, S1, S2)
  <2>1. CASE new.internal
    <3>1. \A a \in Aspects : Value(S1, a) = Weight(a)[new] /\ Value(S2, a) = Weight(a)[old]
      BY <1>1, <2>1, Shares
    <3>. HIDE DEF S1, S2
    <3>. QED  BY <3>1 DEF Fair
  <2>2. CASE ~new.internal
    <3>1. ~new.played /\ ~old.played
      <4>1. new # NoRow
        BY Constants
      <4>. QED  BY <1>1, <1>4, <2>2, <4>1 DEF Spoils
    <3>2. \A a \in Aspects : a.kind = "seen" => Weight(a)[new] = 0 /\ Weight(a)[old] = 0
      BY <3>1 DEF Weight, Counts, Bit
    <3>3. \A a \in Aspects : Value(S1, a) = Weight(a)[new] /\ Value(S2, a) = Weight(a)[old]
      BY <2>2, <3>2, Shares
    <3>. HIDE DEF S1, S2
    <3>. QED  BY <3>3 DEF Fair
  <2>. QED  BY <1>1, <2>1, <2>2
<1>. HIDE DEF S1, S2
<1>5. Swap(g, new.group, S1, old.group, S2, res)
  <2>1. Linked(g, new.group, old.group) /\ g \in GroupsT
    BY StillLinked DEF Begun
  <2>. QED  BY <1>3, <2>1, Swapped
<1>. HIDE DEF res
<1>6. Tracks(gs, res, old, new)
  BY <1>3, <1>4, <1>5, OneSwap
<1>. QED  BY <1>2, <1>6

\* One that is shown or hidden with its device.
LEMMA Appearing ==
    ASSUME NEW gs \in GroupsT, NEW old \in MediaRow, NEW new \in MediaRow, Legit(old, new),
           Linked(gs, new.group, old.group), old.is_present # new.is_present,
           NEW g, Begun(gs, old, new, g)
    PROVE  LET Shown == UpdateMediaCountOnPresenceChange(g, old, new)
               Typed == UpdateNbMediaPerType(Shown, old, new)
           IN  Tracks(gs, UpdateNbMediaOnImportTypeChange(Typed, old, new), old, new)
<1>. DEFINE h == new.group
            sign == IF new.is_present THEN 1 ELSE -1
            res == Add(g, h, Presence(new), sign)
<1>1. /\ old.internal /\ new.internal /\ old.type = new.type /\ old.played = new.played
      /\ old.group = new.group /\ new.is_present \in BOOLEAN /\ old.is_present \in BOOLEAN
  BY DEF Legit, MediaRow
<1>2. UpdateMediaCountOnPresenceChange(g, old, new) = res
  BY DEF UpdateMediaCountOnPresenceChange
<1>3. UpdateNbMediaPerType(res, old, new) = res
  <2>. HIDE DEF res
  <2>. QED  BY <1>1 DEF UpdateNbMediaPerType
<1>4. UpdateNbMediaOnImportTypeChange(res, old, new) = res
  <2>. HIDE DEF res
  <2>. QED  BY <1>1 DEF UpdateNbMediaOnImportTypeChange
<1>5. Linked(g, h, h) /\ g \in GroupsT
  BY <1>1, StillLinked DEF Begun
<1>6. Addition(g, h, Presence(new), sign, res)
  <2>1. Presence(new) \in ShareT
    BY Shares
  <2>. QED  BY <1>5, <2>1, Added DEF Linked
<1>7. /\ Size(Presence(new)) = 0
      /\ \A a \in Aspects :
            Value(Presence(new), a) = Bit(a.kind = "present" /\ new.type = a.type)
  BY Shares
<1>8. \A n \in Int : Signed(sign, n) = (IF new.is_present THEN n ELSE -n)
  BY DEF Signed
<1>. HIDE DEF sign
<1>9. \A a \in Aspects :
         Signed(sign, Value(Presence(new), a)) = Weight(a)[new] - Weight(a)[old]
  <2>1. \A a \in Aspects : Signed(sign, Value(Presence(new), a))
            = IF a.kind = "present" /\ new.type = a.type
              THEN (IF new.is_present THEN 1 ELSE -1) ELSE 0
    BY <1>7, <1>8 DEF Bit
  <2>2. \A a \in Aspects : Weight(a)[new] - Weight(a)[old]
            = IF a.kind = "present" /\ new.type = a.type
              THEN (IF new.is_present THEN 1 ELSE -1) ELSE 0
    BY <1>1 DEF Weight, Counts, Bit
  <2>. QED  BY <2>1, <2>2
<1>. HIDE DEF res, h
<1>10. h \in Groups \cup {NoRow} /\ NoRow \notin Groups
  BY <1>5, Constants DEF Linked
<1>11. h # NoRow => res[h] # NoRow
  <2>. HAVE h # NoRow
  <2>1. Size(g[h]) >= 1 /\ Size(g[h]) \in Int
    BY <1>5, <1>10, Values DEF Linked, GroupsT
  <2>2. Size(g[h]) + Signed(sign, 0) # 0
    BY <1>8, <2>1
  <2>. QED  BY <1>6, <1>7, <2>2 DEF Addition
<1>12. ASSUME NEW k \in Groups
       PROVE  g[k] = NoRow <=> res[k] = NoRow
  BY <1>5, <1>6, <1>10, <1>11 DEF Addition, Linked
<1>13. ASSUME NEW k \in Groups, g[k] # NoRow
       PROVE  /\ Same(g[k], res[k]) /\ Size(res[k]) = Size(g[k])
              /\ \A a \in Aspects : Value(res[k], a) = Value(g[k], a)
                        + (IF k = h THEN Weight(a)[new] - Weight(a)[old] ELSE 0)
  <2>1. CASE k = h
    <3>1. Same(g[h], res[h]) /\ Moves(g[h], res[h], Presence(new), sign)
      BY <1>6, <1>10, <1>11, <2>1 DEF Addition
    <3>2. \A a \in Aspects :
             Value(res[h], a) = Value(g[h], a) + (Weight(a)[new] - Weight(a)[old])
      BY <1>9, <3>1 DEF Moves
    <3>3. PICK a \in Aspects : a.kind = "size"
      BY Values
    <3>4. /\ Value(res[h], a) = Size(res[h]) /\ Value(g[h], a) = Size(g[h])
          /\ Value(g[h], a) \in Int
      BY <1>5, <1>13, <2>1, <3>3, Values DEF GroupsT
    <3>5. Weight(a)[new] - Weight(a)[old] = 0
      BY <3>3 DEF Weight, Counts, Bit
    <3>6. Size(res[h]) = Size(g[h])
      BY <3>2, <3>4, <3>5
    <3>. QED  BY <2>1, <3>1, <3>2, <3>6
  <2>2. CASE k # h
    <3>1. res[k] = g[k]
      BY <1>6, <2>2 DEF Addition
    <3>2. \A a \in Aspects : Value(g[k], a) \in Int
      BY <1>5, <1>13, Values DEF GroupsT
    <3>. QED  BY <2>2, <3>1, <3>2 DEF Same
  <2>. QED  BY <2>1, <2>2
<1>14. Tracks(gs, res, old, new)
  <2>1. res \in GroupsT
    BY <1>6 DEF Addition
  <2>. QED  BY <1>1, <1>12, <1>13, <2>1, Stayed DEF h
<1>. QED  BY <1>2, <1>3, <1>4, <1>14

\* One that stays in its group while its other columns change.
LEMMA Changing ==
    ASSUME NEW gs \in GroupsT, NEW old \in MediaRow, NEW new \in MediaRow, Legit(old, new),
           Linked(gs, new.group, old.group), old.group = new.group,
           old.is_present = new.is_present, NEW g, Begun(gs, old, new, g)
    PROVE  LET Typed == UpdateNbMediaPerType(g, old, new)
           IN  Tracks(gs, UpdateNbMediaOnImportTypeChange(Typed, old, new), old, new)
<1>. DEFINE h == new.group
            byType == Add(Add(g, h, ByType(new), 1), h, ByType(old), -1)
            imported(gg) == Add(Add(gg, h, ByImport(new), 1), h, ByImport(old), -1)
            fires == new.internal /\ (old.type # new.type \/ old.played # new.played)
            t == IF fires THEN byType ELSE g
            res == IF old.internal # new.internal THEN imported(t) ELSE t
<1>1. /\ UpdateNbMediaPerType(g, old, new) = t
      /\ UpdateNbMediaOnImportTypeChange(t, old, new) = res
  <2>1. UpdateNbMediaPerType(g, old, new) = t
    BY DEF UpdateNbMediaPerType
  <2>2. ASSUME NEW gg
        PROVE  UpdateNbMediaOnImportTypeChange(gg, old, new)
                   = IF old.internal # new.internal THEN imported(gg) ELSE gg
    BY DEF UpdateNbMediaOnImportTypeChange
  <2>. QED  BY <2>1, <2>2
<1>2. Linked(g, h, h) /\ g \in GroupsT /\ h \in Groups \cup {NoRow} /\ NoRow \notin Groups
  <2>1. Linked(g, new.group, old.group)
    BY StillLinked
  <2>2. g \in GroupsT
    BY DEF Begun
  <2>. QED  BY <2>1, <2>2, Constants DEF Linked
<1>3. /\ old.internal \in BOOLEAN /\ new.internal \in BOOLEAN
      /\ old # NoRow /\ new # NoRow
  BY Constants DEF MediaRow
<1>4. /\ ByType(new) \in ShareT /\ ByType(old) \in ShareT
      /\ Size(ByType(new)) = 1 /\ Size(ByType(old)) = 1
      /\ ByImport(new) \in ShareT /\ ByImport(old) \in ShareT
      /\ Size(ByImport(new)) = 1 /\ Size(ByImport(old)) = 1
  BY Shares
<1>. DEFINE T(a) == IF fires THEN Value(ByType(new), a) - Value(ByType(old), a) ELSE 0
            I(a) == IF old.internal # new.internal
                    THEN Value(ByImport(new), a) - Value(ByImport(old), a) ELSE 0
<1>5. /\ t \in GroupsT /\ Linked(t, h, h)
      /\ \A k \in Groups :
            /\ g[k] = NoRow <=> t[k] = NoRow
            /\ g[k] # NoRow =>
                  /\ Same(g[k], t[k]) /\ Size(t[k]) = Size(g[k])
                  /\ \A a \in Aspects : Value(t[k], a) = Value(g[k], a)
                            + (IF k = h THEN T(a) ELSE 0)
  <2>1. CASE fires
    <3>1. Swap(g, h, ByType(new), h, ByType(old), byType)
      BY <1>2, <1>4, Swapped
    <3>2. t = byType /\ \A a : T(a) = Value(ByType(new), a) - Value(ByType(old), a)
      BY <2>1
    <3>. HIDE DEF byType, t, T
    <3>. QED  BY <1>2, <1>4, <3>1, <3>2, Turned
  <2>2. CASE ~fires
    <3>1. t = g /\ \A a : T(a) = 0
      BY <2>2
    <3>2. \A k \in Groups : g[k] # NoRow => \A a \in Aspects : Value(g[k], a) \in Int
      BY <1>2, Values DEF GroupsT
    <3>. HIDE DEF t, T
    <3>. QED  BY <1>2, <3>1, <3>2 DEF Same
  <2>. QED  BY <2>1, <2>2
<1>. HIDE DEF t
<1>6. /\ res \in GroupsT
      /\ \A k \in Groups :
            /\ t[k] = NoRow <=> res[k] = NoRow
            /\ t[k] # NoRow =>
                  /\ Same(t[k], res[k]) /\ Size(res[k]) = Size(t[k])
                  /\ \A a \in Aspects : Value(res[k], a) = Value(t[k], a)
                            + (IF k = h THEN I(a) ELSE 0)
  <2>1. CASE old.internal # new.internal
    <3>1. Swap(t, h, ByImport(new), h, ByImport(old), imported(t))
      BY <1>4, <1>5, Swapped
    <3>2. res = imported(t) /\ \A a : I(a) = Value(ByImport(new), a) - Value(ByImport(old), a)
      BY <2>1
    <3>. HIDE DEF res, imported, I
    <3>. QED  BY <1>4, <1>5, <3>1, <3>2, Turned
  <2>2. CASE old.internal = new.internal
    <3>1. res = t /\ \A a : I(a) = 0
      BY <2>2
    <3>2. \A k \in Groups : t[k] # NoRow => \A a \in Aspects : Value(t[k], a) \in Int
      BY <1>5, Values DEF GroupsT
    <3>. HIDE DEF res, I
    <3>. QED  BY <1>5, <3>1, <3>2 DEF Same
  <2>. QED  BY <2>1, <2>2
<1>. HIDE DEF res
<1>7. ASSUME NEW k \in Groups, g[k] # NoRow, k # h \/ ~Spoils(old, new), NEW a \in Aspects
      PROVE  Value(res[k], a) = Value(g[k], a)
                 + (IF k = h THEN Weight(a)[new] - Weight(a)[old] ELSE 0)
  <2>1. Value(g[k], a) \in Int
    BY <1>2, <1>7, Values DEF GroupsT
  <2>2. CASE k # h
    <3>. HIDE DEF T, I
    <3>. QED  BY <1>5, <1>6, <1>7, <2>1, <2>2
  <2>3. CASE k = h
    <3>1. /\ ~old.internal => old.played = new.played /\ (new.internal => new.type = old.type)
      BY <1>2, <1>3, <1>7, <2>3 DEF Spoils
    <3>2. /\ \A a1 \in Aspects : Value(ByType(new), a1) \in Int /\ Value(ByType(old), a1) \in Int
          /\ \A a1 \in Aspects :
                Value(ByImport(new), a1) \in Int /\ Value(ByImport(old), a1) \in Int
          /\ \A a1 : Weight(a1)[new] \in Int /\ Weight(a1)[old] \in Int
      BY <1>2, <1>4, <2>3, Values, Parts
    <3>3. T(a) + I(a) = Weight(a)[new] - Weight(a)[old]
      <4>1. CASE old.internal /\ new.internal /\ fires
        <5>1. /\ Value(ByType(new), a) = Weight(a)[new]
              /\ Value(ByType(old), a) = Weight(a)[old]
          BY <4>1, Shares
        <5>. QED  BY <3>2, <4>1, <5>1
      <4>2. CASE old.internal = new.internal /\ ~fires
        <5>1. Weight(a)[new] = Weight(a)[old]
          BY <1>3, <3>1, <4>2, SameWeight
        <5>. QED  BY <3>2, <4>2, <5>1
      <4>3. CASE old.internal # new.internal
        <5>1. old.played = new.played
          BY <4>3 DEF Legit
        <5>2. ~fires
          BY <1>3, <3>1, <4>3, <5>1
        <5>3. a.kind = "seen" => Weight(a)[new] = Weight(a)[old]
          BY <5>1 DEF Weight, Counts
        <5>4. /\ Value(ByImport(new), a) = IF a.kind = "seen" THEN 0 ELSE Weight(a)[new]
              /\ Value(ByImport(old), a) = IF a.kind = "seen" THEN 0 ELSE Weight(a)[old]
          BY Shares
        <5>. QED  BY <3>2, <4>3, <5>2, <5>3, <5>4
      <4>. QED  BY <1>3, <3>1, <4>1, <4>2, <4>3
    <3>4. T(a) \in Int /\ I(a) \in Int
      BY <3>2
    <3>. HIDE DEF T, I
    <3>5. Value(res[k], a) = Value(g[k], a) + T(a) + I(a)
      BY <1>5, <1>6, <1>7, <2>3
    <3>. QED  BY <2>1, <2>3, <3>2, <3>3, <3>4, <3>5
  <2>. QED  BY <2>2, <2>3
<1>8. ASSUME NEW k \in Groups
      PROVE  /\ g[k] = NoRow <=> res[k] = NoRow
             /\ g[k] # NoRow => Same(g[k], res[k]) /\ Size(res[k]) = Size(g[k])
  <2>. HIDE DEF T, I
  <2>. QED  BY <1>5, <1>6 DEF Same
<1>9. Tracks(gs, res, old, new)
  BY <1>6, <1>7, <1>8, Stayed DEF h
<1>. QED  BY <1>1, <1>9

-----------------------------------------------------------------------------
(* UPDATE, DELETE and INSERT INTO Media.                                   *)

LEMMA Updating ==
    ASSUME NEW d, d.groups \in GroupsT, NEW m, NEW old \in MediaRow, old = d.media[m],
           NEW new \in MediaRow, Legit(old, new), Linked(d.groups, new.group, old.group)
    PROVE  /\ Update(d, m, new).media = [d.media EXCEPT ![m] = new]
           /\ Tracks(d.groups, Update(d, m, new).groups, old, new)
<1>. DEFINE gs == d.groups
            g == UpdateDurationOnMediaChange(RenameForcedSingleton(gs, old, new), old, new)
            shown == UpdateMediaCountOnPresenceChange(g, old, new)
            typed == UpdateNbMediaPerType(shown, old, new)
            res == UpdateNbMediaOnImportTypeChange(typed, old, new)
<1>1. /\ Update(d, m, new).media = [d.media EXCEPT ![m] = new]
      /\ Update(d, m, new).groups = res
  BY DEF Update
<1>2. Begun(gs, old, new, g)
  BY Beginning
<1>. HIDE DEF g
<1>3. old.is_present = new.is_present => shown = g
  BY DEF UpdateMediaCountOnPresenceChange
<1>4. CASE old.is_present # new.is_present
  BY <1>1, <1>2, <1>4, Appearing
<1>5. CASE old.is_present = new.is_present /\ old.group # new.group
  BY <1>1, <1>2, <1>3, <1>5, Moving
<1>6. CASE old.is_present = new.is_present /\ old.group = new.group
  BY <1>1, <1>2, <1>3, <1>6, Changing
<1>. QED  BY <1>4, <1>5, <1>6, <1>1

LEMMA Deleting ==
    ASSUME NEW d, d.groups \in GroupsT, NEW m, NEW old \in MediaRow, old = d.media[m],
           Linked(d.groups, NoRow, old.group)
    PROVE  /\ Delete(d, m).media = [d.media EXCEPT ![m] = NoRow]
           /\ Tracks(d.groups, Delete(d, m).groups, old, NoRow)
<1>. DEFINE gs == d.groups
            h == old.group
            g == AddDuration(gs, h, -old.duration)
            res == Add(g, h, ByType(old), -1)
<1>1. /\ Delete(d, m).media = [d.media EXCEPT ![m] = NoRow]
      /\ Delete(d, m).groups = res
  BY DEF Delete
<1>2. /\ h \in Groups \cup {NoRow} /\ (h # NoRow => gs[h] # NoRow /\ Size(gs[h]) >= 1)
      /\ old.duration \in Int /\ -old.duration \in Int /\ old # NoRow /\ NoRow \notin Groups
  <2>1. old.duration \in Int /\ -old.duration \in Int
    BY Constants DEF MediaRow, Durations
  <2>2. h \in Groups \cup {NoRow} /\ (h # NoRow => gs[h] # NoRow /\ Size(gs[h]) >= 1)
    BY DEF Linked
  <2>. QED  BY <2>1, <2>2, Constants
<1>3. Lengthened(gs, h, -old.duration, g)
  BY <1>2, DurationAdded
<1>. HIDE DEF g
<1>4. Addition(g, h, ByType(old), -1, res)
  <2>1. g \in GroupsT /\ (h # NoRow => g[h] # NoRow)
    BY <1>2, <1>3 DEF Lengthened
  <2>2. ByType(old) \in ShareT
    BY Shares
  <2>. QED  BY <1>2, <2>1, <2>2, Added
<1>. HIDE DEF res
<1>5. \A k : (Has(old, k) <=> k = h) /\ ~Has(NoRow, k)
  BY <1>2 DEF Has
<1>6. \A w, k : Part(NoRow, k, w) = 0
  BY DEF Part
<1>7. \A n \in Int : Signed(-1, n) = -n
  BY DEF Signed
<1>8. ASSUME NEW k \in Groups, gs[k] = NoRow
      PROVE  res[k] = NoRow
  BY <1>2, <1>3, <1>4, <1>8 DEF Lengthened, Addition
<1>9. \A k \in Groups : gs[k] # NoRow =>
         /\ g[k] # NoRow /\ Keeps(gs[k], g[k]) /\ g[k].name = gs[k].name
         /\ g[k].duration = gs[k].duration + (IF k = h THEN -old.duration ELSE 0)
         /\ gs[k].duration \in Int /\ Size(gs[k]) \in Int /\ Size(g[k]) = Size(gs[k])
         /\ \A a \in Aspects : Value(gs[k], a) \in Int
  BY <1>3, Values DEF Lengthened, Keeps, GroupsT, GroupRow
<1>10. ASSUME NEW k \in Groups, gs[k] # NoRow, res[k] # NoRow
       PROVE  Follows(gs[k], res[k], k, old, NoRow)
  <2>1. gs[k].duration + (IF k = h THEN -old.duration ELSE 0)
            = gs[k].duration + Part(NoRow, k, Lasting) - Part(old, k, Lasting)
    BY <1>2, <1>6, <1>9, <1>10, Parts
  <2>2. CASE k # h
    <3>1. res[k] = g[k]
      BY <1>4, <2>2 DEF Addition
    <3>2. \A w : Part(old, k, w) = 0
      BY <1>5, <2>2 DEF Part, Has
    <3>. QED  BY <1>6, <1>9, <1>10, <2>1, <2>2, <3>1, <3>2 DEF Follows, Keeps
  <2>3. CASE k = h
    <3>1. Same(g[h], res[h]) /\ Moves(g[h], res[h], ByType(old), -1)
      BY <1>2, <1>4, <1>10, <2>3 DEF Addition
    <3>2. ByType(old) \in ShareT /\ Size(ByType(old)) = 1
      BY Shares
    <3>3. Size(res[k]) = Size(gs[k]) + Part(NoRow, k, One) - Part(old, k, One)
      <4>1. PICK a \in Aspects : a.kind = "size"
        BY Values
      <4>2. Value(res[h], a) = Value(g[h], a) + Signed(-1, 1)
        BY <3>1, <3>2, <4>1, Values DEF Moves
      <4>3. Size(res[k]) = Size(gs[k]) - 1
        BY <1>7, <1>9, <1>10, <2>3, <4>1, <4>2, Values
      <4>. QED  BY <1>6, <1>9, <1>10, <2>3, <4>3, Parts
    <3>4. ASSUME NEW a \in Aspects, ~Blurs(k, old, NoRow)
          PROVE  Value(res[k], a) = Value(gs[k], a) + Part(NoRow, k, Weight(a))
                                        - Part(old, k, Weight(a))
      <4>1. old.internal
        BY <1>2, <1>5, <2>3, <3>4 DEF Blurs, Spoils
      <4>2. Value(ByType(old), a) = Weight(a)[old] /\ Value(ByType(old), a) \in Int
        BY <3>2, <4>1, Shares, Values
      <4>3. Value(res[h], a) = Value(g[h], a) - Weight(a)[old]
        BY <1>7, <1>9, <1>10, <2>3, <3>1, <4>2 DEF Moves, Keeps
      <4>. QED  BY <1>6, <1>9, <1>10, <2>3, <4>2, <4>3, Parts DEF Keeps
    <3>. QED  BY <1>9, <1>10, <2>1, <2>3, <3>1, <3>3, <3>4 DEF Follows, Same, Keeps
  <2>. QED  BY <2>2, <2>3
<1>11. ASSUME NEW k \in Groups, gs[k] # NoRow, res[k] = NoRow
       PROVE  Has(old, k) /\ Size(gs[k]) = 1
  <2>1. k = h
    BY <1>4, <1>9, <1>11 DEF Addition
  <2>2. Size(g[h]) + Signed(-1, Size(ByType(old))) = 0 /\ Size(ByType(old)) = 1
    BY <1>2, <1>4, <1>11, <2>1, Shares DEF Addition
  <2>. QED  BY <1>5, <1>7, <1>9, <1>11, <2>1, <2>2
<1>12. ASSUME NEW k \in Groups, gs[k] # NoRow, Has(old, k), ~Blurs(k, old, NoRow),
              \A a \in Aspects : Value(gs[k], a) = Weight(a)[old]
       PROVE  res[k] = NoRow
  <2>1. k = h /\ old.internal
    BY <1>2, <1>5, <1>12 DEF Blurs, Spoils
  <2>2. \A a \in Aspects : /\ Value(ByType(old), a) = Weight(a)[old]
                           /\ Value(ByType(old), a) \in Int
    BY <2>1, Shares, Values
  <2>3. \A a \in Aspects : Value(g[h], a) + Signed(-1, Value(ByType(old), a)) = 0
    BY <1>7, <1>9, <1>12, <2>1, <2>2 DEF Keeps
  <2>. QED  BY <1>2, <1>4, <2>1, <2>3 DEF Addition
<1>13. Tracks(gs, res, old, NoRow)
  <2>1. res \in GroupsT
    BY <1>4 DEF Addition
  <2>. QED  BY <1>5, <1>8, <1>10, <1>11, <1>12, <2>1 DEF Tracks
<1>. QED  BY <1>1, <1>13

LEMMA Inserting ==
    ASSUME NEW gs \in GroupsT, NEW new \in MediaRow, new.group = NoRow
    PROVE  Tracks(gs, gs, NoRow, new)
<1>1. \A k \in Groups : ~Has(NoRow, k) /\ ~Has(new, k)
  BY Constants DEF Has
<1>2. \A w, k : k \in Groups => Part(NoRow, k, w) = 0 /\ Part(new, k, w) = 0
  BY Constants DEF Part
<1>3. \A k \in Groups : gs[k] # NoRow =>
         /\ gs[k].duration \in Int /\ Size(gs[k]) \in Int
         /\ \A a \in Aspects : Value(gs[k], a) \in Int
  BY Values DEF GroupsT, GroupRow
<1>4. \A k \in Groups : gs[k] # NoRow => Follows(gs[k], gs[k], k, NoRow, new)
  BY <1>2, <1>3 DEF Follows
<1>. QED  BY <1>1, <1>4 DEF Tracks

-----------------------------------------------------------------------------
(* Tables that agree.                                                      *)

State == [media : MediaT, groups : GroupsT]

\* What holds of any two tables, in the middle of a transaction too.
Sound(d) ==
    /\ d \in State
    /\ \A m \in Media : Exists(d, m) /\ d.media[m].group # NoRow =>
          d.groups[d.media[m].group] # NoRow
    /\ \A k \in Groups : d.groups[k] # NoRow => Counted(d, k, d.groups[k])

\* Group k has the title of media m, or an earlier one.
Bears(d, k, m) ==
    \/ d.groups[k].name = d.media[m].title
    \/ Misnamed(k) /\ d.groups[k].name \in borne[m]

\* A media that was taken out is alone in group k.
Single(d, k) ==
    d.groups[k].forced_singleton => \E m \in Media : Members(d, k) = {m} /\ Bears(d, k, m)

\* One row of Media changes, and the groups follow.
Changes(d, m, new, d2) ==
    /\ m \in Media /\ new \in MediaRow \cup {NoRow}
    /\ d2 = [media |-> [d.media EXCEPT ![m] = new], groups |-> d2.groups]
    /\ Tracks(d.groups, d2.groups, d.media[m], new)
    /\ new # NoRow /\ new.group # NoRow => d.groups[new.group] # NoRow

LEMMA SoundLinked ==
    ASSUME NEW d, Sound(d), NEW m \in Media, d.media[m] # NoRow,
           NEW up \in Groups \cup {NoRow}, up # NoRow => d.groups[up] # NoRow
    PROVE  Linked(d.groups, up, d.media[m].group)
<1>1. d.media \in MediaT /\ d.media[m] \in MediaRow
  BY DEF Sound, State, MediaT
<1>2. d.media[m].group \in Groups \cup {NoRow}
  BY <1>1 DEF MediaRow
<1>3. ASSUME NEW k \in Groups, d.groups[k] # NoRow
      PROVE  Size(d.groups[k]) >= 0 /\ (d.media[m].group = k => Size(d.groups[k]) >= 1)
  <2>1. Size(d.groups[k]) = Of(d, k, One)
    BY <1>3 DEF Sound, Counted
  <2>2. Of(d, k, One) \in Nat /\ (Of(d, k, One) = 0 <=> Members(d, k) = {})
    BY <1>1, Emptied
  <2>3. d.media[m].group = k => Members(d, k) # {}
    BY DEF Members, Exists
  <2>. QED  BY <2>1, <2>2, <2>3
<1>4. d.media[m].group # NoRow => d.groups[d.media[m].group] # NoRow
  BY DEF Sound, Exists
<1>. QED  BY <1>2, <1>3, <1>4 DEF Linked

\* The members that are left, and what they weigh.
Remains(d, m, new, d2) ==
    /\ d.media \in MediaT /\ d.groups \in GroupsT
    /\ d2.media \in MediaT /\ d2.groups \in GroupsT /\ d2 \in State
    /\ d2.media[m] = new /\ \A x \in Media \ {m} : d2.media[x] = d.media[x]
    /\ \A k : m \in Members(d, k) <=> Has(d.media[m], k)
    /\ \A k : m \in Members(d2, k) <=> Has(new, k)
    /\ \A k : Members(d2, k) \ {m} = Members(d, k) \ {m}
    /\ \A k \in Groups, w \in Weights :
          Of(d2, k, w) = Of(d, k, w) + Part(new, k, w) - Part(d.media[m], k, w)

LEMMA Remaining ==
    ASSUME NEW d, Sound(d), NEW m, NEW new, NEW d2, Changes(d, m, new, d2)
    PROVE  Remains(d, m, new, d2)
<1>1. /\ d.media \in MediaT /\ d.groups \in GroupsT /\ m \in Media
      /\ new \in MediaRow \cup {NoRow} /\ d2.groups \in GroupsT
      /\ d2.media = [d.media EXCEPT ![m] = new]
  BY DEF Sound, State, Changes, Tracks
<1>2. /\ d2.media \in MediaT /\ d2.media[m] = new
      /\ \A x \in Media \ {m} : d2.media[x] = d.media[x]
  BY <1>1 DEF MediaT
<1>3. d2 \in State
  BY <1>1, <1>2 DEF Changes, State
<1>4. /\ \A k : m \in Members(d, k) <=> Has(d.media[m], k)
      /\ \A k : m \in Members(d2, k) <=> Has(new, k)
      /\ \A k : Members(d2, k) \ {m} = Members(d, k) \ {m}
  BY <1>1, <1>2 DEF Members, Exists, Has
<1>5. \A k \in Groups, w \in Weights :
         Of(d2, k, w) = Of(d, k, w) + Part(new, k, w) - Part(d.media[m], k, w)
  BY <1>1, Reweighed
<1>. QED  BY <1>1, <1>2, <1>3, <1>4, <1>5 DEF Remains

LEMMA StillSound ==
    ASSUME NEW d, Sound(d), NEW m, NEW new, NEW d2, Changes(d, m, new, d2)
    PROVE  /\ Sound(d2)
           /\ \A k \in Groups : d2.groups[k] # NoRow => d.groups[k] # NoRow
           /\ \A k \in Groups : Members(d2, k) # {} /\ d.groups[k] # NoRow => d2.groups[k] # NoRow
<1>. DEFINE old == d.media[m]
<1>1. Tracks(d.groups, d2.groups, old, new) /\ m \in Media /\ new \in MediaRow \cup {NoRow}
  BY DEF Changes
<1>2. /\ d.media \in MediaT /\ d.groups \in GroupsT /\ d2.media \in MediaT /\ d2.groups \in GroupsT
      /\ d2 \in State /\ d2.media[m] = new /\ \A x \in Media \ {m} : d2.media[x] = d.media[x]
      /\ \A k \in Groups, w \in Weights :
            Of(d2, k, w) = Of(d, k, w) + Part(new, k, w) - Part(old, k, w)
  BY Remaining DEF Remains
<1>3. \A k \in Groups : d2.groups[k] # NoRow => d.groups[k] # NoRow
  BY <1>1 DEF Tracks
<1>4. One \in Weights /\ Lasting \in Weights
  BY AreWeights
<1>5. ASSUME NEW k \in Groups, d2.groups[k] # NoRow
      PROVE  Counted(d2, k, d2.groups[k])
  <2>1. Follows(d.groups[k], d2.groups[k], k, old, new)
    BY <1>1, <1>3, <1>5 DEF Tracks
  <2>2. Counted(d, k, d.groups[k])
    BY <1>3, <1>5 DEF Sound
  <2>3. /\ Of(d2, k, Lasting) = Of(d, k, Lasting) + Part(new, k, Lasting) - Part(old, k, Lasting)
        /\ Of(d2, k, One) = Of(d, k, One) + Part(new, k, One) - Part(old, k, One)
    BY <1>2, <1>4
  <2>. QED  BY <2>1, <2>2, <2>3 DEF Follows, Counted
<1>6. ASSUME NEW k \in Groups, Members(d2, k) # {}, d.groups[k] # NoRow, d2.groups[k] = NoRow
      PROVE  FALSE
  <2>1. Has(old, k) /\ ~Has(new, k) /\ Size(d.groups[k]) = 1 /\ old \in MediaRow
    BY <1>1, <1>2, <1>6 DEF Tracks, Has, MediaT
  <2>2. Of(d, k, One) = 1
    BY <1>6, <2>1 DEF Sound, Counted
  <2>3. Part(new, k, One) = 0 /\ Part(old, k, One) = 1
    BY <2>1, Parts DEF Part, Has
  <2>4. Of(d2, k, One) = 0
    BY <1>2, <1>4, <2>2, <2>3
  <2>. QED  BY <1>2, <1>6, <2>4, Emptied
<1>7. ASSUME NEW x \in Media, Exists(d2, x), d2.media[x].group # NoRow
      PROVE  d2.groups[d2.media[x].group] # NoRow
  <2>1. d2.media[x].group \in Groups
    BY <1>2, <1>7 DEF Exists, MediaT, MediaRow
  <2>2. x \in Members(d2, d2.media[x].group)
    BY <1>7 DEF Members
  <2>3. d.groups[d2.media[x].group] # NoRow
    <3>1. CASE x = m
      BY <1>2, <1>7, <3>1 DEF Changes, Exists
    <3>2. CASE x # m
      <4>1. d2.media[x] = d.media[x]
        BY <1>2, <3>2
      <4>. QED  BY <1>7, <4>1 DEF Sound, Exists
    <3>. QED  BY <3>1, <3>2
  <2>. QED  BY <1>6, <2>1, <2>2, <2>3
<1>. QED  BY <1>2, <1>3, <1>5, <1>6, <1>7 DEF Sound

\* The counters of a group that is not spoilt stay exact, and it goes with its last
\* media.
LEMMA StillExact ==
    ASSUME NEW d, Sound(d), NEW m, NEW new, NEW d2, Changes(d, m, new, d2),
           NEW k \in Groups, ~Blurs(k, d.media[m], new), d.groups[k] # NoRow,
           Exact(d, k, d.groups[k])
    PROVE  /\ d2.groups[k] # NoRow => Exact(d2, k, d2.groups[k])
           /\ Members(d, k) # {} /\ Members(d2, k) = {} => d2.groups[k] = NoRow
<1>. DEFINE old == d.media[m]
<1>1. Tracks(d.groups, d2.groups, old, new) /\ m \in Media /\ new \in MediaRow \cup {NoRow}
  BY DEF Changes
<1>2. /\ d.media \in MediaT /\ d.groups \in GroupsT /\ d2.media \in MediaT
      /\ m \in Members(d, k) <=> Has(old, k)
      /\ m \in Members(d2, k) <=> Has(new, k)
      /\ Members(d2, k) \ {m} = Members(d, k) \ {m}
      /\ \A w \in Weights : Of(d2, k, w) = Of(d, k, w) + Part(new, k, w) - Part(old, k, w)
  BY Remaining DEF Remains
<1>3. ASSUME d2.groups[k] # NoRow
      PROVE  Exact(d2, k, d2.groups[k])
  <2>1. Follows(d.groups[k], d2.groups[k], k, old, new)
    BY <1>1, <1>3 DEF Tracks
  <2>2. ASSUME NEW a \in Aspects
        PROVE  Value(d2.groups[k], a) = Of(d2, k, Weight(a))
    <3>1. Value(d.groups[k], a) = Of(d, k, Weight(a))
      BY DEF Exact
    <3>2. Value(d2.groups[k], a)
              = Value(d.groups[k], a) + Part(new, k, Weight(a)) - Part(old, k, Weight(a))
      BY <2>1 DEF Follows
    <3>. QED  BY <1>2, <3>1, <3>2, AreWeights
  <2>. QED  BY <2>2 DEF Exact
<1>4. ASSUME Members(d, k) # {}, Members(d2, k) = {}
      PROVE  d2.groups[k] = NoRow
  <2>1. Has(old, k) /\ ~Has(new, k)
    BY <1>2, <1>4
  <2>2. ASSUME NEW a \in Aspects
        PROVE  Value(d.groups[k], a) = Weight(a)[old]
    <3>1. Of(d2, k, Weight(a)) = 0
      BY <1>2, <1>4, Emptied
    <3>2. Part(new, k, Weight(a)) = 0 /\ Part(old, k, Weight(a)) = Weight(a)[old]
      BY <2>1 DEF Part, Has
    <3>3. Of(d, k, Weight(a)) \in Int /\ Weight(a)[old] \in Int
      <4>1. old \in MediaRow
        BY <1>1, <1>2, <2>1 DEF Has, MediaT
      <4>. QED  BY <1>2, <4>1, OfType, AreWeights, Parts
    <3>4. 0 = Of(d, k, Weight(a)) + 0 - Weight(a)[old]
      BY <1>2, <3>1, <3>2, AreWeights
    <3>. QED  BY <3>3, <3>4 DEF Exact
  <2>. QED  BY <1>1, <2>1, <2>2 DEF Tracks
<1>. QED  BY <1>3, <1>4

LEMMA StillSingle ==
    ASSUME NEW d, Sound(d), NEW m, NEW new, NEW d2, Changes(d, m, new, d2),
           NEW k \in Groups, ~Blurs(k, d.media[m], new), d.groups[k] # NoRow,
           Exact(d, k, d.groups[k]), d2.groups[k] # NoRow,
           Single(d, k), ~Has(new, k) \/ Has(d.media[m], k)
    PROVE  Single(d2, k)
<1>. DEFINE old == d.media[m]
<1>1. /\ d2.media[m] = new /\ \A x \in Media \ {m} : d2.media[x] = d.media[x]
      /\ m \in Members(d, k) <=> Has(old, k)
      /\ m \in Members(d2, k) <=> Has(new, k)
      /\ Members(d2, k) \ {m} = Members(d, k) \ {m}
  BY Remaining DEF Remains
<1>2. Follows(d.groups[k], d2.groups[k], k, old, new) /\ m \in Media
  BY DEF Changes, Tracks
<1>. SUFFICES ASSUME d2.groups[k].forced_singleton
              PROVE  \E x \in Media : Members(d2, k) = {x} /\ Bears(d2, k, x)
  BY DEF Single
<1>3. d.groups[k].forced_singleton
  BY <1>2 DEF Follows
<1>4. PICK x \in Media : Members(d, k) = {x} /\ Bears(d, k, x)
  BY <1>3 DEF Single
<1>5. CASE x # m
  <2>1. ~Has(new, k) /\ Members(d2, k) = {x} /\ d2.media[x] = d.media[x]
    BY <1>1, <1>4, <1>5
  <2>2. d2.groups[k].name = d.groups[k].name
    BY <1>2, <2>1 DEF Follows, Has
  <2>. QED  BY <1>4, <2>1, <2>2 DEF Bears
<1>6. CASE x = m /\ ~Has(new, k)
  <2>1. Members(d2, k) = {} /\ Members(d, k) # {}
    BY <1>1, <1>4, <1>6
  <2>. QED  BY <2>1, StillExact
<1>7. CASE x = m /\ Has(new, k)
  <2>1. Members(d2, k) = {m} /\ Has(old, k)
    BY <1>1, <1>4, <1>7
  <2>2. d2.groups[k].name = new.title \/ (new.title = old.title /\ d2.groups[k].name = d.groups[k].name)
    BY <1>2, <1>3, <1>7, <2>1 DEF Follows, Has
  <2>. QED  BY <1>1, <1>2, <1>4, <1>7, <2>1, <2>2 DEF Bears
<1>. QED  BY <1>5, <1>6, <1>7

-----------------------------------------------------------------------------
(* A transaction starts from the tables media and groups.                  *)

\* The groups whose counters are spoilt when it has come to d.
Lost(d) == lossy \cup {k \in Groups : \E x \in Media : Blurs(k, media[x], d.media[x])}

\* What has held since it started; the groups of K may look like those of a media
\* that is alone without being so.
Good(d, K) ==
    /\ Sound(d)
    /\ \A k \in Groups \ Lost(d) :
          /\ d.groups[k] # NoRow =>
                Exact(d, k, d.groups[k]) /\ (k \in K \/ Single(d, k))
          /\ groups[k] # NoRow /\ Members(db, k) # {} /\ Members(d, k) = {} =>
                d.groups[k] = NoRow

LEMMA Stepping ==
    ASSUME NEW d, NEW K, Good(d, K), NEW m, NEW new, NEW d2, Changes(d, m, new, d2),
           d.media[m] = media[m]
    PROVE  /\ Good(d2, K \cup {k \in Groups : Has(new, k) /\ ~Has(media[m], k)})
           /\ Lost(d) \subseteq Lost(d2)
<1>. DEFINE L == K \cup {k \in Groups : Has(new, k) /\ ~Has(media[m], k)}
<1>1. Sound(d) /\ m \in Media
  BY DEF Good, Changes
<1>2. /\ d2.media[m] = new /\ \A x \in Media \ {m} : d2.media[x] = d.media[x]
      /\ \A k : Members(d2, k) \ {m} = Members(d, k) \ {m}
      /\ d2.groups \in GroupsT
  BY <1>1, Remaining DEF Remains
<1>3. Sound(d2) /\ \A k \in Groups : d2.groups[k] # NoRow => d.groups[k] # NoRow
  BY <1>1, StillSound
<1>4. \A k : ~Blurs(k, media[m], d.media[m])
  BY DEF Blurs, Spoils
<1>5. ASSUME NEW k \in Groups, k \notin Lost(d2)
      PROVE  k \notin Lost(d) /\ ~Blurs(k, d.media[m], new)
  BY <1>1, <1>2, <1>4, <1>5 DEF Lost
<1>6. Lost(d) \subseteq Lost(d2)
  BY <1>1, <1>2, <1>4 DEF Lost
<1>7. ASSUME NEW k \in Groups \ Lost(d2), d2.groups[k] # NoRow
      PROVE  Exact(d2, k, d2.groups[k]) /\ (k \in L \/ Single(d2, k))
  <2>1. /\ k \notin Lost(d) /\ ~Blurs(k, d.media[m], new) /\ d.groups[k] # NoRow
        /\ Exact(d, k, d.groups[k]) /\ (k \in K \/ Single(d, k))
    BY <1>3, <1>5, <1>7 DEF Good
  <2>2. Exact(d2, k, d2.groups[k])
    BY <1>1, <1>7, <2>1, StillExact
  <2>3. CASE k \in L
    BY <2>2, <2>3
  <2>4. CASE k \notin L
    <3>1. Single(d, k) /\ (~Has(new, k) \/ Has(d.media[m], k))
      BY <2>1, <2>4
    <3>2. Single(d2, k)
      BY <1>1, <1>7, <2>1, <3>1, StillSingle
    <3>. QED  BY <2>2, <3>2
  <2>. QED  BY <2>3, <2>4
<1>8. ASSUME NEW k \in Groups \ Lost(d2), groups[k] # NoRow, Members(db, k) # {},
             Members(d2, k) = {}
      PROVE  d2.groups[k] = NoRow
  <2>1. k \in Groups \ Lost(d) /\ ~Blurs(k, d.media[m], new)
    BY <1>5, <1>8
  <2>2. CASE d.groups[k] = NoRow
    BY <1>3, <2>2
  <2>3. CASE d.groups[k] # NoRow
    <3>1. Exact(d, k, d.groups[k]) /\ Members(d, k) # {}
      BY <1>8, <2>1, <2>3 DEF Good
    <3>. QED  BY <1>1, <1>8, <2>1, <2>3, <3>1, StillExact
  <2>. QED  BY <2>2, <2>3
<1>9. Good(d2, L)
  <2>. HIDE DEF L
  <2>. QED  BY <1>3, <1>7, <1>8 DEF Good
<1>. QED  BY <1>6, <1>9

\* A new row of MediaGroup.
Created(d, K, n, name, f, d2) ==
    /\ Good(d2, K \cup {n}) /\ (~f => Good(d2, K))
    /\ d2.media = d.media /\ Lost(d2) = Lost(d)
    /\ d2.groups[n] # NoRow /\ d2.groups[n].name = name
    /\ d2.groups[n].forced_singleton = f
    /\ \A k \in Groups \ {n} : d2.groups[k] = d.groups[k]
    /\ Members(d2, n) = {}

LEMMA Creating ==
    ASSUME NEW d, NEW K, Good(d, K), NEW n \in Groups, d.groups[n] = NoRow, n = NewGroup(d),
           groups[n] = NoRow, NEW name \in Names, NEW u \in BOOLEAN, NEW f \in BOOLEAN,
           NEW d2, d2 = create(d, name, u, f)
    PROVE  Created(d, K, n, name, f, d2)
<1>. DEFINE row == [name |-> name, user_interacted |-> u, forced_singleton |-> f,
                    nb |-> [t \in Types |-> 0], present |-> [t \in Types |-> 0],
                    seen |-> 0, present_seen |-> 0, external |-> 0, duration |-> 0]
<1>1. Sound(d) /\ d \in State /\ d.media \in MediaT /\ d.groups \in GroupsT
  BY DEF Good, Sound, State
<1>2. /\ d2 \in State /\ d2.media = d.media /\ d2.groups = [d.groups EXCEPT ![n] = row]
  <2>1. row \in GroupRow
    BY DEF GroupRow
  <2>2. d2 = [d EXCEPT !.groups = [d.groups EXCEPT ![n] = row]]
    BY DEF create
  <2>. HIDE DEF row
  <2>3. [d.groups EXCEPT ![n] = row] \in GroupsT
    BY <1>1, <2>1 DEF GroupsT
  <2>. QED  BY <1>1, <2>2, <2>3 DEF State
<1>3. /\ d2.groups[n] = row /\ row # NoRow
      /\ row.name = name /\ row.forced_singleton = f /\ row.duration = 0 /\ Size(row) = 0
      /\ \A a \in Aspects : Value(row, a) = 0
      /\ \A k \in Groups \ {n} : d2.groups[k] = d.groups[k]
  <2>1. row \in GroupRow /\ row.name = name /\ row.forced_singleton = f /\ row.duration = 0
    BY DEF GroupRow
  <2>2. Size(row) = 0
    BY Constants DEF Size
  <2>3. \A a \in Aspects : Value(row, a) = 0
    BY <2>2 DEF Value, Aspects
  <2>. HIDE DEF row
  <2>4. d2.groups[n] = row /\ \A k \in Groups \ {n} : d2.groups[k] = d.groups[k]
    BY <1>1, <1>2 DEF GroupsT
  <2>. QED  BY <2>1, <2>2, <2>3, <2>4, Constants
<1>. HIDE DEF row
<1>4. /\ \A m : Exists(d2, m) <=> Exists(d, m)
      /\ \A k : Members(d2, k) = Members(d, k)
      /\ \A k, w : Of(d2, k, w) = Of(d, k, w)
      /\ Lost(d2) = Lost(d)
  <2>1. /\ \A m : Exists(d2, m) <=> Exists(d, m)
        /\ \A k : Members(d2, k) = Members(d, k)
        /\ \A w : Weighted(d2, w) = Weighted(d, w)
    BY <1>2 DEF Members, Exists, Weighted
  <2>. QED  BY <1>2, <2>1 DEF Of, Lost
<1>5. Members(d, n) = {} /\ \A w : Of(d, n, w) = 0
  <2>1. Members(d, n) = {}
    <3>1. n # NoRow
      BY Constants
    <3>. QED  BY <1>1, <3>1 DEF Members, Sound
  <2>. QED  BY <1>1, <2>1, Emptied
<1>6. Sound(d2)
  <2>1. \A m \in Media : Exists(d2, m) /\ d2.media[m].group # NoRow =>
           d2.groups[d2.media[m].group] # NoRow
    <3>1. \A m \in Media : Exists(d, m) /\ d.media[m].group # NoRow =>
             d.media[m].group \in Groups /\ d.groups[d.media[m].group] # NoRow
      BY <1>1 DEF Sound, Exists, MediaT, MediaRow
    <3>. QED  BY <1>2, <1>3, <1>4, <3>1
  <2>2. \A k \in Groups : d2.groups[k] # NoRow => Counted(d2, k, d2.groups[k])
    <3>1. Counted(d2, n, d2.groups[n])
      BY <1>3, <1>4, <1>5 DEF Counted
    <3>2. \A k \in Groups \ {n} : d2.groups[k] # NoRow => Counted(d2, k, d2.groups[k])
      BY <1>1, <1>3, <1>4 DEF Sound, Counted
    <3>. QED  BY <3>1, <3>2
  <2>. QED  BY <1>2, <2>1, <2>2 DEF Sound
<1>7. ASSUME NEW k \in Groups \ Lost(d), d2.groups[k] # NoRow
      PROVE  Exact(d2, k, d2.groups[k]) /\ (k \in K \/ k = n \/ Single(d2, k))
  <2>1. CASE k = n
    BY <1>3, <1>4, <1>5, <2>1 DEF Exact
  <2>2. CASE k # n
    <3>1. Exact(d, k, d.groups[k]) /\ (k \in K \/ Single(d, k)) /\ d2.groups[k] = d.groups[k]
      BY <1>3, <1>7, <2>2 DEF Good
    <3>2. Single(d, k) => Single(d2, k)
      BY <1>2, <1>4, <3>1 DEF Single, Bears
    <3>. QED  BY <1>4, <3>1, <3>2 DEF Exact
  <2>. QED  BY <2>1, <2>2
<1>8. \A k \in Groups \ Lost(d) : groups[k] # NoRow /\ Members(db, k) # {} /\ Members(d2, k) = {}
         => d2.groups[k] = NoRow
  BY <1>3, <1>4 DEF Good
<1>9. ~f => Single(d2, n)
  BY <1>3 DEF Single
<1>10. Good(d2, K \cup {n}) /\ (~f => Good(d2, K))
  BY <1>4, <1>6, <1>7, <1>8, <1>9 DEF Good
<1>. QED  BY <1>2, <1>3, <1>4, <1>5, <1>10 DEF Created

\* A row of MediaGroup that changes hands: its counters are left alone.
Relabelled(d, K, g, row, d2) ==
    /\ Good(d2, K) /\ d2.media = d.media /\ Lost(d2) = Lost(d)
    /\ d2.groups[g] = row /\ \A k \in Groups \ {g} : d2.groups[k] = d.groups[k]

LEMMA Relabelling ==
    ASSUME NEW d, NEW K, NEW g \in Groups, Good(d, K \cup {g}), d.groups[g] # NoRow,
           NEW row \in GroupRow, row.duration = d.groups[g].duration, ~row.forced_singleton,
           \A a \in Aspects : Value(row, a) = Value(d.groups[g], a),
           NEW d2, d2 = [d EXCEPT !.groups = [d.groups EXCEPT ![g] = row]]
    PROVE  Relabelled(d, K, g, row, d2)
<1>1. Sound(d) /\ d \in State /\ d.media \in MediaT /\ d.groups \in GroupsT
  BY DEF Good, Sound, State
<1>2. /\ d2 \in State /\ d2.media = d.media
      /\ d2.groups[g] = row /\ row # NoRow
      /\ \A k \in Groups \ {g} : d2.groups[k] = d.groups[k]
  <2>1. [d.groups EXCEPT ![g] = row] \in GroupsT
    BY <1>1 DEF GroupsT
  <2>2. d2 \in State /\ d2.media = d.media /\ d2.groups = [d.groups EXCEPT ![g] = row]
    BY <1>1, <2>1 DEF State
  <2>. QED  BY <1>1, <2>2, Constants DEF GroupsT
<1>3. /\ \A m : Exists(d2, m) <=> Exists(d, m)
      /\ \A k : Members(d2, k) = Members(d, k)
      /\ \A k, w : Of(d2, k, w) = Of(d, k, w)
      /\ Lost(d2) = Lost(d)
  <2>1. /\ \A m : Exists(d2, m) <=> Exists(d, m)
        /\ \A k : Members(d2, k) = Members(d, k)
        /\ \A w : Weighted(d2, w) = Weighted(d, w)
    BY <1>2 DEF Members, Exists, Weighted
  <2>. QED  BY <1>2, <2>1 DEF Of, Lost
<1>4. Size(row) = Size(d.groups[g])
  BY Values
<1>5. Sound(d2)
  <2>1. \A m \in Media : Exists(d2, m) /\ d2.media[m].group # NoRow =>
           d2.groups[d2.media[m].group] # NoRow
    <3>1. \A m \in Media : Exists(d, m) /\ d.media[m].group # NoRow =>
             d.media[m].group \in Groups /\ d.groups[d.media[m].group] # NoRow
      BY <1>1 DEF Sound, Exists, MediaT, MediaRow
    <3>. QED  BY <1>2, <1>3, <3>1
  <2>2. \A k \in Groups : d2.groups[k] # NoRow => Counted(d2, k, d2.groups[k])
    <3>1. Counted(d2, g, d2.groups[g])
      BY <1>1, <1>2, <1>3, <1>4 DEF Sound, Counted
    <3>2. \A k \in Groups \ {g} : d2.groups[k] # NoRow => Counted(d2, k, d2.groups[k])
      BY <1>1, <1>2, <1>3 DEF Sound, Counted
    <3>. QED  BY <3>1, <3>2
  <2>. QED  BY <1>2, <2>1, <2>2 DEF Sound
<1>6. ASSUME NEW k \in Groups \ Lost(d), d2.groups[k] # NoRow
      PROVE  Exact(d2, k, d2.groups[k]) /\ (k \in K \/ Single(d2, k))
  <2>1. Exact(d, k, d.groups[k]) /\ (k \in K \/ k = g \/ Single(d, k))
    BY <1>2, <1>6 DEF Good
  <2>2. CASE k = g
    BY <1>2, <1>3, <2>1, <2>2 DEF Exact, Single
  <2>3. CASE k # g
    <3>1. Single(d, k) => Single(d2, k)
      BY <1>2, <1>3, <2>3 DEF Single, Bears
    <3>. QED  BY <1>2, <1>3, <2>1, <2>3, <3>1 DEF Exact
  <2>. QED  BY <2>2, <2>3
<1>7. \A k \in Groups \ Lost(d) : groups[k] # NoRow /\ Members(db, k) # {} /\ Members(d2, k) = {}
         => d2.groups[k] = NoRow
  BY <1>2, <1>3 DEF Good
<1>8. Good(d2, K)
  BY <1>3, <1>5, <1>6, <1>7 DEF Good
<1>. QED  BY <1>2, <1>3, <1>8 DEF Relabelled

-----------------------------------------------------------------------------
(* The steps of a transaction.                                             *)

\* UPDATE Media, whatever the code writes.
LEMMA Rewriting ==
    ASSUME NEW d, NEW K, Good(d, K), NEW m \in Media, d.media[m] = media[m], media[m] # NoRow,
           NEW new \in MediaRow, Legit(media[m], new),
           new.group # NoRow => d.groups[new.group] # NoRow,
           NEW d2, d2 = Update(d, m, new)
    PROVE  /\ Changes(d, m, new, d2)
           /\ Good(d2, K \cup {k \in Groups : Has(new, k) /\ ~Has(media[m], k)})
<1>1. Sound(d) /\ d.media \in MediaT /\ d.groups \in GroupsT /\ media[m] \in MediaRow
  BY DEF Good, Sound, State, MediaT
<1>2. new.group \in Groups \cup {NoRow} /\ new # NoRow
  BY Constants DEF MediaRow
<1>3. Linked(d.groups, new.group, media[m].group)
  BY <1>1, <1>2, SoundLinked
<1>4. /\ d2.media = [d.media EXCEPT ![m] = new]
      /\ Tracks(d.groups, d2.groups, media[m], new)
  BY <1>1, <1>3, Updating
<1>5. d2 = [media |-> d2.media, groups |-> d2.groups]
  BY DEF Update
<1>6. Changes(d, m, new, d2)
  BY <1>4, <1>5 DEF Changes
<1>. QED  BY <1>6, Stepping

\* What a media does to the tables when it joins group g.
Joins(d, g, m, d2) ==
    /\ d2.media = [d.media EXCEPT ![m] = [d.media[m] EXCEPT !.group = g]]
    /\ Lost(d) \subseteq Lost(d2)
    /\ d2.groups[g] # NoRow
    /\ \A k \in Groups : d2.groups[k] # NoRow => d.groups[k] # NoRow
    /\ \A k \in Groups : k # d.media[m].group /\ d.groups[k] # NoRow => d2.groups[k] # NoRow

Regrouped(d, K, g, m, d2) ==
    /\ Good(d2, K \cup {g}) /\ Joins(d, g, m, d2)
    /\ d2.groups[g].name = d.groups[g].name
    /\ d2.groups[g].forced_singleton = d.groups[g].forced_singleton
    /\ d2.media[m].title = media[m].title
    /\ Members(d2, g) = Members(d, g) \cup {m}

LEMMA Regrouping ==
    ASSUME NEW d, NEW K, Good(d, K), NEW m \in Media, d.media[m] = media[m], media[m] # NoRow,
           NEW g \in Groups, d.groups[g] # NoRow,
           NEW d2, d2 = Update(d, m, [d.media[m] EXCEPT !.group = g])
    PROVE  Regrouped(d, K, g, m, d2)
<1>. DEFINE new == [media[m] EXCEPT !.group = g]
<1>1. Sound(d) /\ d.media \in MediaT /\ media[m] \in MediaRow /\ g # NoRow
  BY Constants DEF Good, Sound, State, MediaT
<1>2. /\ new \in MediaRow /\ new.group = g /\ new.title = media[m].title
      /\ new.internal = media[m].internal /\ new.type = media[m].type
      /\ new.played = media[m].played /\ new.is_present = media[m].is_present
  BY <1>1 DEF MediaRow
<1>3. d2 = Update(d, m, new)
  OBVIOUS
<1>. HIDE DEF new
<1>4. Legit(media[m], new)
  BY <1>2 DEF Legit
<1>5. /\ Changes(d, m, new, d2)
      /\ Good(d2, K \cup {k \in Groups : Has(new, k) /\ ~Has(media[m], k)})
  BY <1>2, <1>3, <1>4, Rewriting
<1>6. Good(d2, K \cup {g})
  <2>1. K \cup {k \in Groups : Has(new, k) /\ ~Has(media[m], k)} \subseteq K \cup {g}
    BY <1>2 DEF Has
  <2>. QED  BY <1>5, <2>1 DEF Good
<1>7. Lost(d) \subseteq Lost(d2)
  BY <1>5, Stepping
<1>8. /\ \A k \in Groups : d2.groups[k] # NoRow => d.groups[k] # NoRow
      /\ \A k \in Groups : Members(d2, k) # {} /\ d.groups[k] # NoRow => d2.groups[k] # NoRow
  BY <1>1, <1>5, StillSound
<1>9. d2.media[m] = new /\ Members(d2, g) = Members(d, g) \cup {m}
  <2>1. /\ d2.media[m] = new /\ Members(d2, g) \ {m} = Members(d, g) \ {m}
        /\ m \in Members(d2, g) <=> Has(new, g)
    BY <1>1, <1>5, Remaining DEF Remains
  <2>2. Has(new, g)
    BY <1>2, Constants DEF Has
  <2>. QED  BY <2>1, <2>2
<1>10. d2.groups[g] # NoRow
  BY <1>8, <1>9
<1>11. Joins(d, g, m, d2)
  <2>1. d2.media = [d.media EXCEPT ![m] = new]
    BY <1>5 DEF Changes
  <2>2. \A k \in Groups : k # d.media[m].group /\ d.groups[k] # NoRow => d2.groups[k] # NoRow
    BY <1>5 DEF Changes, Tracks, Has
  <2>. QED  BY <1>7, <1>8, <1>10, <2>1, <2>2 DEF Joins, new
<1>12. Follows(d.groups[g], d2.groups[g], g, media[m], new)
  BY <1>5, <1>10 DEF Changes, Tracks
<1>. QED  BY <1>2, <1>6, <1>9, <1>11, <1>12 DEF Follows, Regrouped

\* MediaGroup::add(), of a group that is no singleton any more.
LEMMA Joining ==
    ASSUME NEW d, NEW K, Good(d, K), NEW m \in Media, d.media[m] = media[m], media[m] # NoRow,
           NEW g \in Groups, d.groups[g] # NoRow,
           NEW d2, d2 = add(d, g, m, FALSE)
    PROVE  Good(d2, K) /\ Joins(d, g, m, d2) /\ ~d2.groups[g].forced_singleton
<1>. DEFINE u == Update(d, m, [d.media[m] EXCEPT !.group = g])
            row == [u.groups[g] EXCEPT !.forced_singleton = FALSE]
<1>1. Good(u, K \cup {g}) /\ Joins(d, g, m, u)
  BY Regrouping DEF Regrouped
<1>2. d2 = IF u.groups[g] # NoRow THEN [u EXCEPT !.groups[g].forced_singleton = FALSE] ELSE u
  BY DEF add
<1>. HIDE DEF u
<1>3. u.groups[g] # NoRow /\ u.groups[g] \in GroupRow
  BY <1>1 DEF Joins, Good, Sound, State, GroupsT
<1>4. d2 = [u EXCEPT !.groups = [u.groups EXCEPT ![g] = row]]
  BY <1>2, <1>3
<1>5. /\ row \in GroupRow /\ row.duration = u.groups[g].duration /\ ~row.forced_singleton
      /\ \A a \in Aspects : Value(row, a) = Value(u.groups[g], a)
  <2>1. /\ row \in GroupRow /\ row.duration = u.groups[g].duration /\ ~row.forced_singleton
        /\ row.nb = u.groups[g].nb /\ row.present = u.groups[g].present
        /\ row.seen = u.groups[g].seen /\ row.external = u.groups[g].external
    BY <1>3 DEF GroupRow
  <2>. HIDE DEF row
  <2>. QED  BY <2>1 DEF Value, Size
<1>. HIDE DEF row
<1>6. /\ Good(d2, K) /\ d2.media = u.media /\ Lost(d2) = Lost(u) /\ d2.groups[g] = row
      /\ \A k \in Groups \ {g} : d2.groups[k] = u.groups[k]
  <2>1. Relabelled(u, K, g, row, d2)
    BY <1>1, <1>3, <1>4, <1>5, Relabelling
  <2>. QED  BY <2>1 DEF Relabelled
<1>7. row # NoRow
  BY <1>5, Constants
<1>. QED  BY <1>1, <1>3, <1>5, <1>6, <1>7 DEF Joins

\* A group that has room for one more row.
LEMMA FreeRow ==
    ASSUME NEW d, HasRoom(d, 1)
    PROVE  NewGroup(d) \in Groups /\ d.groups[NewGroup(d)] = NoRow
<1>1. {g \in Groups : d.groups[g] = NoRow} # {}
  <2>. SUFFICES ASSUME {g \in Groups : d.groups[g] = NoRow} = {} PROVE FALSE
    OBVIOUS
  <2>. QED  BY FS_EmptySet DEF HasRoom
<1>. QED  BY <1>1 DEF NewGroup

\* MediaGroup::remove(): the media gets a group of its own.
LEMMA Removing ==
    ASSUME NEW d, Good(d, {}), NEW m \in Media, d.media[m] = media[m], media[m] # NoRow,
           NEW n, n = NewGroup(d), n \in Groups, d.groups[n] = NoRow, groups[n] = NoRow,
           NEW title \in Titles, title = media[m].title \/ title \in borne[m],
           NEW d2, d2 = remove(d, m, title)
    PROVE  /\ Good(d2, {})
           /\ d2.media = [d.media EXCEPT ![m] = [d.media[m] EXCEPT !.group = n]]
           /\ \A k \in Groups : d2.groups[k] # NoRow => d.groups[k] # NoRow \/ k = n
           /\ \A k \in Groups : k # d.media[m].group /\ d.groups[k] # NoRow
                                    => d2.groups[k] # NoRow
<1>. DEFINE c == create(d, title, FALSE, TRUE)
<1>1. title \in Names
  BY DEF Names
<1>2. Created(d, {}, n, title, TRUE, c)
  BY <1>1, Creating
<1>3. d2 = Update(c, m, [c.media[m] EXCEPT !.group = n])
  BY DEF remove, add
<1>. HIDE DEF c
<1>4. Regrouped(c, {n}, n, m, d2)
  <2>1. {} \cup {n} = {n}
    OBVIOUS
  <2>2. Good(c, {n}) /\ c.media[m] = media[m] /\ c.groups[n] # NoRow
    BY <1>2, <2>1 DEF Created
  <2>. QED  BY <1>3, <2>2, Regrouping
<1>5. Single(d2, n)
  BY <1>2, <1>4 DEF Single, Bears, Misnamed, Created, Regrouped
<1>6. Good(d2, {})
  BY <1>4, <1>5 DEF Good, Regrouped
<1>. QED  BY <1>2, <1>4, <1>6 DEF Joins, Created, Regrouped

\* A group is renamed.
LEMMA Naming ==
    ASSUME NEW d, NEW K, Good(d, K), NEW g \in Groups, d.groups[g] # NoRow,
           NEW name \in Names, NEW u \in BOOLEAN
    PROVE  /\ Good(Named(d, g, name, u), K)
           /\ Named(d, g, name, u).media = d.media
           /\ \A k \in Groups : /\ Named(d, g, name, u).groups[k] = NoRow <=> d.groups[k] = NoRow
                                /\ ~d.groups[k].forced_singleton
                                      => ~Named(d, g, name, u).groups[k].forced_singleton
<1>. DEFINE d2 == Named(d, g, name, u)
            row == [d.groups[g] EXCEPT !.name = name, !.user_interacted = @ \/ u]
            same == name = "" \/ d.groups[g].forced_singleton \/ name = d.groups[g].name
<1>1. CASE same
  BY <1>1 DEF Named
<1>2. CASE ~same
  <2>1. d.groups[g] \in GroupRow /\ ~d.groups[g].forced_singleton /\ d \in State
    BY <1>2 DEF Good, Sound, State, GroupsT
  <2>2. d2 = [d EXCEPT !.groups = [d.groups EXCEPT ![g] = row]]
    <3>1. d2 = [d EXCEPT !.groups[g].name = name, !.groups[g].user_interacted = @ \/ u]
      BY <1>2 DEF Named
    <3>2. d.groups \in GroupsT
      BY <2>1 DEF State
    <3>. QED  BY <2>1, <3>1, <3>2 DEF State, GroupsT, GroupRow
  <2>3. /\ row \in GroupRow /\ row.duration = d.groups[g].duration /\ ~row.forced_singleton
        /\ row.nb = d.groups[g].nb /\ row.present = d.groups[g].present
        /\ row.seen = d.groups[g].seen /\ row.external = d.groups[g].external
    BY <2>1 DEF GroupRow
  <2>. HIDE DEF row, d2
  <2>4. \A a \in Aspects : Value(row, a) = Value(d.groups[g], a)
    BY <2>3 DEF Value, Size
  <2>5. Good(d, K \cup {g})
    BY DEF Good
  <2>6. Relabelled(d, K, g, row, d2)
    BY <2>2, <2>3, <2>4, <2>5, Relabelling
  <2>7. row # NoRow
    BY <2>3, Constants
  <2>8. Good(d2, K) /\ d2.media = d.media
        /\ \A k \in Groups : /\ d2.groups[k] = NoRow <=> d.groups[k] = NoRow
                             /\ ~d.groups[k].forced_singleton => ~d2.groups[k].forced_singleton
    BY <2>3, <2>6, <2>7 DEF Relabelled
  <2>. QED  BY <2>8 DEF d2
<1>. QED  BY <1>1, <1>2

LEMMA Patterns ==
    ASSUME NEW a \in Names, NEW b \in Names
    PROVE  commonPattern(a, b) \in Names
<1>1. Prefix(a) \in Names /\ Prefix(b) \in Names
  BY Constants DEF Prefix, Names
<1>. QED  BY <1>1 DEF commonPattern, Names

\* The pattern a group of several media is named for.
LEMMA PatternOfAll ==
    ASSUME NEW S, S \subseteq Media, \A m \in S : media[m].title \in Names, NEW base \in Names
    PROVE  FoldSet(LAMBDA m, n : commonPattern(n, media[m].title), base, S) \in Names
<1>. DEFINE k == [kind |-> "name", media |-> media]
            Bad == {s \in SUBSET S : Fold(k, base, s) \notin Names}
<1>1. \A x, acc : Step(k, x, acc) = commonPattern(acc, media[x].title)
  BY DEF Step
<1>2. FoldSet(LAMBDA m, n : commonPattern(n, media[m].title), base, S) = Fold(k, base, S)
  <2>. DEFINE body(iter) == [s \in SUBSET S |->
                 IF s = {} THEN base
                 ELSE commonPattern(iter[s \ {CHOOSE x \in s : TRUE}],
                                    media[CHOOSE x \in s : TRUE].title)]
  <2>1. \A iter : Iterates(k, base, S, iter) <=> iter = body(iter)
    <3>. HIDE DEF k
    <3>. QED  BY <1>1 DEF Iterates, Pick, Rest
  <2>2. (CHOOSE iter : Iterates(k, base, S, iter)) = (CHOOSE iter : iter = body(iter))
    <3>. HIDE DEF k, body
    <3>. QED  BY <2>1
  <2>3. FoldSet(LAMBDA m, n : commonPattern(n, media[m].title), base, S)
            = (CHOOSE iter : iter = body(iter))[S]
    BY DEF FoldSet, MapThenFoldSet
  <2>. HIDE DEF k, body
  <2>. QED  BY <2>2, <2>3 DEF Fold
<1>. HIDE DEF k
<1>3. IsFiniteSet(S)
  BY Constants, FS_Subset
<1>. SUFFICES ASSUME Bad # {} PROVE FALSE
  BY <1>2
<1>4. PICK s \in Bad : \A u \in Bad : u \subseteq s => u = s
  <2>1. Bad \in SUBSET (SUBSET S)
    OBVIOUS
  <2>. HIDE DEF Bad
  <2>. QED  BY <1>3, <2>1, MinimalSubset
<1>5. Fold(k, base, s) = IF s = {} THEN base ELSE Step(k, Pick(s), Fold(k, base, Rest(s)))
  <2>1. \A u \in SUBSET S : Unfolds(k, base, u)
    BY <1>3, FoldUnfolds
  <2>2. s \in SUBSET S
    BY <1>4
  <2>. HIDE DEF Bad
  <2>. QED  BY <2>1, <2>2 DEF Unfolds
<1>6. CASE s = {}
  BY <1>4, <1>5, <1>6
<1>7. CASE s # {}
  <2>1. Pick(s) \in S /\ Rest(s) \subseteq s /\ Rest(s) # s
    BY <1>4, <1>7, Picked
  <2>2. Fold(k, base, Rest(s)) \in Names
    BY <1>4, <2>1
  <2>. QED  BY <1>1, <1>4, <1>5, <1>7, <2>1, <2>2, Patterns
<1>. QED  BY <1>6, <1>7

-----------------------------------------------------------------------------
(* The inductive invariant.                                                *)

\* Every group is as long as its members and counts them all; unless it was spoilt, it
\* counts each of them for what it is.
IInv ==
    /\ Sound(db)
    /\ borne \in [Media -> SUBSET Titles] /\ outdated \subseteq Groups
    /\ \A m \in Media : Exists(db, m) => media[m].title \in borne[m]
    /\ lossy \subseteq Groups /\ edits \in 0..MaxEdits
    /\ \A k \in Groups \ lossy : groups[k] # NoRow => Exact(db, k, groups[k]) /\ Single(db, k)

LEMMA InitIInv == Init => IInv
<1>. SUFFICES ASSUME Init PROVE IInv
  OBVIOUS
<1>1. /\ media \in MediaT /\ groups \in GroupsT /\ db \in State
      /\ db.media = media /\ db.groups = groups
  BY DEF Init, MediaT, GroupsT, State, db
<1>2. \A m \in Media : ~Exists(db, m)
  BY <1>1 DEF Init, Exists
<1>. QED  BY <1>1, <1>2, Constants DEF Init, IInv, Sound

LEMMA Starting ==
    ASSUME IInv
    PROVE  Good(db, {}) /\ Lost(db) = lossy /\ db.media = media /\ db.groups = groups
<1>1. db.media = media /\ db.groups = groups
  BY DEF db
<1>2. \A k, x : ~Blurs(k, media[x], db.media[x])
  BY <1>1 DEF Blurs, Spoils
<1>3. Lost(db) = lossy
  BY <1>2 DEF Lost, IInv
<1>4. Good(db, {})
  <2>1. \A k \in Groups \ lossy : groups[k] # NoRow => Exact(db, k, db.groups[k]) /\ Single(db, k)
    BY <1>1 DEF IInv
  <2>2. Sound(db)
    BY DEF IInv
  <2>. QED  BY <1>3, <2>1, <2>2, <1>1 DEF Good
<1>. QED  BY <1>1, <1>3, <1>4

\* What a step comes to.
Outcome == \E d : Good(d, {}) /\ \E isEdit \in BOOLEAN : Transaction(d, isEdit)

LEMMA Committing ==
    ASSUME IInv, NEW d, Good(d, {}), NEW isEdit \in BOOLEAN, Transaction(d, isEdit)
    PROVE  /\ IInv'
           /\ \A g \in Groups \ (lossy \cup lossy') :
                 groups[g] # NoRow /\ Members(db, g) # {} =>
                    (Members(db', g) = {} <=> groups'[g] = NoRow)
<1>. DEFINE spoiling == {m \in Media : Exists(db, m) /\ Spoils(media[m], d.media[m])}
            touched == {media[m].group : m \in spoiling}
                       \cup {d.media[m].group : m \in {s \in spoiling : Exists(d, s)}}
<1>1. /\ media' = d.media /\ groups' = d.groups
      /\ lossy' = {g \in (lossy \cup touched) \ {NoRow} : d.groups[g] # NoRow}
      /\ edits' = edits + Bit(isEdit \/ spoiling # {}) /\ edits' <= MaxEdits
      /\ borne' = [m \in Media |->
                     IF Exists(d, m) THEN borne[m] \cup {d.media[m].title} ELSE {}]
      /\ outdated' = {g \in Groups : /\ Misnamed(g)
                                     /\ d.groups[g] # NoRow /\ d.groups[g].forced_singleton
                                     /\ \E m \in Members(d, g) :
                                           d.groups[g].name # d.media[m].title}
  BY DEF Transaction
<1>2. /\ Sound(d) /\ d \in State /\ lossy \subseteq Groups /\ edits \in 0..MaxEdits
      /\ borne \in [Media -> SUBSET Titles]
  BY DEF Good, Sound, IInv
<1>3. db' = d
  <2>1. d = [media |-> d.media, groups |-> d.groups]
    BY <1>2 DEF State
  <2>. QED  BY <1>1, <2>1 DEF db
<1>4. db.media = media /\ media \in MediaT /\ d.media \in MediaT
  <2>1. db.media = media /\ Good(db, {})
    BY Starting
  <2>. QED  BY <1>2, <2>1 DEF Good, Sound, State
<1>5. touched \subseteq Groups \cup {NoRow}
  <2>1. \A m \in spoiling : media[m].group \in Groups \cup {NoRow}
    BY <1>4 DEF Exists, MediaT, MediaRow
  <2>2. \A m \in {s \in spoiling : Exists(d, s)} : d.media[m].group \in Groups \cup {NoRow}
    BY <1>4 DEF Exists, MediaT, MediaRow
  <2>. QED  BY <2>1, <2>2
<1>6. ASSUME NEW k \in Groups, k \in Lost(d), d.groups[k] # NoRow
      PROVE  k \in lossy'
  <2>1. CASE k \in lossy
    BY <1>1, <1>6, <2>1, Constants
  <2>2. CASE k \notin lossy
    <3>1. PICK x \in Media : Blurs(k, media[x], d.media[x])
      BY <1>6, <2>2 DEF Lost
    <3>2. x \in spoiling
      BY <1>4, <3>1 DEF Blurs, Exists
    <3>3. k \in touched
      BY <3>1, <3>2 DEF Blurs, Has, Exists
    <3>. QED  BY <1>1, <1>6, <3>3, Constants
  <2>. QED  BY <2>1, <2>2
<1>7. edits' \in 0..MaxEdits
  <2>1. Bit(isEdit \/ spoiling # {}) \in {0, 1}
    BY DEF Bit
  <2>. HIDE DEF spoiling
  <2>. QED  BY <1>1, <1>2, <2>1, Constants
<1>8. lossy' \subseteq Groups
  <2>. HIDE DEF touched
  <2>. QED  BY <1>1, <1>2, <1>5
<1>9. \A k \in Groups \ lossy' : d.groups[k] # NoRow => Exact(d, k, d.groups[k]) /\ Single(d, k)
  BY <1>6 DEF Good
<1>10. ASSUME NEW g \in Groups \ (lossy \cup lossy'), groups[g] # NoRow, Members(db, g) # {}
       PROVE  Members(d, g) = {} <=> d.groups[g] = NoRow
  <2>1. ASSUME Members(d, g) = {}, d.groups[g] # NoRow
        PROVE  FALSE
    <3>1. g \notin Lost(d)
      BY <1>6, <2>1
    <3>. QED  BY <1>10, <2>1, <3>1 DEF Good
  <2>2. ASSUME d.groups[g] = NoRow, Members(d, g) # {}
        PROVE  FALSE
    BY <1>2, <2>2, Constants DEF Sound, Members
  <2>. QED  BY <2>1, <2>2
<1>11. IInv'
  <2>1. /\ Sound(d) /\ db' = d /\ groups' = d.groups
        /\ \A k \in Groups \ lossy' : groups'[k] # NoRow => Exact(d, k, groups'[k]) /\ Single(d, k)
    BY <1>1, <1>2, <1>3, <1>9
  <2>2. Sound(db)'
    BY <2>1 DEF Sound, Counted, Of, Weighted, Members, Exists
  <2>3. \A m \in Media : Exists(d, m) => d.media[m].title \in Titles
    BY <1>4 DEF Exists, MediaT, MediaRow
  <2>4. /\ borne' \in [Media -> SUBSET Titles]
        /\ \A m \in Media : Exists(d, m) => d.media[m].title \in borne'[m] /\ borne[m] \subseteq borne'[m]
    BY <1>1, <1>2, <2>3
  <2>5. (\A m \in Media : Exists(db, m) => media[m].title \in borne[m])'
    BY <1>1, <2>1, <2>4 DEF Exists
  <2>6. outdated' \subseteq Groups
    BY <1>1
  <2>7. ASSUME NEW k \in Groups, groups'[k] # NoRow, Single(d, k)
        PROVE  Single(db, k)'
    <3>. SUFFICES ASSUME d.groups[k].forced_singleton
                  PROVE  \E m \in Media : (Members(db, k) = {m} /\ Bears(db, k, m))'
      BY <2>1 DEF Single
    <3>1. PICK m \in Media : Members(d, k) = {m} /\ Bears(d, k, m)
      BY <2>7 DEF Single
    <3>2. Members(db, k)' = {m} /\ Exists(d, m)
      BY <2>1, <3>1 DEF Members, Exists
    <3>3. CASE d.groups[k].name = d.media[m].title
      <4>1. Bears(db, k, m)'
        BY <2>1, <3>3 DEF Bears
      <4>. QED  BY <3>2, <4>1
    <3>4. CASE d.groups[k].name # d.media[m].title
      <4>1. Misnamed(k) /\ d.groups[k].name \in borne'[m]
        BY <2>4, <3>1, <3>2, <3>4 DEF Bears
      <4>2. k \in outdated'
        BY <1>1, <2>1, <2>7, <3>1, <3>4, <4>1
      <4>3. Bears(db, k, m)'
        BY <2>1, <4>1, <4>2 DEF Bears, Misnamed
      <4>. QED  BY <3>2, <4>3
    <3>. QED  BY <3>3, <3>4
  <2>8. \A k \in Groups : Exact(db, k, groups[k])' <=> Exact(d, k, groups'[k])
    BY <2>1 DEF Exact, Of, Weighted, Members, Exists
  <2>. QED  BY <1>7, <1>8, <2>1, <2>2, <2>4, <2>5, <2>6, <2>7, <2>8 DEF IInv
<1>12. \A g : Members(db, g)' = Members(d, g)
  BY <1>3 DEF Members, Exists
<1>. QED  BY <1>1, <1>3, <1>10, <1>11, <1>12

-----------------------------------------------------------------------------
(* The operations.                                                         *)

LEMMA Rows ==
    ASSUME IInv
    PROVE  /\ Good(db, {}) /\ db.media = media /\ db.groups = groups
           /\ media \in MediaT /\ groups \in GroupsT
           /\ \A m \in Media : Exists(db, m) <=> media[m] # NoRow
           /\ \A m \in Media : Exists(db, m) =>
                 /\ media[m] \in MediaRow /\ media[m].title \in Names
                 /\ media[m].group # NoRow =>
                       media[m].group \in Groups /\ groups[media[m].group] # NoRow
           /\ \A m \in Media : borne[m] \subseteq Titles /\ borne[m] \subseteq Names
<1>1. Good(db, {}) /\ db.media = media /\ db.groups = groups
  BY Starting
<1>2. media \in MediaT /\ groups \in GroupsT /\ Sound(db)
  BY <1>1 DEF Good, Sound, State
<1>3. \A m \in Media : Exists(db, m) <=> media[m] # NoRow
  BY <1>1 DEF Exists
<1>4. ASSUME NEW m \in Media, Exists(db, m)
      PROVE  /\ media[m] \in MediaRow /\ media[m].title \in Names
             /\ media[m].group # NoRow =>
                   media[m].group \in Groups /\ groups[media[m].group] # NoRow
  BY <1>1, <1>2, <1>3, <1>4 DEF MediaT, MediaRow, Names, Sound
<1>5. \A m \in Media : borne[m] \subseteq Titles /\ borne[m] \subseteq Names
  BY DEF IInv, Names
<1>. QED  BY <1>1, <1>2, <1>3, <1>4, <1>5

\* An UPDATE of one media that stays in its group.
LEMMA Rewrites ==
    ASSUME IInv, NEW m \in Media, Exists(db, m), NEW new \in MediaRow,
           new.group = media[m].group, Legit(media[m], new),
           NEW isEdit \in BOOLEAN, Transaction(Update(db, m, new), isEdit)
    PROVE  Outcome
<1>1. media[m] # NoRow /\ (new.group # NoRow => db.groups[new.group] # NoRow)
      /\ db.media[m] = media[m] /\ Good(db, {})
  BY Rows
<1>2. Good(Update(db, m, new), {} \cup {k \in Groups : Has(new, k) /\ ~Has(media[m], k)})
  BY <1>1, Rewriting
<1>3. {} \cup {k \in Groups : Has(new, k) /\ ~Has(media[m], k)} = {}
  BY <1>1 DEF Has
<1>. QED  BY <1>2, <1>3 DEF Outcome

LEMMA SettersKeep ==
    ASSUME IInv, NEW m \in Media
    PROVE  /\ \A title \in Titles : setTitle(m, title) => Outcome
           /\ \A type \in Types : setType(m, type) => Outcome
           /\ \A played \in BOOLEAN : setPlayed(m, played) => Outcome
           /\ \A duration \in Durations : setDuration(m, duration) => Outcome
           /\ convertToExternal(m) => Outcome
           /\ \A type \in Types, duration \in Durations :
                 overrideExternalMedia(m, type, duration) => Outcome
           /\ \A present \in BOOLEAN : setPresent(m, present) => Outcome
<1>. DEFINE old == media[m]
<1>1. Exists(db, m) => old \in MediaRow
  BY Rows
<1>2. ASSUME NEW title \in Titles, setTitle(m, title)
      PROVE  Outcome
  <2>. DEFINE new == [old EXCEPT !.title = title]
  <2>1. Exists(db, m) /\ Transaction(Update(db, m, new), TRUE)
    BY <1>2 DEF setTitle, CommitEdit
  <2>2. /\ new \in MediaRow /\ new.group = old.group /\ new.internal = old.internal
        /\ new.is_present = old.is_present
    BY <1>1, <2>1 DEF MediaRow
  <2>. HIDE DEF new
  <2>3. Legit(old, new)
    BY <2>2 DEF Legit
  <2>. QED  BY <2>1, <2>2, <2>3, Rewrites
<1>3. ASSUME NEW type \in Types, setType(m, type)
      PROVE  Outcome
  <2>. DEFINE new == [old EXCEPT !.type = type]
  <2>1. Exists(db, m) /\ Transaction(Update(db, m, new), TRUE)
    BY <1>3 DEF setType, CommitEdit
  <2>2. /\ new \in MediaRow /\ new.group = old.group /\ new.internal = old.internal
        /\ new.is_present = old.is_present
    BY <1>1, <2>1 DEF MediaRow
  <2>. HIDE DEF new
  <2>3. Legit(old, new)
    BY <2>2 DEF Legit
  <2>. QED  BY <2>1, <2>2, <2>3, Rewrites
<1>4. ASSUME NEW played \in BOOLEAN, setPlayed(m, played)
      PROVE  Outcome
  <2>. DEFINE new == [old EXCEPT !.played = played]
  <2>1. Exists(db, m) /\ Transaction(Update(db, m, new), TRUE)
    BY <1>4 DEF setPlayed, CommitEdit
  <2>2. /\ new \in MediaRow /\ new.group = old.group /\ new.internal = old.internal
        /\ new.is_present = old.is_present
    BY <1>1, <2>1 DEF MediaRow
  <2>. HIDE DEF new
  <2>3. Legit(old, new)
    BY <2>2 DEF Legit
  <2>. QED  BY <2>1, <2>2, <2>3, Rewrites
<1>5. ASSUME NEW duration \in Durations, setDuration(m, duration)
      PROVE  Outcome
  <2>. DEFINE new == [old EXCEPT !.duration = duration]
  <2>1. Exists(db, m) /\ Transaction(Update(db, m, new), TRUE)
    BY <1>5 DEF setDuration, CommitEdit
  <2>2. /\ new \in MediaRow /\ new.group = old.group /\ new.internal = old.internal
        /\ new.is_present = old.is_present
    BY <1>1, <2>1 DEF MediaRow
  <2>. HIDE DEF new
  <2>3. Legit(old, new)
    BY <2>2 DEF Legit
  <2>. QED  BY <2>1, <2>2, <2>3, Rewrites
<1>6. ASSUME convertToExternal(m)
      PROVE  Outcome
  <2>. DEFINE new == [old EXCEPT !.internal = FALSE]
  <2>1. Exists(db, m) /\ Transaction(Update(db, m, new), FALSE)
    BY <1>6 DEF convertToExternal, Commit
  <2>2. /\ new \in MediaRow /\ new.group = old.group /\ new.played = old.played
        /\ new.is_present = old.is_present
    BY <1>1, <2>1 DEF MediaRow
  <2>. HIDE DEF new
  <2>3. Legit(old, new)
    BY <2>2 DEF Legit
  <2>. QED  BY <2>1, <2>2, <2>3, Rewrites
<1>7. ASSUME NEW type \in Types, NEW duration \in Durations,
             overrideExternalMedia(m, type, duration)
      PROVE  Outcome
  <2>. DEFINE new == [old EXCEPT !.internal = TRUE, !.type = type, !.duration = duration]
  <2>1. Exists(db, m) /\ Transaction(Update(db, m, new), TRUE)
    BY <1>7 DEF overrideExternalMedia, CommitEdit
  <2>2. /\ new \in MediaRow /\ new.group = old.group /\ new.played = old.played
        /\ new.is_present = old.is_present
    BY <1>1, <2>1 DEF MediaRow
  <2>. HIDE DEF new
  <2>3. Legit(old, new)
    BY <2>2 DEF Legit
  <2>. QED  BY <2>1, <2>2, <2>3, Rewrites
<1>8. ASSUME NEW present \in BOOLEAN, setPresent(m, present)
      PROVE  Outcome
  <2>. DEFINE new == [old EXCEPT !.is_present = present]
  <2>1. Exists(db, m) /\ old.internal /\ Transaction(Update(db, m, new), FALSE)
    BY <1>8 DEF setPresent, Commit
  <2>2. /\ new \in MediaRow /\ new.group = old.group /\ new.played = old.played
        /\ new.internal = old.internal /\ new.type = old.type
    BY <1>1, <2>1 DEF MediaRow
  <2>. HIDE DEF new
  <2>3. Legit(old, new)
    BY <2>1, <2>2 DEF Legit
  <2>. QED  BY <2>1, <2>2, <2>3, Rewrites
<1>. QED  BY <1>2, <1>3, <1>4, <1>5, <1>6, <1>7, <1>8

LEMMA InsertKeeps ==
    ASSUME IInv, NEW m \in Media, NEW type \in Types, NEW title \in Titles,
           createMedia(m, type, title, 1)
    PROVE  Outcome
<1>. DEFINE new == [type |-> type, internal |-> TRUE, is_present |-> TRUE, played |-> FALSE,
                    duration |-> 1, title |-> title, group |-> NoRow]
            d == [db EXCEPT !.media[m] = new]
<1>1. ~Exists(db, m) /\ Transaction(d, FALSE)
  BY DEF createMedia, Commit
<1>2. new \in MediaRow /\ new.group = NoRow
  BY Constants DEF MediaRow
<1>. HIDE DEF new
<1>3. /\ Good(db, {}) /\ db.media = media /\ db.groups = groups
      /\ media[m] = NoRow /\ groups \in GroupsT
  BY <1>1, Rows DEF Exists
<1>4. d = [media |-> [db.media EXCEPT ![m] = new], groups |-> d.groups] /\ d.groups = db.groups
  BY DEF db
<1>. HIDE DEF d
<1>5. Changes(db, m, new, d)
  BY <1>2, <1>3, <1>4, Inserting DEF Changes
<1>6. Good(d, {} \cup {k \in Groups : Has(new, k) /\ ~Has(media[m], k)})
  BY <1>3, <1>5, Stepping
<1>7. {} \cup {k \in Groups : Has(new, k) /\ ~Has(media[m], k)} = {}
  BY <1>2, Constants DEF Has
<1>. QED  BY <1>1, <1>6, <1>7 DEF Outcome

LEMMA DeleteKeeps ==
    ASSUME IInv, NEW m \in Media, deleteMedia(m)
    PROVE  Outcome
<1>. DEFINE d == Delete(db, m)
<1>1. Exists(db, m) /\ Transaction(d, FALSE)
  BY DEF deleteMedia, Commit
<1>2. /\ Good(db, {}) /\ db.media = media /\ db.groups = groups
      /\ media[m] \in MediaRow /\ media[m] # NoRow /\ groups \in GroupsT /\ Sound(db)
  BY <1>1, Rows DEF Exists, Good
<1>3. Linked(db.groups, NoRow, media[m].group)
  BY <1>2, SoundLinked
<1>4. d.media = [db.media EXCEPT ![m] = NoRow] /\ Tracks(db.groups, d.groups, media[m], NoRow)
  BY <1>2, <1>3, Deleting
<1>5. d = [media |-> d.media, groups |-> d.groups]
  BY DEF Delete
<1>. HIDE DEF d
<1>6. Changes(db, m, NoRow, d)
  BY <1>2, <1>4, <1>5 DEF Changes
<1>7. Good(d, {} \cup {k \in Groups : Has(NoRow, k) /\ ~Has(media[m], k)})
  BY <1>2, <1>6, Stepping
<1>8. {} \cup {k \in Groups : Has(NoRow, k) /\ ~Has(media[m], k)} = {}
  BY DEF Has
<1>. QED  BY <1>1, <1>7, <1>8 DEF Outcome

LEMMA GroupCreationKeeps ==
    ASSUME IInv
    PROVE  /\ \A name \in Titles : createMediaGroup(name) => Outcome
           /\ \A S \in SUBSET Media : createMediaGroupOf(S) => Outcome
<1>1. ASSUME HasRoom(db, 1), NEW name \in Names, Transaction(create(db, name, TRUE, FALSE), TRUE)
      PROVE  Outcome
  <2>. DEFINE n == NewGroup(db)
              d == create(db, name, TRUE, FALSE)
  <2>1. n \in Groups /\ db.groups[n] = NoRow /\ groups[n] = NoRow /\ Good(db, {})
    BY <1>1, FreeRow, Rows
  <2>2. Created(db, {}, n, name, FALSE, d)
    BY <2>1, Creating
  <2>. QED  BY <1>1, <2>2 DEF Created, Outcome
<1>2. ASSUME NEW name \in Titles, createMediaGroup(name)
      PROVE  Outcome
  BY <1>1, <1>2 DEF createMediaGroup, CommitEdit, Names
<1>3. ASSUME NEW S \in SUBSET Media, createMediaGroupOf(S)
      PROVE  Outcome
  <2>. DEFINE first == CHOOSE m \in S : TRUE
              name == FoldSet(LAMBDA m, n : commonPattern(n, media[m].title),
                              media[first].title, S)
  <2>1. /\ HasRoom(db, 1) /\ S # {} /\ \A m \in S : Exists(db, m)
        /\ Transaction(create(db, name, TRUE, FALSE), TRUE)
    BY <1>3 DEF createMediaGroupOf, CommitEdit
  <2>2. first \in S /\ \A m \in S : media[m].title \in Names
    BY <2>1, Rows
  <2>3. name \in Names
    <3>. HIDE DEF first
    <3>. QED  BY <2>2, PatternOfAll
  <2>. HIDE DEF name
  <2>. QED  BY <1>1, <2>1, <2>3
<1>. QED  BY <1>2, <1>3

LEMMA MembershipKeeps ==
    ASSUME IInv, NEW m \in Media
    PROVE  /\ \A g \in Groups : addToGroup(m, g) => Outcome
           /\ \A title \in Titles : removeFromGroup(m, title) => Outcome
<1>1. /\ Good(db, {}) /\ db.media = media /\ db.groups = groups
      /\ Exists(db, m) => media[m] # NoRow
  BY Rows
<1>2. ASSUME NEW g \in Groups, addToGroup(m, g)
      PROVE  Outcome
  <2>1. Exists(db, m) /\ groups[g] # NoRow /\ Transaction(add(db, g, m, FALSE), FALSE)
    BY <1>2 DEF addToGroup, Commit
  <2>2. Good(add(db, g, m, FALSE), {})
    BY <1>1, <2>1, Joining
  <2>. QED  BY <2>1, <2>2 DEF Outcome
<1>3. ASSUME NEW title \in Titles, removeFromGroup(m, title)
      PROVE  Outcome
  <2>1. /\ Exists(db, m) /\ HasRoom(db, 1) /\ title \in borne[m]
        /\ Transaction(remove(db, m, title), FALSE)
    BY <1>3 DEF removeFromGroup, Commit
  <2>2. NewGroup(db) \in Groups /\ db.groups[NewGroup(db)] = NoRow
    BY <2>1, FreeRow
  <2>3. Good(remove(db, m, title), {})
    BY <1>1, <2>1, <2>2, Removing
  <2>. QED  BY <2>1, <2>3 DEF Outcome
<1>. QED  BY <1>2, <1>3

LEMMA RenameKeeps ==
    ASSUME IInv, NEW g \in Groups, NEW name \in Names, rename(g, name)
    PROVE  Outcome
<1>1. groups[g] # NoRow /\ Transaction(Named(db, g, name, TRUE), TRUE)
  BY DEF rename, CommitEdit
<1>2. Good(db, {}) /\ db.groups = groups
  BY Rows
<1>3. Good(Named(db, g, name, TRUE), {})
  BY <1>1, <1>2, Naming
<1>. QED  BY <1>1, <1>3 DEF Outcome

LEMMA AssignKeeps ==
    ASSUME IInv, NEW m \in Media, NEW title \in Titles, assignMediaToGroup(m, title)
    PROVE  Outcome
<1>1. Exists(db, m) /\ title \in Names
  BY DEF assignMediaToGroup, Names
<1>2. /\ Good(db, {}) /\ db.media = media /\ db.groups = groups /\ groups \in GroupsT
      /\ media[m] # NoRow
  BY <1>1, Rows
<1>3. CASE HasRoom(db, 1) /\ Transaction(Create(db, m, title), FALSE)
  <2>. DEFINE n == NewGroup(db)
              c == create(db, title, FALSE, FALSE)
  <2>1. n \in Groups /\ db.groups[n] = NoRow /\ groups[n] = NoRow
    BY <1>2, <1>3, FreeRow
  <2>2. Created(db, {}, n, title, FALSE, c)
    BY <1>1, <1>2, <2>1, Creating
  <2>3. Create(db, m, title) = add(c, n, m, FALSE)
    BY <1>2 DEF Create
  <2>. HIDE DEF c, n
  <2>4. Good(add(c, n, m, FALSE), {})
    BY <1>2, <2>1, <2>2, Joining DEF Created
  <2>. QED  BY <1>3, <2>3, <2>4 DEF Outcome
<1>4. CASE \E g \in Targets(db, title) : Transaction(AssignTo(db, g, m, title), FALSE)
  <2>1. PICK g \in Targets(db, title) : Transaction(AssignTo(db, g, m, title), FALSE)
    BY <1>4
  <2>2. g \in Groups /\ groups[g] # NoRow /\ groups[g].name \in Names
    <3>1. g \in Groups /\ groups[g] # NoRow
      BY <1>2 DEF Targets, fetchMatching
    <3>. QED  BY <1>2, <3>1 DEF GroupsT, GroupRow
  <2>. DEFINE pattern == commonPattern(groups[g].name, title)
              d == IF groups[g].user_interacted THEN db ELSE Named(db, g, pattern, FALSE)
  <2>3. AssignTo(db, g, m, title) = add(d, g, m, FALSE)
    BY <1>2 DEF AssignTo
  <2>4. pattern \in Names
    BY <1>1, <2>2, Patterns
  <2>. HIDE DEF pattern
  <2>5. Good(d, {}) /\ d.media = media /\ d.groups[g] # NoRow
    <3>1. ASSUME NEW u \in BOOLEAN
          PROVE  /\ Good(Named(db, g, pattern, u), {})
                 /\ Named(db, g, pattern, u).media = media
                 /\ Named(db, g, pattern, u).groups[g] # NoRow
      <4>1. Good(db, {}) /\ db.groups[g] # NoRow /\ g \in Groups /\ db.media = media
        BY <1>2, <2>2
      <4>. QED  BY <2>4, <4>1, Naming
    <3>2. d = db \/ d = Named(db, g, pattern, FALSE)
      OBVIOUS
    <3>. HIDE DEF d
    <3>3. ASSUME d = db
          PROVE  Good(d, {}) /\ d.media = media /\ d.groups[g] # NoRow
      <4>1. Good(db, {}) /\ db.media = media /\ db.groups[g] # NoRow
        BY <1>2, <2>2
      <4>. QED  BY <3>3, <4>1
    <3>4. ASSUME d = Named(db, g, pattern, FALSE)
          PROVE  Good(d, {}) /\ d.media = media /\ d.groups[g] # NoRow
      BY <3>1, <3>4
    <3>. QED  BY <3>2, <3>3, <3>4
  <2>. HIDE DEF d
  <2>6. Good(add(d, g, m, FALSE), {})
    BY <1>2, <2>2, <2>5, Joining
  <2>. QED  BY <2>1, <2>3, <2>6 DEF Outcome
<1>. QED  BY <1>3, <1>4 DEF assignMediaToGroup, Commit

-----------------------------------------------------------------------------
(* The transactions that move several media.                               *)

LEMMA RemoveFold ==
    ASSUME NEW base, NEW S
    PROVE  FoldSet(LAMBDA m, d : remove(d, m, d.media[m].title), base, S)
               = Fold([kind |-> "remove"], base, S)
<1>. DEFINE k == [kind |-> "remove"]
            body(iter) == [s \in SUBSET S |->
                IF s = {} THEN base
                ELSE remove(iter[s \ {CHOOSE x \in s : TRUE}], CHOOSE x \in s : TRUE,
                            iter[s \ {CHOOSE x \in s : TRUE}]
                                .media[CHOOSE x \in s : TRUE].title)]
<1>1. \A x, acc : Step(k, x, acc) = remove(acc, x, acc.media[x].title)
  BY DEF Step
<1>2. \A iter : Iterates(k, base, S, iter) <=> iter = body(iter)
  <2>. HIDE DEF k
  <2>. QED  BY <1>1 DEF Iterates, Pick, Rest
<1>3. (CHOOSE iter : Iterates(k, base, S, iter)) = (CHOOSE iter : iter = body(iter))
  <2>. HIDE DEF k, body
  <2>. QED  BY <1>2
<1>4. FoldSet(LAMBDA m, d : remove(d, m, d.media[m].title), base, S)
          = (CHOOSE iter : iter = body(iter))[S]
  BY DEF FoldSet, MapThenFoldSet
<1>. HIDE DEF body
<1>. QED  BY <1>3, <1>4 DEF Fold

AddTo(d, g, m) == add(d, g, m, FALSE)

LEMMA AddFold ==
    ASSUME NEW base, NEW S, NEW g
    PROVE  FoldSet(LAMBDA c, d : add(d, g, c, FALSE), base, S)
               = Fold([kind |-> "add", group |-> g], base, S)
<1>. DEFINE k == [kind |-> "add", group |-> g]
            body(iter) == [s \in SUBSET S |->
                IF s = {} THEN base
                ELSE AddTo(iter[s \ {CHOOSE x \in s : TRUE}], g, CHOOSE x \in s : TRUE)]
<1>1. \A x, acc : Step(k, x, acc) = AddTo(acc, g, x)
  BY DEF Step, AddTo
<1>2. \A iter : Iterates(k, base, S, iter) <=> iter = body(iter)
  <2>. HIDE DEF k
  <2>. QED  BY <1>1 DEF Iterates, Pick, Rest
<1>3. (CHOOSE iter : Iterates(k, base, S, iter)) = (CHOOSE iter : iter = body(iter))
  <2>. HIDE DEF k, body
  <2>. QED  BY <1>2
<1>4. FoldSet(LAMBDA c, d : add(d, g, c, FALSE), base, S) = (CHOOSE iter : iter = body(iter))[S]
  BY DEF FoldSet, MapThenFoldSet, AddTo
<1>. HIDE DEF body
<1>. QED  BY <1>3, <1>4 DEF Fold

\* While a group is dissolved: the media of t have a group of their own, the others
\* are where they were, and there are rows enough for them.
Free(d) == {k \in Groups : d.groups[k] = NoRow}

Dissolving(S, t, d) ==
    /\ Good(d, {})
    /\ \A x \in Media \ t : d.media[x] = media[x]
    /\ t # S => \A k \in Groups : groups[k] # NoRow => d.groups[k] # NoRow
    /\ Cardinality(Free(d)) >= Cardinality(Free(db)) - Cardinality(t)

LEMMA DissolvingOne ==
    ASSUME IInv, NEW g \in Groups,
           NEW S, S \subseteq Members(db, g), Cardinality(Free(db)) >= Cardinality(S),
           NEW t, t \subseteq S, NEW x \in S, x \notin t,
           NEW d, Dissolving(S, t, d),
           NEW d2, d2 = remove(d, x, d.media[x].title)
    PROVE  Dissolving(S, t \cup {x}, d2)
<1>. DEFINE n == NewGroup(d)
<1>1. /\ db.media = media /\ db.groups = groups
      /\ S \subseteq Media /\ \A y \in S : media[y] # NoRow /\ media[y].group = g
  BY Rows DEF Members, Exists
<1>2. IsFiniteSet(S) /\ IsFiniteSet(t) /\ IsFiniteSet(Media)
  <2>1. IsFiniteSet(S)
    BY <1>1, Constants, FS_Subset
  <2>. QED  BY <2>1, Constants, FS_Subset
<1>3. \A e : IsFiniteSet(Free(e)) /\ Cardinality(Free(e)) \in Nat
  <2>1. \A e : IsFiniteSet(Free(e))
    BY Constants, FS_Subset DEF Free
  <2>. QED  BY <2>1, FS_CardinalityType
<1>4. Cardinality(S) \in Nat /\ Cardinality(t) \in Nat /\ Cardinality(t) < Cardinality(S)
  <2>1. Cardinality(S) \in Nat /\ Cardinality(t) \in Nat
    BY <1>2, FS_CardinalityType
  <2>2. Cardinality(t) <= Cardinality(S) /\ (Cardinality(t) = Cardinality(S) => t = S)
    BY <1>2, FS_Subset
  <2>. QED  BY <2>1, <2>2
<1>5. n \in Groups /\ d.groups[n] = NoRow /\ n \in Free(d)
  <2>1. Cardinality(Free(d)) >= 1
    BY <1>3, <1>4 DEF Dissolving
  <2>2. HasRoom(d, 1)
    BY <2>1 DEF HasRoom, Free
  <2>. QED  BY <2>2, FreeRow DEF Free
<1>6. groups[n] = NoRow /\ d.media[x] = media[x] /\ media[x] # NoRow /\ x \in Media /\ Good(d, {})
  BY <1>1, <1>5 DEF Dissolving
<1>7. /\ Good(d2, {})
      /\ d2.media = [d.media EXCEPT ![x] = [d.media[x] EXCEPT !.group = n]]
      /\ \A k \in Groups : d2.groups[k] # NoRow => d.groups[k] # NoRow \/ k = n
      /\ \A k \in Groups : k # g /\ d.groups[k] # NoRow => d2.groups[k] # NoRow
  <2>1. media[x].title \in Titles
    BY <1>6 DEF Good, Sound, State, MediaT, MediaRow
  <2>. QED  BY <1>1, <1>5, <1>6, <2>1, Removing
<1>8. \A y \in Media \ (t \cup {x}) : d2.media[y] = media[y]
  <2>1. d.media \in MediaT
    BY <1>6 DEF Good, Sound, State
  <2>. QED  BY <1>7, <2>1 DEF Dissolving, MediaT
<1>9. ASSUME t \cup {x} # S, NEW k \in Groups, groups[k] # NoRow
      PROVE  d2.groups[k] # NoRow
  <2>1. d.groups[k] # NoRow
    BY <1>9 DEF Dissolving
  <2>2. CASE k # g
    BY <1>7, <2>1, <2>2
  <2>3. CASE k = g
    <3>1. PICK y \in S : y \notin t \cup {x}
      BY <1>9
    <3>2. d2.media[y] = media[y] /\ y \in Media /\ d2.media[y] # NoRow /\ d2.media[y].group = g
      BY <1>1, <1>8, <3>1
    <3>. QED  BY <1>7, <2>3, <3>2, Constants DEF Good, Sound, Exists
  <2>. QED  BY <2>2, <2>3
<1>10. Cardinality(Free(d2)) >= Cardinality(Free(db)) - Cardinality(t \cup {x})
  <2>1. Free(d) \ {n} \subseteq Free(d2)
    BY <1>7 DEF Free
  <2>2. Cardinality(Free(d) \ {n}) = Cardinality(Free(d)) - 1
    BY <1>3, <1>5, FS_RemoveElement
  <2>3. Cardinality(Free(d) \ {n}) <= Cardinality(Free(d2))
    BY <1>3, <2>1, FS_Subset
  <2>4. Cardinality(t \cup {x}) = Cardinality(t) + 1
    BY <1>2, FS_AddElement
  <2>5. Cardinality(Free(d)) >= Cardinality(Free(db)) - Cardinality(t)
    BY DEF Dissolving
  <2>. QED  BY <1>3, <1>4, <2>2, <2>3, <2>4, <2>5
<1>. QED  BY <1>7, <1>8, <1>9, <1>10 DEF Dissolving


LEMMA DestroyKeeps ==
    ASSUME IInv, NEW g \in Groups, destroy(g)
    PROVE  Outcome
<1>. DEFINE S == fromMediaGroup(g, AllTypes, FALSE)
            k == [kind |-> "remove"]
            Done(s) == Fold(k, db, s)
            Bad == {s \in SUBSET S : ~Dissolving(S, s, Done(s))}
<1>1. HasRoom(db, Cardinality(S)) /\ Transaction(Done(S), FALSE)
  <2>1. /\ HasRoom(db, Cardinality(S))
        /\ Transaction(FoldSet(LAMBDA m, d : remove(d, m, d.media[m].title), db, S), FALSE)
    BY DEF destroy, Commit
  <2>. QED  BY <2>1, RemoveFold
<1>2. /\ Good(db, {}) /\ db.media = media /\ db.groups = groups
      /\ S \subseteq Members(db, g) /\ S \subseteq Media /\ IsFiniteSet(S)
  <2>1. S \subseteq Members(db, g) /\ S \subseteq Media
    BY DEF fromMediaGroup, Members
  <2>. QED  BY <2>1, Rows, Constants, FS_Subset
<1>3. Cardinality(Free(db)) >= Cardinality(S)
  BY <1>1 DEF HasRoom, Free
<1>4. \A x, acc : Step(k, x, acc) = remove(acc, x, acc.media[x].title)
  BY DEF Step
<1>. HIDE DEF S, k
<1>5. Bad = {}
  <2>. SUFFICES ASSUME Bad # {} PROVE FALSE
    OBVIOUS
  <2>1. PICK s \in Bad : \A u \in Bad : u \subseteq s => u = s
    <3>1. Bad \in SUBSET (SUBSET S)
      OBVIOUS
    <3>. HIDE DEF Bad
    <3>. QED  BY <1>2, <3>1, MinimalSubset
  <2>2. s \subseteq S /\ ~Dissolving(S, s, Done(s))
    BY <2>1
  <2>3. Done(s) = IF s = {} THEN db ELSE Step(k, Pick(s), Done(Rest(s)))
    BY <1>2, <2>2, FoldUnfolds DEF Unfolds
  <2>4. CASE s = {}
    <3>1. Cardinality(s) = 0 /\ Cardinality(Free(db)) \in Nat
      <4>1. IsFiniteSet(Free(db))
        BY Constants, FS_Subset DEF Free
      <4>. QED  BY <2>4, <4>1, FS_EmptySet, FS_CardinalityType
    <3>2. Dissolving(S, s, db)
      BY <1>2, <3>1 DEF Dissolving
    <3>. QED  BY <2>2, <2>3, <2>4, <3>2
  <2>5. CASE s # {}
    <3>1. /\ Pick(s) \in S /\ Pick(s) \notin Rest(s) /\ s = Rest(s) \cup {Pick(s)}
          /\ Rest(s) \subseteq S /\ Rest(s) # s /\ Rest(s) \subseteq s
      BY <2>2, <2>5, Picked
    <3>2. Dissolving(S, Rest(s), Done(Rest(s)))
      BY <2>1, <3>1
    <3>3. Done(s) = remove(Done(Rest(s)), Pick(s), Done(Rest(s)).media[Pick(s)].title)
      BY <1>4, <2>3, <2>5
    <3>. HIDE DEF Done
    <3>4. Dissolving(S, Rest(s) \cup {Pick(s)}, Done(s))
      BY <1>2, <1>3, <3>1, <3>2, <3>3, DissolvingOne
    <3>. QED  BY <2>2, <3>1, <3>4
  <2>. QED  BY <2>4, <2>5
<1>6. Good(Done(S), {})
  BY <1>5 DEF Dissolving
<1>. QED  BY <1>1, <1>6 DEF Outcome


\* While media join group g: those that are not in t yet are where they were.
Gathering(S, g, t, d) ==
    /\ Good(d, {}) /\ d.groups[g] # NoRow
    /\ \A x \in S \ t : d.media[x] = media[x]

LEMMA GatheringOne ==
    ASSUME NEW g \in Groups, NEW S, S \subseteq Media, \A x \in S : media[x] # NoRow,
           NEW t, NEW x \in S, x \notin t, NEW d, Gathering(S, g, t, d),
           NEW d2, d2 = add(d, g, x, FALSE)
    PROVE  Gathering(S, g, t \cup {x}, d2)
<1>1. /\ Good(d, {}) /\ d.groups[g] # NoRow /\ d.media[x] = media[x] /\ media[x] # NoRow
      /\ d.media \in MediaT
  BY DEF Gathering, Good, Sound, State
<1>2. Good(d2, {}) /\ Joins(d, g, x, d2)
  BY <1>1, Joining
<1>3. \A y \in S \ (t \cup {x}) : d2.media[y] = media[y]
  BY <1>1, <1>2 DEF Gathering, Joins, MediaT
<1>. QED  BY <1>2, <1>3 DEF Gathering, Joins

LEMMA RegroupKeeps ==
    ASSUME IInv, NEW m \in Media, NEW title \in Titles, regroup(m, title)
    PROVE  Outcome
<1>. DEFINE g == NewGroup(db)
            c == create(db, title, FALSE, FALSE)
            alone == add(c, g, m, FALSE)
            S == fetchMatchingUngrouped(alone, title)
            name == FoldSet(LAMBDA x, n : commonPattern(n, media[x].title), title, S)
            k == [kind |-> "add", group |-> g]
            Done(s) == Fold(k, alone, s)
            Bad == {s \in SUBSET S : ~Gathering(S, g, s, Done(s))}
<1>1. /\ Exists(db, m) /\ HasRoom(db, 1)
      /\ Transaction(Named(Done(S), g, name, FALSE), FALSE)
  <2>1. FoldSet(LAMBDA x, d : add(d, g, x, FALSE), alone, S) = Done(S)
    <3>. HIDE DEF g, alone, S
    <3>. QED  BY AddFold
  <2>2. /\ Exists(db, m) /\ HasRoom(db, 1)
        /\ Transaction(Named(FoldSet(LAMBDA x, d : add(d, g, x, FALSE), alone, S),
                             g, name, FALSE), FALSE)
    BY DEF regroup, Commit
  <2>. QED  BY <2>1, <2>2
<1>2. /\ Good(db, {}) /\ db.media = media /\ db.groups = groups /\ media \in MediaT
      /\ media[m] # NoRow /\ media[m] \in MediaRow /\ title \in Names
      /\ g \in Groups /\ db.groups[g] = NoRow /\ groups[g] = NoRow
  BY <1>1, Rows, FreeRow DEF Names
<1>3. Created(db, {}, g, title, FALSE, c)
  BY <1>2, Creating
<1>4. Good(c, {}) /\ c.media = media /\ c.groups[g] # NoRow
  BY <1>2, <1>3 DEF Created
<1>. HIDE DEF c, g
<1>5. Good(alone, {}) /\ Joins(c, g, m, alone) /\ ~alone.groups[g].forced_singleton
  BY <1>2, <1>4, Joining
<1>. HIDE DEF alone
<1>6. /\ S \subseteq Media /\ IsFiniteSet(S)
      /\ \A x \in S : /\ alone.media[x] # NoRow
                      /\ alone.groups[alone.media[x].group].forced_singleton
  <2>1. S \subseteq Media
    BY DEF fetchMatchingUngrouped
  <2>. QED  BY <2>1, Constants, FS_Subset DEF fetchMatchingUngrouped, Exists
<1>. HIDE DEF S
<1>7. m \notin S
  <2>1. alone.media[m].group = g
    BY <1>2, <1>4, <1>5 DEF Joins, MediaT, MediaRow
  <2>. QED  BY <1>5, <1>6, <2>1
<1>8. \A x \in S : alone.media[x] = media[x] /\ media[x] # NoRow /\ media[x].title \in Names
  <2>1. \A x \in S : alone.media[x] = media[x]
    BY <1>2, <1>4, <1>5, <1>6, <1>7 DEF Joins, MediaT
  <2>. QED  BY <1>2, <1>6, <2>1 DEF MediaT, MediaRow, Names
<1>9. name \in Names
  BY <1>2, <1>6, <1>8, PatternOfAll
<1>. HIDE DEF name
<1>10. \A x, acc : Step(k, x, acc) = AddTo(acc, g, x)
  BY DEF Step, AddTo
<1>. HIDE DEF k
<1>11. Bad = {}
  <2>. SUFFICES ASSUME Bad # {} PROVE FALSE
    OBVIOUS
  <2>1. PICK s \in Bad : \A u \in Bad : u \subseteq s => u = s
    <3>1. Bad \in SUBSET (SUBSET S)
      OBVIOUS
    <3>. HIDE DEF Bad
    <3>. QED  BY <1>6, <3>1, MinimalSubset
  <2>2. s \subseteq S /\ ~Gathering(S, g, s, Done(s))
    BY <2>1
  <2>3. Done(s) = IF s = {} THEN alone ELSE Step(k, Pick(s), Done(Rest(s)))
    BY <1>6, <2>2, FoldUnfolds DEF Unfolds
  <2>4. CASE s = {}
    <3>1. Gathering(S, g, s, alone)
      BY <1>5, <1>8 DEF Gathering, Joins
    <3>. QED  BY <2>2, <2>3, <2>4, <3>1
  <2>5. CASE s # {}
    <3>1. /\ Pick(s) \in S /\ Pick(s) \notin Rest(s) /\ s = Rest(s) \cup {Pick(s)}
          /\ Rest(s) \subseteq S /\ Rest(s) # s /\ Rest(s) \subseteq s
      BY <2>2, <2>5, Picked
    <3>2. Gathering(S, g, Rest(s), Done(Rest(s)))
      BY <2>1, <3>1
    <3>3. Done(s) = AddTo(Done(Rest(s)), g, Pick(s))
      BY <1>10, <2>3, <2>5
    <3>. HIDE DEF Done
    <3>4. Gathering(S, g, Rest(s) \cup {Pick(s)}, Done(s))
      BY <1>2, <1>6, <1>8, <3>1, <3>2, <3>3, GatheringOne DEF AddTo
    <3>. QED  BY <2>2, <3>1, <3>4
  <2>. QED  BY <2>4, <2>5
<1>12. Good(Done(S), {}) /\ Done(S).groups[g] # NoRow
  BY <1>11 DEF Gathering
<1>. HIDE DEF Done
<1>13. Good(Named(Done(S), g, name, FALSE), {})
  BY <1>2, <1>9, <1>12, Naming
<1>. QED  BY <1>1, <1>13 DEF Outcome


-----------------------------------------------------------------------------
(* What every step keeps.                                                  *)

LEMMA NextKeeps ==
    ASSUME IInv, Next
    PROVE  Outcome
<1>1. ASSUME NEW name \in Titles, createMediaGroup(name)
      PROVE  Outcome
  BY <1>1, GroupCreationKeeps
<1>2. ASSUME NEW S \in SUBSET Media, createMediaGroupOf(S)
      PROVE  Outcome
  BY <1>2, GroupCreationKeeps
<1>3. ASSUME NEW m \in Media, NEW g \in Groups, addToGroup(m, g)
      PROVE  Outcome
  BY <1>3, MembershipKeeps
<1>4. ASSUME NEW m \in Media, NEW title \in Titles, removeFromGroup(m, title)
      PROVE  Outcome
  BY <1>4, MembershipKeeps
<1>5. ASSUME NEW g \in Groups, NEW name \in Names, rename(g, name)
      PROVE  Outcome
  BY <1>5, RenameKeeps
<1>6. ASSUME NEW g \in Groups, destroy(g)
      PROVE  Outcome
  BY <1>6, DestroyKeeps
<1>7. ASSUME NEW m \in Media, NEW title \in Titles, regroup(m, title)
      PROVE  Outcome
  BY <1>7, RegroupKeeps
<1>8. ASSUME NEW m \in Media,
             \/ \E title \in Titles : setTitle(m, title)
             \/ \E type \in Types : setType(m, type)
             \/ \E played \in BOOLEAN : setPlayed(m, played)
             \/ \E duration \in Durations : setDuration(m, duration)
             \/ convertToExternal(m)
             \/ \E type \in Types, duration \in Durations :
                   overrideExternalMedia(m, type, duration)
             \/ \E present \in BOOLEAN : setPresent(m, present)
      PROVE  Outcome
  BY <1>8, SettersKeep
<1>9. ASSUME NEW m \in Media, NEW type \in Types, NEW title \in Titles,
             createMedia(m, type, title, 1)
      PROVE  Outcome
  BY <1>9, InsertKeeps
<1>10. ASSUME NEW m \in Media, NEW title \in Titles, assignMediaToGroup(m, title)
       PROVE  Outcome
  BY <1>10, AssignKeeps
<1>11. ASSUME NEW m \in Media, deleteMedia(m)
       PROVE  Outcome
  BY <1>11, DeleteKeeps
<1>. QED
  BY <1>1, <1>2, <1>3, <1>4, <1>5, <1>6, <1>7, <1>8, <1>9, <1>10, <1>11 DEF Next

Vanishing ==
    \A g \in Groups \ (lossy \cup lossy') : groups[g] # NoRow /\ Members(db, g) # {} =>
        (Members(db', g) = {} <=> groups'[g] = NoRow)

LEMMA StepKeeps ==
    ASSUME IInv, [Next]_vars
    PROVE  IInv' /\ [Vanishing]_vars
<1>1. CASE Next
  <2>1. PICK d : Good(d, {}) /\ \E isEdit \in BOOLEAN : Transaction(d, isEdit)
    BY <1>1, NextKeeps DEF Outcome
  <2>2. PICK isEdit \in BOOLEAN : Transaction(d, isEdit)
    BY <2>1
  <2>. QED  BY <2>1, <2>2, Committing DEF Vanishing
<1>2. CASE UNCHANGED vars
  <2>1. /\ media' = media /\ groups' = groups /\ lossy' = lossy /\ edits' = edits
        /\ borne' = borne /\ outdated' = outdated /\ db' = db
    BY <1>2 DEF vars, db
  <2>2. Sound(db') /\ \A k \in Groups \ lossy' : groups'[k] # NoRow =>
                         Exact(db', k, groups'[k]) /\ Single(db, k)'
    BY <2>1 DEF IInv, Single, Bears, Misnamed
  <2>3. (\A m \in Media : Exists(db, m) => media[m].title \in borne[m])'
    BY <2>1 DEF IInv, Exists
  <2>. QED  BY <1>2, <2>1, <2>2, <2>3 DEF IInv
<1>. QED  BY <1>1, <1>2

LEMMA Invariance == Spec => []IInv
<1>1. IInv /\ [Next]_vars => IInv'
  BY StepKeeps
<1>. QED  BY <1>1, InitIInv, PTL DEF Spec

-----------------------------------------------------------------------------
(* The theorems.                                                           *)

\* Every row keeps the columns of its schema, no counter is ever anything but a
\* number, and the group a media points at has its row.
THEOREM TypeCorrect == Spec => []TypeOK
<1>1. IInv => TypeOK
  <2>. SUFFICES ASSUME IInv PROVE TypeOK
    OBVIOUS
  <2>1. /\ media \in MediaT /\ groups \in GroupsT
        /\ \A m \in Media : Exists(db, m) /\ media[m].group # NoRow
                                => groups[media[m].group] # NoRow
    BY Rows
  <2>2. /\ borne \in [Media -> SUBSET Titles]
        /\ outdated \subseteq Groups /\ lossy \subseteq Groups /\ edits \in 0..MaxEdits
    BY DEF IInv
  <2>. QED  BY <2>1, <2>2 DEF TypeOK, MediaT, GroupsT
<1>. QED  BY <1>1, Invariance, PTL

\* When its last media leaves, or is deleted, or joins another group, a group that no
\* external media spoilt goes in the same step; and no step removes a group that still
\* has a media.
THEOREM EmptiedGroupsAlwaysVanish == Spec => EmptiedGroupsVanish
<1>1. IInv /\ [Next]_vars => [Vanishing]_vars
  BY StepKeeps
<1>2. Spec => [][Vanishing]_vars
  BY <1>1, Invariance, PTL DEF Spec
<1>. QED  BY <1>2 DEF EmptiedGroupsVanish, Vanishing

\* A media that was taken out of its group stays alone, whatever joins, leaves, is
\* renamed or regrouped around it; its group bears its title, unless it was named for
\* a title the media had lost since it was fetched, and then for one it had.
THEOREM SingletonsStayAlone == Spec => []SingletonsAreAlone
<1>1. IInv => SingletonsAreAlone
  <2>. SUFFICES ASSUME IInv, NEW g \in Groups, groups[g] # NoRow,
                       groups[g].forced_singleton, g \notin lossy
                PROVE  \E m \in Media : /\ Members(db, g) = {m} /\ groups[g].name \in borne[m]
                                        /\ g \notin outdated => groups[g].name = media[m].title
    BY DEF SingletonsAreAlone
  <2>1. Single(db, g) /\ db.media = media /\ db.groups = groups
    BY Rows DEF IInv
  <2>2. PICK m \in Media : Members(db, g) = {m} /\ Bears(db, g, m)
    BY <2>1 DEF Single
  <2>3. media[m].title \in borne[m]
    BY <2>2 DEF IInv, Members
  <2>. QED  BY <2>1, <2>2, <2>3 DEF Bears, Misnamed
<1>. QED  BY <1>1, Invariance, PTL


\* The folds of the properties are sums.
LEMMA DurationsAdd ==
    ASSUME media \in MediaT, NEW k
    PROVE  MapThenSumSet(LAMBDA m : media[m].duration, Members(db, k)) = Of(db, k, Lasting)
<1>. DEFINE S == Members(db, k)
            w == [m \in Media |-> media[m].duration]
            f == [kind |-> "sum", weight |-> w]
            body(iter) == [s \in SUBSET S |->
                IF s = {} THEN 0
                ELSE media[CHOOSE x \in s : TRUE].duration + iter[s \ {CHOOSE x \in s : TRUE}]]
<1>1. db.media = media /\ IsFiniteSet(S) /\ S \subseteq Media
  <2>1. S \subseteq Media
    BY DEF Members
  <2>. QED  BY <2>1, Constants, FS_Subset DEF db
<1>2. \A x \in S : w[x] = media[x].duration /\ w[x] = Weighted(db, Lasting)[x]
  <2>1. \A x \in S : media[x] \in MediaRow
    BY <1>1 DEF Members, Exists, MediaT
  <2>. QED  BY <1>1, <2>1 DEF Weighted, Lasting
<1>3. \A x, acc : Step(f, x, acc) = w[x] + acc
  BY DEF Step
<1>. HIDE DEF w, f
<1>4. \A iter : Iterates(f, 0, S, iter) <=> iter = body(iter)
  <2>1. \A s \in SUBSET S : s # {} => (CHOOSE x \in s : TRUE) \in S
    OBVIOUS
  <2>. HIDE DEF S
  <2>. QED  BY <1>2, <1>3, <2>1 DEF Iterates, Pick, Rest
<1>5. (CHOOSE iter : Iterates(f, 0, S, iter)) = (CHOOSE iter : iter = body(iter))
  <2>. HIDE DEF S, body
  <2>. QED  BY <1>4
<1>6. MapThenSumSet(LAMBDA m : media[m].duration, S) = (CHOOSE iter : iter = body(iter))[S]
  BY DEF MapThenSumSet, MapThenFoldSet
<1>. HIDE DEF S, body
<1>7. MapThenSumSet(LAMBDA m : media[m].duration, S) = Sum(w, S)
  BY <1>5, <1>6 DEF Fold, Sum, f
<1>8. Sum(w, S) = Sum(Weighted(db, Lasting), S)
  BY <1>1, <1>2, SumSame
<1>. QED  BY <1>7, <1>8 DEF Of, S

\* A group lasts as long as its media together, whatever external media came and went:
\* the triggers that keep its duration miss no change.
THEOREM DurationAlwaysTheSum == Spec => []DurationIsTheSum
<1>1. IInv => DurationIsTheSum
  <2>. SUFFICES ASSUME IInv, NEW g \in Groups, groups[g] # NoRow
                PROVE  groups[g].duration
                           = MapThenSumSet(LAMBDA m : media[m].duration, Members(db, g))
    BY DEF DurationIsTheSum
  <2>1. groups[g].duration = Of(db, g, Lasting) /\ media \in MediaT
    BY Rows DEF IInv, Sound, Counted
  <2>. QED  BY <2>1, DurationsAdd
<1>. QED  BY <1>1, Invariance, PTL


\* A counter of group g, and what a listing of its media of type t returns.
Nb(g, t, missing) == IF missing THEN groups[g].nb[t] ELSE groups[g].present[t]
Listed(g, t, missing) ==
    {m \in Members(db, g) : /\ media[m].internal /\ media[m].type = t
                            /\ missing \/ media[m].is_present}

LEMMA CountersCount ==
    ASSUME IInv, NEW g \in Groups \ lossy, groups[g] # NoRow
    PROVE  /\ \A t \in Types, missing \in BOOLEAN :
                 Nb(g, t, missing) = Cardinality(Listed(g, t, missing))
           /\ groups[g].seen = Cardinality({m \in Members(db, g) : media[m].played})
           /\ groups[g].external = Cardinality({m \in Members(db, g) : ~media[m].internal})
<1>. DEFINE Counting(a) == {m \in Members(db, g) : Counts(media[m], a)}
<1>1. /\ db.media = media /\ media \in MediaT /\ IsFiniteSet(Members(db, g))
      /\ \A m \in Members(db, g) : m \in Media /\ media[m] \in MediaRow
  <2>1. db.media = media /\ media \in MediaT
    BY Rows
  <2>2. IsFiniteSet(Members(db, g))
    BY Constants, FS_Subset DEF Members
  <2>. QED  BY <2>1, <2>2 DEF Members, Exists, MediaT
<1>2. ASSUME NEW a \in Aspects
      PROVE  Value(groups[g], a) = Cardinality(Counting(a))
  <2>. DEFINE w == Weighted(db, Weight(a))
  <2>1. Value(groups[g], a) = Sum(w, Members(db, g))
    BY DEF IInv, Exact, Of
  <2>2. \A m \in Members(db, g) : w[m] = Bit(Counts(media[m], a))
    BY <1>1 DEF Weighted, Weight
  <2>. HIDE DEF w
  <2>3. \A m \in Members(db, g) : w[m] \in {0, 1} /\ (w[m] = 1 <=> Counts(media[m], a))
    BY <2>2 DEF Bit
  <2>4. Sum(w, Members(db, g)) = Cardinality({m \in Members(db, g) : w[m] = 1})
    BY <1>1, <2>3, SumCounts
  <2>5. {m \in Members(db, g) : w[m] = 1} = Counting(a)
    BY <2>3
  <2>. QED  BY <2>1, <2>4, <2>5
<1>3. ASSUME NEW t \in Types, NEW missing \in BOOLEAN
      PROVE  Nb(g, t, missing) = Cardinality(Listed(g, t, missing))
  <2>. DEFINE a == [kind |-> IF missing THEN "nb" ELSE "present", type |-> t]
  <2>1. a \in Aspects
    BY DEF Aspects
  <2>2. Value(groups[g], a) = Nb(g, t, missing)
    BY DEF Value, Nb
  <2>3. Counting(a) = Listed(g, t, missing)
    BY DEF Counts, Listed
  <2>. HIDE DEF Counting, a
  <2>. QED  BY <1>2, <2>1, <2>2, <2>3
<1>4. ASSUME NEW kind \in {"seen", "external"}
      PROVE  Value(groups[g], [kind |-> kind, type |-> "Video"])
                 = Cardinality(Counting([kind |-> kind, type |-> "Video"]))
  <2>1. [kind |-> kind, type |-> "Video"] \in Aspects
    BY Constants DEF Aspects
  <2>. HIDE DEF Counting
  <2>. QED  BY <1>2, <2>1
<1>5. /\ groups[g].seen = Cardinality({m \in Members(db, g) : media[m].played})
      /\ groups[g].external = Cardinality({m \in Members(db, g) : ~media[m].internal})
  <2>1. /\ Counting([kind |-> "seen", type |-> "Video"])
               = {m \in Members(db, g) : media[m].played}
        /\ Counting([kind |-> "external", type |-> "Video"])
               = {m \in Members(db, g) : ~media[m].internal}
    BY DEF Counts
  <2>2. /\ Value(groups[g], [kind |-> "seen", type |-> "Video"]) = groups[g].seen
        /\ Value(groups[g], [kind |-> "external", type |-> "Video"]) = groups[g].external
    BY DEF Value
  <2>. HIDE DEF Counting
  <2>. QED  BY <1>4, <2>1, <2>2
<1>. QED  BY <1>3, <1>5

LEMMA TotalAdds ==
    ASSUME IInv, NEW g \in Groups, groups[g] # NoRow, NEW missing \in BOOLEAN
    PROVE  /\ \A t \in Types : Nb(g, t, missing) \in Int
           /\ Total(g, missing)
                  = Nb(g, "Video", missing)
                    + (Nb(g, "Unknown", missing)
                       + (IF "Audio" \in Types THEN Nb(g, "Audio", missing) ELSE 0))
<1>. DEFINE w == [t \in Types |-> Nb(g, t, missing)]
            f == [kind |-> "sum", weight |-> w]
            body(iter) == [s \in SUBSET Types |->
                IF s = {} THEN 0
                ELSE (IF missing THEN groups[g].nb[CHOOSE x \in s : TRUE]
                                 ELSE groups[g].present[CHOOSE x \in s : TRUE])
                     + iter[s \ {CHOOSE x \in s : TRUE}]]
<1>1. /\ \A t \in Types : Nb(g, t, missing) \in Int /\ w[t] = Nb(g, t, missing)
      /\ IsFiniteSet(Types)
  <2>1. groups[g] \in GroupRow
    BY Rows DEF GroupsT
  <2>2. IsFiniteSet(Types)
    <3>1. IsFiniteSet({"Video", "Audio", "Unknown"})
      <4>1. IsFiniteSet({}) /\ IsFiniteSet({} \cup {"Video"})
        BY FS_EmptySet, FS_AddElement
      <4>2. IsFiniteSet(({} \cup {"Video"}) \cup {"Audio"})
        BY <4>1, FS_AddElement
      <4>3. IsFiniteSet((({} \cup {"Video"}) \cup {"Audio"}) \cup {"Unknown"})
        BY <4>2, FS_AddElement
      <4>4. {"Video", "Audio", "Unknown"} = (({} \cup {"Video"}) \cup {"Audio"}) \cup {"Unknown"}
        OBVIOUS
      <4>. QED  BY <4>3, <4>4
    <3>. QED  BY <3>1, Constants, FS_Subset
  <2>. QED  BY <2>1, <2>2 DEF Nb, GroupRow
<1>2. \A x, acc : Step(f, x, acc) = w[x] + acc
  BY DEF Step
<1>. HIDE DEF w, f
<1>3. \A iter : Iterates(f, 0, Types, iter) <=> iter = body(iter)
  <2>1. \A s \in SUBSET Types : s # {} => (CHOOSE x \in s : TRUE) \in Types
    OBVIOUS
  <2>. QED  BY <1>1, <1>2, <2>1 DEF Iterates, Pick, Rest, Nb
<1>4. (CHOOSE iter : Iterates(f, 0, Types, iter)) = (CHOOSE iter : iter = body(iter))
  <2>. HIDE DEF body
  <2>. QED  BY <1>3
<1>5. Total(g, missing) = (CHOOSE iter : iter = body(iter))[Types]
  BY DEF Total, MapThenSumSet, MapThenFoldSet
<1>. HIDE DEF body
<1>6. Total(g, missing) = Sum(w, Types)
  BY <1>4, <1>5 DEF Fold, Sum, f
<1>. DEFINE some == Types \ {"Video"}
            rest == some \ {"Unknown"}
<1>7. /\ Sum(w, Types) = w["Video"] + Sum(w, some)
      /\ Sum(w, some) = w["Unknown"] + Sum(w, rest)
      /\ IsFiniteSet(rest)
  <2>1. IsFiniteSet(some) /\ IsFiniteSet(rest) /\ "Unknown" \in some
    BY <1>1, Constants, FS_Subset
  <2>2. /\ \A t \in Types : w[t] \in Int
        /\ \A t \in some : w[t] \in Int
    BY <1>1
  <2>3. Sum(w, Types) = w["Video"] + Sum(w, some)
    BY <1>1, <2>2, Constants, SumRemove
  <2>4. Sum(w, some) = w["Unknown"] + Sum(w, some \ {"Unknown"})
    <3>. HIDE DEF some
    <3>. QED  BY <2>1, <2>2, SumRemove
  <2>. QED  BY <2>1, <2>3, <2>4
<1>8. Sum(w, rest) = IF "Audio" \in Types THEN Nb(g, "Audio", missing) ELSE 0
  <2>1. Sum(w, {}) = 0
    BY FS_EmptySet, SumUnfolds
  <2>2. CASE "Audio" \in Types
    <3>1. rest = {"Audio"}
      BY <2>2, Constants
    <3>2. Sum(w, rest) = w["Audio"] + Sum(w, rest \ {"Audio"})
      <4>1. \A t \in rest : w[t] \in Int
        BY <1>1
      <4>2. "Audio" \in rest
        BY <3>1
      <4>. HIDE DEF rest
      <4>. QED  BY <1>7, <4>1, <4>2, SumRemove
    <3>3. rest \ {"Audio"} = {}
      BY <3>1
    <3>4. w["Audio"] \in Int /\ w["Audio"] = Nb(g, "Audio", missing)
      BY <1>1, <2>2
    <3>. HIDE DEF rest
    <3>. QED  BY <2>1, <2>2, <3>2, <3>3, <3>4
  <2>3. CASE "Audio" \notin Types
    <3>1. rest = {}
      BY <2>3, Constants
    <3>. QED  BY <2>1, <2>3, <3>1
  <2>. QED  BY <2>2, <2>3
<1>. HIDE DEF some, rest
<1>. QED  BY <1>1, <1>6, <1>7, <1>8, Constants


\* A listing of every type is made of those of each.
LEMMA ListingsSplit ==
    ASSUME IInv, NEW g \in Groups, NEW missing \in BOOLEAN
    PROVE  /\ \A t \in Types :
                 /\ IsFiniteSet(Listed(g, t, missing))
                 /\ t # "Unknown" => fromMediaGroup(g, t, missing) = Listed(g, t, missing)
           /\ fromMediaGroup(g, AllTypes, missing) = UNION {Listed(g, t, missing) : t \in Types}
           /\ Cardinality(fromMediaGroup(g, AllTypes, missing))
                  = Cardinality(Listed(g, "Video", missing))
                    + (Cardinality(Listed(g, "Unknown", missing))
                       + (IF "Audio" \in Types THEN Cardinality(Listed(g, "Audio", missing))
                          ELSE 0))
<1>. DEFINE L(t) == Listed(g, t, missing)
            all == fromMediaGroup(g, AllTypes, missing)
<1>1. \A m \in Members(db, g) : m \in Media /\ media[m].type \in Types
  BY Rows DEF Members, Exists, MediaRow
<1>2. \A t : IsFiniteSet(L(t)) /\ Cardinality(L(t)) \in Nat
  <2>1. \A t : L(t) \subseteq Media
    BY <1>1 DEF Listed
  <2>2. \A t : IsFiniteSet(L(t))
    <3>. HIDE DEF L
    <3>. QED  BY <2>1, Constants, FS_Subset
  <2>. HIDE DEF L
  <2>. QED  BY <2>2, FS_CardinalityType
<1>3. \A t \in Types : t # "Unknown" => fromMediaGroup(g, t, missing) = L(t)
  BY DEF fromMediaGroup, Listed, AllTypes, Unknown
<1>4. all = UNION {L(t) : t \in Types}
  BY <1>1 DEF fromMediaGroup, Listed, AllTypes, Unknown
<1>5. \A s, t : s # t => L(s) \cap L(t) = {}
  BY DEF Listed
<1>. HIDE DEF L, all
<1>. DEFINE vu == L("Video") \cup L("Unknown")
<1>6. IsFiniteSet(vu) /\ Cardinality(vu) = Cardinality(L("Video")) + Cardinality(L("Unknown"))
  <2>1. Cardinality(L("Video") \cap L("Unknown")) = 0
    BY <1>5, FS_EmptySet
  <2>2. /\ IsFiniteSet(L("Video")) /\ Cardinality(L("Video")) \in Nat
        /\ IsFiniteSet(L("Unknown")) /\ Cardinality(L("Unknown")) \in Nat
    BY <1>2
  <2>3. /\ IsFiniteSet(vu)
        /\ Cardinality(vu) = Cardinality(L("Video")) + Cardinality(L("Unknown"))
                                 - Cardinality(L("Video") \cap L("Unknown"))
    BY <2>2, FS_Union
  <2>. QED  BY <2>1, <2>2, <2>3
<1>7. CASE "Audio" \in Types
  <2>1. all = vu \cup L("Audio") /\ vu \cap L("Audio") = {}
    BY <1>4, <1>5, <1>7, Constants
  <2>2. Cardinality(vu \cap L("Audio")) = 0
    BY <2>1, FS_EmptySet
  <2>. HIDE DEF vu
  <2>3. Cardinality(all) = Cardinality(vu) + Cardinality(L("Audio")) - 0
    BY <1>2, <1>6, <2>1, <2>2, FS_Union
  <2>4. Cardinality(all) = Cardinality(L("Video"))
                               + (Cardinality(L("Unknown")) + Cardinality(L("Audio")))
    BY <1>2, <1>6, <2>3
  <2>. QED  BY <1>2, <1>3, <1>4, <1>7, <2>4 DEF L, all
<1>8. CASE "Audio" \notin Types
  <2>1. all = vu
    BY <1>4, <1>8, Constants
  <2>2. Cardinality(all) = Cardinality(L("Video")) + (Cardinality(L("Unknown")) + 0)
    BY <1>2, <1>6, <2>1
  <2>. QED  BY <1>2, <1>3, <1>4, <1>8, <2>2 DEF L, all
<1>. QED  BY <1>7, <1>8

\* Unless an external media spoilt it, a group's counters are the lengths of its
\* listings, present or not, and it is listed when it has something to show: every
\* trigger that touches a counter counts a media when it comes as when it goes.
THEOREM CountersAlwaysMatch == Spec => []CountersMatchListings
<1>1. ASSUME IInv, NEW g \in Groups \ lossy, groups[g] # NoRow
      PROVE  /\ \A t \in Types \ {Unknown} :
                   /\ groups[g].nb[t] = Cardinality(fromMediaGroup(g, t, TRUE))
                   /\ groups[g].present[t] = Cardinality(fromMediaGroup(g, t, FALSE))
             /\ \A missing \in BOOLEAN :
                   /\ Total(g, missing) = Cardinality(fromMediaGroup(g, AllTypes, missing))
                   /\ g \in listAll(AllTypes, missing)
                          <=> fromMediaGroup(g, AllTypes, missing) # {}
                   /\ g \in listAll(Video, missing) <=> fromMediaGroup(g, Video, missing) # {}
  <2>1. \A t \in Types, missing \in BOOLEAN :
            /\ Nb(g, t, missing) = Cardinality(Listed(g, t, missing))
            /\ IsFiniteSet(Listed(g, t, missing))
            /\ t # "Unknown" => fromMediaGroup(g, t, missing) = Listed(g, t, missing)
    BY <1>1, CountersCount, ListingsSplit
  <2>2. \A t \in Types \ {Unknown} :
            /\ groups[g].nb[t] = Cardinality(fromMediaGroup(g, t, TRUE))
            /\ groups[g].present[t] = Cardinality(fromMediaGroup(g, t, FALSE))
    BY <2>1 DEF Nb, Unknown
  <2>3. ASSUME NEW missing \in BOOLEAN
        PROVE  Total(g, missing) = Cardinality(fromMediaGroup(g, AllTypes, missing))
    <3>1. /\ Nb(g, "Video", missing) = Cardinality(Listed(g, "Video", missing))
          /\ Nb(g, "Unknown", missing) = Cardinality(Listed(g, "Unknown", missing))
          /\ "Audio" \in Types =>
                Nb(g, "Audio", missing) = Cardinality(Listed(g, "Audio", missing))
      BY <2>1, Constants
    <3>2. Total(g, missing)
              = Nb(g, "Video", missing)
                + (Nb(g, "Unknown", missing)
                   + (IF "Audio" \in Types THEN Nb(g, "Audio", missing) ELSE 0))
      BY <1>1, TotalAdds
    <3>3. Cardinality(fromMediaGroup(g, AllTypes, missing))
              = Cardinality(Listed(g, "Video", missing))
                + (Cardinality(Listed(g, "Unknown", missing))
                   + (IF "Audio" \in Types THEN Cardinality(Listed(g, "Audio", missing))
                      ELSE 0))
      BY <1>1, ListingsSplit
    <3>. QED  BY <3>1, <3>2, <3>3
  <2>4. ASSUME NEW missing \in BOOLEAN, NEW t \in Types
        PROVE  Nb(g, t, missing) > 0 <=> Listed(g, t, missing) # {}
    <3>1. /\ Cardinality(Listed(g, t, missing)) \in Nat
          /\ Cardinality(Listed(g, t, missing)) = 0 <=> Listed(g, t, missing) = {}
      BY <2>1, FS_CardinalityType, FS_EmptySet
    <3>. QED  BY <2>1, <3>1
  <2>5. ASSUME NEW missing \in BOOLEAN, NEW type \in {"Video", "Unknown"}
        PROVE  g \in listAll(type, missing)
                   <=> \E t \in Types : (type = "Unknown" \/ t = type) /\ Nb(g, t, missing) > 0
    BY <1>1 DEF listAll, Nb, AllTypes, Unknown
  <2>6. ASSUME NEW missing \in BOOLEAN
        PROVE  /\ g \in listAll(AllTypes, missing)
                      <=> fromMediaGroup(g, AllTypes, missing) # {}
               /\ g \in listAll(Video, missing) <=> fromMediaGroup(g, Video, missing) # {}
    <3>1. fromMediaGroup(g, AllTypes, missing) = UNION {Listed(g, t, missing) : t \in Types}
      BY <1>1, ListingsSplit
    <3>2. g \in listAll("Unknown", missing) <=> \E t \in Types : Listed(g, t, missing) # {}
      BY <2>4, <2>5
    <3>3. g \in listAll("Video", missing) <=> Listed(g, "Video", missing) # {}
      BY <2>4, <2>5, Constants
    <3>4. fromMediaGroup(g, "Video", missing) = Listed(g, "Video", missing)
      BY <2>1, Constants
    <3>5. UNION {Listed(g, t, missing) : t \in Types} # {}
              <=> \E t \in Types : Listed(g, t, missing) # {}
      OBVIOUS
    <3>. QED  BY <3>1, <3>2, <3>3, <3>4, <3>5 DEF AllTypes, Unknown, Video
  <2>. QED  BY <2>2, <2>3, <2>6
<1>2. IInv => CountersMatchListings
  BY <1>1, CountersCount DEF CountersMatchListings
<1>. QED  BY <1>2, Invariance, PTL

=============================================================================
