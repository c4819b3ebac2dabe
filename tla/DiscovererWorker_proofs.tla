----------------------- MODULE DiscovererWorker_proofs -----------------------
(***************************************************************************)
(* The task list of the discoverer, for any roots and any calls: its types,*)
(* that no Reload is before a short task, that no scan is lost and that a  *)
(* ban that came last holds.                                               *)
(***************************************************************************)
EXTENDS DiscovererWorker, FiniteSetTheorems, WellFoundedInduction, TLAPS

(* The inductive invariant.                                                *)

Is(root, type) == [root |-> root, type |-> type]
IsIn(t, q) == \E i \in DOMAIN q : q[i] = t

\* A task that waits, the current one before it begins.
Waits(t) == IsIn(t, m_tasks)
Begins(t) == m_currentTask = t /\ pc \in {"taken", "run"}
Has(t) == Waits(t) \/ Begins(t)

Scanning == {"scanning", "paused", "resumed"}

\* stop() has not been called.
Live == m_run \/ pc = "unstarted"

\* The tasks on a root, on a device; a removal or an unban has been asked for.
WellFormed(t) ==
    /\ t.type \in Short \ {"ReloadDevice"} => t.root \in Root
    /\ t.type = "ReloadDevice" <=> t.root = Device
    /\ t.type \in {"Remove", "Unban"} => t.root \in contested

TasksOK ==
    /\ \A i \in DOMAIN m_tasks : WellFormed(m_tasks[i])
    /\ m_currentTask # NoTask => WellFormed(m_currentTask)

\* What a Reload has left to scan is what it is about; only ReloadDevice goes from
\* root to root.
BatchCovered ==
    /\ pc \in Scanning /\ isLongRunning(m_currentTask) =>
           \A r \in batch : Covers(m_currentTask.root, r)
    /\ pc = "device" => ~isLongRunning(m_currentTask)

\* The root will be scanned, whether it is known now or not; or its ban is to come.
Backed(r) == r \in discovering \/ Waits(Is(r, "Reload")) \/ Has(Is(r, "Ban"))

\* The root, that is known, will be scanned.
Pending(r) ==
    \/ Backed(r) \/ Has(Is(r, "Reload")) \/ Has(Is(All, "Reload"))
    \/ r \in Removable /\ Has(Is(Device, "ReloadDevice"))
    \/ r \in onDevice /\ pc \in Scanning \cup {"device"} /\ ~isLongRunning(m_currentTask)
    \/ r \in batch /\ pc \in Scanning /\ ~m_isInterrupted

\* A scan that was asked for is pending; so it is for a root about to be added.
DueOK(r) ==
    due[r] => /\ folders[r] = "root" => Pending(r)
              /\ folders[r] = "absent" /\ Has(Is(r, "AddRoot")) => Backed(r)

ScansOK == Live => \A r \in Root \ contested : DueOK(r)

\* A ban that came last holds or is to come, and no unban is to follow it.
BanOK(r) ==
    /\ ~(Waits(Is(r, "Ban")) /\ Waits(Is(r, "Unban")))
    /\ wish[r] = "Ban" =>
           /\ folders[r] = "banned" \/ Has(Is(r, "Ban"))
           /\ ~Waits(Is(r, "Unban"))
           /\ Begins(Is(r, "Unban")) => Waits(Is(r, "Ban"))

BansOK == \A r \in Root : BanOK(r)

Sorted(q) ==
    \A i, j \in DOMAIN q : i < j /\ isLongRunning(q[i]) => isLongRunning(q[j])

Order == TypeOK /\ Sorted(m_tasks)

IInv == Order /\ TasksOK /\ BatchCovered /\ ScansOK /\ BansOK

-----------------------------------------------------------------------------
(* Sequences of tasks.                                                     *)

LEMMA LeastNatural ==
    ASSUME NEW S \in SUBSET Nat, S # {}
    PROVE  \E m \in S : \A n \in S : m <= n
<1>. DEFINE R == OpToRel(<, Nat)
<1>1. IsWellFoundedOn(R, Nat)
  BY NatLessThanWellFounded
<1>2. \A x, y \in Nat : x < y => <<x, y>> \in R
  BY DEF OpToRel
<1>. HIDE DEF R
<1>3. \E m \in S : \A n \in S : ~ (<<n, m>> \in R)
  BY <1>1, WFMin
<1>4. PICK m \in S : \A n \in S : ~ (<<n, m>> \in R)
  BY <1>3
<1>5. m \in Nat /\ \A n \in S : n \in Nat /\ ~(n < m)
  BY <1>2, <1>4
<1>. QED  BY <1>5

\* What a concatenation holds.
LEMMA Concatenation ==
    ASSUME NEW p \in Seq(Task), NEW q \in Seq(Task)
    PROVE  /\ p \o q \in Seq(Task)
           /\ \A t : IsIn(t, p \o q) <=> IsIn(t, p) \/ IsIn(t, q)
<1>1. /\ Len(p \o q) = Len(p) + Len(q) /\ Len(p) \in Nat /\ Len(q) \in Nat
      /\ DOMAIN (p \o q) = 1..(Len(p) + Len(q))
      /\ DOMAIN p = 1..Len(p) /\ DOMAIN q = 1..Len(q)
  OBVIOUS
<1>2. \A i \in DOMAIN p : i \in DOMAIN (p \o q) /\ (p \o q)[i] = p[i]
  OBVIOUS
<1>3. \A i \in DOMAIN q : i + Len(p) \in DOMAIN (p \o q) /\ (p \o q)[i + Len(p)] = q[i]
  OBVIOUS
<1>4. ASSUME NEW i \in DOMAIN (p \o q), i \notin DOMAIN p
      PROVE  i - Len(p) \in DOMAIN q /\ (p \o q)[i] = q[i - Len(p)]
  BY <1>1, <1>4
<1>5. p \o q \in Seq(Task)
  OBVIOUS
<1>6. \A t : IsIn(t, p \o q) <=> IsIn(t, p) \/ IsIn(t, q)
  BY <1>2, <1>3, <1>4 DEF IsIn
<1>. QED  BY <1>5, <1>6

LEMMA SortedConcatenation ==
    ASSUME NEW p \in Seq(Task), NEW q \in Seq(Task), Sorted(p), Sorted(q),
           \/ \A t : IsIn(t, p) => ~isLongRunning(t)
           \/ \A t : IsIn(t, q) => isLongRunning(t)
    PROVE  Sorted(p \o q)
<1>1. /\ Len(p) \in Nat /\ Len(q) \in Nat
      /\ DOMAIN (p \o q) = 1..(Len(p) + Len(q))
      /\ DOMAIN p = 1..Len(p) /\ DOMAIN q = 1..Len(q)
  OBVIOUS
<1>2. \A i \in DOMAIN p : (p \o q)[i] = p[i]
  OBVIOUS
<1>3. ASSUME NEW i \in DOMAIN (p \o q), i \notin DOMAIN p
      PROVE  i - Len(p) \in DOMAIN q /\ (p \o q)[i] = q[i - Len(p)]
  BY <1>1, <1>3
<1>4. ASSUME NEW i \in DOMAIN (p \o q), NEW j \in DOMAIN (p \o q), i < j,
             isLongRunning((p \o q)[i])
      PROVE  isLongRunning((p \o q)[j])
  <2>1. CASE j \in DOMAIN p
    <3>1. i \in DOMAIN p
      BY <1>1, <1>4, <2>1
    <3>. QED  BY <1>2, <1>4, <2>1, <3>1 DEF Sorted
  <2>2. CASE i \notin DOMAIN p
    <3>1. j \notin DOMAIN p
      BY <1>1, <1>4, <2>2
    <3>2. i - Len(p) < j - Len(p)
      BY <1>1, <1>4
    <3>. HIDE DEF isLongRunning
    <3>. QED  BY <1>3, <1>4, <2>2, <3>1, <3>2 DEF Sorted
  <2>3. CASE i \in DOMAIN p /\ j \notin DOMAIN p
    <3>1. IsIn((p \o q)[i], p) /\ IsIn((p \o q)[j], q)
      BY <1>2, <1>3, <2>3 DEF IsIn
    <3>. QED  BY <1>4, <3>1
  <2>. QED  BY <2>1, <2>2, <2>3
<1>. QED  BY <1>4 DEF Sorted

LEMMA Appended ==
    ASSUME NEW p \in Seq(Task), NEW k \in Task
    PROVE  \A t : IsIn(t, Append(p, k)) <=> IsIn(t, p) \/ t = k
<1>1. /\ Len(p) + 1 \in DOMAIN Append(p, k) /\ Append(p, k)[Len(p) + 1] = k
      /\ \A i \in DOMAIN p : i \in DOMAIN Append(p, k) /\ Append(p, k)[i] = p[i]
      /\ \A i \in DOMAIN Append(p, k) : i \in DOMAIN p \/ Append(p, k)[i] = k
  OBVIOUS
<1>. QED  BY <1>1 DEF IsIn

\* A part of a sequence.
LEMMA Part ==
    ASSUME NEW q \in Seq(Task), NEW a \in 1..(Len(q) + 1), NEW b \in 0..Len(q)
    PROVE  /\ SubSeq(q, a, b) \in Seq(Task)
           /\ \A t : IsIn(t, SubSeq(q, a, b)) <=> \E i \in a..b : q[i] = t
           /\ Sorted(q) => Sorted(SubSeq(q, a, b))
<1>. DEFINE s == SubSeq(q, a, b)
            n == IF a <= b THEN b - a + 1 ELSE 0
<1>1. s \in Seq(Task) /\ Len(s) = n /\ DOMAIN s = 1..n /\ Len(q) \in Nat /\ DOMAIN q = 1..Len(q)
  OBVIOUS
<1>2. \A i \in 1..n : s[i] = q[a + i - 1] /\ a + i - 1 \in a..b /\ a + i - 1 \in DOMAIN q
  OBVIOUS
<1>3. \A i \in a..b : i - a + 1 \in 1..n /\ s[i - a + 1] = q[i]
  OBVIOUS
<1>. HIDE DEF s, n
<1>4. \A t : IsIn(t, s) <=> \E i \in a..b : q[i] = t
  BY <1>1, <1>2, <1>3 DEF IsIn
<1>5. Sorted(q) => Sorted(s)
  <2>. SUFFICES ASSUME Sorted(q), NEW i \in 1..n, NEW j \in 1..n, i < j, isLongRunning(s[i])
                PROVE  isLongRunning(s[j])
    BY <1>1 DEF Sorted
  <2>1. /\ s[i] = q[a + i - 1] /\ s[j] = q[a + j - 1]
        /\ a + i - 1 \in DOMAIN q /\ a + j - 1 \in DOMAIN q
    BY <1>2
  <2>2. a + i - 1 < a + j - 1
    BY <1>1
  <2>. QED  BY <2>1, <2>2 DEF Sorted
<1>. QED  BY <1>1, <1>4, <1>5 DEF s

LEMMA Single ==
    ASSUME NEW t \in Task
    PROVE  <<t>> \in Seq(Task) /\ Sorted(<<t>>) /\ \A u : IsIn(u, <<t>>) <=> u = t
BY DEF Sorted, IsIn

LEMMA NoTasks == <<>> \in Seq(Task) /\ Sorted(<<>>) /\ \A u : ~IsIn(u, <<>>)
BY DEF Sorted, IsIn

-----------------------------------------------------------------------------
(* filter().                                                               *)

\* f is what Spared computes, up to n.
Spares(t, n, f) ==
    f = [i \in 0..n |-> IF i = 0 THEN <<>>
                        ELSE IF IsCancelled(t, m_tasks[i]) THEN f[i - 1]
                        ELSE Append(f[i - 1], m_tasks[i])]

LEMMA SparedDef == ASSUME NEW t, NEW n PROVE Spared(t, n) = (CHOOSE f : Spares(t, n, f))[n]
BY DEF Spared, Spares

LEMMA SparesSome == ASSUME NEW t, NEW n \in Nat PROVE \E f : Spares(t, n, f)
<1>. DEFINE Bad == {i \in Nat : ~ \E f : Spares(t, i, f)}
<1>. SUFFICES ASSUME Bad # {} PROVE FALSE
  OBVIOUS
<1>1. PICK m \in Bad : \A i \in Bad : m <= i
  <2>1. Bad \in SUBSET Nat
    OBVIOUS
  <2>. HIDE DEF Bad
  <2>. QED  BY <2>1, LeastNatural
<1>2. CASE m = 0
  <2>1. Spares(t, 0, [i \in 0..0 |-> <<>>])
    BY DEF Spares
  <2>. QED  BY <1>2, <2>1
<1>3. CASE m # 0
  <2>1. m - 1 \in Nat /\ m - 1 \notin Bad
    BY <1>1, <1>3
  <2>2. PICK f : Spares(t, m - 1, f)
    BY <2>1
  <2>. DEFINE last == IF IsCancelled(t, m_tasks[m]) THEN f[m - 1] ELSE Append(f[m - 1], m_tasks[m])
              g == [i \in 0..m |-> IF i = m THEN last ELSE f[i]]
  <2>3. \A i \in 0..(m - 1) : f[i] = IF i = 0 THEN <<>>
                                     ELSE IF IsCancelled(t, m_tasks[i]) THEN f[i - 1]
                                     ELSE Append(f[i - 1], m_tasks[i])
    BY <2>2 DEF Spares
  <2>. HIDE DEF last
  <2>4. \A i \in 0..m : g[i] = IF i = m THEN last ELSE f[i]
    OBVIOUS
  <2>5. \A i \in 0..m : g[i] = IF i = 0 THEN <<>>
                               ELSE IF IsCancelled(t, m_tasks[i]) THEN g[i - 1]
                               ELSE Append(g[i - 1], m_tasks[i])
    <3>1. ASSUME NEW i \in 0..m, i = m
          PROVE  g[i] = IF IsCancelled(t, m_tasks[i]) THEN g[i - 1]
                        ELSE Append(g[i - 1], m_tasks[i])
      <4>1. g[m] = last /\ g[m - 1] = f[m - 1]
        BY <2>1, <2>4
      <4>. QED  BY <3>1, <4>1 DEF last
    <3>2. ASSUME NEW i \in 0..m, i # m, i # 0
          PROVE  i \in 0..(m - 1) /\ g[i] = f[i] /\ g[i - 1] = f[i - 1]
      <4>1. i - 1 \in 0..m /\ i - 1 # m /\ i \in 0..(m - 1)
        BY <3>2
      <4>. QED  BY <3>2, <4>1, <2>4
    <3>3. g[0] = <<>>
      BY <1>3, <2>1, <2>3, <2>4
    <3>. HIDE DEF g
    <3>. QED  BY <1>3, <2>3, <3>1, <3>2, <3>3
  <2>6. Spares(t, m, g)
    <3>1. g = [i \in 0..m |-> g[i]]
      OBVIOUS
    <3>. HIDE DEF g
    <3>. QED  BY <2>5, <3>1 DEF Spares
  <2>. QED  BY <2>6
<1>. QED  BY <1>2, <1>3

LEMMA SparesOne ==
    ASSUME NEW t, NEW n \in Nat, NEW m \in Nat, NEW f, NEW g,
           Spares(t, n, f), Spares(t, m, g)
    PROVE  \A i \in Nat : i <= n /\ i <= m => f[i] = g[i]
<1>. DEFINE Bad == {i \in Nat : i <= n /\ i <= m /\ f[i] # g[i]}
<1>. SUFFICES ASSUME Bad # {} PROVE FALSE
  OBVIOUS
<1>1. PICK k \in Bad : \A i \in Bad : k <= i
  <2>1. Bad \in SUBSET Nat
    OBVIOUS
  <2>. HIDE DEF Bad
  <2>. QED  BY <2>1, LeastNatural
<1>2. \A i \in 0..n : f[i] = IF i = 0 THEN <<>>
                             ELSE IF IsCancelled(t, m_tasks[i]) THEN f[i - 1]
                             ELSE Append(f[i - 1], m_tasks[i])
  BY DEF Spares
<1>3. \A i \in 0..m : g[i] = IF i = 0 THEN <<>>
                             ELSE IF IsCancelled(t, m_tasks[i]) THEN g[i - 1]
                             ELSE Append(g[i - 1], m_tasks[i])
  BY DEF Spares
<1>4. k \in 0..n /\ k \in 0..m /\ f[k] # g[k]
  BY <1>1
<1>5. k # 0
  BY <1>2, <1>3, <1>4
<1>6. f[k - 1] = g[k - 1]
  BY <1>1, <1>4, <1>5
<1>. QED  BY <1>2, <1>3, <1>4, <1>5, <1>6

LEMMA SparedUnfolds ==
    ASSUME NEW t, NEW n \in Nat
    PROVE  /\ Spared(t, 0) = <<>>
           /\ n > 0 => Spared(t, n) = IF IsCancelled(t, m_tasks[n]) THEN Spared(t, n - 1)
                                      ELSE Append(Spared(t, n - 1), m_tasks[n])
<1>. DEFINE f(i) == CHOOSE g : Spares(t, i, g)
<1>1. \A i \in Nat : Spares(t, i, f(i)) /\ Spared(t, i) = f(i)[i]
  BY SparesSome, SparedDef
<1>2. Spared(t, 0) = <<>>
  <2>1. Spares(t, 0, f(0)) /\ Spared(t, 0) = f(0)[0]
    BY <1>1
  <2>. HIDE DEF f
  <2>. QED  BY <2>1 DEF Spares
<1>3. ASSUME n > 0
      PROVE  Spared(t, n) = IF IsCancelled(t, m_tasks[n]) THEN Spared(t, n - 1)
                            ELSE Append(Spared(t, n - 1), m_tasks[n])
  <2>. DEFINE F == f(n)
              G == f(n - 1)
  <2>1. n - 1 \in Nat /\ n - 1 <= n
    BY <1>3
  <2>2. /\ Spares(t, n, F) /\ Spares(t, n - 1, G)
        /\ Spared(t, n) = F[n] /\ Spared(t, n - 1) = G[n - 1]
    BY <1>1, <2>1
  <2>. HIDE DEF F, G
  <2>3. F[n - 1] = G[n - 1]
    BY <2>1, <2>2, SparesOne
  <2>4. F[n] = IF IsCancelled(t, m_tasks[n]) THEN F[n - 1] ELSE Append(F[n - 1], m_tasks[n])
    <3>1. n \in 0..n /\ n # 0
      BY <1>3
    <3>. QED  BY <2>2, <3>1 DEF Spares
  <2>. QED  BY <2>2, <2>3, <2>4
<1>. QED  BY <1>2, <1>3

\* The tasks that are left, in the same order.
SparedOK(t, n) ==
    LET s == Spared(t, n)
    IN  /\ s \in Seq(Task)
        /\ \A u : IsIn(u, s) => ~IsCancelled(t, u) /\ \E j \in 1..n : m_tasks[j] = u
        /\ \A j \in 1..n : IsCancelled(t, m_tasks[j]) \/ IsIn(m_tasks[j], s)
        /\ Sorted(m_tasks) => Sorted(s)

LEMMA SparedTasks ==
    ASSUME NEW t, m_tasks \in Seq(Task)
    PROVE  \A n \in 0..Len(m_tasks) : SparedOK(t, n)
<1>. DEFINE Bad == {n \in Nat : n <= Len(m_tasks) /\ ~SparedOK(t, n)}
<1>0. Len(m_tasks) \in Nat /\ DOMAIN m_tasks = 1..Len(m_tasks)
  OBVIOUS
<1>. SUFFICES ASSUME Bad # {} PROVE FALSE
  BY <1>0
<1>1. PICK n \in Bad : \A i \in Bad : n <= i
  <2>1. Bad \in SUBSET Nat
    OBVIOUS
  <2>. HIDE DEF Bad
  <2>. QED  BY <2>1, LeastNatural
<1>2. CASE n = 0
  <2>1. Spared(t, 0) = <<>>
    BY SparedUnfolds
  <2>2. 1..0 = {}
    OBVIOUS
  <2>3. SparedOK(t, 0)
    BY <2>1, <2>2, NoTasks DEF SparedOK
  <2>. QED  BY <1>1, <1>2, <2>3
<1>3. CASE n > 0
  <2>. DEFINE s == Spared(t, n)
              p == Spared(t, n - 1)
              k == m_tasks[n]
  <2>1. /\ n - 1 \in Nat /\ n \in DOMAIN m_tasks /\ k \in Task
        /\ SparedOK(t, n - 1)
    BY <1>0, <1>1, <1>3
  <2>2. /\ p \in Seq(Task)
        /\ \A u : IsIn(u, p) => ~IsCancelled(t, u) /\ \E j \in 1..(n - 1) : m_tasks[j] = u
        /\ \A j \in 1..(n - 1) : IsCancelled(t, m_tasks[j]) \/ IsIn(m_tasks[j], p)
        /\ Sorted(m_tasks) => Sorted(p)
    BY <2>1 DEF SparedOK
  <2>3. s = IF IsCancelled(t, k) THEN p ELSE Append(p, k)
    BY <1>1, <1>3, SparedUnfolds
  <2>. HIDE DEF s, p
  <2>4. \A j \in 1..n : j = n \/ j \in 1..(n - 1)
    BY <2>1
  <2>5. CASE IsCancelled(t, k)
    <3>1. s = p
      BY <2>3, <2>5
    <3>. QED  BY <1>1, <2>1, <2>2, <2>4, <2>5, <3>1 DEF SparedOK, s
  <2>6. CASE ~IsCancelled(t, k)
    <3>1. /\ s = Append(p, k) /\ s \in Seq(Task) /\ Len(s) = Len(p) + 1 /\ Len(p) \in Nat
          /\ DOMAIN s = 1..(Len(p) + 1) /\ DOMAIN p = 1..Len(p) /\ s[Len(p) + 1] = k
          /\ \A i \in DOMAIN p : s[i] = p[i]
      BY <2>1, <2>2, <2>3, <2>6
    <3>2. \A u : IsIn(u, s) <=> IsIn(u, p) \/ u = k
      BY <2>1, <2>2, <2>3, <2>6, Appended
    <3>3. /\ \A u : IsIn(u, s) => ~IsCancelled(t, u) /\ \E j \in 1..n : m_tasks[j] = u
          /\ \A j \in 1..n : IsCancelled(t, m_tasks[j]) \/ IsIn(m_tasks[j], s)
      <4>1. 1..(n - 1) \subseteq 1..n /\ n \in 1..n
        BY <1>1, <2>1
      <4>. QED  BY <2>2, <2>4, <2>6, <3>2, <4>1
    <3>4. ASSUME Sorted(m_tasks), NEW i \in DOMAIN s, NEW j \in DOMAIN s, i < j,
                 isLongRunning(s[i])
          PROVE  isLongRunning(s[j])
      <4>1. i \in DOMAIN p /\ s[i] = p[i]
        BY <3>1, <3>4
      <4>2. CASE j \in DOMAIN p
        BY <2>2, <3>1, <3>4, <4>1, <4>2 DEF Sorted
      <4>3. CASE j \notin DOMAIN p
        <5>1. s[j] = k
          BY <3>1, <3>4, <4>3
        <5>2. PICK a \in 1..(n - 1) : m_tasks[a] = p[i]
          BY <2>2, <4>1 DEF IsIn
        <5>3. a \in DOMAIN m_tasks /\ a < n
          BY <1>0, <1>1, <2>1, <5>2
        <5>. QED  BY <2>1, <3>4, <4>1, <5>1, <5>2, <5>3 DEF Sorted
      <4>. QED  BY <4>2, <4>3
    <3>5. Sorted(m_tasks) => Sorted(s)
      BY <3>4 DEF Sorted
    <3>. QED  BY <1>1, <3>1, <3>3, <3>5 DEF SparedOK, s
  <2>. QED  BY <2>5, <2>6
<1>. QED  BY <1>1, <1>2, <1>3

\* The task that stops the search.
LEMMA RedundantTask ==
    ASSUME NEW t, m_tasks \in Seq(Task)
    PROVE  LET k == Redundant(t)
               Stops(u) == u.root = t.root /\ u.type \in MadeRedundantBy(t.type)
           IN  /\ k \in 1..(Len(m_tasks) + 1)
               /\ k <= Len(m_tasks) => Stops(m_tasks[k])
               /\ k > Len(m_tasks) => \A i \in DOMAIN m_tasks : ~Stops(m_tasks[i])
<1>. DEFINE Stops(u) == u.root = t.root /\ u.type \in MadeRedundantBy(t.type)
            I == {i \in 1..Len(m_tasks) : Stops(m_tasks[i])}
            found == IF I # {} THEN CHOOSE x \in I : \A y \in I : x <= y ELSE 0
<1>1. Redundant(t) = IF found = 0 THEN Len(m_tasks) + 1 ELSE found
  BY DEF Redundant, SelectInSeq, Min
<1>2. Len(m_tasks) \in Nat /\ DOMAIN m_tasks = 1..Len(m_tasks)
  OBVIOUS
<1>3. I \in SUBSET Nat /\ I \subseteq 1..Len(m_tasks) /\ \A i \in I : Stops(m_tasks[i])
  OBVIOUS
<1>4. CASE I = {}
  BY <1>1, <1>2, <1>4
<1>5. CASE I # {}
  <2>1. found \in I
    <3>. HIDE DEF I
    <3>1. \E x \in I : \A y \in I : x <= y
      BY <1>3, <1>5, LeastNatural
    <3>. QED  BY <1>5, <3>1
  <2>. HIDE DEF found
  <2>. QED  BY <1>1, <1>2, <1>3, <2>1
<1>. QED  BY <1>4, <1>5

LEMMA FilteredTasks ==
    ASSUME NEW t, m_tasks \in Seq(Task)
    PROVE  /\ Filtered(t) \in Seq(Task)
           /\ Sorted(m_tasks) => Sorted(Filtered(t))
           /\ \A u : IsIn(u, Filtered(t)) => Waits(u)
           /\ \A u : Waits(u) /\ ~IsCancelled(t, u) => IsIn(u, Filtered(t))
           /\ Redundant(t) <= Len(m_tasks) => IsIn(m_tasks[Redundant(t)], Filtered(t))
           /\ Redundant(t) > Len(m_tasks) => \A u : IsIn(u, Filtered(t)) => ~IsCancelled(t, u)
<1>. DEFINE k == Redundant(t)
            n == Len(m_tasks)
            p == Spared(t, k - 1)
            q == SubSeq(m_tasks, k, n)
<1>1. /\ n \in Nat /\ DOMAIN m_tasks = 1..n /\ k \in 1..(n + 1)
      /\ k - 1 \in 0..n
  BY RedundantTask
<1>2. Filtered(t) = p \o q
  BY DEF Filtered
<1>3. SparedOK(t, k - 1)
  BY <1>1, SparedTasks
<1>4. /\ p \in Seq(Task)
      /\ \A u : IsIn(u, p) => ~IsCancelled(t, u) /\ \E j \in 1..(k - 1) : m_tasks[j] = u
      /\ \A j \in 1..(k - 1) : IsCancelled(t, m_tasks[j]) \/ IsIn(m_tasks[j], p)
      /\ Sorted(m_tasks) => Sorted(p)
  BY <1>3 DEF SparedOK
<1>5. /\ q \in Seq(Task)
      /\ \A u : IsIn(u, q) <=> \E i \in k..n : m_tasks[i] = u
      /\ Sorted(m_tasks) => Sorted(q)
  BY <1>1, Part
<1>. HIDE DEF p, q, k, n
<1>6. p \o q \in Seq(Task) /\ \A u : IsIn(u, p \o q) <=> IsIn(u, p) \/ IsIn(u, q)
  BY <1>4, <1>5, Concatenation
<1>7. 1..n = (1..(k - 1)) \cup (k..n) /\ (k <= n => k \in k..n) /\ (k > n => k..n = {})
  BY <1>1
<1>8. \A u : IsIn(u, p \o q) => Waits(u)
  BY <1>1, <1>4, <1>5, <1>6, <1>7 DEF Waits, IsIn
<1>9. \A u : Waits(u) /\ ~IsCancelled(t, u) => IsIn(u, p \o q)
  <2>. SUFFICES ASSUME NEW u, NEW i \in 1..n, m_tasks[i] = u, ~IsCancelled(t, u)
                PROVE  IsIn(u, p) \/ IsIn(u, q)
    BY <1>1, <1>6 DEF Waits, IsIn
  <2>. QED  BY <1>4, <1>5, <1>7
<1>10. k <= n => IsIn(m_tasks[k], p \o q)
  BY <1>5, <1>6, <1>7
<1>11. k > n => \A u : IsIn(u, p \o q) => ~IsCancelled(t, u)
  BY <1>4, <1>5, <1>6, <1>7
<1>12. Sorted(m_tasks) => Sorted(p \o q)
  <2>. SUFFICES ASSUME Sorted(m_tasks), Sorted(p), Sorted(q) PROVE Sorted(p \o q)
    BY <1>4, <1>5
  <2>1. CASE \A u : IsIn(u, p) => ~isLongRunning(u)
    BY <1>4, <1>5, <2>1, SortedConcatenation
  <2>2. ASSUME NEW u, IsIn(u, p), isLongRunning(u)
        PROVE  \A v : IsIn(v, q) => isLongRunning(v)
    <3>. SUFFICES ASSUME NEW i \in k..n PROVE isLongRunning(m_tasks[i])
      BY <1>5
    <3>1. PICK j \in 1..(k - 1) : m_tasks[j] = u
      BY <1>4, <2>2
    <3>2. i \in DOMAIN m_tasks /\ j \in DOMAIN m_tasks /\ j < i
      BY <1>1, <1>7, <3>1
    <3>. QED  BY <2>2, <3>1, <3>2 DEF Sorted
  <2>. QED  BY <1>4, <1>5, <2>1, <2>2, SortedConcatenation
<1>. QED  BY <1>2, <1>6, <1>8, <1>9, <1>10, <1>11, <1>12 DEF k, n

\* What the list holds once a task has been inserted.
LEMMA QueuedTasks ==
    ASSUME NEW t \in Task, NEW q \in Seq(Task), Sorted(q), TypeOK
    PROVE  /\ Queued(t, q) \in Seq(Task) /\ Sorted(Queued(t, q))
           /\ \A u : IsIn(u, Queued(t, q))
                  <=> \/ IsIn(u, q) \/ u = t
                      \/ ~isLongRunning(t) /\ IsIn(u, Requeued(t))
<1>. DEFINE I == {i \in 1..Len(q) : isLongRunning(q[i])}
            long == IF I # {} THEN CHOOSE x \in I : \A y \in I : x <= y ELSE 0
            first == IF long = 0 THEN Len(q) + 1 ELSE long
            a == SubSeq(q, 1, first - 1)
            b == SubSeq(q, first, Len(q))
            R == Requeued(t)
<1>1. Queued(t, q) = IF isLongRunning(t) THEN Append(q, t) ELSE a \o <<t>> \o R \o b
  BY DEF Queued, SelectInSeq, Min
<1>2. Len(q) \in Nat /\ DOMAIN q = 1..Len(q)
  OBVIOUS
<1>3. /\ first \in 1..(Len(q) + 1)
      /\ \A i \in 1..(first - 1) : ~isLongRunning(q[i])
      /\ first <= Len(q) => isLongRunning(q[first])
  <2>1. CASE I = {}
    BY <1>2, <2>1
  <2>2. CASE I # {}
    <3>1. I \in SUBSET Nat /\ I \subseteq 1..Len(q)
      OBVIOUS
    <3>2. long \in I /\ \A y \in I : long <= y
      <4>. HIDE DEF I
      <4>1. \E x \in I : \A y \in I : x <= y
        BY <2>2, <3>1, LeastNatural
      <4>. QED  BY <2>2, <4>1
    <3>3. long \in 1..Len(q) /\ isLongRunning(q[long]) /\ first = long
      <4>1. long # 0
        BY <1>2, <3>1, <3>2
      <4>. QED  BY <3>2, <4>1
    <3>4. \A i \in 1..Len(q) : i < long => ~isLongRunning(q[i])
      <4>. SUFFICES ASSUME NEW i \in 1..Len(q), i < long, isLongRunning(q[i]) PROVE FALSE
        OBVIOUS
      <4>1. i \in I
        OBVIOUS
      <4>2. long <= i
        BY <3>2, <4>1
      <4>. HIDE DEF long
      <4>. QED  BY <1>2, <3>3, <4>2
    <3>. HIDE DEF first, long
    <3>5. \A i \in 1..(first - 1) : i \in 1..Len(q) /\ i < long
      BY <1>2, <3>3
    <3>. QED  BY <1>2, <3>3, <3>4, <3>5
  <2>. QED  BY <2>1, <2>2
<1>4. R \in Seq(Task) /\ Sorted(R) /\ \A u : IsIn(u, R) => isLongRunning(u)
  <2>1. CASE R = <<>>
    BY <2>1, NoTasks
  <2>2. CASE R # <<>>
    <3>. DEFINE v == [root |-> m_currentTask.root, type |-> "Reload"]
    <3>1. R = <<v>> /\ m_currentTask \in Task
      BY <2>2 DEF Requeued, Interrupts, TypeOK
    <3>2. v \in Task /\ isLongRunning(v)
      BY <3>1 DEF Task, isLongRunning
    <3>. HIDE DEF v
    <3>. QED  BY <3>1, <3>2, Single
  <2>. QED  BY <2>1, <2>2
<1>5. CASE isLongRunning(t)
  <2>1. Append(q, t) = q \o <<t>>
    OBVIOUS
  <2>2. /\ <<t>> \in Seq(Task) /\ Sorted(<<t>>)
        /\ \A u : IsIn(u, <<t>>) <=> u = t
    BY Single
  <2>3. /\ q \o <<t>> \in Seq(Task) /\ Sorted(q \o <<t>>)
        /\ \A u : IsIn(u, q \o <<t>>) <=> IsIn(u, q) \/ IsIn(u, <<t>>)
    BY <1>5, <2>2, Concatenation, SortedConcatenation
  <2>. QED  BY <1>1, <1>5, <2>1, <2>2, <2>3
<1>6. CASE ~isLongRunning(t)
  <2>. HIDE DEF first
  <2>1. /\ a \in Seq(Task) /\ Sorted(a)
        /\ \A u : IsIn(u, a) <=> \E i \in 1..(first - 1) : q[i] = u
    <3>1. 1 \in 1..(Len(q) + 1) /\ first - 1 \in 0..Len(q)
      BY <1>2, <1>3
    <3>. QED  BY <3>1, Part
  <2>2. /\ b \in Seq(Task) /\ Sorted(b)
        /\ \A u : IsIn(u, b) <=> \E i \in first..Len(q) : q[i] = u
    <3>1. Len(q) \in 0..Len(q)
      BY <1>2
    <3>. QED  BY <1>3, <3>1, Part
  <2>3. \A u : IsIn(u, a) => ~isLongRunning(u)
    BY <1>3, <2>1
  <2>4. \A u : IsIn(u, b) => isLongRunning(u)
    <3>. SUFFICES ASSUME NEW i \in first..Len(q) PROVE isLongRunning(q[i])
      BY <2>2
    <3>1. CASE i = first
      BY <1>2, <1>3, <3>1
    <3>2. CASE i # first
      <4>1. first \in DOMAIN q /\ i \in DOMAIN q /\ first < i /\ first <= Len(q)
        BY <1>2, <1>3, <3>2
      <4>. QED  BY <1>3, <4>1 DEF Sorted
    <3>. QED  BY <3>1, <3>2
  <2>5. \A u : IsIn(u, q) <=> IsIn(u, a) \/ IsIn(u, b)
    <3>1. 1..Len(q) = (1..(first - 1)) \cup (first..Len(q))
      BY <1>2, <1>3
    <3>. QED  BY <1>2, <2>1, <2>2, <3>1 DEF IsIn
  <2>. HIDE DEF a, b, R
  <2>6. /\ a \o <<t>> \in Seq(Task) /\ Sorted(a \o <<t>>)
        /\ \A u : IsIn(u, a \o <<t>>) <=> IsIn(u, a) \/ u = t
    BY <2>1, <2>3, Single, Concatenation, SortedConcatenation
  <2>. DEFINE c == a \o <<t>>
  <2>. HIDE DEF c
  <2>7. /\ c \in Seq(Task) /\ Sorted(c)
        /\ \A u : IsIn(u, c) <=> IsIn(u, a) \/ u = t
    BY <2>6 DEF c
  <2>. DEFINE d == c \o R
  <2>8. /\ d \in Seq(Task) /\ Sorted(d)
        /\ \A u : IsIn(u, d) <=> IsIn(u, c) \/ IsIn(u, R)
    BY <1>4, <2>7, Concatenation, SortedConcatenation
  <2>. HIDE DEF d
  <2>9. /\ d \o b \in Seq(Task) /\ Sorted(d \o b)
        /\ \A u : IsIn(u, d \o b) <=> IsIn(u, d) \/ IsIn(u, b)
    BY <2>2, <2>4, <2>8, Concatenation, SortedConcatenation
  <2>10. Queued(t, q) = d \o b
    BY <1>1, <1>6 DEF c, d
  <2>. QED  BY <1>6, <2>5, <2>7, <2>8, <2>9, <2>10 DEF R
<1>. QED  BY <1>5, <1>6

-----------------------------------------------------------------------------
(* enqueue().                                                              *)

LEMMA TaskNamed ==
    /\ \A u \in Task : u = Is(u.root, u.type) /\ u.root \in Path \cup {Device}
                       /\ u.type \in Short \cup {"Reload"}
    /\ \A root, type : Is(root, type).root = root /\ Is(root, type).type = type
    /\ \A root \in Path \cup {Device}, type \in Short \cup {"Reload"} : Is(root, type) \in Task
BY DEF Task, Is

LEMMA WaitsTask == ASSUME TypeOK, NEW u, Waits(u) PROVE u \in Task
BY DEF TypeOK, Waits, IsIn

LEMMA RequeuedTasks ==
    ASSUME NEW t
    PROVE  /\ \A u : IsIn(u, Requeued(t)) =>
                  Interrupts(t) /\ u = Is(m_currentTask.root, "Reload")
           /\ Interrupts(t) => \/ IsIn(Is(m_currentTask.root, "Reload"), Requeued(t))
                               \/ t.type \in {"Ban", "Remove"} /\ t.root = m_currentTask.root
BY DEF Requeued, IsIn, Is

LEMMA EnqueueMoves ==
    ASSUME Order, NEW root, NEW type, Is(root, type) \in Task, enqueue(root, type)
    PROVE  LET t == Is(root, type)
               again == Is(m_currentTask.root, "Reload")
           IN  /\ m_tasks' \in Seq(Task) /\ Sorted(m_tasks)' /\ m_isInterrupted' \in BOOLEAN
               /\ \A u : Waits(u) /\ ~IsCancelled(t, u) => Waits(u)'
               /\ \A u : Waits(u)' => Waits(u) \/ u = t \/ (Interrupts(t) /\ u = again)
               /\ \/ type \in {"Remove", "Unban"}
                  \/ Waits(t)'
                  \/ \E u \in Task : Waits(u)' /\ u.root = root /\ u.type \in MadeRedundantBy(type)
               /\ m_isInterrupted' => \/ m_isInterrupted
                                      \/ /\ Interrupts(t)
                                         /\ \/ IsIn(again, m_tasks')
                                            \/ /\ type \in {"Ban", "Remove"}
                                               /\ root = m_currentTask.root /\ Waits(t)'
               /\ type = "Ban" /\ ~Waits(t) => ~Waits(Is(root, "Unban"))'
               /\ type = "Unban" => ~Waits(Is(root, "Ban"))'
<1>. DEFINE t == Is(root, type)
            again == Is(m_currentTask.root, "Reload")
            q == Filtered(t)
<1>1. /\ TypeOK /\ m_tasks \in Seq(Task) /\ Sorted(m_tasks) /\ m_isInterrupted \in BOOLEAN
      /\ t \in Task /\ t.root = root /\ t.type = type
  BY TaskNamed DEF Order, TypeOK
<1>2. /\ q \in Seq(Task) /\ Sorted(q)
      /\ \A u : IsIn(u, q) => Waits(u)
      /\ \A u : Waits(u) /\ ~IsCancelled(t, u) => IsIn(u, q)
      /\ Redundant(t) <= Len(m_tasks) => IsIn(m_tasks[Redundant(t)], q)
      /\ Redundant(t) > Len(m_tasks) => \A u : IsIn(u, q) => ~IsCancelled(t, u)
  BY <1>1, FilteredTasks
<1>3. /\ Redundant(t) \in 1..(Len(m_tasks) + 1)
      /\ Redundant(t) <= Len(m_tasks) =>
             /\ m_tasks[Redundant(t)].root = root
             /\ m_tasks[Redundant(t)].type \in MadeRedundantBy(type)
  BY <1>1, RedundantTask
<1>4. CASE FilteredOut(t)
  <2>1. m_tasks' = q /\ m_isInterrupted' = m_isInterrupted
    BY <1>4 DEF enqueue, Is
  <2>. DEFINE x == m_tasks[Redundant(t)]
  <2>2. Redundant(t) <= Len(m_tasks) =>
            x \in Task /\ IsIn(x, q) /\ x.root = root /\ x.type \in MadeRedundantBy(type) /\ Waits(x)
    BY <1>1, <1>2, <1>3
  <2>. HIDE DEF q, t, x
  <2>3. \A u : Waits(u)' <=> IsIn(u, q)
    BY <2>1 DEF Waits, IsIn
  <2>4. Redundant(t) <= Len(m_tasks) \/ type \in {"Remove", "Unban"}
    BY <1>1, <1>4 DEF FilteredOut
  <2>5. Redundant(t) <= Len(m_tasks) \/ Redundant(t) > Len(m_tasks)
    BY <1>1, <1>3
  <2>6. type = "Ban" => Waits(t)
    <3>. SUFFICES ASSUME type = "Ban" PROVE Waits(t)
      OBVIOUS
    <3>1. Redundant(t) <= Len(m_tasks) /\ x.type = "Ban"
      BY <2>2, <2>4 DEF MadeRedundantBy
    <3>2. x = t
      BY <1>1, <2>2, <3>1, TaskNamed
    <3>. QED  BY <2>2, <3>1, <3>2
  <2>7. type = "Unban" => ~Waits(Is(root, "Ban"))'
    <3>. SUFFICES ASSUME type = "Unban" PROVE ~IsIn(Is(root, "Ban"), q)
      BY <2>3
    <3>1. Redundant(t) > Len(m_tasks)
      BY <2>2, <2>5 DEF MadeRedundantBy
    <3>2. IsCancelled(t, Is(root, "Ban"))
      BY <1>1, TaskNamed DEF IsCancelled, Cancels
    <3>. QED  BY <1>2, <3>1, <3>2
  <2>8. /\ m_tasks' \in Seq(Task) /\ Sorted(m_tasks)' /\ m_isInterrupted' \in BOOLEAN
    BY <1>1, <1>2, <2>1 DEF Sorted
  <2>. QED  BY <1>2, <2>1, <2>2, <2>3, <2>4, <2>6, <2>7, <2>8 DEF t
<1>5. CASE ~FilteredOut(t)
  <2>1. m_tasks' = Queued(t, q) /\ m_isInterrupted' = (m_isInterrupted \/ Interrupts(t))
    BY <1>5 DEF enqueue, Is
  <2>. HIDE DEF q, t
  <2>2. /\ Queued(t, q) \in Seq(Task) /\ Sorted(Queued(t, q))
        /\ \A u : IsIn(u, Queued(t, q))
               <=> IsIn(u, q) \/ u = t \/ (~isLongRunning(t) /\ IsIn(u, Requeued(t)))
    BY <1>1, <1>2, QueuedTasks
  <2>3. \A u : Waits(u)' <=> IsIn(u, Queued(t, q))
    BY <2>1 DEF Waits, IsIn
  <2>4. /\ m_tasks' \in Seq(Task) /\ Sorted(m_tasks)' /\ m_isInterrupted' \in BOOLEAN
    BY <1>1, <2>1, <2>2 DEF Sorted, Interrupts
  <2>5. Redundant(t) > Len(m_tasks)
    BY <1>1, <1>3, <1>5 DEF FilteredOut
  <2>6. \A u : IsIn(u, Requeued(t)) => Interrupts(t) /\ u = again
    BY RequeuedTasks
  <2>7. \A u : Waits(u)' => Waits(u) \/ u = t \/ (Interrupts(t) /\ u = again)
    BY <1>2, <2>2, <2>3, <2>6
  <2>8. Waits(t)' /\ \A u : Waits(u) /\ ~IsCancelled(t, u) => Waits(u)'
    BY <1>2, <2>2, <2>3
  <2>9. Interrupts(t) => \/ IsIn(again, m_tasks')
                         \/ type \in {"Ban", "Remove"} /\ root = m_currentTask.root
    <3>. SUFFICES ASSUME Interrupts(t) PROVE \/ IsIn(again, m_tasks')
                                             \/ type \in {"Ban", "Remove"} /\ root = m_currentTask.root
      OBVIOUS
    <3>1. ~isLongRunning(t)
      BY DEF Interrupts
    <3>2. \/ IsIn(again, Requeued(t))
          \/ t.type \in {"Ban", "Remove"} /\ t.root = m_currentTask.root
      BY RequeuedTasks
    <3>. HIDE DEF again
    <3>. QED  BY <1>1, <2>1, <2>2, <3>1, <3>2
  <2>10. ASSUME NEW u, IsCancelled(t, u), Waits(u)'
         PROVE  u.type = "Reload" \/ u = t
    <3>1. u = t \/ u = again
      BY <1>2, <2>2, <2>3, <2>5, <2>6, <2>10
    <3>. QED  BY <3>1, TaskNamed
  <2>11. type = "Ban" => ~Waits(Is(root, "Unban"))'
    <3>1. type = "Ban" => IsCancelled(t, Is(root, "Unban"))
      BY <1>1, TaskNamed DEF IsCancelled, Cancels
    <3>. QED  BY <1>1, <2>10, <3>1, TaskNamed
  <2>12. type = "Unban" => ~Waits(Is(root, "Ban"))'
    <3>1. type = "Unban" => IsCancelled(t, Is(root, "Ban"))
      BY <1>1, TaskNamed DEF IsCancelled, Cancels
    <3>. QED  BY <1>1, <2>10, <3>1, TaskNamed
  <2>. QED  BY <2>1, <2>4, <2>7, <2>8, <2>9, <2>11, <2>12 DEF t
<1>. QED  BY <1>4, <1>5

-----------------------------------------------------------------------------
(* The types.                                                              *)

LEMMA Constants ==
    /\ Removable \subseteq Root /\ NoTask \notin Task
    /\ All \notin Root /\ Parent \notin Root /\ Device \notin Root
    /\ All # Device /\ Parent # Device
<1>1. Cardinality({All, Parent, Device}) = 3
  BY DiscovererAssumption
<1>2. All # Device /\ Parent # Device
  <2>1. \A a, b : Cardinality({a, b}) <= 2
    <3>. TAKE a, b
    <3>1. IsFiniteSet({a}) /\ Cardinality({a}) = 1
      BY FS_Singleton
    <3>2. Cardinality({a} \cup {b}) \in {1, 2}
      BY <3>1, FS_AddElement
    <3>3. {a, b} = {a} \cup {b}
      OBVIOUS
    <3>. QED  BY <3>2, <3>3
  <2>2. CASE All = Device
    <3>1. {All, Parent, Device} = {All, Parent}
      BY <2>2
    <3>2. Cardinality({All, Parent}) <= 2
      BY <2>1
    <3>. QED  BY <1>1, <3>1, <3>2
  <2>3. CASE Parent = Device
    <3>1. {All, Parent, Device} = {All, Parent}
      BY <2>3
    <3>2. Cardinality({All, Parent}) <= 2
      BY <2>1
    <3>. QED  BY <1>1, <3>1, <3>2
  <2>. QED  BY <2>2, <2>3
<1>. QED  BY <1>2, DiscovererAssumption

\* The task a call enqueues.
LEMMA Asked ==
    /\ \A r \in Root, type \in Short \cup {"Reload"} : Is(r, type) \in Task
    /\ Is(All, "Reload") \in Task /\ Is(Parent, "Reload") \in Task
    /\ Is(Device, "ReloadDevice") \in Task
BY DEF Is, Task, Path, Short

LEMMA Sequence ==
    ASSUME NEW q \in Seq(Task), q # <<>>, Sorted(q)
    PROVE  /\ Tail(q) \in Seq(Task) /\ Sorted(Tail(q)) /\ Head(q) \in Task
           /\ \A u : IsIn(u, q) <=> u = Head(q) \/ IsIn(u, Tail(q))
           /\ isLongRunning(Head(q)) => \A u : IsIn(u, Tail(q)) => isLongRunning(u)
<1>1. /\ Tail(q) \in Seq(Task) /\ Head(q) \in Task /\ Head(q) = q[1]
      /\ Len(q) \in Nat /\ Len(q) > 0 /\ Len(Tail(q)) = Len(q) - 1
      /\ DOMAIN q = 1..Len(q) /\ DOMAIN Tail(q) = 1..(Len(q) - 1)
      /\ \A i \in DOMAIN Tail(q) : Tail(q)[i] = q[i + 1]
  OBVIOUS
<1>. DEFINE p == Tail(q)
<1>. HIDE DEF p
<1>2. \A i \in DOMAIN p : i + 1 \in DOMAIN q /\ p[i] = q[i + 1] /\ 1 < i + 1 /\ 1 \in DOMAIN q
  BY <1>1 DEF p
<1>3. \A i \in DOMAIN q : i = 1 \/ (i - 1 \in DOMAIN p /\ p[i - 1] = q[i])
  BY <1>1 DEF p
<1>4. Sorted(p)
  <2>. SUFFICES ASSUME NEW i \in DOMAIN p, NEW j \in DOMAIN p, i < j, isLongRunning(p[i])
                PROVE  isLongRunning(p[j])
    BY DEF Sorted
  <2>1. i + 1 < j + 1
    BY <1>1 DEF p
  <2>. QED  BY <1>2, <2>1 DEF Sorted
<1>5. \A u : IsIn(u, q) <=> u = q[1] \/ IsIn(u, p)
  <2>1. 1 \in DOMAIN q
    BY <1>1
  <2>. QED  BY <1>2, <1>3, <2>1 DEF IsIn
<1>6. isLongRunning(q[1]) => \A u : IsIn(u, p) => isLongRunning(u)
  <2>. SUFFICES ASSUME isLongRunning(q[1]), NEW i \in DOMAIN p PROVE isLongRunning(p[i])
    BY DEF IsIn
  <2>. QED  BY <1>2 DEF Sorted
<1>. QED  BY <1>1, <1>4, <1>5, <1>6 DEF p

LEMMA InitOrder == Init => Order
<1>. SUFFICES ASSUME Init PROVE Order
  OBVIOUS
<1>1. m_tasks \in Seq(Task) /\ Sorted(m_tasks)
  BY NoTasks DEF Init
<1>2. /\ requests \in 0..MaxRequests /\ wish \in [Root -> {"none", "AddRoot", "Remove", "Ban", "Unban"}]
      /\ due \in [Root -> BOOLEAN]
  BY DiscovererAssumption DEF Init
<1>. QED  BY <1>1, <1>2 DEF Init, Order, TypeOK

\* Every call.
Asks ==
    \/ \E r \in Root : discover(r) \/ discoverReloads(r) \/ remove(r) \/ ban(r)
                       \/ unban(r) \/ reload(r)
    \/ reloadAll \/ reloadDevice

LEMMA AskOrder ==
    ASSUME Order, NEW root, NEW type, Is(root, type) \in Task, Ask(root, type),
           \/ UNCHANGED requests
           \/ requests' = requests + 1 /\ requests < MaxRequests,
           discovering' \subseteq Root, contested' \subseteq Root,
           wish' \in [Root -> {"none", "AddRoot", "Remove", "Ban", "Unban"}],
           due' \in [Root -> BOOLEAN]
    PROVE  Order'
<1>1. m_tasks' \in Seq(Task) /\ Sorted(m_tasks)' /\ m_isInterrupted' \in BOOLEAN
  BY EnqueueMoves DEF Ask
<1>2. requests' \in 0..MaxRequests
  BY DiscovererAssumption DEF Order, TypeOK
<1>. QED  BY <1>1, <1>2 DEF Ask, Order, TypeOK

LEMMA CallOrder ==
    ASSUME Order, Asks \/ pause \/ resume \/ stop
    PROVE  Order'
<1>1. /\ wish \in [Root -> {"none", "AddRoot", "Remove", "Ban", "Unban"}]
      /\ due \in [Root -> BOOLEAN] /\ discovering \subseteq Root /\ contested \subseteq Root
  BY DEF Order, TypeOK
<1>2. ASSUME NEW r \in Root, discover(r) \/ discoverReloads(r) \/ remove(r) \/ ban(r)
                             \/ unban(r) \/ reload(r)
      PROVE  Order'
  <2>1. /\ discovering' \subseteq Root /\ contested' \subseteq Root
        /\ due' \in [Root -> BOOLEAN]
        /\ wish' \in [Root -> {"none", "AddRoot", "Remove", "Ban", "Unban"}]
        /\ \/ UNCHANGED requests
           \/ requests' = requests + 1 /\ requests < MaxRequests
    BY <1>1, <1>2 DEF discover, discoverReloads, remove, ban, unban, reload, Wish, Calls
  <2>2. \E type \in Short \cup {"Reload"} : Ask(r, type)
    BY <1>2 DEF discover, discoverReloads, remove, ban, unban, reload, Short
  <2>. QED  BY <2>1, <2>2, AskOrder, Asked
<1>3. CASE reloadAll \/ reloadDevice
  <2>1. /\ discovering' \subseteq Root /\ contested' \subseteq Root
        /\ due' \in [Root -> BOOLEAN]
        /\ wish' \in [Root -> {"none", "AddRoot", "Remove", "Ban", "Unban"}]
        /\ requests' = requests + 1 /\ requests < MaxRequests
    <3>1. due' \in [Root -> BOOLEAN]
      BY <1>1, <1>3, Zenon DEF reloadAll, reloadDevice, IsKnown
    <3>. QED  BY <1>1, <1>3, <3>1 DEF reloadAll, reloadDevice, Calls
  <2>2. Ask(All, "Reload") \/ Ask(Device, "ReloadDevice")
    BY <1>3 DEF reloadAll, reloadDevice
  <2>. QED  BY <2>1, <2>2, AskOrder, Asked
<1>4. CASE pause \/ resume \/ stop
  <2>1. requests' \in 0..MaxRequests
    BY <1>4, DiscovererAssumption DEF pause, resume, stop, Calls, Order, TypeOK
  <2>2. /\ UNCHANGED <<m_tasks, m_currentTask, worker, folders, m_discovererIdle, discovering,
                       wish, due, contested>>
        /\ m_run' \in BOOLEAN /\ m_isInterrupted' \in BOOLEAN
        /\ m_paused' \in BOOLEAN /\ held' \in BOOLEAN
    <3>1. m_paused' \in BOOLEAN
      BY <1>4, Zenon DEF pause, resume, stop, Order, TypeOK
    <3>. QED  BY <1>4, <3>1 DEF pause, resume, stop, Order, TypeOK
  <2>. QED  BY <2>1, <2>2 DEF Order, TypeOK, Sorted, worker
<1>. QED  BY <1>2, <1>3, <1>4 DEF Asks

LEMMA TakeOrder ==
    ASSUME Order, m_tasks # <<>>, TakeTask
    PROVE  /\ m_tasks' \in Seq(Task) /\ Sorted(m_tasks)' /\ Head(m_tasks) \in Task
           /\ m_tasks' = Tail(m_tasks)
           /\ \/ pc' = "top" /\ m_currentTask' = m_currentTask
              \/ pc' = "taken" /\ m_currentTask' \in Task /\ m_currentTask' # NoTask
<1>1. /\ m_tasks \in Seq(Task) /\ Sorted(m_tasks) /\ m_tasks' = Tail(m_tasks)
  BY DEF Order, TypeOK, TakeTask
<1>2. Tail(m_tasks) \in Seq(Task) /\ Sorted(Tail(m_tasks)) /\ Head(m_tasks) \in Task
  BY <1>1, Sequence
<1>3. \/ pc' = "top" /\ m_currentTask' = m_currentTask
      \/ pc' = "taken" /\ m_currentTask' \in Task /\ m_currentTask' # NoTask
  BY <1>2, Constants DEF TakeTask
<1>. QED  BY <1>1, <1>2, <1>3 DEF Sorted

LEMMA LoopOrder ==
    ASSUME Order, Starting \/ Top \/ Wake \/ Exit \/ RefreshTasks \/ EndTask
    PROVE  Order'
<1>1. CASE Starting \/ Exit \/ RefreshTasks \/ EndTask
  <2>1. CASE Starting \/ Exit
    BY <2>1 DEF Order, TypeOK, Sorted, Starting, Exit, callers
  <2>2. CASE RefreshTasks
    BY <2>2 DEF Order, TypeOK, Sorted, RefreshTasks, callers
  <2>3. CASE EndTask
    BY <2>3 DEF Order, TypeOK, Sorted, EndTask, callers
  <2>. QED  BY <1>1, <2>1, <2>2, <2>3
<1>2. CASE (Top \/ Wake) /\ TakeTask /\ m_tasks # <<>>
  <2>1. /\ m_tasks' \in Seq(Task) /\ Sorted(m_tasks)'
        /\ \/ pc' = "top" /\ m_currentTask' = m_currentTask
           \/ pc' = "taken" /\ m_currentTask' \in Task /\ m_currentTask' # NoTask
    BY <1>2, TakeOrder
  <2>. QED  BY <1>2, <2>1 DEF Order, TypeOK, Top, Wake, callers
<1>3. CASE (Top \/ Wake) /\ UNCHANGED <<m_tasks, m_currentTask>> /\ pc' \in {"waiting", "exiting"}
  BY <1>3 DEF Order, TypeOK, Sorted, Top, Wake, callers
<1>. QED  BY <1>1, <1>2, <1>3 DEF Top, Wake, MustWake

LEMMA ShortOrder ==
    ASSUME Order, runAddRoot \/ runRemove \/ runBan \/ runUnban \/ UnbanReloadsParent
    PROVE  Order'
<1>1. CASE UnbanReloadsParent
  <2>1. m_tasks' \in Seq(Task) /\ Sorted(m_tasks)' /\ m_isInterrupted' \in BOOLEAN
    BY <1>1, EnqueueMoves, Asked DEF UnbanReloadsParent
  <2>. QED  BY <1>1, <2>1 DEF Order, TypeOK, UnbanReloadsParent, callers
<1>2. CASE runAddRoot \/ runRemove \/ runBan \/ runUnban
  <2>1. /\ folders' \in [Root -> {"absent", "root", "banned"}]
        /\ wish' \in [Root -> {"none", "AddRoot", "Remove", "Ban", "Unban"}]
        /\ pc' \in {"end", "unbanned"} /\ pc = "run"
    BY <1>2 DEF Order, TypeOK, runAddRoot, runRemove, runBan, runUnban, Reported, EndShort, Runs
  <2>2. due' \in [Root -> BOOLEAN]
    <3>1. CASE runBan
      <4>1. PICK answer \in BOOLEAN : due' = [due EXCEPT ![m_currentTask.root] = @ /\ answer]
        BY <3>1 DEF runBan, Answers
      <4>2. due \in [Root -> BOOLEAN]
        BY DEF Order, TypeOK
      <4>. QED  BY <4>1, <4>2, Zenon
    <3>2. CASE runAddRoot \/ runRemove \/ runUnban
      BY <3>2 DEF Order, TypeOK, runAddRoot, runRemove, runUnban
    <3>. QED  BY <1>2, <3>1, <3>2
  <2>3. /\ UNCHANGED <<m_tasks, m_currentTask, m_run, m_isInterrupted, m_paused,
                       m_discoveryNotified, batch, onDevice, m_discovererIdle, discovering,
                       requests, contested, held>>
        /\ needTaskRefresh' \in BOOLEAN
    BY <1>2 DEF Order, TypeOK, runAddRoot, runRemove, runBan, runUnban, EndShort
  <2>. QED  BY <2>1, <2>2, <2>3 DEF Order, TypeOK, Sorted
<1>. QED  BY <1>1, <1>2

LEMMA ScanOrder ==
    ASSUME Order,
           \/ BeginReload \/ BeginReloadDevice \/ EndReloadDevice \/ EndScan \/ Pauses \/ Resumes
           \/ \E r \in Root : ReloadDeviceRoot(r) \/ Scan(r)
    PROVE  Order'
<1>1. CASE BeginReloadDevice \/ EndReloadDevice \/ EndScan \/ Pauses \/ Resumes
  <2>1. CASE BeginReloadDevice \/ EndReloadDevice
    BY <2>1 DEF Order, TypeOK, Sorted, BeginReloadDevice, EndReloadDevice, Runs, callers
  <2>2. CASE EndScan
    BY <2>2 DEF Order, TypeOK, Sorted, EndScan, Runs, callers
  <2>3. CASE Pauses \/ Resumes
    BY <2>3 DEF Order, TypeOK, Sorted, Pauses, Resumes, callers
  <2>. QED  BY <1>1, <2>1, <2>2, <2>3
<1>2. ASSUME NEW path, NEW here \in Reachable, ReloadOf(path, here)
      PROVE  batch' \subseteq Root /\ due' \in [Root -> BOOLEAN] /\ m_isInterrupted' = FALSE
  <2>1. due' \in [Root -> BOOLEAN]
    BY <1>2, Zenon DEF ReloadOf, Order, TypeOK
  <2>. QED  BY <1>2, <2>1 DEF ReloadOf, Reachable
<1>3. CASE BeginReload
  <2>1. \E here \in Reachable : ReloadOf(m_currentTask.root, here)
    BY <1>3 DEF BeginReload
  <2>2. batch' \subseteq Root /\ due' \in [Root -> BOOLEAN] /\ m_isInterrupted' = FALSE
    BY <1>2, <2>1
  <2>. QED  BY <1>3, <2>2 DEF BeginReload, Runs, Order, TypeOK, Sorted
<1>4. ASSUME NEW r \in Root, ReloadDeviceRoot(r) PROVE Order'
  <2>1. \E here \in Reachable : ReloadOf(r, here)
    BY <1>4 DEF ReloadDeviceRoot
  <2>2. batch' \subseteq Root /\ due' \in [Root -> BOOLEAN] /\ m_isInterrupted' = FALSE
    BY <1>2, <2>1
  <2>. QED  BY <1>4, <2>2 DEF ReloadDeviceRoot, Order, TypeOK, Sorted
<1>5. ASSUME NEW r \in Root, Scan(r) PROVE Order'
  BY <1>5 DEF Scan, Order, TypeOK, Sorted
<1>. QED  BY <1>1, <1>3, <1>4, <1>5

LEMMA OrderStep == Order /\ [Next]_vars => Order'
<1>. SUFFICES ASSUME Order, [Next]_vars PROVE Order'
  OBVIOUS
<1>1. CASE Call
  BY <1>1, CallOrder DEF Call, Asks
<1>2. CASE Run
  BY <1>2, LoopOrder, ShortOrder, ScanOrder DEF Run
<1>3. CASE UNCHANGED vars
  BY <1>3 DEF vars, worker, callers, Order, TypeOK, Sorted
<1>. QED  BY <1>1, <1>2, <1>3 DEF Next, Rest

LEMMA OrderAlways == Spec => []Order
BY InitOrder, OrderStep, PTL DEF Spec

\* The fields of every variable, for any roots and any calls.
THEOREM TypeCorrect == Spec => []TypeOK
<1>1. Order => TypeOK
  BY DEF Order
<1>. QED  BY <1>1, OrderAlways, PTL

\* "These types need to be processed as soon as possible" (enqueue()): whatever is queued,
\* dropped and queued again, and by whom, no Reload is before a short task.
THEOREM ShortTasksAlwaysFirst == Spec => []ShortTasksFirst
<1>1. Order => ShortTasksFirst
  BY DEF Order, Sorted, ShortTasksFirst
<1>. QED  BY <1>1, OrderAlways, PTL

-----------------------------------------------------------------------------
(* What the tasks are about.                                               *)

About == TasksOK /\ BatchCovered

LEMMA WaitsWell == TasksOK <=> /\ \A u : Waits(u) => WellFormed(u)
                               /\ m_currentTask # NoTask => WellFormed(m_currentTask)
BY DEF TasksOK, Waits, IsIn

LEMMA WaitsWellNext == TasksOK' <=> /\ \A u : Waits(u)' => WellFormed(u)'
                                    /\ m_currentTask' # NoTask => WellFormed(m_currentTask)'
BY DEF TasksOK, Waits, IsIn

LEMMA WellFormedNext ==
    ASSUME NEW u, WellFormed(u), contested \subseteq contested'
    PROVE  WellFormed(u)'
BY DEF WellFormed

LEMMA EnqueueAbout ==
    ASSUME Order, TasksOK, NEW root, NEW type, Is(root, type) \in Task, enqueue(root, type),
           UNCHANGED m_currentTask, contested \subseteq contested', WellFormed(Is(root, type))'
    PROVE  TasksOK'
<1>1. m_currentTask' # NoTask => WellFormed(m_currentTask)'
  <2>1. m_currentTask # NoTask => WellFormed(m_currentTask)
    BY DEF TasksOK
  <2>. QED  BY <2>1 DEF WellFormed
<1>2. ASSUME NEW u, Waits(u)' PROVE WellFormed(u)'
  <2>1. \/ Waits(u) \/ u = Is(root, type)
        \/ m_currentTask # NoTask /\ u = Is(m_currentTask.root, "Reload") /\ isLongRunning(m_currentTask)
    BY <1>2, EnqueueMoves DEF Interrupts
  <2>2. CASE Waits(u)
    BY <2>2, WaitsWell, WellFormedNext
  <2>3. CASE m_currentTask # NoTask /\ u = Is(m_currentTask.root, "Reload") /\ isLongRunning(m_currentTask)
    <3>1. m_currentTask \in Task /\ WellFormed(m_currentTask)
      BY <2>3 DEF Order, TypeOK, TasksOK
    <3>2. u = m_currentTask
      BY <2>3, <3>1, TaskNamed DEF isLongRunning
    <3>. QED  BY <3>1, <3>2, WellFormedNext
  <2>. QED  BY <2>1, <2>2, <2>3
<1>. QED  BY <1>1, <1>2, WaitsWellNext

\* A call enqueues a task on a root, or a Reload of all, or one for the device.
LEMMA AskedWell ==
    /\ \A r \in Root, type \in {"AddRoot", "Ban", "Reload"} : WellFormed(Is(r, type))'
    /\ \A r \in Root, type \in {"Remove", "Unban"} : r \in contested' => WellFormed(Is(r, type))'
    /\ WellFormed(Is(All, "Reload"))' /\ WellFormed(Is(Parent, "Reload"))'
    /\ WellFormed(Is(Device, "ReloadDevice"))'
BY Constants DEF WellFormed, Is, Short

LEMMA CallAbout == ASSUME Order, About, Call PROVE About'
<1>1. ASSUME NEW root, NEW type, Is(root, type) \in Task, Ask(root, type),
             contested \subseteq contested', WellFormed(Is(root, type))'
      PROVE  About'
  <2>1. TasksOK'
    BY <1>1, EnqueueAbout DEF Ask, About
  <2>2. BatchCovered'
    BY <1>1 DEF About, BatchCovered, Ask, Scanning, Covers, isLongRunning
  <2>. QED  BY <2>1, <2>2 DEF About
<1>2. ASSUME NEW r \in Root, discover(r) \/ discoverReloads(r) \/ remove(r) \/ ban(r)
                             \/ unban(r) \/ reload(r)
      PROVE  About'
  <2>1. \E type \in Short \cup {"Reload"} :
            /\ Ask(r, type) /\ contested \subseteq contested'
            /\ WellFormed(Is(r, type))'
    BY <1>2, AskedWell DEF discover, discoverReloads, remove, ban, unban, reload, Short
  <2>. QED  BY <1>1, <2>1, Asked
<1>3. CASE reloadAll
  BY <1>1, <1>3, Asked, AskedWell DEF reloadAll
<1>4. CASE reloadDevice
  BY <1>1, <1>4, Asked, AskedWell DEF reloadDevice
<1>5. CASE pause \/ resume \/ stop
  <2>1. UNCHANGED <<m_tasks, m_currentTask, worker, contested>>
    BY <1>5 DEF pause, resume, stop
  <2>. QED  BY <2>1 DEF About, TasksOK, WellFormed, BatchCovered, worker, Scanning, Covers,
              isLongRunning
<1>. QED  BY <1>2, <1>3, <1>4, <1>5 DEF Call

LEMMA RunAbout == ASSUME Order, About, Run PROVE About'
<1>1. contested' = contested
  BY DEF Run, Starting, Top, Wake, Exit, RefreshTasks, EndTask, runAddRoot, runRemove, runBan,
    runUnban, EndShort, UnbanReloadsParent, BeginReload, BeginReloadDevice, EndReloadDevice,
    EndScan, Pauses, Resumes, ReloadDeviceRoot, Scan, callers
<1>2. ASSUME m_tasks # <<>>, TakeTask PROVE About'
  <2>1. /\ m_tasks \in Seq(Task) /\ Sorted(m_tasks) /\ m_tasks' = Tail(m_tasks)
        /\ \/ m_currentTask' = m_currentTask
           \/ m_currentTask' = Head(m_tasks)
    BY <1>2 DEF TakeTask, Order, TypeOK
  <2>2. \A u : Waits(u) <=> u = Head(m_tasks) \/ IsIn(u, Tail(m_tasks))
    BY <1>2, <2>1, Sequence DEF Waits
  <2>3. \A u : Waits(u)' => Waits(u)
    BY <2>1, <2>2 DEF Waits, IsIn
  <2>4. m_currentTask' # NoTask => WellFormed(m_currentTask')
    BY <2>1, <2>2, WaitsWell DEF About
  <2>5. TasksOK'
    BY <1>1, <2>3, <2>4, WaitsWell, WaitsWellNext DEF About, WellFormed
  <2>6. pc' \notin Scanning /\ pc' # "device"
    BY <1>2, TakeOrder DEF Scanning
  <2>. QED  BY <2>5, <2>6 DEF About, BatchCovered
<1>3. CASE (Top \/ Wake) /\ UNCHANGED <<m_tasks, m_currentTask>> /\ pc' \in {"waiting", "exiting"}
  BY <1>1, <1>3 DEF Top, Wake, About, TasksOK, WellFormed, BatchCovered, Scanning
<1>4. CASE UnbanReloadsParent
  <2>1. TasksOK'
    BY <1>1, <1>4, EnqueueAbout, Asked, AskedWell DEF UnbanReloadsParent, About
  <2>. QED  BY <1>4, <2>1 DEF UnbanReloadsParent, About, BatchCovered, Scanning
<1>5. ASSUME UNCHANGED m_tasks, m_currentTask' = m_currentTask \/ m_currentTask' = NoTask
      PROVE  TasksOK'
  BY <1>1, <1>5 DEF About, TasksOK, WellFormed
<1>6. CASE Starting \/ Exit \/ RefreshTasks \/ EndTask \/ runAddRoot \/ runRemove \/ runBan
           \/ runUnban \/ EndReloadDevice
  <2>1. UNCHANGED m_tasks /\ (m_currentTask' = m_currentTask \/ m_currentTask' = NoTask)
    BY <1>6 DEF Starting, Exit, RefreshTasks, EndTask, runAddRoot, runRemove, runBan,
      runUnban, EndShort, EndReloadDevice
  <2>2. pc' \notin Scanning /\ pc' # "device"
    BY <1>6 DEF Starting, Exit, RefreshTasks, EndTask, runAddRoot, runRemove, runBan,
      runUnban, EndShort, EndReloadDevice, Scanning
  <2>. QED  BY <1>5, <2>1, <2>2 DEF About, BatchCovered
<1>10. CASE BeginReloadDevice
  <2>1. UNCHANGED <<m_tasks, m_currentTask>> /\ pc' = "device" /\ m_currentTask.type = "ReloadDevice"
    BY <1>10 DEF BeginReloadDevice, Runs
  <2>. QED  BY <1>5, <2>1 DEF About, BatchCovered, isLongRunning, Scanning
<1>7. CASE EndScan \/ Pauses \/ Resumes \/ \E r \in Root : Scan(r)
  <2>1. /\ UNCHANGED <<m_tasks, m_currentTask>> /\ batch' \subseteq batch /\ pc \in Scanning
        /\ pc' = "device" => ~isLongRunning(m_currentTask)
    BY <1>7 DEF EndScan, Pauses, Resumes, Scan, Scanning
  <2>2. BatchCovered'
    BY <2>1 DEF About, BatchCovered, Covers, isLongRunning
  <2>. QED  BY <1>5, <2>1, <2>2 DEF About
<1>8. CASE BeginReload
  <2>1. UNCHANGED <<m_tasks, m_currentTask>>
    BY <1>8 DEF BeginReload
  <2>2. \A r \in batch' : Covers(m_currentTask.root, r)
    BY <1>8 DEF BeginReload, ReloadOf
  <2>3. TasksOK'
    BY <1>5, <2>1
  <2>4. BatchCovered'
    BY <1>8, <2>1, <2>2 DEF BatchCovered, Covers, BeginReload
  <2>. QED  BY <2>3, <2>4 DEF About
<1>9. ASSUME NEW r \in Root, ReloadDeviceRoot(r) PROVE About'
  <2>1. UNCHANGED <<m_tasks, m_currentTask>> /\ pc = "device"
    BY <1>9 DEF ReloadDeviceRoot
  <2>2. ~isLongRunning(m_currentTask)
    BY <2>1 DEF About, BatchCovered
  <2>. QED  BY <1>5, <2>1, <2>2 DEF About, BatchCovered, isLongRunning
<1>. QED  BY <1>2, <1>3, <1>4, <1>6, <1>7, <1>8, <1>9, <1>10 DEF Run, Top, Wake, MustWake

-----------------------------------------------------------------------------
(* What enqueue() leaves pending.                                          *)

\* pc moves among the places where no task has begun or has anything left to scan.
Aside == pc' = pc \/ {pc, pc'} \cap (Scanning \cup {"taken", "run", "device"}) = {}

LEMMA BeginsKept ==
    ASSUME UNCHANGED m_currentTask, Aside
    PROVE  \A u : Begins(u)' <=> Begins(u)
BY DEF Begins, Aside

LEMMA EnqueueScans ==
    ASSUME Order, TasksOK', BatchCovered,
           NEW root, NEW type, Is(root, type) \in Task, enqueue(root, type),
           WellFormed(Is(root, type))',
           UNCHANGED <<m_currentTask, batch, onDevice>>, Aside,
           NEW r \in Root \ contested',
           r \in discovering => r \in discovering' \/ (root = r /\ type = "Reload"),
           root = r /\ type = "AddRoot" => r \in discovering'
    PROVE  /\ Backed(r) => Backed(r)'
           /\ Pending(r) => Pending(r)'
           /\ root = r /\ type = "Reload" => Backed(r)'
           /\ root = All /\ type = "Reload" => Pending(r)'
           /\ type = "ReloadDevice" /\ r \in Removable => Pending(r)'
           /\ Has(Is(r, "AddRoot"))' => Has(Is(r, "AddRoot")) \/ (root = r /\ type = "AddRoot")
<1>. DEFINE t == Is(root, type)
            again == Is(m_currentTask.root, "Reload")
<1>1. /\ \A u : Waits(u) /\ ~IsCancelled(t, u) => Waits(u)'
      /\ \A u : Waits(u)' => Waits(u) \/ u = t \/ (Interrupts(t) /\ u = again)
      /\ \/ type \in {"Remove", "Unban"}
         \/ Waits(t)'
         \/ \E u \in Task : Waits(u)' /\ u.root = root /\ u.type \in MadeRedundantBy(type)
      /\ m_isInterrupted' => \/ m_isInterrupted
                             \/ /\ Interrupts(t)
                                /\ \/ IsIn(again, m_tasks')
                                   \/ /\ type \in {"Ban", "Remove"}
                                      /\ root = m_currentTask.root /\ Waits(t)'
  BY EnqueueMoves
<1>2. /\ t.root = root /\ t.type = type /\ \A u \in Task : u = Is(u.root, u.type)
      /\ \A a, b : Is(a, b).root = a /\ Is(a, b).type = b
  BY TaskNamed
<1>. HIDE DEF t, again
<1>3. \A u : Begins(u)' <=> Begins(u)
  BY BeginsKept
<1>4. \A u : Waits(u)' => WellFormed(u)'
  BY WaitsWellNext
<1>5. /\ ~(root = r /\ type \in {"Remove", "Unban"})
      /\ root = All => type = "Reload"
      /\ \A u : Waits(u)' /\ u.type \in {"Remove", "Ban"} => u.root \in Root
      /\ \A u : Waits(u)' /\ u.type = "Remove" => u.root # r
      /\ All \notin Root
      /\ type = "ReloadDevice" => root = Device
  <2>1. All \notin Root /\ All # Device
    BY Constants
  <2>2. WellFormed(t)'
    BY DEF t
  <2>3. type \in Short \cup {"Reload"}
    BY <1>2, TaskNamed DEF t
  <2>. QED  BY <1>2, <1>4, <2>1, <2>2, <2>3 DEF WellFormed, Short
<1>6. root = r /\ type = "Ban" => Waits(Is(r, "Ban"))'
  <2>. SUFFICES ASSUME root = r, type = "Ban" PROVE Waits(Is(r, "Ban"))'
    OBVIOUS
  <2>1. \A u \in Task : u.root = root /\ u.type \in MadeRedundantBy(type) => u = Is(r, "Ban")
    BY <1>2 DEF MadeRedundantBy
  <2>. QED  BY <1>1, <2>1 DEF t
<1>7. root = r /\ type = "Reload" => Backed(r)'
  <2>. SUFFICES ASSUME root = r, type = "Reload" PROVE Backed(r)'
    OBVIOUS
  <2>1. \A u \in Task : u.root = root /\ u.type \in MadeRedundantBy(type) =>
            u = Is(r, "Reload") \/ u = Is(r, "Ban") \/ u = Is(r, "Remove")
    BY <1>2 DEF MadeRedundantBy
  <2>2. ~Waits(Is(r, "Remove"))'
    BY <1>2, <1>5
  <2>3. Waits(Is(r, "Reload"))' \/ Waits(Is(r, "Ban"))'
    BY <1>1, <2>1, <2>2 DEF t
  <2>. QED  BY <2>3 DEF Backed, Has
<1>8. Waits(Is(r, "Reload")) => Backed(r)'
  <2>. SUFFICES ASSUME Waits(Is(r, "Reload")), ~Waits(Is(r, "Reload"))' PROVE Backed(r)'
    BY DEF Backed
  <2>1. IsCancelled(t, Is(r, "Reload"))
    BY <1>1
  <2>2. root = r /\ type \in {"AddRoot", "Ban"}
    BY <1>2, <1>5, <2>1 DEF IsCancelled, Cancels
  <2>. QED  BY <1>6, <2>2 DEF Backed, Has
<1>9. Has(Is(r, "Ban")) => Has(Is(r, "Ban"))'
  <2>1. ~IsCancelled(t, Is(r, "Ban"))
    BY <1>2, <1>5 DEF IsCancelled, Cancels
  <2>. QED  BY <1>1, <1>3, <2>1 DEF Has
<1>10. Backed(r) => Backed(r)'
  <2>1. Has(Is(r, "Ban"))' => Backed(r)'
    BY DEF Backed
  <2>2. r \in discovering' => Backed(r)'
    BY DEF Backed
  <2>. QED  BY <1>7, <1>8, <1>9, <2>1, <2>2 DEF Backed
<1>11. Has(Is(All, "Reload")) => Has(Is(All, "Reload"))'
  <2>1. ~IsCancelled(t, Is(All, "Reload"))
    BY <1>2, <1>5 DEF IsCancelled, Cancels
  <2>. QED  BY <1>1, <1>3, <2>1 DEF Has
<1>12. Has(Is(Device, "ReloadDevice")) => Has(Is(Device, "ReloadDevice"))'
  <2>1. ~IsCancelled(t, Is(Device, "ReloadDevice"))
    BY <1>2 DEF IsCancelled, Cancels
  <2>. QED  BY <1>1, <1>3, <2>1 DEF Has
<1>13. r \in batch /\ pc \in Scanning /\ ~m_isInterrupted => Pending(r)'
  <2>. SUFFICES ASSUME r \in batch, pc \in Scanning, ~m_isInterrupted, m_isInterrupted'
                PROVE  Pending(r)'
    BY DEF Pending, Aside
  <2>1. m_currentTask.root \in {All, r}
    BY <1>1 DEF BatchCovered, Covers, Interrupts
  <2>2. CASE IsIn(again, m_tasks')
    <3>1. again = Is(All, "Reload") \/ again = Is(r, "Reload")
      BY <2>1 DEF again
    <3>2. Waits(Is(All, "Reload"))' \/ Waits(Is(r, "Reload"))'
      BY <2>2, <3>1 DEF Waits
    <3>. QED  BY <3>2 DEF Pending, Has
  <2>3. CASE type \in {"Ban", "Remove"} /\ root = m_currentTask.root
    <3>1. type = "Ban" /\ root = r
      BY <1>5, <2>1, <2>3
    <3>. QED  BY <1>6, <3>1 DEF Pending, Backed, Has
  <2>. QED  BY <1>1, <2>2, <2>3
<1>14. Pending(r) => Pending(r)'
  <2>1. Backed(r)' => Pending(r)'
    BY DEF Pending
  <2>2. Has(Is(r, "Reload")) => Pending(r)'
    <3>1. Begins(Is(r, "Reload"))' => Pending(r)'
      BY DEF Pending, Has
    <3>. QED  BY <1>3, <1>8, <2>1, <3>1 DEF Has
  <2>3. Has(Is(All, "Reload"))' => Pending(r)'
    BY DEF Pending
  <2>4. r \in Removable /\ Has(Is(Device, "ReloadDevice"))' => Pending(r)'
    BY DEF Pending
  <2>5. r \in onDevice /\ pc \in Scanning \cup {"device"} /\ ~isLongRunning(m_currentTask)
            => Pending(r)'
    BY DEF Pending, Aside, isLongRunning
  <2>. QED  BY <1>10, <1>11, <1>12, <1>13, <2>1, <2>2, <2>3, <2>4, <2>5 DEF Pending
<1>15. root = All /\ type = "Reload" => Pending(r)'
  <2>. SUFFICES ASSUME root = All, type = "Reload" PROVE Has(Is(All, "Reload"))'
    BY DEF Pending
  <2>1. \A u \in Task : Waits(u)' /\ u.root = root /\ u.type \in MadeRedundantBy(type) =>
            u = Is(All, "Reload")
    BY <1>2, <1>5 DEF MadeRedundantBy
  <2>. QED  BY <1>1, <2>1 DEF t, Has
<1>16. type = "ReloadDevice" /\ r \in Removable => Pending(r)'
  <2>. SUFFICES ASSUME type = "ReloadDevice", r \in Removable PROVE Has(Is(Device, "ReloadDevice"))'
    BY DEF Pending
  <2>1. \A u \in Task : u.root = root /\ u.type \in MadeRedundantBy(type) =>
            u = Is(Device, "ReloadDevice")
    BY <1>2, <1>5 DEF MadeRedundantBy
  <2>. QED  BY <1>1, <1>5, <2>1 DEF t, Has
<1>17. Has(Is(r, "AddRoot"))' => Has(Is(r, "AddRoot")) \/ (root = r /\ type = "AddRoot")
  <2>1. Is(r, "AddRoot") # again /\ (Is(r, "AddRoot") = t => root = r /\ type = "AddRoot")
    BY <1>2 DEF again
  <2>. QED  BY <1>1, <1>3, <2>1 DEF Has
<1>. QED  BY <1>7, <1>10, <1>14, <1>15, <1>16, <1>17

\* A ban that came last stays, as long as no unban comes.
LEMMA EnqueueBans ==
    ASSUME Order, NEW root, NEW type, Is(root, type) \in Task, enqueue(root, type),
           UNCHANGED <<m_currentTask, folders>>, Aside,
           NEW r \in Root, BanOK(r),
           wish[r]' = "Ban" => \/ root = r /\ type = "Ban"
                               \/ wish[r] = "Ban" /\ ~(root = r /\ type = "Unban")
    PROVE  BanOK(r)'
<1>. DEFINE t == Is(root, type)
            again == Is(m_currentTask.root, "Reload")
            B == Is(r, "Ban")
            U == Is(r, "Unban")
<1>1. /\ \A u : Waits(u) /\ ~IsCancelled(t, u) => Waits(u)'
      /\ \A u : Waits(u)' => Waits(u) \/ u = t \/ (Interrupts(t) /\ u = again)
      /\ \/ type \in {"Remove", "Unban"}
         \/ Waits(t)'
         \/ \E u \in Task : Waits(u)' /\ u.root = root /\ u.type \in MadeRedundantBy(type)
      /\ type = "Ban" /\ ~Waits(t) => ~Waits(Is(root, "Unban"))'
      /\ type = "Unban" => ~Waits(Is(root, "Ban"))'
  BY EnqueueMoves
<1>2. /\ t.root = root /\ t.type = type /\ \A u \in Task : u = Is(u.root, u.type)
      /\ \A a, b : Is(a, b).root = a /\ Is(a, b).type = b
  BY TaskNamed
<1>3. \A u : Begins(u)' <=> Begins(u)
  BY BeginsKept
<1>4. /\ t = B <=> root = r /\ type = "Ban"
      /\ t = U <=> root = r /\ type = "Unban"
      /\ B # U /\ B # again /\ U # again
  BY <1>2
<1>5. Waits(B)' => Waits(B) \/ t = B
  BY <1>1, <1>4
<1>6. Waits(U)' => Waits(U) \/ t = U
  BY <1>1, <1>4
<1>7. t = B /\ ~Waits(B) => ~Waits(U)'
  BY <1>1, <1>4
<1>8. t = U => ~Waits(B)'
  BY <1>1, <1>4
<1>9. t = B => Waits(B)'
  <2>. SUFFICES ASSUME t = B PROVE Waits(B)'
    OBVIOUS
  <2>1. \A u \in Task : u.root = root /\ u.type \in MadeRedundantBy(type) => u = B
    BY <1>2, <1>4 DEF MadeRedundantBy
  <2>. QED  BY <1>1, <1>4, <2>1
<1>10. t # U /\ Waits(B) => Waits(B)'
  <2>1. t # U => ~IsCancelled(t, B)
    BY <1>2, <1>4 DEF IsCancelled, Cancels
  <2>. QED  BY <1>1, <2>1
<1>. HIDE DEF t, again
<1>11. ~(Waits(B) /\ Waits(U))
  BY DEF BanOK
<1>12. ~(Waits(B)' /\ Waits(U)')
  BY <1>4, <1>5, <1>6, <1>7, <1>8, <1>11
<1>13. ASSUME wish[r]' = "Ban"
       PROVE  /\ folders[r] = "banned" \/ Has(B)'
              /\ ~Waits(U)'
              /\ Begins(U)' => Waits(B)'
  <2>1. CASE t = B
    BY <1>4, <1>6, <1>7, <1>9, <1>11, <2>1 DEF Has
  <2>2. CASE t # B
    <3>1. wish[r] = "Ban" /\ t # U
      BY <1>4, <1>13, <2>2
    <3>2. /\ folders[r] = "banned" \/ Has(B)
          /\ ~Waits(U)
          /\ Begins(U) => Waits(B)
      BY <3>1 DEF BanOK
    <3>. QED  BY <1>3, <1>6, <1>10, <3>1, <3>2 DEF Has
  <2>. QED  BY <2>1, <2>2
<1>. QED  BY <1>12, <1>13 DEF BanOK

-----------------------------------------------------------------------------
(* The calls.                                                              *)

LEMMA AskScans ==
    ASSUME IInv, TasksOK',
           NEW root, NEW type, Is(root, type) \in Task, Ask(root, type),
           WellFormed(Is(root, type))', contested \subseteq contested',
           \A r \in Root :
               /\ r \in discovering => r \in discovering' \/ (root = r /\ type = "Reload")
               /\ root = r /\ type = "AddRoot" => r \in discovering'
               /\ due[r]' => \/ due[r]
                             \/ root = r /\ type \in {"AddRoot", "Reload"}
                             \/ IsKnown(r) /\ root = All /\ type = "Reload"
                             \/ IsKnown(r) /\ r \in Removable /\ type = "ReloadDevice"
               /\ wish[r]' = "Ban" => \/ root = r /\ type = "Ban"
                                      \/ wish[r] = "Ban" /\ ~(root = r /\ type = "Unban")
    PROVE  ScansOK' /\ BansOK'
<1>1. Order /\ BatchCovered /\ ScansOK /\ BansOK
  BY DEF IInv
<1>2. /\ enqueue(root, type) /\ UNCHANGED <<m_currentTask, batch, onDevice, folders>>
      /\ Aside /\ (Live' => Live)
  BY DEF Ask, Aside, Scanning, Live
<1>3. BansOK'
  BY <1>1, <1>2, EnqueueBans DEF BansOK
<1>4. ASSUME Live, NEW r \in Root \ contested'
      PROVE  DueOK(r)'
  <2>1. DueOK(r)
    BY <1>1, <1>4 DEF ScansOK
  <2>2. /\ Backed(r) => Backed(r)'
        /\ Pending(r) => Pending(r)'
        /\ root = r /\ type = "Reload" => Backed(r)'
        /\ root = All /\ type = "Reload" => Pending(r)'
        /\ type = "ReloadDevice" /\ r \in Removable => Pending(r)'
        /\ Has(Is(r, "AddRoot"))' => Has(Is(r, "AddRoot")) \/ (root = r /\ type = "AddRoot")
    BY <1>1, <1>2, EnqueueScans
  <2>3. Backed(r)' => Pending(r)'
    BY DEF Pending
  <2>4. root = r /\ type = "AddRoot" => Backed(r)'
    BY DEF Backed
  <2>5. due[r]' /\ ~due[r] => Backed(r)' \/ (IsKnown(r) /\ Pending(r)')
    BY <2>2, <2>4
  <2>. QED  BY <1>2, <2>1, <2>2, <2>3, <2>4, <2>5 DEF DueOK, IsKnown
<1>. QED  BY <1>2, <1>3, <1>4 DEF ScansOK

LEMMA CallScans == ASSUME IInv, Call PROVE ScansOK' /\ BansOK'
<1>1. Order /\ TasksOK /\ About
  BY DEF IInv, About
<1>2. TasksOK'
  BY <1>1, CallAbout DEF About
<1>3. /\ wish \in [Root -> {"none", "AddRoot", "Remove", "Ban", "Unban"}]
      /\ due \in [Root -> BOOLEAN]
      /\ All \notin Root /\ Device \notin Root
  BY <1>1, Constants DEF Order, TypeOK
<1>4. ASSUME NEW r \in Root, discover(r) \/ discoverReloads(r) PROVE ScansOK' /\ BansOK'
  <2>1. \E type \in {"AddRoot", "Reload"} :
          /\ Ask(r, type) /\ UNCHANGED contested
          /\ \A s \in Root :
               /\ s \in discovering => s \in discovering' \/ (r = s /\ type = "Reload")
               /\ r = s /\ type = "AddRoot" => s \in discovering'
               /\ due[s]' => due[s] \/ (r = s /\ type \in {"AddRoot", "Reload"})
               /\ wish[s]' = "Ban" => wish[s] = "Ban"
    <3>1. CASE discover(r)
      BY <1>3, <3>1 DEF discover, Wish
    <3>2. CASE discoverReloads(r)
      BY <1>3, <3>2 DEF discoverReloads
    <3>. QED  BY <1>4, <3>1, <3>2
  <2>2. PICK kind \in {"AddRoot", "Reload"} :
          /\ Ask(r, kind) /\ UNCHANGED contested
          /\ \A s \in Root :
               /\ s \in discovering => s \in discovering' \/ (r = s /\ kind = "Reload")
               /\ r = s /\ kind = "AddRoot" => s \in discovering'
               /\ due[s]' => due[s] \/ (r = s /\ kind \in {"AddRoot", "Reload"})
               /\ wish[s]' = "Ban" => wish[s] = "Ban"
    BY <2>1
  <2>3. Is(r, kind) \in Task /\ WellFormed(Is(r, kind))'
    BY Asked, AskedWell DEF Short
  <2>. QED  BY <1>2, <2>2, <2>3, AskScans
<1>5. ASSUME NEW r \in Root, remove(r) \/ ban(r) \/ unban(r) \/ reload(r) PROVE ScansOK' /\ BansOK'
  <2>1. \E type \in {"Remove", "Ban", "Unban", "Reload"} :
          /\ Ask(r, type) /\ UNCHANGED discovering /\ contested \subseteq contested'
          /\ type \in {"Remove", "Unban"} => r \in contested'
          /\ \A s \in Root :
               /\ due[s]' => due[s] \/ (r = s /\ type = "Reload")
               /\ wish[s]' = "Ban" => \/ r = s /\ type = "Ban"
                                      \/ wish[s] = "Ban" /\ ~(r = s /\ type = "Unban")
    <3>1. CASE remove(r)
      BY <1>3, <3>1 DEF remove, Wish
    <3>2. CASE ban(r)
      BY <1>3, <3>2 DEF ban, Wish
    <3>3. CASE unban(r)
      BY <1>3, <3>3 DEF unban, Wish
    <3>4. CASE reload(r)
      BY <1>3, <3>4 DEF reload
    <3>. QED  BY <1>5, <3>1, <3>2, <3>3, <3>4
  <2>2. PICK kind \in {"Remove", "Ban", "Unban", "Reload"} :
          /\ Ask(r, kind) /\ UNCHANGED discovering /\ contested \subseteq contested'
          /\ kind \in {"Remove", "Unban"} => r \in contested'
          /\ \A s \in Root :
               /\ due[s]' => due[s] \/ (r = s /\ kind = "Reload")
               /\ wish[s]' = "Ban" => \/ r = s /\ kind = "Ban"
                                      \/ wish[s] = "Ban" /\ ~(r = s /\ kind = "Unban")
    BY <2>1
  <2>3. Is(r, kind) \in Task /\ WellFormed(Is(r, kind))'
    BY <2>2, Asked, AskedWell DEF Short
  <2>4. \A s \in Root :
               /\ s \in discovering => s \in discovering' \/ (r = s /\ kind = "Reload")
               /\ r = s /\ kind = "AddRoot" => s \in discovering'
               /\ due[s]' => \/ due[s]
                             \/ r = s /\ kind \in {"AddRoot", "Reload"}
                             \/ IsKnown(s) /\ r = All /\ kind = "Reload"
                             \/ IsKnown(s) /\ s \in Removable /\ kind = "ReloadDevice"
               /\ wish[s]' = "Ban" => \/ r = s /\ kind = "Ban"
                                      \/ wish[s] = "Ban" /\ ~(r = s /\ kind = "Unban")
    BY <2>2
  <2>. QED  BY <1>2, <2>2, <2>3, <2>4, AskScans
<1>6. CASE reloadAll
  <2>1. /\ Ask(All, "Reload") /\ UNCHANGED <<discovering, contested, wish>>
        /\ \A s \in Root : due[s]' => due[s] \/ IsKnown(s)
    BY <1>6 DEF reloadAll
  <2>2. \A s \in Root :
               /\ s \in discovering => s \in discovering' \/ (All = s /\ "Reload" = "Reload")
               /\ All = s /\ "Reload" = "AddRoot" => s \in discovering'
               /\ due[s]' => \/ due[s]
                             \/ All = s /\ "Reload" \in {"AddRoot", "Reload"}
                             \/ IsKnown(s) /\ All = All /\ "Reload" = "Reload"
                             \/ IsKnown(s) /\ s \in Removable /\ "Reload" = "ReloadDevice"
               /\ wish[s]' = "Ban" => \/ All = s /\ "Reload" = "Ban"
                                      \/ wish[s] = "Ban" /\ ~(All = s /\ "Reload" = "Unban")
    BY <1>3, <2>1
  <2>. QED  BY <1>2, <2>1, <2>2, AskScans, Asked, AskedWell
<1>7. CASE reloadDevice
  <2>1. /\ Ask(Device, "ReloadDevice") /\ UNCHANGED <<discovering, contested, wish>>
        /\ \A s \in Root : due[s]' => due[s] \/ (s \in Removable /\ IsKnown(s))
    BY <1>7 DEF reloadDevice
  <2>2. \A s \in Root :
               /\ s \in discovering => s \in discovering' \/ (Device = s /\ "ReloadDevice" = "Reload")
               /\ Device = s /\ "ReloadDevice" = "AddRoot" => s \in discovering'
               /\ due[s]' => \/ due[s]
                             \/ Device = s /\ "ReloadDevice" \in {"AddRoot", "Reload"}
                             \/ IsKnown(s) /\ Device = All /\ "ReloadDevice" = "Reload"
                             \/ IsKnown(s) /\ s \in Removable /\ "ReloadDevice" = "ReloadDevice"
               /\ wish[s]' = "Ban" => \/ Device = s /\ "ReloadDevice" = "Ban"
                                      \/ wish[s] = "Ban" /\ ~(Device = s /\ "ReloadDevice" = "Unban")
    BY <1>3, <2>1
  <2>. QED  BY <1>2, <2>1, <2>2, AskScans, Asked, AskedWell
<1>8. CASE pause \/ resume \/ stop
  <2>1. /\ UNCHANGED <<m_tasks, m_currentTask, pc, batch, onDevice, folders, discovering, wish,
                       due, contested>>
        /\ Live' => Live /\ (UNCHANGED m_isInterrupted \/ pc = "unstarted")
    BY <1>8 DEF pause, resume, stop, Live, worker
  <2>2. /\ \A u : Waits(u)' <=> Waits(u)
        /\ \A u : Begins(u)' <=> Begins(u)
    BY <2>1 DEF Waits, IsIn, Begins
  <2>3. BansOK'
    BY <2>1, <2>2 DEF IInv, BansOK, BanOK, Has
  <2>4. Live' => \A r \in Root \ contested : DueOK(r)'
    BY <2>1, <2>2 DEF IInv, ScansOK, DueOK, Pending, Backed, Has, isLongRunning, Scanning
  <2>. QED  BY <2>1, <2>3, <2>4 DEF ScansOK
<1>. QED  BY <1>4, <1>5, <1>6, <1>7, <1>8 DEF Call

-----------------------------------------------------------------------------
(* The steps of the thread.                                                *)

\* A root whose part of the state only gets better.
LEMMA StillDue ==
    ASSUME NEW r \in Root, DueOK(r), UNCHANGED folders, due[r]' => due[r],
           Backed(r) => Backed(r)',
           folders[r] = "root" /\ Pending(r) => Pending(r)',
           Has(Is(r, "AddRoot"))' => Has(Is(r, "AddRoot"))
    PROVE  DueOK(r)'
BY DEF DueOK

\* The current task leaves its place, or does not matter to the root.
LEMMA LoopScans ==
    ASSUME IInv, UNCHANGED <<m_tasks, m_isInterrupted, batch, folders, wish, due, contested, discovering>>,
           \A u \in Task : Begins(u)' <=> Begins(u), Live' => Live,
           \A r \in onDevice : pc \in Scanning \cup {"device"} /\ ~isLongRunning(m_currentTask) =>
               r \in onDevice' /\ pc' \in Scanning \cup {"device"} /\ ~isLongRunning(m_currentTask)',
           pc \in Scanning => pc' \in Scanning \/ batch = {} \/ m_isInterrupted
    PROVE  ScansOK' /\ BansOK'
<1>1. \A r \in Root, type \in Short \cup {"Reload"} : Is(r, type) \in Task
  BY Asked
<1>2. Is(All, "Reload") \in Task /\ Is(Device, "ReloadDevice") \in Task
  BY Asked
<1>3. \A u : Waits(u)' <=> Waits(u)
  BY DEF Waits, IsIn
<1>4. \A u \in Task : Has(u)' <=> Has(u)
  BY <1>3 DEF Has
<1>5. \A r \in Root : /\ Has(Is(r, "Ban"))' <=> Has(Is(r, "Ban"))
                      /\ Has(Is(r, "AddRoot"))' <=> Has(Is(r, "AddRoot"))
                      /\ Has(Is(r, "Reload"))' <=> Has(Is(r, "Reload"))
                      /\ Begins(Is(r, "Unban"))' <=> Begins(Is(r, "Unban"))
  BY <1>1, <1>4 DEF Short
<1>6. BansOK'
  BY <1>3, <1>5 DEF IInv, BansOK, BanOK
<1>7. ASSUME NEW r \in Root \ contested, DueOK(r) PROVE DueOK(r)'
  <2>1. Backed(r) => Backed(r)'
    BY <1>3, <1>5 DEF Backed
  <2>2. Pending(r) => Pending(r)'
    BY <1>2, <1>4, <1>5, <2>1 DEF Pending
  <2>. QED  BY <1>5, <1>7, <2>1, <2>2, StillDue
<1>. QED  BY <1>6, <1>7 DEF IInv, ScansOK

\* The task that is taken has been waiting, and no Reload is taken before a short task.
LEMMA TakeScans ==
    ASSUME IInv, m_tasks # <<>>, TakeTask, pc \in {"top", "waiting"},
           UNCHANGED <<m_run, m_isInterrupted, batch, onDevice, folders, callers>>
    PROVE  ScansOK' /\ BansOK'
<1>. DEFINE h == Head(m_tasks)
<1>1. /\ m_tasks \in Seq(Task) /\ Sorted(m_tasks) /\ m_tasks' = Tail(m_tasks)
  BY DEF IInv, Order, TypeOK, TakeTask
<1>2. /\ \A u : Waits(u) <=> u = h \/ IsIn(u, Tail(m_tasks))
      /\ isLongRunning(h) => \A u : IsIn(u, Tail(m_tasks)) => isLongRunning(u)
  BY <1>1, Sequence DEF Waits
<1>. HIDE DEF h
<1>3. /\ \A u : Waits(u) <=> u = h \/ Waits(u)'
      /\ isLongRunning(h) => \A u : Waits(u)' => isLongRunning(u)
  BY <1>1, <1>2 DEF Waits, IsIn
<1>4. /\ \A u : ~Begins(u)
      /\ \/ isLongRunning(h) /\ ~m_run /\ pc' = "top" /\ \A u : ~Begins(u)'
         \/ \A u : Begins(u)' <=> u = h
  BY DEF Begins, TakeTask, h
<1>5. Live' => m_run
  BY DEF Live, TakeTask
<1>6. ASSUME NEW r \in Root PROVE BanOK(r)'
  <2>1. BanOK(r)
    BY DEF IInv, BansOK
  <2>2. \A a, b : Is(a, b).type = b
    BY TaskNamed
  <2>3. isLongRunning(h) => Is(r, "Ban") # h /\ Is(r, "Unban") # h
    BY <2>2 DEF isLongRunning
  <2>4. Has(Is(r, "Ban")) => Has(Is(r, "Ban"))'
    BY <1>3, <1>4, <2>3 DEF Has
  <2>5. UNCHANGED <<wish, folders>>
    BY DEF callers
  <2>. QED  BY <1>3, <1>4, <2>1, <2>4, <2>5 DEF BanOK
<1>7. ASSUME Live', NEW r \in Root \ contested PROVE DueOK(r)'
  <2>1. DueOK(r)
    BY <1>5, <1>7 DEF IInv, ScansOK, Live
  <2>2. \A u : Has(u)' <=> Has(u)
    BY <1>3, <1>4, <1>5, <1>7 DEF Has
  <2>3. \A u : Waits(u) => Has(u)'
    BY <2>2 DEF Has
  <2>4. UNCHANGED <<discovering, due, folders>>
    BY DEF callers
  <2>5. Backed(r) => Backed(r)' \/ Has(Is(r, "Reload"))'
    BY <2>2, <2>3, <2>4 DEF Backed
  <2>6. Pending(r) => Pending(r)'
    <3>1. pc \notin Scanning \cup {"device"}
      BY DEF Scanning
    <3>. QED  BY <2>2, <2>5, <3>1 DEF Pending
  <2>7. Backed(r) /\ Has(Is(r, "AddRoot"))' => Backed(r)'
    <3>. SUFFICES ASSUME Waits(Is(r, "Reload")), Has(Is(r, "AddRoot"))', ~Waits(Is(r, "Reload"))'
                  PROVE  FALSE
      BY <2>2, <2>4 DEF Backed
    <3>1. h = Is(r, "Reload")
      BY <1>3
    <3>2. isLongRunning(h) /\ ~isLongRunning(Is(r, "AddRoot")) /\ Is(r, "AddRoot") # h
      BY <3>1, TaskNamed DEF isLongRunning
    <3>. QED  BY <1>3, <1>4, <3>2 DEF Has
  <2>. QED  BY <2>1, <2>2, <2>4, <2>6, <2>7 DEF DueOK
<1>. QED  BY <1>6, <1>7 DEF ScansOK, BansOK, callers

\* What a running task leaves: the list, and no task that begins.
LEMMA RunningTask ==
    ASSUME IInv, NEW type \in Short \cup {"Reload"}, Runs(type), pc' \notin {"taken", "run"},
           UNCHANGED m_tasks
    PROVE  /\ m_currentTask \in Task /\ WellFormed(m_currentTask)
           /\ m_currentTask = Is(m_currentTask.root, type)
           /\ \A u : Waits(u)' <=> Waits(u)
           /\ \A u : Has(u)' <=> Waits(u)
           /\ \A u : Begins(u) <=> u = m_currentTask
           /\ \A u : ~Begins(u)'
           /\ \A a, b : b # type => (Has(Is(a, b)) <=> Waits(Is(a, b)))
<1>1. m_currentTask \in Task /\ m_currentTask # NoTask /\ m_currentTask.type = type
  BY Constants DEF IInv, Order, TypeOK, Runs
<1>2. \A u : Begins(u) <=> u = m_currentTask
  BY DEF Begins, Runs
<1>3. (\A u : ~Begins(u)') /\ \A u : Waits(u)' <=> Waits(u)
  BY DEF Begins, Waits, IsIn
<1>. QED  BY <1>1, <1>2, <1>3, TaskNamed DEF IInv, TasksOK, Has

LEMMA ShortScans ==
    ASSUME IInv, runAddRoot \/ runRemove \/ runBan \/ runUnban
    PROVE  ScansOK' /\ BansOK'
<1>0. PICK c : c = m_currentTask.root
  OBVIOUS
<1>1. PICK type \in {"AddRoot", "Remove", "Ban", "Unban"} :
          /\ Runs(type)
          /\ \/ type = "AddRoot" /\ runAddRoot
             \/ type = "Remove" /\ runRemove
             \/ type = "Ban" /\ runBan
             \/ type = "Unban" /\ runUnban
  BY DEF runAddRoot, runRemove, runBan, runUnban
<1>2. /\ UNCHANGED <<m_tasks, m_currentTask, m_run, m_isInterrupted, batch, onDevice,
                     discovering, contested>>
      /\ pc = "run" /\ pc' \in {"end", "unbanned"}
  BY DEF runAddRoot, runRemove, runBan, runUnban, EndShort, Runs
<1>3. /\ m_currentTask \in Task /\ WellFormed(m_currentTask)
      /\ m_currentTask = Is(c, type)
      /\ \A u : Waits(u)' <=> Waits(u)
      /\ \A u : Has(u)' <=> Waits(u)
      /\ \A u : Begins(u) <=> u = m_currentTask
      /\ \A u : ~Begins(u)'
      /\ \A a, b : b # type => (Has(Is(a, b)) <=> Waits(Is(a, b)))
  BY <1>0, <1>1, <1>2, RunningTask DEF Short
<1>4. \A a, b : Is(a, b).root = a /\ Is(a, b).type = b
  BY TaskNamed
<1>5. c \in Root /\ (type \in {"Remove", "Unban"} => c \in contested)
  BY <1>1, <1>3, <1>4 DEF WellFormed, Short
<1>6. /\ folders \in [Root -> {"absent", "root", "banned"}]
      /\ wish \in [Root -> {"none", "AddRoot", "Remove", "Ban", "Unban"}]
      /\ due \in [Root -> BOOLEAN]
  BY DEF IInv, Order, TypeOK
<1>7. \A r \in Root : r # c => folders[r]' = folders[r] /\ due[r]' = due[r] /\ wish[r]' = wish[r]
  BY <1>0, <1>1, <1>6 DEF runAddRoot, runRemove, runBan, runUnban, Reported
<1>8. /\ type = "AddRoot" => /\ folders[c]' = folders[c] \/ (folders[c] = "absent" /\ folders[c]' = "root")
                             /\ due[c]' = due[c] /\ (wish[c]' = "Ban" => wish[c] = "Ban")
      /\ type = "Remove" => /\ folders[c] = "banned" => folders[c]' = "banned"
                            /\ wish[c]' = "Ban" => wish[c] = "Ban"
      /\ type \in {"Ban", "Unban"} => (wish[c]' = "Ban" => wish[c] = "Ban")
  <2>1. CASE runAddRoot /\ type = "AddRoot"
    BY <1>0, <1>5, <1>6, <2>1 DEF runAddRoot, Reported
  <2>2. CASE runRemove /\ type = "Remove"
    BY <1>0, <1>5, <1>6, <2>2 DEF runRemove, Reported, IsKnown
  <2>3. CASE runUnban /\ type = "Unban"
    BY <1>0, <1>5, <1>6, <2>3 DEF runUnban, Reported
  <2>4. CASE runBan /\ type = "Ban"
    BY <1>0, <1>5, <1>6, <2>4 DEF runBan, Reported
  <2>. QED  BY <1>1, <2>1, <2>2, <2>3, <2>4
<1>9. type = "Ban" => \/ folders[c]' = "banned"
                      \/ due[c]' = FALSE /\ wish[c]' # "Ban"
  <2>. SUFFICES ASSUME runBan PROVE folders[c]' = "banned" \/ (due[c]' = FALSE /\ wish[c]' # "Ban")
    BY <1>1
  <2>1. PICK answer \in BOOLEAN :
            /\ folders' = IF answer THEN [folders EXCEPT ![c] = "banned"] ELSE folders
            /\ due' = [due EXCEPT ![c] = @ /\ answer]
            /\ Reported(c, answer)
    BY <1>0 DEF runBan, Answers
  <2>2. CASE answer
    BY <1>5, <1>6, <2>1, <2>2
  <2>3. CASE ~answer
    <3>1. due[c]' = FALSE
      BY <1>5, <1>6, <2>1, <2>3
    <3>2. m_currentTask.type = "Ban"
      BY DEF runBan, Runs
    <3>3. wish[c]' # "Ban"
      BY <1>5, <1>6, <2>1, <2>3, <3>2 DEF Reported
    <3>. QED  BY <3>1, <3>3
  <2>. QED  BY <2>2, <2>3
<1>10. ASSUME NEW r \in Root PROVE BanOK(r)'
  <2>1. BanOK(r)
    BY DEF IInv, BansOK
  <2>2. CASE type = "Ban" /\ r = c
    BY <1>3, <1>8, <1>9, <2>1, <2>2 DEF BanOK
  <2>3. CASE type = "Unban" /\ r = c
    <3>1. Begins(Is(r, "Unban"))
      BY <1>3, <2>3
    <3>. QED  BY <1>3, <1>8, <2>1, <2>3, <3>1 DEF BanOK
  <2>4. CASE type \in {"AddRoot", "Remove"} \/ r # c
    <3>1. wish[r]' = "Ban" => wish[r] = "Ban"
      BY <1>7, <1>8, <2>4
    <3>2. folders[r] = "banned" => folders[r]' = "banned"
      BY <1>7, <1>8, <2>4
    <3>3. Has(Is(r, "Ban")) => Waits(Is(r, "Ban"))
      BY <1>3, <1>4, <2>4 DEF Has
    <3>. QED  BY <1>3, <2>1, <3>1, <3>2, <3>3 DEF BanOK
  <2>. QED  BY <1>1, <2>2, <2>3, <2>4
<1>11. ASSUME Live, NEW r \in Root \ contested PROVE DueOK(r)'
  <2>1. DueOK(r)
    BY <1>11 DEF IInv, ScansOK
  <2>2. ~(type = "Ban" /\ r = c) => (Has(Is(r, "Ban")) => Has(Is(r, "Ban"))')
    BY <1>3, <1>4 DEF Has
  <2>3. ~(type = "Ban" /\ r = c) => (Backed(r) => Backed(r)')
    BY <1>2, <1>3, <2>2 DEF Backed
  <2>4. Has(Is(r, "AddRoot"))' => Has(Is(r, "AddRoot"))
    BY <1>3 DEF Has
  <2>5. ~(type = "Ban" /\ r = c) => (Pending(r) => Pending(r)')
    <3>1. pc \notin Scanning \cup {"device"}
      BY <1>2 DEF Scanning
    <3>2. /\ Has(Is(r, "Reload")) => Waits(Is(r, "Reload"))
          /\ Has(Is(All, "Reload")) => Has(Is(All, "Reload"))'
          /\ Has(Is(Device, "ReloadDevice")) => Has(Is(Device, "ReloadDevice"))'
      BY <1>3
    <3>. QED  BY <1>3, <2>3, <3>1, <3>2 DEF Pending, Backed
  <2>6. CASE type = "Ban" /\ r = c
    BY <1>9, <2>6 DEF DueOK
  <2>7. CASE type = "AddRoot" /\ r = c
    <3>1. Has(Is(r, "AddRoot"))
      BY <1>3, <2>7 DEF Has
    <3>2. Backed(r)' => Pending(r)'
      BY DEF Pending
    <3>. QED  BY <1>8, <2>1, <2>3, <2>4, <2>5, <2>7, <3>1, <3>2 DEF DueOK
  <2>8. CASE r # c
    BY <1>7, <2>1, <2>3, <2>4, <2>5, <2>8 DEF DueOK
  <2>. QED  BY <1>1, <1>5, <1>11, <2>6, <2>7, <2>8
<1>12. Live' => Live
  BY <1>2 DEF Live
<1>. QED  BY <1>2, <1>10, <1>11, <1>12 DEF ScansOK, BansOK

\* A reload of path: what it covers is in the batch, or was reported out of reach.
LEMMA ReloadScans ==
    ASSUME TypeOK, NEW path, NEW here \in Reachable, ReloadOf(path, here), NEW r \in Root, due[r]'
    PROVE  /\ due[r] /\ m_isInterrupted' = FALSE
           /\ folders[r] = "root" /\ Covers(path, r) => r \in batch'
<1>1. due' = [s \in Root |-> due[s] /\ ~(IsKnown(s) /\ Covers(path, s) /\ s \notin here)]
  BY DEF ReloadOf
<1>2. due[r]' = (due[r] /\ ~(IsKnown(r) /\ Covers(path, r) /\ r \notin here))
  BY <1>1
<1>3. m_isInterrupted' = FALSE /\ batch' = {s \in here : IsKnown(s) /\ Covers(path, s)}
  BY DEF ReloadOf
<1>. QED  BY <1>2, <1>3 DEF IsKnown

LEMMA BeginScans ==
    ASSUME IInv, BeginReload \/ BeginReloadDevice
    PROVE  ScansOK' /\ BansOK'
<1>1. PICK type \in {"Reload", "ReloadDevice"} :
          /\ Runs(type)
          /\ \/ type = "Reload" /\ BeginReload
             \/ type = "ReloadDevice" /\ BeginReloadDevice
  BY DEF BeginReload, BeginReloadDevice
<1>2. /\ UNCHANGED <<m_tasks, m_currentTask, m_run, folders, wish, contested, discovering>>
      /\ pc = "run" /\ pc' \in {"scanning", "device"}
  BY <1>1 DEF BeginReload, BeginReloadDevice, Runs, callers
<1>3. PICK c : c = m_currentTask.root
  OBVIOUS
<1>4. /\ m_currentTask \in Task /\ WellFormed(m_currentTask)
      /\ m_currentTask = Is(c, type)
      /\ \A u : Waits(u)' <=> Waits(u)
      /\ \A u : Has(u)' <=> Waits(u)
      /\ \A u : Begins(u) <=> u = m_currentTask
      /\ \A u : ~Begins(u)'
      /\ \A a, b : b # type => (Has(Is(a, b)) <=> Waits(Is(a, b)))
  BY <1>1, <1>2, <1>3, RunningTask DEF Short
<1>5. BansOK'
  <2>. SUFFICES ASSUME NEW r \in Root, BanOK(r) PROVE BanOK(r)'
    BY DEF IInv, BansOK
  <2>. QED  BY <1>2, <1>4 DEF BanOK
<1>6. ASSUME NEW r \in Root \ contested, DueOK(r) PROVE DueOK(r)'
  <2>1. Backed(r) => Backed(r)'
    BY <1>2, <1>4 DEF Backed
  <2>2. Has(Is(r, "AddRoot"))' => Has(Is(r, "AddRoot"))
    BY <1>4 DEF Has
  <2>3. pc \notin Scanning \cup {"device"}
    BY <1>2 DEF Scanning
  <2>4. Backed(r)' => Pending(r)'
    BY DEF Pending
  <2>5. \A a, b : Is(a, b).root = a /\ Is(a, b).type = b
    BY TaskNamed
  <2>6. ASSUME due[r]', folders[r] = "root" PROVE due[r] /\ (Pending(r) => Pending(r)')
    <3>1. CASE type = "Reload"
      <4>1. PICK here \in Reachable : ReloadOf(c, here)
        BY <1>1, <1>3, <3>1 DEF BeginReload
      <4>2. due[r] /\ m_isInterrupted' = FALSE /\ (Covers(c, r) => r \in batch')
        BY <2>6, <4>1, ReloadScans DEF IInv, Order
      <4>3. pc' \in Scanning
        BY <1>1, <3>1 DEF BeginReload, Scanning
      <4>4. CASE Covers(c, r)
        BY <4>2, <4>3, <4>4 DEF Pending
      <4>5. CASE ~Covers(c, r)
        <5>1. /\ Has(Is(r, "Reload")) => Waits(Is(r, "Reload"))
              /\ Has(Is(All, "Reload")) => Has(Is(All, "Reload"))'
              /\ Has(Is(Device, "ReloadDevice")) => Has(Is(Device, "ReloadDevice"))'
          BY <1>4, <2>5, <3>1, <4>5 DEF Has, Covers
        <5>. QED  BY <2>1, <2>3, <2>4, <4>2, <5>1 DEF Pending, Backed
      <4>. QED  BY <4>4, <4>5
    <3>2. CASE type = "ReloadDevice"
      <4>1. /\ UNCHANGED due /\ onDevice' = {s \in Removable : IsKnown(s)} /\ pc' = "device"
            /\ c = Device
        BY <1>1, <1>4, <2>5, <3>2 DEF BeginReloadDevice, callers, WellFormed
      <4>2. /\ Has(Is(r, "Reload")) => Has(Is(r, "Reload"))'
            /\ Has(Is(All, "Reload")) => Has(Is(All, "Reload"))'
        BY <1>4, <3>2
      <4>3. r \in Removable => Pending(r)'
        <5>1. ~isLongRunning(m_currentTask)'
          BY <1>2, <1>4, <2>5, <3>2 DEF isLongRunning
        <5>. QED  BY <2>6, <4>1, <5>1 DEF Pending, IsKnown
      <4>. QED  BY <2>1, <2>3, <2>6, <2>4, <4>1, <4>2, <4>3 DEF Pending
    <3>. QED  BY <1>1, <3>1, <3>2
  <2>7. due[r]' => due[r]
    <3>1. CASE type = "Reload"
      <4>1. PICK here \in Reachable : ReloadOf(c, here)
        BY <1>1, <1>3, <3>1 DEF BeginReload
      <4>. QED  BY <4>1, ReloadScans DEF IInv, Order
    <3>2. CASE type = "ReloadDevice"
      BY <1>1, <3>2 DEF BeginReloadDevice, callers
    <3>. QED  BY <1>1, <3>1, <3>2
  <2>. QED  BY <1>2, <1>6, <2>1, <2>2, <2>6, <2>7 DEF DueOK
<1>7. Live' => Live
  BY <1>2 DEF Live
<1>. QED  BY <1>2, <1>5, <1>6, <1>7 DEF IInv, ScansOK

\* The next root of the device, and one root of the batch.
LEMMA RootScans ==
    ASSUME IInv, NEW c \in Root, ReloadDeviceRoot(c) \/ Scan(c)
    PROVE  ScansOK' /\ BansOK'
<1>1. /\ UNCHANGED <<m_tasks, m_currentTask, m_run, folders, wish, contested, discovering>>
      /\ pc \in Scanning \cup {"device"} /\ pc' = "scanning"
  BY DEF ReloadDeviceRoot, Scan, Scanning
<1>2. /\ \A u : Waits(u)' <=> Waits(u)
      /\ \A u : Has(u)' <=> Has(u)
      /\ \A u : Begins(u)' <=> Begins(u)
  BY <1>1 DEF Waits, IsIn, Has, Begins, Scanning
<1>3. BansOK'
  <2>. SUFFICES ASSUME NEW r \in Root, BanOK(r) PROVE BanOK(r)'
    BY DEF IInv, BansOK
  <2>. QED  BY <1>1, <1>2 DEF BanOK
<1>4. ASSUME NEW r \in Root \ contested, DueOK(r) PROVE DueOK(r)'
  <2>1. Backed(r) => Backed(r)'
    BY <1>1, <1>2 DEF Backed
  <2>2. pc' \in Scanning
    BY <1>1 DEF Scanning
  <2>3. ASSUME due[r]', folders[r] = "root" PROVE due[r] /\ (Pending(r) => Pending(r)')
    <3>1. CASE ReloadDeviceRoot(c)
      <4>1. PICK here \in Reachable : ReloadOf(c, here)
        BY <3>1 DEF ReloadDeviceRoot
      <4>2. due[r] /\ m_isInterrupted' = FALSE /\ (Covers(c, r) => r \in batch')
        BY <2>3, <4>1, ReloadScans DEF IInv, Order
      <4>3. CASE r = c
        BY <2>2, <4>2, <4>3 DEF Pending, Covers
      <4>4. CASE r # c
        <5>1. /\ pc = "device" /\ onDevice' = onDevice \ {c}
              /\ ~isLongRunning(m_currentTask) /\ ~isLongRunning(m_currentTask)'
          BY <1>1, <3>1 DEF ReloadDeviceRoot, IInv, BatchCovered, isLongRunning
        <5>2. pc \notin Scanning
          BY <5>1 DEF Scanning
        <5>. QED  BY <1>2, <2>1, <2>2, <4>2, <4>4, <5>1, <5>2 DEF Pending
      <4>. QED  BY <4>3, <4>4
    <3>2. CASE Scan(c)
      <4>1. /\ r # c /\ due[r] /\ batch' = batch \ {c}
            /\ UNCHANGED <<m_isInterrupted, onDevice>> /\ pc \in Scanning
        BY <2>3, <3>2 DEF Scan, IInv, Order, TypeOK, Scanning
      <4>2. isLongRunning(m_currentTask)' <=> isLongRunning(m_currentTask)
        BY <1>1 DEF isLongRunning
      <4>. QED  BY <1>2, <2>1, <2>2, <4>1, <4>2 DEF Pending
    <3>. QED  BY <3>1, <3>2
  <2>4. due[r]' => due[r]
    <3>1. CASE ReloadDeviceRoot(c)
      <4>1. PICK here \in Reachable : ReloadOf(c, here)
        BY <3>1 DEF ReloadDeviceRoot
      <4>. QED  BY <4>1, ReloadScans DEF IInv, Order
    <3>2. CASE Scan(c)
      BY <3>2 DEF Scan, IInv, Order, TypeOK
    <3>. QED  BY <3>1, <3>2
  <2>. QED  BY <1>1, <1>2, <1>4, <2>1, <2>3, <2>4 DEF DueOK
<1>5. Live' => Live
  BY <1>1 DEF Live
<1>. QED  BY <1>1, <1>3, <1>4, <1>5 DEF IInv, ScansOK

LEMMA RunScans == ASSUME IInv, Run PROVE ScansOK' /\ BansOK'
<1>1. Order /\ TasksOK /\ About /\ TypeOK /\ ScansOK /\ BansOK
  BY DEF IInv, About, Order
<1>2. CASE (Top \/ Wake) /\ TakeTask /\ m_tasks # <<>>
  BY <1>2, TakeScans DEF Top, Wake
<1>3. CASE (Top \/ Wake) /\ UNCHANGED <<m_tasks, m_currentTask>> /\ pc' \in {"waiting", "exiting"}
  <2>1. /\ UNCHANGED <<m_isInterrupted, batch, folders, wish, due, contested, discovering, m_run>>
        /\ pc \in {"top", "waiting"}
    BY <1>3 DEF Top, Wake, callers
  <2>. QED  BY <1>3, <2>1, LoopScans DEF Begins, Live, Scanning
<1>4. CASE Starting \/ Exit \/ EndTask
  <2>1. /\ UNCHANGED <<m_tasks, m_isInterrupted, batch, folders, wish, due, contested, discovering,
                       m_run>>
        /\ pc \in {"starting", "exiting", "end"} /\ pc' \in {"top", "done"}
    BY <1>4 DEF Starting, Exit, EndTask, callers
  <2>. QED  BY <2>1, LoopScans DEF Begins, Live, Scanning
<1>5. CASE EndReloadDevice
  <2>1. /\ UNCHANGED <<m_tasks, m_isInterrupted, batch, folders, wish, due, contested, discovering,
                       m_run>>
        /\ pc = "device" /\ pc' = "end" /\ onDevice = {}
    BY <1>5 DEF EndReloadDevice, callers
  <2>. QED  BY <2>1, LoopScans DEF Begins, Live, Scanning
<1>6. CASE EndScan \/ Pauses \/ Resumes
  <2>1. /\ UNCHANGED <<m_tasks, m_currentTask, m_isInterrupted, folders, wish, due, contested,
                       discovering, m_run, onDevice>>
        /\ pc \in Scanning
        /\ \/ pc' \in Scanning /\ UNCHANGED batch
           \/ /\ batch = {} \/ m_isInterrupted
              /\ batch' = {}
              /\ pc' = IF isLongRunning(m_currentTask) THEN "end" ELSE "device"
    BY <1>6 DEF EndScan, Pauses, Resumes, callers, Scanning
  <2>2. CASE pc' \in Scanning /\ UNCHANGED batch
    <3>1. \A u \in Task : Begins(u)' <=> Begins(u)
      BY <2>1, <2>2 DEF Begins, Scanning
    <3>2. isLongRunning(m_currentTask)' <=> isLongRunning(m_currentTask)
      BY <2>1 DEF isLongRunning
    <3>3. Live' => Live
      BY <2>1, <2>2 DEF Live, Scanning
    <3>. QED  BY <2>1, <2>2, <3>1, <3>2, <3>3, LoopScans
  <2>3. CASE batch' = {} /\ pc' \notin Scanning
    <3>1. /\ \A u : Waits(u)' <=> Waits(u)
          /\ \A u : Begins(u)' <=> Begins(u)
          /\ Live' => Live
          /\ isLongRunning(m_currentTask)' <=> isLongRunning(m_currentTask)
          /\ ~isLongRunning(m_currentTask) => pc' \in Scanning \cup {"device"}
          /\ batch = {} \/ m_isInterrupted
      BY <2>1, <2>3 DEF Waits, IsIn, Begins, Scanning, Live, isLongRunning
    <3>2. \A u : Has(u)' <=> Has(u)
      BY <3>1 DEF Has
    <3>3. BansOK'
      BY <1>1, <2>1, <3>1, <3>2 DEF BansOK, BanOK
    <3>4. \A r \in Root : Backed(r)' <=> Backed(r)
      BY <2>1, <3>1, <3>2 DEF Backed
    <3>5. \A r \in Root : Pending(r) => Pending(r)'
      BY <2>1, <3>1, <3>2, <3>4 DEF Pending
    <3>. QED  BY <1>1, <2>1, <3>1, <3>2, <3>3, <3>4, <3>5 DEF ScansOK, DueOK
  <2>. QED  BY <2>1, <2>2, <2>3 DEF Scanning
<1>7. CASE RefreshTasks
  <2>1. /\ UNCHANGED <<m_tasks, m_currentTask, m_isInterrupted, batch, folders, wish, due, contested,
                       discovering, m_run, onDevice>>
        /\ pc = "taken"
        /\ pc' = "run" \/ (pc' = "end" /\ ~m_run /\ isLongRunning(m_currentTask))
    BY <1>7 DEF RefreshTasks, callers
  <2>2. CASE pc' = "run"
    <3>1. \A u \in Task : Begins(u)' <=> Begins(u)
      BY <2>1, <2>2 DEF Begins
    <3>. QED  BY <2>1, <2>2, <3>1, LoopScans DEF Live, Scanning
  <2>3. CASE pc' = "end" /\ ~m_run /\ isLongRunning(m_currentTask)
    <3>1. ~Live'
      BY <2>1, <2>3 DEF Live
    <3>2. \A r \in Root : ~Begins(Is(r, "Ban")) /\ ~Begins(Is(r, "Unban"))'
      BY <2>1, <2>3, TaskNamed DEF Begins, isLongRunning
    <3>3. \A u : Waits(u)' <=> Waits(u)
      BY <2>1 DEF Waits, IsIn
    <3>4. BansOK'
      BY <1>1, <2>1, <3>2, <3>3 DEF BansOK, BanOK, Has
    <3>. QED  BY <3>1, <3>4 DEF ScansOK
  <2>. QED  BY <2>1, <2>2, <2>3
<1>8. CASE UnbanReloadsParent
  <2>1. /\ enqueue(Parent, "Reload") /\ Aside
        /\ UNCHANGED <<m_currentTask, folders, wish, due, contested, discovering, m_run, batch,
                       onDevice>>
        /\ Live' => Live
    BY <1>8 DEF UnbanReloadsParent, Aside, Scanning, callers, Live
  <2>2. Is(Parent, "Reload") \in Task /\ WellFormed(Is(Parent, "Reload"))' /\ Parent \notin Root
    BY Asked, AskedWell, Constants
  <2>3. TasksOK'
    BY <1>1, <1>8, RunAbout DEF Run, About
  <2>4. BansOK'
    BY <1>1, <2>1, <2>2, EnqueueBans DEF BansOK
  <2>5. ASSUME NEW r \in Root \ contested', DueOK(r) PROVE DueOK(r)'
    <3>1. /\ Backed(r) => Backed(r)'
          /\ Pending(r) => Pending(r)'
          /\ Has(Is(r, "AddRoot"))' => Has(Is(r, "AddRoot")) \/ (Parent = r /\ "Reload" = "AddRoot")
      BY <1>1, <2>1, <2>2, <2>3, <2>5, EnqueueScans DEF IInv
    <3>. QED  BY <2>1, <2>5, <3>1, StillDue
  <2>. QED  BY <1>1, <2>1, <2>4, <2>5 DEF ScansOK
<1>. QED  BY <1>2, <1>3, <1>4, <1>5, <1>6, <1>7, <1>8, ShortScans, BeginScans, RootScans
          DEF Run, Top, Wake, MustWake

LEMMA InitInv == Init => IInv
<1>. SUFFICES ASSUME Init PROVE IInv
  OBVIOUS
<1>1. \A u : ~Waits(u) /\ ~Begins(u)
  BY DEF Init, Waits, Begins, IsIn
<1>2. TasksOK /\ BatchCovered
  BY DEF Init, TasksOK, BatchCovered, Scanning
<1>3. ScansOK /\ BansOK
  BY <1>1 DEF Init, ScansOK, DueOK, BansOK, BanOK
<1>. QED  BY <1>2, <1>3, InitOrder DEF IInv

LEMMA StepInv == IInv /\ [Next]_vars => IInv'
<1>. SUFFICES ASSUME IInv, [Next]_vars PROVE IInv'
  OBVIOUS
<1>1. Order' /\ About
  BY OrderStep DEF IInv, About
<1>2. CASE Call
  BY <1>1, <1>2, CallAbout, CallScans DEF IInv, About
<1>3. CASE Run
  BY <1>1, <1>3, RunAbout, RunScans DEF IInv, About
<1>4. CASE UNCHANGED vars
  <2>1. /\ \A u : Waits(u)' <=> Waits(u)
        /\ \A u : Begins(u)' <=> Begins(u)
        /\ \A u : Has(u)' <=> Has(u)
    BY <1>4 DEF vars, worker, callers, Waits, IsIn, Begins, Has
  <2>2. TasksOK' /\ BatchCovered'
    BY <1>4 DEF vars, worker, callers, IInv, TasksOK, WellFormed, BatchCovered, Covers, isLongRunning
  <2>3. BansOK'
    BY <1>4, <2>1 DEF vars, worker, callers, IInv, BansOK, BanOK
  <2>4. \A r \in Root : (Backed(r)' <=> Backed(r)) /\ (Pending(r)' <=> Pending(r))
    BY <1>4, <2>1 DEF vars, worker, callers, Backed, Pending, isLongRunning
  <2>5. ScansOK'
    BY <1>4, <2>1, <2>4 DEF vars, worker, callers, IInv, ScansOK, DueOK, Live
  <2>. QED  BY <1>1, <2>2, <2>3, <2>5 DEF IInv
<1>. QED  BY <1>2, <1>3, <1>4 DEF Next, Rest

LEMMA InvAlways == Spec => []IInv
BY InitInv, StepInv, PTL DEF Spec

\* Once the requests are handled, a known root has been scanned since its scan was last asked
\* for: dropping a redundant Reload, interrupting one and queueing it again, the second half of
\* discover() that comes late, a pause and the devices that go away lose none.
THEOREM RootsAlwaysScanned == Spec => []RootsAreScanned
<1>1. IInv => RootsAreScanned
  <2>. SUFFICES ASSUME IInv, Settled, NEW r \in Root \ contested, IsKnown(r), due[r]
                PROVE  FALSE
    BY DEF RootsAreScanned, IInv, Order, TypeOK
  <2>1. Pending(r)
    BY DEF IInv, ScansOK, DueOK, Live, Settled, IsKnown
  <2>2. pc = "waiting" /\ m_tasks = <<>> /\ discovering = {}
    BY DEF Settled
  <2>3. \A u : ~Has(u) /\ ~Waits(u)
    BY <2>2 DEF Has, Waits, Begins, IsIn
  <2>. QED  BY <2>1, <2>2, <2>3 DEF Pending, Backed, Scanning
<1>. QED  BY <1>1, InvAlways, PTL

\* Once the requests are handled, a ban that came last and that was not refused holds, whatever
\* filter() erased or dropped on its way.
THEOREM BansAlwaysApplied == Spec => []BansAreApplied
<1>1. IInv => BansAreApplied
  <2>. SUFFICES ASSUME IInv, Settled, NEW r \in Root, wish[r] = "Ban"
                PROVE  folders[r] = "banned"
    BY DEF BansAreApplied
  <2>1. folders[r] = "banned" \/ Has(Is(r, "Ban"))
    BY DEF IInv, BansOK, BanOK
  <2>2. \A u : ~Has(u)
    BY DEF Settled, Has, Waits, Begins, IsIn
  <2>. QED  BY <2>1, <2>2
<1>. QED  BY <1>1, InvAlways, PTL

=============================================================================
