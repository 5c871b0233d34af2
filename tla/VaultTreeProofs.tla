---------------------------- MODULE VaultTreeProofs ----------------------------
(***************************************************************************)
(* The tree of the vault: for any tree, any number of requests at once and *)
(* any number of lost answers and dead handlers, no folder holds itself, a *)
(* deletion leaves nothing behind, and a purge takes nothing else.         *)
(*                                                                         *)
(* Subtree is a walk of as many steps as there are items.  The proofs only *)
(* use that it is the least set with the item that is closed under "in a   *)
(* row of the set" (UnderIs).                                              *)
(***************************************************************************)
EXTENDS VaultServerProofs, WellFoundedInduction

(***************************************************************************)
(* The rows under an item.                                                 *)
(***************************************************************************)
\* Induction over the naturals, as a set of them has a least element.
LEMMA LeastNatural ==
  ASSUME NEW T \in SUBSET Nat, T # {} PROVE \E m \in T : \A k \in T : m <= k
<1>1. PICK m \in T : \A k \in T : <<k, m>> \notin OpToRel(<, Nat)
  BY NatLessThanWellFounded, WFMin
<1>2. \A k \in T : ~(k < m)
  BY <1>1 DEF OpToRel
<1> QED
  BY <1>2

Existing(table) == {i \in Items : table[i].state \in {"live", "gone"}}

Grows(table, within, n) ==
  within[n - 1] \cup {i \in Existing(table) : table[i].parent \in within[n - 1]}

Walk(table, id, within) ==
  within = [n \in 0..Cardinality(Items) |-> IF n = 0 THEN {id} ELSE Grows(table, within, n)]

\* What Subtree(id) is in a given table.
Under(table, id) ==
  LET within[n \in 0..Cardinality(Items)] ==
        IF n = 0 THEN {id}
        ELSE within[n - 1] \cup {i \in Existing(table) : table[i].parent \in within[n - 1]}
  IN  within[Cardinality(Items)]

LEMMA SubtreeIsUnder == \A id : Subtree(id) = Under(rows, id)
BY DEF Subtree, Under, Kept, Existing

\* There is a function as Under defines it: the items a path of n steps leads to.
LEMMA WithinExists ==
  ASSUME NEW table, NEW id \in Items, Cardinality(Items) \in Nat
  PROVE  \E within : Walk(table, id, within)
<1> DEFINE N == Cardinality(Items)
           Step(i, j) == j = i \/ (j \in Existing(table) /\ table[j].parent = i)
           Path(n, f) == f[0] = id /\ \A k \in 1..n : Step(f[k - 1], f[k])
           g == [n \in 0..N |-> {i \in Items : \E f \in [0..n -> Items] : Path(n, f) /\ f[n] = i}]
<1>0. N \in Nat
  OBVIOUS
<1> HIDE DEF N
<1>1. g[0] = {id}
  <2> DEFINE f == [k \in 0..0 |-> id]
  <2>1. Path(0, f) /\ f \in [0..0 -> Items] /\ f[0] = id
    OBVIOUS
  <2>2. \A h : Path(0, h) => h[0] = id
    OBVIOUS
  <2>3. g[0] = {i \in Items : \E h \in [0..0 -> Items] : Path(0, h) /\ h[0] = i}
    BY <1>0
  <2> HIDE DEF Path, f, g
  <2> QED
    BY <2>1, <2>2, <2>3
<1>2. ASSUME NEW n \in 1..N PROVE g[n] = Grows(table, g, n)
  <2>0. n \in Nat /\ n - 1 \in 0..N /\ n \in 0..N
    BY <1>0
  <2>1. ASSUME NEW i \in g[n] PROVE i \in Grows(table, g, n)
    <3>1. PICK f \in [0..n -> Items] : Path(n, f) /\ f[n] = i
      BY <2>0, <2>1
    <3> DEFINE h == [k \in 0..(n - 1) |-> f[k]]
    <3>2. /\ h \in [0..(n - 1) -> Items] /\ Path(n - 1, h)
          /\ h[n - 1] = f[n - 1] /\ f[n - 1] \in Items
      BY <2>0, <3>1
    <3>3. f[n - 1] \in g[n - 1]
      BY <2>0, <3>2
    <3>4. Step(f[n - 1], i)
      BY <2>0, <3>1
    <3> QED
      BY <3>3, <3>4 DEF Grows
  <2>2. ASSUME NEW i \in Grows(table, g, n) PROVE i \in g[n]
    <3>1. PICK j \in g[n - 1] : Step(j, i)
      BY <2>2 DEF Grows
    <3>2. PICK f \in [0..(n - 1) -> Items] : Path(n - 1, f) /\ f[n - 1] = j
      BY <2>0, <3>1
    <3> DEFINE h == [k \in 0..n |-> IF k = n THEN i ELSE f[k]]
    <3>3. i \in Items
      BY <3>1, <3>2 DEF Existing
    <3>4. h \in [0..n -> Items] /\ h[n] = i
      BY <2>0, <3>2, <3>3
    <3>5. Path(n, h)
      <4>1. h[0] = id
        BY <2>0, <3>2
      <4>2. ASSUME NEW k \in 1..n PROVE Step(h[k - 1], h[k])
        <5>1. CASE k = n
          BY <2>0, <3>1, <3>2, <5>1
        <5>2. CASE k # n
          <6>1. k \in 1..(n - 1) /\ h[k] = f[k] /\ h[k - 1] = f[k - 1]
            BY <2>0, <5>2
          <6> QED
            BY <3>2, <6>1
        <5> QED
          BY <5>1, <5>2
      <4> QED
        BY <4>1, <4>2
    <3> HIDE DEF Path, h
    <3> QED
      BY <2>0, <3>3, <3>4, <3>5
  <2> HIDE DEF g
  <2> QED
    BY <2>1, <2>2
<1>3. g = [n \in 0..N |-> IF n = 0 THEN {id} ELSE Grows(table, g, n)]
  <2>1. ASSUME NEW n \in 0..N PROVE g[n] = IF n = 0 THEN {id} ELSE Grows(table, g, n)
    <3> HIDE DEF g
    <3>1. CASE n = 0
      BY <1>1, <3>1
    <3>2. CASE n # 0
      BY <1>0, <1>2, <3>2
    <3> QED
      BY <3>1, <3>2
  <2>2. g = [n \in 0..N |-> g[n]]
    OBVIOUS
  <2> HIDE DEF g
  <2> QED
    BY <2>1, <2>2
<1> HIDE DEF g
<1> QED
  BY <1>3 DEF N, Walk

\* Subtree is what such a function has at the number of items there are.
LEMMA WithinIs ==
  ASSUME VaultAssumption, NEW table, NEW id \in Items
  PROVE  \E within : Walk(table, id, within) /\ Under(table, id) = within[Cardinality(Items)]
<1> DEFINE W == CHOOSE within : Walk(table, id, within)
<1>1. Cardinality(Items) \in Nat
  BY FS_CardinalityType DEF VaultAssumption
<1>2. Walk(table, id, W)
  BY <1>1, WithinExists
<1>3. Under(table, id) = W[Cardinality(Items)]
  BY DEF Under, Grows, Walk
<1> HIDE DEF W
<1> QED
  BY <1>2, <1>3

Closed(table, C) == \A i \in Existing(table) : table[i].parent \in C => i \in C

LEMMA WalkSteps ==
  ASSUME VaultAssumption, NEW table, NEW id, NEW W, Walk(table, id, W)
  PROVE  /\ Cardinality(Items) \in Nat
         /\ W[0] = {id}
         /\ \A n \in 1..Cardinality(Items) :
              /\ W[n - 1] \subseteq W[n]
              /\ \A i \in Existing(table) : table[i].parent \in W[n - 1] => i \in W[n]
              /\ \A i \in W[n] : \/ i \in W[n - 1]
                                 \/ i \in Existing(table) /\ table[i].parent \in W[n - 1]
<1> DEFINE N == Cardinality(Items)
<1>1. N \in Nat
  BY FS_CardinalityType DEF VaultAssumption
<1>2. /\ \A n \in 0..N : W[n] = IF n = 0 THEN {id} ELSE Grows(table, W, n)
  BY DEF Walk
<1> HIDE DEF N
<1>3. W[0] = {id}
  BY <1>1, <1>2
<1>4. \A n \in 1..N : W[n] = Grows(table, W, n)
  BY <1>1, <1>2
<1> QED
  BY <1>1, <1>3, <1>4 DEF N, Grows

\* Nothing is under an item but what a closed set with it has.
LEMMA WalkLeast ==
  ASSUME VaultAssumption, NEW table, NEW id, NEW W, Walk(table, id, W),
         NEW C, id \in C, NEW m \in 0..Cardinality(Items), W[m] \subseteq C,
         \A n \in m + 1..Cardinality(Items) : W[n - 1] \subseteq C => W[n] \subseteq C
  PROVE  \A n \in m..Cardinality(Items) : W[n] \subseteq C
<1> DEFINE N == Cardinality(Items)
           T == {n \in m..N : ~(W[n] \subseteq C)}
<1>1. N \in Nat /\ m \in Nat
  BY WalkSteps
<1> SUFFICES ASSUME T # {} PROVE FALSE
  OBVIOUS
<1>2. T \in SUBSET Nat
  BY <1>1
<1>3. PICK n \in T : \A k \in T : n <= k
  <2> HIDE DEF T
  <2> QED
    BY <1>2, LeastNatural
<1>4. n \in m + 1..N /\ n - 1 \in m..N /\ ~(n <= n - 1) /\ n - 1 \notin T
  <2>1. n # m
    BY <1>3
  <2> QED
    BY <1>1, <1>3, <2>1
<1> QED
  BY <1>3, <1>4

\* The subtree of an item is the least set with it that has what is in what it has.
LEMMA UnderIs ==
  ASSUME VaultAssumption, NEW table, NEW id \in Items
  PROVE  /\ id \in Under(table, id)
         /\ Under(table, id) \subseteq Items
         /\ Closed(table, Under(table, id))
         /\ \A C : id \in C /\ Closed(table, C) => Under(table, id) \subseteq C
<1> DEFINE N == Cardinality(Items)
<1>0. PICK W : Walk(table, id, W) /\ Under(table, id) = W[N]
  BY WithinIs
<1>1. /\ N \in Nat /\ W[0] = {id}
      /\ \A n \in 1..N :
           /\ W[n - 1] \subseteq W[n]
           /\ \A i \in Existing(table) : table[i].parent \in W[n - 1] => i \in W[n]
           /\ \A i \in W[n] : \/ i \in W[n - 1]
                              \/ i \in Existing(table) /\ table[i].parent \in W[n - 1]
  BY <1>0, WalkSteps
<1>2. ASSUME NEW C, NEW m \in 0..N, id \in C, W[m] \subseteq C,
             \A i \in Existing(table) : table[i].parent \in C => i \in C
      PROVE  \A n \in m..N : W[n] \subseteq C
  <2>1. \A n \in m + 1..N : W[n - 1] \subseteq C => W[n] \subseteq C
    BY <1>1, <1>2
  <2> HIDE DEF N
  <2> QED
    BY <1>0, <1>2, <2>1, WalkLeast DEF N
<1>3. ASSUME NEW C, id \in C, Closed(table, C) PROVE \A n \in 0..N : W[n] \subseteq C
  BY <1>1, <1>2, <1>3 DEF Closed
<1>4. \A n \in 0..N : W[n] \subseteq Items
  BY <1>3 DEF Closed, Existing
<1>8. \A n \in 0..N : id \in W[n]
  <2> DEFINE T == {n \in 0..N : id \notin W[n]}
  <2> SUFFICES ASSUME T # {} PROVE FALSE
    OBVIOUS
  <2>1. T \in SUBSET Nat
    BY <1>1
  <2>2. PICK n \in T : \A k \in T : n <= k
    <3> HIDE DEF T
    <3> QED
      BY <2>1, LeastNatural
  <2>3. n \in 1..N /\ n - 1 \in 0..N /\ ~(n <= n - 1)
    BY <1>1, <2>2
  <2> QED
    BY <1>1, <2>2, <2>3
<1>5. \A n \in 0..N : W[n] \subseteq W[N]
  <2> DEFINE T == {d \in 0..N : ~(W[N - d] \subseteq W[N])}
  <2> SUFFICES ASSUME T # {} PROVE FALSE
    <3>1. ASSUME NEW n \in 0..N PROVE N - n \in 0..N /\ N - (N - n) = n
      BY <1>1
    <3> QED
      BY <3>1
  <2>1. T \in SUBSET Nat
    BY <1>1
  <2>2. PICK d \in T : \A k \in T : d <= k
    <3> HIDE DEF T
    <3> QED
      BY <2>1, LeastNatural
  <2>3. d # 0 /\ d \in 0..N
    BY <1>1, <2>2
  <2>4. d - 1 \in 0..N /\ ~(d <= d - 1) /\ N - d + 1 \in 1..N /\ N - (d - 1) = N - d + 1
        /\ (N - d + 1) - 1 = N - d
    BY <1>1, <2>3
  <2>5. W[N - d + 1] \subseteq W[N]
    BY <2>2, <2>4
  <2>6. W[N - d] \subseteq W[N - d + 1]
    BY <1>1, <2>4
  <2> QED
    BY <2>2, <2>5, <2>6
<1>6. Closed(table, W[N])
  <2> SUFFICES ASSUME NEW i \in Existing(table), table[i].parent \in W[N], i \notin W[N]
               PROVE  FALSE
    BY DEF Closed
  <2> DEFINE T == {n \in 0..N : ~(n + 1 <= Cardinality(W[n]))}
  <2>1. \A n \in 0..N : IsFiniteSet(W[n]) /\ Cardinality(W[n]) \in Nat /\ Cardinality(W[n]) <= N
    BY <1>1, <1>4, FS_Subset, FS_CardinalityType DEF VaultAssumption
  <2>2. T # {}
    BY <1>1, <2>1
  <2>3. T \in SUBSET Nat
    BY <1>1
  <2>4. PICK n \in T : \A k \in T : n <= k
    <3> HIDE DEF T
    <3> QED
      BY <2>2, <2>3, LeastNatural
  <2>5. n # 0 /\ n \in 0..N
    <3>1. Cardinality(W[0]) = 1
      BY <1>1, FS_Singleton
    <3>2. n \in 0..N /\ ~(n + 1 <= Cardinality(W[n]))
      BY <2>4
    <3> DEFINE card(k) == Cardinality(W[k])
    <3>3. card(0) = 1 /\ ~(n + 1 <= card(n))
      BY <3>1, <3>2
    <3> HIDE DEF T, card
    <3>4. n # 0
      BY <3>3
    <3> QED
      BY <3>2, <3>4
  <2>6. n \in 1..N /\ n - 1 \in 0..N /\ n - 1 \notin T
    BY <1>1, <2>4, <2>5
  <2>7. n <= Cardinality(W[n - 1])
    BY <1>1, <2>6
  <2>8. W[n - 1] \subseteq W[n]
    BY <1>1, <2>6
  <2>9. Cardinality(W[n - 1]) = Cardinality(W[n])
    <3>1. Cardinality(W[n - 1]) <= Cardinality(W[n])
      BY <2>1, <2>5, <2>8, FS_Subset
    <3>2. ~(n + 1 <= Cardinality(W[n]))
      BY <2>4
    <3>3. Cardinality(W[n]) \in Nat /\ Cardinality(W[n - 1]) \in Nat /\ n \in Nat
      BY <1>1, <2>1, <2>5, <2>6
    <3> DEFINE a == Cardinality(W[n - 1])
               b == Cardinality(W[n])
    <3>4. a \in Nat /\ b \in Nat /\ n \in Nat /\ n <= a /\ a <= b /\ ~(n + 1 <= b)
      BY <2>7, <3>1, <3>2, <3>3
    <3> HIDE DEF a, b
    <3>5. a = b
      BY <3>4
    <3> QED
      BY <3>5 DEF a, b
  <2>10. W[n - 1] = W[n]
    BY <2>1, <2>5, <2>8, <2>9, FS_Subset
  <2>11. \A j \in Existing(table) : table[j].parent \in W[n - 1] => j \in W[n - 1]
    BY <1>1, <2>6, <2>10
  <2>12. id \in W[n - 1]
    BY <1>8, <2>6
  <2>13. W[N] \subseteq W[n - 1]
    <3>1. \A k \in n - 1..N : W[k] \subseteq W[n - 1]
      BY <1>2, <2>6, <2>11, <2>12
    <3> QED
      BY <1>1, <2>6, <3>1
  <2> QED
    BY <1>5, <2>6, <2>11, <2>13
<1>7. id \in W[N]
  BY <1>1, <1>5
<1> QED
  BY <1>0, <1>1, <1>3, <1>4, <1>6, <1>7

\* Nothing but the item itself is under it that does not exist.
LEMMA UnderExists ==
  ASSUME VaultAssumption, NEW table, NEW id \in Items
  PROVE  Under(table, id) \subseteq {id} \cup Existing(table)
<1> DEFINE C == {id} \cup (Under(table, id) \cap Existing(table))
<1>1. Closed(table, C)
  BY UnderIs DEF Closed
<1>2. Under(table, id) \subseteq C
  BY <1>1, UnderIs
<1> QED
  BY <1>2

\* What is under an item, but not the item itself, is in something that is.
LEMMA UnderParent ==
  ASSUME VaultAssumption, NEW table, NEW id \in Items, NEW i \in Under(table, id), i # id
  PROVE  i \in Existing(table) /\ table[i].parent \in Under(table, id)
<1> DEFINE U == Under(table, id)
           C == {k \in U : k = id \/ (k \in Existing(table) /\ table[k].parent \in U)}
<1>1. id \in C /\ Closed(table, C)
  BY UnderIs DEF Closed
<1> HIDE DEF U
<1>2. U \subseteq C
  BY <1>1, UnderIs DEF U
<1> QED
  BY <1>2 DEF U

LEMMA UnderTransitive ==
  ASSUME VaultAssumption, NEW table, NEW id \in Items, NEW i \in Under(table, id)
  PROVE  Under(table, i) \subseteq Under(table, id)
BY UnderIs

Acyclic(table) ==
  \A i \in Existing(table) : table[i].parent # Nil => table[i].parent \notin Under(table, i)

\* Rows that go away, and nothing else.
Fewer(table, next) ==
  \A i \in Existing(next) : i \in Existing(table) /\ next[i].parent = table[i].parent

\* A new row x in t, which is not in anything new.
Added(table, next, x, t) ==
  /\ x \in Items /\ x \notin Existing(table) /\ t # x
  /\ Existing(next) = Existing(table) \cup {x} /\ next[x].parent = t
  /\ \A i \in Existing(table) : next[i].parent = table[i].parent /\ table[i].parent # x

\* The row x goes to t, which is not under it.
Moved(table, next, x, t) ==
  /\ x \in Existing(table) /\ t \notin Under(table, x)
  /\ Existing(next) = Existing(table) /\ next[x].parent = t
  /\ \A i \in Existing(table) \ {x} : next[i].parent = table[i].parent

LEMMA FewerUnder ==
  ASSUME VaultAssumption, NEW table, NEW next, Fewer(table, next), NEW id \in Items
  PROVE  Under(next, id) \subseteq Under(table, id)
<1>1. Closed(next, Under(table, id))
  BY UnderIs DEF Closed, Fewer
<1> QED
  BY <1>1, UnderIs

LEMMA FewerAcyclic ==
  ASSUME VaultAssumption, NEW table, NEW next, Fewer(table, next), Acyclic(table)
  PROVE  Acyclic(next)
BY FewerUnder DEF Acyclic, Fewer, Existing

LEMMA AddedAcyclic ==
  ASSUME VaultAssumption, NEW table, NEW next, NEW x, NEW t, Added(table, next, x, t),
         Acyclic(table)
  PROVE  Acyclic(next)
<1> SUFFICES ASSUME NEW j \in Existing(next), next[j].parent # Nil
             PROVE  next[j].parent \notin Under(next, j)
  BY DEF Acyclic
<1>1. j \in Items
  BY DEF Existing
<1>2. CASE j = x
  <2>1. Closed(next, {x})
    BY DEF Closed, Added
  <2>2. Under(next, x) \subseteq {x}
    BY <1>1, <1>2, <2>1, UnderIs
  <2> QED
    BY <1>2, <2>2 DEF Added
<1>3. CASE j # x
  <2> DEFINE C == Under(table, j) \cup {x}
  <2>1. j \in Existing(table) /\ next[j].parent = table[j].parent /\ table[j].parent # x
    BY <1>3 DEF Added
  <2>2. Closed(next, C)
    BY <1>1, UnderIs DEF Closed, Added
  <2>3. Under(next, j) \subseteq C
    BY <1>1, <2>2, UnderIs
  <2> QED
    BY <2>1, <2>3 DEF Acyclic
<1> QED
  BY <1>2, <1>3

\* The classical argument: what a cycle through the new parent needs was one before.
LEMMA MovedAcyclic ==
  ASSUME VaultAssumption, NEW table, NEW next, NEW x, NEW t, Moved(table, next, x, t),
         Acyclic(table)
  PROVE  Acyclic(next)
<1> SUFFICES ASSUME NEW j \in Existing(next), next[j].parent # Nil
             PROVE  next[j].parent \notin Under(next, j)
  BY DEF Acyclic
<1>1. j \in Items /\ j \in Existing(table) /\ x \in Items
  BY DEF Existing, Moved
<1>2. CASE t \notin Under(table, j)
  <2>1. Closed(next, Under(table, j))
    BY <1>1, <1>2, UnderIs DEF Closed, Moved
  <2>2. Under(next, j) \subseteq Under(table, j)
    BY <1>1, <2>1, UnderIs
  <2> QED
    BY <1>1, <1>2, <2>2 DEF Moved, Acyclic
<1>3. CASE t \in Under(table, j)
  <2> DEFINE C == Under(table, j) \cup Under(table, x)
  <2>1. Closed(next, C)
    <3> SUFFICES ASSUME NEW k \in Existing(next), next[k].parent \in C PROVE k \in C
      BY DEF Closed
    <3>1. CASE k = x
      BY <1>1, <3>1, UnderIs
    <3>2. CASE k # x
      <4>1. k \in Existing(table) /\ table[k].parent \in C
        BY <3>2 DEF Moved
      <4> QED
        BY <1>1, <4>1, UnderIs DEF Closed
    <3> QED
      BY <3>1, <3>2
  <2>2. Under(next, j) \subseteq C
    BY <1>1, <2>1, UnderIs
  <2>3. j # x /\ next[j].parent = table[j].parent
    BY <1>1, <1>3 DEF Moved
  <2>4. table[j].parent \notin Under(table, j)
    BY <1>1, <2>3 DEF Acyclic
  <2>5. table[j].parent \notin Under(table, x)
    <3> SUFFICES ASSUME table[j].parent \in Under(table, x) PROVE FALSE
      OBVIOUS
    <3>1. j \in Under(table, x)
      BY <1>1, UnderIs DEF Closed
    <3>2. t \in Under(table, x)
      BY <1>1, <1>3, <3>1, UnderTransitive
    <3> QED
      BY <3>2 DEF Moved
  <2> QED
    BY <2>2, <2>3, <2>4, <2>5
<1> QED
  BY <1>2, <1>3

(***************************************************************************)
(* The tree, and what a purge owes.                                        *)
(***************************************************************************)
\* A row is at the top or in a row that is or was.
Placed == \A i \in Existing(rows) : rows[i].parent # Nil => rows[rows[i].parent].state # "absent"

Deletes(p, c) ==
  c.op = "delete" =>
    /\ c.id \in Items /\ rows[c.id].state # "absent"
    /\ c.stage = "ok" => Under(rows, c.id) \cap Live = {}
    /\ p = Cron => /\ c.stage \in {"walk", "batch", "ok"}
                   /\ c.stage # "ok" => rows[c.id].state = "gone"

TreeInv == Placed /\ Acyclic(rows) /\ \A p \in Actors : Deletes(p, call[p])

LEMMA InitTree == ASSUME VaultAssumption, Init PROVE TreeInv
<1> DEFINE D == DOMAIN Parents
<1>1. /\ Existing(rows) = D /\ D \subseteq Items
      /\ \A i \in D : rows[i].parent = Parents[i] /\ rows[i].state = "live"
      /\ \A i \in D : Parents[i] \in D \cup {Nil}
  BY DEF Init, Existing, NoRow, VaultAssumption
<1>2. Placed
  BY <1>1 DEF Placed
<1>3. Acyclic(rows)
  <2> SUFFICES ASSUME NEW i \in D, Parents[i] # Nil, Parents[i] \in Under(rows, i) PROVE FALSE
    BY <1>1 DEF Acyclic
  \* The rows on the cycle.
  <2> DEFINE S == {k \in D : k \in Under(rows, i) /\ i \in Under(rows, k)}
  <2>1. i \in S
    BY <1>1, UnderIs
  <2>2. PICK k \in S : Parents[k] \notin S
    <3>1. S \in SUBSET D /\ S # {}
      BY <2>1
    <3> HIDE DEF S
    <3> QED
      BY <3>1 DEF VaultAssumption
  <2>3. Parents[k] \in Under(rows, i)
    <3>1. CASE k = i
      BY <3>1
    <3>2. CASE k # i
      BY <1>1, <3>2, UnderParent
    <3> QED
      BY <3>1, <3>2
  <2>4. Parents[k] \in D
    <3>1. Parents[k] \in Items
      BY <1>1, <2>3, UnderIs
    <3> QED
      BY <1>1, <3>1 DEF VaultAssumption
  <2>5. k \in Under(rows, Parents[k])
    BY <1>1, <2>4, UnderIs DEF Closed
  <2>6. i \in Under(rows, Parents[k])
    BY <1>1, <2>4, <2>5, UnderTransitive
  <2> QED
    BY <2>2, <2>3, <2>4, <2>6
<1>4. \A p \in Actors : Deletes(p, call[p])
  BY DEF Init, NoCall, Deletes
<1> QED
  BY <1>2, <1>3, <1>4 DEF TreeInv

(***************************************************************************)
(* What a step may do to the tree.                                         *)
(***************************************************************************)
Same == UNCHANGED rows
Less == Fewer(rows, rows') /\ Live' \subseteq Live
More == \E x \in Items, t \in Live \cup {Nil} :
          /\ rows[x].state = "absent" /\ rows'[x].state = "live" /\ rows'[x].parent = t
          /\ \A i \in Items \ {x} : rows'[i] = rows[i]
Relocates == \E x \in Live, t \in Live \cup {Nil} :
          /\ t \notin Under(rows, x)
          /\ rows'[x].state = "live" /\ rows'[x].parent = t
          /\ \A i \in Items \ {x} : rows'[i] = rows[i]
TreeStep == Same \/ Less \/ More \/ Relocates

LEMMA CreateTree ==
  ASSUME VaultAssumption, VaultInv, NEW p \in Actors, CreateWrite(p) PROVE TreeStep
<1> DEFINE c == call[p]
<1>1. CASE ~CreateLands(c)
  BY <1>1 DEF CreateWrite, TreeStep, Same
<1>2. CASE CreateLands(c)
  <2>1. /\ CallInv(p, c, rows, expired) /\ c.op = "create" /\ c.id \in Items
    BY CallOf DEF CreateWrite, At, CallInv, Fits
  <2>2. rows[c.id].state = "absent"
    BY <1>2, <2>1 DEF CreateLands, CallInv, Once, Kept, VaultInv, Table, Row, States
  <2>3. rows' = [rows EXCEPT ![c.id] = NewRow(c, vaultSeq + 1)]
    BY <1>2 DEF CreateWrite
  <2>4. c.to \in Live \cup {Nil}
    BY <1>2 DEF CreateLands, LiveFolder
  <2>5. /\ rows'[c.id].state = "live" /\ rows'[c.id].parent = c.to
        /\ \A i \in Items \ {c.id} : rows'[i] = rows[i]
    BY <2>1, <2>3 DEF NewRow, VaultInv, Table
  <2> HIDE DEF c
  <2> QED
    BY <2>1, <2>2, <2>4, <2>5 DEF TreeStep, More
<1> QED
  BY <1>1, <1>2

LEMMA UpdateTree ==
  ASSUME VaultAssumption, VaultInv, NEW p \in Actors, NEW op \in Updates, UpdateWrite(p, op)
  PROVE  TreeStep
<1> DEFINE c == call[p]
           x == c.id
           row == Changed(p, op, rows[x], c, vaultSeq + 1)
<1>1. CASE ~UpdateLands(op, c)
  BY <1>1 DEF UpdateWrite, TreeStep, Same
<1>2. CASE UpdateLands(op, c)
  <2>1. x \in Live /\ x \in Items /\ rows[x] \in Row /\ rows' = [rows EXCEPT ![x] = row]
    BY <1>2 DEF UpdateWrite, UpdateLands, Live, VaultInv, Table
  <2>2. /\ row.state = "live" /\ row.parent = IF op \in Moves THEN c.to ELSE rows[x].parent
        /\ rows'[x] = row /\ \A i \in Items \ {x} : rows'[i] = rows[i]
    BY <2>1 DEF Changed, Live, VaultInv, Table
  <2> HIDE DEF row
  <2>3. CASE row.parent = rows[x].parent
    <3>1. Existing(rows') = Existing(rows) /\ Live' = Live
      BY <2>1, <2>2 DEF Existing, Live
    <3>2. Fewer(rows, rows')
      BY <2>1, <2>2, <2>3, <3>1 DEF Fewer, Existing
    <3> QED
      BY <3>1, <3>2 DEF TreeStep, Less
  <2>4. CASE row.parent # rows[x].parent
    <3>1. op \in Moves /\ row.parent = c.to
      BY <2>2, <2>4
    <3>2. \/ c.to = Nil
          \/ c.to \in Live /\ c.to \notin Under(rows, x)
      BY <1>2, <2>4, <3>1, SubtreeIsUnder DEF UpdateLands, Nests, LiveFolder
    <3>3. Nil \notin Under(rows, x)
      BY <2>1, UnderIs DEF VaultAssumption
    <3> QED
      BY <2>1, <2>2, <3>1, <3>2, <3>3 DEF TreeStep, Relocates
  <2> QED
    BY <2>3, <2>4
<1> QED
  BY <1>1, <1>2

\* A row that keeps its parent, or goes.
Stays(i) ==
  \/ rows'[i] = rows[i]
  \/ /\ rows[i].state = "live" /\ rows'[i].state \in {"live", "gone"}
     /\ rows'[i].parent = rows[i].parent
  \/ rows'[i].state = "forgotten"

LEMMA ParentsStay == ASSUME VaultInv, \A i \in Items : Stays(i) PROVE TreeStep
BY DEF Stays, TreeStep, Less, Fewer, Existing, Live

LEMMA ResealTree == ASSUME VaultInv, NEW p \in Actors, ResealBatch(p) PROVE TreeStep
<1>1. ASSUME NEW i \in Items PROVE Stays(i)
  BY ZenonT(90) DEF Stays, ResealBatch, Resealable, Live, VaultInv, Table, Row
<1> QED
  BY <1>1, ParentsStay

LEMMA PurgeTree == ASSUME VaultInv, NEW p \in Actors, PurgeWrite(p) PROVE TreeStep
<1>1. ASSUME NEW i \in Items PROVE Stays(i)
  BY DEF Stays, PurgeWrite, Done, Live, Tombstone
<1> QED
  BY <1>1, ParentsStay

LEMMA ClaimTree == ASSUME VaultInv, CronClaims PROVE TreeStep
<1>1. ASSUME NEW i \in Items PROVE Stays(i)
  BY DEF Stays, CronClaims, ClaimableStill, Overdue, Tombstone, VaultInv, Table
<1> QED
  BY <1>1, ParentsStay

LEMMA ForgetTree == ASSUME VaultInv, CronForgets PROVE TreeStep
<1>1. ASSUME NEW i \in Items PROVE Stays(i)
  BY DEF Stays, CronForgets, NoRow
<1> QED
  BY <1>1, ParentsStay

LEMMA NextTree == ASSUME VaultAssumption, VaultInv, Next PROVE TreeStep
<1>1. CASE UNCHANGED rows
  BY <1>1 DEF TreeStep, Same
<1>2. ASSUME NEW p \in Actors, Handlers(p) \/ Dies(p) PROVE TreeStep
  BY <1>1, <1>2, CreateTree, UpdateTree, ResealTree, PurgeTree
     DEF Handlers, Dies, CreateCheck, UpdateCheck, ResealCheck, DeleteCheck, PurgeWalk, server
<1>3. CASE CronRuns
  BY <1>1, <1>3, ClaimTree, ForgetTree DEF CronRuns, CronChooses, CronGoesOn, server
<1>4. ASSUME NEW w \in Writers, Sends(w) \/ Receive(w) \/ AnswerLost(w) PROVE UNCHANGED rows
  BY <1>4 DEF Sends, Create, Update, Delete, Reseal, Send, Receive, AnswerLost, server
<1>5. ASSUME NEW S \in SUBSET Items, CronStarts(S) PROVE UNCHANGED rows
  BY <1>5 DEF CronStarts
<1>6. Rotate => UNCHANGED rows
  BY DEF Rotate
<1> QED
  BY <1>1, <1>2, <1>3, <1>4, <1>5, <1>6 DEF Next, ServerNext

LEMMA PlacedStep == ASSUME VaultAssumption, VaultInv, RowsLive, Placed, TreeStep PROVE Placed'
<1>1. ASSUME NEW i \in Items, rows[i].state # "absent" PROVE rows'[i].state # "absent"
  BY <1>1 DEF RowsLive, Lives, Untouched, Born, Edited, Resealed, Buried, Forgotten
<1>2. ASSUME NEW i \in Existing(rows'), rows'[i].parent # Nil
      PROVE  rows'[i].parent \in Items /\ rows[rows'[i].parent].state # "absent"
  <2>1. \/ i \in Existing(rows) /\ rows'[i].parent = rows[i].parent
        \/ rows'[i].parent \in Live \cup {Nil}
    BY DEF TreeStep, Same, Less, Fewer, More, Relocates, Existing
  <2>2. i \in Existing(rows) => rows[i].parent \in Items \cup {Nil}
    BY DEF Existing, VaultInv, Table, Row
  <2> QED
    BY <1>2, <2>1, <2>2 DEF Placed, Live
<1> QED
  BY <1>1, <1>2 DEF Placed

LEMMA MoreIsAdded ==
  ASSUME VaultAssumption, Placed, NEW x \in Items, NEW t \in Live \cup {Nil},
         rows[x].state = "absent", rows'[x].state = "live", rows'[x].parent = t,
         \A i \in Items \ {x} : rows'[i] = rows[i]
  PROVE  Added(rows, rows', x, t)
<1>1. x \notin Existing(rows) /\ Existing(rows') = Existing(rows) \cup {x}
  BY DEF Existing
<1>2. t # x
  BY DEF Live, VaultAssumption
<1>3. \A i \in Existing(rows) : i \in Items /\ i # x /\ rows'[i].parent = rows[i].parent
  BY <1>1 DEF Existing
<1>4. \A i \in Existing(rows) : rows[i].parent # x
  BY DEF Placed, VaultAssumption
<1> QED
  BY <1>1, <1>2, <1>3, <1>4 DEF Added

LEMMA RelocatesIsMoved ==
  ASSUME NEW x \in Live, NEW t \in Live \cup {Nil}, t \notin Under(rows, x),
         rows'[x].state = "live", rows'[x].parent = t, \A i \in Items \ {x} : rows'[i] = rows[i]
  PROVE  Moved(rows, rows', x, t)
BY DEF Moved, Existing, Live

LEMMA AcyclicStep ==
  ASSUME VaultAssumption, VaultInv, Placed, Acyclic(rows), TreeStep PROVE Acyclic(rows')
<1>1. CASE Same
  BY <1>1 DEF Same
<1>2. CASE Less
  BY <1>2, FewerAcyclic DEF Less
<1>3. CASE More
  <2>1. PICK x \in Items, t \in Live \cup {Nil} :
          /\ rows[x].state = "absent" /\ rows'[x].state = "live" /\ rows'[x].parent = t
          /\ \A i \in Items \ {x} : rows'[i] = rows[i]
    BY <1>3 DEF More
  <2>2. Added(rows, rows', x, t)
    BY <2>1, MoreIsAdded
  <2> QED
    BY <2>2, AddedAcyclic
<1>4. CASE Relocates
  <2>1. PICK x \in Live, t \in Live \cup {Nil} :
          /\ t \notin Under(rows, x)
          /\ rows'[x].state = "live" /\ rows'[x].parent = t
          /\ \A i \in Items \ {x} : rows'[i] = rows[i]
    BY <1>4 DEF Relocates
  <2>2. Moved(rows, rows', x, t)
    BY <2>1, RelocatesIsMoved
  <2> QED
    BY <2>2, MovedAcyclic
<1> QED
  BY <1>1, <1>2, <1>3, <1>4 DEF TreeStep

\* Where nothing is alive nothing comes to life: only what is alive takes a row in.
LEMMA EmptyStays ==
  ASSUME VaultAssumption, VaultInv, TreeStep, NEW a \in Items, rows[a].state # "absent",
         Under(rows, a) \cap Live = {}
  PROVE  Under(rows', a) \cap Live' = {}
<1> DEFINE U == Under(rows, a)
<1>1. a \in U /\ U \subseteq Items /\ Closed(rows, U) /\ U \subseteq {a} \cup Existing(rows)
  BY UnderIs, UnderExists
<1>2. ASSUME Closed(rows', U), Live' \cap U \subseteq Live PROVE Under(rows', a) \cap Live' = {}
  BY <1>1, <1>2, UnderIs
<1>3. CASE Same
  BY <1>3 DEF Same, Live
<1>4. CASE Less
  BY <1>1, <1>2, <1>4 DEF Less, Fewer, Closed
<1>5. CASE More
  <2>1. PICK x \in Items, t \in Live \cup {Nil} :
          /\ rows[x].state = "absent" /\ rows'[x].state = "live" /\ rows'[x].parent = t
          /\ \A i \in Items \ {x} : rows'[i] = rows[i]
    BY <1>5 DEF More
  <2>2. t \notin U /\ x \notin U
    BY <1>1, <2>1 DEF VaultAssumption, Existing
  <2>3. Closed(rows', U)
    BY <1>1, <2>1, <2>2 DEF Closed, Existing
  <2>4. Live' \cap U \subseteq Live
    BY <2>1, <2>2 DEF Live
  <2> QED
    BY <1>2, <2>3, <2>4
<1>6. CASE Relocates
  <2>1. PICK x \in Live, t \in Live \cup {Nil} :
          /\ t \notin Under(rows, x)
          /\ rows'[x].state = "live" /\ rows'[x].parent = t
          /\ \A i \in Items \ {x} : rows'[i] = rows[i]
    BY <1>6 DEF Relocates
  <2>2. t \notin U /\ x \notin U
    BY <1>1, <2>1 DEF VaultAssumption
  <2>3. Closed(rows', U)
    BY <1>1, <2>1, <2>2 DEF Closed, Existing
  <2>4. Live' \cap U \subseteq Live
    BY <2>1, <2>2 DEF Live
  <2> QED
    BY <1>2, <2>3, <2>4
<1> QED
  BY <1>3, <1>4, <1>5, <1>6 DEF TreeStep

(***************************************************************************)
(* Deletions.                                                              *)
(***************************************************************************)
\* How a deletion goes on, or another begins.
GoesOn(p) ==
  /\ call[p].op = "delete" /\ call'[p].id = call[p].id
  /\ call'[p].stage = "ok" => Under(rows, call[p].id) \cap Live = {}
  /\ p = Cron => call[p].stage \in {"walk", "batch"} /\ call'[p].stage \in {"walk", "batch", "ok"}
Begins(p) == p # Cron /\ call'[p].id \in Live /\ call'[p].stage = "sent"
Claims(p) ==
  p = Cron /\ call'[p].id \in Live /\ rows'[call'[p].id].state = "gone" /\ call'[p].stage = "walk"

DeleteMoves(p) == call'[p].op = "delete" => GoesOn(p) \/ Begins(p) \/ Claims(p)
OnlyMoves(p) == DeleteMoves(p) /\ \A q \in Actors \ {p} : call'[q] = call[q]

LEMMA CallBecomes ==
  ASSUME VaultInv, NEW p \in Actors, NEW c, Becomes(p, c)
  PROVE  call'[p] = c /\ \A q \in Actors \ {p} : call'[q] = call[q]
BY DEF VaultInv, Becomes

LEMMA CallGoes ==
  ASSUME VaultInv, NEW p \in Actors, NEW stage, Goes(p, stage)
  PROVE  call'[p].op = call[p].op /\ call'[p].id = call[p].id /\ call'[p].stage = stage
<1>1. call'[p] = [call[p] EXCEPT !.stage = stage]
  BY CallBecomes DEF Goes
<1>2. DOMAIN call[p] = DOMAIN NoCall
  BY CallOf DEF Call
<1> QED
  BY <1>1, <1>2 DEF NoCall

LEMMA CallAnswers ==
  ASSUME VaultInv, NEW p \in Actors, NEW row, Answers(p, row) PROVE call'[p].op = call[p].op
<1>1. call'[p] = [call[p] EXCEPT !.stage = "ok", !.row = row]
  BY CallBecomes DEF Answers
<1>2. DOMAIN call[p] = DOMAIN NoCall
  BY CallOf DEF Call
<1> QED
  BY <1>1, <1>2 DEF NoCall

LEMMA NotDelete == "delete" \notin Updates /\ "none" # "delete" /\ "create" \notin Updates
BY DEF Updates, Seals, Trashes, Moves

LEMMA WritersMove ==
  ASSUME VaultInv, NEW p \in Actors,
         \/ CreateCheck(p) \/ CreateWrite(p) \/ ResealCheck(p) \/ ResealBatch(p)
         \/ \E op \in Updates : UpdateCheck(p, op) \/ UpdateWrite(p, op)
  PROVE  OnlyMoves(p)
<1>1. call[p].op # "delete"
  BY NotDelete, ZenonT(90) DEF CreateCheck, CreateWrite, ResealCheck, ResealBatch, UpdateCheck,
                   UpdateWrite, At
<1>2. (\E stage : Goes(p, stage)) \/ (\E row : Answers(p, row))
  BY DEF CreateCheck, CreateWrite, ResealCheck, ResealBatch, UpdateCheck, UpdateWrite
<1>3. call'[p].op = call[p].op
  BY <1>2, CallGoes, CallAnswers
<1>4. \A q \in Actors \ {p} : call'[q] = call[q]
  BY <1>2, CallBecomes DEF Goes, Answers
<1> QED
  BY <1>1, <1>3, <1>4 DEF OnlyMoves, DeleteMoves

LEMMA EndMoves == ASSUME VaultInv, NEW p \in Actors, Becomes(p, NoCall) PROVE OnlyMoves(p)
<1>1. call'[p].op = "none" /\ \A q \in Actors \ {p} : call'[q] = call[q]
  BY CallBecomes DEF NoCall
<1> QED
  BY <1>1 DEF OnlyMoves, DeleteMoves

LEMMA PurgesMove ==
  ASSUME VaultInv, NEW p \in Actors, Deletes(p, call[p]),
         DeleteCheck(p) \/ PurgeWalk(p) \/ PurgeWrite(p)
  PROVE  OnlyMoves(p)
<1> DEFINE c == call[p]
<1>0. DOMAIN c = DOMAIN NoCall
  BY CallOf DEF Call
<1>1. CASE DeleteCheck(p)
  <2>1. c.op = "delete" /\ c.stage = "sent" /\ p # Cron
    BY <1>1 DEF DeleteCheck, At, Deletes
  <2>2. Goes(p, "walk") \/ Goes(p, "not_found")
    BY <1>1 DEF DeleteCheck
  <2>3. call'[p].id = c.id /\ call'[p].stage # "ok" /\ \A q \in Actors \ {p} : call'[q] = call[q]
    BY <2>2, CallGoes, CallBecomes DEF Goes
  <2> QED
    BY <2>1, <2>3 DEF OnlyMoves, DeleteMoves, GoesOn
<1>2. CASE PurgeWalk(p)
  <2>1. c.op = "delete" /\ c.stage = "walk"
    BY <1>2 DEF PurgeWalk, At
  <2>2. CASE Subtree(c.id) \cap Live = {} /\ Goes(p, "ok")
    <3>1. Under(rows, c.id) \cap Live = {}
      BY <2>2, SubtreeIsUnder
    <3>2. /\ call'[p].id = c.id /\ call'[p].stage = "ok"
          /\ \A q \in Actors \ {p} : call'[q] = call[q]
      BY <2>2, CallGoes, CallBecomes DEF Goes
    <3> QED
      BY <2>1, <3>1, <3>2 DEF OnlyMoves, DeleteMoves, GoesOn
  <2>3. CASE \E alive : Becomes(p, [c EXCEPT !.stage = "batch", !.todo = alive])
    <3>1. PICK alive : Becomes(p, [c EXCEPT !.stage = "batch", !.todo = alive])
      BY <2>3
    <3>2. /\ call'[p] = [c EXCEPT !.stage = "batch", !.todo = alive]
          /\ \A q \in Actors \ {p} : call'[q] = call[q]
      BY <3>1, CallBecomes
    <3>3. call'[p].id = c.id /\ call'[p].stage = "batch"
      BY <1>0, <3>2 DEF NoCall
    <3> QED
      BY <2>1, <3>2, <3>3 DEF OnlyMoves, DeleteMoves, GoesOn
  <2> QED
    BY <1>2, <2>2, <2>3 DEF PurgeWalk
<1>3. CASE PurgeWrite(p)
  <2>1. c.op = "delete" /\ c.stage = "batch"
    BY <1>3 DEF PurgeWrite, At
  <2>2. PICK todo, purged, stage :
          /\ stage \in {"walk", "batch"}
          /\ Becomes(p, [c EXCEPT !.todo = todo, !.purged = purged, !.stage = stage])
    BY <1>3 DEF PurgeWrite
  <2>3. call'[p] = [c EXCEPT !.todo = todo, !.purged = purged, !.stage = stage]
        /\ \A q \in Actors \ {p} : call'[q] = call[q]
    BY <2>2, CallBecomes
  <2>4. call'[p].id = c.id /\ call'[p].stage \in {"walk", "batch"}
    BY <1>0, <2>2, <2>3 DEF NoCall
  <2> QED
    BY <2>1, <2>3, <2>4 DEF OnlyMoves, DeleteMoves, GoesOn
<1> QED
  BY <1>1, <1>2, <1>3

LEMMA CronMoves ==
  ASSUME VaultInv, CronRuns \/ \E S \in SUBSET Items : CronStarts(S) PROVE OnlyMoves(Cron)
<1>0. Cron \in Actors
  BY DEF Actors
<1>1. ASSUME NEW c, Becomes(Cron, c), c.op # "delete" PROVE OnlyMoves(Cron)
  BY <1>0, <1>1, CallBecomes DEF OnlyMoves, DeleteMoves
<1>2. \A i : CronChooses(i) => OnlyMoves(Cron)
  <2> SUFFICES ASSUME NEW i, CronChooses(i) PROVE OnlyMoves(Cron)
    OBVIOUS
  <2> DEFINE c == [call[Cron] EXCEPT !.stage = "claim", !.id = i, !.saw = [j \in {i} |-> rows[i]]]
  <2>1. Becomes(Cron, c) /\ call[Cron].op = "clean" /\ DOMAIN call[Cron] = DOMAIN NoCall
    BY <1>0, CallOf DEF CronChooses, At, Call
  <2>2. c.op # "delete"
    BY <2>1 DEF NoCall
  <2> HIDE DEF c
  <2> QED
    BY <1>1, <2>1, <2>2
<1>3. CASE CronClaims
  <2> DEFINE c == call[Cron]
             next == [NoCall EXCEPT !.op = "delete", !.stage = "walk", !.id = c.id]
  <2>1. CASE Becomes(Cron, [NoCall EXCEPT !.op = "clean", !.stage = "choose"])
    BY <1>1, <2>1 DEF NoCall
  <2>2. CASE ClaimableStill(c) /\ Becomes(Cron, next)
    <3>1. /\ c.id \in Live /\ c.id \in Items
          /\ rows' = [rows EXCEPT ![c.id] = Tombstone(rows[c.id], vaultSeq + 1)]
      BY <1>3, <2>2 DEF CronClaims, ClaimableStill, Overdue, Live, VaultInv, Counters
    <3>2. rows'[c.id].state = "gone"
      BY <3>1 DEF Tombstone, VaultInv, Table
    <3>3. next.op = "delete" /\ next.stage = "walk" /\ next.id = c.id
      BY DEF NoCall
    <3>4. call'[Cron] = next /\ \A q \in Actors \ {Cron} : call'[q] = call[q]
      BY <1>0, <2>2, CallBecomes
    <3> QED
      BY <3>1, <3>2, <3>3, <3>4 DEF OnlyMoves, DeleteMoves, Claims
  <2> QED
    BY <1>3, <2>1, <2>2 DEF CronClaims
<1>4. CASE CronGoesOn \/ CronForgets \/ \E S \in SUBSET Items : CronStarts(S)
  <2>1. \/ Becomes(Cron, NoCall)
        \/ \E op, stage :
             op = "clean" /\ Becomes(Cron, [NoCall EXCEPT !.op = op, !.stage = stage])
    BY <1>4 DEF CronGoesOn, CronForgets, CronStarts
  <2> QED
    BY <1>1, <2>1 DEF NoCall
<1> QED
  BY <1>2, <1>3, <1>4 DEF CronRuns

LEMMA DevicesMove ==
  ASSUME VaultAssumption, VaultInv, NEW w \in Writers, Sends(w) \/ Receive(w) \/ AnswerLost(w)
  PROVE  w \in Actors /\ OnlyMoves(w)
<1>0. w \in Actors /\ w # Cron
  BY DEF Actors, VaultAssumption
<1>1. CASE Receive(w)
  BY <1>0, <1>1, EndMoves DEF Receive
<1>2. CASE AnswerLost(w)
  <2> DEFINE again == [call[w] EXCEPT !.stage = "sent", !.row = NoRow, !.purged = {}]
  <2>1. CASE Becomes(w, NoCall)
    BY <1>0, <2>1, EndMoves
  <2>2. CASE Becomes(w, again)
    <3>1. again.op = call[w].op /\ again.id = call[w].id /\ again.stage = "sent"
      BY <1>0, CallOf DEF Call, NoCall
    <3> HIDE DEF again
    <3> QED
      BY <1>0, <2>2, <3>1, CallBecomes DEF OnlyMoves, DeleteMoves, GoesOn
  <2> QED
    BY <1>2, <2>1, <2>2 DEF AnswerLost
<1>3. CASE Sends(w)
  <2>1. PICK op, id, to, saw : Send(w, op, id, to, saw) /\ (op = "delete" => id \in Live)
    <3>1. CASE \E id \in Items, to \in Folders \cup {Nil} : Create(w, id, to)
      BY <3>1 DEF Create
    <3>2. CASE \E id \in Items, to \in Folders \cup {Nil}, op \in Updates : Update(w, op, id, to)
      <4>1. PICK id \in Items, to \in Folders \cup {Nil}, op \in Updates : Update(w, op, id, to)
        BY <3>2
      <4>2. Send(w, op, id, to, [i \in {id} |-> rows[id]]) /\ op # "delete"
        BY <4>1, NotDelete DEF Update
      <4> QED
        BY <4>2
    <3>3. CASE \E id \in Items : Delete(w, id)
      BY <3>3 DEF Delete
    <3>4. CASE Reseal(w)
      <4>1. \E saw : Send(w, "reseal", Nil, Nil, saw)
        BY <3>4 DEF Reseal
      <4> QED
        BY <4>1
    <3> QED
      BY <1>3, <3>1, <3>2, <3>3, <3>4 DEF Sends
  <2> DEFINE c == [NoCall EXCEPT !.op = op, !.stage = "sent", !.id = id, !.to = to,
                                 !.epoch = groupEpoch, !.saw = saw]
  <2>2. c.op = op /\ c.stage = "sent" /\ c.id = id
    BY DEF NoCall
  <2>3. call'[w] = c /\ \A q \in Actors \ {w} : call'[q] = call[q]
    BY <1>0, <2>1, CallBecomes DEF Send
  <2> HIDE DEF c
  <2> QED
    BY <1>0, <2>1, <2>2, <2>3 DEF OnlyMoves, DeleteMoves, Begins
<1> QED
  BY <1>0, <1>1, <1>2, <1>3

LEMMA NextMoves ==
  ASSUME VaultAssumption, VaultInv, TreeInv, Next, NEW q \in Actors
  PROVE  call'[q] = call[q] \/ DeleteMoves(q)
<1>1. ASSUME NEW p \in Actors, OnlyMoves(p) PROVE call'[q] = call[q] \/ DeleteMoves(q)
  BY <1>1 DEF OnlyMoves
<1>2. ASSUME NEW p \in Actors, Handlers(p) PROVE OnlyMoves(p)
  BY <1>2, WritersMove, PurgesMove DEF Handlers, TreeInv
<1>3. ASSUME NEW p \in Actors, Dies(p) PROVE OnlyMoves(p)
  BY <1>3, EndMoves DEF Dies
<1>4. Cron \in Actors
  BY DEF Actors
<1>5. CASE Rotate
  BY <1>5 DEF Rotate
<1>6. CASE ServerNext
  BY <1>1, <1>2, <1>3, <1>4, <1>5, <1>6, CronMoves DEF ServerNext
<1>7. ASSUME NEW w \in Writers, Sends(w) \/ Receive(w) \/ AnswerLost(w)
      PROVE  call'[q] = call[q] \/ DeleteMoves(q)
  BY <1>1, <1>7, DevicesMove
<1> QED
  BY <1>6, <1>7 DEF Next

\* While the cron purges an item it forgets no tombstone.
LEMMA GoneStays ==
  ASSUME VaultAssumption, VaultInv, Next, call[Cron].op = "delete",
         NEW a \in Items, rows[a].state = "gone"
  PROVE  rows'[a].state = "gone"
<1>0. a \notin Live /\ rows \in [Items -> Row]
  BY DEF Live, VaultInv, Table
<1>1. CASE UNCHANGED rows
  BY <1>1
<1>2. ASSUME NEW p \in Actors, CreateWrite(p) PROVE rows'[a].state = "gone"
  BY <1>0, <1>2 DEF CreateWrite, CreateLands, Kept
<1>3. ASSUME NEW p \in Actors, NEW op \in Updates, UpdateWrite(p, op)
      PROVE  rows'[a].state = "gone"
  BY <1>0, <1>3 DEF UpdateWrite, UpdateLands
<1>4. ASSUME NEW p \in Actors, ResealBatch(p) PROVE rows'[a].state = "gone"
  BY <1>0, <1>4 DEF ResealBatch, Resealable
<1>5. ASSUME NEW p \in Actors, PurgeWrite(p) PROVE rows'[a].state = "gone"
  BY <1>0, <1>5 DEF PurgeWrite, Done
<1>6. ASSUME NEW p \in Actors, Handlers(p) \/ Dies(p) PROVE rows'[a].state = "gone"
  BY <1>1, <1>2, <1>3, <1>4, <1>5, <1>6
     DEF Handlers, Dies, CreateCheck, UpdateCheck, ResealCheck, DeleteCheck, PurgeWalk, server
<1>7. CASE CronRuns
  BY <1>1, <1>7 DEF CronRuns, CronChooses, CronClaims, CronGoesOn, CronForgets, At, server
<1>8. ASSUME NEW w \in Writers, Sends(w) \/ Receive(w) \/ AnswerLost(w) PROVE UNCHANGED rows
  BY <1>8 DEF Sends, Create, Update, Delete, Reseal, Send, Receive, AnswerLost, server
<1>9. ASSUME NEW S \in SUBSET Items, CronStarts(S) PROVE UNCHANGED rows
  BY <1>9 DEF CronStarts
<1>10. Rotate => UNCHANGED rows
  BY DEF Rotate
<1> QED
  BY <1>1, <1>6, <1>7, <1>8, <1>9, <1>10 DEF Next, ServerNext

LEMMA DeletesStep ==
  ASSUME VaultAssumption, VaultInv, TreeInv, Next, RowsLive, TreeStep,
         NEW q \in Actors, call'[q].op = "delete"
  PROVE  /\ call'[q].id \in Items /\ rows'[call'[q].id].state # "absent"
         /\ call'[q].stage = "ok" => Under(rows', call'[q].id) \cap Live' = {}
         /\ q = Cron => /\ call'[q].stage \in {"walk", "batch", "ok"}
                        /\ call'[q].stage # "ok" => rows'[call'[q].id].state = "gone"
<1> DEFINE c == call[q]
           a == call'[q].id
<1>1. Deletes(q, c)
  BY DEF TreeInv
<1>2. ASSUME a \in Items, rows[a].state # "absent" PROVE rows'[a].state # "absent"
  BY <1>2 DEF RowsLive, Lives, Untouched, Born, Edited, Resealed, Buried, Forgotten
<1>3. ASSUME a \in Items, rows[a].state # "absent", Under(rows, a) \cap Live = {}
      PROVE  Under(rows', a) \cap Live' = {}
  BY <1>3, EmptyStays
<1>4. CASE call'[q] = c
  <2>1. a \in Items /\ rows[a].state # "absent"
    BY <1>1, <1>4 DEF Deletes
  <2>2. CASE q = Cron
    BY <1>1, <1>2, <1>3, <1>4, <2>1, <2>2, GoneStays DEF Deletes
  <2>3. CASE q # Cron
    BY <1>1, <1>2, <1>3, <1>4, <2>1, <2>3 DEF Deletes
  <2> QED
    BY <2>2, <2>3
<1>5. CASE GoesOn(q)
  <2>1. a \in Items /\ rows[a].state # "absent" /\ a = c.id /\ c.op = "delete"
    BY <1>1, <1>5 DEF Deletes, GoesOn
  <2>2. call'[q].stage = "ok" => Under(rows, a) \cap Live = {}
    BY <1>5, <2>1 DEF GoesOn
  <2>3. ASSUME q = Cron
        PROVE  call'[q].stage \in {"walk", "batch", "ok"} /\ rows'[a].state = "gone"
    <3>1. rows[a].state = "gone" /\ call'[q].stage \in {"walk", "batch", "ok"}
      BY <1>1, <1>5, <2>1, <2>3 DEF Deletes, GoesOn
    <3> QED
      BY <2>1, <2>3, <3>1, GoneStays
  <2> QED
    BY <1>2, <1>3, <2>1, <2>2, <2>3
<1>6. CASE Begins(q)
  <2>1. a \in Items /\ rows[a].state # "absent" /\ q # Cron /\ call'[q].stage = "sent"
    BY <1>6 DEF Begins, Live
  <2> QED
    BY <1>2, <2>1
<1>7. CASE Claims(q)
  BY <1>7 DEF Claims, Live
<1> QED
  BY <1>4, <1>5, <1>6, <1>7, NextMoves DEF DeleteMoves

LEMMA NextTreeInv == ASSUME VaultAssumption, VaultInv, TreeInv, Next PROVE TreeInv'
<1>1. VaultInv' /\ RowsLive /\ TreeStep
  BY NextKeeps, NextTree
<1>2. Placed' /\ Acyclic(rows')
  BY <1>1, PlacedStep, AcyclicStep DEF TreeInv
<1>3. \A q \in Actors : Deletes(q, call[q])'
  BY <1>1, DeletesStep DEF Deletes
<1> QED
  BY <1>2, <1>3 DEF TreeInv

LEMMA StutterTreeInv == TreeInv /\ UNCHANGED serverVars => TreeInv'
<1> SUFFICES ASSUME TreeInv, UNCHANGED serverVars PROVE TreeInv'
  OBVIOUS
<1>1. rows' = rows /\ call' = call /\ Live' = Live
  BY DEF serverVars, server, Live
<1>2. Placed' /\ Acyclic(rows')
  BY <1>1 DEF TreeInv, Placed
<1>3. \A q \in Actors : Deletes(q, call[q])'
  BY <1>1 DEF TreeInv, Deletes
<1> QED
  BY <1>2, <1>3 DEF TreeInv

\* The tree, and what each deletion is about, stay as they should.
LEMMA TreeInvariant == Spec => []TreeInv
<1>1. Init => TreeInv
  BY InitTree, VaultAssumption
<1>2. VaultInv /\ TreeInv /\ [Next]_serverVars => TreeInv'
  BY NextTreeInv, StutterTreeInv, VaultAssumption
<1> QED
  BY <1>1, <1>2, VaultInvariant, PTL DEF Spec

\* However many moves race each other, no folder ends up inside itself: the guard of the
\* write looks at the tree as it is then (routes/vault.ts:324-326).
THEOREM VaultNoCycle == Spec => []NoCycle
<1>1. TreeInv => NoCycle
  BY SubtreeIsUnder DEF TreeInv, Acyclic, NoCycle, Kept, Existing
<1> QED
  BY <1>1, TreeInvariant, PTL

\* What a deletion reports as done is empty, and stays empty until the next request:
\* nothing is created in a tombstone or moved into one (vault.ts:53-57).
THEOREM VaultDeletedIsEmpty == Spec => []DeletedIsEmpty
<1>1. TreeInv => DeletedIsEmpty
  BY SubtreeIsUnder DEF TreeInv, Deletes, DeletedIsEmpty, At
<1> QED
  BY <1>1, TreeInvariant, PTL

\* A purge only takes what is, in that very batch, under an item that is deleted, being
\* deleted or overdue (vault.ts:85-93, 138-140).
THEOREM VaultPurgedOnlyInside == Spec => PurgedOnlyInside
<1> DEFINE Allowed(i, a) == /\ i \in Subtree(a)
                            /\ \/ rows[a].state = "gone"
                               \/ a \in Overdue
                               \/ \E w \in Writers : Purging(w) /\ call[w].id = a
           Inside == \A i \in Live : rows'[i].state = "gone" => \E a \in Items : Allowed(i, a)
<1>1. ASSUME VaultInv, TreeInv, Next, NEW i \in Live, rows'[i].state = "gone"
      PROVE  \E a \in Items : Allowed(i, a)
  <2>0. i \in Items /\ rows[i].state = "live" /\ rows \in [Items -> Row]
    BY <1>1 DEF Live, VaultInv, Table
  <2>1. CASE UNCHANGED rows
    BY <1>1, <2>0, <2>1
  <2>2. ASSUME NEW p \in Actors, CreateWrite(p) PROVE FALSE
    BY <1>1, <2>0, <2>2 DEF CreateWrite, CreateLands, Kept, NewRow
  <2>3. ASSUME NEW p \in Actors, NEW op \in Updates, UpdateWrite(p, op) PROVE FALSE
    BY <1>1, <2>0, <2>3 DEF UpdateWrite, Changed
  <2>4. ASSUME NEW p \in Actors, ResealBatch(p) PROVE FALSE
    BY <1>1, <2>0, <2>4 DEF ResealBatch, Row
  <2>5. ASSUME NEW p \in Actors, PurgeWrite(p) PROVE \E a \in Items : Allowed(i, a)
    <3>1. i \in Subtree(call[p].id) /\ At(p, "delete", "batch")
      BY <1>1, <2>0, <2>5 DEF PurgeWrite, Done
    <3>2. Deletes(p, call[p]) /\ call[p].id \in Items
      BY <1>1, <3>1 DEF TreeInv, Deletes, At
    <3>3. CASE p = Cron
      BY <3>1, <3>2, <3>3 DEF Deletes, At
    <3>4. CASE p \in Writers
      BY <3>1, <3>2, <3>4 DEF Purging, At
    <3> QED
      BY <3>3, <3>4 DEF Actors
  <2>6. CASE CronClaims
    <3>1. i \in Overdue
      BY <1>1, <2>0, <2>6 DEF CronClaims, ClaimableStill
    <3>2. i \in Subtree(i)
      BY <2>0, SubtreeIsUnder, UnderIs, VaultAssumption
    <3> QED
      BY <2>0, <3>1, <3>2
  <2>7. CASE CronForgets
    BY <1>1, <2>0, <2>7 DEF CronForgets, NoRow
  <2>8. ASSUME NEW p \in Actors, Handlers(p) \/ Dies(p) PROVE \E a \in Items : Allowed(i, a)
    BY <2>1, <2>2, <2>3, <2>4, <2>5, <2>8
       DEF Handlers, Dies, CreateCheck, UpdateCheck, ResealCheck, DeleteCheck, PurgeWalk, server
  <2>9. CASE CronRuns
    BY <2>1, <2>6, <2>7, <2>9 DEF CronRuns, CronChooses, CronGoesOn, server
  <2>10. ASSUME NEW w \in Writers, Sends(w) \/ Receive(w) \/ AnswerLost(w) PROVE UNCHANGED rows
    BY <2>10 DEF Sends, Create, Update, Delete, Reseal, Send, Receive, AnswerLost, server
  <2>11. ASSUME NEW S \in SUBSET Items, CronStarts(S) PROVE UNCHANGED rows
    BY <2>11 DEF CronStarts
  <2>12. Rotate => UNCHANGED rows
    BY DEF Rotate
  <2> HIDE DEF Allowed
  <2> QED
    BY <1>1, <2>1, <2>8, <2>9, <2>10, <2>11, <2>12 DEF Next, ServerNext
<1>2. VaultInv /\ TreeInv /\ [Next]_serverVars => [Inside]_serverVars
  BY <1>1
<1>3. Spec => [][Inside]_serverVars
  <2> HIDE DEF Inside
  <2> QED
    BY <1>2, VaultInvariant, TreeInvariant, PTL DEF Spec
<1> QED
  BY <1>3 DEF PurgedOnlyInside
================================================================================
