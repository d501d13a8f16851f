------------------------ MODULE PlanAdmission_proofs ------------------------
(***************************************************************************)
(* What the validator and the projection compute, for plans of any size.    *)
(*                                                                          *)
(* Both run a loop over a recursive function.  Its equation has a solution  *)
(* (Recursion), which is built by induction over the numbers (Induction),   *)
(* itself an instance of the well-foundedness of finite intervals.  Kahn's  *)
(* queue is then followed step by step (Drained): a node is queued, once,   *)
(* when the last of its dependencies is dequeued.                           *)
(***************************************************************************)
EXTENDS PlanAdmission, FiniteSetTheorems, TLAPS

-----------------------------------------------------------------------------
(* Recursion over the numbers                                                  *)

\* Induction over the numbers, from the well-foundedness of intervals: the
\* library's own statement has an operator parameter that no prover can fill.
LEMMA Induction ==
  ASSUME NEW S \in SUBSET Nat, 0 \in S, \A n \in S : n + 1 \in S
  PROVE  S = Nat
<1> SUFFICES ASSUME Nat \ S # {} PROVE FALSE
  OBVIOUS
<1> DEFINE T == {1..n : n \in Nat \ S}
<1>1. T # {} /\ T \subseteq FiniteSubsetsOf(Nat)
  <2>1. ASSUME NEW n \in Nat PROVE 1..n \in FiniteSubsetsOf(Nat)
    BY FS_Interval DEF FiniteSubsetsOf
  <2> QED BY <2>1
<1>2. PICK x \in T : \A y \in T : ~ (<<y, x>> \in StrictSubsetOrdering(Nat))
  <2> HIDE DEF T
  <2> QED BY <1>1, WFMin, FS_StrictSubsetOrderingWellFounded
<1>3. PICK n \in Nat \ S : x = 1..n
  OBVIOUS
<1>4. n - 1 \in Nat
  BY <1>3
<1>5. CASE n - 1 \in S
  <2>1. (n - 1) + 1 = n
    BY <1>3
  <2> QED BY <1>3, <1>5, <2>1
<1>6. CASE n - 1 \notin S
  <2>1. 1..(n - 1) \in T
    BY <1>4, <1>6
  <2>2. 1..(n - 1) \subseteq 1..n /\ 1..n # 1..(n - 1) /\ 1..n \subseteq Nat
    BY <1>3, <1>4
  <2> HIDE DEF T
  <2>3. <<1..(n - 1), 1..n>> \in StrictSubsetOrdering(Nat)
    BY <2>2 DEF StrictSubsetOrdering
  <2> QED BY <1>2, <1>3, <2>1, <2>3
<1> QED BY <1>5, <1>6


\* the first n results of repeating F, beginning with base
Repeats(S, base, F, n, g) ==
  g \in [0..n -> S] /\ g[0] = base /\ \A i \in 1..n : g[i] = F[i][g[i-1]]

\* They exist.
LEMMA RepeatsExist ==
  ASSUME NEW S, NEW base \in S, NEW F \in [Nat -> [S -> S]]
  PROVE  \A n \in Nat : \E g : Repeats(S, base, F, n, g)
<1> DEFINE T == {n \in Nat : \E g : Repeats(S, base, F, n, g)}
<1>1. 0 \in T
  <2> DEFINE g == [i \in 0..0 |-> base]
  <2>1. g \in [0..0 -> S] /\ g[0] = base
    OBVIOUS
  <2>2. \A i \in 1..0 : g[i] = F[i][g[i-1]]
    OBVIOUS
  <2> HIDE DEF g
  <2> QED BY <2>1, <2>2 DEF Repeats
<1>2. ASSUME NEW n \in T PROVE n + 1 \in T
  <2>1. PICK f : Repeats(S, base, F, n, f)
    OBVIOUS
  <2> DEFINE g == [i \in 0..(n + 1) |-> IF i = n + 1 THEN F[n + 1][f[n]] ELSE f[i]]
  <2>2. n \in Nat /\ 0 \in 0..n /\ n \in 0..n /\ n + 1 # 0 /\ (n + 1) - 1 = n
    OBVIOUS
  <2>3. f \in [0..n -> S] /\ F[n + 1][f[n]] \in S
    BY <2>1, <2>2 DEF Repeats
  <2>4. \A i \in 0..(n + 1) : i # n + 1 => i \in 0..n
    BY <2>2
  <2>5. g \in [0..(n + 1) -> S]
    BY <2>3, <2>4
  <2>6. g[n + 1] = F[n + 1][f[n]] /\ \A i \in 0..n : g[i] = f[i]
    BY <2>2
  <2> HIDE DEF g
  <2>7. ASSUME NEW i \in 1..(n + 1) PROVE g[i] = F[i][g[i-1]]
    <3>1. i - 1 \in 0..n
      BY <2>2
    <3>2. CASE i = n + 1
      BY <2>2, <2>6, <3>1, <3>2
    <3>3. CASE i # n + 1
      <4>1. i \in 1..n /\ i \in 0..n
        BY <2>2, <3>3
      <4> QED BY <2>1, <2>6, <3>1, <4>1 DEF Repeats
    <3> QED BY <3>2, <3>3
  <2>8. g[0] = base
    BY <2>1, <2>2, <2>6 DEF Repeats
  <2> QED BY <2>2, <2>5, <2>7, <2>8 DEF Repeats
<1> HIDE DEF T
<1>3. T \in SUBSET Nat
  BY DEF T
<1>4. T = Nat
  BY <1>1, <1>2, <1>3, Induction
<1> QED BY <1>4 DEF T

\* Longer ones begin like shorter ones.
LEMMA RepeatsAgree ==
  ASSUME NEW S, NEW base, NEW F, NEW m \in Nat, NEW n \in Nat, NEW f, NEW g,
         Repeats(S, base, F, m, f), Repeats(S, base, F, n, g)
  PROVE  \A i \in Nat : i <= m /\ i <= n => f[i] = g[i]
<1> DEFINE T == {i \in Nat : i <= m /\ i <= n => f[i] = g[i]}
<1>1. 0 \in T
  BY DEF Repeats
<1>2. ASSUME NEW i \in T PROVE i + 1 \in T
  <2> SUFFICES ASSUME i + 1 <= m, i + 1 <= n PROVE f[i + 1] = g[i + 1]
    OBVIOUS
  <2>1. i \in Nat /\ i <= m /\ i <= n /\ i + 1 \in 1..m /\ i + 1 \in 1..n /\ (i + 1) - 1 = i
    OBVIOUS
  <2>2. f[i] = g[i]
    BY <2>1
  <2> QED BY <2>1, <2>2 DEF Repeats
<1> HIDE DEF T
<1>3. T \in SUBSET Nat
  BY DEF T
<1>4. T = Nat
  BY <1>1, <1>2, <1>3, Induction
<1> QED BY <1>4 DEF T

\* F repeated for ever
Repeated(S, base, F, g) == g \in [Nat -> S] /\ g[0] = base /\ \A n \in Nat : g[n + 1] = F[n + 1][g[n]]

\* It exists, too.
LEMMA Recursion ==
  ASSUME NEW S, NEW base \in S, NEW F \in [Nat -> [S -> S]]
  PROVE  \E g : Repeated(S, base, F, g)
<1> DEFINE h(n) == CHOOSE g : Repeats(S, base, F, n, g)
           g == [n \in Nat |-> h(n)[n]]
<1>1. \A n \in Nat : Repeats(S, base, F, n, h(n))
  BY RepeatsExist
<1> HIDE DEF h
<1>2. ASSUME NEW n \in Nat PROVE h(n)[n] \in S
  BY <1>1 DEF Repeats
<1>3. g \in [Nat -> S]
  BY <1>2
<1>4. g[0] = base
  BY <1>1 DEF Repeats
<1>5. ASSUME NEW n \in Nat PROVE g[n + 1] = F[n + 1][g[n]]
  <2>1. h(n + 1)[n] = h(n)[n]
    <3>1. n <= n + 1 /\ n <= n /\ n + 1 \in Nat
      OBVIOUS
    <3>2. Repeats(S, base, F, n, h(n)) /\ Repeats(S, base, F, n + 1, h(n + 1))
      BY <1>1, <3>1
    <3>3. \A f, k : Repeats(S, base, F, n + 1, f) /\ Repeats(S, base, F, n, k) =>
            \A i \in Nat : i <= n + 1 /\ i <= n => f[i] = k[i]
      BY <3>1, RepeatsAgree
    <3>4. \A i \in Nat : i <= n + 1 /\ i <= n => h(n + 1)[i] = h(n)[i]
      BY <3>2, <3>3
    <3> QED BY <3>1, <3>4
  <2>2. h(n + 1)[n + 1] = F[n + 1][h(n + 1)[n]]
    <3>1. n + 1 \in 1..(n + 1) /\ (n + 1) - 1 = n /\ n + 1 \in Nat
      OBVIOUS
    <3> QED BY <1>1, <3>1 DEF Repeats
  <2>3. g[n + 1] = h(n + 1)[n + 1] /\ g[n] = h(n)[n]
    OBVIOUS
  <2> QED BY <2>1, <2>2, <2>3
<1> HIDE DEF g
<1> QED BY <1>3, <1>4, <1>5 DEF Repeated
-----------------------------------------------------------------------------
(* Kahn's queue                                                                *)

Finite(edges) == IsFiniteSet(DOMAIN edges) /\ \A c \in DOMAIN edges : IsFiniteSet(edges[c])

\* what the loop of cyclic() does in its k-th step
Take(edges, s, k) == IF k > Len(s.queue) THEN s ELSE Dequeue(edges, s, s.queue[k])

\* the dependencies dequeued by the first k steps
Done(q, k) == {q[i] : i \in {j \in 1..Len(q) : j <= k}}

Start(edges, pending) ==
  [pending |-> pending, queue |-> SetToSeq({id \in DOMAIN edges : pending[id] = 0})]

States(edges) == [pending : [DOMAIN edges -> Int], queue : Seq(DOMAIN edges)]

\* The state after k steps: a node is queued, once, when the dependencies it
\* waits for have been dequeued, and the counts are those of the others.
Drained(edges, s, k) ==
  /\ s \in States(edges)
  /\ \A i, j \in 1..Len(s.queue) : s.queue[i] = s.queue[j] => i = j
  /\ \A c \in DOMAIN edges : s.pending[c] = Cardinality(edges[c] \ Done(s.queue, k))
  /\ \A c \in DOMAIN edges : edges[c] \subseteq Done(s.queue, k) => \E i \in 1..Len(s.queue) : s.queue[i] = c
  /\ \A i \in 1..Len(s.queue) : edges[s.queue[i]] \subseteq Done(s.queue, k)
  /\ \A i \in 1..Len(s.queue) : edges[s.queue[i]] \subseteq Done(s.queue, i - 1)

\* A set as a sequence: each element once.
LEMMA SetAsSequence ==
  ASSUME NEW S, IsFiniteSet(S)
  PROVE  /\ SetToSeq(S) \in Seq(S)
         /\ \A x \in S : \E i \in 1..Len(SetToSeq(S)) : SetToSeq(S)[i] = x
         /\ \A i, j \in 1..Len(SetToSeq(S)) : SetToSeq(S)[i] = SetToSeq(S)[j] => i = j
<1>1. Cardinality(S) \in Nat /\ ExistsBijection(1..Cardinality(S), S)
  BY FS_CardinalityType
<1>2. PICK b \in [1..Cardinality(S) -> S] : IsInjective(b)
  BY <1>1 DEF ExistsBijection, Bijection, Injection
<1> DEFINE q == SetToSeq(S)
<1>3. q \in [1..Cardinality(S) -> S] /\ IsInjective(q)
  BY <1>2 DEF SetToSeq
<1>4. 1..Cardinality(S) = DOMAIN q
  BY <1>3
<1> HIDE DEF q
<1>5. q \in Seq(S) /\ Len(q) = Cardinality(S)
  BY <1>1, <1>3
<1>6. q \in Injection(1..Cardinality(S), S)
  BY <1>3 DEF Injection
<1>7. IsFiniteSet(1..Cardinality(S)) /\ Cardinality(1..Cardinality(S)) = Cardinality(S)
  BY <1>1, FS_Interval
<1>8. q \in Surjection(1..Cardinality(S), S)
  BY <1>6, <1>7, FS_Injection
<1>9. \A x \in S : \E i \in 1..Len(q) : q[i] = x
  BY <1>5, <1>8 DEF Surjection
<1>10. \A i, j \in 1..Len(q) : q[i] = q[j] => i = j
  BY <1>3, <1>5 DEF IsInjective
<1> QED BY <1>5, <1>9, <1>10 DEF q

\* Before the first step only nodes without dependencies are queued.
LEMMA StartIsDrained ==
  ASSUME NEW edges, Finite(edges)
  PROVE  Drained(edges, Start(edges, [id \in DOMAIN edges |-> Cardinality(edges[id])]), 0)
<1> DEFINE D == DOMAIN edges
           pending == [id \in D |-> Cardinality(edges[id])]
           free == {id \in D : pending[id] = 0}
           q == SetToSeq(free)
           s == Start(edges, pending)
<1>1. \A c \in D : Cardinality(edges[c]) \in Nat /\ (Cardinality(edges[c]) = 0 <=> edges[c] = {})
  BY FS_CardinalityType, FS_EmptySet DEF Finite
<1>2. pending \in [D -> Int] /\ \A c \in D : pending[c] = Cardinality(edges[c])
  BY <1>1
<1>3. free \subseteq D /\ \A c \in D : c \in free <=> edges[c] = {}
  BY <1>1, <1>2
<1>4. IsFiniteSet(free)
  BY <1>3, FS_Subset DEF Finite
<1>5. s = [pending |-> pending, queue |-> q]
  BY DEF Start
<1> HIDE DEF free, pending
<1>6. /\ q \in Seq(free)
      /\ \A x \in free : \E i \in 1..Len(q) : q[i] = x
      /\ \A i, j \in 1..Len(q) : q[i] = q[j] => i = j
  BY <1>4, SetAsSequence
<1> HIDE DEF q, s
<1>7. q \in Seq(D) /\ \A i \in 1..Len(q) : q[i] \in free
  BY <1>3, <1>6
<1>8. s \in States(edges) /\ s.queue = q /\ s.pending = pending
  BY <1>2, <1>5, <1>7 DEF States
<1>9. Len(q) \in Nat
  BY <1>7
<1>10. \A k \in Int : k <= 0 => Done(q, k) = {}
  BY <1>9 DEF Done
<1>11. \A c \in D : edges[c] \ Done(q, 0) = edges[c]
  BY <1>10
<1>12. \A i \in 1..Len(q) : edges[q[i]] = {}
  BY <1>3, <1>7
<1> SUFFICES Drained(edges, s, 0)
  BY DEF s, pending
<1>13. \A c \in D : s.pending[c] = Cardinality(edges[c] \ Done(s.queue, 0))
  BY <1>2, <1>8, <1>11
<1>14. \A c \in D : edges[c] \subseteq Done(s.queue, 0) => \E i \in 1..Len(s.queue) : s.queue[i] = c
  BY <1>3, <1>6, <1>8, <1>10
<1>15. \A i \in 1..Len(s.queue) : edges[s.queue[i]] = {}
  BY <1>8, <1>12
<1>16. \A i, j \in 1..Len(s.queue) : s.queue[i] = s.queue[j] => i = j
  BY <1>6, <1>8
<1> QED BY <1>8, <1>13, <1>14, <1>15, <1>16 DEF Drained
\* A step past the end of the queue changes nothing.
LEMMA EmptyTake ==
  ASSUME NEW edges, Finite(edges), NEW s, NEW k \in Nat, Drained(edges, s, k), k + 1 > Len(s.queue)
  PROVE  Drained(edges, Take(edges, s, k + 1), k + 1)
<1>1. s.queue \in Seq(DOMAIN edges)
  BY DEF Drained, States
<1>2. Len(s.queue) \in Nat
  BY <1>1
<1>3. Done(s.queue, k + 1) = Done(s.queue, k)
  <2>1. \A j \in 1..Len(s.queue) : j <= k + 1 <=> j <= k
    BY <1>2
  <2> QED BY <2>1 DEF Done
<1>4. Take(edges, s, k + 1) = s
  BY DEF Take
<1> QED BY <1>3, <1>4 DEF Drained

\* The other steps dequeue one more node and queue the nodes that waited for
\* it as the last one.
LEMMA TakeKeepsDrained ==
  ASSUME NEW edges, Finite(edges), NEW s, NEW k \in Nat, Drained(edges, s, k), k + 1 <= Len(s.queue)
  PROVE  Drained(edges, Take(edges, s, k + 1), k + 1)
<1> DEFINE D == DOMAIN edges
           id == s.queue[k + 1]
           consumers == {c \in D : id \in edges[c]}
           pending == [c \in D |-> IF c \in consumers THEN s.pending[c] - 1 ELSE s.pending[c]]
           free == {c \in consumers : pending[c] = 0}
           more == SetToSeq(free)
           q == s.queue \o more
           t == Take(edges, s, k + 1)
           old == Done(s.queue, k)
           new == old \cup {id}
<1>1. s \in States(edges) /\ s.queue \in Seq(D) /\ s.pending \in [D -> Int]
  BY DEF Drained, States
<1>2. Len(s.queue) \in Nat /\ k + 1 \in 1..Len(s.queue) /\ id \in D
  BY <1>1
<1>3. t = [pending |-> pending, queue |-> q]
  BY <1>2 DEF Take, Dequeue
<1> HIDE DEF t
<1>4. Done(s.queue, k + 1) = new
  <2>1. \A j \in 1..Len(s.queue) : j <= k + 1 <=> j <= k \/ j = k + 1
    BY <1>2
  <2> QED BY <1>2, <2>1 DEF Done
<1>5. id \notin old
  <2>1. \A j \in 1..Len(s.queue) : j <= k => s.queue[j] # id
    BY <1>2 DEF Drained
  <2> QED BY <2>1 DEF Done
<1> HIDE DEF old
<1>6. ASSUME NEW c \in D
      PROVE  /\ IsFiniteSet(edges[c] \ old) /\ IsFiniteSet(edges[c] \ new)
             /\ pending[c] = Cardinality(edges[c] \ new)
  <2>1. IsFiniteSet(edges[c]) /\ IsFiniteSet(edges[c] \ old) /\ IsFiniteSet(edges[c] \ new)
    BY FS_Difference DEF Finite
  <2>2. edges[c] \ new = (edges[c] \ old) \ {id}
    OBVIOUS
  <2>3. s.pending[c] = Cardinality(edges[c] \ old)
    BY DEF Drained, old
  <2>4. Cardinality((edges[c] \ old) \ {id}) =
          IF id \in edges[c] \ old THEN Cardinality(edges[c] \ old) - 1 ELSE Cardinality(edges[c] \ old)
    <3>1. \A T, x : IsFiniteSet(T) => Cardinality(T \ {x}) = IF x \in T THEN Cardinality(T) - 1 ELSE Cardinality(T)
      BY FS_RemoveElement
    <3> HIDE DEF id
    <3> QED BY <2>1, <3>1
  <2>5. id \in edges[c] \ old <=> c \in consumers
    BY <1>5
  <2> HIDE DEF consumers, new
  <2>6. pending[c] = Cardinality(edges[c] \ new)
    BY <2>2, <2>3, <2>4, <2>5
  <2> QED BY <2>1, <2>6
<1>7. pending \in [D -> Int]
  BY <1>1
<1> HIDE DEF pending
<1>8. free \subseteq D /\ IsFiniteSet(free)
  BY FS_Subset DEF Finite
<1>9. \A c \in D : c \in free <=> edges[c] \subseteq new /\ id \in edges[c]
  <2>1. \A c \in D : pending[c] = 0 <=> edges[c] \ new = {}
    BY <1>6, FS_EmptySet
  <2> QED BY <2>1
<1> HIDE DEF free
<1>10. /\ more \in Seq(free)
       /\ \A x \in free : \E i \in 1..Len(more) : more[i] = x
       /\ \A i, j \in 1..Len(more) : more[i] = more[j] => i = j
  BY <1>8, SetAsSequence
<1> HIDE DEF more
<1>11. more \in Seq(D) /\ Len(more) \in Nat
  BY <1>8, <1>10
<1>12. /\ q \in Seq(D) /\ Len(q) = Len(s.queue) + Len(more)
       /\ \A i \in 1..Len(s.queue) : q[i] = s.queue[i]
       /\ \A i \in 1..Len(q) : i > Len(s.queue) => i - Len(s.queue) \in 1..Len(more) /\ q[i] = more[i - Len(s.queue)]
  BY <1>1, <1>2, <1>11
<1>13. \A i \in 1..Len(more) : q[Len(s.queue) + i] = more[i] /\ Len(s.queue) + i \in 1..Len(q)
  BY <1>1, <1>2, <1>11
<1> HIDE DEF q
<1>14. t \in States(edges) /\ t.queue = q /\ t.pending = pending
  BY <1>3, <1>7, <1>12 DEF States
<1>15. ASSUME NEW n \in Int, n <= Len(s.queue) PROVE Done(q, n) = Done(s.queue, n)
  <2>1. {j \in 1..Len(q) : j <= n} = {j \in 1..Len(s.queue) : j <= n}
    BY <1>2, <1>11, <1>12, <1>15
  <2>2. \A j \in {i \in 1..Len(s.queue) : i <= n} : q[j] = s.queue[j]
    BY <1>12
  <2> QED BY <2>1, <2>2 DEF Done
<1>16. Done(q, k + 1) = new
  BY <1>2, <1>4, <1>15
<1>17. \A i \in 1..Len(s.queue) : edges[s.queue[i]] \subseteq old /\ edges[s.queue[i]] \subseteq Done(s.queue, i - 1)
  BY DEF Drained, old
<1>18. \A c \in free : \A i \in 1..Len(s.queue) : s.queue[i] # c
  BY <1>5, <1>8, <1>9, <1>17
<1>19. \A i \in 1..Len(q) : i > Len(s.queue) => q[i] \in free
  <2>1. \A i \in 1..Len(more) : more[i] \in free
    BY <1>10
  <2> QED BY <1>12, <2>1
<1>20. \A i, j \in 1..Len(q) : q[i] = q[j] => i = j
  <2> SUFFICES ASSUME NEW i \in 1..Len(q), NEW j \in 1..Len(q), q[i] = q[j] PROVE i = j
    OBVIOUS
  <2>1. CASE i <= Len(s.queue) /\ j <= Len(s.queue)
    <3>1. i \in 1..Len(s.queue) /\ j \in 1..Len(s.queue)
      BY <1>2, <1>11, <1>12, <2>1
    <3>2. s.queue[i] = s.queue[j]
      BY <1>12, <3>1
    <3> QED BY <3>1, <3>2 DEF Drained
  <2>2. CASE i > Len(s.queue) /\ j > Len(s.queue)
    <3>0. /\ i - Len(s.queue) \in 1..Len(more) /\ j - Len(s.queue) \in 1..Len(more)
          /\ more[i - Len(s.queue)] = more[j - Len(s.queue)]
      BY <1>12, <2>2
    <3>1. i - Len(s.queue) = j - Len(s.queue)
      BY <1>10, <3>0
    <3> QED BY <1>2, <1>11, <1>12, <3>1
  <2>3. CASE i <= Len(s.queue) /\ j > Len(s.queue)
    <3>1. i \in 1..Len(s.queue) /\ q[j] \in free
      BY <1>2, <1>11, <1>12, <1>19, <2>3
    <3> QED BY <1>12, <1>18, <3>1
  <2>4. CASE j <= Len(s.queue) /\ i > Len(s.queue)
    <3>1. j \in 1..Len(s.queue) /\ q[i] \in free
      BY <1>2, <1>11, <1>12, <1>19, <2>4
    <3> QED BY <1>12, <1>18, <3>1
  <2> QED BY <1>2, <1>11, <1>12, <2>1, <2>2, <2>3, <2>4
<1>21. ASSUME NEW c \in D, edges[c] \subseteq new PROVE \E i \in 1..Len(q) : q[i] = c
  <2>1. CASE id \in edges[c]
    <3>1. c \in free
      BY <1>9, <1>21, <2>1
    <3>2. PICK i \in 1..Len(more) : more[i] = c
      BY <1>10, <3>1
    <3> QED BY <1>13, <3>2
  <2>2. CASE id \notin edges[c]
    <3>1. edges[c] \subseteq old
      BY <1>21, <2>2
    <3>2. PICK i \in 1..Len(s.queue) : s.queue[i] = c
      BY <3>1 DEF Drained, old
    <3>3. i \in 1..Len(q)
      BY <1>2, <1>11, <1>12
    <3> QED BY <1>12, <3>2, <3>3
  <2> QED BY <2>1, <2>2
<1>22. ASSUME NEW i \in 1..Len(q)
       PROVE  edges[q[i]] \subseteq new /\ edges[q[i]] \subseteq Done(q, i - 1)
  <2>1. CASE i <= Len(s.queue)
    <3>1. i \in 1..Len(s.queue) /\ q[i] = s.queue[i] /\ i - 1 <= Len(s.queue)
      BY <1>2, <1>11, <1>12, <2>1
    <3>2. Done(q, i - 1) = Done(s.queue, i - 1)
      BY <1>15, <3>1
    <3> QED BY <1>17, <3>1, <3>2
  <2>2. CASE i > Len(s.queue)
    <3>1. edges[q[i]] \subseteq new
      BY <1>8, <1>9, <1>19, <2>2
    <3>2. Done(q, k + 1) \subseteq Done(q, i - 1)
      <4>1. k + 1 <= i - 1 /\ Len(q) \in Nat
        BY <1>2, <1>11, <1>12, <2>2
      <4>2. \A j \in 1..Len(q) : j <= k + 1 => j <= i - 1
        BY <4>1
      <4> QED BY <4>2 DEF Done
    <3> QED BY <1>16, <3>1, <3>2
  <2> QED BY <1>2, <1>12, <2>1, <2>2
<1>23. \A c \in D : t.pending[c] = Cardinality(edges[c] \ Done(t.queue, k + 1))
  BY <1>6, <1>14, <1>16
<1>24. \A c \in D : edges[c] \subseteq Done(t.queue, k + 1) => \E i \in 1..Len(t.queue) : t.queue[i] = c
  BY <1>14, <1>16, <1>21
<1>25. \A i \in 1..Len(t.queue) : edges[t.queue[i]] \subseteq Done(t.queue, k + 1) /\ edges[t.queue[i]] \subseteq Done(t.queue, i - 1)
  BY <1>14, <1>16, <1>22
<1>26. \A i, j \in 1..Len(t.queue) : t.queue[i] = t.queue[j] => i = j
  BY <1>14, <1>20
<1> SUFFICES Drained(edges, t, k + 1)
  BY DEF t
<1> HIDE DEF new, id
<1> QED BY <1>14, <1>23, <1>24, <1>25, <1>26 DEF Drained
\* No step leaves the states.
LEMMA TakeIsState ==
  ASSUME NEW edges, Finite(edges), NEW s \in States(edges), NEW k \in Nat, k # 0
  PROVE  Take(edges, s, k) \in States(edges)
<1> DEFINE D == DOMAIN edges
           id == s.queue[k]
           consumers == {c \in D : id \in edges[c]}
           pending == [c \in D |-> IF c \in consumers THEN s.pending[c] - 1 ELSE s.pending[c]]
           free == {c \in consumers : pending[c] = 0}
           q == s.queue \o SetToSeq(free)
<1>1. s.queue \in Seq(D) /\ s.pending \in [D -> Int]
  BY DEF States
<1>2. pending \in [D -> Int]
  BY <1>1
<1>3. free \subseteq D /\ IsFiniteSet(free)
  BY FS_Subset DEF Finite
<1>4. Dequeue(edges, s, s.queue[k]) = [pending |-> pending, queue |-> q]
  BY DEF Dequeue
<1> HIDE DEF free, pending
<1>5. SetToSeq(free) \in Seq(free)
  BY <1>3, SetAsSequence
<1> HIDE DEF D
<1>6. SetToSeq(free) \in Seq(D)
  BY <1>3, <1>5
<1>7. q \in Seq(D)
  BY <1>1, <1>6
<1> HIDE DEF q
<1>8. [pending |-> pending, queue |-> q] \in States(edges)
  BY <1>2, <1>7 DEF States, D
<1> QED BY <1>4, <1>8 DEF Take

\* What Kahn's loop ends with, whatever the order nodes are queued in.
LEMMA KahnQueue ==
  ASSUME NEW edges, Finite(edges)
  PROVE  /\ Kahn(edges) \in Seq(DOMAIN edges)
         /\ \A i, j \in 1..Len(Kahn(edges)) : Kahn(edges)[i] = Kahn(edges)[j] => i = j
         /\ \A i \in 1..Len(Kahn(edges)) : edges[Kahn(edges)[i]] \subseteq Done(Kahn(edges), i - 1)
         /\ Len(Kahn(edges)) <= Cardinality(DOMAIN edges)
         /\ \A c \in DOMAIN edges : edges[c] \subseteq Done(Kahn(edges), Len(Kahn(edges))) =>
              \E i \in 1..Len(Kahn(edges)) : Kahn(edges)[i] = c
<1> DEFINE D == DOMAIN edges
           counts == [id \in D |-> Cardinality(edges[id])]
           start == Start(edges, counts)
           step == [k \in Nat |-> [s \in States(edges) |-> IF k = 0 THEN s ELSE Take(edges, s, k)]]
           Loop(f) == f = [k \in Nat |-> IF k = 0 THEN start
                                         ELSE IF k > Len(f[k - 1].queue) THEN f[k - 1]
                                              ELSE Dequeue(edges, f[k - 1], f[k - 1].queue[k])]
           after == CHOOSE f : Loop(f)
           n == Cardinality(D)
<1>1. Drained(edges, start, 0)
  BY StartIsDrained
<1>2. n \in Nat
  BY FS_CardinalityType DEF Finite
<1>3. Kahn(edges) = after[n].queue
  BY DEF Kahn, Drain, Start
<1> HIDE DEF start
<1>4. start \in States(edges)
  BY <1>1 DEF Drained
<1>5. step \in [Nat -> [States(edges) -> States(edges)]]
  BY TakeIsState
<1>6. \A k \in Nat : \A s \in States(edges) : k # 0 => step[k][s] = Take(edges, s, k)
  OBVIOUS
<1> HIDE DEF step
<1>7. PICK g : g \in [Nat -> States(edges)] /\ g[0] = start /\ \A k \in Nat : g[k + 1] = step[k + 1][g[k]]
  <2>1. \A S : \A base \in S : \A F \in [Nat -> [S -> S]] : \E g : Repeated(S, base, F, g)
    BY Recursion
  <2>2. PICK g : Repeated(States(edges), start, step, g)
    BY <1>4, <1>5, <2>1
  <2> QED BY <2>2 DEF Repeated
<1>8. \A k \in Nat : g[k + 1] = Take(edges, g[k], k + 1)
  BY <1>6, <1>7
<1>9. \E f : Loop(f)
  <2>1. ASSUME NEW k \in Nat
        PROVE  g[k] = IF k = 0 THEN start
                      ELSE IF k > Len(g[k - 1].queue) THEN g[k - 1]
                           ELSE Dequeue(edges, g[k - 1], g[k - 1].queue[k])
    <3>1. CASE k = 0
      BY <1>7, <3>1
    <3>2. CASE k # 0
      <4>1. k - 1 \in Nat /\ (k - 1) + 1 = k
        BY <3>2
      <4>2. g[k] = Take(edges, g[k - 1], k)
        BY <1>8, <4>1
      <4> QED BY <3>2, <4>2 DEF Take
    <3> QED BY <3>1, <3>2
  <2>2. g = [k \in Nat |-> g[k]]
    BY <1>7
  <2>3. Loop(g)
    BY <2>1, <2>2
  <2> QED BY <2>3
<1>10. Loop(after)
  BY <1>9
<1> HIDE DEF after
<1>11. after[0] = start /\ \A k \in Nat : after[k + 1] = Take(edges, after[k], k + 1)
  <2>1. after[0] = start
    BY <1>10
  <2>2. ASSUME NEW k \in Nat PROVE after[k + 1] = Take(edges, after[k], k + 1)
    <3>1. k + 1 \in Nat /\ k + 1 # 0 /\ (k + 1) - 1 = k
      OBVIOUS
    <3>2. after[k + 1] = IF k + 1 > Len(after[k].queue) THEN after[k]
                         ELSE Dequeue(edges, after[k], after[k].queue[k + 1])
      BY <1>10, <3>1
    <3> QED BY <3>2 DEF Take
  <2> QED BY <2>1, <2>2
<1> DEFINE T == {k \in Nat : Drained(edges, after[k], k)}
<1>12. 0 \in T
  BY <1>1, <1>11
<1>13. ASSUME NEW k \in T PROVE k + 1 \in T
  <2>1. k \in Nat /\ k + 1 \in Nat /\ Drained(edges, after[k], k)
    OBVIOUS
  <2>2. after[k].queue \in Seq(D)
    BY <2>1 DEF Drained, States
  <2>3. Len(after[k].queue) \in Nat
    BY <2>2
  <2>4. CASE k + 1 > Len(after[k].queue)
    BY <1>11, <2>1, <2>4, EmptyTake
  <2>5. CASE k + 1 <= Len(after[k].queue)
    BY <1>11, <2>1, <2>5, TakeKeepsDrained
  <2> QED BY <2>1, <2>3, <2>4, <2>5
<1> HIDE DEF T
<1>14. T = Nat
  <2>1. T \in SUBSET Nat
    BY DEF T
  <2> QED BY <1>12, <1>13, <2>1, Induction
<1> DEFINE q == Kahn(edges)
<1>15. Drained(edges, after[n], n) /\ q = after[n].queue
  BY <1>2, <1>3, <1>14 DEF T
<1> HIDE DEF q, Loop
<1>16. /\ q \in Seq(D)
       /\ \A i, j \in 1..Len(q) : q[i] = q[j] => i = j
       /\ \A i \in 1..Len(q) : edges[q[i]] \subseteq Done(q, i - 1)
       /\ \A c \in D : edges[c] \subseteq Done(q, n) => \E i \in 1..Len(q) : q[i] = c
  BY <1>15 DEF Drained, States
<1>17. Len(q) <= n
  <2>1. Len(q) \in Nat /\ q \in [1..Len(q) -> D]
    BY <1>16
  <2>2. q \in Injection(1..Len(q), D)
    BY <1>16, <2>1 DEF Injection, IsInjective
  <2>3. Cardinality(1..Len(q)) <= Cardinality(D)
    BY <2>2, FS_Injection DEF Finite
  <2>4. Cardinality(1..Len(q)) = Len(q)
    <3>1. \A m \in Nat : Cardinality(1..m) = m
      BY FS_Interval
    <3> QED BY <2>1, <3>1
  <2> QED BY <2>3, <2>4
<1>18. Done(q, n) = Done(q, Len(q))
  <2>1. Len(q) \in Nat
    BY <1>16
  <2>2. \A j \in 1..Len(q) : j <= n /\ j <= Len(q)
    BY <1>2, <1>17, <2>1
  <2> HIDE DEF n
  <2> QED BY <2>2 DEF Done
<1> QED BY <1>16, <1>17, <1>18 DEF q
-----------------------------------------------------------------------------
(* What the queue says of a graph                                              *)

\* A set of numbers that is not empty has a least one.
LEMMA LeastNumber ==
  ASSUME NEW S \in SUBSET Nat, S # {}
  PROVE  \E n \in S : \A m \in S : n <= m
<1> SUFFICES ASSUME \A n \in S : \E m \in S : m < n PROVE FALSE
  OBVIOUS
<1> DEFINE T == {n \in Nat : \A m \in Nat : m <= n => m \notin S}
<1>1. 0 \in T
  OBVIOUS
<1>2. ASSUME NEW n \in T PROVE n + 1 \in T
  <2>1. \A m \in Nat : m <= n => m \notin S
    OBVIOUS
  <2>2. n + 1 \notin S
    <3>1. \A m \in S : m < n + 1 => m <= n
      OBVIOUS
    <3> QED BY <2>1, <3>1
  <2>3. \A m \in Nat : m <= n + 1 => m <= n \/ m = n + 1
    OBVIOUS
  <2> QED BY <2>1, <2>2, <2>3
<1> HIDE DEF T
<1>3. T = Nat
  <2>1. T \in SUBSET Nat
    BY DEF T
  <2> QED BY <1>1, <1>2, <2>1, Induction
<1>4. \A n \in Nat : n <= n
  OBVIOUS
<1> QED BY <1>3, <1>4 DEF T

\* Kahn's count reaches every node exactly when the nodes can be ranked.
LEMMA CyclicIsUnsatisfiable ==
  ASSUME NEW edges, Finite(edges)
  PROVE  Cyclic(edges) <=> ~ Satisfiable(edges)
<1> DEFINE D == DOMAIN edges
           n == Cardinality(D)
           q == Kahn(edges)
           taken == {q[i] : i \in 1..Len(q)}
<1>1. n \in Nat
  BY FS_CardinalityType DEF Finite
<1>2. /\ q \in Seq(D)
      /\ \A i, j \in 1..Len(q) : q[i] = q[j] => i = j
      /\ \A i \in 1..Len(q) : edges[q[i]] \subseteq Done(q, i - 1)
      /\ Len(q) <= n
      /\ \A c \in D : edges[c] \subseteq Done(q, Len(q)) => \E i \in 1..Len(q) : q[i] = c
  BY KahnQueue
<1> HIDE DEF q
<1>3. Len(q) \in Nat /\ q \in [1..Len(q) -> D]
  BY <1>2
<1>4. Done(q, Len(q)) = taken
  BY <1>3 DEF Done
<1>5. taken = D <=> Len(q) = n
  <2>1. q \in Injection(1..Len(q), D)
    BY <1>2, <1>3 DEF Injection, IsInjective
  <2>2. Cardinality(1..Len(q)) = Len(q)
    <3>1. \A m \in Nat : Cardinality(1..m) = m
      BY FS_Interval
    <3> QED BY <1>3, <3>1
  <2>3. Cardinality(1..Len(q)) = Cardinality(D) <=> q \in Surjection(1..Len(q), D)
    BY <2>1, FS_Injection DEF Finite
  <2>4. q \in Surjection(1..Len(q), D) <=> taken = D
    BY <1>3 DEF Surjection
  <2> QED BY <2>2, <2>3, <2>4
<1>6. ASSUME taken = D PROVE Satisfiable(edges)
  <2>1. \A c \in D : \E i \in 1..Len(q) : q[i] = c
    BY <1>6
  <2> DEFINE rank == [c \in D |-> CHOOSE i \in 1..Len(q) : q[i] = c]
  <2>2. \A c \in D : rank[c] \in 1..Len(q) /\ q[rank[c]] = c
    BY <2>1
  <2> HIDE DEF rank
  <2>3. ASSUME NEW c \in D, NEW d \in edges[c] PROVE d \in D /\ rank[d] < rank[c]
    <3>1. d \in Done(q, rank[c] - 1)
      BY <1>2, <2>2
    <3>2. PICK j \in 1..Len(q) : j <= rank[c] - 1 /\ q[j] = d
      BY <3>1 DEF Done
    <3>3. d \in D
      BY <1>3, <3>2
    <3>4. rank[d] = j
      BY <1>2, <2>2, <3>2, <3>3
    <3> QED BY <2>2, <3>2, <3>3, <3>4
  <2>4. rank \in [D -> 1..Cardinality(D)]
    <3>1. 1..Len(q) = 1..Cardinality(D)
      BY <1>5, <1>6
    <3>2. rank = [c \in D |-> rank[c]]
      BY DEF rank
    <3> QED BY <2>2, <3>1, <3>2
  <2> QED BY <2>3, <2>4 DEF Satisfiable
<1>7. ASSUME Satisfiable(edges), taken # D PROVE FALSE
  <2>1. PICK rank \in [D -> 1..n] : \A id \in D : \A d \in edges[id] : d \in D /\ rank[d] < rank[id]
    BY <1>7 DEF Satisfiable
  <2> DEFINE R == {rank[c] : c \in D \ taken}
  <2>2. taken \subseteq D
    BY <1>3
  <2>3. R \in SUBSET Nat /\ R # {}
    <3>1. \A k \in 1..n : k \in Nat
      BY <1>1
    <3>2. \A c \in D \ taken : rank[c] \in Nat
      BY <2>1, <3>1
    <3>3. D \ taken # {}
      BY <1>7, <2>2
    <3> HIDE DEF D, taken
    <3> QED BY <3>2, <3>3
  <2>4. PICK m \in R : \A k \in R : m <= k
    BY <2>3, LeastNumber
  <2>5. PICK c \in D \ taken : rank[c] = m
    OBVIOUS
  <2>6. \A d \in edges[c] : d \in D /\ rank[d] \in Nat /\ rank[d] < m /\ m \in Nat
    BY <1>1, <2>1, <2>5
  <2>7. edges[c] \subseteq taken
    <3>1. \A d \in edges[c] : d \notin taken => rank[d] \in R
      BY <2>6
    <3> HIDE DEF R
    <3>2. \A d \in edges[c] : d \notin taken => FALSE
      BY <2>4, <2>6, <3>1
    <3> QED BY <3>2
  <2> QED BY <1>2, <1>4, <2>5, <2>7
<1>8. Cyclic(edges) <=> Len(q) # n
  BY DEF Cyclic, q
<1> QED BY <1>5, <1>6, <1>7, <1>8

-----------------------------------------------------------------------------
(* Definitions                                                                 *)

Candidate(p) ==
  /\ p.tasks \in Seq(ToSet(p.tasks)) /\ p.phases \in Seq(ToSet(p.phases))
  /\ \A i \in DOMAIN p.tasks : IsFiniteSet(p.tasks[i].deps)

\* A definition is of finitely many tasks.
LEMMA TasksAreFinite ==
  ASSUME NEW p, Candidate(p)
  PROVE  /\ Len(p.tasks) \in Nat /\ DOMAIN p.tasks = 1..Len(p.tasks)
         /\ IsFiniteSet(DOMAIN p.tasks) /\ Cardinality(DOMAIN p.tasks) = Len(p.tasks)
         /\ IsFiniteSet(Ids(p))
         /\ \A id : IsFiniteSet(RequiredChildren(p, id)) /\ RequiredChildren(p, id) \subseteq Ids(p)
<1>1. Len(p.tasks) \in Nat /\ DOMAIN p.tasks = 1..Len(p.tasks)
  BY DEF Candidate
<1>2. IsFiniteSet(DOMAIN p.tasks) /\ Cardinality(DOMAIN p.tasks) = Len(p.tasks)
  <2>1. \A m \in Nat : IsFiniteSet(1..m) /\ Cardinality(1..m) = m
    BY FS_Interval
  <2> QED BY <1>1, <2>1
<1>3. IsFiniteSet(Ids(p))
  <2> DEFINE f == [i \in DOMAIN p.tasks |-> p.tasks[i].id]
  <2>1. f \in Surjection(DOMAIN p.tasks, Ids(p))
    BY DEF Surjection, Ids
  <2> QED BY <1>2, <2>1, FS_Surjection
<1>4. \A id : RequiredChildren(p, id) \subseteq Ids(p)
  BY DEF RequiredChildren, Ids
<1>5. \A id : IsFiniteSet(RequiredChildren(p, id))
  BY <1>3, <1>4, FS_Subset
<1> QED BY <1>1, <1>2, <1>3, <1>4, <1>5

\* Of the entries of an identity the last one is its task.
LEMMA TaskIsAnEntry ==
  ASSUME NEW p, Candidate(p), NEW id \in Ids(p)
  PROVE  \E i \in DOMAIN p.tasks : TaskOf(p, id) = p.tasks[i] /\ p.tasks[i].id = id
<1> DEFINE n == Len(p.tasks)
           at == {i \in DOMAIN p.tasks : p.tasks[i].id = id}
           R == {n - i : i \in at}
<1>1. n \in Nat /\ DOMAIN p.tasks = 1..n
  BY TasksAreFinite
<1>2. at # {}
  BY DEF Ids
<1>3. R \in SUBSET Nat /\ R # {}
  <2>1. \A i \in at : n - i \in Nat
    BY <1>1
  <2> HIDE DEF at, n
  <2> QED BY <1>2, <2>1
<1>4. PICK m \in R : \A k \in R : m <= k
  BY <1>3, LeastNumber
<1>5. PICK i \in at : m = n - i
  OBVIOUS
<1>6. \A j \in at : j <= i
  <2>1. \A j \in at : n - i <= n - j
    BY <1>4, <1>5
  <2> QED BY <1>1, <2>1
<1>7. \E l \in DOMAIN p.tasks :
        p.tasks[l].id = id /\ \A j \in DOMAIN p.tasks : p.tasks[j].id = id => j <= l
  BY <1>6
<1> QED BY <1>7 DEF TaskOf

\* Hierarchy and completion edges are finite graphs.
LEMMA EdgesAreFinite ==
  ASSUME NEW p, Candidate(p)
  PROVE  Finite(Parents(p)) /\ Finite(Waits(p))
<1>1. DOMAIN Parents(p) = Ids(p) /\ DOMAIN Waits(p) = Ids(p) /\ IsFiniteSet(Ids(p))
  BY TasksAreFinite DEF Parents, Waits
<1>2. \A id \in Ids(p) : IsFiniteSet(Parents(p)[id])
  BY FS_EmptySet, FS_Singleton DEF Parents
<1>3. ASSUME NEW id \in Ids(p) PROVE IsFiniteSet(Waits(p)[id])
  <2>1. IsFiniteSet(TaskOf(p, id).deps)
    BY TaskIsAnEntry DEF Candidate
  <2>2. IsFiniteSet(RequiredChildren(p, id))
    BY TasksAreFinite
  <2>3. IsFiniteSet(TaskOf(p, id).deps \cup RequiredChildren(p, id))
    BY <2>1, <2>2, FS_Union
  <2> QED BY <2>3 DEF Waits
<1> QED BY <1>1, <1>2, <1>3 DEF Finite
-----------------------------------------------------------------------------
(* The projection                                                              *)

\* the sets that hold what follows from them
Closed(p, f, S) ==
  \A id \in Ids(p) : f[id] = "completed" /\ Waits(p)[id] \subseteq S => id \in S

\* projectPlan's loop ends, after as many rounds as tasks at the latest, in a
\* set that is closed, and that every closed set contains.
LEMMA CompletedIsLeast ==
  ASSUME NEW p, Candidate(p), NEW f
  PROVE  /\ Completed(p, f) \subseteq Ids(p)
         /\ Closed(p, f, Completed(p, f))
         /\ \A S \in SUBSET Ids(p) : Closed(p, f, S) => Completed(p, f) \subseteq S
<1> DEFINE D == Ids(p)
           n == Cardinality(D)
           step == [k \in Nat |-> [C \in SUBSET D |-> Round(p, f, C)]]
           Loop(g) == g = [k \in Nat |-> IF k = 0 THEN {} ELSE Round(p, f, g[k - 1])]
           after == CHOOSE g : Loop(g)
<1>1. IsFiniteSet(D) /\ n \in Nat
  BY TasksAreFinite, FS_CardinalityType
<1>2. \A C \in SUBSET D : Round(p, f, C) \in SUBSET D /\ C \subseteq Round(p, f, C)
  BY DEF Round
<1>3. Completed(p, f) = after[n]
  BY DEF Completed
<1>4. step \in [Nat -> [SUBSET D -> SUBSET D]] /\ {} \in SUBSET D
  BY <1>2
<1>5. \A k \in Nat : \A C \in SUBSET D : step[k][C] = Round(p, f, C)
  OBVIOUS
<1> HIDE DEF step
<1>6. PICK g : g \in [Nat -> SUBSET D] /\ g[0] = {} /\ \A k \in Nat : g[k + 1] = step[k + 1][g[k]]
  <2>1. \A S : \A base \in S : \A F \in [Nat -> [S -> S]] : \E g : Repeated(S, base, F, g)
    BY Recursion
  <2>2. PICK g : Repeated(SUBSET D, {}, step, g)
    BY <1>4, <2>1
  <2> QED BY <2>2 DEF Repeated
<1>7. Loop(g)
  <2>1. ASSUME NEW k \in Nat PROVE g[k] = IF k = 0 THEN {} ELSE Round(p, f, g[k - 1])
    <3>1. CASE k = 0
      BY <1>6, <3>1
    <3>2. CASE k # 0
      <4>1. k - 1 \in Nat /\ (k - 1) + 1 = k
        BY <3>2
      <4> QED BY <1>5, <1>6, <3>2, <4>1
    <3> QED BY <3>1, <3>2
  <2>2. g = [k \in Nat |-> g[k]]
    BY <1>6
  <2> QED BY <2>1, <2>2
<1>8. Loop(after)
  BY <1>7
<1> HIDE DEF after
<1>9. after[0] = {} /\ \A k \in Nat : after[k + 1] = Round(p, f, after[k])
  <2>1. after[0] = {}
    BY <1>8
  <2>2. ASSUME NEW k \in Nat PROVE after[k + 1] = Round(p, f, after[k])
    <3>1. k + 1 \in Nat /\ k + 1 # 0 /\ (k + 1) - 1 = k
      OBVIOUS
    <3> QED BY <1>8, <3>1
  <2> QED BY <2>1, <2>2
<1> HIDE DEF Loop
<1> DEFINE T == {k \in Nat : after[k] \in SUBSET D}
<1>10. T = Nat
  <2>1. 0 \in T
    BY <1>9
  <2>2. ASSUME NEW k \in T PROVE k + 1 \in T
    BY <1>2, <1>9
  <2> QED BY <2>1, <2>2, Induction
<1>11. \A k \in Nat : after[k] \in SUBSET D
  BY <1>10
<1> HIDE DEF T
<1> DEFINE fixed == {k \in Nat : after[k + 1] = after[k] \/ Cardinality(after[k]) >= k}
<1>12. fixed = Nat
  <2>1. 0 \in fixed
    <3>1. Cardinality(after[0]) = 0
      BY <1>9, FS_EmptySet
    <3> QED BY <3>1
  <2>2. ASSUME NEW k \in fixed PROVE k + 1 \in fixed
    <3>1. k \in Nat /\ k + 1 \in Nat
      OBVIOUS
    <3>2. CASE after[k + 1] = after[k]
      <4>1. after[(k + 1) + 1] = Round(p, f, after[k + 1]) /\ after[k + 1] = Round(p, f, after[k])
        BY <1>9, <3>1
      <4>2. after[(k + 1) + 1] = after[k + 1]
        BY <3>2, <4>1
      <4> QED BY <3>1, <4>2
    <3>3. CASE after[k + 1] # after[k] /\ Cardinality(after[k]) >= k
      <4>1. after[k] \subseteq after[k + 1] /\ after[k + 1] \subseteq D /\ IsFiniteSet(after[k + 1])
        BY <1>1, <1>2, <1>9, <1>11, <3>1, FS_Subset
      <4>2. Cardinality(after[k]) <= Cardinality(after[k + 1]) /\ Cardinality(after[k]) # Cardinality(after[k + 1])
            /\ IsFiniteSet(after[k])
        <5>1. \A S : IsFiniteSet(S) => \A R \in SUBSET S :
                Cardinality(R) <= Cardinality(S) /\ IsFiniteSet(R) /\ (Cardinality(S) = Cardinality(R) => S = R)
          BY FS_Subset
        <5> QED BY <3>3, <4>1, <5>1
      <4>3. Cardinality(after[k]) \in Nat /\ Cardinality(after[k + 1]) \in Nat
        BY <4>1, <4>2, FS_CardinalityType
      <4>4. Cardinality(after[k + 1]) >= k + 1
        BY <3>1, <3>3, <4>2, <4>3
      <4> QED BY <3>1, <4>4
    <3> QED BY <3>2, <3>3
  <2>3. fixed \in SUBSET Nat
    OBVIOUS
  <2> HIDE DEF fixed
  <2> QED BY <2>1, <2>2, <2>3, Induction
<1>13. Round(p, f, after[n]) = after[n]
  <2>1. CASE after[n + 1] = after[n]
    BY <1>1, <1>9, <2>1
  <2>2. CASE Cardinality(after[n]) >= n
    <3>1. after[n] \in SUBSET D
      BY <1>1, <1>11
    <3>2. Cardinality(after[n]) <= n /\ (n = Cardinality(after[n]) => D = after[n]) /\ IsFiniteSet(after[n])
      BY <1>1, <3>1, FS_Subset
    <3>3. Cardinality(after[n]) \in Nat
      BY <3>2, FS_CardinalityType
    <3>4. after[n] = D
      BY <1>1, <2>2, <3>2, <3>3
    <3>5. Round(p, f, after[n]) \in SUBSET D /\ after[n] \subseteq Round(p, f, after[n])
      BY <1>2, <3>1
    <3> QED BY <3>4, <3>5
  <2> QED BY <1>1, <1>12, <2>1, <2>2
<1>14. Closed(p, f, after[n])
  BY <1>13 DEF Round, Closed
<1>15. ASSUME NEW S \in SUBSET D, Closed(p, f, S) PROVE after[n] \subseteq S
  <2> DEFINE U == {k \in Nat : after[k] \subseteq S}
  <2>1. 0 \in U
    BY <1>9
  <2>2. ASSUME NEW k \in U PROVE k + 1 \in U
    BY <1>9, <1>15 DEF Round, Closed
  <2>3. U \in SUBSET Nat
    OBVIOUS
  <2>4. U = Nat
    <3> HIDE DEF U
    <3> QED BY <2>1, <2>2, <2>3, Induction
  <2> QED BY <1>1, <2>4
<1> QED BY <1>1, <1>3, <1>11, <1>14, <1>15

\* Nothing is completed whose dependencies and children are not.
LEMMA CompletedIsEarned ==
  ASSUME NEW p, Candidate(p), NEW f, NEW id \in Completed(p, f)
  PROVE  f[id] = "completed" /\ Waits(p)[id] \subseteq Completed(p, f)
<1> DEFINE C == Completed(p, f)
           S == {x \in Ids(p) : f[x] = "completed" /\ Waits(p)[x] \subseteq C}
<1>1. C \subseteq Ids(p) /\ Closed(p, f, C) /\ \A R \in SUBSET Ids(p) : Closed(p, f, R) => C \subseteq R
  BY CompletedIsLeast
<1> HIDE DEF C
<1>2. S \subseteq C /\ S \in SUBSET Ids(p)
  BY <1>1 DEF Closed
<1>3. Closed(p, f, S)
  BY <1>2 DEF Closed
<1>4. C \subseteq S
  BY <1>1, <1>2, <1>3
<1> QED BY <1>4 DEF C
-----------------------------------------------------------------------------
(* What the validator accepts                                                  *)

\* In an accepted definition an identity names one task.
LEMMA EntriesAreTasks ==
  ASSUME NEW p, Candidate(p), TaskGraphErrors(p) = {}
  PROVE  /\ \A i, j \in DOMAIN p.tasks : p.tasks[i].id = p.tasks[j].id => i = j
         /\ \A i \in DOMAIN p.tasks : p.tasks[i].id \in Ids(p) /\ TaskOf(p, p.tasks[i].id) = p.tasks[i]
<1> DEFINE f == [i \in DOMAIN p.tasks |-> p.tasks[i].id]
<1>1. Cardinality(Ids(p)) = Len(p.tasks)
  BY DEF TaskGraphErrors
<1>2. f \in Surjection(DOMAIN p.tasks, Ids(p))
  BY DEF Surjection, Ids
<1>3. f \in Injection(DOMAIN p.tasks, Ids(p))
  BY <1>1, <1>2, TasksAreFinite, FS_SurjSameCardinalityImpliesInj
<1>4. \A i, j \in DOMAIN p.tasks : p.tasks[i].id = p.tasks[j].id => i = j
  BY <1>3 DEF Injection, IsInjective
<1>5. \A i \in DOMAIN p.tasks : p.tasks[i].id \in Ids(p)
  BY DEF Ids
<1>6. ASSUME NEW i \in DOMAIN p.tasks PROVE TaskOf(p, p.tasks[i].id) = p.tasks[i]
  <2>1. PICK j \in DOMAIN p.tasks : TaskOf(p, p.tasks[i].id) = p.tasks[j] /\ p.tasks[j].id = p.tasks[i].id
    BY <1>5, TaskIsAnEntry
  <2> QED BY <1>4, <2>1
<1> QED BY <1>4, <1>5, <1>6

\* Phases have numbers.
LEMMA PhasesAreNumbered ==
  ASSUME NEW p, Candidate(p), NEW phase
  PROVE  /\ PhaseIndex(p, phase) \in Nat
         /\ PhaseIndex(p, phase) # 0 => PhaseIndex(p, phase) \in DOMAIN p.phases /\ p.phases[PhaseIndex(p, phase)] = phase
<1> DEFINE n == Len(p.phases)
           at == {i \in DOMAIN p.phases : p.phases[i] = phase}
           R == {n - i : i \in at}
<1>1. n \in Nat /\ DOMAIN p.phases = 1..n
  BY DEF Candidate
<1>2. CASE at = {}
  BY <1>2 DEF PhaseIndex
<1>3. CASE at # {}
  <2>1. R \in SUBSET Nat /\ R # {}
    <3>1. \A i \in at : n - i \in Nat
      BY <1>1
    <3> HIDE DEF at, n
    <3> QED BY <1>3, <3>1
  <2>2. PICK m \in R : \A k \in R : m <= k
    BY <2>1, LeastNumber
  <2>3. PICK i \in at : m = n - i
    OBVIOUS
  <2>4. \A j \in at : j <= i
    <3>1. \A j \in at : n - i <= n - j
      BY <2>2, <2>3
    <3> QED BY <1>1, <3>1
  <2>5. \E l \in at : \A j \in at : j <= l
    BY <2>4
  <2>6. PhaseIndex(p, phase) \in at
    BY <1>3, <2>5 DEF PhaseIndex
  <2> QED BY <1>1, <2>6
<1> QED BY <1>2, <1>3

\* What a task of an accepted definition waits for is known, and is in no
\* later phase.
LEMMA WaitsAreNotLater ==
  ASSUME NEW p, Candidate(p), TaskGraphErrors(p) = {}, NEW id \in Ids(p), NEW d \in Waits(p)[id]
  PROVE  d \in Ids(p) /\ PhaseOf(p, d) <= PhaseOf(p, id)
<1>1. \A x : PhaseOf(p, x) \in Nat
  BY PhasesAreNumbered DEF PhaseOf
<1>2. \A i \in DOMAIN p.tasks : TaskErrors(p, p.tasks[i]) = {}
  BY DEF TaskGraphErrors
<1>3. PICK i \in DOMAIN p.tasks : TaskOf(p, id) = p.tasks[i] /\ p.tasks[i].id = id
  BY TaskIsAnEntry
<1>4. CASE d \in TaskOf(p, id).deps
  <2>1. p.tasks[i].deps \subseteq Ids(p) /\ ~ DependencyLater(p, p.tasks[i])
    BY <1>2 DEF TaskErrors
  <2>2. d \in Ids(p) /\ ~ (PhaseOf(p, d) > PhaseIndex(p, p.tasks[i].phase))
    BY <1>3, <1>4, <2>1 DEF DependencyLater
  <2>3. PhaseIndex(p, p.tasks[i].phase) = PhaseOf(p, id)
    BY <1>3 DEF PhaseOf
  <2> QED BY <1>1, <2>2, <2>3
<1>5. CASE d \in RequiredChildren(p, id)
  <2>1. PICK k \in DOMAIN p.tasks : p.tasks[k].id = d /\ p.tasks[k].parent = id /\ p.tasks[k].required
    BY <1>5 DEF RequiredChildren
  <2>2. TaskOf(p, d) = p.tasks[k] /\ d \in Ids(p)
    BY <2>1, EntriesAreTasks
  <2>3. ~ ChildLater(p, p.tasks[k])
    BY <1>2 DEF TaskErrors
  <2>4. ~ (PhaseIndex(p, p.tasks[k].phase) > PhaseOf(p, id))
    BY <2>1, <2>3 DEF ChildLater
  <2>5. PhaseIndex(p, p.tasks[k].phase) = PhaseOf(p, d)
    BY <2>2 DEF PhaseOf
  <2> QED BY <1>1, <2>2, <2>4, <2>5
<1> QED BY <1>4, <1>5 DEF Waits

\* While a task is not completed, some task of the earliest phase with such
\* tasks is ready: the one of the least rank.
LEMMA SomeTaskIsReady ==
  ASSUME NEW p, Candidate(p), TaskGraphErrors(p) = {},
         NEW f \in [Ids(p) -> {NoFact, "completed"}], Ids(p) \ Completed(p, f) # {}
  PROVE  \E id \in Ready(p, TRUE, f) : \A other \in Ids(p) \ Completed(p, f) : PhaseOf(p, id) <= PhaseOf(p, other)
<1> DEFINE C == Completed(p, f)
           U == Ids(p) \ C
           P == {PhaseOf(p, x) : x \in U}
<1>1. \A x : PhaseOf(p, x) \in Nat
  BY PhasesAreNumbered DEF PhaseOf
<1>2. C \subseteq Ids(p) /\ Closed(p, f, C)
  BY CompletedIsLeast
<1>3. ~ Cyclic(Waits(p)) /\ DOMAIN Waits(p) = Ids(p)
  BY DEF TaskGraphErrors, Waits
<1>4. Satisfiable(Waits(p))
  BY <1>3, EdgesAreFinite, CyclicIsUnsatisfiable
<1>5. PICK rank \in [Ids(p) -> 1..Cardinality(Ids(p))] :
        \A x \in Ids(p) : \A d \in Waits(p)[x] : d \in Ids(p) /\ rank[d] < rank[x]
  BY <1>3, <1>4 DEF Satisfiable
<1>6. \A x \in Ids(p) : rank[x] \in Nat
  <2>1. Cardinality(Ids(p)) \in Nat
    BY TasksAreFinite, FS_CardinalityType
  <2>2. \A k \in 1..Cardinality(Ids(p)) : k \in Nat
    BY <2>1
  <2> QED BY <1>5, <2>2
<1>7. P \in SUBSET Nat /\ P # {}
  BY <1>1
<1>8. PICK m \in P : \A k \in P : m <= k
  BY <1>7, LeastNumber
<1> DEFINE early == {x \in U : PhaseOf(p, x) = m}
           R == {rank[x] : x \in early}
<1>9. R \in SUBSET Nat /\ R # {}
  <2>1. early # {} /\ early \subseteq Ids(p)
    OBVIOUS
  <2> HIDE DEF early
  <2> QED BY <1>6, <2>1
<1>10. PICK r \in R : \A k \in R : r <= k
  BY <1>9, LeastNumber
<1>11. PICK id \in early : rank[id] = r
  OBVIOUS
<1>12. id \in Ids(p) /\ id \notin C /\ PhaseOf(p, id) = m
  BY <1>11
<1>13. \A other \in U : PhaseOf(p, id) <= PhaseOf(p, other)
  BY <1>8, <1>12
<1>14. ASSUME NEW d \in Waits(p)[id], d \notin C PROVE FALSE
  <2>1. d \in Ids(p) /\ rank[d] < rank[id] /\ rank[d] \in Nat /\ rank[id] \in Nat
    BY <1>5, <1>6, <1>12
  <2>2. PhaseOf(p, d) <= m
    BY <1>12, WaitsAreNotLater
  <2>3. d \in U /\ m <= PhaseOf(p, d)
    BY <1>8, <1>14, <2>1
  <2>4. PhaseOf(p, d) = m
    BY <1>1, <1>7, <2>2, <2>3
  <2>5. rank[d] \in R
    BY <2>3, <2>4
  <2>6. rank[id] <= rank[d]
    BY <1>10, <1>11, <2>5
  <2> QED BY <2>1, <2>6
<1>15. f[id] = NoFact
  BY <1>2, <1>12, <1>14 DEF Closed
<1>16. Blockers(p, f, id) = {}
  BY <1>14 DEF Blockers
<1>17. TaskStatus(p, TRUE, f, id) = "ready"
  BY <1>15, <1>16 DEF TaskStatus, NoFact
<1> QED BY <1>12, <1>13, <1>17 DEF Ready
\* A leaf of a phase plan is the only one of its phase, and waits for the one
\* of the phase before it.
LEMMA LeavesArePhases ==
  ASSUME NEW p, Candidate(p), Admissible(p), p.phased
  PROVE  /\ \A i \in Leaves(p) : LET a == PhaseOf(p, p.tasks[i].id) IN a \in DOMAIN p.phases /\ i \in PhaseLeaves(p, a)
         /\ \A a \in DOMAIN p.phases : \E i \in Leaves(p) : PhaseLeaves(p, a) = {i} /\ PhaseOf(p, p.tasks[i].id) = a
         /\ \A a \in DOMAIN p.phases : a > 1 => \A i \in PhaseLeaves(p, a), j \in PhaseLeaves(p, a - 1) :
              p.tasks[j].id \in Waits(p)[p.tasks[i].id]
<1>1. TaskGraphErrors(p) = {} /\ PhasePlanErrors(p) = {}
  BY DEF Admissible
<1>2. \A i \in DOMAIN p.tasks : TaskOf(p, p.tasks[i].id) = p.tasks[i] /\ p.tasks[i].id \in Ids(p)
  BY <1>1, EntriesAreTasks
<1>3. ConsecutivePhases(p)
  BY <1>1 DEF PhasePlanErrors
<1>4. IsInjective(p.phases)
  BY <1>1 DEF TaskGraphErrors
<1>5. \A i \in DOMAIN p.tasks : PhaseOf(p, p.tasks[i].id) = PhaseIndex(p, p.tasks[i].phase)
  BY <1>2 DEF PhaseOf
<1>6. ASSUME NEW i \in Leaves(p)
      PROVE  PhaseOf(p, p.tasks[i].id) \in DOMAIN p.phases /\ i \in PhaseLeaves(p, PhaseOf(p, p.tasks[i].id))
  <2>1. i \in DOMAIN p.tasks
    BY DEF Leaves
  <2>2. TaskErrors(p, p.tasks[i]) = {}
    BY <1>1, <2>1 DEF TaskGraphErrors
  <2>3. PhaseIndex(p, p.tasks[i].phase) # 0
    BY <2>2 DEF TaskErrors
  <2>4. /\ PhaseIndex(p, p.tasks[i].phase) \in DOMAIN p.phases
        /\ p.phases[PhaseIndex(p, p.tasks[i].phase)] = p.tasks[i].phase
    BY <2>3, PhasesAreNumbered
  <2> QED BY <1>5, <2>1, <2>4 DEF PhaseLeaves
<1>7. ASSUME NEW a \in DOMAIN p.phases
      PROVE  \E i \in Leaves(p) : PhaseLeaves(p, a) = {i} /\ PhaseOf(p, p.tasks[i].id) = a
  <2>1. PhaseLeaves(p, a) \subseteq DOMAIN p.tasks /\ Cardinality(PhaseLeaves(p, a)) = 1
    BY <1>3 DEF PhaseLeaves, Leaves, ConsecutivePhases
  <2>2. IsFiniteSet(PhaseLeaves(p, a))
    BY <2>1, TasksAreFinite, FS_Subset
  <2>3. PICK i : PhaseLeaves(p, a) = {i}
    BY <2>1, <2>2, FS_Singleton
  <2>4. i \in Leaves(p) /\ p.tasks[i].phase = p.phases[a]
    BY <2>3 DEF PhaseLeaves
  <2>5. /\ PhaseOf(p, p.tasks[i].id) \in DOMAIN p.phases
        /\ i \in PhaseLeaves(p, PhaseOf(p, p.tasks[i].id))
    BY <1>6, <2>4
  <2>6. p.phases[PhaseOf(p, p.tasks[i].id)] = p.phases[a]
    BY <2>4, <2>5 DEF PhaseLeaves
  <2>7. PhaseOf(p, p.tasks[i].id) = a
    BY <1>4, <2>5, <2>6 DEF IsInjective
  <2> QED BY <2>3, <2>4, <2>7
<1>8. ASSUME NEW a \in DOMAIN p.phases, a > 1, NEW i \in PhaseLeaves(p, a), NEW j \in PhaseLeaves(p, a - 1)
      PROVE  p.tasks[j].id \in Waits(p)[p.tasks[i].id]
  <2>1. i \in DOMAIN p.tasks
    BY DEF PhaseLeaves, Leaves
  <2>2. p.tasks[j].id \in p.tasks[i].deps
    BY <1>3, <1>8 DEF ConsecutivePhases
  <2> QED BY <1>2, <2>1, <2>2 DEF Waits
<1> QED BY <1>6, <1>7, <1>8

\* Of a phase plan only the task of the earliest open phase is ready.
LEMMA ReadyIsAlone ==
  ASSUME NEW p, Candidate(p), Admissible(p), p.phased, NEW f \in [Ids(p) -> {NoFact, "completed"}],
         NEW id \in Ready(p, TRUE, f), NEW other \in (Ids(p) \ Completed(p, f)) \ {id}
  PROVE  id # p.taskId /\ (PhaseOf(p, id) < PhaseOf(p, other) \/ other = p.taskId)
<1> DEFINE C == Completed(p, f)
           leafOf(a) == CHOOSE i : PhaseLeaves(p, a) = {i}
<1>1. TaskGraphErrors(p) = {} /\ PhasePlanErrors(p) = {}
  BY DEF Admissible
<1>2. id \in Ids(p) /\ Waits(p)[id] \subseteq C
  <2>1. id \in Ids(p) /\ TaskStatus(p, TRUE, f, id) = "ready"
    BY DEF Ready
  <2>2. f[id] \in {NoFact, "completed"}
    BY <2>1
  <2>3. f[id] = NoFact
    BY <2>1, <2>2 DEF TaskStatus, NoFact
  <2>4. TaskStatus(p, TRUE, f, id) = IF Blockers(p, f, id) = {} THEN "ready" ELSE "blocked"
    BY <2>3 DEF TaskStatus, NoFact
  <2>5. Blockers(p, f, id) = {}
    BY <2>1, <2>4
  <2> QED BY <2>1, <2>5 DEF Blockers
<1>3. \A i \in DOMAIN p.tasks : TaskOf(p, p.tasks[i].id) = p.tasks[i] /\ p.tasks[i].id \in Ids(p)
  BY <1>1, EntriesAreTasks
<1>4. \A x \in Ids(p) : x # p.taskId => \E i \in Leaves(p) : p.tasks[i].id = x
  BY DEF Ids, Leaves
<1>5. OneDirectTaskPerPhase(p)
  BY <1>1 DEF PhasePlanErrors
<1>6. ASSUME id = p.taskId PROVE FALSE
  <2>1. other \in Ids(p) /\ other # p.taskId
    BY <1>6
  <2>2. PICK i \in Leaves(p) : p.tasks[i].id = other
    BY <1>4, <2>1
  <2>3. i \in DOMAIN p.tasks /\ p.tasks[i].parent = p.taskId /\ p.tasks[i].required
    BY <1>5 DEF OneDirectTaskPerPhase, Leaves
  <2>4. other \in RequiredChildren(p, id)
    BY <1>6, <2>2, <2>3 DEF RequiredChildren
  <2>5. other \in Waits(p)[id]
    BY <1>2, <2>4 DEF Waits
  <2> QED BY <1>2, <2>5
<1>7. ASSUME id # p.taskId, other # p.taskId PROVE PhaseOf(p, id) < PhaseOf(p, other)
  <2> DEFINE a == PhaseOf(p, id)
             b == PhaseOf(p, other)
  <2>1. PICK i \in Leaves(p) : p.tasks[i].id = id
    BY <1>2, <1>4, <1>7
  <2>2. PICK j \in Leaves(p) : p.tasks[j].id = other
    BY <1>4, <1>7
  <2>3. a \in DOMAIN p.phases /\ i \in PhaseLeaves(p, a) /\ b \in DOMAIN p.phases /\ j \in PhaseLeaves(p, b)
    BY <2>1, <2>2, LeavesArePhases
  <2>4. Len(p.phases) \in Nat /\ DOMAIN p.phases = 1..Len(p.phases)
    BY DEF Candidate
  <2>5. a # b
    <3>1. i # j
      BY <2>1, <2>2
    <3>2. PICK l : PhaseLeaves(p, a) = {l}
      BY <2>3, LeavesArePhases
    <3> QED BY <2>3, <3>1, <3>2
  <2> HIDE DEF a, b
  <2> DEFINE T == {d \in Nat : a - d > 1 => \A l \in PhaseLeaves(p, (a - d) - 1) : p.tasks[l].id \in C}
  <2>6. \A c \in DOMAIN p.phases : c > 1 => \A l \in PhaseLeaves(p, c), k \in PhaseLeaves(p, c - 1) :
          p.tasks[k].id \in Waits(p)[p.tasks[l].id]
    BY LeavesArePhases
  <2>7. 0 \in T
    <3> SUFFICES ASSUME a - 0 > 1, NEW k \in PhaseLeaves(p, (a - 0) - 1) PROVE p.tasks[k].id \in C
      OBVIOUS
    <3>1. a > 1 /\ (a - 0) - 1 = a - 1
      BY <2>3, <2>4
    <3>2. p.tasks[k].id \in Waits(p)[p.tasks[i].id]
      BY <2>3, <2>6, <3>1
    <3> QED BY <1>2, <2>1, <3>2
  <2>8. ASSUME NEW d \in T PROVE d + 1 \in T
    <3> SUFFICES ASSUME a - (d + 1) > 1, NEW k \in PhaseLeaves(p, (a - (d + 1)) - 1) PROVE p.tasks[k].id \in C
      OBVIOUS
    <3> DEFINE c == (a - d) - 1
    <3>1. /\ d \in Nat /\ a - d > 1 /\ c \in DOMAIN p.phases /\ c > 1 /\ (a - (d + 1)) - 1 = c - 1
      BY <2>3, <2>4
    <3>2. \A l \in PhaseLeaves(p, c) : p.tasks[l].id \in C
      BY <3>1
    <3>3. PICK l : PhaseLeaves(p, c) = {l}
      BY <3>1, LeavesArePhases
    <3>4. p.tasks[k].id \in Waits(p)[p.tasks[l].id]
      BY <2>6, <3>1, <3>3
    <3>5. p.tasks[l].id \in C
      BY <3>2, <3>3
    <3> QED BY <3>4, <3>5, CompletedIsEarned
  <2>9. T = Nat
    <3>1. T \in SUBSET Nat
      OBVIOUS
    <3> HIDE DEF T
    <3> QED BY <2>7, <2>8, <3>1, Induction
  <2>10. ASSUME b < a PROVE FALSE
    <3> DEFINE d == (a - b) - 1
    <3>1. d \in Nat /\ a - d > 1 /\ (a - d) - 1 = b
      BY <2>3, <2>4, <2>10
    <3>2. d \in T
      BY <2>9, <3>1
    <3>3. \A l \in PhaseLeaves(p, b) : p.tasks[l].id \in C
      BY <3>1, <3>2
    <3>4. other \in C
      BY <2>2, <2>3, <3>3
    <3> QED BY <3>4
  <2>11. a < b
    BY <2>3, <2>4, <2>5, <2>10
  <2> QED BY <2>11 DEF a, b
<1> QED BY <1>6, <1>7
-----------------------------------------------------------------------------
(* The theorems                                                                *)

\* The definition stays the submitted one, a fact is none or a completion, and
\* what waits for approval or has it passed the validation.
Admitted ==
  /\ plan \in Candidates
  /\ facts \in [Ids(plan) -> {NoFact, "completed"}]
  /\ stage \in {"pending_review", "approved"} => Admissible(plan)

\* No submission, approval or record leaves them.
LEMMA AlwaysAdmitted == Spec => []Admitted
<1>1. Init => Admitted
  BY DEF Init, Admitted
<1>2. Admitted /\ [Next]_vars => Admitted'
  <2> SUFFICES ASSUME Admitted, [Next]_vars PROVE Admitted'
    OBVIOUS
  <2>1. CASE Parse
    BY <2>1 DEF Admitted, Parse
  <2>2. CASE Approve
    BY <2>2 DEF Admitted, Approve
  <2>3. ASSUME NEW id \in Ids(plan), Record(id) PROVE Admitted'
    BY <2>3 DEF Admitted, Record
  <2>4. CASE UNCHANGED vars
    BY <2>4 DEF Admitted, vars
  <2> QED BY <2>1, <2>2, <2>3, <2>4 DEF Next
<1> QED BY <1>1, <1>2, PTL DEF Spec

\* Its tasks, phases and dependencies are arrays.
LEMMA AdmittedIsCandidate ==
  ASSUME Admitted
  PROVE  Candidate(plan)
BY CandidatesAssumption DEF Admitted, Candidate

\* Kahn's count refuses exactly the graphs that admit no order: for any number
\* of tasks, any edges, to known nodes or not, and any order of the queue.
THEOREM CyclesAreExact == Spec => []KahnIsExact
<1>1. Admitted => KahnIsExact
  BY AdmittedIsCandidate, EdgesAreFinite, CyclicIsUnsatisfiable DEF KahnIsExact
<1> QED BY <1>1, AlwaysAdmitted, PTL

\* The rounds of projectPlan end in the least set that the recorded
\* completions justify, for any order in which they were recorded.
THEOREM ProjectionsAreLeast == Spec => []ProjectionIsLeast
<1>1. ASSUME Admitted PROVE ProjectionIsLeast
  <2> DEFINE C == Completed(plan, facts)
  <2>1. C \subseteq Ids(plan) /\ Closed(plan, facts, C) /\ \A S \in SUBSET Ids(plan) : Closed(plan, facts, S) => C \subseteq S
    BY <1>1, AdmittedIsCandidate, CompletedIsLeast
  <2> HIDE DEF C
  <2>2. LeastCompleted \subseteq C
    BY <2>1 DEF LeastCompleted, Closed
  <2>3. C \subseteq LeastCompleted
    BY <2>1 DEF LeastCompleted, Closed
  <2> QED BY <2>2, <2>3 DEF ProjectionIsLeast, C
<1> QED BY <1>1, AlwaysAdmitted, PTL

\* The two orders of an approved plan, phases and completion edges, never
\* contradict each other: a task of the earliest open phase can be claimed.
THEOREM ApprovedPlansProgress == Spec => []EarliestPhaseCanProgress
<1>1. ASSUME Admitted, stage = "approved", Unfinished # {}
      PROVE  \E id \in Ready(plan, TRUE, facts) : \A other \in Unfinished : PhaseOf(plan, id) <= PhaseOf(plan, other)
  <2>1. TaskGraphErrors(plan) = {} /\ facts \in [Ids(plan) -> {NoFact, "completed"}]
    BY <1>1 DEF Admitted, Admissible
  <2> QED BY <1>1, <2>1, AdmittedIsCandidate, SomeTaskIsReady DEF Unfinished
<1>2. Admitted => EarliestPhaseCanProgress
  BY <1>1 DEF EarliestPhaseCanProgress
<1> QED BY <1>2, AlwaysAdmitted, PTL

\* A phase plan is worked off one phase after the other, the root last.
THEOREM PhasePlansAreSerial == Spec => []PhasePlanIsSerial
<1>1. ASSUME Admitted, stage = "approved", plan.phased,
             NEW id \in Ready(plan, TRUE, facts), NEW other \in Unfinished \ {id}
      PROVE  id # plan.taskId /\ (PhaseOf(plan, id) < PhaseOf(plan, other) \/ other = plan.taskId)
  <2>1. Admissible(plan) /\ facts \in [Ids(plan) -> {NoFact, "completed"}]
    BY <1>1 DEF Admitted
  <2> QED BY <1>1, <2>1, AdmittedIsCandidate, ReadyIsAlone DEF Unfinished
<1>2. Admitted => PhasePlanIsSerial
  BY <1>1 DEF PhasePlanIsSerial
<1> QED BY <1>2, AlwaysAdmitted, PTL
=============================================================================
