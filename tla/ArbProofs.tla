----------------------------- MODULE ArbProofs -----------------------------
(***************************************************************************)
(* Proofs about the disputes, for every number of disputes and actors,     *)
(* every committee and any number of votes.  The tally of a Go map, a fold *)
(* over a permutation, is shown to find the plurality in every order; the  *)
(* induction it takes is on sets of numbers, with a smallest one outside.  *)
(***************************************************************************)
EXTENDS Arb, TLAPS, FiniteSetTheorems, WellFoundedInduction, NaturalsInduction

-----------------------------------------------------------------------------
(* Folds over finite sets.                                                 *)

\* A set of numbers that holds the successors of all it holds, and zero, is Nat:
\* otherwise there would be a smallest number outside.
LEMMA NatSetInduction ==
  ASSUME NEW T \in SUBSET Nat, 0 \in T, \A n \in T : n + 1 \in T
  PROVE  T = Nat
<1> DEFINE Out == Nat \ T
<1>1. SUFFICES ASSUME Out # {} PROVE FALSE
  OBVIOUS
<1>2. PICK n \in Out : \A m \in Out : <<m, n>> \notin OpToRel(<, Nat)
  <2>1. Out \subseteq Nat
    OBVIOUS
  <2> HIDE DEF Out
  <2> QED BY <1>1, <2>1, NatLessThanWellFounded, WFMin
<1>3. n \in Nat /\ n # 0 /\ n - 1 \in Nat
  OBVIOUS
<1>4. n - 1 \in T
  <2>1. <<n - 1, n>> \in OpToRel(<, Nat)
    BY <1>3 DEF OpToRel
  <2> QED BY <1>2, <1>3, <2>1
<1> QED BY <1>3, <1>4

\* g folds G over each subset of S, from b, taking elements in the order of c.
Folds(g, S, b, c, G) ==
  \A s \in SUBSET S : g[s] = IF s = {} THEN b ELSE G[<<c[s], g[s \ {c[s]}]>>]

\* A fold over the subsets of a finite set that takes the elements in the order a
\* choice function gives them is well defined.
LEMMA FoldExists ==
  ASSUME NEW S, IsFiniteSet(S), NEW A, NEW b \in A,
         NEW c \in [(SUBSET S) \ {{}} -> S], \A s \in (SUBSET S) \ {{}} : c[s] \in s,
         NEW G \in [S \X A -> A]
  PROVE  \E g \in [SUBSET S -> A] : Folds(g, S, b, c, G)
<1> DEFINE small(k) == {s \in SUBSET S : Cardinality(s) <= k}
           Holds(g, s) == g[s] = IF s = {} THEN b ELSE G[<<c[s], g[s \ {c[s]}]>>]
           T == {k \in Nat : \E g \in [small(k) -> A] : \A s \in small(k) : Holds(g, s)}
<1>1. \A s \in SUBSET S : IsFiniteSet(s) /\ Cardinality(s) \in Nat
  BY FS_Subset, FS_CardinalityType
<1>2. \A s \in (SUBSET S) \ {{}} :
        /\ c[s] \in S /\ s \ {c[s]} \in SUBSET S
        /\ Cardinality(s) > 0 /\ Cardinality(s \ {c[s]}) = Cardinality(s) - 1
  <2> SUFFICES ASSUME NEW s \in (SUBSET S) \ {{}}
               PROVE  /\ c[s] \in S /\ s \ {c[s]} \in SUBSET S
                      /\ Cardinality(s) > 0 /\ Cardinality(s \ {c[s]}) = Cardinality(s) - 1
    OBVIOUS
  <2>1. c[s] \in s /\ s \subseteq S /\ IsFiniteSet(s) /\ Cardinality(s) \in Nat
    BY <1>1
  <2>2. Cardinality(s) # 0
    BY <2>1, FS_EmptySet
  <2>3. Cardinality(s \ {c[s]}) = Cardinality(s) - 1
    <3> DEFINE x == c[s]
    <3> HIDE DEF x
    <3>1. Cardinality(s \ {x}) = IF x \in s THEN Cardinality(s) - 1 ELSE Cardinality(s)
      BY <2>1, FS_RemoveElement
    <3> QED BY <2>1, <3>1 DEF x
  <2> QED BY <2>1, <2>2, <2>3
<1>3. 0 \in T
  <2> DEFINE g == [s \in small(0) |-> b]
  <2>1. small(0) \subseteq {{}}
    <3> SUFFICES ASSUME NEW s \in SUBSET S, Cardinality(s) <= 0, s # {} PROVE FALSE
      OBVIOUS
    <3>1. Cardinality(s) > 0 /\ Cardinality(s) \in Nat
      BY <1>1, <1>2
    <3> QED BY <3>1
  <2>2. \A s \in small(0) : Holds(g, s)
    BY <2>1
  <2>3. g \in [small(0) -> A]
    OBVIOUS
  <2> QED BY <2>2, <2>3
<1>4. ASSUME NEW k \in T PROVE k + 1 \in T
  <2>1. PICK g \in [small(k) -> A] : \A s \in small(k) : Holds(g, s)
    OBVIOUS
  <2> DEFINE h == [s \in small(k + 1) |->
                    IF s \in small(k) THEN g[s] ELSE G[<<c[s], g[s \ {c[s]}]>>]]
  <2>2. k \in Nat /\ small(k) \subseteq small(k + 1) /\ \A s \in small(k) : h[s] = g[s]
    BY <1>1
  <2>3. {} \in small(k)
    BY FS_EmptySet, <2>2
  <2>4. \A s \in small(k + 1) : s # {} => s \ {c[s]} \in small(k) /\ c[s] \in S
    BY <1>1, <1>2, <2>2
  <2>5. h \in [small(k + 1) -> A]
    <3> SUFFICES ASSUME NEW s \in small(k + 1), s \notin small(k)
                 PROVE  G[<<c[s], g[s \ {c[s]}]>>] \in A
      BY <2>1
    <3>1. <<c[s], g[s \ {c[s]}]>> \in S \X A
      BY <2>1, <2>3, <2>4
    <3> QED BY <3>1
  <2>6. \A s \in small(k + 1) : Holds(h, s)
    <3> SUFFICES ASSUME NEW s \in small(k + 1) PROVE Holds(h, s)
      OBVIOUS
    <3>1. CASE s = {}
      BY <2>1, <2>2, <2>3, <3>1
    <3>2. CASE s # {}
      <4>1. h[s \ {c[s]}] = g[s \ {c[s]}]
        BY <2>2, <2>4, <3>2
      <4>2. h[s] = G[<<c[s], g[s \ {c[s]}]>>]
        BY <2>1, <2>2, <3>2
      <4> QED BY <3>2, <4>1, <4>2
    <3> QED BY <3>1, <3>2
  <2>7. k + 1 \in Nat
    BY <2>2
  <2> HIDE DEF h, small, Holds
  <2> QED BY <2>5, <2>6, <2>7
<1>5. T = Nat
  <2>1. T \in SUBSET Nat
    OBVIOUS
  <2> HIDE DEF T
  <2> QED BY <1>3, <1>4, <2>1, NatSetInduction
<1>6. Cardinality(S) \in T /\ small(Cardinality(S)) = SUBSET S
  BY <1>1, <1>5, FS_CardinalityType, FS_Subset
<1> QED BY <1>6 DEF Folds

\* A nonempty set of numbers up to n has a largest one.
LEMMA MaxExists ==
  ASSUME NEW n \in Nat, NEW s \in SUBSET (1..n), s # {}
  PROVE  Max(s) \in s /\ \A y \in s : Max(s) >= y
<1> DEFINE T == {n - x : x \in s}
<1>1. T \subseteq Nat /\ T # {}
  OBVIOUS
<1>2. PICK t \in T : \A y \in T : <<y, t>> \notin OpToRel(<, Nat)
  <2> HIDE DEF T
  <2> QED BY <1>1, NatLessThanWellFounded, WFMin
<1>3. \A y \in T : ~(y < t)
  BY <1>1, <1>2 DEF OpToRel
<1>4. PICK x \in s : t = n - x
  OBVIOUS
<1>5. \A y \in s : x >= y
  <2> SUFFICES ASSUME NEW y \in s PROVE x >= y
    OBVIOUS
  <2>1. ~(n - y < n - x) /\ x \in Int /\ y \in Int
    BY <1>3, <1>4
  <2> QED BY <2>1
<1>6. \E m \in s : \A y \in s : m >= y
  BY <1>4, <1>5
<1> QED BY <1>6 DEF Max

-----------------------------------------------------------------------------
(* What the tally computes.                                                *)

\* The accumulator of majorityVote before the first candidate.
Start == [winner |-> Nobody, best |-> 0, tie |-> FALSE]

\* What it may hold when the candidates are S.
Accs(S) == [winner : S \cup {Nobody}, best : Nat, tie : BOOLEAN]

\* The candidates of a vote.
Cast(votes) == {votes[i].vote : i \in DOMAIN votes}

\* Where the loop ends when it meets the candidates in some order.
Counted(votes, order) == FoldLeft(LAMBDA acc, b : Tally(votes, acc, b), Start, order)

\* run[k] is the accumulator after k candidates.
IsRun(run, votes, order, n) ==
  /\ run[0] = Start
  /\ \A k \in 1..n : run[k] = Tally(votes, run[k - 1], order[k])
  /\ Counted(votes, order) = run[n]

\* The fold of majorityVote is a run of its loop over the candidates.
LEMMA TallyRuns ==
  ASSUME NEW votes, NEW S, NEW n \in Nat, NEW order \in [1..n -> S],
         \A b \in S : Count(votes, b) \in Nat
  PROVE  \E run \in [0..n -> Accs(S)] : IsRun(run, votes, order, n)
<1> DEFINE D == 1..n
           A == Accs(S)
           c == [s \in (SUBSET D) \ {{}} |-> Max(s)]
           G == [p \in D \X A |-> Tally(votes, p[2], order[p[1]])]
           F(g) == [s \in SUBSET D |->
                     IF s = {} THEN Start ELSE Tally(votes, g[s \ {Max(s)}], order[Max(s)])]
           iter == CHOOSE g : g = F(g)
<1>1. DOMAIN order = D /\ IsFiniteSet(D)
  BY FS_Interval
<1>2. Start \in A
  BY DEF Start, Accs
<1>3. \A s \in (SUBSET D) \ {{}} : Max(s) \in s /\ \A y \in s : Max(s) >= y
  BY MaxExists
<1>4. ASSUME NEW a \in A, NEW b \in S PROVE Tally(votes, a, b) \in A
  BY <1>4 DEF Tally, Accs
<1>5. G \in [D \X A -> A]
  <2> SUFFICES ASSUME NEW p \in D \X A PROVE Tally(votes, p[2], order[p[1]]) \in A
    OBVIOUS
  <2>1. p[2] \in A /\ order[p[1]] \in S
    OBVIOUS
  <2> HIDE DEF A
  <2> QED BY <1>4, <2>1
<1>6. \E g \in [SUBSET D -> A] : Folds(g, D, Start, c, G)
  <2>1. c \in [(SUBSET D) \ {{}} -> D] /\ \A s \in (SUBSET D) \ {{}} : c[s] \in s
    BY <1>3
  <2> HIDE DEF A, G, D, c
  <2> QED BY <1>1, <1>2, <1>5, <2>1, FoldExists
<1>7. PICK g \in [SUBSET D -> A] : g = F(g)
  <2>1. PICK g \in [SUBSET D -> A] : \A s \in SUBSET D :
          g[s] = IF s = {} THEN Start ELSE G[<<c[s], g[s \ {c[s]}]>>]
    BY <1>6 DEF Folds
  <2>2. ASSUME NEW s \in SUBSET D, s # {}
        PROVE  g[s] = Tally(votes, g[s \ {Max(s)}], order[Max(s)])
    <3>1. Max(s) \in D /\ s \ {Max(s)} \in SUBSET D
      BY <1>3, <2>2
    <3>2. <<Max(s), g[s \ {Max(s)}]>> \in D \X A
      <4> HIDE DEF D, A
      <4> QED BY <2>1, <3>1
    <3>3. G[<<Max(s), g[s \ {Max(s)}]>>] = Tally(votes, g[s \ {Max(s)}], order[Max(s)])
      <4> DEFINE q == <<Max(s), g[s \ {Max(s)}]>>
      <4>1. G[q] = Tally(votes, q[2], order[q[1]])
        <5> HIDE DEF D, A, q
        <5> QED BY <3>2 DEF q
      <4> QED BY <4>1
    <3>4. c[s] = Max(s)
      BY <2>2
    <3> HIDE DEF G, c, A, D
    <3> QED BY <2>1, <2>2, <3>3, <3>4
  <2>3. g[{}] = Start
    BY <2>1
  <2>4. g = F(g)
    <3> HIDE DEF G, A, D
    <3> QED BY <2>1, <2>2, <2>3
  <2> QED BY <2>1, <2>4
<1>8. iter = F(iter)
  <2> HIDE DEF F
  <2> QED BY <1>7
<1> HIDE DEF iter
<1>9. iter[{}] = Start /\ \A s \in (SUBSET D) \ {{}} :
        iter[s] = Tally(votes, iter[s \ {Max(s)}], order[Max(s)])
  BY <1>8
<1> DEFINE run == [k \in 0..n |-> iter[1..k]]
<1>10. run[0] = Start
  BY <1>9
<1>11. ASSUME NEW k \in 1..n PROVE run[k] = Tally(votes, run[k - 1], order[k])
  <2>1. 1..k \in (SUBSET D) \ {{}} /\ k \in 1..k
    OBVIOUS
  <2>2. Max(1..k) = k
    <3>1. Max(1..k) \in 1..k /\ Max(1..k) >= k
      BY <1>3, <2>1
    <3> QED BY <3>1
  <2>3. (1..k) \ {k} = 1..(k - 1) /\ k \in 0..n /\ k - 1 \in 0..n
    OBVIOUS
  <2> QED BY <1>9, <2>1, <2>2, <2>3
<1>12. run \in [0..n -> A]
  <2> DEFINE T == {k \in Nat : k <= n => run[k] \in A}
  <2>1. 0 \in T
    BY <1>2, <1>10
  <2>2. ASSUME NEW k \in T PROVE k + 1 \in T
    <3> SUFFICES ASSUME k + 1 <= n PROVE run[k + 1] \in A
      OBVIOUS
    <3>1. k + 1 \in 1..n /\ run[k] \in A /\ order[k + 1] \in S /\ k + 1 - 1 = k
      OBVIOUS
    <3> HIDE DEF A, run
    <3> QED BY <1>4, <1>11, <3>1
  <2>3. T \in SUBSET Nat
    OBVIOUS
  <2>4. T = Nat
    <3> HIDE DEF T
    <3> QED BY <2>1, <2>2, <2>3, NatSetInduction
  <2>5. \A k \in 0..n : run[k] \in A
    <3> HIDE DEF A, run
    <3> QED BY <2>4
  <2> HIDE DEF A
  <2> QED BY <2>5
<1>13. Counted(votes, order) = run[n]
  <2>1. Counted(votes, order) = iter[D]
    BY <1>1 DEF Counted, FoldLeft, MapThenFoldSet, iter
  <2> QED BY <2>1
<1> HIDE DEF A, run
<1> QED BY <1>10, <1>11, <1>12, <1>13 DEF A, IsRun

\* The candidates of a vote on record and their counts.
LEMMA CountsOfVotes ==
  ASSUME NEW V, NEW votes \in Seq(V)
  PROVE  /\ IsFiniteSet(Cast(votes))
         /\ \A b : Count(votes, b) \in Nat
         /\ \A b \in Cast(votes) : Count(votes, b) > 0
<1>1. IsFiniteSet(DOMAIN votes)
  <2>1. DOMAIN votes = 1..Len(votes) /\ Len(votes) \in Nat
    OBVIOUS
  <2> QED BY <2>1, FS_Interval
<1> DEFINE f == [i \in DOMAIN votes |-> votes[i].vote]
<1>2. f \in Surjection(DOMAIN votes, Cast(votes))
  BY DEF Surjection, Cast
<1>3. IsFiniteSet(Cast(votes))
  <2> HIDE DEF f
  <2> QED BY <1>1, <1>2, FS_Surjection
<1> DEFINE for(b) == {i \in DOMAIN votes : votes[i].vote = b}
<1>4. \A b : IsFiniteSet(for(b)) /\ Count(votes, b) = Cardinality(for(b))
  BY <1>1, FS_Subset DEF Count
<1>5. \A b \in Cast(votes) : for(b) # {}
  BY DEF Cast
<1> HIDE DEF for
<1> QED BY <1>3, <1>4, <1>5, FS_CardinalityType, FS_EmptySet

\* What the loop knows after the first k candidates: the highest count, a
\* candidate that has it, and whether another one has it too.
LoopInv(votes, order, k, acc) ==
  /\ \A j \in 1..k : Count(votes, order[j]) <= acc.best
  /\ k = 0 => acc.best = 0
  /\ k # 0 => \E i \in 1..k :
       /\ acc.winner = order[i] /\ Count(votes, order[i]) = acc.best
       /\ acc.tie <=> \E j \in 1..k : j # i /\ Count(votes, order[j]) = acc.best

LEMMA TallyKeepsLoopInv ==
  ASSUME NEW votes, NEW S, NEW n \in Nat, NEW order \in [1..n -> S],
         \A b \in S : Count(votes, b) \in Nat /\ Count(votes, b) > 0,
         NEW k \in 0..n, k + 1 <= n,
         NEW acc \in Accs(S),
         LoopInv(votes, order, k, acc)
  PROVE  LoopInv(votes, order, k + 1, Tally(votes, acc, order[k + 1]))
<1> DEFINE m == Count(votes, order[k + 1])  new == Tally(votes, acc, order[k + 1])
           C(j) == Count(votes, order[j])
<1>1. k + 1 \in 1..n /\ m \in Nat /\ m > 0 /\ \A j \in 1..(k + 1) : j \in 1..k \/ j = k + 1
  OBVIOUS
<1>2. \A j \in 1..n : C(j) \in Nat
  OBVIOUS
<1>3. acc.best \in Nat /\ (\A j \in 1..k : C(j) <= acc.best) /\ (k = 0 => acc.best = 0)
  BY DEF LoopInv, Accs
<1>4. CASE m > acc.best
  <2>1. new.winner = order[k + 1] /\ new.best = m /\ new.tie = FALSE
    BY <1>4 DEF Tally
  <2> HIDE DEF m, new
  <2>2. \A j \in 1..k : C(j) < m
    BY <1>1, <1>2, <1>3, <1>4
  <2>3. \A j \in 1..(k + 1) : C(j) <= new.best
    BY <1>1, <2>1, <2>2 DEF m
  <2>4. new.tie <=> \E j \in 1..(k + 1) : j # k + 1 /\ C(j) = new.best
    BY <1>1, <1>2, <2>1, <2>2
  <2>5. k + 1 \in 1..(k + 1) /\ k + 1 # 0 /\ C(k + 1) = new.best
    BY <2>1 DEF m
  <2> QED BY <2>1, <2>3, <2>4, <2>5 DEF LoopInv, new
<1>5. CASE m = acc.best
  <2>1. k # 0
    BY <1>1, <1>3, <1>5
  <2>2. new.winner = acc.winner /\ new.best = acc.best /\ new.tie = TRUE
    BY <1>5 DEF Tally, Accs
  <2> HIDE DEF new
  <2>3. PICK i \in 1..k : acc.winner = order[i] /\ C(i) = acc.best
    BY <2>1 DEF LoopInv
  <2>4. i \in 1..(k + 1) /\ i # k + 1 /\ k + 1 \in 1..(k + 1)
    OBVIOUS
  <2>5. \A j \in 1..(k + 1) : C(j) <= new.best
    BY <1>1, <1>3, <1>5, <2>2
  <2>6. new.tie <=> \E j \in 1..(k + 1) : j # i /\ C(j) = new.best
    BY <1>5, <2>2, <2>4
  <2>7. new.winner = order[i] /\ C(i) = new.best /\ k + 1 # 0
    BY <2>2, <2>3
  <2> QED BY <2>4, <2>5, <2>6, <2>7 DEF LoopInv, new
<1>6. CASE m < acc.best
  <2>1. k # 0 /\ new = acc
    BY <1>1, <1>3, <1>6 DEF Tally
  <2> HIDE DEF new
  <2>2. PICK i \in 1..k : acc.winner = order[i] /\ C(i) = acc.best
          /\ (acc.tie <=> \E j \in 1..k : j # i /\ C(j) = acc.best)
    BY <2>1 DEF LoopInv
  <2>3. i \in 1..(k + 1) /\ k + 1 # 0
    OBVIOUS
  <2>4. \A j \in 1..(k + 1) : C(j) <= new.best
    BY <1>1, <1>3, <1>6, <2>1
  <2>5. new.tie <=> \E j \in 1..(k + 1) : j # i /\ C(j) = new.best
    <3>1. 1..k \subseteq 1..(k + 1) /\ C(k + 1) # acc.best
      BY <1>3, <1>6, <1>1
    <3> QED BY <1>1, <2>1, <2>2, <3>1
  <2> QED BY <2>1, <2>2, <2>3, <2>4, <2>5 DEF LoopInv, new
<1> QED BY <1>1, <1>3, <1>4, <1>5, <1>6

\* Go's iteration order does not matter: every order gives the ballot with
\* strictly more votes than any other, or a tie without one.
LEMMA MajorityIsPlurality ==
  ASSUME NEW V, NEW votes \in Seq(V), votes # <<>>, NEW w \in majorityVote(votes)
  PROVE  w = Plurality(votes)
<1> DEFINE S == Cast(votes)  n == Cardinality(S)
<1>1. IsFiniteSet(S) /\ \A b \in S : Count(votes, b) \in Nat /\ Count(votes, b) > 0
  BY CountsOfVotes
<1>2. n \in Nat /\ n # 0
  <2>1. S # {}
    <3>1. 1 \in DOMAIN votes
      OBVIOUS
    <3> QED BY <3>1 DEF Cast
  <2> HIDE DEF S
  <2> QED BY <1>1, <2>1, FS_CardinalityType, FS_EmptySet
<1>3. PICK order \in SetToSeqs(S) : LET end == Counted(votes, order) IN
        w = IF end.tie THEN "tie" ELSE end.winner
  BY DEF majorityVote, Counted, Start, Cast
<1> HIDE DEF S, n
<1>4. order \in [1..n -> S] /\ \A i, j \in 1..n : i # j => order[i] # order[j]
  BY <1>3 DEF SetToSeqs, n
<1>5. \A b \in S : \E i \in 1..n : order[i] = b
  <2>1. order \in Injection(1..n, S)
    BY <1>4 DEF Injection, IsInjective
  <2>2. Cardinality(1..n) = n
    BY <1>2, FS_Interval
  <2>3. order \in Surjection(1..n, S)
    BY <1>1, <2>1, <2>2, FS_Injection DEF n
  <2> QED BY <2>3 DEF Surjection
<1>6. PICK run \in [0..n -> Accs(S)] :
        /\ run[0] = Start
        /\ \A k \in 1..n : run[k] = Tally(votes, run[k - 1], order[k])
        /\ Counted(votes, order) = run[n]
  <2>1. \A b \in S : Count(votes, b) \in Nat
    BY <1>1
  <2>2. \E run \in [0..n -> Accs(S)] : IsRun(run, votes, order, n)
    BY <1>2, <1>4, <2>1, TallyRuns
  <2> QED BY <2>2 DEF IsRun
<1>7. LoopInv(votes, order, n, run[n])
  <2> DEFINE T == {k \in Nat : k <= n => LoopInv(votes, order, k, run[k])}
  <2>1. 0 \in T
    BY <1>6 DEF LoopInv, Start
  <2>2. ASSUME NEW k \in T PROVE k + 1 \in T
    <3> SUFFICES ASSUME k + 1 <= n PROVE LoopInv(votes, order, k + 1, run[k + 1])
      OBVIOUS
    <3>1. k \in 0..n /\ k + 1 \in 1..n /\ k + 1 - 1 = k /\ LoopInv(votes, order, k, run[k])
      BY <1>2
    <3>2. run[k + 1] = Tally(votes, run[k], order[k + 1]) /\ run[k] \in Accs(S)
      BY <1>6, <3>1
    <3> QED BY <1>1, <1>2, <1>4, <3>1, <3>2, TallyKeepsLoopInv
  <2>3. T \in SUBSET Nat
    OBVIOUS
  <2>4. T = Nat
    <3> HIDE DEF T
    <3> QED BY <2>1, <2>2, <2>3, NatSetInduction
  <2>5. n \in T /\ n <= n
    <3> HIDE DEF T
    <3> QED BY <1>2, <2>4
  <2> QED BY <2>5
<1> DEFINE end == run[n]
           top == {b \in S : \A o \in S : Count(votes, o) <= Count(votes, b)}
<1>8. PICK i \in 1..n :
        /\ end.winner = order[i] /\ Count(votes, order[i]) = end.best
        /\ end.tie <=> \E j \in 1..n : j # i /\ Count(votes, order[j]) = end.best
  BY <1>2, <1>7 DEF LoopInv
<1>9. \A j \in 1..n : Count(votes, order[j]) <= end.best
  BY <1>7 DEF LoopInv
<1>10. end.best \in Nat /\ end.tie \in BOOLEAN
  BY <1>2, <1>6 DEF Accs
<1>11. \A b \in S : b \in top <=> Count(votes, b) = end.best
  <2> HIDE DEF end
  <2>1. order[i] \in S
    BY <1>4
  <2>2. \A b \in S : Count(votes, b) <= end.best /\ Count(votes, b) \in Nat
    BY <1>1, <1>5, <1>9
  <2> QED BY <1>8, <1>10, <2>1, <2>2
<1>12. IsFiniteSet(top)
  BY <1>1, FS_Subset
<1>13. Plurality(votes) = IF Cardinality(top) = 1 THEN CHOOSE b \in top : TRUE ELSE "tie"
  BY DEF Plurality, S, Cast
<1> HIDE DEF top, end
<1>14. CASE end.tie
  <2>1. PICK j \in 1..n : j # i /\ Count(votes, order[j]) = end.best
    BY <1>8, <1>14
  <2>2. order[i] \in top /\ order[j] \in top /\ order[i] # order[j]
    BY <1>4, <1>8, <1>11, <2>1
  <2>3. Cardinality(top) # 1
    BY <1>12, <2>2, FS_Singleton
  <2> QED BY <1>3, <1>6, <1>13, <1>14, <2>3 DEF end
<1>15. CASE ~end.tie
  <2>1. \A b \in top : b = order[i]
    BY <1>5, <1>8, <1>11, <1>15 DEF top
  <2>2. top = {order[i]}
    BY <1>4, <1>8, <1>11, <2>1
  <2>3. Cardinality(top) = 1
    BY <2>2, FS_Singleton
  <2> QED BY <1>3, <1>6, <1>8, <1>13, <1>15, <2>2, <2>3 DEF end
<1> QED BY <1>14, <1>15

-----------------------------------------------------------------------------
(* The disputes.                                                           *)

\* A record with the fields of a dispute, whatever its verdict.
Shaped(d) ==
  d \in [plaintiff : Actors, defendant : Actors, reason : Reasons,
         phase : Phases, status : Statuses, verdict : {d.verdict},
         committee : SUBSET Actors,
         committeeVotes : Seq(VoteRecord), fullVotes : Seq(FullVoteRecord),
         plaintiffEvidence : Nat, defendantEvidence : Nat]

\* What ReviewCanBeVoted says of one dispute.
Votable(i, d) ==
  /\ d.status = "DISPUTE_FILED" => d.phase = "PHASE_AUTO"
  /\ d.status \in {"DISPUTE_COMM_REVIEW", "DISPUTE_COMM_RESOLVED"} => d.phase = "PHASE_COMMITTEE"
  /\ d.status = "DISPUTE_FULL_REVIEW" <=>
       d.phase = "PHASE_FULL" /\ d.status \notin {"DISPUTE_AUTO_RESOLVED", "DISPUTE_FINAL_RESOLVED"}
  /\ d.phase = "PHASE_COMMITTEE" => d.committee = Committee[i]
  /\ \A k \in 1..Len(d.committeeVotes) : d.committeeVotes[k].validator \in Committee[i]

\* What VerdictHasGround says of one dispute.
Grounded(d) ==
  /\ d.status = "DISPUTE_AUTO_RESOLVED" => RuleGround(d)
  /\ d.status = "DISPUTE_COMM_RESOLVED" => CommitteeGround(d)
  /\ d.status = "DISPUTE_FINAL_RESOLVED" =>
       RuleGround(d) \/ CommitteeGround(d) \/ FullGround(d)

(* The inductive invariant.                                                *)
ArbInv ==
  /\ Disputes \subseteq DisputeIds
  /\ dispute = [i \in Disputes |-> dispute[i]]
  /\ \A i \in Disputes : Shaped(dispute[i]) /\ Votable(i, dispute[i]) /\ Grounded(dispute[i])

\* What FinalVerdictYieldsOnlyToVotes says of one dispute.
Yields(d, e) ==
  (d.status = "DISPUTE_FINAL_RESOLVED" /\ e.status # "DISPUTE_FILED") =>
    \/ e.verdict = d.verdict /\ e.status = "DISPUTE_FINAL_RESOLVED"
    \/ Len(e.committeeVotes) > Len(d.committeeVotes) /\ Len(e.committeeVotes) >= 3
    \/ Len(e.fullVotes) > Len(d.fullVotes) /\ Len(e.fullVotes) >= 5

Kept == ArbInv' /\ \A i \in Disputes : Yields(dispute[i], dispute'[i])

\* A step that replaces a stored dispute.
LEMMA ReplaceKeeps ==
  ASSUME ArbInv, NEW id \in Disputes, NEW e, dispute' = [dispute EXCEPT ![id] = e],
         Shaped(e), Votable(id, e), Grounded(e), Yields(dispute[id], e)
  PROVE  Kept
<1>1. /\ Disputes' = Disputes /\ dispute' = [i \in Disputes' |-> dispute'[i]]
      /\ dispute'[id] = e /\ \A i \in Disputes : i # id => dispute'[i] = dispute[i]
  BY DEF ArbInv, Disputes
<1>2. ArbInv'
  BY <1>1 DEF ArbInv
<1>3. ASSUME NEW i \in Disputes PROVE Yields(dispute[i], dispute'[i])
  BY <1>1, <1>3 DEF Yields
<1> QED BY <1>2, <1>3 DEF Kept

\* The ground of a verdict is in five fields of a dispute.
LEMMA SameGround ==
  ASSUME NEW d, NEW e, Grounded(d), e.status = d.status, e.verdict = d.verdict,
         e.reason = d.reason, e.committeeVotes = d.committeeVotes, e.fullVotes = d.fullVotes
  PROVE  Grounded(e)
BY DEF Grounded, RuleGround, CommitteeGround, FullGround

\* A dispute that is filed or under review needs none.
LEMMA OpenIsGrounded ==
  ASSUME NEW e, e.status \in {"DISPUTE_FILED", "DISPUTE_COMM_REVIEW", "DISPUTE_FULL_REVIEW"}
  PROVE  Grounded(e)
BY DEF Grounded

LEMMA FileKeeps ==
  ASSUME ArbInv, NEW id \in DisputeIds, NEW p \in Actors, NEW q \in Actors,
         NEW r \in Reasons, fileDispute(id, p, q, r)
  PROVE  Kept
<1> DEFINE e == [plaintiff |-> p, defendant |-> q, reason |-> r,
                 phase |-> "PHASE_AUTO", status |-> "DISPUTE_FILED",
                 verdict |-> [winner |-> Nobody, by |-> "nothing"], committee |-> {},
                 committeeVotes |-> <<>>, fullVotes |-> <<>>,
                 plaintiffEvidence |-> 0, defendantEvidence |-> 0]
<1>1. Shaped(e)
  BY DEF Shaped, Phases, Statuses
<1>2. Votable(id, e) /\ e.status = "DISPUTE_FILED" /\ Grounded(e)
  BY OpenIsGrounded DEF Votable
<1>3. dispute' = saveDispute(id, e)
  BY DEF fileDispute
<1> HIDE DEF e
<1>4. /\ Disputes' = Disputes \cup {id} /\ dispute' = [i \in Disputes' |-> dispute'[i]]
      /\ dispute'[id] = e /\ \A i \in Disputes : i # id => dispute'[i] = dispute[i]
  BY <1>3 DEF saveDispute, Disputes
<1>5. ArbInv'
  BY <1>1, <1>2, <1>4 DEF ArbInv
<1>6. ASSUME NEW i \in Disputes PROVE Yields(dispute[i], dispute'[i])
  BY <1>2, <1>4 DEF Yields
<1> QED BY <1>5, <1>6 DEF Kept

LEMMA EvidenceKeeps ==
  ASSUME ArbInv, NEW id \in Disputes, NEW s \in Actors,
         submitPlaintiffEvidence(s, id) \/ submitDefendantEvidence(s, id)
  PROVE  Kept
<1> DEFINE d == dispute[id]
<1>1. Shaped(d) /\ Votable(id, d) /\ Grounded(d) /\ dispute = [i \in Disputes |-> dispute[i]]
  BY DEF ArbInv
<1>2. CASE submitPlaintiffEvidence(s, id)
  <2> DEFINE x == d.plaintiffEvidence + 1
             e == [d EXCEPT !.plaintiffEvidence = x]
  <2>1. Shaped(e) /\ Votable(id, e) /\ Yields(d, e)
    <3>0. Shaped(d) /\ x \in Nat
      BY <1>1 DEF Shaped
    <3> HIDE DEF x
    <3>1. Shaped(e)
      BY <3>0 DEF Shaped
    <3>2. Votable(id, e)
      BY <1>1 DEF Shaped, Votable
    <3>3. Yields(d, e)
      BY <1>1 DEF Shaped, Yields
    <3> QED BY <3>1, <3>2, <3>3
  <2>3. Grounded(e)
    BY <1>1, SameGround DEF Shaped
  <2>2. dispute' = [dispute EXCEPT ![id] = e]
    BY <1>2 DEF submitPlaintiffEvidence
  <2> HIDE DEF e
  <2> QED BY <2>1, <2>2, <2>3, ReplaceKeeps
<1>3. CASE submitDefendantEvidence(s, id)
  <2> DEFINE x == d.defendantEvidence + 1
             e == [d EXCEPT !.defendantEvidence = x]
  <2>1. Shaped(e) /\ Votable(id, e) /\ Yields(d, e)
    <3>0. Shaped(d) /\ x \in Nat
      BY <1>1 DEF Shaped
    <3> HIDE DEF x
    <3>1. Shaped(e)
      BY <3>0 DEF Shaped
    <3>2. Votable(id, e)
      BY <1>1 DEF Shaped, Votable
    <3>3. Yields(d, e)
      BY <1>1 DEF Shaped, Yields
    <3> QED BY <3>1, <3>2, <3>3
  <2>3. Grounded(e)
    BY <1>1, SameGround DEF Shaped
  <2>2. dispute' = [dispute EXCEPT ![id] = e]
    BY <1>3 DEF submitDefendantEvidence
  <2> HIDE DEF e
  <2> QED BY <2>1, <2>2, <2>3, ReplaceKeeps
<1> QED BY <1>2, <1>3

LEMMA ExecuteKeeps ==
  ASSUME ArbInv, NEW id \in Disputes, executeVerdict(id)
  PROVE  Kept
<1> DEFINE d == dispute[id]
           e == [d EXCEPT !.status = "DISPUTE_FINAL_RESOLVED"]
<1>1. Shaped(d) /\ Votable(id, d) /\ Grounded(d) /\ dispute = [i \in Disputes |-> dispute[i]]
  BY DEF ArbInv
<1>2. Shaped(e) /\ Votable(id, e) /\ Yields(d, e)
  BY <1>1 DEF Shaped, Votable, Yields, Statuses, executeVerdict, Executable
<1>3. dispute' = [dispute EXCEPT ![id] = e]
  BY DEF executeVerdict
<1>4. /\ d.status \in {"DISPUTE_AUTO_RESOLVED", "DISPUTE_COMM_RESOLVED", "DISPUTE_FINAL_RESOLVED"}
      /\ e.verdict = d.verdict /\ e.reason = d.reason /\ e.committeeVotes = d.committeeVotes
      /\ e.fullVotes = d.fullVotes /\ e.status = "DISPUTE_FINAL_RESOLVED"
  BY <1>1 DEF executeVerdict, Executable, Shaped
<1> HIDE DEF e
<1>5. Grounded(e)
  BY <1>1, <1>4 DEF Grounded, RuleGround, CommitteeGround, FullGround
<1> QED BY <1>2, <1>3, <1>5, ReplaceKeeps

\* The automatic rules and the appeals: none of them touches a final dispute.
LEMMA EscalateKeeps ==
  ASSUME ArbInv, NEW id \in Disputes,
         \/ autoResolveByRule(id) \/ autoResolveEscalates(id)
         \/ appealRule(id) \/ appealCommittee(id)
  PROVE  Kept
<1> DEFINE d == dispute[id]
<1>1. /\ Shaped(d) /\ Votable(id, d) /\ Grounded(d) /\ dispute = [i \in Disputes |-> dispute[i]]
      /\ id \in DisputeIds
  BY DEF ArbInv
<1>2. d.status # "DISPUTE_FINAL_RESOLVED"
  BY DEF autoResolveByRule, autoResolveEscalates, appealRule, appealCommittee, MayAutoResolve
<1>3. \A e : Yields(d, e)
  BY <1>2 DEF Yields
<1>4. CASE autoResolveByRule(id)
  <2> DEFINE v == RuleVerdict(applyRules(d.reason))
             e == [d EXCEPT !.verdict = v, !.status = "DISPUTE_AUTO_RESOLVED"]
  <2>1. dispute' = [dispute EXCEPT ![id] = e]
    BY <1>4 DEF autoResolveByRule
  <2>2. v.winner # Nobody
    BY <1>4 DEF autoResolveByRule, RuleVerdict
  <2> HIDE DEF v
  <2>3. /\ Shaped(e) /\ Votable(id, e) /\ e.status = "DISPUTE_AUTO_RESOLVED"
        /\ e.verdict = v /\ e.reason = d.reason
    BY <1>1 DEF Shaped, Votable, Statuses
  <2> HIDE DEF e
  <2>4. Grounded(e)
    BY <2>2, <2>3 DEF Grounded, RuleGround, v
  <2> QED BY <1>3, <2>1, <2>3, <2>4, ReplaceKeeps
<1>5. CASE autoResolveEscalates(id) \/ appealRule(id)
  <2> DEFINE e == ToCommittee(id, d)
  <2>1. dispute' = [dispute EXCEPT ![id] = e]
    BY <1>5 DEF autoResolveEscalates, appealRule
  <2>2. Shaped(e) /\ Votable(id, e) /\ e.status = "DISPUTE_COMM_REVIEW"
    BY <1>1, ArbConstants DEF ToCommittee, Shaped, Votable, Statuses, Phases
  <2> HIDE DEF e
  <2>3. Grounded(e)
    BY <2>2, OpenIsGrounded
  <2> QED BY <1>3, <2>1, <2>2, <2>3, ReplaceKeeps
<1>6. CASE appealCommittee(id)
  <2> DEFINE e == [d EXCEPT !.phase = "PHASE_FULL", !.status = "DISPUTE_FULL_REVIEW"]
  <2>1. dispute' = [dispute EXCEPT ![id] = e]
    BY <1>6 DEF appealCommittee
  <2>2. Shaped(e) /\ Votable(id, e) /\ e.status = "DISPUTE_FULL_REVIEW"
    BY <1>1 DEF Shaped, Votable, Statuses, Phases
  <2> HIDE DEF e
  <2>3. Grounded(e)
    BY <2>2, OpenIsGrounded
  <2> QED BY <1>3, <2>1, <2>2, <2>3, ReplaceKeeps
<1> QED BY <1>4, <1>5, <1>6

LEMMA CommitteeVoteKeeps ==
  ASSUME ArbInv, NEW id \in Disputes, NEW s \in Actors, NEW b \in Ballots,
         committeeVote(s, id, b)
  PROVE  Kept
<1> DEFINE d == dispute[id]
           v == [validator |-> s, vote |-> b]
           votes == Append(d.committeeVotes, v)
           voted == [d EXCEPT !.committeeVotes = votes]
<1>1. /\ Shaped(d) /\ Votable(id, d) /\ Grounded(d) /\ id \in DisputeIds
      /\ d.phase = "PHASE_COMMITTEE" /\ s \in d.committee
  BY DEF ArbInv, committeeVote
<1>2. v \in VoteRecord /\ v.validator \in Committee[id]
  BY <1>1 DEF VoteRecord, Votable
<1>3. d.committeeVotes \in Seq(VoteRecord)
  BY <1>1 DEF Shaped
<1> HIDE DEF v
<1>4. /\ votes \in Seq(VoteRecord) /\ Len(votes) = Len(d.committeeVotes) + 1
      /\ Len(d.committeeVotes) \in Nat
      /\ \A k \in 1..Len(votes) :
           (k \in 1..Len(d.committeeVotes) /\ votes[k] = d.committeeVotes[k]) \/ votes[k] = v
  BY <1>2, <1>3
<1>5. \A k \in 1..Len(votes) : votes[k].validator \in Committee[id]
  BY <1>1, <1>2, <1>4 DEF Votable
<1>6. \/ ~(Len(votes) >= 3) /\ dispute' = [dispute EXCEPT ![id] = voted]
      \/ Len(votes) >= 3 /\ \E w \in majorityVote(votes) :
           dispute' = [dispute EXCEPT ![id] = CommitteeDecides(voted, w)]
  <2>1. IF CommitteeQuorum(votes)
          THEN \E w \in majorityVote(votes) :
                 dispute' = [dispute EXCEPT ![id] = CommitteeDecides(voted, w)]
          ELSE dispute' = [dispute EXCEPT ![id] = voted]
    BY DEF committeeVote, v
  <2> HIDE DEF votes, voted
  <2> QED BY <2>1, Zenon DEF CommitteeQuorum
<1> HIDE DEF votes
<1>7. /\ Shaped(voted) /\ voted.committeeVotes = votes /\ voted.verdict = d.verdict
      /\ voted.reason = d.reason /\ voted.fullVotes = d.fullVotes
      /\ voted.status = d.status /\ voted.phase = d.phase /\ voted.committee = d.committee
  BY <1>1, <1>4 DEF Shaped
<1>8. Votable(id, voted)
  BY <1>1, <1>5, <1>7 DEF Votable
<1> HIDE DEF voted
<1>9. CASE ~(Len(votes) >= 3) /\ dispute' = [dispute EXCEPT ![id] = voted]
  <2>1. Yields(d, voted)
    BY <1>7 DEF Yields
  <2>2. ~CommitteeGround(d)
    BY <1>4, <1>9 DEF CommitteeGround
  <2>3. Grounded(voted)
    BY <1>1, <1>7, <2>2 DEF Grounded, RuleGround, FullGround
  <2> QED BY <1>7, <1>8, <1>9, <2>1, <2>3, ReplaceKeeps
<1>10. ASSUME NEW w \in majorityVote(votes), Len(votes) >= 3,
              dispute' = [dispute EXCEPT ![id] = CommitteeDecides(voted, w)]
       PROVE  Kept
  <2> DEFINE e == CommitteeDecides(voted, w)
             x == simpleVerdict(w)
  <2>0. w = Plurality(votes)
    <3>1. votes # <<>>
      BY <1>4, <1>10
    <3> QED BY <1>4, <1>10, <3>1, MajorityIsPlurality
  <2> HIDE DEF x
  <2>1. e = IF w = "tie"
              THEN [voted EXCEPT !.phase = "PHASE_FULL", !.status = "DISPUTE_FULL_REVIEW"]
              ELSE [voted EXCEPT !.status = "DISPUTE_COMM_RESOLVED", !.verdict = x]
    BY DEF CommitteeDecides, x
  <2> HIDE DEF e
  <2>2. Shaped(e) /\ e.committeeVotes = votes
    BY <1>7, <2>1 DEF Shaped, Statuses, Phases
  <2>3. /\ e.committee = d.committee
        /\ \/ e.phase = "PHASE_FULL" /\ e.status = "DISPUTE_FULL_REVIEW"
           \/ e.phase = "PHASE_COMMITTEE" /\ e.status = "DISPUTE_COMM_RESOLVED"
    BY <1>1, <1>7, <2>1 DEF Shaped
  <2>4. Votable(id, e)
    BY <1>1, <1>5, <2>2, <2>3 DEF Votable
  <2>5. Yields(d, e)
    BY <1>4, <1>10, <2>2 DEF Yields
  <2>6. CASE w = "tie"
    <3>1. e.status = "DISPUTE_FULL_REVIEW"
      BY <1>7, <2>1, <2>6 DEF Shaped
    <3>2. Grounded(e)
      BY <3>1, OpenIsGrounded
    <3> QED BY <1>10, <2>2, <2>4, <2>5, <3>2, ReplaceKeeps DEF e
  <2>7. CASE w # "tie"
    <3>1. e.status = "DISPUTE_COMM_RESOLVED" /\ e.verdict = x
      BY <1>7, <2>1, <2>7 DEF Shaped
    <3>2. CommitteeGround(e)
      BY <1>10, <2>0, <2>2, <2>7, <3>1 DEF CommitteeGround, x
    <3>3. Grounded(e)
      BY <3>1, <3>2 DEF Grounded
    <3> QED BY <1>10, <2>2, <2>4, <2>5, <3>3, ReplaceKeeps DEF e
  <2> QED BY <2>6, <2>7
<1> QED BY <1>6, <1>9, <1>10

LEMMA FullVoteKeeps ==
  ASSUME ArbInv, NEW id \in Disputes, NEW b \in Ballots, fullVote(id, b)
  PROVE  Kept
<1> DEFINE d == dispute[id]
           v == [vote |-> b]
           votes == Append(d.fullVotes, v)
           voted == [d EXCEPT !.fullVotes = votes]
<1>1. Shaped(d) /\ Votable(id, d) /\ Grounded(d) /\ d.phase = "PHASE_FULL"
  BY DEF ArbInv, fullVote
<1>2. v \in FullVoteRecord /\ d.fullVotes \in Seq(FullVoteRecord)
  BY <1>1 DEF FullVoteRecord, Shaped
<1> HIDE DEF v
<1>3. /\ votes \in Seq(FullVoteRecord) /\ Len(votes) = Len(d.fullVotes) + 1
      /\ Len(d.fullVotes) \in Nat
  BY <1>2
<1>4. \/ ~(Len(votes) >= 5) /\ dispute' = [dispute EXCEPT ![id] = voted]
      \/ Len(votes) >= 5 /\ \E w \in majorityVote(votes) : dispute' = [dispute EXCEPT ![id] =
           [voted EXCEPT !.verdict = simpleVerdict(TieToConsumer(w)),
                         !.status = "DISPUTE_FINAL_RESOLVED"]]
  <2>1. IF Len(votes) >= 5
          THEN \E w \in majorityVote(votes) : dispute' = [dispute EXCEPT ![id] =
                 [voted EXCEPT !.verdict = simpleVerdict(TieToConsumer(w)),
                               !.status = "DISPUTE_FINAL_RESOLVED"]]
          ELSE dispute' = [dispute EXCEPT ![id] = voted]
    BY DEF fullVote, v
  <2> HIDE DEF votes, voted
  <2> QED BY <2>1, Zenon
<1> HIDE DEF votes
<1>5. /\ Shaped(voted) /\ voted.fullVotes = votes /\ voted.verdict = d.verdict
      /\ voted.status = d.status /\ voted.phase = d.phase /\ voted.committee = d.committee
      /\ voted.committeeVotes = d.committeeVotes /\ voted.reason = d.reason
  BY <1>1, <1>3 DEF Shaped
<1>6. Votable(id, voted)
  BY <1>1, <1>5 DEF Votable
<1> HIDE DEF voted
<1>7. CASE ~(Len(votes) >= 5) /\ dispute' = [dispute EXCEPT ![id] = voted]
  <2>1. Yields(d, voted)
    BY <1>5 DEF Yields
  <2>2. ~FullGround(d)
    BY <1>3, <1>7 DEF FullGround
  <2>3. Grounded(voted)
    BY <1>1, <1>5, <2>2 DEF Grounded, RuleGround, CommitteeGround
  <2> QED BY <1>5, <1>6, <1>7, <2>1, <2>3, ReplaceKeeps
<1>8. ASSUME NEW w \in majorityVote(votes), Len(votes) >= 5, dispute' = [dispute EXCEPT ![id] =
               [voted EXCEPT !.verdict = simpleVerdict(TieToConsumer(w)),
                             !.status = "DISPUTE_FINAL_RESOLVED"]]
      PROVE  Kept
  <2> DEFINE x == simpleVerdict(TieToConsumer(w))
             e == [voted EXCEPT !.verdict = x, !.status = "DISPUTE_FINAL_RESOLVED"]
  <2>1. dispute' = [dispute EXCEPT ![id] = e]
    BY <1>8
  <2> HIDE DEF x
  <2>2. /\ Shaped(e) /\ e.fullVotes = votes /\ e.status = "DISPUTE_FINAL_RESOLVED"
        /\ e.phase = "PHASE_FULL" /\ e.committeeVotes = d.committeeVotes /\ e.verdict = x
    BY <1>1, <1>5 DEF Shaped, Statuses
  <2> HIDE DEF e
  <2>3. Votable(id, e)
    BY <1>1, <2>2 DEF Votable
  <2>4. Yields(d, e)
    BY <1>3, <1>8, <2>2 DEF Yields
  <2>5. w = Plurality(votes)
    <3>1. votes # <<>>
      BY <1>3, <1>8
    <3> QED BY <1>3, <1>8, <3>1, MajorityIsPlurality
  <2>6. FullGround(e)
    BY <1>8, <2>2, <2>5 DEF FullGround, x, simpleVerdict, TieToConsumer
  <2>7. Grounded(e)
    BY <2>2, <2>6 DEF Grounded
  <2> QED BY <2>1, <2>2, <2>3, <2>4, <2>7, ReplaceKeeps
<1> QED BY <1>4, <1>7, <1>8

\* Every handler keeps the invariant and yields a final verdict to votes only.
LEMMA ArbStep ==
  ASSUME ArbInv, Next
  PROVE  Kept
<1>1. ASSUME NEW id \in Disputes,
             \/ autoResolveByRule(id) \/ autoResolveEscalates(id)
             \/ appealRule(id) \/ appealCommittee(id)
      PROVE  Kept
  BY <1>1, EscalateKeeps
<1>2. ASSUME NEW id \in Disputes, NEW s \in Actors,
             submitPlaintiffEvidence(s, id) \/ submitDefendantEvidence(s, id)
      PROVE  Kept
  BY <1>2, EvidenceKeeps
<1> QED BY <1>1, <1>2, FileKeeps, ExecuteKeeps, CommitteeVoteKeeps, FullVoteKeeps DEF Next

LEMMA ArbInvInit == Init => ArbInv
BY DEF Init, ArbInv, Disputes

LEMMA ArbInvStep ==
  ASSUME ArbInv, [Next]_dispute
  PROVE  ArbInv'
<1>1. CASE UNCHANGED dispute
  BY <1>1 DEF ArbInv, Disputes
<1>2. CASE Next
  BY <1>2, ArbStep DEF Kept
<1> QED BY <1>1, <1>2

\* Whatever the order of votes, appeals and repeated resolutions, phase, status
\* and committee of a dispute stay in step.
THEOREM ReviewsCorrect == Spec => []ReviewCanBeVoted
<1>1. ArbInv => ReviewCanBeVoted
  BY DEF ArbInv, ReviewCanBeVoted, Votable
<1> QED BY <1>1, ArbInvInit, ArbInvStep, PTL DEF Spec

\* A resolved dispute has a verdict that a rule, a strict plurality of at least
\* three committee votes or the outcome of at least five votes of everybody gives,
\* on the votes on record, in whatever order they come and are tallied.
THEOREM VerdictsCorrect == Spec => []VerdictHasGround
<1>1. ArbInv => VerdictHasGround
  BY DEF ArbInv, VerdictHasGround, Grounded
<1> QED BY <1>1, ArbInvInit, ArbInvStep, PTL DEF Spec

\* A final verdict changes only by a vote that reaches a quorum.
THEOREM FinalityCorrect == Spec => FinalVerdictYieldsOnlyToVotes
<1> DEFINE Step == \A i \in Disputes :
       (dispute[i].status = "DISPUTE_FINAL_RESOLVED" /\ dispute'[i].status # "DISPUTE_FILED")
         => \/ /\ dispute'[i].verdict = dispute[i].verdict
               /\ dispute'[i].status = "DISPUTE_FINAL_RESOLVED"
            \/ /\ Len(dispute'[i].committeeVotes) > Len(dispute[i].committeeVotes)
               /\ Len(dispute'[i].committeeVotes) >= 3
            \/ /\ Len(dispute'[i].fullVotes) > Len(dispute[i].fullVotes)
               /\ Len(dispute'[i].fullVotes) >= 5
<1>1. ArbInv /\ [Next]_dispute => [Step]_dispute
  <2>1. ArbInv /\ Next => Step
    BY ArbStep DEF Kept, Yields
  <2> QED BY <2>1
<1> QED BY <1>1, ArbInvInit, ArbInvStep, PTL DEF Spec, FinalVerdictYieldsOnlyToVotes
=============================================================================
