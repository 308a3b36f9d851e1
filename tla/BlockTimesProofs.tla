-------------------------- MODULE BlockTimesProofs --------------------------
(***************************************************************************)
(* What holds of the block times for every validator set, whatever the     *)
(* powers: the loop of weightedMedian finds the median, and the time of a  *)
(* block stays within the times of the correct validators as far as        *)
(* TimeWithinHonest says.                                                  *)
(*                                                                         *)
(* Power and the loop are recursive, so the lemmas about them need         *)
(* induction.  It is done here by least counterexamples: a set of natural  *)
(* numbers, or of subsets of the finite set of validators, that is not     *)
(* empty has a least member (LeastNumber, LeastSubset), and the set of the *)
(* counterexamples to a lemma has none.                                    *)
(***************************************************************************)
EXTENDS BlockTimes, FiniteSetTheorems, TLAPS

(* Numbers are well founded.                                                *)
LEMMA LeastNumber ==
    ASSUME NEW T \in SUBSET Nat, T # {}
    PROVE  \E n \in T : \A k \in T : n <= k
<1>1. PICK n \in T : \A k \in T : ~(<<k, n>> \in OpToRel(<, Nat))
  BY NatLessThanWellFounded, WFMin
<1>2. ASSUME NEW k \in T  PROVE  ~(k < n)
  <2>1. <<k, n>> \notin OpToRel(<, Nat)
    BY <1>1
  <2>2. k \in Nat /\ n \in Nat
    OBVIOUS
  <2>3. <<k, n>> \in Nat \X Nat /\ <<k, n>>[1] = k /\ <<k, n>>[2] = n
    BY <2>2
  <2> QED
    BY <2>1, <2>3 DEF OpToRel
<1> QED
  BY <1>2

(* The subsets of a finite set are well founded.                            *)
LEMMA LeastSubset ==
    ASSUME NEW S, IsFiniteSet(S), NEW T \in SUBSET (SUBSET S), T # {}
    PROVE  \E s \in T : \A t \in T : t \subseteq s => t = s
<1>1. IsWellFoundedOn(StrictSubsetOrdering(S), SUBSET S)
  BY FS_StrictSubsetOrderingWellFounded, FS_FiniteSubsetsOfFinite
<1>2. PICK s \in T : \A t \in T : ~(<<t, s>> \in StrictSubsetOrdering(S))
  BY <1>1, WFMin
<1>3. \A t \in T : t \subseteq s => t = s
  BY <1>2 DEF StrictSubsetOrdering
<1> QED
  BY <1>3

-----------------------------------------------------------------------------
(* Power is a sum: it does not depend on the order in which it is taken.    *)

First(s) == CHOOSE v \in s : TRUE

(* f sums up the powers of every subset of S.                               *)
IsSum(f, S) ==
    f = [s \in SUBSET S |->
            IF s = {} THEN 0 ELSE VotingPower[First(s)] + f[s \ {First(s)}]]

SumOf(S) == CHOOSE f : IsSum(f, S)

LEMMA PowerIsSumOf ==
    ASSUME NEW S
    PROVE  Power(S) = SumOf(S)[S]
BY DEF Power, MapThenSumSet, MapThenFoldSet, SumOf, IsSum, First

LEMMA FirstIn ==
    ASSUME NEW s, s # {}
    PROVE  First(s) \in s
BY DEF First

LEMMA SumStep ==
    ASSUME NEW S, NEW f, IsSum(f, S), NEW s \in SUBSET S
    PROVE  f[s] = IF s = {} THEN 0 ELSE VotingPower[First(s)] + f[s \ {First(s)}]
<1> DEFINE g == [t \in SUBSET S |->
                    IF t = {} THEN 0 ELSE VotingPower[First(t)] + f[t \ {First(t)}]]
<1>1. f = g
  BY DEF IsSum
<1>2. g[s] = IF s = {} THEN 0 ELSE VotingPower[First(s)] + f[s \ {First(s)}]
  OBVIOUS
<1> HIDE DEF g
<1> QED
  BY <1>1, <1>2

(* Two sums agree on the sets that both of them sum up.                     *)
LEMMA SumUnique ==
    ASSUME NEW S \in SUBSET Validators, NEW U \in SUBSET S,
           NEW f, NEW g, IsSum(f, S), IsSum(g, U)
    PROVE  \A s \in SUBSET U : f[s] = g[s]
<1> SUFFICES ASSUME {s \in SUBSET U : f[s] # g[s]} # {}  PROVE FALSE
  OBVIOUS
<1> DEFINE Bad == {s \in SUBSET U : f[s] # g[s]}
<1>1. IsFiniteSet(U)
  BY BlockTimesAssumption, FS_Subset
<1>2. PICK s \in Bad : \A t \in Bad : t \subseteq s => t = s
  <2>1. Bad \in SUBSET (SUBSET U) /\ Bad # {}
    OBVIOUS
  <2> HIDE DEF Bad
  <2> QED
    BY <1>1, <2>1, LeastSubset
<1>3. s # {}
  BY <1>2, SumStep
<1>4. /\ f[s] = VotingPower[First(s)] + f[s \ {First(s)}]
      /\ g[s] = VotingPower[First(s)] + g[s \ {First(s)}]
  BY <1>3, SumStep
<1>5. s \ {First(s)} \in SUBSET U /\ s \ {First(s)} # s
  BY <1>3, FirstIn
<1>6. f[s \ {First(s)}] = g[s \ {First(s)}]
  BY <1>2, <1>5
<1> QED
  BY <1>2, <1>4, <1>6

(* Every set of validators has a sum.                                       *)
LEMMA SumExists ==
    ASSUME NEW S \in SUBSET Validators
    PROVE  IsSum(SumOf(S), S)
<1> DEFINE Bad == {T \in SUBSET Validators : ~IsSum(SumOf(T), T)}
<1> SUFFICES ASSUME Bad # {}  PROVE FALSE
  OBVIOUS
<1>1. PICK T \in Bad : \A U \in Bad : U \subseteq T => U = T
  <2>1. Bad \in SUBSET (SUBSET Validators)
    OBVIOUS
  <2> HIDE DEF Bad
  <2> QED
    BY <2>1, BlockTimesAssumption, LeastSubset
<1>0. T \in SUBSET Validators
  OBVIOUS
<1>2. \A U \in SUBSET T : U # T => IsSum(SumOf(U), U)
  BY <1>1
<1> HIDE DEF Bad
<1> DEFINE f == [s \in SUBSET T |->
                    IF s = {} THEN 0
                    ELSE VotingPower[First(s)] + SumOf(s \ {First(s)})[s \ {First(s)}]]
<1>3. ASSUME NEW s \in SUBSET T, s # {}
      PROVE  f[s \ {First(s)}] = SumOf(s \ {First(s)})[s \ {First(s)}]
  <2> DEFINE U == s \ {First(s)}
  <2>1. U \in SUBSET T /\ U # T
    BY <1>3, FirstIn
  <2>2. IsSum(SumOf(U), U)
    BY <1>2, <2>1
  <2> HIDE DEF U
  <2>3. CASE U = {}
    <3>1. SumOf(U)[U] = 0
      BY <2>2, <2>3, SumStep
    <3>2. f[U] = 0
      BY <2>1, <2>3
    <3> QED
      BY <3>1, <3>2 DEF U
  <2>4. CASE U # {}
    <3> DEFINE V == U \ {First(U)}
    <3>1. V \in SUBSET U /\ V \in SUBSET T /\ V # T
      BY <2>1, <2>4, FirstIn
    <3>2. IsSum(SumOf(V), V)
      BY <1>2, <3>1
    <3>3. U \in SUBSET Validators
      BY <2>1, <1>0
    <3>4. SumOf(U)[V] = SumOf(V)[V]
      BY <2>2, <3>1, <3>2, <3>3, SumUnique
    <3>5. SumOf(U)[U] = VotingPower[First(U)] + SumOf(U)[V]
      BY <2>2, <2>4, SumStep
    <3>6. f[U] = VotingPower[First(U)] + SumOf(V)[V]
      BY <2>1, <2>4
    <3> QED
      BY <3>4, <3>5, <3>6 DEF U
  <2> QED
    BY <2>3, <2>4
<1>4. f = [s \in SUBSET T |->
              IF s = {} THEN 0 ELSE VotingPower[First(s)] + f[s \ {First(s)}]]
  BY <1>3
<1> HIDE DEF f
<1>5. IsSum(f, T)
  BY <1>4 DEF IsSum
<1>6. IsSum(SumOf(T), T)
  BY <1>5 DEF SumOf
<1> QED
  BY <1>1, <1>6 DEF Bad

(* Power unfolds as its definition says.                                    *)
LEMMA PowerUnfold ==
    ASSUME NEW S \in SUBSET Validators
    PROVE  Power(S) = IF S = {} THEN 0
                      ELSE VotingPower[First(S)] + Power(S \ {First(S)})
<1>1. SumOf(S)[S] = IF S = {} THEN 0
                    ELSE VotingPower[First(S)] + SumOf(S)[S \ {First(S)}]
  BY SumExists, SumStep
<1>2. SumOf(S)[S \ {First(S)}] = SumOf(S \ {First(S)})[S \ {First(S)}]
  BY SumExists, SumUnique
<1> QED
  BY <1>1, <1>2, PowerIsSumOf

LEMMA PowerType ==
    ASSUME NEW S \in SUBSET Validators
    PROVE  Power(S) \in Nat
<1> DEFINE Bad == {T \in SUBSET Validators : Power(T) \notin Nat}
<1> SUFFICES ASSUME Bad # {}  PROVE FALSE
  OBVIOUS
<1>1. PICK T \in Bad : \A U \in Bad : U \subseteq T => U = T
  <2>1. Bad \in SUBSET (SUBSET Validators)
    OBVIOUS
  <2> HIDE DEF Bad
  <2> QED
    BY <2>1, BlockTimesAssumption, LeastSubset
<1>2. T # {} /\ Power(T) = VotingPower[First(T)] + Power(T \ {First(T)})
  BY <1>1, PowerUnfold
<1>3. First(T) \in T
  BY <1>2, FirstIn
<1>4. VotingPower[First(T)] \in Nat
  BY <1>1, <1>3, BlockTimesAssumption
<1>5. Power(T \ {First(T)}) \in Nat
  BY <1>1, <1>3
<1> QED
  BY <1>1, <1>2, <1>4, <1>5

(* Any member can be taken out of the sum.                                  *)
LEMMA PowerRemove ==
    ASSUME NEW S \in SUBSET Validators, NEW v \in S
    PROVE  Power(S) = VotingPower[v] + Power(S \ {v})
<1> DEFINE Bad == {T \in SUBSET Validators :
                       \E u \in T : Power(T) # VotingPower[u] + Power(T \ {u})}
<1> SUFFICES ASSUME Bad # {}  PROVE FALSE
  OBVIOUS
<1>1. PICK T \in Bad : \A U \in Bad : U \subseteq T => U = T
  <2>1. Bad \in SUBSET (SUBSET Validators)
    OBVIOUS
  <2> HIDE DEF Bad
  <2> QED
    BY <2>1, BlockTimesAssumption, LeastSubset
<1>2. PICK u \in T : Power(T) # VotingPower[u] + Power(T \ {u})
  OBVIOUS
<1> DEFINE w == First(T)
<1>3. w \in T /\ Power(T) = VotingPower[w] + Power(T \ {w})
  BY PowerUnfold, FirstIn
<1> HIDE DEF w
<1>4. w # u
  BY <1>2, <1>3
<1>5. \A U \in SUBSET T : \A x \in U :
          U # T => Power(U) = VotingPower[x] + Power(U \ {x})
  BY <1>1
<1>6. T \in SUBSET Validators
  OBVIOUS
<1> HIDE DEF Bad
<1>7. Power(T \ {w}) = VotingPower[u] + Power((T \ {w}) \ {u})
  BY <1>2, <1>3, <1>4, <1>5
<1>8. Power(T \ {u}) = VotingPower[w] + Power((T \ {u}) \ {w})
  BY <1>2, <1>3, <1>4, <1>5
<1>9. (T \ {u}) \ {w} = (T \ {w}) \ {u}
  OBVIOUS
<1>10. VotingPower[u] \in Nat /\ VotingPower[w] \in Nat
  BY <1>2, <1>3, <1>6, BlockTimesAssumption
<1>11. Power((T \ {w}) \ {u}) \in Nat
  BY <1>6, PowerType
<1>12. Power(T) = VotingPower[w] + (VotingPower[u] + Power((T \ {w}) \ {u}))
  BY <1>3, <1>7
<1>13. Power(T \ {u}) = VotingPower[w] + Power((T \ {w}) \ {u})
  BY <1>8, <1>9
<1>14. Power(T) = VotingPower[u] + Power(T \ {u})
  <2> DEFINE x == Power((T \ {w}) \ {u})
             a == VotingPower[u]
             b == VotingPower[w]
  <2>1. a \in Nat /\ b \in Nat /\ x \in Nat
    BY <1>10, <1>11
  <2>2. Power(T) = b + (a + x) /\ Power(T \ {u}) = b + x
    BY <1>12, <1>13
  <2> HIDE DEF x, a, b
  <2>3. Power(T) = a + Power(T \ {u})
    BY <2>1, <2>2
  <2> QED
    BY <2>3 DEF a
<1> QED
  BY <1>2, <1>14

(* Disjoint sets add up.                                                    *)
LEMMA PowerUnion ==
    ASSUME NEW A \in SUBSET Validators, NEW B \in SUBSET Validators, A \cap B = {}
    PROVE  Power(A \cup B) = Power(A) + Power(B)
<1> DEFINE Bad == {T \in SUBSET Validators :
                       T \cap B = {} /\ Power(T \cup B) # Power(T) + Power(B)}
<1> SUFFICES ASSUME Bad # {}  PROVE FALSE
  OBVIOUS
<1>1. PICK T \in Bad : \A U \in Bad : U \subseteq T => U = T
  <2>1. Bad \in SUBSET (SUBSET Validators)
    OBVIOUS
  <2> HIDE DEF Bad
  <2> QED
    BY <2>1, BlockTimesAssumption, LeastSubset
<1>2. Power({}) = 0 /\ Power(B) \in Nat
  BY PowerUnfold, PowerType
<1>3. {} \cup B = B
  OBVIOUS
<1>4. PICK v \in T : TRUE
  BY <1>2, <1>3
<1>5. Power(T) = VotingPower[v] + Power(T \ {v})
  BY PowerRemove
<1>6. Power(T \cup B) = VotingPower[v] + Power((T \cup B) \ {v})
  <2>1. T \cup B \in SUBSET Validators /\ v \in T \cup B
    OBVIOUS
  <2> QED
    BY <2>1, PowerRemove
<1>7. (T \cup B) \ {v} = (T \ {v}) \cup B
  OBVIOUS
<1>8. Power((T \ {v}) \cup B) = Power(T \ {v}) + Power(B)
  BY <1>1, <1>4
<1>9. Power(T) # Power(T \cup B) - Power(B)
  <2>1. Power(T \cup B) # Power(T) + Power(B)
    OBVIOUS
  <2>2. Power(T) \in Nat /\ Power(T \cup B) \in Nat
    BY PowerType
  <2> QED
    BY <2>1, <2>2, <1>2
<1>10. VotingPower[v] \in Nat /\ Power(T \ {v}) \in Nat
  BY PowerType, BlockTimesAssumption
<1> HIDE DEF Bad
<1>11. Power(T \cup B) = VotingPower[v] + (Power(T \ {v}) + Power(B))
  BY <1>6, <1>7, <1>8
<1> QED
  BY <1>2, <1>5, <1>9, <1>10, <1>11

LEMMA PowerMonotone ==
    ASSUME NEW B \in SUBSET Validators, NEW A \in SUBSET B
    PROVE  Power(A) <= Power(B)
<1>1. A \cup (B \ A) = B /\ A \cap (B \ A) = {}
  OBVIOUS
<1>2. Power(B) = Power(A) + Power(B \ A)
  BY <1>1, PowerUnion
<1>3. Power(A) \in Nat /\ Power(B \ A) \in Nat
  BY PowerType
<1> QED
  BY <1>2, <1>3

-----------------------------------------------------------------------------
(* The signatures of a commit can be sorted by time.                        *)

LEMMA CommitType ==
    ASSUME NEW commit \in Commits
    PROVE  /\ DOMAIN commit \in SUBSET Validators
           /\ commit \in [DOMAIN commit -> [time : Times, forBlock : BOOLEAN]]
           /\ IsFiniteSet(DOMAIN commit)
           /\ Cardinality(DOMAIN commit) \in Nat
           /\ \A v \in DOMAIN commit :
                  commit[v].time \in Nat /\ commit[v].time <= MaxTime
<1>1. PICK S \in SUBSET Validators :
          commit \in [S -> [time : Times, forBlock : BOOLEAN]]
  BY DEF Commits
<1>2. DOMAIN commit = S
  BY <1>1
<1>3. IsFiniteSet(S) /\ Cardinality(S) \in Nat
  BY BlockTimesAssumption, FS_Subset, FS_CardinalityType
<1>4. \A v \in S : commit[v].time \in Times
  BY <1>1
<1>5. \A t \in Times : t \in Nat /\ t <= MaxTime
  BY BlockTimesAssumption DEF Times
<1> QED
  BY <1>1, <1>2, <1>3, <1>4, <1>5

(* Some signature is the last.                                              *)
LEMMA LastSignature ==
    ASSUME NEW commit \in Commits, NEW S \in SUBSET DOMAIN commit, S # {}
    PROVE  \E m \in S : \A v \in S : commit[v].time <= commit[m].time
<1> DEFINE Behind == {MaxTime - commit[v].time : v \in S}
<1>1. \A v \in S : commit[v].time \in Nat /\ MaxTime - commit[v].time \in Nat
  BY CommitType, BlockTimesAssumption
<1>2. Behind \in SUBSET Nat /\ Behind # {}
  BY <1>1
<1>3. PICK b \in Behind : \A k \in Behind : b <= k
  <2> HIDE DEF Behind
  <2> QED
    BY <1>2, LeastNumber
<1>4. PICK m \in S : b = MaxTime - commit[m].time
  OBVIOUS
<1>5. \A v \in S : MaxTime - commit[m].time <= MaxTime - commit[v].time
  BY <1>3, <1>4
<1> QED
  BY <1>1, <1>5, BlockTimesAssumption

LEMMA ByTimeType ==
    ASSUME NEW commit \in Commits, NEW order \in ByTime(commit)
    PROVE  /\ order \in [1..Cardinality(DOMAIN commit) -> DOMAIN commit]
           /\ \A i, j \in 1..Cardinality(DOMAIN commit) :
                  order[i] = order[j] => i = j
           /\ \A v \in DOMAIN commit :
                  \E i \in 1..Cardinality(DOMAIN commit) : order[i] = v
           /\ \A i, j \in 1..Cardinality(DOMAIN commit) :
                  i <= j => commit[order[i]].time <= commit[order[j]].time
<1> DEFINE n == Cardinality(DOMAIN commit)
<1>1. order \in [1..n -> DOMAIN commit]
  BY DEF ByTime, Bijection, Injection
<1>2. \A i, j \in 1..n : order[i] = order[j] => i = j
  BY <1>1 DEF ByTime, Bijection, Injection, IsInjective
<1>3. \A v \in DOMAIN commit : \E i \in 1..n : order[i] = v
  BY DEF ByTime, Bijection, Surjection
<1>4. ASSUME NEW i \in 1..n, NEW j \in 1..n, i <= j
      PROVE  commit[order[i]].time <= commit[order[j]].time
  <2>1. n \in Nat /\ commit[order[i]].time \in Nat
    BY <1>1, CommitType
  <2>2. CASE i = j
    BY <2>1, <2>2
  <2>3. CASE i < j
    BY <1>1, <2>3 DEF ByTime
  <2> QED
    BY <1>4, <2>1, <2>2, <2>3
<1> QED
  BY <1>1, <1>2, <1>3, <1>4

(* A signature that is not before any other can come last.                  *)
LEMMA AppendLast ==
    ASSUME NEW commit \in Commits, NEW m \in DOMAIN commit,
           \A v \in DOMAIN commit : commit[v].time <= commit[m].time,
           ByTime([v \in DOMAIN commit \ {m} |-> commit[v]]) # {}
    PROVE  ByTime(commit) # {}
<1> DEFINE rest == [v \in DOMAIN commit \ {m} |-> commit[v]]
           n == Cardinality(DOMAIN rest)
<1>1. DOMAIN rest = DOMAIN commit \ {m}
  OBVIOUS
<1>2. n \in Nat /\ Cardinality(DOMAIN commit) = n + 1
  <2>1. IsFiniteSet(DOMAIN commit) /\ Cardinality(DOMAIN commit) \in Nat
    BY CommitType
  <2>2. /\ IsFiniteSet(DOMAIN commit \ {m})
        /\ Cardinality(DOMAIN commit \ {m}) = Cardinality(DOMAIN commit) - 1
    BY <2>1, FS_RemoveElement
  <2>3. Cardinality(DOMAIN commit \ {m}) \in Nat
    BY <2>2, FS_CardinalityType
  <2>4. n = Cardinality(DOMAIN commit \ {m})
    BY <1>1
  <2> HIDE DEF n
  <2> QED
    BY <2>1, <2>2, <2>3, <2>4
<1>3. rest \in Commits
  <2>1. DOMAIN commit \ {m} \in SUBSET Validators
    BY CommitType
  <2>2. rest \in [DOMAIN commit \ {m} -> [time : Times, forBlock : BOOLEAN]]
    BY CommitType
  <2> HIDE DEF rest
  <2> QED
    BY <2>1, <2>2 DEF Commits
<1>4. PICK o \in ByTime(rest) : TRUE
  OBVIOUS
<1>5. /\ o \in [1..n -> DOMAIN rest]
      /\ \A i, j \in 1..n : o[i] = o[j] => i = j
      /\ \A v \in DOMAIN rest : \E i \in 1..n : o[i] = v
      /\ \A i, j \in 1..n : i <= j => rest[o[i]].time <= rest[o[j]].time
  <2> HIDE DEF rest
  <2> QED
    BY <1>3, ByTimeType
<1> HIDE DEF n
<1> DEFINE order == [i \in 1..(n + 1) |-> IF i \in 1..n THEN o[i] ELSE m]
<1>6. /\ \A i \in 1..n : order[i] = o[i] /\ o[i] \in DOMAIN commit /\ o[i] # m
      /\ order[n + 1] = m
      /\ \A i \in 1..(n + 1) : i \in 1..n \/ i = n + 1
      /\ \A i \in 1..n : i \in 1..(n + 1) /\ i < n + 1
  BY <1>1, <1>2, <1>5
<1>7. order \in [1..(n + 1) -> DOMAIN commit] /\ DOMAIN order = 1..(n + 1)
  BY <1>6
<1>8. n + 1 \in 1..(n + 1)
  BY <1>2
<1> HIDE DEF order
<1>9. \A i, j \in 1..(n + 1) : order[i] = order[j] => i = j
  BY <1>5, <1>6
<1>10. \A v \in DOMAIN commit : \E i \in 1..(n + 1) : order[i] = v
  BY <1>1, <1>5, <1>6, <1>8
<1>11. ASSUME NEW i \in 1..(n + 1), NEW j \in 1..(n + 1), i < j
       PROVE  commit[order[i]].time <= commit[order[j]].time
  <2>1. i \in 1..n
    BY <1>2, <1>11
  <2>2. CASE j \in 1..n
    <3>0. i <= j
      BY <1>2, <1>11
    <3>1. rest[o[i]].time <= rest[o[j]].time
      <4> HIDE DEF rest
      <4> QED
        BY <1>5, <2>1, <2>2, <3>0
    <3>2. rest[o[i]] = commit[o[i]] /\ rest[o[j]] = commit[o[j]]
      BY <1>5, <2>1, <2>2
    <3> QED
      BY <1>6, <2>1, <2>2, <3>1, <3>2
  <2>3. CASE j = n + 1
    BY <1>6, <2>1, <2>3
  <2> QED
    BY <1>6, <2>2, <2>3
<1>12. order \in Bijection(1..(n + 1), DOMAIN commit)
  BY <1>7, <1>9, <1>10 DEF Bijection, Injection, Surjection, IsInjective
<1>13. order \in ByTime(commit)
  BY <1>2, <1>7, <1>11, <1>12 DEF ByTime
<1> QED
  BY <1>13

LEMMA SortedOrderExists ==
    ASSUME NEW commit \in Commits
    PROVE  ByTime(commit) # {}
<1> DEFINE Bad == {T \in SUBSET Validators :
                       \E c \in Commits : DOMAIN c = T /\ ByTime(c) = {}}
<1> SUFFICES ASSUME Bad # {}  PROVE FALSE
  BY CommitType
<1>1. PICK T \in Bad : \A U \in Bad : U \subseteq T => U = T
  <2>1. Bad \in SUBSET (SUBSET Validators)
    OBVIOUS
  <2> HIDE DEF Bad
  <2> QED
    BY <2>1, BlockTimesAssumption, LeastSubset
<1>2. PICK c \in Commits : DOMAIN c = T /\ ByTime(c) = {}
  OBVIOUS
<1>3. CASE T = {}
  <2> DEFINE order == [i \in 1..0 |-> 0]
  <2>1. Cardinality(DOMAIN c) = 0
    BY <1>2, <1>3, FS_EmptySet
  <2>2. order \in Bijection(1..0, DOMAIN c) /\ DOMAIN order = {}
    BY <1>2, <1>3 DEF Bijection, Injection, Surjection, IsInjective
  <2> HIDE DEF order
  <2>3. order \in ByTime(c)
    BY <2>1, <2>2 DEF ByTime
  <2> QED
    BY <1>2, <2>3
<1>4. CASE T # {}
  <2>1. PICK m \in DOMAIN c : \A v \in DOMAIN c : c[v].time <= c[m].time
    BY <1>2, <1>4, LastSignature
  <2> DEFINE rest == [v \in DOMAIN c \ {m} |-> c[v]]
  <2>2. DOMAIN rest = T \ {m} /\ m \in T
    BY <1>2
  <2>3. rest \in Commits
    <3>1. DOMAIN c \ {m} \in SUBSET Validators
      BY <1>2, CommitType
    <3>2. rest \in [DOMAIN c \ {m} -> [time : Times, forBlock : BOOLEAN]]
      BY <1>2, CommitType
    <3> HIDE DEF rest
    <3> QED
      BY <3>1, <3>2 DEF Commits
  <2>4. ByTime(rest) # {}
    BY <1>1, <2>2, <2>3
  <2> QED
    BY <1>2, <2>1, <2>4, AppendLast
<1> QED
  BY <1>3, <1>4

-----------------------------------------------------------------------------
(* The loop of weightedMedian: what is left after i signatures is half of   *)
(* the power less theirs, so it stops at the first one by which half of the *)
(* power has signed.                                                        *)

UpTo(order, i) == {order[j] : j \in 1..i}

Half(commit) == Power(DOMAIN commit) \div 2

(* f satisfies the recursion of left.                                       *)
IsLeft(f, commit, order) ==
    f = [i \in 0..Cardinality(DOMAIN commit) |->
            IF i = 0 THEN Power(DOMAIN commit) \div 2
            ELSE f[i - 1] - VotingPower[order[i]]]

LEMMA HalfType ==
    ASSUME NEW commit \in Commits
    PROVE  Half(commit) \in Nat /\ Half(commit) <= Power(DOMAIN commit)
<1>1. Power(DOMAIN commit) \in Nat
  BY CommitType, PowerType
<1> QED
  BY <1>1 DEF Half

LEMMA UpToStep ==
    ASSUME NEW commit \in Commits, NEW order \in ByTime(commit),
           NEW i \in 1..Cardinality(DOMAIN commit)
    PROVE  /\ UpTo(order, i) \in SUBSET Validators
           /\ UpTo(order, i - 1) \in SUBSET Validators
           /\ Power(UpTo(order, i)) = VotingPower[order[i]] + Power(UpTo(order, i - 1))
           /\ VotingPower[order[i]] \in Nat
<1> DEFINE n == Cardinality(DOMAIN commit)
<1>1. n \in Nat /\ DOMAIN commit \in SUBSET Validators
  BY CommitType
<1>2. /\ order \in [1..n -> DOMAIN commit]
      /\ \A j, k \in 1..n : order[j] = order[k] => j = k
  BY ByTimeType
<1> HIDE DEF n
<1>3. i \in 1..n
  BY DEF n
<1>4. 1..i \subseteq 1..n /\ 1..i = 1..(i - 1) \cup {i} /\ i \notin 1..(i - 1)
  BY <1>1, <1>3
<1>5. UpTo(order, i) \in SUBSET Validators
  BY <1>1, <1>2, <1>4 DEF UpTo
<1>6. UpTo(order, i - 1) = UpTo(order, i) \ {order[i]} /\ order[i] \in UpTo(order, i)
  BY <1>2, <1>3, <1>4 DEF UpTo
<1>7. Power(UpTo(order, i)) = VotingPower[order[i]] + Power(UpTo(order, i - 1))
  BY <1>5, <1>6, PowerRemove
<1>8. VotingPower[order[i]] \in Nat
  BY <1>5, <1>6, BlockTimesAssumption
<1> QED
  BY <1>5, <1>6, <1>7, <1>8

LEMMA LeftStep ==
    ASSUME NEW commit, NEW order, NEW f, IsLeft(f, commit, order),
           NEW i \in 0..Cardinality(DOMAIN commit)
    PROVE  f[i] = IF i = 0 THEN Half(commit) ELSE f[i - 1] - VotingPower[order[i]]
<1> DEFINE g == [j \in 0..Cardinality(DOMAIN commit) |->
                    IF j = 0 THEN Power(DOMAIN commit) \div 2
                    ELSE f[j - 1] - VotingPower[order[j]]]
<1>1. f = g
  BY DEF IsLeft
<1>2. g[i] = IF i = 0 THEN Half(commit) ELSE f[i - 1] - VotingPower[order[i]]
  BY DEF Half
<1> HIDE DEF g
<1> QED
  BY <1>1, <1>2

LEMMA LeftExists ==
    ASSUME NEW commit \in Commits, NEW order \in ByTime(commit)
    PROVE  IsLeft(Left(commit, order), commit, order)
<1> DEFINE n == Cardinality(DOMAIN commit)
           f == [i \in 0..n |-> Half(commit) - Power(UpTo(order, i))]
<1>1. n \in Nat /\ Half(commit) \in Nat
  BY CommitType, HalfType
<1>2. f[0] = Power(DOMAIN commit) \div 2
  <2>1. UpTo(order, 0) = {}
    BY DEF UpTo
  <2>2. Power(UpTo(order, 0)) = 0
    BY <2>1, PowerUnfold
  <2>3. f[0] = Half(commit) - Power(UpTo(order, 0))
    BY <1>1
  <2> HIDE DEF f
  <2>4. f[0] = Half(commit)
    BY <1>1, <2>2, <2>3
  <2> QED
    BY <2>4 DEF Half
<1>3. ASSUME NEW i \in 0..n, i # 0
      PROVE  f[i] = f[i - 1] - VotingPower[order[i]]
  <2>1. i \in 1..n /\ i - 1 \in 0..n
    BY <1>1, <1>3
  <2>2. /\ Power(UpTo(order, i)) = VotingPower[order[i]] + Power(UpTo(order, i - 1))
        /\ VotingPower[order[i]] \in Nat
        /\ Power(UpTo(order, i - 1)) \in Nat
    BY <2>1, UpToStep, PowerType
  <2>3. /\ f[i] = Half(commit) - Power(UpTo(order, i))
        /\ f[i - 1] = Half(commit) - Power(UpTo(order, i - 1))
    BY <2>1
  <2> HIDE DEF f, n
  <2> QED
    BY <1>1, <2>2, <2>3
<1>4. f = [i \in 0..n |-> IF i = 0 THEN Power(DOMAIN commit) \div 2
                          ELSE f[i - 1] - VotingPower[order[i]]]
  BY <1>2, <1>3
<1> HIDE DEF f
<1>5. IsLeft(f, commit, order)
  BY <1>4 DEF IsLeft
<1> QED
  BY <1>5 DEF Left, IsLeft

LEMMA LeftIs ==
    ASSUME NEW commit \in Commits, NEW order \in ByTime(commit),
           NEW i \in 0..Cardinality(DOMAIN commit)
    PROVE  Left(commit, order)[i] = Half(commit) - Power(UpTo(order, i))
<1> DEFINE n == Cardinality(DOMAIN commit)
           left == Left(commit, order)
           Bad == {k \in 0..n : left[k] # Half(commit) - Power(UpTo(order, k))}
<1> SUFFICES ASSUME Bad # {}  PROVE FALSE
  OBVIOUS
<1>1. n \in Nat /\ Half(commit) \in Nat
  BY CommitType, HalfType
<1>2. PICK k \in Bad : \A j \in Bad : k <= j
  <2>1. Bad \in SUBSET Nat
    BY <1>1
  <2> HIDE DEF Bad
  <2> QED
    BY <2>1, LeastNumber
<1>3. k \in 0..n /\ left[k] # Half(commit) - Power(UpTo(order, k))
  OBVIOUS
<1>4. left[k] = IF k = 0 THEN Half(commit) ELSE left[k - 1] - VotingPower[order[k]]
  BY <1>3, LeftExists, LeftStep
<1>5. CASE k = 0
  <2>1. UpTo(order, k) = {}
    BY <1>5 DEF UpTo
  <2>2. Power(UpTo(order, k)) = 0
    BY <2>1, PowerUnfold
  <2> HIDE DEF left
  <2> QED
    BY <1>1, <1>3, <1>4, <1>5, <2>2
<1>6. CASE k # 0
  <2>1. k \in 1..n /\ k - 1 \in 0..n /\ ~(k <= k - 1)
    BY <1>1, <1>3, <1>6
  <2>2. left[k - 1] = Half(commit) - Power(UpTo(order, k - 1))
    BY <1>2, <2>1
  <2>3. /\ Power(UpTo(order, k)) = VotingPower[order[k]] + Power(UpTo(order, k - 1))
        /\ VotingPower[order[k]] \in Nat
        /\ Power(UpTo(order, k - 1)) \in Nat
    BY <2>1, UpToStep, PowerType
  <2> HIDE DEF left, Bad, n
  <2> QED
    BY <1>1, <1>3, <1>4, <1>6, <2>2, <2>3
<1> QED
  BY <1>5, <1>6

LEMMA MinIs ==
    ASSUME NEW S, NEW m \in S, S \in SUBSET Int, \A x \in S : m <= x
    PROVE  Min(S) = m
<1>1. \A y \in S : (\A x \in S : y <= x) => y = m
  OBVIOUS
<1> QED
  BY <1>1 DEF Min

(* The signatures of a commit that are not after t.                         *)
SignedBy(commit, t) == {v \in DOMAIN commit : commit[v].time <= t}

SignatureTimes(commit) == {commit[v].time : v \in DOMAIN commit}

(* t is the least time of a signature by which half of the power has signed. *)
IsMedian(t, commit) ==
    /\ t \in SignatureTimes(commit)
    /\ Power(SignedBy(commit, t)) >= Half(commit)
    /\ \A s \in SignatureTimes(commit) : Power(SignedBy(commit, s)) >= Half(commit) => t <= s

LEMMA ReferenceIsMedian ==
    ASSUME NEW commit \in Commits, NEW t, IsMedian(t, commit)
    PROVE  ReferenceMedian(commit) = t
<1> DEFINE S == {s \in SignatureTimes(commit) :
                     Power(SignedBy(commit, s)) >= Half(commit)}
<1>1. S \in SUBSET Int
  BY CommitType DEF SignatureTimes
<1>2. t \in S /\ \A x \in S : t <= x
  BY DEF IsMedian
<1>3. ReferenceMedian(commit) = Min(S)
  BY DEF ReferenceMedian, SignatureTimes, SignedBy, Half
<1> HIDE DEF S
<1> QED
  BY <1>1, <1>2, <1>3, MinIs

(* All that have signed are covered in the end.                             *)
LEMMA UpToAll ==
    ASSUME NEW commit \in Commits, NEW order \in ByTime(commit)
    PROVE  UpTo(order, Cardinality(DOMAIN commit)) = DOMAIN commit
<1> DEFINE n == Cardinality(DOMAIN commit)
<1>1. order \in [1..n -> DOMAIN commit]
  BY ByTimeType
<1>2. \A v \in DOMAIN commit : \E i \in 1..n : order[i] = v
  BY ByTimeType
<1> HIDE DEF n
<1>3. {order[j] : j \in 1..n} = DOMAIN commit
  BY <1>1, <1>2
<1> QED
  BY <1>3 DEF UpTo, n

(* The loop finds the median, however it sorts signatures of equal time.    *)
LEMMA LoopFindsMedian ==
    ASSUME NEW commit \in Commits, DOMAIN commit # {}, NEW order \in ByTime(commit)
    PROVE  IsMedian(WeightedMedian(commit, order), commit)
<1> DEFINE n == Cardinality(DOMAIN commit)
           left == Left(commit, order)
           covering == {i \in DOMAIN order : left[i - 1] <= VotingPower[order[i]]}
<1>1. /\ n \in Nat /\ Half(commit) \in Nat
      /\ Half(commit) <= Power(DOMAIN commit)
  BY CommitType, HalfType
<1>2. n # 0
  BY CommitType, FS_EmptySet
<1>3. /\ order \in [1..n -> DOMAIN commit]
      /\ \A v \in DOMAIN commit : \E i \in 1..n : order[i] = v
      /\ \A i, j \in 1..n : i <= j => commit[order[i]].time <= commit[order[j]].time
  BY ByTimeType
<1>4. DOMAIN order = 1..n
  BY <1>3
<1>5. ASSUME NEW i \in 1..n
      PROVE  i \in covering <=> Half(commit) <= Power(UpTo(order, i))
  <2>1. i - 1 \in 0..n
    BY <1>1
  <2>2. left[i - 1] = Half(commit) - Power(UpTo(order, i - 1))
    BY <2>1, LeftIs
  <2>3. /\ Power(UpTo(order, i)) = VotingPower[order[i]] + Power(UpTo(order, i - 1))
        /\ VotingPower[order[i]] \in Nat
        /\ Power(UpTo(order, i - 1)) \in Nat
    BY UpToStep, PowerType
  <2>4. i \in covering <=> left[i - 1] <= VotingPower[order[i]]
    BY <1>4
  <2> HIDE DEF left, n, covering
  <2> QED
    BY <1>1, <2>2, <2>3, <2>4
<1>6. n \in covering
  <2>1. n \in 1..n
    BY <1>1, <1>2
  <2>2. Power(UpTo(order, n)) = Power(DOMAIN commit)
    BY UpToAll
  <2> HIDE DEF covering
  <2> QED
    BY <1>1, <1>5, <2>1, <2>2
<1>7. covering \in SUBSET (1..n)
  BY <1>4
<1>8. WeightedMedian(commit, order) =
          IF covering = {} THEN 0 ELSE commit[order[Min(covering)]].time
  BY DEF WeightedMedian
<1> HIDE DEF covering, left, n
<1>9. PICK k \in covering : \A i \in covering : k <= i
  <2>1. covering \in SUBSET Nat
    BY <1>1, <1>7
  <2> QED
    BY <1>6, <2>1, LeastNumber
<1>10. Min(covering) = k
  <2>1. covering \in SUBSET Int
    BY <1>1, <1>7
  <2> QED
    BY <1>9, <2>1, MinIs
<1> DEFINE t == commit[order[k]].time
<1>11. WeightedMedian(commit, order) = t
  BY <1>6, <1>8, <1>10
<1>12. k \in 1..n /\ order[k] \in DOMAIN commit
  BY <1>3, <1>7
<1>13. \A v \in DOMAIN commit : commit[v].time \in Nat
  BY CommitType
<1>14. Power(SignedBy(commit, t)) >= Half(commit)
  <2>1. UpTo(order, k) \in SUBSET SignedBy(commit, t)
    BY <1>1, <1>3, <1>12 DEF UpTo, SignedBy
  <2>2. SignedBy(commit, t) \in SUBSET Validators
    BY CommitType DEF SignedBy
  <2>3. Power(UpTo(order, k)) <= Power(SignedBy(commit, t))
    BY <2>1, <2>2, PowerMonotone
  <2>4. Half(commit) <= Power(UpTo(order, k))
    BY <1>5, <1>12
  <2>5. Power(UpTo(order, k)) \in Nat /\ Power(SignedBy(commit, t)) \in Nat
    BY <2>1, <2>2, PowerType
  <2> QED
    BY <1>1, <2>3, <2>4, <2>5
<1>15. ASSUME NEW s \in SignatureTimes(commit), Power(SignedBy(commit, s)) >= Half(commit)
       PROVE  t <= s
  <2> SUFFICES ASSUME s < t  PROVE FALSE
    BY <1>12, <1>13 DEF SignatureTimes
  <2>1. s \in Nat /\ t \in Nat
    BY <1>12, <1>13 DEF SignatureTimes
  <2>2. \A i \in 1..n : commit[order[i]].time <= s => i \in 1..(k - 1)
    <3>1. ASSUME NEW i \in 1..n, commit[order[i]].time <= s
          PROVE  ~(k <= i)
      <4>1. commit[order[i]].time \in Nat
        BY <1>3, <1>13
      <4>2. k <= i => t <= commit[order[i]].time
        BY <1>3, <1>12
      <4> QED
        BY <2>1, <3>1, <4>1, <4>2
    <3> QED
      BY <1>1, <1>12, <3>1
  <2>3. SignedBy(commit, s) \in SUBSET UpTo(order, k - 1)
    BY <1>3, <2>2 DEF SignedBy, UpTo
  <2>4. CASE k = 1
    <3>1. SignedBy(commit, s) = {}
      BY <2>3, <2>4 DEF UpTo
    <3>2. PICK v \in DOMAIN commit : commit[v].time = s
      BY DEF SignatureTimes
    <3>3. v \in SignedBy(commit, s)
      BY <2>1, <3>2 DEF SignedBy
    <3> QED
      BY <3>1, <3>3
  <2>5. CASE k # 1
    <3>1. k - 1 \in 1..n /\ ~(k <= k - 1)
      BY <1>1, <1>12, <2>5
    <3>2. UpTo(order, k - 1) \in SUBSET Validators
      BY <1>12, UpToStep DEF n
    <3>3. /\ Power(SignedBy(commit, s)) <= Power(UpTo(order, k - 1))
          /\ Power(SignedBy(commit, s)) \in Nat
          /\ Power(UpTo(order, k - 1)) \in Nat
      BY <2>3, <3>2, PowerMonotone, PowerType
    <3>4. Half(commit) <= Power(UpTo(order, k - 1))
      BY <1>1, <1>15, <3>3
    <3> QED
      BY <1>5, <1>9, <3>1, <3>4
  <2> QED
    BY <2>4, <2>5
<1>16. t \in SignatureTimes(commit)
  BY <1>12 DEF SignatureTimes
<1> HIDE DEF t
<1> QED
  BY <1>11, <1>14, <1>15, <1>16 DEF IsMedian

(* MedianTime is the median, and all orders give the same.                  *)
LEMMA MedianTimeIsMedian ==
    ASSUME NEW commit \in Commits, DOMAIN commit # {}
    PROVE  /\ IsMedian(MedianTime(commit), commit)
           /\ MedianTime(commit) = ReferenceMedian(commit)
           /\ \A order \in ByTime(commit) :
                  WeightedMedian(commit, order) = MedianTime(commit)
<1>1. (CHOOSE order \in ByTime(commit) : TRUE) \in ByTime(commit)
  BY SortedOrderExists
<1>2. IsMedian(MedianTime(commit), commit)
  BY <1>1, LoopFindsMedian DEF MedianTime
<1>3. \A order \in ByTime(commit) :
          WeightedMedian(commit, order) = ReferenceMedian(commit)
  BY LoopFindsMedian, ReferenceIsMedian
<1>4. MedianTime(commit) = ReferenceMedian(commit)
  BY <1>2, ReferenceIsMedian
<1> QED
  BY <1>2, <1>3, <1>4

-----------------------------------------------------------------------------
(* What the median says of the honest times.                                *)

LEMMA HalfOf ==
    ASSUME NEW commit \in Commits
    PROVE  /\ Power(DOMAIN commit) = Power(DOMAIN commit \cap Correct)
                                       + Power(DOMAIN commit \ Correct)
           /\ Power(DOMAIN commit \cap Correct) \in Nat
           /\ Power(DOMAIN commit \ Correct) \in Nat
<1> DEFINE honest == DOMAIN commit \cap Correct
           faulty == DOMAIN commit \ Correct
<1>1. honest \in SUBSET Validators /\ faulty \in SUBSET Validators
  BY CommitType
<1>2. honest \cup faulty = DOMAIN commit /\ honest \cap faulty = {}
  OBVIOUS
<1>3. Power(honest \cup faulty) = Power(honest) + Power(faulty)
  <2> HIDE DEF honest, faulty
  <2> QED
    BY <1>1, <1>2, PowerUnion
<1> QED
  BY <1>1, <1>2, <1>3, PowerType

(* A commit that passes VerifyCommit has more correct than faulty power.    *)
LEMMA HonestMajority ==
    ASSUME NEW commit \in Commits, VerifyCommit(commit)
    PROVE  Power(DOMAIN commit \cap Correct) > Power(DOMAIN commit \ Correct)
<1> DEFINE signers == {v \in DOMAIN commit : commit[v].forBlock}
<1>1. DOMAIN commit \in SUBSET Validators /\ signers \in SUBSET DOMAIN commit
  BY CommitType
<1>2. /\ Power(signers) <= Power(DOMAIN commit)
      /\ Power(signers) \in Nat
      /\ Power(DOMAIN commit) \in Nat
  BY <1>1, PowerMonotone, PowerType
<1>3. 3 * Power(signers) > 2 * Power(Validators)
  BY DEF VerifyCommit
<1>4. Power(DOMAIN commit \ Correct) <= Power(Validators \ Correct)
  <2>1. DOMAIN commit \ Correct \in SUBSET (Validators \ Correct)
    BY <1>1
  <2> QED
    BY <2>1, PowerMonotone
<1>5. Power(Validators \ Correct) \in Nat /\ Power(Validators) \in Nat
  BY PowerType
<1> DEFINE all == Power(Validators)
           signed == Power(DOMAIN commit)
           yes == Power(signers)
           honest == Power(DOMAIN commit \cap Correct)
           faulty == Power(DOMAIN commit \ Correct)
           allFaulty == Power(Validators \ Correct)
<1>6. /\ yes <= signed /\ yes \in Nat /\ signed \in Nat
      /\ 3 * yes > 2 * all /\ all \in Nat
      /\ faulty <= allFaulty /\ allFaulty \in Nat
  BY <1>2, <1>3, <1>4, <1>5
<1>7. 3 * allFaulty < all
  BY FaultyAssumption
<1>8. signed = honest + faulty /\ honest \in Nat /\ faulty \in Nat
  BY HalfOf
<1>9. honest > faulty
  <2> HIDE DEF all, signed, yes, honest, faulty, allFaulty
  <2> QED
    BY <1>6, <1>7, <1>8
<1> QED
  BY <1>9

LEMMA VerifiedNotEmpty ==
    ASSUME NEW commit \in Commits, VerifyCommit(commit)
    PROVE  DOMAIN commit # {}
<1> SUFFICES ASSUME DOMAIN commit = {}  PROVE FALSE
  OBVIOUS
<1>1. DOMAIN commit \cap Correct = {} /\ DOMAIN commit \ Correct = {}
  OBVIOUS
<1>2. Power({}) > Power({}) /\ Power({}) = 0
  BY <1>1, HonestMajority, PowerUnfold
<1> QED
  BY <1>2

(* The median of a commit is a time that it can hold.                       *)
LEMMA MedianTimeType ==
    ASSUME NEW commit \in Commits, VerifyCommit(commit)
    PROVE  MedianTime(commit) \in Nat
<1>1. MedianTime(commit) \in SignatureTimes(commit)
  BY VerifiedNotEmpty, MedianTimeIsMedian DEF IsMedian
<1> QED
  BY <1>1, CommitType DEF SignatureTimes

(* The last correct signer is not before the median: the correct hold more  *)
(* than half of the power that signed.                                      *)
LEMMA MedianNotAfterHonest ==
    ASSUME NEW commit \in Commits, VerifyCommit(commit)
    PROVE  \E t \in HonestTimes(commit) : MedianTime(commit) <= t
<1> DEFINE honest == DOMAIN commit \cap Correct
<1>1. Power(honest) >= Half(commit) /\ Power(honest) # 0
  <2> DEFINE signed == Power(DOMAIN commit)
             h == Power(honest)
             f == Power(DOMAIN commit \ Correct)
  <2>1. signed = h + f /\ h \in Nat /\ f \in Nat
    BY HalfOf
  <2>2. h > f
    BY HonestMajority
  <2>3. h >= signed \div 2 /\ h # 0
    <3> HIDE DEF signed, h, f
    <3> QED
      BY <2>1, <2>2
  <2> QED
    BY <2>3 DEF Half
<1>2. honest # {} /\ honest \in SUBSET DOMAIN commit
  <2>1. Power({}) = 0
    BY PowerUnfold
  <2> QED
    BY <1>1, <2>1
<1>3. PICK m \in honest : \A v \in honest : commit[v].time <= commit[m].time
  <2> HIDE DEF honest
  <2> QED
    BY <1>2, LastSignature
<1>4. honest \in SUBSET SignedBy(commit, commit[m].time)
  BY <1>2, <1>3 DEF SignedBy
<1>5. SignedBy(commit, commit[m].time) \in SUBSET Validators
  BY CommitType DEF SignedBy
<1>6. /\ Power(honest) <= Power(SignedBy(commit, commit[m].time))
      /\ Power(honest) \in Nat
      /\ Power(SignedBy(commit, commit[m].time)) \in Nat
  BY <1>4, <1>5, PowerMonotone, PowerType
<1>7. Power(SignedBy(commit, commit[m].time)) >= Half(commit)
  BY <1>1, <1>6, HalfType
<1>8. commit[m].time \in SignatureTimes(commit)
  BY <1>3 DEF SignatureTimes
<1>9. MedianTime(commit) <= commit[m].time
  BY <1>7, <1>8, VerifiedNotEmpty, MedianTimeIsMedian DEF IsMedian
<1> QED
  BY <1>3, <1>9 DEF HonestTimes

(* The first correct signer is not after the median, when the faulty do not *)
(* hold half of the power that signed.                                      *)
LEMMA MedianNotBeforeHonest ==
    ASSUME NEW commit \in Commits, VerifyCommit(commit), ~FaultyHoldMedian(commit)
    PROVE  \E t \in HonestTimes(commit) : t <= MedianTime(commit)
<1> DEFINE by == SignedBy(commit, MedianTime(commit))
<1>1. Power(by) >= Half(commit)
  BY VerifiedNotEmpty, MedianTimeIsMedian DEF IsMedian
<1>2. Power(DOMAIN commit \ Correct) < Half(commit)
  <2> DEFINE f == Power(DOMAIN commit \ Correct)
  <2>1. f \in Nat /\ Half(commit) \in Nat
    BY HalfOf, HalfType
  <2>2. ~(f >= Half(commit))
    BY DEF FaultyHoldMedian, Half
  <2> HIDE DEF f
  <2>3. f < Half(commit)
    BY <2>1, <2>2
  <2> QED
    BY <2>3 DEF f
<1>3. by \in SUBSET DOMAIN commit
  BY DEF SignedBy
<1>4. ~(by \subseteq DOMAIN commit \ Correct)
  <2> HIDE DEF by
  <2> SUFFICES ASSUME by \subseteq DOMAIN commit \ Correct  PROVE FALSE
    OBVIOUS
  <2>1. DOMAIN commit \ Correct \in SUBSET Validators /\ by \in SUBSET Validators
    BY <1>3, CommitType
  <2>2. /\ Power(by) <= Power(DOMAIN commit \ Correct)
        /\ Power(by) \in Nat /\ Power(DOMAIN commit \ Correct) \in Nat
    BY <2>1, PowerMonotone, PowerType
  <2> QED
    BY <1>1, <1>2, <2>2, HalfType
<1>5. PICK v \in DOMAIN commit \cap Correct : v \in by
  BY <1>3, <1>4
<1>6. commit[v].time <= MedianTime(commit)
  BY <1>5 DEF SignedBy
<1> QED
  BY <1>5, <1>6 DEF HonestTimes

-----------------------------------------------------------------------------
(* The sets of validators whose votes VerifyCommit accepts.                 *)
PowerQuorums == {Q \in SUBSET Validators : 3 * Power(Q) > 2 * Power(Validators)}

(* What ConsensusState assumes of its quorums holds of those that are       *)
(* weighed by power: two of them share a correct validator, and whatever    *)
(* contains one is one.                                                     *)
THEOREM PowerQuorumsIntersect ==
    /\ PowerQuorums \subseteq SUBSET Validators
    /\ \A Q1, Q2 \in PowerQuorums : Q1 \cap Q2 \cap Correct # {}
    /\ \A Q \in PowerQuorums, S \in SUBSET Validators : Q \subseteq S => S \in PowerQuorums
<1>1. PowerQuorums \subseteq SUBSET Validators
  BY DEF PowerQuorums
<1>2. ASSUME NEW Q1 \in PowerQuorums, NEW Q2 \in PowerQuorums, Q1 \cap Q2 \cap Correct = {}
      PROVE  FALSE
  <2> DEFINE both == Q1 \cap Q2
             rest == Q2 \ Q1
             any == Q1 \cup rest
             faulty == Validators \ Correct
  <2>1. /\ Q1 \in SUBSET Validators /\ Q2 \in SUBSET Validators
        /\ both \in SUBSET faulty /\ rest \in SUBSET Validators
        /\ any \in SUBSET Validators /\ faulty \in SUBSET Validators
        /\ both \in SUBSET Validators
    BY <1>1, <1>2
  <2>2. Q2 = both \cup rest /\ both \cap rest = {} /\ Q1 \cap rest = {}
    OBVIOUS
  <2>3. 3 * Power(Q1) > 2 * Power(Validators) /\ 3 * Power(Q2) > 2 * Power(Validators)
    BY DEF PowerQuorums
  <2> HIDE DEF both, rest, faulty
  <2>4. Power(Q2) = Power(both) + Power(rest)
    BY <2>1, <2>2, PowerUnion
  <2>5. Power(any) = Power(Q1) + Power(rest)
    BY <2>1, <2>2, PowerUnion
  <2> HIDE DEF any
  <2>6. Power(both) <= Power(faulty) /\ Power(any) <= Power(Validators)
    BY <2>1, PowerMonotone
  <2>7. 3 * Power(faulty) < Power(Validators)
    BY FaultyAssumption DEF faulty
  <2>8. /\ Power(Q1) \in Nat /\ Power(Q2) \in Nat /\ Power(both) \in Nat
        /\ Power(rest) \in Nat /\ Power(any) \in Nat /\ Power(faulty) \in Nat
        /\ Power(Validators) \in Nat
    BY <2>1, PowerType
  <2> QED
    BY <2>3, <2>4, <2>5, <2>6, <2>7, <2>8
<1>3. ASSUME NEW Q \in PowerQuorums, NEW S \in SUBSET Validators, Q \subseteq S
      PROVE  S \in PowerQuorums
  <2>1. /\ Power(Q) <= Power(S) /\ 3 * Power(Q) > 2 * Power(Validators)
        /\ Power(Q) \in Nat /\ Power(S) \in Nat /\ Power(Validators) \in Nat
    BY <1>1, <1>3, PowerMonotone, PowerType DEF PowerQuorums
  <2>2. 3 * Power(S) > 2 * Power(Validators)
    BY <2>1
  <2> QED
    BY <2>2 DEF PowerQuorums
<1> QED
  BY <1>1, <1>2, <1>3

-----------------------------------------------------------------------------
(* The inductive invariant: a proposed block above the first height has a   *)
(* LastCommit that passes VerifyCommit, and its median as time.             *)

Medial(state, block) ==
    state.lastBlockHeight > 0
        => VerifyCommit(block.lastCommit) /\ block.time = MedianTime(block.lastCommit)

TimesInv ==
    /\ clock \in [Correct -> Times]
    /\ chainState \in [lastBlockHeight : Nat, lastBlockTime : Nat]
    /\ precommits \in Commits
    /\ lastPrecommits \in Commits
    /\ \/ proposal = NoBlock
       \/ /\ proposal \in [time : Nat, lastCommit : Commits]
          /\ Medial(chainState, proposal)

LEMMA NoCommitType == NoCommit \in Commits
<1>1. {} \in SUBSET Validators
  OBVIOUS
<1>2. NoCommit \in [{} -> [time : Times, forBlock : BOOLEAN]]
  BY DEF NoCommit
<1> QED
  BY <1>1, <1>2 DEF Commits

(* Some of the signatures of a commit are a commit.                         *)
LEMMA PartOfCommit ==
    ASSUME NEW commit \in Commits, NEW S \in SUBSET DOMAIN commit
    PROVE  [v \in S |-> commit[v]] \in Commits
<1>1. S \in SUBSET Validators
  BY CommitType
<1>2. [v \in S |-> commit[v]] \in [S -> [time : Times, forBlock : BOOLEAN]]
  BY CommitType
<1> QED
  BY <1>1, <1>2 DEF Commits

(* So is a commit with one more signature.                                  *)
LEMMA AddSignature ==
    ASSUME NEW commit \in Commits, NEW n \in Validators,
           NEW sig \in [time : Times, forBlock : BOOLEAN]
    PROVE  [v \in DOMAIN commit \cup {n} |-> IF v = n THEN sig ELSE commit[v]] \in Commits
<1> DEFINE more == [v \in DOMAIN commit \cup {n} |-> IF v = n THEN sig ELSE commit[v]]
<1>1. DOMAIN commit \cup {n} \in SUBSET Validators
  BY CommitType
<1>2. more \in [DOMAIN commit \cup {n} -> [time : Times, forBlock : BOOLEAN]]
  BY CommitType
<1> HIDE DEF more
<1>3. more \in Commits
  BY <1>1, <1>2 DEF Commits
<1> QED
  BY <1>3 DEF more

LEMMA LastCommitsType ==
    ASSUME TimesInv, NEW commit \in LastCommits
    PROVE  /\ commit \in Commits
           /\ chainState.lastBlockHeight = 0 => commit = NoCommit
           /\ chainState.lastBlockHeight # 0 => VerifyCommit(commit)
<1>1. CASE chainState.lastBlockHeight = 0
  BY <1>1, NoCommitType DEF LastCommits
<1>2. CASE chainState.lastBlockHeight # 0
  <2>1. PICK S \in SUBSET DOMAIN lastPrecommits : commit = [v \in S |-> lastPrecommits[v]]
    BY <1>2 DEF LastCommits
  <2>2. commit \in Commits
    BY <2>1, PartOfCommit DEF TimesInv
  <2>3. VerifyCommit(commit)
    BY <1>2 DEF LastCommits
  <2> QED
    BY <1>2, <2>2, <2>3
<1> QED
  BY <1>1, <1>2

LEMMA TimesInit == Init => TimesInv
<1> SUFFICES ASSUME Init  PROVE TimesInv
  OBVIOUS
<1>1. clock \in [Correct -> Times]
  BY DEF Init
<1>2. chainState \in [lastBlockHeight : Nat, lastBlockTime : Nat]
  BY BlockTimesAssumption DEF Init
<1> QED
  BY <1>1, <1>2, NoCommitType DEF Init, TimesInv

LEMMA TimesStep == TimesInv /\ [Next]_timeVars => TimesInv'
<1> SUFFICES ASSUME TimesInv, [Next]_timeVars  PROVE TimesInv'
  OBVIOUS
<1>1. ASSUME NEW n \in Correct, Tick(n)  PROVE TimesInv'
  <2>1. clock' \in [Correct -> Times]
    BY <1>1, BlockTimesAssumption DEF TimesInv, Tick, Times
  <2> QED
    BY <1>1, <2>1 DEF TimesInv, Tick
<1>2. CASE Propose
  <2>1. PICK commit \in LastCommits : proposal' = MakeBlock(chainState, commit)
    BY <1>2 DEF Propose
  <2>2. /\ commit \in Commits
        /\ chainState.lastBlockHeight # 0 => VerifyCommit(commit)
    BY LastCommitsType
  <2>3. chainState.lastBlockHeight \in Nat /\ chainState.lastBlockTime \in Nat
    BY DEF TimesInv
  <2>4. /\ proposal'.lastCommit = commit
        /\ chainState.lastBlockHeight = 0 => proposal'.time = chainState.lastBlockTime
        /\ chainState.lastBlockHeight # 0 => proposal'.time = MedianTime(commit)
    BY <2>1 DEF MakeBlock
  <2>5. proposal' \in [time : Nat, lastCommit : Commits]
    <3>1. proposal'.time \in Nat
      BY <2>2, <2>3, <2>4, MedianTimeType
    <3>2. proposal' = [time |-> proposal'.time, lastCommit |-> commit]
      BY <2>1 DEF MakeBlock
    <3> QED
      BY <2>2, <3>1, <3>2
  <2>6. Medial(chainState, proposal')
    BY <2>2, <2>3, <2>4 DEF Medial
  <2> QED
    BY <1>2, <2>5, <2>6, NoCommitType DEF TimesInv, Propose
<1>3. ASSUME NEW n \in Correct, NEW forBlock \in BOOLEAN, Precommit(n, forBlock)
      PROVE  TimesInv'
  <2>1. SignedVote(n, forBlock) \in [time : Times, forBlock : BOOLEAN]
    <3>1. clock[n] \in Times
      BY DEF TimesInv
    <3> QED
      BY <3>1 DEF SignedVote, SignVote
  <2>2. precommits' \in Commits
    <3>1. n \in Validators /\ precommits \in Commits
      BY BlockTimesAssumption DEF TimesInv
    <3> QED
      BY <1>3, <2>1, <3>1, AddSignature DEF Precommit
  <2> QED
    BY <1>3, <2>2 DEF TimesInv, Precommit
<1>4. ASSUME NEW n \in Validators \ Correct, NEW forBlock \in BOOLEAN,
             FaultyPrecommit(n, forBlock)
      PROVE  TimesInv'
  <2>1. PICK t \in Times :
            precommits' = [v \in DOMAIN precommits \cup {n} |->
                               IF v = n THEN [time |-> t, forBlock |-> forBlock]
                               ELSE precommits[v]]
    BY <1>4 DEF FaultyPrecommit
  <2>2. [time |-> t, forBlock |-> forBlock] \in [time : Times, forBlock : BOOLEAN]
    OBVIOUS
  <2>3. precommits' \in Commits
    <3>1. n \in Validators /\ precommits \in Commits
      BY DEF TimesInv
    <3> QED
      BY <2>1, <2>2, <3>1, AddSignature
  <2> QED
    BY <1>4, <2>3 DEF TimesInv, FaultyPrecommit
<1>5. CASE Commit
  <2>1. proposal.time \in Nat
    BY <1>5 DEF TimesInv, Commit
  <2>2. chainState' \in [lastBlockHeight : Nat, lastBlockTime : Nat]
    BY <1>5, <2>1 DEF TimesInv, Commit
  <2> QED
    BY <1>5, <2>2, NoCommitType DEF TimesInv, Commit
<1>6. ASSUME NEW n \in Validators, NEW vote \in [time : Times, forBlock : BOOLEAN],
             LatePrecommit(n, vote)
      PROVE  TimesInv'
  <2>1. lastPrecommits' \in Commits
    BY <1>6, AddSignature DEF TimesInv, LatePrecommit
  <2> QED
    BY <1>6, <2>1 DEF TimesInv, LatePrecommit
<1>7. CASE UNCHANGED timeVars
  BY <1>7 DEF TimesInv, timeVars, Medial
<1>8. ASSUME NEW n \in Correct, NEW forBlock \in BOOLEAN,
             LatePrecommit(n, [time |-> clock[n], forBlock |-> forBlock])
      PROVE  TimesInv'
  <2>1. n \in Validators /\ clock[n] \in Times
    BY BlockTimesAssumption DEF TimesInv
  <2>2. [time |-> clock[n], forBlock |-> forBlock] \in [time : Times, forBlock : BOOLEAN]
    BY <2>1
  <2> QED
    BY <1>6, <1>8, <2>1, <2>2
<1>9. ASSUME NEW n \in Validators \ Correct, NEW t \in Times, NEW forBlock \in BOOLEAN,
             LatePrecommit(n, [time |-> t, forBlock |-> forBlock])
      PROVE  TimesInv'
  <2>1. [time |-> t, forBlock |-> forBlock] \in [time : Times, forBlock : BOOLEAN]
    OBVIOUS
  <2> QED
    BY <1>6, <1>9, <2>1
<1> QED
  BY <1>1, <1>2, <1>3, <1>4, <1>5, <1>7, <1>8, <1>9 DEF Next

(* The invariant of every reachable state, from which the theorems follow.  *)
THEOREM TimesInvariant == Spec => []TimesInv
<1>1. Init => TimesInv
  BY TimesInit
<1>2. TimesInv /\ [Next]_timeVars => TimesInv'
  BY TimesStep
<1> QED
  BY <1>1, <1>2, PTL DEF Spec

(* weightedMedian finds the weighted median of every LastCommit a proposer  *)
(* can hold, and sort.Slice may leave equal times in any order.             *)
THEOREM MedianIsReferenceHolds == Spec => []MedianIsReference
<1>1. TimesInv => MedianIsReference
  <2> SUFFICES ASSUME TimesInv, NEW commit \in LastCommits \ {NoCommit}
               PROVE  /\ MedianTime(commit) = ReferenceMedian(commit)
                      /\ \A order \in ByTime(commit) :
                             WeightedMedian(commit, order) = MedianTime(commit)
    BY DEF MedianIsReference
  <2>1. commit \in Commits /\ VerifyCommit(commit)
    BY LastCommitsType
  <2>2. DOMAIN commit # {}
    BY <2>1, VerifiedNotEmpty
  <2> QED
    BY <2>1, <2>2, MedianTimeIsMedian
<1> QED
  BY <1>1, TimesInvariant, PTL

(* The time of a proposed block is not after every correct signer of its    *)
(* LastCommit, nor before all of them unless the faulty hold the rounded    *)
(* half of the power that signed.                                           *)
THEOREM TimeWithinHonestHolds == Spec => []TimeWithinHonest
<1>1. TimesInv => TimeWithinHonest
  <2> SUFFICES ASSUME TimesInv, proposal # NoBlock, chainState.lastBlockHeight > 0
               PROVE  /\ \E t \in HonestTimes(proposal.lastCommit) : proposal.time <= t
                      /\ \/ FaultyHoldMedian(proposal.lastCommit)
                         \/ \E t \in HonestTimes(proposal.lastCommit) : t <= proposal.time
    BY DEF TimeWithinHonest
  <2> DEFINE commit == proposal.lastCommit
  <2>1. commit \in Commits /\ VerifyCommit(commit) /\ proposal.time = MedianTime(commit)
    BY DEF TimesInv, Medial
  <2> HIDE DEF commit
  <2>2. \E t \in HonestTimes(commit) : proposal.time <= t
    BY <2>1, MedianNotAfterHonest
  <2>3. FaultyHoldMedian(commit) \/ \E t \in HonestTimes(commit) : t <= proposal.time
    BY <2>1, MedianNotBeforeHonest
  <2> QED
    BY <2>2, <2>3 DEF commit
<1> QED
  BY <1>1, TimesInvariant, PTL

(* A LastCommit whose correct signers were past the last block always gives *)
(* a block that validateBlock accepts, unless the faulty hold the median.   *)
THEOREM TimelyVotesCarryOnHolds == Spec => []TimelyVotesCarryOn
<1>1. TimesInv => TimelyVotesCarryOn
  <2> SUFFICES ASSUME TimesInv, NEW commit \in LastCommits \ {NoCommit},
                      \A t \in HonestTimes(commit) : t > chainState.lastBlockTime,
                      ~FaultyHoldMedian(commit)
               PROVE  ValidateBlock(chainState, MakeBlock(chainState, commit))
    BY DEF TimelyVotesCarryOn
  <2>1. /\ commit \in Commits /\ VerifyCommit(commit)
        /\ chainState.lastBlockHeight # 0
    BY LastCommitsType
  <2>2. PICK t \in HonestTimes(commit) : t <= MedianTime(commit)
    BY <2>1, MedianNotBeforeHonest
  <2>3. t \in Nat /\ MedianTime(commit) \in Nat /\ chainState.lastBlockTime \in Nat
    BY <2>1, MedianTimeType, CommitType DEF HonestTimes, TimesInv
  <2>4. MedianTime(commit) > chainState.lastBlockTime
    BY <2>2, <2>3
  <2> QED
    BY <2>1, <2>4 DEF ValidateBlock, MakeBlock
<1> QED
  BY <1>1, TimesInvariant, PTL
=============================================================================
