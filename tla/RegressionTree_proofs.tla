------------------------- MODULE RegressionTree_proofs -------------------------
(***************************************************************************)
(* Theorems about the walk through a regression tree of any size.          *)
(***************************************************************************)
EXTENDS RegressionTree, Induction, TLAPS

\* A leaf is one of the tree's.  That a node on the walk is at most a child of
\* the last split is part of TypeOK; it keeps the child indices within a word.
InTree == pc = "leaf" => node <= splits

IInv == TypeOK /\ InTree

LEMMA Invariance == Walk => []IInv
<1>1. Root => IInv
  <2> SUFFICES ASSUME Root PROVE IInv
    OBVIOUS
  <2>1. splits \in Nat
    BY SplitsAssumption DEF Root
  <2> QED BY <2>1, SMT DEF Root, IInv, TypeOK, InTree
<1>2. IInv /\ [Step]_walkVars => IInv'
  <2> SUFFICES ASSUME IInv, [Step]_walkVars PROVE IInv'
    OBVIOUS
  <2>1. /\ splits \in Nat /\ 12 * splits < Word /\ Word \in Nat \ {0}
        /\ node \in 0 .. 2 * splits /\ rank \in Nat /\ span \in Nat
    BY WordAssumption, SplitsAssumption DEF IInv, TypeOK
  <2>2. CASE Split
    <3>1. pc = "walk" /\ node < splits /\ UNCHANGED <<splits, pc>> /\ span' = 2 * span
      BY <2>2 DEF Split, More
    <3>2. 2 * node + 1 < Word /\ 2 * node + 2 < Word
      BY <2>1, <3>1, SMT
    <3>3. left_child(node) = 2 * node + 1 /\ right_child(node) = 2 * node + 2
      BY <2>1, <3>2, SMT DEF left_child, right_child
    <3>4. CASE Left
      BY <2>1, <3>1, <3>2, <3>3, <3>4, SMT DEF Left, IInv, TypeOK, InTree
    <3>5. CASE Right
      BY <2>1, <3>1, <3>2, <3>3, <3>5, SMT DEF Right, IInv, TypeOK, InTree
    <3> QED BY <2>2, <3>4, <3>5 DEF Split
  <2>3. CASE Leaf
    <3>1. /\ pc = "walk" /\ splits <= node /\ node <= 2 * splits
          /\ pc' = "leaf" /\ UNCHANGED <<splits, rank, span>>
      BY <2>1, <2>3, SMT DEF Leaf, More, IInv, InTree
    <3>2. node' = node - splits
      <4>1. node - splits \in 0 .. Word - 1
        BY <2>1, <3>1, SMT
      <4>2. (node - splits) % Word = node - splits
        BY <2>1, <4>1, SMT
      <4> QED BY <2>3, <4>2 DEF Leaf
    <3> QED BY <2>1, <3>1, <3>2, SMT DEF IInv, TypeOK, InTree
  <2>4. CASE UNCHANGED walkVars
    BY <2>4 DEF walkVars, IInv, TypeOK, InTree
  <2> QED BY <2>2, <2>3, <2>4 DEF Step
<1> QED BY <1>1, <1>2, PTL DEF Walk

\* The variables hold values of their types; no index wraps.
THEOREM Typing == Walk => []TypeOK
<1>1. IInv => TypeOK
  BY DEF IInv
<1> QED BY <1>1, Invariance, PTL

\* Every walk through every tree ends at a leaf that the tree has, for every
\* number of splits that memory has room for.
THEOREM LeafInTree == Walk => []LeafExists
<1>1. IInv => LeafExists
  <2> SUFFICES ASSUME IInv, pc = "leaf" PROVE node < splits + 1
    BY DEF LeafExists, num_leaves
  <2>1. splits \in Nat /\ node \in Int /\ node <= splits
    BY SplitsAssumption, SMT DEF IInv, TypeOK, InTree
  <2> QED BY <2>1, SMT
<1> QED BY <1>1, Invariance, PTL

(***************************************************************************)
(* Powers of two, which the depth of a full tree is told by.               *)
(***************************************************************************)
LEMMA PowerEquation ==
  PowerOfTwo = [n \in Nat |-> IF n = 0 THEN 1 ELSE 2 * PowerOfTwo[n - 1]]
<1> DEFINE Step2 == [p \in Nat \X Nat |-> 2 * p[2]]
<1>1. Step2 \in [Nat \X Nat -> Nat] /\ 1 \in Nat
  OBVIOUS
<1>2. PICK f : Iterates(f, Nat, 1, Step2)
  <2> HIDE DEF Step2
  <2> QED BY <1>1, Recursion
<1>3. \A n \in Nat : f[n + 1] = 2 * f[n]
  BY <1>2 DEF Iterates
<1>4. ASSUME NEW n \in Nat PROVE f[n] = IF n = 0 THEN 1 ELSE 2 * f[n - 1]
  <2>1. CASE n = 0
    BY <1>2, <2>1 DEF Iterates
  <2>2. CASE n # 0
    <3>1. n - 1 \in Nat /\ (n - 1) + 1 = n
      BY <2>2
    <3> QED BY <1>3, <2>2, <3>1
  <2> QED BY <2>1, <2>2
<1>5. f = [n \in Nat |-> IF n = 0 THEN 1 ELSE 2 * f[n - 1]]
  BY <1>2, <1>4 DEF Iterates
<1> QED BY <1>5 DEF PowerOfTwo

LEMMA PowerSteps ==
  /\ PowerOfTwo[0] = 1
  /\ \A n \in Nat : PowerOfTwo[n] \in Nat \ {0} /\ PowerOfTwo[n + 1] = 2 * PowerOfTwo[n]
<1> DEFINE S == {n \in Nat : PowerOfTwo[n] \in Nat \ {0}}
<1>1. PowerOfTwo[0] = 1
  BY PowerEquation
<1>2. ASSUME NEW n \in Nat PROVE PowerOfTwo[n + 1] = 2 * PowerOfTwo[n]
  <2>1. n + 1 \in Nat /\ n + 1 # 0 /\ (n + 1) - 1 = n
    OBVIOUS
  <2> QED BY <2>1, PowerEquation
<1>3. \A n \in Nat : n \in S
  <2>1. 0 \in S
    BY <1>1
  <2>2. ASSUME NEW n \in Nat, n \in S PROVE n + 1 \in S
    BY <1>2, <2>2
  <2> HIDE DEF S
  <2> QED BY <2>1, <2>2, NatSetInduction
<1> QED BY <1>1, <1>2, <1>3

\* Between a power of two and its double there is none.
LEMMA PowersApart ==
  ASSUME NEW a \in Nat, NEW b \in Nat
  PROVE  /\ a < b => 2 * PowerOfTwo[a] <= PowerOfTwo[b]
         /\ PowerOfTwo[a] < PowerOfTwo[b] => 2 * PowerOfTwo[a] <= PowerOfTwo[b]
<1>1. ASSUME NEW m \in Nat, NEW n \in Nat, m <= n PROVE PowerOfTwo[m] <= PowerOfTwo[n]
  <2> DEFINE S == {k \in Nat : PowerOfTwo[m] <= PowerOfTwo[k]}
  <2>1. m \in S
    BY PowerSteps
  <2>2. ASSUME NEW k \in m .. n - 1, k \in S PROVE k + 1 \in S
    BY <2>2, PowerSteps
  <2>3. \A k \in m .. n : k \in S
    <3> HIDE DEF S
    <3> QED BY <2>1, <2>2, Upwards
  <2>4. n \in m .. n
    BY <1>1
  <2> QED BY <2>3, <2>4
<1>2. a < b => 2 * PowerOfTwo[a] <= PowerOfTwo[b]
  <2>1. a + 1 \in Nat /\ PowerOfTwo[a + 1] = 2 * PowerOfTwo[a]
    BY PowerSteps
  <2> QED BY <1>1, <2>1
<1>3. PowerOfTwo[a] < PowerOfTwo[b] => a < b
  BY <1>1, PowerSteps
<1> QED BY <1>2, <1>3

(***************************************************************************)
(* On the way through a full tree the node is the rank-th of those at its  *)
(* depth, of which there are span, and no depth is left out.               *)
(***************************************************************************)
OnPath ==
  /\ \E depth \in Nat : span = PowerOfTwo[depth]
  /\ rank < span
  /\ pc = "walk" => node = span - 1 + rank /\ (Full => span <= num_leaves)

LEMMA PathInit == Root => OnPath /\ LeafIsPath
<1> SUFFICES ASSUME Root PROVE OnPath /\ LeafIsPath
  OBVIOUS
<1>1. span = PowerOfTwo[0] /\ splits \in Nat
  BY PowerSteps, SplitsAssumption DEF Root
<1> QED BY <1>1 DEF Root, OnPath, LeafIsPath, num_leaves

LEMMA PathSplit ==
  ASSUME IInv, OnPath, Split
  PROVE  OnPath' /\ LeafIsPath'
<1>1. /\ splits \in Nat /\ 12 * splits < Word /\ Word \in Nat \ {0}
      /\ node \in 0 .. 2 * splits /\ rank \in Nat /\ span \in Nat
  BY WordAssumption, SplitsAssumption DEF IInv, TypeOK
<1>2. pc = "walk" /\ node < splits /\ splits' = splits /\ pc' = pc /\ span' = 2 * span
  BY DEF Split, More
<1>3. node = span - 1 + rank /\ rank < span
  BY <1>2 DEF OnPath
<1>4. 2 * node + 1 \in 0 .. Word - 1 /\ 2 * node + 2 \in 0 .. Word - 1
  BY <1>1, <1>2, SMT
<1>5. left_child(node) = 2 * node + 1 /\ right_child(node) = 2 * node + 2
  BY <1>1, <1>4, SMT DEF left_child, right_child
<1>6. \/ node' = 2 * node + 1 /\ rank' = 2 * rank
      \/ node' = 2 * node + 2 /\ rank' = 2 * rank + 1
  BY <1>5 DEF Split, Left, Right
<1>7. PICK depth \in Nat : span = PowerOfTwo[depth]
  BY DEF OnPath
<1>8. span' = PowerOfTwo[depth + 1] /\ depth + 1 \in Nat
  BY <1>2, <1>7, PowerSteps
<1>9. rank' < span' /\ node' = span' - 1 + rank'
  BY <1>1, <1>2, <1>3, <1>6, SMT
<1>10. ASSUME Full PROVE span' <= num_leaves
  <2>1. PICK full \in Nat : splits + 1 = PowerOfTwo[full]
    BY <1>1, <1>10 DEF Full, num_leaves
  <2>2. PowerOfTwo[depth] < PowerOfTwo[full]
    BY <1>1, <1>2, <1>3, <1>7, <2>1
  <2> QED BY <1>1, <1>2, <1>7, <2>1, <2>2, PowersApart DEF num_leaves
<1>11. Full' <=> Full
  BY <1>2 DEF Full, num_leaves
<1> QED BY <1>2, <1>8, <1>9, <1>10, <1>11 DEF OnPath, LeafIsPath, num_leaves

LEMMA PathLeaf ==
  ASSUME IInv, OnPath, Leaf
  PROVE  OnPath' /\ LeafIsPath'
<1>1. /\ splits \in Nat /\ 12 * splits < Word /\ Word \in Nat \ {0}
      /\ node \in 0 .. 2 * splits /\ rank \in Nat /\ span \in Nat
  BY WordAssumption, SplitsAssumption DEF IInv, TypeOK
<1>2. /\ pc = "walk" /\ ~(node < splits) /\ pc' = "leaf"
      /\ splits' = splits /\ rank' = rank /\ span' = span
  BY DEF Leaf, More
<1>3. node' = node - splits
  <2>1. node - splits \in 0 .. Word - 1
    BY <1>1, <1>2, SMT
  <2>2. (node - splits) % Word = node - splits
    BY <1>1, <2>1, SMT
  <2> QED BY <2>2 DEF Leaf
<1>4. node = span - 1 + rank /\ rank < span
  BY <1>2 DEF OnPath
<1>5. ASSUME Full PROVE span = splits + 1
  <2>1. PICK full \in Nat : splits + 1 = PowerOfTwo[full]
    BY <1>1, <1>5 DEF Full, num_leaves
  <2>2. PICK depth \in Nat : span = PowerOfTwo[depth]
    BY DEF OnPath
  <2>3. span <= splits + 1
    BY <1>2, <1>5 DEF OnPath, num_leaves
  <2>4. ~(2 * span <= splits + 1)
    BY <1>1, <1>2, <1>4
  <2>5. ~(span < splits + 1)
    BY <2>1, <2>2, <2>4, PowersApart
  <2> QED BY <1>1, <2>3, <2>5
<1>6. Full' <=> Full
  BY <1>2 DEF Full, num_leaves
<1>7. OnPath'
  BY <1>2 DEF OnPath
<1>8. ASSUME Full' PROVE node' = rank' /\ span' = num_leaves'
  BY <1>1, <1>2, <1>3, <1>4, <1>5, <1>6, <1>8 DEF num_leaves
<1> QED BY <1>7, <1>8 DEF LeafIsPath

\* In a full tree of any size every walk has the same length, and ends at the leaf
\* that its turns spell in binary: the heap's numbering gives each path its own leaf.
THEOREM TurnsSpellLeaf == Walk => []LeafIsPath
<1>1. IInv /\ OnPath /\ LeafIsPath /\ [Step]_walkVars => (OnPath /\ LeafIsPath)'
  <2> SUFFICES ASSUME IInv, OnPath, LeafIsPath, [Step]_walkVars
               PROVE  (OnPath /\ LeafIsPath)'
    OBVIOUS
  <2>1. CASE UNCHANGED walkVars
    BY <2>1 DEF walkVars, OnPath, LeafIsPath, Full, num_leaves
  <2> QED BY <2>1, PathSplit, PathLeaf DEF Step
<1> QED BY <1>1, PathInit, Invariance, PTL DEF Walk
=============================================================================
