---------------------------- MODULE RegressionTree ----------------------------
(***************************************************************************)
(* The walk of impl::regression_tree::operator() from the root of a tree   *)
(* to one of its leaves.  A tree is a heap: splits are its inner nodes,    *)
(* numbered from the root, and leaf_values, in a vector of their own, are  *)
(* numbered as if they followed the splits.  Which child a split leads to  *)
(* depends on two pixels; here it is any.                                  *)
(***************************************************************************)
EXTENDS Integers

CONSTANTS
  SplitCounts,   \* the sizes of the trees
  Word           \* 2^32 or 2^64: unsigned long wraps there

\* A split_feature, of two unsigned longs and a float, takes 12 bytes at least,
\* and the splits of a tree are in memory.
ASSUME WordAssumption   == Word \in Nat \ {0}
ASSUME SplitsAssumption == \A n \in SplitCounts : n \in Nat /\ 12 * n < Word

VARIABLES
  splits,   \* splits.size()
  node,     \* i: the current node, or the leaf's place in leaf_values
  pc,       \* "walk" or "leaf"
  rank,     \* the turns so far as a binary number, 1 for right
  span      \* 2 to the power of the number of turns

walkVars == <<splits, node, pc, rank, span>>

\* leaf_values.size(), as training leaves it and the comments require it
num_leaves == splits + 1

\* A faulty variant: copied from right_child, as its comment is from this one.
left_child_copied(idx) == (2 * idx + 2) % Word

left_child(idx)  == (2 * idx + 1) % Word
right_child(idx) == (2 * idx + 2) % Word

Root ==
  /\ splits \in SplitCounts
  /\ node = 0
  /\ pc = "walk"
  /\ rank = 0 /\ span = 1

\* A faulty variant: the first leaf is taken for a split.
MoreOrEqual == node <= splits

More == node < splits

Left  == node' = left_child(node)  /\ rank' = 2 * rank
Right == node' = right_child(node) /\ rank' = 2 * rank + 1

Split ==
  /\ pc = "walk" /\ More
  /\ Left \/ Right
  /\ span' = 2 * span
  /\ UNCHANGED <<splits, pc>>

Leaf ==
  /\ pc = "walk" /\ ~More
  /\ pc' = "leaf"
  /\ node' = (node - splits) % Word
  /\ UNCHANGED <<splits, rank, span>>

Step == Split \/ Leaf

Walk == Root /\ [][Step]_walkVars

(***************************************************************************)
(* Properties                                                              *)
(***************************************************************************)
TypeOK ==
  /\ splits \in SplitCounts
  /\ node \in 0 .. 2 * splits
  /\ pc \in {"walk", "leaf"}
  /\ rank \in Nat /\ span \in Nat

\* Whatever the pixels, and also in a tree whose levels are not all full, a walk
\* that ends does so at a leaf that the tree has.
LeafExists == pc = "leaf" => node < num_leaves

\* In a full tree every leaf has the same depth, and the turns taken, read as a
\* binary number, are its place in leaf_values: no two walks share a leaf.
PowerOfTwo[n \in Nat] == IF n = 0 THEN 1 ELSE 2 * PowerOfTwo[n - 1]

Full == \E depth \in 0 .. splits : num_leaves = PowerOfTwo[depth]

LeafIsPath == pc = "leaf" /\ Full => node = rank /\ span = num_leaves
=============================================================================
