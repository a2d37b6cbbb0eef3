-------------------------- MODULE Deserializer_proofs --------------------------
(***************************************************************************)
(* Theorems about deserialize() of a shape_predictor, number by number,    *)
(* for models of any size.                                                 *)
(***************************************************************************)
EXTENDS Deserializer, SequenceTheorems, Induction, TLAPS

-----------------------------------------------------------------------------
(***************************************************************************)
(* FlattenSeq appends one sequence after another.  Where that leads from   *)
(* P[k] to P[k + 1] in each step, it ends in P[n].                         *)
(***************************************************************************)
IsFlattening(f, seqs) ==
  f = [k \in 1 .. Len(seqs) |-> IF k = 1 THEN seqs[k] ELSE f[k - 1] \o seqs[k]]

LEMMA FlattenDefinition ==
  ASSUME NEW seqs, Len(seqs) # 0
  PROVE  FlattenSeq(seqs) = (CHOOSE f : IsFlattening(f, seqs))[Len(seqs)]
BY DEF FlattenSeq, IsFlattening

LEMMA FlatteningExists ==
  ASSUME NEW seqs, NEW n \in Nat \ {0}, Len(seqs) = n, NEW P,
         seqs[1] \in P[1],
         \A k \in 1 .. n - 1 : \A s \in P[k] : s \o seqs[k + 1] \in P[k + 1]
  PROVE  \E f : IsFlattening(f, seqs)
<1> DEFINE T == UNION {P[k] : k \in 1 .. n}
           More(k, s) == k + 1 \in 1 .. n - 1 /\ s \in P[k + 1]
           Step == [p \in Nat \X T |-> IF More(p[1], p[2]) THEN p[2] \o seqs[p[1] + 2] ELSE p[2]]
<1>1. seqs[1] \in T
  BY 1 \in 1 .. n
<1>2. Step \in [Nat \X T -> T]
  <2> SUFFICES ASSUME NEW k \in Nat, NEW s \in T, More(k, s)
               PROVE  s \o seqs[k + 2] \in T
    BY Zenon
  <2>1. (k + 1) + 1 = k + 2 /\ k + 2 \in 1 .. n
    OBVIOUS
  <2>2. s \o seqs[k + 2] \in P[k + 2]
    BY <2>1
  <2> QED BY <2>1, <2>2
<1>3. PICK f : Iterates(f, T, seqs[1], Step)
  <2> HIDE DEF T, Step
  <2> QED BY <1>1, <1>2, Recursion
<1>4. ASSUME NEW k \in 0 .. n - 2, f[k] \in P[k + 1]
      PROVE  f[k + 1] = f[k] \o seqs[k + 2] /\ f[k + 1] \in P[k + 2]
  <2>1. k \in Nat /\ f[k] \in T /\ f[k + 1] = Step[<<k, f[k]>>]
    <3>1. k \in Nat
      OBVIOUS
    <3> HIDE DEF T, Step
    <3> QED BY <1>3, <3>1 DEF Iterates
  <2>2. More(k, f[k])
    BY <1>4
  <2>3. f[k + 1] = f[k] \o seqs[k + 2]
    BY <2>1, <2>2
  <2>4. k + 1 \in 1 .. n - 1 /\ (k + 1) + 1 = k + 2
    OBVIOUS
  <2>5. f[k] \o seqs[k + 2] \in P[k + 2]
    BY <1>4, <2>4
  <2> QED BY <2>3, <2>5
<1>5. \A k \in 0 .. n - 1 : f[k] \in P[k + 1]
  <2> DEFINE S == {k \in 0 .. n - 1 : f[k] \in P[k + 1]}
  <2>1. 0 \in S /\ 0 \in Int /\ n - 1 \in Int
    <3>1. f[0] \in P[0 + 1]
      BY <1>3 DEF Iterates
    <3> QED BY <3>1
  <2>2. ASSUME NEW k \in 0 .. (n - 1) - 1, k \in S PROVE k + 1 \in S
    <3>1. k \in 0 .. n - 2 /\ k + 1 \in 0 .. n - 1 /\ (k + 1) + 1 = k + 2
      BY <2>2
    <3> QED BY <1>4, <2>2, <3>1
  <2>3. \A k \in 0 .. n - 1 : k \in S
    <3> HIDE DEF S
    <3> QED BY <2>1, <2>2, Upwards
  <2> QED BY <2>3
<1> DEFINE g == [k \in 1 .. Len(seqs) |-> f[k - 1]]
<1>6. ASSUME NEW k \in 1 .. Len(seqs)
      PROVE  g[k] = IF k = 1 THEN seqs[k] ELSE g[k - 1] \o seqs[k]
  <2>1. CASE k = 1
    BY <1>3, <2>1 DEF Iterates
  <2>2. CASE k # 1
    <3>1. k - 2 \in 0 .. n - 2 /\ k - 2 \in 0 .. n - 1 /\ (k - 2) + 1 = k - 1 /\ (k - 2) + 2 = k
          /\ k - 1 \in 1 .. Len(seqs) /\ (k - 1) - 1 = k - 2
      BY <2>2
    <3>2. f[k - 1] = f[k - 2] \o seqs[k]
      BY <1>4, <1>5, <3>1
    <3> QED BY <2>2, <3>1, <3>2
  <2> QED BY <2>1, <2>2
<1>7. IsFlattening(g, seqs)
  <2>1. g = [k \in 1 .. Len(seqs) |-> g[k]]
    OBVIOUS
  <2> HIDE DEF g
  <2> QED BY <1>6, <2>1 DEF IsFlattening
<1> QED BY <1>7

LEMMA FlattenInto ==
  ASSUME NEW seqs, NEW n \in Nat \ {0}, Len(seqs) = n, NEW P,
         seqs[1] \in P[1],
         \A k \in 1 .. n - 1 : \A s \in P[k] : s \o seqs[k + 1] \in P[k + 1]
  PROVE  FlattenSeq(seqs) \in P[n]
<1> DEFINE f == CHOOSE f : IsFlattening(f, seqs)
<1>1. IsFlattening(f, seqs)
  BY FlatteningExists
<1> HIDE DEF f
<1>2. \A k \in 1 .. n : f[k] = IF k = 1 THEN seqs[k] ELSE f[k - 1] \o seqs[k]
  BY <1>1 DEF IsFlattening
<1> DEFINE S == {k \in 1 .. n : f[k] \in P[k]}
<1>3. 1 \in S
  BY <1>2
<1>4. ASSUME NEW k \in 1 .. n - 1, k \in S PROVE k + 1 \in S
  <2>1. k + 1 \in 1 .. n /\ k + 1 # 1 /\ (k + 1) - 1 = k
    OBVIOUS
  <2>2. f[k + 1] = f[k] \o seqs[k + 1]
    BY <1>2, <2>1
  <2> QED BY <1>4, <2>1, <2>2
<1>5. \A k \in 1 .. n : k \in S
  <2> HIDE DEF S
  <2> QED BY <1>3, <1>4, Upwards
<1>6. f[n] \in P[n]
  BY <1>5
<1> QED BY <1>6, FlattenDefinition DEF f

-----------------------------------------------------------------------------
(***************************************************************************)
(* What is true of every piece of a file, whatever the sizes.              *)
(***************************************************************************)
Kinds    == {"local", "size", "int", "float", "point"}
FieldSet == [item : Nat, depth : Nat, kind : Kinds]

\* Each field below depth d is an element of a container ahead of it.
Contained(s, k) ==
  \E c \in 1 .. k - 1 :
    /\ s[c].kind = "size" /\ s[k].depth = s[c].depth + 1
    /\ \A j \in c + 1 .. k : s[j].depth > s[c].depth

Nested(s, d) ==
  \A k \in 1 .. Len(s) : s[k].depth >= d /\ (s[k].depth > d => Contained(s, k))

\* Pieces of one item.
Part(s, f, d) ==
  /\ s \in Seq(FieldSet) /\ Len(s) > 0
  /\ \A k \in 1 .. Len(s) : s[k].item = f
  /\ s[Len(s)].kind # "local"
  /\ Nested(s, d)

LEMMA FieldType ==
  ASSUME NEW f \in Nat, NEW d \in Nat, NEW kind \in Kinds
  PROVE  Field(f, d, kind) \in FieldSet
BY DEF Field, FieldSet

\* u is t after s.
Joins(u, s, t) ==
  /\ Len(s) \in Nat /\ Len(t) \in Nat /\ Len(u) = Len(s) + Len(t)
  /\ \A k \in 1 .. Len(s) : u[k] = s[k]
  /\ \A k \in 1 .. Len(t) : u[Len(s) + k] = t[k]
  /\ \A k \in 1 .. Len(u) : k \in 1 .. Len(s) \/ \E j \in 1 .. Len(t) : k = Len(s) + j

LEMMA Joined ==
  ASSUME NEW S, NEW s \in Seq(S), NEW t \in Seq(S)
  PROVE  s \o t \in Seq(S) /\ Joins(s \o t, s, t)
<1>1. Len(s) \in Nat /\ Len(t) \in Nat
  OBVIOUS
<1>2. ASSUME NEW k \in 1 .. Len(t) PROVE (s \o t)[Len(s) + k] = t[k]
  OBVIOUS
<1>3. ASSUME NEW k \in 1 .. Len(s) + Len(t), k \notin 1 .. Len(s)
      PROVE  \E j \in 1 .. Len(t) : k = Len(s) + j
  <2>1. k - Len(s) \in 1 .. Len(t) /\ k = Len(s) + (k - Len(s))
    BY <1>1, <1>3
  <2> QED BY <2>1
<1>4. Len(s \o t) = Len(s) + Len(t) /\ s \o t \in Seq(S)
  OBVIOUS
<1>5. \A k \in 1 .. Len(s) : (s \o t)[k] = s[k]
  OBVIOUS
<1> QED BY <1>1, <1>2, <1>3, <1>4, <1>5 DEF Joins

LEMMA NestedJoin ==
  ASSUME NEW s \in Seq(FieldSet), NEW t \in Seq(FieldSet), NEW d \in Nat,
         Nested(s, d), Nested(t, d)
  PROVE  Nested(s \o t, d)
<1> DEFINE u == s \o t
<1>0. Joins(u, s, t)
  BY Joined
<1> HIDE DEF u
<1>1. /\ Len(s) \in Nat /\ Len(t) \in Nat /\ Len(u) = Len(s) + Len(t)
      /\ \A k \in 1 .. Len(s) : u[k] = s[k]
      /\ \A k \in 1 .. Len(t) : u[Len(s) + k] = t[k]
      /\ \A k \in 1 .. Len(u) : k \in 1 .. Len(s) \/ \E j \in 1 .. Len(t) : k = Len(s) + j
  BY <1>0 DEF Joins
<1>2. ASSUME NEW k \in 1 .. Len(s)
      PROVE  u[k].depth >= d /\ (u[k].depth > d => Contained(u, k))
  <2>1. s[k].depth >= d /\ (s[k].depth > d => Contained(s, k))
    BY DEF Nested
  <2>2. ASSUME NEW c \in 1 .. k - 1, s[c].kind = "size", s[k].depth = s[c].depth + 1,
               \A j \in c + 1 .. k : s[j].depth > s[c].depth
        PROVE  Contained(u, k)
    <3>1. c \in 1 .. Len(s) /\ \A j \in c + 1 .. k : j \in 1 .. Len(s)
      BY <1>1
    <3>2. u[c] = s[c] /\ u[k] = s[k] /\ \A j \in c + 1 .. k : u[j] = s[j]
      BY <1>1, <3>1
    <3> QED BY <2>2, <3>2 DEF Contained
  <2>3. Contained(s, k) => Contained(u, k)
    BY <2>2 DEF Contained
  <2> QED BY <1>1, <2>1, <2>3
<1>3. ASSUME NEW k \in 1 .. Len(t)
      PROVE  u[Len(s) + k].depth >= d /\ (u[Len(s) + k].depth > d => Contained(u, Len(s) + k))
  <2>1. t[k].depth >= d /\ (t[k].depth > d => Contained(t, k))
    BY DEF Nested
  <2>2. ASSUME NEW c \in 1 .. k - 1, t[c].kind = "size", t[k].depth = t[c].depth + 1,
               \A j \in c + 1 .. k : t[j].depth > t[c].depth
        PROVE  Contained(u, Len(s) + k)
    <3>1. u[Len(s) + c] = t[c] /\ u[Len(s) + k] = t[k]
          /\ Len(s) + c \in 1 .. (Len(s) + k) - 1
      BY <1>1
    <3>2. ASSUME NEW j \in (Len(s) + c) + 1 .. Len(s) + k
          PROVE  u[j].depth > t[c].depth
      <4>1. j - Len(s) \in c + 1 .. k /\ j - Len(s) \in 1 .. Len(t) /\ j = Len(s) + (j - Len(s))
        BY <1>1
      <4>2. u[j] = t[j - Len(s)]
        BY <1>1, <4>1
      <4> QED BY <2>2, <4>1, <4>2
    <3> QED BY <2>2, <3>1, <3>2 DEF Contained
  <2>3. Contained(t, k) => Contained(u, Len(s) + k)
    BY <2>2 DEF Contained
  <2> QED BY <1>1, <2>1, <2>3
<1>4. Nested(u, d)
  BY <1>1, <1>2, <1>3 DEF Nested
<1> QED BY <1>4 DEF u

\* A container and its elements.
LEMMA NestedSize ==
  ASSUME NEW x \in FieldSet, x.kind = "size",
         NEW s \in Seq(FieldSet), Nested(s, x.depth + 1)
  PROVE  Nested(<<x>> \o s, x.depth)
<1> DEFINE u == <<x>> \o s
<1>0. x.depth \in Nat
  BY DEF FieldSet
<1>1. /\ Len(s) \in Nat /\ Len(u) = 1 + Len(s) /\ u[1] = x
      /\ \A k \in 1 .. Len(s) : u[1 + k] = s[k]
      /\ \A k \in 1 .. Len(u) : k = 1 \/ \E j \in 1 .. Len(s) : k = 1 + j
  <2>1. <<x>> \in Seq(FieldSet) /\ Len(<<x>>) = 1 /\ <<x>>[1] = x
    OBVIOUS
  <2> QED BY <2>1, Joined DEF Joins
<1> HIDE DEF u
<1>2. \A k \in 1 .. Len(s) : s[k] \in FieldSet /\ s[k].depth \in Nat
  <2>1. \A k \in 1 .. Len(s) : s[k] \in FieldSet
    BY ElementOfSeq
  <2> QED BY <2>1 DEF FieldSet
<1>3. ASSUME NEW k \in 1 .. Len(s)
      PROVE  u[1 + k].depth > x.depth /\ Contained(u, 1 + k)
  <2>1. s[k].depth >= x.depth + 1 /\ (s[k].depth > x.depth + 1 => Contained(s, k))
    BY DEF Nested
  <2>2. u[1 + k] = s[k]
    BY <1>1
  <2>3. CASE s[k].depth = x.depth + 1
    <3>1. 1 \in 1 .. (1 + k) - 1
      OBVIOUS
    <3>2. ASSUME NEW j \in 1 + 1 .. 1 + k PROVE u[j].depth > u[1].depth
      <4>1. j - 1 \in 1 .. Len(s) /\ j = 1 + (j - 1)
        BY <1>1
      <4>2. u[j] = s[j - 1] /\ s[j - 1].depth >= x.depth + 1
        BY <1>1, <4>1 DEF Nested
      <4> QED BY <1>0, <1>1, <1>2, <4>1, <4>2
    <3>3. u[1].kind = "size" /\ u[1 + k].depth = u[1].depth + 1
      BY <1>1, <2>2, <2>3
    <3>4. Contained(u, 1 + k)
      BY <3>1, <3>2, <3>3 DEF Contained
    <3> QED BY <1>0, <2>2, <2>3, <3>4
  <2>4. ASSUME NEW c \in 1 .. k - 1, s[c].kind = "size", s[k].depth = s[c].depth + 1,
               \A j \in c + 1 .. k : s[j].depth > s[c].depth
        PROVE  Contained(u, 1 + k)
    <3>1. u[1 + c] = s[c] /\ 1 + c \in 1 .. (1 + k) - 1
      BY <1>1
    <3>2. ASSUME NEW j \in (1 + c) + 1 .. 1 + k PROVE u[j].depth > s[c].depth
      <4>1. j - 1 \in c + 1 .. k /\ j - 1 \in 1 .. Len(s) /\ j = 1 + (j - 1)
        BY <1>1
      <4>2. u[j] = s[j - 1]
        BY <1>1, <4>1
      <4> QED BY <2>4, <4>1, <4>2
    <3> QED BY <2>2, <2>4, <3>1, <3>2 DEF Contained
  <2>5. Contained(s, k) => Contained(u, 1 + k)
    BY <2>4 DEF Contained
  <2> QED BY <1>0, <1>2, <2>1, <2>2, <2>3, <2>5
<1>4. ASSUME NEW k \in 1 .. Len(u)
      PROVE  u[k].depth >= x.depth /\ (u[k].depth > x.depth => Contained(u, k))
  <2>1. CASE k = 1
    BY <1>0, <1>1, <2>1
  <2>2. ASSUME NEW j \in 1 .. Len(s), k = 1 + j PROVE u[k].depth > x.depth /\ Contained(u, k)
    BY <1>3, <2>2
  <2>3. ASSUME NEW j \in 1 .. Len(s), k = 1 + j PROVE u[k].depth >= x.depth
    <3>1. u[k].depth \in Nat
      BY <1>1, <1>2, <2>3
    <3> QED BY <1>0, <2>2, <2>3, <3>1
  <2> QED BY <1>1, <2>1, <2>2, <2>3
<1>5. Nested(u, x.depth)
  BY <1>4 DEF Nested
<1> QED BY <1>5 DEF u

-----------------------------------------------------------------------------
(***************************************************************************)
(* The pieces of one item.                                                 *)
(***************************************************************************)
LEMMA PartIsSequence ==
  ASSUME NEW s, NEW f, NEW d, Part(s, f, d)
  PROVE  s \in Seq(FieldSet) /\ Nested(s, d) /\ Len(s) \in Nat \ {0}
<1>1. s \in Seq(FieldSet) /\ Nested(s, d) /\ Len(s) > 0
  BY DEF Part
<1>2. Len(s) \in Nat
  BY <1>1, LenProperties
<1> QED BY <1>1, <1>2

\* The first n numbers of a piece may be of any kind.
LEMMA PartAfter ==
  ASSUME NEW f \in Nat, NEW d \in Nat, NEW e \in Nat,
         NEW s \in Seq(FieldSet), NEW t, Part(t, f, e),
         \A k \in 1 .. Len(s) : s[k].item = f,
         Nested(s \o t, d)
  PROVE  Part(s \o t, f, d)
<1> DEFINE u == s \o t
<1>1. t \in Seq(FieldSet) /\ Len(t) \in Nat \ {0}
  BY PartIsSequence
<1>0. u \in Seq(FieldSet) /\ Joins(u, s, t)
  BY <1>1, Joined
<1> HIDE DEF u
<1>2. /\ u \in Seq(FieldSet) /\ Len(s) \in Nat /\ Len(t) \in Nat /\ Len(u) = Len(s) + Len(t)
      /\ \A k \in 1 .. Len(s) : u[k] = s[k]
      /\ \A k \in 1 .. Len(t) : u[Len(s) + k] = t[k]
      /\ \A k \in 1 .. Len(u) : k \in 1 .. Len(s) \/ \E j \in 1 .. Len(t) : k = Len(s) + j
  BY <1>0 DEF Joins
<1>3. \A k \in 1 .. Len(t) : t[k].item = f
  BY DEF Part
<1>4. ASSUME NEW k \in 1 .. Len(u) PROVE u[k].item = f
  <2>1. CASE k \in 1 .. Len(s)
    BY <1>2, <2>1
  <2>2. ASSUME NEW j \in 1 .. Len(t), k = Len(s) + j PROVE u[k].item = f
    BY <1>2, <1>3, <2>2
  <2> QED BY <1>2, <2>1, <2>2
<1>5. u[Len(u)].kind # "local"
  <2>1. Len(t) \in 1 .. Len(t)
    BY <1>1
  <2>2. u[Len(u)] = t[Len(t)]
    BY <1>2, <2>1
  <2> QED BY <2>2 DEF Part
<1>6. Len(u) > 0
  BY <1>1, <1>2
<1>7. Nested(u, d)
  BY DEF u
<1>8. Part(u, f, d)
  BY <1>2, <1>4, <1>5, <1>6, <1>7 DEF Part
<1> QED BY <1>8 DEF u

LEMMA PartJoin ==
  ASSUME NEW f \in Nat, NEW d \in Nat, NEW s, Part(s, f, d), NEW t, Part(t, f, d)
  PROVE  Part(s \o t, f, d)
<1>1. s \in Seq(FieldSet) /\ Nested(s, d) /\ t \in Seq(FieldSet) /\ Nested(t, d)
  BY PartIsSequence
<1>2. Nested(s \o t, d)
  BY <1>1, NestedJoin
<1>3. \A k \in 1 .. Len(s) : s[k].item = f
  BY DEF Part
<1> QED BY <1>1, <1>2, <1>3, PartAfter

LEMMA PartOne ==
  ASSUME NEW f \in Nat, NEW d \in Nat, NEW kind \in Kinds \ {"local"}
  PROVE  Part(<<Field(f, d, kind)>>, f, d)
<1> DEFINE x == Field(f, d, kind)
<1>1. x \in FieldSet /\ x.item = f /\ x.depth = d /\ x.kind = kind
  BY FieldType DEF Field
<1> HIDE DEF x
<1>2. <<x>> \in Seq(FieldSet) /\ Len(<<x>>) = 1 /\ <<x>>[1] = x
  BY <1>1
<1>3. Nested(<<x>>, d)
  BY <1>1, <1>2 DEF Nested
<1>4. Part(<<x>>, f, d)
  BY <1>1, <1>2, <1>3 DEF Part
<1> QED BY <1>4 DEF x

LEMMA LenOfFunction ==
  ASSUME NEW S, NEW n \in Nat, NEW f \in [1 .. n -> S]
  PROVE  Len(f) = n /\ f \in Seq(S)
<1>1. f \in Seq(S)
  BY SeqDef
<1>2. DOMAIN f = 1 .. Len(f) /\ Len(f) \in Nat
  BY <1>1, LenProperties
<1>3. DOMAIN f = 1 .. n
  OBVIOUS
<1> QED BY <1>1, <1>2, <1>3

LEMMA PartRepeat ==
  ASSUME NEW f \in Nat, NEW d \in Nat, NEW n \in Nat \ {0}, NEW s, Part(s, f, d)
  PROVE  Part(Repeat(n, s), f, d)
<1> DEFINE seqs == [x \in 1 .. n |-> s]
           Parts == {p \in Seq(FieldSet) : Part(p, f, d)}
           P == [x \in 1 .. n |-> Parts]
<1>1. s \in Parts
  BY PartIsSequence
<1>2. Len(seqs) = n
  <2>1. seqs \in [1 .. n -> {s}]
    OBVIOUS
  <2> HIDE DEF seqs
  <2> QED BY <2>1, LenOfFunction
<1>3. seqs[1] \in P[1]
  BY <1>1
<1>4. ASSUME NEW k \in 1 .. n - 1, NEW p \in P[k] PROVE p \o seqs[k + 1] \in P[k + 1]
  <2>1. k \in 1 .. n /\ k + 1 \in 1 .. n
    OBVIOUS
  <2>2. p \in Parts /\ seqs[k + 1] = s /\ P[k + 1] = Parts
    BY <2>1
  <2>3. Part(p \o s, f, d)
    BY <2>2, PartJoin
  <2>4. p \o s \in Seq(FieldSet)
    BY <2>3, PartIsSequence
  <2> QED BY <2>2, <2>3, <2>4
<1>5. FlattenSeq(seqs) \in P[n]
  <2> HIDE DEF seqs, P
  <2> QED BY <1>2, <1>3, <1>4, FlattenInto
<1>6. Part(FlattenSeq(seqs), f, d)
  BY <1>5
<1> QED BY <1>6 DEF Repeat

\* A container of one item with its elements.
LEMMA PartContainer ==
  ASSUME NEW f \in Nat, NEW d \in Nat, NEW s, Part(s, f, d + 1)
  PROVE  /\ Part(Size(f, d) \o s, f, d)
         /\ (Size(f, d) \o s)[1] = Field(f, d, "size")
<1> DEFINE x == Field(f, d, "size")
<1>1. x \in FieldSet /\ x.item = f /\ x.depth = d /\ x.kind = "size"
  BY FieldType DEF Field, Kinds
<1>2. Size(f, d) = <<x>>
  BY DEF Size
<1> HIDE DEF x
<1>3. <<x>> \in Seq(FieldSet) /\ Len(<<x>>) = 1 /\ <<x>>[1] = x
  BY <1>1
<1>4. s \in Seq(FieldSet) /\ Nested(s, d + 1) /\ d + 1 \in Nat
  BY PartIsSequence
<1>5. Nested(<<x>> \o s, d)
  BY <1>1, <1>4, NestedSize
<1>6. Part(<<x>> \o s, f, d)
  <2>1. \A k \in 1 .. Len(<<x>>) : <<x>>[k].item = f
    BY <1>1, <1>3
  <2> QED BY <1>3, <1>4, <1>5, <2>1, PartAfter
<1>7. (<<x>> \o s)[1] = x
  BY <1>3, <1>4, Joined DEF Joins
<1> QED BY <1>2, <1>6, <1>7 DEF x

LEMMA PartMatrix ==
  ASSUME NEW f \in Nat, NEW d \in Nat
  PROVE  Part(Matrix(f, f, d), f, d)
<1> DEFINE x == Field(f, d, "local")
           r == Repeat(Numbers, Float(f, d + 1))
<1>1. x \in FieldSet /\ x.item = f /\ x.depth = d
  BY FieldType DEF Field, Kinds
<1>2. Part(r, f, d + 1)
  <2>1. Part(Float(f, d + 1), f, d + 1)
    BY PartOne DEF Float, Kinds
  <2>2. Numbers \in Nat \ {0} /\ d + 1 \in Nat
    BY SizesAssumption
  <2> QED BY <2>1, <2>2, PartRepeat
<1>3. Part(Size(f, d) \o r, f, d)
  <2> HIDE DEF r
  <2> QED BY <1>2, PartContainer
<1>4. Size(f, d) \in Seq(FieldSet)
  <2>1. Part(Size(f, d), f, d)
    BY PartOne DEF Size, Kinds
  <2> QED BY <2>1, PartIsSequence
<1>5. Matrix(f, f, d) = (<<x>> \o Size(f, d)) \o r
  BY DEF Matrix
<1> HIDE DEF x, r
<1>6. <<x>> \in Seq(FieldSet) /\ Len(<<x>>) = 1 /\ <<x>>[1] = x
  BY <1>1
<1>7. Matrix(f, f, d) = <<x>> \o (Size(f, d) \o r)
  <2>1. r \in Seq(FieldSet)
    BY <1>2, PartIsSequence
  <2> QED BY <1>4, <1>5, <1>6, <2>1, ConcatAssociative
<1>8. Nested(<<x>>, d)
  BY <1>1, <1>6 DEF Nested
<1>9. Nested(<<x>> \o (Size(f, d) \o r), d)
  BY <1>3, <1>6, <1>8, PartIsSequence, NestedJoin
<1>10. \A k \in 1 .. Len(<<x>>) : <<x>>[k].item = f
  BY <1>1, <1>6
<1> QED BY <1>3, <1>6, <1>7, <1>9, <1>10, PartAfter

LEMMA Items ==
  /\ Cascades \in Nat \ {0}
  /\ Version = 0 /\ ShapeSize = 1 /\ ShapeValues = 2 /\ ForestCount = 3
  /\ AnchorCount = 4 + Cascades /\ DeltaCount = 5 + 2 * Cascades
  /\ Delta(Cascades) = 5 + 3 * Cascades /\ FileLength = 6 + 3 * Cascades
  /\ \A l \in 1 .. Cascades :
       /\ l \in Nat
       /\ Forest(l) = 3 + l /\ Anchor(l) = 4 + Cascades + l /\ Delta(l) = 5 + 2 * Cascades + l
       /\ {Forest(l), Anchor(l), Delta(l)} \subseteq Elements
BY CascadesAssumption
   DEF Version, ShapeSize, ShapeValues, ForestCount, AnchorCount, DeltaCount, Forest, Anchor, Delta,
       FileLength, Fields, Elements

LEMMA PartFeature ==
  ASSUME NEW l \in Levels
  PROVE  Part(split_feature(l), Forest(l), 3)
<1>1. Forest(l) \in Nat
  BY Items DEF Levels
<1>2. Part(Integer(Forest(l), 3), Forest(l), 3) /\ Part(Float(Forest(l), 3), Forest(l), 3)
  BY <1>1, PartOne DEF Integer, Float, Kinds
<1>3. Part(Integer(Forest(l), 3) \o Integer(Forest(l), 3), Forest(l), 3)
  BY <1>1, <1>2, PartJoin
<1> QED BY <1>1, <1>2, <1>3, PartJoin DEF split_feature

LEMMA PartTree ==
  ASSUME NEW l \in Levels
  PROVE  Part(regression_tree(l), Forest(l), 2)
<1> DEFINE f == Forest(l)
           a == Repeat(Splits, split_feature(l))
           b == Repeat(Splits + 1, Matrix(f, f, 3))
           c == Size(f, 2)
<1>1. f \in Nat /\ 2 + 1 = 3
  BY Items DEF Levels
<1>2. Splits \in Nat \ {0} /\ Splits + 1 \in Nat \ {0}
  BY SizesAssumption
<1>3. regression_tree(l) = ((c \o a) \o c) \o b
  BY DEF regression_tree
<1>4. Part(a, f, 3)
  BY <1>1, <1>2, PartFeature, PartRepeat
<1>5. Part(b, f, 3)
  BY <1>1, <1>2, PartMatrix, PartRepeat
<1>6. c \in Seq(FieldSet)
  <2>1. Part(c, f, 2)
    BY <1>1, PartOne DEF Size, Kinds
  <2> QED BY <2>1, PartIsSequence
<1> HIDE DEF a, b, f
<1>7. Part(c \o a, f, 2) /\ Part(c \o b, f, 2)
  BY <1>1, <1>4, <1>5, PartContainer
<1> HIDE DEF c
<1>8. ((c \o a) \o c) \o b = (c \o a) \o (c \o b)
  <2>1. c \o a \in Seq(FieldSet) /\ b \in Seq(FieldSet)
    BY <1>5, <1>7, PartIsSequence
  <2> QED BY <1>6, <2>1, ConcatAssociative
<1>9. Part(regression_tree(l), f, 2)
  BY <1>1, <1>3, <1>7, <1>8, PartJoin
<1> QED BY <1>9 DEF f

-----------------------------------------------------------------------------
(***************************************************************************)
(* The file in item order.                                                 *)
(***************************************************************************)
Ordered(s) == \A j \in 1 .. Len(s) : \A k \in j .. Len(s) : s[j].item <= s[k].item

Gapless(s) == \A k \in 1 .. Len(s) - 1 : s[k + 1].item \in {s[k].item, s[k].item + 1}

Complete(s, lo, hi) == \A f \in lo .. hi : \E k \in 1 .. Len(s) : s[k].item = f

\* An item that is kept does not end in fields that are not.
Kept(s) ==
  \A k \in 1 .. Len(s) : s[k].item # Version =>
    \E j \in k .. Len(s) : s[j].item = s[k].item /\ s[j].kind # "local"

\* Every item but the values of the shape holds the size of a container; an item
\* with numbers that a failed read may zero begins with one.
Sized(s) ==
  \A k \in 1 .. Len(s) :
    /\ s[k].item \notin {Version, ShapeValues} =>
         \E j \in 1 .. Len(s) : s[j].item = s[k].item /\ s[j].kind = "size"
    /\ s[k].kind \in {"int", "point"} =>
         \E j \in 1 .. k - 1 : s[j].item = s[k].item /\ s[j].kind = "size"

Numeric(s) == \A k \in 1 .. Len(s) : s[k].kind \in {"int", "point"} => s[k].item \in Elements

Segment(s, lo, hi) ==
  /\ s \in Seq(FieldSet) /\ Len(s) > 0
  /\ s[1].item = lo /\ s[Len(s)].item = hi
  /\ Ordered(s) /\ Gapless(s) /\ Complete(s, lo, hi)
  /\ Kept(s) /\ Sized(s) /\ Numeric(s)

LEMMA SegmentJoin ==
  ASSUME NEW a \in Nat, NEW b \in Nat, NEW c \in {b, b + 1}, NEW e \in Nat,
         NEW s, Segment(s, a, b), NEW t, Segment(t, c, e)
  PROVE  Segment(s \o t, a, e)
<1> DEFINE u == s \o t
           m == Len(s)
           n == Len(t)
<1>1. /\ s \in Seq(FieldSet) /\ t \in Seq(FieldSet)
      /\ m \in Nat \ {0} /\ n \in Nat \ {0}
  BY LenProperties DEF Segment
<1>2. /\ u \in Seq(FieldSet) /\ Len(u) = m + n
      /\ \A k \in 1 .. m : u[k] = s[k]
      /\ \A k \in 1 .. n : u[m + k] = t[k]
      /\ \A k \in 1 .. Len(u) : k \in 1 .. m \/ \E j \in 1 .. n : k = m + j
  BY <1>1, Joined DEF Joins
<1>3. /\ s[1].item = a /\ s[m].item = b /\ Ordered(s) /\ Gapless(s) /\ Complete(s, a, b)
      /\ Kept(s) /\ Sized(s) /\ Numeric(s)
      /\ t[1].item = c /\ t[n].item = e /\ Ordered(t) /\ Gapless(t) /\ Complete(t, c, e)
      /\ Kept(t) /\ Sized(t) /\ Numeric(t)
  BY DEF Segment
<1>4. (\A k \in 1 .. m : s[k].item \in Nat) /\ (\A k \in 1 .. n : t[k].item \in Nat)
  <2>1. (\A k \in 1 .. m : s[k] \in FieldSet) /\ (\A k \in 1 .. n : t[k] \in FieldSet)
    BY <1>1, ElementOfSeq
  <2> QED BY <2>1 DEF FieldSet
<1> HIDE DEF u, m, n
<1>5. u[1].item = a /\ u[Len(u)].item = e /\ Len(u) > 0
  <2>1. 1 \in 1 .. m /\ n \in 1 .. n
    BY <1>1
  <2>2. u[1] = s[1] /\ u[m + n] = t[n] /\ Len(u) = m + n
    BY <1>2, <2>1
  <2>3. m + n > 0
    BY <1>1
  <2> QED BY <1>3, <2>2, <2>3
<1>6. Ordered(u)
  <2>1. \A j \in 1 .. m : s[j].item <= b
    <3>1. \A j \in 1 .. m : m \in j .. m
      BY <1>1
    <3> QED BY <1>3, <3>1 DEF Ordered, m
  <2>2. \A k \in 1 .. n : c <= t[k].item
    <3>1. 1 \in 1 .. n /\ \A k \in 1 .. n : k \in 1 .. n
      BY <1>1
    <3> QED BY <1>3, <3>1 DEF Ordered, n
  <2>3. ASSUME NEW j \in 1 .. Len(u), NEW k \in j .. Len(u) PROVE u[j].item <= u[k].item
    <3>1. CASE k \in 1 .. m
      <4>1. j \in 1 .. m /\ k \in j .. m
        BY <1>1, <3>1
      <4>2. u[j] = s[j] /\ u[k] = s[k]
        BY <1>2, <4>1
      <4> QED BY <1>3, <4>1, <4>2 DEF Ordered, m
    <3>2. ASSUME NEW i \in 1 .. n, k = m + i, j \in 1 .. m PROVE u[j].item <= u[k].item
      <4>1. u[j] = s[j] /\ u[k] = t[i]
        BY <1>2, <3>2
      <4>2. s[j].item <= b /\ c <= t[i].item /\ s[j].item \in Nat /\ t[i].item \in Nat
        BY <1>4, <2>1, <2>2, <3>2
      <4>3. \A x \in Nat, y \in Nat : x <= b /\ c <= y => x <= y
        OBVIOUS
      <4>4. s[j].item <= t[i].item
        BY <4>2, <4>3
      <4> QED BY <4>1, <4>4
    <3>3. ASSUME NEW i \in 1 .. n, k = m + i, NEW h \in 1 .. n, j = m + h PROVE u[j].item <= u[k].item
      <4>1. u[j] = t[h] /\ u[k] = t[i]
        BY <1>2, <3>3
      <4>2. i \in h .. n
        BY <1>1, <3>3
      <4> QED BY <1>3, <4>1, <4>2 DEF Ordered, n
    <3>4. k \in 1 .. Len(u)
      BY <1>1, <1>2
    <3> QED BY <1>2, <3>1, <3>2, <3>3, <3>4
  <2> QED BY <2>3 DEF Ordered
<1>7. Gapless(u)
  <2> SUFFICES ASSUME NEW k \in 1 .. Len(u) - 1 PROVE u[k + 1].item \in {u[k].item, u[k].item + 1}
    BY DEF Gapless
  <2>1. CASE k \in 1 .. m - 1
    <3>1. k \in 1 .. m /\ k + 1 \in 1 .. m
      BY <1>1, <2>1
    <3> QED BY <1>2, <1>3, <2>1, <3>1 DEF Gapless, m
  <2>2. CASE k = m
    <3>1. m \in 1 .. m /\ 1 \in 1 .. n
      BY <1>1
    <3>2. u[k] = s[m] /\ u[k + 1] = t[1]
      BY <1>2, <2>2, <3>1
    <3> QED BY <1>3, <3>2
  <2>3. ASSUME NEW j \in 1 .. n - 1, k = m + j PROVE u[k + 1].item \in {u[k].item, u[k].item + 1}
    <3>1. j \in 1 .. n /\ j + 1 \in 1 .. n /\ k + 1 = m + (j + 1)
      BY <1>1, <2>3
    <3>2. u[k] = t[j] /\ u[k + 1] = t[j + 1]
      BY <1>2, <2>3, <3>1
    <3> QED BY <1>3, <3>2, <2>3 DEF Gapless, n
  <2>4. k \in 1 .. m - 1 \/ k = m \/ (k - m \in 1 .. n - 1 /\ k = m + (k - m))
    BY <1>1, <1>2
  <2> QED BY <2>1, <2>2, <2>3, <2>4
<1>8. Complete(u, a, e)
  <2> SUFFICES ASSUME NEW f \in a .. e PROVE \E k \in 1 .. Len(u) : u[k].item = f
    BY DEF Complete
  <2>1. CASE f \in a .. b
    <3>1. PICK k \in 1 .. m : s[k].item = f
      BY <1>3, <2>1 DEF Complete, m
    <3>2. k \in 1 .. Len(u) /\ u[k] = s[k]
      BY <1>1, <1>2
    <3> QED BY <3>1, <3>2
  <2>2. CASE f \in c .. e
    <3>1. PICK k \in 1 .. n : t[k].item = f
      BY <1>3, <2>2 DEF Complete, n
    <3>2. m + k \in 1 .. Len(u) /\ u[m + k] = t[k]
      BY <1>1, <1>2
    <3> QED BY <3>1, <3>2
  <2>3. f \in a .. b \/ f \in c .. e
    OBVIOUS
  <2> QED BY <2>1, <2>2, <2>3
<1>9. Kept(u)
  <2> SUFFICES ASSUME NEW k \in 1 .. Len(u), u[k].item # Version
               PROVE  \E j \in k .. Len(u) : u[j].item = u[k].item /\ u[j].kind # "local"
    BY DEF Kept
  <2>1. CASE k \in 1 .. m
    <3>1. u[k] = s[k]
      BY <1>2, <2>1
    <3>2. PICK j \in k .. m : s[j].item = s[k].item /\ s[j].kind # "local"
      BY <1>3, <2>1, <3>1 DEF Kept, m
    <3>3. j \in k .. Len(u) /\ j \in 1 .. m
      BY <1>1, <1>2, <2>1
    <3>4. u[j] = s[j]
      BY <1>2, <3>3
    <3> QED BY <3>1, <3>2, <3>3, <3>4
  <2>2. ASSUME NEW i \in 1 .. n, k = m + i
        PROVE  \E j \in k .. Len(u) : u[j].item = u[k].item /\ u[j].kind # "local"
    <3>1. u[k] = t[i]
      BY <1>2, <2>2
    <3>2. PICK j \in i .. n : t[j].item = t[i].item /\ t[j].kind # "local"
      BY <1>3, <3>1 DEF Kept, n
    <3>3. m + j \in k .. Len(u) /\ j \in 1 .. n
      <4>1. Len(u) = m + n
        BY <1>2
      <4> QED BY <1>1, <2>2, <4>1
    <3>4. u[m + j] = t[j]
      BY <1>2, <3>3
    <3> QED BY <3>1, <3>2, <3>3, <3>4
  <2> QED BY <1>2, <2>1, <2>2
<1>10. Sized(u)
  <2>1. ASSUME NEW k \in 1 .. m
        PROVE  /\ u[k].item \notin {Version, ShapeValues} =>
                    \E j \in 1 .. Len(u) : u[j].item = u[k].item /\ u[j].kind = "size"
               /\ u[k].kind \in {"int", "point"} =>
                    \E j \in 1 .. k - 1 : u[j].item = u[k].item /\ u[j].kind = "size"
    <3>1. u[k] = s[k]
      BY <1>2
    <3>2. ASSUME NEW j \in 1 .. m PROVE j \in 1 .. Len(u) /\ u[j] = s[j]
      BY <1>1, <1>2
    <3>3. /\ s[k].item \notin {Version, ShapeValues} =>
               \E j \in 1 .. m : s[j].item = s[k].item /\ s[j].kind = "size"
          /\ s[k].kind \in {"int", "point"} =>
               \E j \in 1 .. k - 1 : s[j].item = s[k].item /\ s[j].kind = "size"
      BY <1>3 DEF Sized, m
    <3>4. \A j \in 1 .. k - 1 : j \in 1 .. m
      BY <1>1
    <3> QED BY <3>1, <3>2, <3>3, <3>4
  <2>2. ASSUME NEW i \in 1 .. n, NEW k, k = m + i
        PROVE  /\ u[k].item \notin {Version, ShapeValues} =>
                    \E j \in 1 .. Len(u) : u[j].item = u[k].item /\ u[j].kind = "size"
               /\ u[k].kind \in {"int", "point"} =>
                    \E j \in 1 .. k - 1 : u[j].item = u[k].item /\ u[j].kind = "size"
    <3>1. u[k] = t[i]
      BY <1>2, <2>2
    <3>2. ASSUME NEW j \in 1 .. n PROVE m + j \in 1 .. Len(u) /\ u[m + j] = t[j]
      BY <1>1, <1>2
    <3>3. /\ t[i].item \notin {Version, ShapeValues} =>
               \E j \in 1 .. n : t[j].item = t[i].item /\ t[j].kind = "size"
          /\ t[i].kind \in {"int", "point"} =>
               \E j \in 1 .. i - 1 : t[j].item = t[i].item /\ t[j].kind = "size"
      BY <1>3 DEF Sized, n
    <3>4. \A j \in 1 .. i - 1 : j \in 1 .. n /\ m + j \in 1 .. k - 1
      BY <1>1, <2>2
    <3> QED BY <3>1, <3>2, <3>3, <3>4
  <2>3. ASSUME NEW k \in 1 .. Len(u)
        PROVE  /\ u[k].item \notin {Version, ShapeValues} =>
                    \E j \in 1 .. Len(u) : u[j].item = u[k].item /\ u[j].kind = "size"
               /\ u[k].kind \in {"int", "point"} =>
                    \E j \in 1 .. k - 1 : u[j].item = u[k].item /\ u[j].kind = "size"
    BY <1>2, <2>1, <2>2
  <2> QED BY <2>3 DEF Sized
<1>11. Numeric(u)
  <2>1. ASSUME NEW k \in 1 .. Len(u), u[k].kind \in {"int", "point"} PROVE u[k].item \in Elements
    <3>1. CASE k \in 1 .. m
      BY <1>2, <1>3, <2>1, <3>1 DEF Numeric, m
    <3>2. ASSUME NEW j \in 1 .. n, k = m + j PROVE u[k].item \in Elements
      BY <1>2, <1>3, <2>1, <3>2 DEF Numeric, n
    <3> QED BY <1>2, <3>1, <3>2
  <2> QED BY <2>1 DEF Numeric
<1>12. Segment(u, a, e)
  BY <1>2, <1>5, <1>6, <1>7, <1>8, <1>9, <1>10, <1>11 DEF Segment
<1> QED BY <1>12 DEF u

\* A piece of one item.
LEMMA SegmentOfItem ==
  ASSUME NEW f \in Nat, NEW d \in Nat, NEW s, Part(s, f, d),
         s[1].kind = "size" \/ f = ShapeValues,
         \A k \in 1 .. Len(s) :
           s[k].kind \in {"int", "point"} => f \in Elements /\ s[1].kind \notin {"int", "point"}
  PROVE  Segment(s, f, f)
<1>1. s \in Seq(FieldSet) /\ Len(s) \in Nat \ {0}
  BY PartIsSequence
<1>2. (\A k \in 1 .. Len(s) : s[k].item = f) /\ s[Len(s)].kind # "local"
  BY DEF Part
<1>3. 1 \in 1 .. Len(s) /\ Len(s) \in 1 .. Len(s)
  BY <1>1
<1>4. Ordered(s)
  BY <1>1, <1>2 DEF Ordered
<1>5. Gapless(s)
  <2>1. \A k \in 1 .. Len(s) - 1 : k \in 1 .. Len(s) /\ k + 1 \in 1 .. Len(s)
    BY <1>1
  <2> QED BY <1>2, <2>1 DEF Gapless
<1>6. Complete(s, f, f)
  BY <1>2, <1>3 DEF Complete
<1>7. Kept(s)
  <2>1. \A k \in 1 .. Len(s) : Len(s) \in k .. Len(s)
    BY <1>1
  <2> QED BY <1>2, <1>3, <2>1 DEF Kept
<1>8. Sized(s)
  <2> SUFFICES ASSUME NEW k \in 1 .. Len(s)
               PROVE  /\ s[k].item \notin {Version, ShapeValues} =>
                           \E j \in 1 .. Len(s) : s[j].item = s[k].item /\ s[j].kind = "size"
                      /\ s[k].kind \in {"int", "point"} =>
                           \E j \in 1 .. k - 1 : s[j].item = s[k].item /\ s[j].kind = "size"
    BY DEF Sized
  <2>1. ASSUME s[k].item \notin {Version, ShapeValues} PROVE s[1].kind = "size"
    BY <1>2, <2>1
  <2>2. ASSUME s[k].kind \in {"int", "point"} PROVE 1 \in 1 .. k - 1 /\ s[1].kind = "size"
    <3>1. k # 1 /\ f \in Elements
      BY <2>2
    <3>2. 1 \in 1 .. k - 1
      BY <1>1, <3>1
    <3>3. f # ShapeValues
      BY <3>1 DEF Elements
    <3> QED BY <3>2, <3>3
  <2> QED BY <1>2, <1>3, <2>1, <2>2
<1>9. Numeric(s)
  BY <1>2 DEF Numeric
<1> QED BY <1>1, <1>2, <1>3, <1>4, <1>5, <1>6, <1>7, <1>8, <1>9 DEF Segment

\* An element of one of the three vectors.
LEMMA VectorSegment ==
  ASSUME NEW f \in Elements, f \in Nat, NEW n \in Nat \ {0}, NEW element, Part(element, f, 2)
  PROVE  Segment(Vector(f, n, element), f, f) /\ Nested(Vector(f, n, element), 1)
<1> DEFINE v == Vector(f, n, element)
           r == Repeat(n, element)
<1>1. 1 \in Nat /\ 1 + 1 \in Nat /\ 1 + 1 = 2
  OBVIOUS
<1>2. Part(r, f, 2)
  BY PartRepeat
<1>3. v = Size(f, 1) \o r
  BY DEF Vector
<1> HIDE DEF v, r
<1>4. Part(v, f, 1) /\ v[1] = Field(f, 1, "size")
  BY <1>1, <1>2, <1>3, PartContainer
<1>5. v[1].kind = "size"
  BY <1>4 DEF Field
<1>6. Segment(v, f, f)
  BY <1>1, <1>4, <1>5, SegmentOfItem
<1> QED BY <1>4, <1>6, PartIsSequence DEF v

\* A vector of vectors.
LEMMA VectorsSegment ==
  ASSUME NEW count \in Nat, count \notin {Version, ShapeValues}, NEW levels, Len(levels) = Cascades,
         \A l \in Levels : Segment(levels[l], count + l, count + l) /\ Nested(levels[l], 1)
  PROVE  /\ Segment(Vectors(count, levels), count, count + Cascades)
         /\ Nested(Vectors(count, levels), 0)
<1> DEFINE C == Cascades
           pieces(l) == {s \in Seq(FieldSet) : Segment(s, count + 1, count + l) /\ Nested(s, 1)}
           P == [l \in 1 .. C |-> pieces(l)]
<1>1. C \in Nat \ {0} /\ Levels = 1 .. C
  BY Items DEF Levels
<1>2. ASSUME NEW l \in 1 .. C PROVE levels[l] \in Seq(FieldSet)
  BY <1>1 DEF Segment
<1>3. levels[1] \in P[1]
  BY <1>1, <1>2
<1>4. ASSUME NEW k \in 1 .. C - 1, NEW s \in P[k] PROVE s \o levels[k + 1] \in P[k + 1]
  <2>1. k \in 1 .. C /\ k + 1 \in 1 .. C /\ k \in Nat
    BY <1>1
  <2>2. s \in Seq(FieldSet) /\ Segment(s, count + 1, count + k) /\ Nested(s, 1)
    BY <2>1
  <2>3. /\ levels[k + 1] \in Seq(FieldSet) /\ Nested(levels[k + 1], 1)
        /\ Segment(levels[k + 1], count + (k + 1), count + (k + 1))
    BY <1>1, <1>2, <2>1
  <2>4. /\ count + (k + 1) \in {count + k, (count + k) + 1}
        /\ count + 1 \in Nat /\ count + k \in Nat /\ count + (k + 1) \in Nat
    BY <2>1
  <2>5. Segment(s \o levels[k + 1], count + 1, count + (k + 1))
    BY <2>2, <2>3, <2>4, SegmentJoin
  <2>6. Nested(s \o levels[k + 1], 1) /\ s \o levels[k + 1] \in Seq(FieldSet)
    BY <2>2, <2>3, NestedJoin, Joined
  <2> QED BY <2>1, <2>5, <2>6
<1> DEFINE r == FlattenSeq(levels)
           x == Field(count, 0, "size")
<1>5. r \in P[C]
  <2> HIDE DEF P
  <2> QED BY <1>1, <1>3, <1>4, FlattenInto
<1>6. C \in 1 .. C
  BY <1>1
<1>7. r \in Seq(FieldSet) /\ Segment(r, count + 1, count + C) /\ Nested(r, 1)
  <2> HIDE DEF r
  <2> QED BY <1>5, <1>6
<1>8. x \in FieldSet /\ x.depth = 0 /\ x.kind = "size" /\ Part(<<x>>, count, 0)
  BY FieldType, PartOne DEF Field, Kinds
<1>9. Vectors(count, levels) = <<x>> \o r
  BY DEF Vectors, Size
<1> HIDE DEF r, x, C
<1>10. Nested(<<x>> \o r, 0)
  <2>1. Nested(r, x.depth + 1)
    BY <1>7, <1>8
  <2>2. Nested(<<x>> \o r, x.depth)
    BY <1>7, <1>8, <2>1, NestedSize
  <2> QED BY <1>8, <2>2
<1>11. Segment(<<x>>, count, count)
  <2>1. Len(<<x>>) = 1 /\ <<x>>[1] = x
    OBVIOUS
  <2> QED BY <1>8, <2>1, SegmentOfItem
<1>12. Segment(<<x>> \o r, count, count + C)
  <2>1. count + 1 \in {count, count + 1} /\ count + C \in Nat
    BY <1>1
  <2> QED BY <1>7, <1>11, <2>1, SegmentJoin
<1> QED BY <1>9, <1>10, <1>12 DEF C

LEMMA SegmentRepeat ==
  ASSUME NEW f \in Nat, NEW d \in Nat, NEW n \in Nat \ {0}, NEW s, Segment(s, f, f), Nested(s, d)
  PROVE  Segment(Repeat(n, s), f, f) /\ Nested(Repeat(n, s), d)
<1> DEFINE seqs == [x \in 1 .. n |-> s]
           pieces == {p \in Seq(FieldSet) : Segment(p, f, f) /\ Nested(p, d)}
           P == [x \in 1 .. n |-> pieces]
<1>1. s \in pieces
  BY DEF Segment
<1>2. Len(seqs) = n
  <2>1. seqs \in [1 .. n -> {s}]
    OBVIOUS
  <2> HIDE DEF seqs
  <2> QED BY <2>1, LenOfFunction
<1>3. seqs[1] \in P[1]
  BY <1>1
<1>4. ASSUME NEW k \in 1 .. n - 1, NEW p \in P[k] PROVE p \o seqs[k + 1] \in P[k + 1]
  <2>1. k \in 1 .. n /\ k + 1 \in 1 .. n
    OBVIOUS
  <2>2. p \in pieces /\ seqs[k + 1] = s /\ P[k + 1] = pieces
    BY <2>1
  <2>3. Segment(p \o s, f, f)
    BY <2>2, SegmentJoin
  <2>4. Nested(p \o s, d) /\ p \o s \in Seq(FieldSet)
    BY <1>1, <2>2, NestedJoin, Joined
  <2> QED BY <2>2, <2>3, <2>4
<1>5. FlattenSeq(seqs) \in P[n]
  <2> HIDE DEF seqs, P
  <2> QED BY <1>2, <1>3, <1>4, FlattenInto
<1>6. Segment(FlattenSeq(seqs), f, f) /\ Nested(FlattenSeq(seqs), d)
  BY <1>5
<1> QED BY <1>6 DEF Repeat

\* The version and the shape.
Header == <<Field(Version, 0, "local")>> \o Matrix(ShapeSize, ShapeValues, 0)

LEMMA HeaderSegment == Segment(Header, 0, 2) /\ Nested(Header, 0)
<1> DEFINE v == Field(Version, 0, "local")
           x == Field(ShapeSize, 0, "local")
           y == Field(ShapeSize, 0, "size")
           r == Repeat(Numbers, Float(ShapeValues, 0 + 1))
           m == Matrix(ShapeSize, ShapeValues, 0)
<1>1. Version = 0 /\ ShapeSize = 1 /\ ShapeValues = 2
  BY Items
<1>2. /\ v \in FieldSet /\ v.item = 0 /\ v.depth = 0 /\ v.kind = "local"
      /\ x \in FieldSet /\ x.item = 1 /\ x.depth = 0 /\ x.kind = "local"
      /\ y \in FieldSet /\ y.item = 1 /\ y.depth = 0 /\ y.kind = "size"
  BY <1>1, FieldType DEF Field, Kinds
<1>3. Segment(r, 2, 2) /\ Nested(r, 1)
  <2> DEFINE z == Field(2, 1, "float")
  <2>1. Part(<<z>>, 2, 1) /\ z.kind = "float"
    BY PartOne DEF Kinds, Field
  <2> HIDE DEF z
  <2>2. Len(<<z>>) = 1 /\ <<z>>[1] = z
    OBVIOUS
  <2>3. Segment(<<z>>, 2, 2) /\ Nested(<<z>>, 1)
    BY <1>1, <2>1, <2>2, SegmentOfItem, PartIsSequence
  <2>4. Numbers \in Nat \ {0} /\ 0 + 1 = 1
    BY SizesAssumption
  <2>5. r = Repeat(Numbers, <<z>>)
    BY <1>1, <2>4 DEF Float, z
  <2> QED BY <2>3, <2>4, <2>5, SegmentRepeat
<1>4. m = (<<x>> \o <<y>>) \o r /\ Header = <<v>> \o m
  BY DEF Matrix, Size, Header
<1> HIDE DEF v, x, y, r, m
<1>5. /\ <<v>> \in Seq(FieldSet) /\ Len(<<v>>) = 1 /\ <<v>>[1] = v
      /\ <<x>> \in Seq(FieldSet) /\ Len(<<x>>) = 1 /\ <<x>>[1] = x
      /\ <<y>> \in Seq(FieldSet)
      /\ <<x>> \o <<y>> \in Seq(FieldSet) /\ Len(<<x>> \o <<y>>) = 2
      /\ (<<x>> \o <<y>>)[1] = x /\ (<<x>> \o <<y>>)[2] = y
  BY <1>2
<1>6. Segment(<<v>>, 0, 0)
  <2>1. /\ Ordered(<<v>>) /\ Gapless(<<v>>) /\ Complete(<<v>>, 0, 0)
        /\ Kept(<<v>>) /\ Sized(<<v>>) /\ Numeric(<<v>>)
    BY <1>1, <1>2, <1>5 DEF Ordered, Gapless, Complete, Kept, Sized, Numeric
  <2> QED BY <1>2, <1>5, <2>1 DEF Segment
<1>7. Segment(<<x>> \o <<y>>, 1, 1)
  <2> DEFINE u == <<x>> \o <<y>>
  <2>1. u \in Seq(FieldSet) /\ Len(u) = 2 /\ u[1] = x /\ u[2] = y
    BY <1>5
  <2> HIDE DEF u
  <2>2. /\ \A k \in 1 .. Len(u) : k \in {1, 2} /\ u[k].item = 1 /\ u[k].kind \notin {"int", "point"}
        /\ 2 \in 1 .. Len(u) /\ u[2].kind = "size" /\ u[1].item = 1
        /\ \A k \in 1 .. Len(u) : 2 \in k .. Len(u)
    BY <1>2, <2>1
  <2>3. Ordered(u) /\ Complete(u, 1, 1) /\ Numeric(u)
    BY <2>2 DEF Ordered, Complete, Numeric
  <2>4. Gapless(u)
    BY <2>1, <2>2 DEF Gapless
  <2>5. Kept(u) /\ Sized(u)
    BY <2>2 DEF Kept, Sized
  <2>6. Segment(u, 1, 1)
    BY <2>1, <2>2, <2>3, <2>4, <2>5 DEF Segment
  <2> QED BY <2>6 DEF u
<1>8. Segment(m, 1, 2)
  <2>1. 1 \in Nat /\ 2 \in {1, 1 + 1} /\ 2 \in Nat
    OBVIOUS
  <2> QED BY <1>3, <1>4, <1>7, <2>1, SegmentJoin
<1>9. Segment(Header, 0, 2)
  <2>1. 0 \in Nat /\ 1 \in {0, 0 + 1} /\ 2 \in Nat
    OBVIOUS
  <2> QED BY <1>4, <1>6, <1>8, <2>1, SegmentJoin
<1>10. Nested(<<v>>, 0) /\ Nested(<<x>>, 0)
  BY <1>2, <1>5 DEF Nested
<1>11. Nested(m, 0)
  <2>1. r \in Seq(FieldSet)
    BY <1>3 DEF Segment
  <2>2. Nested(<<y>> \o r, 0)
    <3>1. Nested(r, y.depth + 1)
      BY <1>2, <1>3
    <3>2. Nested(<<y>> \o r, y.depth)
      BY <1>2, <2>1, <3>1, NestedSize
    <3> QED BY <1>2, <3>2
  <2>3. m = <<x>> \o (<<y>> \o r) /\ <<y>> \o r \in Seq(FieldSet)
    BY <1>4, <1>5, <2>1, ConcatAssociative, Joined
  <2> QED BY <1>5, <1>10, <2>2, <2>3, NestedJoin
<1>12. m \in Seq(FieldSet)
  BY <1>8 DEF Segment
<1> QED BY <1>4, <1>5, <1>9, <1>10, <1>11, <1>12, NestedJoin

\* The whole file.
LEMMA FileShape == Segment(File, 0, Delta(Cascades)) /\ Nested(File, 0)
<1> DEFINE C == Cascades
           forests == [l \in Levels |-> Vector(Forest(l), Trees, regression_tree(l))]
           anchors == [l \in Levels |-> Vector(Anchor(l), Pixels, anchor_idx(l))]
           pixels  == [l \in Levels |-> Vector(Delta(l), Pixels, delta(l))]
           a == Vectors(ForestCount, forests)
           b == Vectors(AnchorCount, anchors)
           c == Vectors(DeltaCount, pixels)
<1>1. C \in Nat \ {0} /\ Levels = 1 .. C
  BY Items DEF Levels
<1>2. Trees \in Nat \ {0} /\ Pixels \in Nat \ {0}
  BY SizesAssumption
<1>3. ASSUME NEW S, NEW f \in [Levels -> S] PROVE Len(f) = C
  BY <1>1, LenOfFunction
<1>4. Len(forests) = C /\ Len(anchors) = C /\ Len(pixels) = C
  <2>1. forests \in [Levels -> {forests[l] : l \in Levels}]
    OBVIOUS
  <2>2. anchors \in [Levels -> {anchors[l] : l \in Levels}]
    OBVIOUS
  <2>3. pixels \in [Levels -> {pixels[l] : l \in Levels}]
    OBVIOUS
  <2> HIDE DEF forests, anchors, pixels
  <2> QED BY <1>3, <2>1, <2>2, <2>3
<1>5. ASSUME NEW l \in Levels
      PROVE  /\ Forest(l) \in Elements /\ Forest(l) \in Nat /\ Forest(l) = ForestCount + l
             /\ Anchor(l) \in Elements /\ Anchor(l) \in Nat /\ Anchor(l) = AnchorCount + l
             /\ Delta(l) \in Elements /\ Delta(l) \in Nat /\ Delta(l) = DeltaCount + l
  BY <1>1, Items
<1>6. ASSUME NEW l \in Levels
      PROVE  Segment(forests[l], ForestCount + l, ForestCount + l) /\ Nested(forests[l], 1)
  BY <1>2, <1>5, PartTree, VectorSegment
<1>7. ASSUME NEW l \in Levels
      PROVE  Segment(anchors[l], AnchorCount + l, AnchorCount + l) /\ Nested(anchors[l], 1)
  <2>1. Part(anchor_idx(l), Anchor(l), 2)
    BY <1>5, PartOne DEF anchor_idx, Integer, Kinds
  <2> QED BY <1>2, <1>5, <2>1, VectorSegment
<1>8. ASSUME NEW l \in Levels
      PROVE  Segment(pixels[l], DeltaCount + l, DeltaCount + l) /\ Nested(pixels[l], 1)
  <2>1. Part(delta(l), Delta(l), 2)
    BY <1>5, PartOne DEF delta, Point, Kinds
  <2> QED BY <1>2, <1>5, <2>1, VectorSegment
<1>9. File = ((Header \o a) \o b) \o c
  BY DEF File, Header
<1> HIDE DEF forests, anchors, pixels
<1>10. /\ ForestCount \in Nat /\ AnchorCount \in Nat /\ DeltaCount \in Nat
       /\ {ForestCount, AnchorCount, DeltaCount} \intersect {Version, ShapeValues} = {}
       /\ ForestCount = 2 + 1
       /\ AnchorCount = (ForestCount + C) + 1 /\ DeltaCount = (AnchorCount + C) + 1
       /\ Delta(C) = DeltaCount + C
       /\ ForestCount + C \in Nat /\ AnchorCount + C \in Nat /\ DeltaCount + C \in Nat
  BY <1>1, Items
<1>11. Segment(a, ForestCount, ForestCount + C) /\ Nested(a, 0)
  BY <1>4, <1>6, <1>10, VectorsSegment
<1>12. Segment(b, AnchorCount, AnchorCount + C) /\ Nested(b, 0)
  BY <1>4, <1>7, <1>10, VectorsSegment
<1>13. Segment(c, DeltaCount, DeltaCount + C) /\ Nested(c, 0)
  BY <1>4, <1>8, <1>10, VectorsSegment
<1> HIDE DEF a, b, c, C
<1>14. Segment(Header \o a, 0, ForestCount + C)
  BY <1>10, <1>11, HeaderSegment, SegmentJoin
<1>15. Segment((Header \o a) \o b, 0, AnchorCount + C)
  BY <1>10, <1>12, <1>14, SegmentJoin
<1>16. Segment(File, 0, DeltaCount + C)
  BY <1>9, <1>10, <1>13, <1>15, SegmentJoin
<1>17. \A s, lo, hi : Segment(s, lo, hi) => s \in Seq(FieldSet)
  BY DEF Segment
<1>18. Nested(Header \o a, 0)
  BY <1>11, <1>17, HeaderSegment, NestedJoin
<1>19. Nested((Header \o a) \o b, 0)
  BY <1>12, <1>14, <1>17, <1>18, NestedJoin
<1>20. Nested(File, 0)
  BY <1>9, <1>13, <1>15, <1>17, <1>19, NestedJoin
<1> QED BY <1>10, <1>16, <1>20 DEF C

-----------------------------------------------------------------------------
(***************************************************************************)
(* The fields of the file, as the reader meets them.                       *)
(***************************************************************************)
LEMMA FileFields ==
  /\ Len(File) \in Nat \ {0} /\ DOMAIN File = 1 .. Len(File)
  /\ \A k \in 1 .. Len(File) : File[k] \in FieldSet /\ File[k].item \in Version .. FileLength - 1
  /\ File[1].item = Version /\ File[Len(File)].item = FileLength - 1
  /\ \A j \in 1 .. Len(File) : \A k \in j .. Len(File) : File[j].item <= File[k].item
  /\ \A k \in 1 .. Len(File) - 1 : File[k + 1].item \in {File[k].item, File[k].item + 1}
<1>1. Segment(File, 0, Delta(Cascades))
  BY FileShape
<1>2. /\ File \in Seq(FieldSet) /\ Len(File) > 0 /\ File[1].item = 0
      /\ File[Len(File)].item = Delta(Cascades) /\ Ordered(File) /\ Gapless(File)
  BY <1>1 DEF Segment
<1>3. Len(File) \in Nat \ {0} /\ DOMAIN File = 1 .. Len(File)
  BY <1>2, LenProperties
<1>4. Version = 0 /\ FileLength - 1 = Delta(Cascades) /\ Delta(Cascades) \in Nat
  BY Items
<1>5. ASSUME NEW k \in 1 .. Len(File)
      PROVE  File[k] \in FieldSet /\ File[k].item \in Version .. FileLength - 1
  <2>1. File[k] \in FieldSet
    BY <1>2, ElementOfSeq
  <2>2. k \in 1 .. Len(File) /\ Len(File) \in k .. Len(File)
    BY <1>3
  <2>3. File[k].item <= Delta(Cascades)
    BY <1>2, <2>2 DEF Ordered
  <2>4. File[k].item \in Nat
    BY <2>1 DEF FieldSet
  <2> QED BY <1>4, <2>1, <2>3, <2>4
<1> QED BY <1>2, <1>3, <1>4, <1>5 DEF Ordered, Gapless

LEMMA CellFacts ==
  /\ Cells \subseteq 1 .. Len(File) /\ Is("size") \subseteq Cells
  /\ \A k \in Is("size") : File[k].kind = "size"
  /\ \A f : \A k \in Of(f) : k \in Cells /\ File[k].item = f
BY FileFields DEF Cells, Is, Of

\* Each field below depth 0 is in a container that was read before it.
LEMMA ContainersComeFirst ==
  ASSUME NEW k \in 1 .. Len(File), File[k].depth # 0
  PROVE  \E c \in Is("size") : c < k /\ (k \in Cells => <<c, k>> \in Inside)
<1>1. Nested(File, 0) /\ Len(File) \in Nat /\ DOMAIN File = 1 .. Len(File) /\ File[k] \in FieldSet
  BY FileShape, FileFields
<1>2. File[k].depth > 0
  BY <1>1 DEF FieldSet
<1>3. Contained(File, k)
  BY <1>1, <1>2 DEF Nested
<1>4. PICK c \in 1 .. k - 1 :
        /\ File[c].kind = "size" /\ File[k].depth = File[c].depth + 1
        /\ \A j \in c + 1 .. k : File[j].depth > File[c].depth
  BY <1>3 DEF Contained
<1>5. c \in DOMAIN File /\ c < k
  BY <1>1
<1>6. c \in Is("size")
  BY <1>4, <1>5 DEF Is, Cells
<1>7. k \in Cells => <<c, k>> \in Inside
  BY <1>4, <1>5, <1>6 DEF Inside
<1> QED BY <1>5, <1>6, <1>7

\* After a field of an item that is kept comes a cell of the item, or it is one.
LEMMA CellAhead ==
  ASSUME NEW k \in 1 .. Len(File), File[k].item # Version
  PROVE  \E j \in Of(File[k].item) : j >= k
<1>1. Kept(File)
  BY FileShape DEF Segment
<1>2. PICK j \in k .. Len(File) : File[j].item = File[k].item /\ File[j].kind # "local"
  BY <1>1 DEF Kept
<1>3. j \in DOMAIN File /\ j >= k
  BY FileFields
<1> QED BY <1>2, <1>3 DEF Of, Cells

LEMMA ItemsHaveCells ==
  ASSUME NEW f \in Fields
  PROVE  Of(f) # {}
<1>1. Complete(File, 0, Delta(Cascades))
  BY FileShape DEF Segment
<1>2. f \in 0 .. Delta(Cascades) /\ f # Version
  BY Items DEF Fields
<1>3. PICK k \in 1 .. Len(File) : File[k].item = f
  BY <1>1, <1>2 DEF Complete
<1> QED BY <1>2, <1>3, CellAhead

\* Where the size of an item's container is, and which fields a failed read zeroes.
LEMMA ItemsHaveSizes ==
  ASSUME NEW f \in Fields, f # ShapeValues
  PROVE  \E k \in Of(f) : File[k].kind = "size"
<1>1. Sized(File) /\ Complete(File, 0, Delta(Cascades))
  BY FileShape DEF Segment
<1>2. f \in 0 .. Delta(Cascades) /\ f # Version
  BY Items DEF Fields
<1>3. PICK k \in 1 .. Len(File) : File[k].item = f
  BY <1>1, <1>2 DEF Complete
<1>4. PICK j \in 1 .. Len(File) : File[j].item = f /\ File[j].kind = "size"
  BY <1>1, <1>2, <1>3 DEF Sized
<1>5. j \in DOMAIN File
  BY FileFields
<1> QED BY <1>4, <1>5 DEF Of, Cells

LEMMA NumbersFollowSizes ==
  ASSUME NEW k \in 1 .. Len(File), File[k].kind \in {"int", "point"}
  PROVE  File[k].item \in Elements /\ \E j \in Of(File[k].item) : j < k /\ File[j].kind = "size"
<1>1. Sized(File) /\ Numeric(File)
  BY FileShape DEF Segment
<1>2. PICK j \in 1 .. k - 1 : File[j].item = File[k].item /\ File[j].kind = "size"
  BY <1>1 DEF Sized
<1>3. j \in DOMAIN File /\ j < k
  BY FileFields
<1>4. j \in Of(File[k].item)
  BY <1>2, <1>3 DEF Of, Cells
<1> QED BY <1>1, <1>2, <1>3, <1>4 DEF Numeric

-----------------------------------------------------------------------------
(***************************************************************************)
(* SlotOf, for any memory.                                                 *)
(***************************************************************************)
States  == {"absent", "new", "zeroed", "asset"}
Memory  == [Cells -> States]
Written == {"asset", "zeroed"}

Slot(c, f) ==
  LET cells == {c[k] : k \in Of(f)}
      whole == cells \subseteq {"asset", "zeroed"}
  IN  CASE cells = {"asset"}                                 -> "full"
        [] whole /\ "zeroed" \in cells                       -> "damaged"
        [] ~whole /\ "asset" \in cells /\ f \in Elements     -> "torn"
        [] OTHER                                             -> "unread"

Whole(c, f) == \A k \in Of(f) : c[k] \in Written

LEMMA SlotIsSlotOf ==
  ASSUME NEW f
  PROVE  SlotOf(f) = Slot(cell, f) /\ SlotOf(f)' = Slot(cell', f)
BY DEF SlotOf, Slot

LEMMA WholeSlot ==
  ASSUME NEW c \in Memory, NEW f \in Fields, Whole(c, f)
  PROVE  Slot(c, f) = IF \A k \in Of(f) : c[k] = "asset" THEN "full" ELSE "damaged"
<1> DEFINE cells == {c[k] : k \in Of(f)}
<1>1. Of(f) # {}
  BY ItemsHaveCells
<1>2. cells \subseteq {"asset", "zeroed"}
  BY DEF Whole, Written
<1>3. CASE \A k \in Of(f) : c[k] = "asset"
  <2>1. cells = {"asset"}
    BY <1>1, <1>3
  <2> QED BY <1>3, <2>1 DEF Slot
<1>4. CASE \E k \in Of(f) : c[k] # "asset"
  <2>1. "zeroed" \in cells /\ cells # {"asset"}
    BY <1>2, <1>4 DEF Whole, Written
  <2>2. Slot(c, f) = "damaged"
    <3> HIDE DEF cells
    <3> QED BY <1>2, <2>1 DEF Slot, cells
  <2> QED BY <1>4, <2>2
<1> QED BY <1>3, <1>4

LEMMA PartialSlot ==
  ASSUME NEW c \in Memory, NEW f, ~Whole(c, f)
  PROVE  Slot(c, f) = IF f \in Elements /\ \E k \in Of(f) : c[k] = "asset" THEN "torn" ELSE "unread"
<1> DEFINE cells == {c[k] : k \in Of(f)}
<1>1. ~(cells \subseteq {"asset", "zeroed"}) /\ cells # {"asset"}
  BY DEF Whole, Written
<1>2. "asset" \in cells <=> \E k \in Of(f) : c[k] = "asset"
  OBVIOUS
<1> QED BY <1>1, <1>2 DEF Slot

LEMMA SlotType ==
  ASSUME NEW c \in Memory, NEW f \in Fields
  PROVE  Slot(c, f) \in Slots /\ (Slot(c, f) \in {"full", "damaged"} <=> Whole(c, f))
BY WholeSlot, PartialSlot DEF Slots

\* An element that is constructed does not change its item.
LEMMA SlotSame ==
  ASSUME NEW c \in Memory, NEW d \in Memory, NEW f \in Fields,
         \A k \in Of(f) : c[k] = d[k] \/ {c[k], d[k]} \subseteq {"absent", "new"}
  PROVE  Slot(c, f) = Slot(d, f)
<1>1. \A k \in Of(f) : c[k] \in Written <=> d[k] \in Written
  BY DEF Written
<1>2. \A k \in Of(f) : c[k] = "asset" <=> d[k] = "asset"
  OBVIOUS
<1>3. Whole(c, f) <=> Whole(d, f)
  BY <1>1 DEF Whole
<1>4. CASE Whole(c, f)
  BY <1>2, <1>3, <1>4, WholeSlot
<1>5. CASE ~Whole(c, f)
  BY <1>2, <1>3, <1>5, PartialSlot
<1> QED BY <1>4, <1>5

-----------------------------------------------------------------------------
(***************************************************************************)
(* The inductive invariant.                                                *)
(***************************************************************************)
Touched == {k \in Cells : cell[k] \in Written}

Types ==
  /\ cell \in Memory
  /\ next \in 1 .. Len(File) + 1
  /\ reading \in BOOLEAN
  /\ before \in Predictors

\* What was read in this call is there.
ReadSoFar == reading => \A k \in Cells : k < next => cell[k] = "asset"

\* The fields that have ever been read are those up to some place in the file.
NoGaps == \A k \in Touched : \A j \in Cells : j < k => j \in Touched

\* A read that fails zeroes numbers only.
ZeroedNumbers == \A k \in Cells : cell[k] = "zeroed" => File[k].kind \in {"int", "point"}

\* The items that are not in progress are as they were.
OthersUnchanged == reading => \A f \in Fields \ {Item} : before[f] = SlotOf(f)

\* The item in progress was complete exactly if it is complete now.
ItemInProgress ==
  reading /\ Item \in Fields =>
    /\ before[Item] \in {"full", "damaged"} <=> Whole(cell, Item)
    /\ before[Item] = "torn" => \E k \in Of(Item) : cell[k] = "asset"
    /\ Item \notin Elements => before[Item] \in {"full", "unread"}

IInv ==
  /\ Types /\ CellsExist /\ ReadSoFar /\ NoGaps /\ ZeroedNumbers
  /\ OthersUnchanged /\ ItemInProgress

\* Whatever is in memory is a predictor, and its items other than the elements of
\* vectors are never damaged or torn.
LEMMA PredictorType ==
  ASSUME NEW c \in Memory, \A k \in Cells : c[k] = "zeroed" => File[k].kind \in {"int", "point"}
  PROVE  /\ [f \in Fields |-> Slot(c, f)] \in Predictors
         /\ \A f \in Fields \ Elements : Slot(c, f) \in {"full", "unread"}
<1>1. ASSUME NEW f \in Fields \ Elements PROVE Slot(c, f) \in {"full", "unread"}
  <2>1. ASSUME NEW k \in Of(f) PROVE c[k] # "zeroed"
    <3>1. k \in Cells /\ k \in 1 .. Len(File) /\ File[k].item = f
      BY CellFacts
    <3>2. File[k].kind \notin {"int", "point"}
      BY <3>1, NumbersFollowSizes
    <3> QED BY <3>1, <3>2
  <2>2. CASE Whole(c, f)
    <3>1. \A k \in Of(f) : c[k] = "asset"
      BY <2>1, <2>2 DEF Whole, Written
    <3> QED BY <2>2, <3>1, WholeSlot
  <2>3. CASE ~Whole(c, f)
    BY <2>3, PartialSlot
  <2> QED BY <2>2, <2>3
<1> QED BY <1>1, SlotType DEF Predictors

LEMMA PredictorIs ==
  /\ Predictor = [f \in Fields |-> Slot(cell, f)]
  /\ Predictor' = [f \in Fields |-> Slot(cell', f)]
BY SlotIsSlotOf DEF Predictor

ItemAt(n) == IF n > Len(File) THEN FileLength ELSE File[n].item

LEMMA ItemIs == Item = ItemAt(next) /\ Item' = ItemAt(next')
BY DEF Item, ItemAt

LEMMA ItemTypes ==
  ASSUME NEW n \in 1 .. Len(File) + 1
  PROVE  /\ n \in 1 .. Len(File) =>
              /\ ItemAt(n) = File[n].item /\ ItemAt(n) \in Version .. FileLength - 1
              /\ ItemAt(n) = Version \/ ItemAt(n) \in Fields
         /\ n \notin 1 .. Len(File) => n > Len(File) /\ ItemAt(n) = FileLength
         /\ ItemAt(n) \in Nat
         /\ n \in 1 .. Len(File) => ItemAt(n + 1) \in {ItemAt(n), ItemAt(n) + 1}
<1>1. /\ Len(File) \in Nat \ {0} /\ \A k \in 1 .. Len(File) : File[k].item \in Version .. FileLength - 1
      /\ File[Len(File)].item = FileLength - 1
      /\ \A k \in 1 .. Len(File) - 1 : File[k + 1].item \in {File[k].item, File[k].item + 1}
  BY FileFields
<1>2. Version = 0 /\ FileLength \in Nat /\ Fields = 1 .. FileLength - 1
  BY Items DEF Fields
<1>3. CASE n = Len(File) + 1
  <2>1. n > Len(File) /\ n \notin 1 .. Len(File)
    BY <1>1, <1>3
  <2> QED BY <1>2, <2>1 DEF ItemAt
<1>4. CASE n = Len(File)
  <2>1. n \in 1 .. Len(File) /\ ~(n > Len(File)) /\ n + 1 > Len(File)
    BY <1>1, <1>4
  <2>2. ItemAt(n) = FileLength - 1 /\ ItemAt(n) = File[n].item /\ ItemAt(n + 1) = FileLength
    BY <1>1, <1>4, <2>1 DEF ItemAt
  <2>3. ItemAt(n) \in Version .. FileLength - 1
    BY <1>1, <2>1, <2>2
  <2> QED BY <1>2, <2>1, <2>2, <2>3
<1>5. CASE n \in 1 .. Len(File) - 1
  <2>1. n \in 1 .. Len(File) /\ ~(n > Len(File)) /\ ~(n + 1 > Len(File))
    BY <1>1, <1>5
  <2>2. ItemAt(n) = File[n].item /\ ItemAt(n + 1) = File[n + 1].item
    BY <2>1 DEF ItemAt
  <2>3. ItemAt(n) \in Version .. FileLength - 1 /\ ItemAt(n + 1) \in {ItemAt(n), ItemAt(n) + 1}
    BY <1>1, <1>5, <2>1, <2>2
  <2> QED BY <1>2, <2>1, <2>2, <2>3
<1> QED BY <1>1, <1>3, <1>4, <1>5

LEMMA InitInvariant == Init => IInv
<1> SUFFICES ASSUME Init PROVE IInv
  OBVIOUS
<1>1. /\ cell \in {[k \in Cells |-> IF File[k].depth = 0 THEN "new" ELSE "absent"],
                   [k \in Cells |-> "asset"]}
      /\ next = 1 /\ reading = FALSE /\ before = Predictor
  BY DEF Init
<1>2. cell \in Memory /\ \A k \in Cells : cell[k] # "zeroed"
  BY <1>1 DEF Memory, States
<1>3. Types
  <2>1. before \in Predictors
    BY <1>1, <1>2, PredictorIs, PredictorType
  <2>2. next \in 1 .. Len(File) + 1
    BY <1>1, FileFields
  <2> QED BY <1>1, <1>2, <2>1, <2>2 DEF Types
<1>4. CellsExist
  <2>1. CASE cell = [k \in Cells |-> IF File[k].depth = 0 THEN "new" ELSE "absent"]
    <3>1. \A c \in Is("size") : cell[c] # "asset"
      BY <2>1, CellFacts
    <3>2. \A k \in Cells : Present(k) <=> File[k].depth = 0
      BY <3>1 DEF Present
    <3> QED BY <1>2, <2>1, <3>2 DEF CellsExist, Memory, States
  <2>2. CASE cell = [k \in Cells |-> "asset"]
    <3>1. \A c \in Is("size") : cell[c] = "asset"
      BY <2>2, CellFacts
    <3>2. \A k \in Cells : Present(k)
      BY <3>1, CellFacts, ContainersComeFirst DEF Present
    <3> QED BY <1>2, <2>2, <3>2 DEF CellsExist, Memory, States
  <2> QED BY <1>1, <2>1, <2>2
<1>5. NoGaps
  BY <1>1 DEF NoGaps, Touched, Written
<1> QED BY <1>1, <1>2, <1>3, <1>4, <1>5
        DEF IInv, ReadSoFar, ZeroedNumbers, OthersUnchanged, ItemInProgress

-----------------------------------------------------------------------------
(***************************************************************************)
(* What one step does to the memory.                                       *)
(***************************************************************************)
LEMMA FieldRead ==
  ASSUME Types, ReadSoFar, CellsExist, ReadField
  PROVE  /\ cell' \in Memory
         /\ next \in 1 .. Len(File) /\ next' = next + 1
         /\ next \in Cells => cell'[next] = "asset"
         /\ \A k \in Cells : k # next =>
              \/ cell'[k] = cell[k]
              \/ cell[k] = "absent" /\ cell'[k] = "new"
<1>1. reading /\ next <= Len(File) /\ cell' = Stored(next) /\ next' = next + 1
  BY DEF ReadField
<1>2. next \in 1 .. Len(File) /\ File[next] \in FieldSet
  BY <1>1, FileFields DEF Types
<1>3. cell \in Memory
  BY DEF Types
<1>4. CASE File[next].kind = "local"
  <2>1. cell' = cell /\ next \notin Cells
    BY <1>1, <1>4 DEF Stored, Cells
  <2> QED BY <1>1, <1>2, <1>3, <2>1
<1>5. CASE File[next].kind = "size"
  <2>1. cell' = [k \in Cells |-> IF k = next THEN "asset"
                   ELSE IF <<next, k>> \in Inside /\ cell[k] = "absent" THEN "new" ELSE cell[k]]
    BY <1>1, <1>5 DEF Stored, Resized
  <2> QED BY <1>1, <1>2, <1>3, <2>1 DEF Memory, States
<1>6. CASE File[next].kind \notin {"local", "size"}
  <2>1. cell' = [cell EXCEPT ![next] = "asset"]
    BY <1>1, <1>6 DEF Stored
  <2> QED BY <1>1, <1>2, <1>3, <2>1 DEF Memory, States
<1> QED BY <1>4, <1>5, <1>6

\* The field that is read is in memory: its container has been read.
LEMMA NextIsPresent ==
  ASSUME Types, ReadSoFar, CellsExist, reading, next \in Cells
  PROVE  Present(next)
<1>1. next \in 1 .. Len(File)
  BY CellFacts
<1>2. CASE File[next].depth # 0
  <2>1. PICK c \in Is("size") : c < next /\ <<c, next>> \in Inside
    BY <1>1, <1>2, ContainersComeFirst
  <2>2. cell[c] = "asset"
    BY <2>1, CellFacts DEF ReadSoFar
  <2> QED BY <2>1, <2>2 DEF Present
<1>3. CASE File[next].depth = 0
  BY <1>3 DEF Present
<1> QED BY <1>2, <1>3

LEMMA ReadKeepsCells ==
  ASSUME Types, ReadSoFar, CellsExist, ReadField
  PROVE  CellsExist'
<1>1. /\ cell' \in Memory /\ next \in 1 .. Len(File)
      /\ next \in Cells => cell'[next] = "asset"
      /\ \A k \in Cells : k # next =>
           \/ cell'[k] = cell[k]
           \/ cell[k] = "absent" /\ cell'[k] = "new"
  BY FieldRead
<1>2. reading /\ cell' = Stored(next)
  BY DEF ReadField
<1>3. \A k \in Cells : cell[k] = "absent" <=> ~Present(k)
  BY DEF CellsExist
<1>4. cell \in Memory
  BY DEF Types
<1>5. ASSUME NEW k \in Cells PROVE cell'[k] = "absent" <=> ~Present(k)'
  <2>1. Present(k)' <=> (File[k].depth = 0 \/ \E c \in Is("size") : <<c, k>> \in Inside /\ cell'[c] = "asset")
    BY DEF Present
  <2>2. \A c \in Is("size") : cell[c] = "asset" => cell'[c] = "asset"
    BY <1>1, CellFacts
  <2>3. Present(k) => Present(k)'
    BY <2>1, <2>2 DEF Present
  <2>4. CASE k = next
    BY <1>1, <1>2, <2>3, <2>4, NextIsPresent
  <2>5. CASE k # next /\ <<next, k>> \in Inside /\ File[next].kind = "size"
    <3>1. next \in Is("size")
      BY <2>5 DEF Inside
    <3>2. cell'[next] = "asset" /\ Present(k)'
      BY <1>1, <2>1, <2>5, <3>1, CellFacts
    <3>3. cell' = Resized(next)
      BY <1>2, <2>5 DEF Stored
    <3>4. cell'[k] = IF cell[k] = "absent" THEN "new" ELSE cell[k]
      BY <2>5, <3>3 DEF Resized
    <3> QED BY <3>2, <3>4
  <2>6. CASE k # next /\ ~(<<next, k>> \in Inside /\ File[next].kind = "size")
    <3>1. \A c \in Is("size") : <<c, k>> \in Inside => c # next
      BY <2>6, CellFacts
    <3>2. \A c \in Is("size") : c # next => (cell[c] = "asset" <=> cell'[c] = "asset")
      BY <1>1, CellFacts
    <3>3. Present(k)' <=> Present(k)
      BY <2>1, <3>1, <3>2 DEF Present
    <3>4. cell'[k] = cell[k]
      BY <1>1, <1>2, <1>4, <2>6 DEF Stored, Resized, Memory
    <3> QED BY <1>3, <3>3, <3>4
  <2> QED BY <2>4, <2>5, <2>6
<1> QED BY <1>1, <1>5 DEF CellsExist, Memory, States

-----------------------------------------------------------------------------
(***************************************************************************)
(* The invariant is kept.                                                  *)
(***************************************************************************)
\* The cells that a read does not touch, and those of the other items.
LEMMA CellsAfterRead ==
  ASSUME IInv, ReadField
  PROVE  /\ \A k \in Cells : cell'[k] \in Written <=> cell[k] \in Written \/ k = next
         /\ \A k \in Cells : cell[k] = "asset" => cell'[k] = "asset"
         /\ \A k \in Cells : k < next + 1 => cell'[k] = "asset"
         /\ \A k \in Cells : cell'[k] = "zeroed" => cell[k] = "zeroed"
         /\ \A f \in Fields \ {Item} : SlotOf(f)' = SlotOf(f)
<1>1. /\ cell' \in Memory /\ next \in 1 .. Len(File) /\ next' = next + 1
      /\ next \in Cells => cell'[next] = "asset"
      /\ \A k \in Cells : k # next =>
           \/ cell'[k] = cell[k]
           \/ cell[k] = "absent" /\ cell'[k] = "new"
  BY FieldRead DEF IInv
<1>2. reading /\ ReadSoFar /\ cell \in Memory
  BY DEF IInv, ReadField, Types
<1>3. \A k \in Cells : cell'[k] \in Written <=> cell[k] \in Written \/ k = next
  BY <1>1 DEF Written
<1>4. \A k \in Cells : cell[k] = "asset" => cell'[k] = "asset"
  BY <1>1
<1>5. \A k \in Cells : cell'[k] = "zeroed" => cell[k] = "zeroed"
  BY <1>1
<1>6. ASSUME NEW k \in Cells, k < next + 1 PROVE cell'[k] = "asset"
  <2>1. k < next \/ k = next
    BY <1>1, <1>6, CellFacts
  <2> QED BY <1>1, <1>2, <1>4, <2>1 DEF ReadSoFar
<1>7. ASSUME NEW f \in Fields \ {Item} PROVE SlotOf(f)' = SlotOf(f)
  <2>1. Item = File[next].item
    BY <1>1, ItemIs, ItemTypes DEF IInv, Types
  <2>2. \A k \in Of(f) : k \in Cells /\ k # next
    BY <2>1, CellFacts
  <2>3. Slot(cell', f) = Slot(cell, f)
    <3>1. \A k \in Of(f) : cell'[k] = cell[k] \/ {cell'[k], cell[k]} \subseteq {"absent", "new"}
      BY <1>1, <2>2
    <3> QED BY <1>1, <1>2, <3>1, SlotSame
  <2> QED BY <2>3, SlotIsSlotOf
<1> QED BY <1>3, <1>4, <1>5, <1>6, <1>7

LEMMA ReadKeepsInvariant ==
  ASSUME IInv, ReadField
  PROVE  IInv'
<1>1. /\ cell' \in Memory /\ next \in 1 .. Len(File) /\ next' = next + 1
      /\ next \in Cells => cell'[next] = "asset"
  BY FieldRead DEF IInv
<1>2. /\ reading /\ reading' = reading
      /\ before' = IF Item' = Item THEN before ELSE Predictor'
  BY DEF ReadField
<1>3. /\ Types /\ CellsExist /\ ReadSoFar /\ NoGaps /\ ZeroedNumbers
      /\ OthersUnchanged /\ ItemInProgress
  BY DEF IInv
<1>4. /\ \A k \in Cells : cell'[k] \in Written <=> cell[k] \in Written \/ k = next
      /\ \A k \in Cells : cell[k] = "asset" => cell'[k] = "asset"
      /\ \A k \in Cells : k < next + 1 => cell'[k] = "asset"
      /\ \A k \in Cells : cell'[k] = "zeroed" => cell[k] = "zeroed"
      /\ \A f \in Fields \ {Item} : SlotOf(f)' = SlotOf(f)
  BY CellsAfterRead
<1>5. ZeroedNumbers'
  BY <1>3, <1>4 DEF ZeroedNumbers
<1>6. /\ Predictor' = [f \in Fields |-> Slot(cell', f)] /\ Predictor' \in Predictors
      /\ \A f \in Fields \ Elements : Slot(cell', f) \in {"full", "unread"}
  BY <1>1, <1>5, PredictorIs, PredictorType DEF ZeroedNumbers
<1>7. Types'
  <2>1. next' \in 1 .. Len(File) + 1
    BY <1>1, FileFields
  <2> QED BY <1>1, <1>2, <1>3, <1>6, <2>1 DEF Types
<1>8. CellsExist'
  BY <1>3, ReadKeepsCells
<1>9. ReadSoFar'
  BY <1>1, <1>4 DEF ReadSoFar
<1>10. NoGaps'
  <2> SUFFICES ASSUME NEW k \in Cells, cell'[k] \in Written, NEW j \in Cells, j < k
               PROVE  cell'[j] \in Written
    BY DEF NoGaps, Touched
  <2>1. CASE k = next
    <3>1. j < next + 1
      BY <1>1, <2>1, CellFacts
    <3> QED BY <1>4, <3>1 DEF Written
  <2>2. CASE k # next
    BY <1>3, <1>4, <2>2 DEF NoGaps, Touched
  <2> QED BY <2>1, <2>2
<1>11. OthersUnchanged'
  <2>1. CASE Item' = Item
    BY <1>2, <1>3, <1>4, <2>1 DEF OthersUnchanged
  <2>2. CASE Item' # Item
    BY <1>2, <1>6, <2>2, SlotIsSlotOf DEF OthersUnchanged
  <2> QED BY <2>1, <2>2
<1>12. ItemInProgress'
  <2> SUFFICES ASSUME Item' \in Fields
               PROVE  /\ before'[Item'] \in {"full", "damaged"} <=> Whole(cell', Item')
                      /\ before'[Item'] = "torn" => \E k \in Of(Item') : cell'[k] = "asset"
                      /\ Item' \notin Elements => before'[Item'] \in {"full", "unread"}
    BY DEF ItemInProgress, Whole
  <2>1. CASE Item' = Item
    <3>1. next' \in 1 .. Len(File) /\ Item' = File[next'].item /\ Item = File[next].item
      <4>1. next' \in 1 .. Len(File) + 1 /\ next \in 1 .. Len(File) + 1
        BY <1>3, <1>7 DEF Types
      <4>2. Item' # FileLength
        BY Items DEF Fields
      <4> QED BY <1>1, <4>1, <4>2, ItemIs, ItemTypes
    <3>2. before' = before /\ Item \in Fields
      BY <1>2, <2>1
    <3>3. /\ before[Item] \in {"full", "damaged"} <=> Whole(cell, Item)
          /\ before[Item] = "torn" => \E k \in Of(Item) : cell[k] = "asset"
          /\ Item \notin Elements => before[Item] \in {"full", "unread"}
      BY <1>2, <1>3, <3>2 DEF ItemInProgress
    <3>4. \A k \in Of(Item) : k \in Cells
      BY CellFacts
    <3>5. Whole(cell', Item) <=> Whole(cell, Item)
      <4>1. Whole(cell, Item) => Whole(cell', Item)
        BY <1>4, <3>4 DEF Whole
      <4>2. ASSUME Whole(cell', Item) PROVE Whole(cell, Item)
        <5>1. File[next'].item # Version
          BY <2>1, <3>1, <3>2, Items DEF Fields
        <5>2. PICK j \in Of(Item) : j >= next'
          BY <2>1, <3>1, <5>1, CellAhead
        <5>3. j \in Cells /\ j > next
          <6>1. j \in Cells /\ j \in 1 .. Len(File) /\ j >= next + 1
            BY <1>1, <3>4, <5>2, CellFacts
          <6>2. Len(File) \in Nat
            BY FileFields
          <6> QED BY <1>1, <6>1, <6>2
        <5>4. cell[j] \in Written
          <6>1. cell'[j] \in Written /\ j # next
            BY <1>1, <4>2, <5>2, <5>3, CellFacts DEF Whole
          <6> QED BY <1>4, <5>3, <6>1
        <5>5. next \in Cells => cell[next] \in Written
          BY <1>3, <5>3, <5>4 DEF NoGaps, Touched
        <5> QED BY <1>4, <3>4, <4>2, <5>5 DEF Whole
      <4> QED BY <4>1, <4>2
    <3> QED BY <1>4, <2>1, <3>2, <3>3, <3>4, <3>5
  <2>2. CASE Item' # Item
    <3>1. before'[Item'] = Slot(cell', Item')
      BY <1>2, <1>6, <2>2
    <3>2. before'[Item'] \in {"full", "damaged"} <=> Whole(cell', Item')
      BY <1>1, <3>1, SlotType
    <3>3. ASSUME before'[Item'] = "torn" PROVE \E k \in Of(Item') : cell'[k] = "asset"
      <4>1. ~Whole(cell', Item')
        BY <3>2, <3>3
      <4> QED BY <1>1, <3>1, <3>3, <4>1, PartialSlot
    <3>4. Item' \notin Elements => before'[Item'] \in {"full", "unread"}
      BY <1>6, <3>1
    <3> QED BY <3>2, <3>3, <3>4
  <2> QED BY <2>1, <2>2
<1> QED BY <1>5, <1>7, <1>8, <1>9, <1>10, <1>11, <1>12 DEF IInv

\* A read that fails: at most one number goes from the asset's to zero.
LEMMA FieldCut ==
  ASSUME IInv, EndOfFile
  PROVE  /\ reading /\ reading' = FALSE /\ next \in 1 .. Len(File) /\ next' = next /\ before' = before
         /\ \/ cell' = cell
            \/ /\ next \in Cells /\ cell' = [cell EXCEPT ![next] = "zeroed"]
               /\ File[next].kind \in {"int", "point"} /\ cell[next] = "asset"
         /\ cell' \in Memory
         /\ \A k \in Cells : cell'[k] \in Written <=> cell[k] \in Written
         /\ \A f \in Fields \ {Item} : SlotOf(f)' = SlotOf(f)
<1>1. /\ reading /\ next <= Len(File) /\ reading' = FALSE /\ next' = next /\ before' = before
      /\ cell' = IF File[next].kind \in {"int", "point"} /\ cell[next] = "asset"
                 THEN [cell EXCEPT ![next] = "zeroed"] ELSE cell
  BY DEF EndOfFile
<1>2. next \in 1 .. Len(File) /\ cell \in Memory
  BY <1>1, FileFields DEF IInv, Types
<1>3. File[next].kind \in {"int", "point"} => next \in Cells
  BY <1>2, FileFields DEF Cells
<1>4. cell' \in Memory /\ \A k \in Cells : cell'[k] \in Written <=> cell[k] \in Written
  BY <1>1, <1>2, <1>3 DEF Memory, States, Written
<1>5. \A k \in Cells \ {next} : cell'[k] = cell[k]
  BY <1>1, <1>2, <1>3 DEF Memory
<1>6. ASSUME NEW f \in Fields \ {Item} PROVE SlotOf(f)' = SlotOf(f)
  <2>1. Item = File[next].item
    BY <1>2, ItemIs, ItemTypes DEF IInv, Types
  <2>2. \A k \in Of(f) : k \in Cells \ {next}
    BY <2>1, CellFacts
  <2>3. Slot(cell', f) = Slot(cell, f)
    BY <1>2, <1>4, <1>5, <2>2, SlotSame
  <2> QED BY <2>3, SlotIsSlotOf
<1> QED BY <1>1, <1>2, <1>3, <1>4, <1>6

LEMMA CutKeepsInvariant ==
  ASSUME IInv, EndOfFile
  PROVE  IInv'
<1>1. /\ reading' = FALSE /\ next' = next /\ before' = before
      /\ \/ cell' = cell
         \/ /\ next \in Cells /\ cell' = [cell EXCEPT ![next] = "zeroed"]
            /\ File[next].kind \in {"int", "point"} /\ cell[next] = "asset"
      /\ cell' \in Memory
      /\ \A k \in Cells : cell'[k] \in Written <=> cell[k] \in Written
  BY FieldCut
<1>2. Types /\ CellsExist /\ NoGaps /\ ZeroedNumbers
  BY DEF IInv
<1>3. Types'
  BY <1>1, <1>2 DEF Types
<1>4. ZeroedNumbers'
  BY <1>1, <1>2 DEF ZeroedNumbers, Types, Memory
<1>5. NoGaps'
  BY <1>1, <1>2 DEF NoGaps, Touched
<1>6. CellsExist'
  <2>1. \A c \in Is("size") : c \in Cells /\ (cell'[c] = "asset" <=> cell[c] = "asset")
    BY <1>1, <1>2, CellFacts DEF Types, Memory
  <2>2. \A k \in Cells : Present(k)' <=> Present(k)
    BY <2>1 DEF Present
  <2>3. \A k \in Cells : cell'[k] = "absent" <=> cell[k] = "absent"
    BY <1>1, <1>2 DEF Types, Memory
  <2> QED BY <1>1, <1>2, <2>2, <2>3 DEF CellsExist, Memory, States
<1> QED BY <1>1, <1>3, <1>4, <1>5, <1>6 DEF IInv, ReadSoFar, OthersUnchanged, ItemInProgress

\* The steps that leave the memory alone.
LEMMA SameCells ==
  ASSUME IInv, cell' = cell
  PROVE  CellsExist' /\ NoGaps' /\ ZeroedNumbers' /\ Predictor' = Predictor
         /\ (\A f : SlotOf(f)' = SlotOf(f)) /\ Predictor \in Predictors
<1>1. \A k : Present(k)' <=> Present(k)
  BY DEF Present
<1>2. cell \in Memory /\ CellsExist /\ NoGaps /\ ZeroedNumbers
  BY DEF IInv, Types
<1>3. Predictor' = Predictor /\ (\A f : SlotOf(f)' = SlotOf(f)) /\ Predictor \in Predictors
  BY <1>2, PredictorIs, SlotIsSlotOf, PredictorType DEF ZeroedNumbers
<1> QED BY <1>1, <1>2, <1>3 DEF CellsExist, NoGaps, Touched, ZeroedNumbers

LEMMA DeserializeKeepsInvariant ==
  ASSUME IInv, Deserialize
  PROVE  IInv' /\ Item' = Version
<1>1. cell' = cell /\ next' = 1 /\ reading' = TRUE /\ before' = Predictor
  BY DEF Deserialize
<1>2. CellsExist' /\ NoGaps' /\ ZeroedNumbers' /\ Predictor' = Predictor /\ Predictor \in Predictors
  BY <1>1, SameCells
<1>3. 1 \in 1 .. Len(File) /\ 1 \in 1 .. Len(File) + 1
  BY FileFields
<1>4. Item' = Version /\ Item' \notin Fields
  <2>1. Item' = File[1].item
    BY <1>1, <1>3, ItemIs, ItemTypes
  <2> QED BY <2>1, FileFields, Items DEF Fields
<1>5. Types'
  BY <1>1, <1>2, <1>3 DEF IInv, Types
<1>6. ReadSoFar'
  <2>1. \A k \in Cells : ~(k < next')
    BY <1>1, FileFields, CellFacts
  <2> QED BY <2>1 DEF ReadSoFar
<1>7. OthersUnchanged'
  <2>1. before' = [f \in Fields |-> SlotOf(f)']
    BY <1>1, <1>2 DEF Predictor
  <2> QED BY <2>1 DEF OthersUnchanged
<1>8. ItemInProgress'
  BY <1>4 DEF ItemInProgress
<1> QED BY <1>2, <1>4, <1>5, <1>6, <1>7, <1>8 DEF IInv

LEMMA StepInvariant == IInv /\ [Next]_vars => IInv'
<1> SUFFICES ASSUME IInv, [Next]_vars PROVE IInv'
  OBVIOUS
<1>1. CASE Deserialize
  BY <1>1, DeserializeKeepsInvariant
<1>2. CASE ReadField
  BY <1>2, ReadKeepsInvariant
<1>3. CASE Done
  <2>1. cell' = cell /\ next' = next /\ before' = before /\ reading' = FALSE
    BY <1>3 DEF Done
  <2>2. CellsExist' /\ NoGaps' /\ ZeroedNumbers'
    BY <2>1, SameCells
  <2>3. Types'
    BY <2>1 DEF IInv, Types
  <2> QED BY <2>1, <2>2, <2>3 DEF IInv, ReadSoFar, OthersUnchanged, ItemInProgress
<1>4. CASE EndOfFile
  BY <1>4, CutKeepsInvariant
<1>5. CASE UNCHANGED vars
  <2>1. cell' = cell /\ next' = next /\ before' = before /\ reading' = reading
    BY <1>5 DEF vars
  <2>2. CellsExist' /\ NoGaps' /\ ZeroedNumbers' /\ \A f : SlotOf(f)' = SlotOf(f)
    BY <2>1, SameCells
  <2>3. Item' = Item
    BY <2>1 DEF Item
  <2>4. Types' /\ ReadSoFar' /\ OthersUnchanged' /\ ItemInProgress'
    BY <2>1, <2>2, <2>3 DEF IInv, Types, ReadSoFar, OthersUnchanged, ItemInProgress, Whole
  <2> QED BY <2>2, <2>4 DEF IInv
<1> QED BY <1>1, <1>2, <1>3, <1>4, <1>5 DEF Next

\* The inductive invariant of deserialize().
THEOREM Invariant == Spec => []IInv
BY InitInvariant, StepInvariant, PTL DEF Spec

\* Memory is used as constructed: an element is there exactly when its container has
\* been given its size, for models of any size and files cut anywhere, any number of times.
THEOREM CellsAreConstructed == Spec => []CellsExist
<1>1. IInv => CellsExist
  BY DEF IInv
<1> QED BY <1>1, Invariant, PTL

-----------------------------------------------------------------------------
(***************************************************************************)
(* A level that is defined can be used.                                    *)
(***************************************************************************)
LEMMA SizeIsAsset ==
  ASSUME IInv, NEW k \in Touched, File[k].kind \notin {"int", "point"}
  PROVE  cell[k] = "asset"
BY DEF IInv, ZeroedNumbers, Touched, Written

LEMMA SlotIsUnread ==
  ASSUME IInv, NEW f \in Elements
  PROVE  SlotOf(f) # "unread" <=> \E k \in Of(f) : cell[k] = "asset"
<1>1. cell \in Memory /\ f \in Fields /\ f # ShapeValues
  BY DEF IInv, Types, Elements
<1>2. CASE Whole(cell, f)
  <2>1. PICK k \in Of(f) : File[k].kind = "size"
    BY <1>1, ItemsHaveSizes
  <2>2. k \in Touched
    BY <1>2, CellFacts DEF Whole, Touched
  <2>3. cell[k] = "asset"
    BY <2>1, <2>2, SizeIsAsset
  <2> QED BY <1>1, <1>2, <2>3, WholeSlot, SlotIsSlotOf
<1>3. CASE ~Whole(cell, f)
  BY <1>1, <1>3, PartialSlot, SlotIsSlotOf
<1> QED BY <1>2, <1>3

\* Where some field has been read, the sizes of the items before it have been, too.
LEMMA SizedBefore ==
  ASSUME IInv, NEW f \in Fields, NEW g \in Fields \ {ShapeValues}, g < f,
         \E k \in Of(f) : cell[k] = "asset"
  PROVE  \E k \in Of(g) : cell[k] = "asset"
<1>1. PICK k \in Of(f) : cell[k] = "asset"
  OBVIOUS
<1>2. PICK j \in Of(g) : File[j].kind = "size"
  BY ItemsHaveSizes
<1>3. j \in Cells /\ k \in Cells /\ File[j].item = g /\ File[k].item = f
  BY CellFacts
<1>4. j < k
  <2>1. j \in 1 .. Len(File) /\ k \in 1 .. Len(File) /\ Len(File) \in Nat
    BY <1>3, CellFacts, FileFields
  <2>2. f \in Nat /\ g \in Nat
    BY Items DEF Fields
  <2>3. k <= j => f <= g
    <3>1. ASSUME k <= j PROVE j \in k .. Len(File)
      BY <2>1, <3>1
    <3> QED BY <1>3, <2>1, <3>1, FileFields
  <2> QED BY <2>1, <2>2, <2>3
<1>5. j \in Touched
  BY <1>1, <1>3, <1>4 DEF IInv, NoGaps, Touched, Written
<1>6. cell[j] = "asset"
  BY <1>2, <1>5, SizeIsAsset
<1> QED BY <1>6

LEMMA DefinedLevel ==
  ASSUME IInv, NEW l \in Levels, LevelDefined(Predictor, l)
  PROVE  Usable(l)
<1> DEFINE sized(f) == \E k \in Of(f) : cell[k] = "asset"
<1>1. /\ {Forest(l), Anchor(l), Delta(l)} \subseteq Elements
      /\ {Forest(l), Anchor(l), Delta(l), AnchorCount, DeltaCount, ShapeSize} \subseteq Fields
      /\ ShapeSize # ShapeValues /\ ShapeSize < Delta(l)
  BY Items DEF Levels, Elements, Fields
<1>2. \A f \in Fields : Predictor[f] = SlotOf(f)
  BY DEF Predictor
<1>3. /\ SlotOf(AnchorCount) = "full" /\ SlotOf(DeltaCount) = "full"
      /\ SlotOf(Forest(l)) # "torn"
      /\ SlotOf(Forest(l)) # "unread" => SlotOf(Delta(l)) # "unread"
      /\ SlotOf(Delta(l)) # "unread" => SlotOf(Anchor(l)) # "unread"
  BY <1>1, <1>2 DEF LevelDefined
<1>4. cell \in Memory
  BY DEF IInv, Types
<1>5. ASSUME NEW f \in Fields, SlotOf(f) = "full" PROVE sized(f)
  <2>1. Whole(cell, f) /\ Of(f) # {}
    BY <1>4, <1>5, SlotIsSlotOf, SlotType, ItemsHaveCells
  <2>2. \A k \in Of(f) : cell[k] = "asset"
    BY <1>4, <1>5, <2>1, SlotIsSlotOf, WholeSlot
  <2> QED BY <2>1, <2>2
<1>6. sized(AnchorCount) /\ sized(DeltaCount)
  BY <1>1, <1>3, <1>5
<1>7. sized(Delta(l)) => sized(Anchor(l)) /\ sized(ShapeSize)
  <2> SUFFICES ASSUME sized(Delta(l)) PROVE sized(Anchor(l)) /\ sized(ShapeSize)
    OBVIOUS
  <2>1. sized(Anchor(l))
    BY <1>1, <1>3, SlotIsUnread
  <2>2. sized(ShapeSize)
    BY <1>1, SizedBefore
  <2> QED BY <2>1, <2>2
<1>8. ASSUME sized(Forest(l))
      PROVE  /\ sized(Delta(l))
             /\ \A k \in Of(Forest(l)) :
                  /\ cell[k] # "absent"
                  /\ k \in Is("size") \union Is("float") => cell[k] = "asset"
  <2>1. SlotOf(Forest(l)) # "unread" /\ SlotOf(Forest(l)) # "torn"
    BY <1>1, <1>3, <1>8, SlotIsUnread
  <2>2. sized(Delta(l))
    BY <1>1, <1>3, <2>1, SlotIsUnread
  <2>3. Whole(cell, Forest(l))
    <3>1. SlotOf(Forest(l)) \in {"full", "damaged"}
      BY <1>1, <1>4, <2>1, SlotIsSlotOf, SlotType DEF Slots
    <3> QED BY <1>1, <1>4, <3>1, SlotIsSlotOf, SlotType
  <2>4. ASSUME NEW k \in Of(Forest(l))
        PROVE  /\ cell[k] # "absent"
               /\ k \in Is("size") \union Is("float") => cell[k] = "asset"
    <3>1. k \in Touched
      BY <2>3, CellFacts DEF Whole, Touched
    <3>2. k \in Is("size") \union Is("float") => File[k].kind \notin {"int", "point"}
      BY DEF Is
    <3> QED BY <3>1, <3>2, SizeIsAsset DEF Touched, Written
  <2> QED BY <2>2, <2>4
<1> QED BY <1>6, <1>7, <1>8 DEF Usable

\* Wherever files of any length may have ended, and for any size of the model, a level
\* that ShapePredictor calls defined item by item reads no element that is missing or
\* not initialised.
THEOREM DefinedLevelsAreUsable == Spec => []DefinedIsUsable
<1>1. IInv => DefinedIsUsable
  BY DefinedLevel DEF DefinedIsUsable
<1> QED BY <1>1, Invariant, PTL

-----------------------------------------------------------------------------
(***************************************************************************)
(* deserialize() keeps the promise of ItemReader.                          *)
(***************************************************************************)
LEMMA SameItems ==
  /\ Promise!Version = Version /\ Promise!FileLength = FileLength
  /\ Promise!Fresh = Fresh /\ Promise!Model = Model
  /\ \A p, i : Promise!Deserialized(p, i) = Deserialized(p, i)
  /\ \A p, i : Promise!Interrupted(p, i) = Interrupted(p, i)
<1>1. Promise!Fields = Fields /\ Promise!Elements = Elements
  BY DEF Promise!Fields, Promise!Elements, Promise!ShapeSize, Promise!ShapeValues, Promise!ForestCount,
         Promise!AnchorCount, Promise!DeltaCount, Promise!Forest, Promise!Anchor, Promise!Delta,
         Fields, Elements, ShapeSize, ShapeValues, ForestCount, AnchorCount, DeltaCount,
         Forest, Anchor, Delta
<1>2. Promise!Version = Version /\ Promise!FileLength = FileLength
  BY DEF Promise!Version, Promise!FileLength, Promise!ForestCount,
         Promise!AnchorCount, Promise!DeltaCount, Promise!Forest, Promise!Anchor, Promise!Delta,
         Version, FileLength, ForestCount, AnchorCount, DeltaCount, Forest, Anchor, Delta
<1>3. Promise!Fresh = Fresh /\ Promise!Model = Model
  BY <1>1 DEF Promise!Fresh, Promise!Model, Fresh, Model
<1>4. ASSUME NEW p, NEW i
      PROVE  /\ Promise!Deserialized(p, i) = Deserialized(p, i)
             /\ Promise!Interrupted(p, i) = Interrupted(p, i)
  BY <1>1 DEF Promise!Deserialized, Deserialized, Promise!Interrupted, Interrupted
<1> QED BY <1>2, <1>3, <1>4

LEMMA InitKeepsPromise == Init => Promise!Init
<1> SUFFICES ASSUME Init PROVE Promise!Init
  OBVIOUS
<1>1. /\ cell \in {[k \in Cells |-> IF File[k].depth = 0 THEN "new" ELSE "absent"],
                   [k \in Cells |-> "asset"]}
      /\ next = 1 /\ reading = FALSE
  BY DEF Init
<1>2. Item = Version
  <2>1. 1 \in 1 .. Len(File) /\ 1 \in 1 .. Len(File) + 1
    BY FileFields
  <2> QED BY <1>1, <2>1, ItemIs, ItemTypes, FileFields
<1>3. cell \in Memory
  BY <1>1 DEF Memory, States
<1>4. Predictor \in {Fresh, Model}
  <2>1. CASE \A k \in Cells : cell[k] \in {"new", "absent"}
    <3>1. ASSUME NEW f \in Fields PROVE Slot(cell, f) = "unread"
      <4>1. Of(f) # {} /\ \A k \in Of(f) : cell[k] \in {"new", "absent"}
        BY <2>1, ItemsHaveCells, CellFacts
      <4>2. ~Whole(cell, f) /\ \A k \in Of(f) : cell[k] # "asset"
        BY <4>1 DEF Whole, Written
      <4> QED BY <1>3, <4>2, PartialSlot
    <3> QED BY <3>1, PredictorIs DEF Fresh
  <2>2. CASE \A k \in Cells : cell[k] = "asset"
    <3>1. ASSUME NEW f \in Fields PROVE Slot(cell, f) = "full"
      <4>1. \A k \in Of(f) : cell[k] = "asset"
        BY <2>2, CellFacts
      <4> QED BY <1>3, <4>1, WholeSlot DEF Whole, Written
    <3> QED BY <3>1, PredictorIs DEF Model
  <2> QED BY <1>1, <2>1, <2>2
<1> QED BY <1>1, <1>2, <1>4, SameItems DEF Promise!Init, Promised

LEMMA BeginKeepsPromise ==
  ASSUME IInv, Deserialize
  PROVE  Promise!Begin
<1>1. ~reading /\ reading' /\ reading' = TRUE /\ before' = Predictor
  BY DEF Deserialize
<1>2. Promised' = Promised
  BY <1>1 DEF Promised
<1> QED BY <1>1, <1>2, DeserializeKeepsInvariant, SameItems DEF Promise!Begin

\* When the last field of an item is read, the item is the asset's.
LEMMA ReadKeepsPromise ==
  ASSUME IInv, ReadField
  PROVE  Promise!Read \/ UNCHANGED <<Promised, Item, reading>>
<1>1. /\ cell' \in Memory /\ next \in 1 .. Len(File) /\ next' = next + 1
      /\ next \in 1 .. Len(File) + 1
  BY FieldRead, FileFields DEF IInv
<1>2. /\ reading /\ reading' = reading
      /\ before' = IF Item' = Item THEN before ELSE Predictor'
  BY DEF ReadField
<1>3. /\ Item = File[next].item /\ Item \in Version .. FileLength - 1
      /\ Item' = Item \/ Item' = Item + 1
  BY <1>1, ItemIs, ItemTypes
<1>4. Promised = before /\ Promised' = before'
  BY <1>2 DEF Promised
<1>5. CASE Item' = Item
  BY <1>2, <1>4, <1>5
<1>6. CASE Item' # Item
  <2>1. Item' = Item + 1 /\ Item < FileLength
    BY <1>3, <1>6, Items
  <2>2. Promised' = [f \in Fields |-> Slot(cell', f)]
    BY <1>2, <1>4, <1>6, PredictorIs
  <2>3. ASSUME NEW f \in Fields, f # Item PROVE Slot(cell', f) = before[f]
    BY <1>2, <2>3, CellsAfterRead, SlotIsSlotOf DEF IInv, OthersUnchanged
  <2>4. ASSUME Item \in Fields PROVE Slot(cell', Item) = "full"
    <3>1. ASSUME NEW k \in Of(Item) PROVE cell'[k] = "asset"
      <4>1. k \in Cells /\ k \in 1 .. Len(File) /\ File[k].item = Item /\ Len(File) \in Nat
        BY CellFacts, FileFields
      <4>2. CASE k < next + 1
        BY <4>1, <4>2, CellsAfterRead
      <4>3. CASE ~(k < next + 1)
        <5>1. next + 1 \in 1 .. Len(File) /\ k \in next + 1 .. Len(File)
          BY <1>1, <4>1, <4>3
        <5>2. Item' = File[next + 1].item
          <6>1. next + 1 \in 1 .. Len(File) + 1
            BY <1>1, FileFields
          <6> QED BY <1>1, <5>1, <6>1, ItemIs, ItemTypes
        <5>3. Item' <= Item
          BY <4>1, <5>1, <5>2, FileFields
        <5> QED BY <1>3, <2>1, <5>3, Items
      <4> QED BY <4>2, <4>3
    <3> QED BY <1>1, <2>4, <3>1, WholeSlot DEF Whole, Written
  <2>5. Promised' = Deserialized(Promised, Item)
    BY <1>4, <2>2, <2>3, <2>4 DEF Deserialized
  <2> QED BY <1>2, <2>1, <2>5, SameItems DEF Promise!Read
<1> QED BY <1>5, <1>6

LEMMA EndKeepsPromise ==
  ASSUME IInv, Done
  PROVE  Promise!End
<1>1. /\ reading /\ reading' = FALSE /\ next > Len(File)
      /\ cell' = cell /\ next' = next /\ before' = before
  BY DEF Done
<1>2. Item = FileLength /\ Item' = Item
  <2>1. next \in 1 .. Len(File) + 1 /\ next \notin 1 .. Len(File)
    BY <1>1, FileFields DEF IInv, Types
  <2> QED BY <1>1, <2>1, ItemIs, ItemTypes
<1>3. before = Predictor
  <2>1. \A f \in Fields : f # Item
    BY <1>2, Items DEF Fields
  <2>2. \A f \in Fields : before[f] = SlotOf(f)
    BY <1>1, <2>1 DEF IInv, OthersUnchanged
  <2> QED BY <2>2 DEF IInv, Types, Predictors, Predictor
<1>4. Promised = before /\ Promised' = Predictor'
  BY <1>1 DEF Promised
<1>5. Predictor' = Predictor
  BY <1>1, SameCells
<1> QED BY <1>1, <1>2, <1>3, <1>4, <1>5, SameItems DEF Promise!End

LEMMA CutKeepsPromise ==
  ASSUME IInv, EndOfFile
  PROVE  Promise!Cut
<1>1. /\ reading /\ reading' = FALSE /\ next \in 1 .. Len(File) /\ next' = next
      /\ \/ cell' = cell
         \/ /\ next \in Cells /\ cell' = [cell EXCEPT ![next] = "zeroed"]
            /\ File[next].kind \in {"int", "point"} /\ cell[next] = "asset"
      /\ cell' \in Memory
      /\ \A k \in Cells : cell'[k] \in Written <=> cell[k] \in Written
      /\ \A f \in Fields \ {Item} : SlotOf(f)' = SlotOf(f)
  BY FieldCut
<1>2. cell \in Memory /\ before \in Predictors
  BY DEF IInv, Types
<1>3. /\ Item = File[next].item /\ Item \in Version .. FileLength - 1 /\ Item' = Item
      /\ Item = Version \/ Item \in Fields
  <2>1. next \in 1 .. Len(File) + 1
    BY <1>1, FileFields
  <2> QED BY <1>1, <2>1, ItemIs, ItemTypes
<1>4. Item < FileLength
  BY <1>3, Items
<1>5. Promised = before /\ Promised' = [f \in Fields |-> Slot(cell', f)]
  BY <1>1, PredictorIs DEF Promised
<1>6. ASSUME NEW f \in Fields, f # Item PROVE Slot(cell', f) = before[f]
  BY <1>1, <1>6, SlotIsSlotOf DEF IInv, OthersUnchanged
<1>7. \A k \in Of(Item) : k \in Cells
  BY CellFacts
<1>8. Whole(cell', Item) <=> Whole(cell, Item)
  BY <1>1, <1>7 DEF Whole
<1>9. ASSUME Item \in Fields
      PROVE  /\ before[Item] \in {"full", "damaged"} <=> Whole(cell, Item)
             /\ before[Item] = "torn" => \E k \in Of(Item) : cell[k] = "asset"
             /\ Item \notin Elements => before[Item] \in {"full", "unread"}
  BY <1>1, <1>9 DEF IInv, ItemInProgress
<1>10. CASE Item \notin Elements
  <2>1. File[next].kind \notin {"int", "point"} /\ cell' = cell
    BY <1>1, <1>3, <1>10, NumbersFollowSizes
  <2>2. ASSUME Item \in Fields PROVE Slot(cell', Item) = before[Item]
    <3>1. Slot(cell, Item) \in {"full", "unread"}
      BY <1>2, <1>10, <2>2, PredictorType DEF IInv, ZeroedNumbers
    <3>2. before[Item] \in {"full", "unread"}
      BY <1>9, <1>10, <2>2
    <3>3. Slot(cell, Item) \in {"full", "damaged"} <=> before[Item] \in {"full", "damaged"}
      BY <1>2, <1>9, <2>2, SlotType
    <3> QED BY <2>1, <3>1, <3>2, <3>3
  <2>3. Promised' = Promised
    BY <1>2, <1>5, <1>6, <2>2 DEF Predictors
  <2>4. Promised' \in Interrupted(Promised, Item)
    BY <1>10, <2>3 DEF Interrupted
  <2> QED BY <1>1, <1>3, <1>4, <2>4, SameItems DEF Promise!Cut
<1>11. CASE Item \in Elements
  <2>1. Item \in Fields
    BY <1>11 DEF Elements
  <2> DEFINE s == Slot(cell', Item)
  <2>2. Promised' = [before EXCEPT ![Item] = s]
    <3>1. before \in [Fields -> Slots]
      BY <1>2 DEF Predictors
    <3> QED BY <1>5, <1>6, <2>1, <3>1
  <2>3. CASE before[Item] \in {"full", "damaged"}
    <3>1. s \in {"full", "damaged"}
      BY <1>1, <1>8, <1>9, <2>1, <2>3, SlotType
    <3>2. Promised' \in Interrupted(Promised, Item)
      BY <1>5, <1>11, <2>2, <2>3, <3>1 DEF Interrupted
    <3> QED BY <1>1, <1>3, <1>4, <3>2, SameItems DEF Promise!Cut
  <2>4. CASE before[Item] \notin {"full", "damaged"}
    <3>1. ~Whole(cell', Item)
      BY <1>8, <1>9, <2>1, <2>4
    <3>2. s = IF \E k \in Of(Item) : cell'[k] = "asset" THEN "torn" ELSE "unread"
      BY <1>1, <1>11, <3>1, PartialSlot
    <3>3. before[Item] \in {"unread", "torn"}
      BY <1>2, <2>1, <2>4 DEF Predictors, Slots
    <3>4. ASSUME before[Item] = "torn" PROVE \E k \in Of(Item) : cell'[k] = "asset"
      <4>1. CASE cell' = cell
        BY <1>9, <2>1, <3>4, <4>1
      <4>2. CASE /\ cell' = [cell EXCEPT ![next] = "zeroed"]
                 /\ File[next].kind \in {"int", "point"}
        <5>1. PICK j \in Of(Item) : j < next /\ File[j].kind = "size"
          BY <1>1, <1>3, <4>2, NumbersFollowSizes
        <5>2. j \in Cells /\ j # next /\ cell[j] = "asset"
          <6>1. j \in Cells /\ j \in 1 .. Len(File)
            BY <1>7, <5>1, CellFacts
          <6>2. cell[j] = "asset"
            BY <1>1, <5>1, <6>1 DEF IInv, ReadSoFar
          <6> QED BY <1>1, <5>1, <6>1, <6>2
        <5>3. cell'[j] = "asset"
          BY <1>2, <4>2, <5>2 DEF Memory
        <5> QED BY <5>1, <5>3
      <4> QED BY <1>1, <4>1, <4>2
    <3>5. s \in {before[Item], "torn"}
      BY <3>2, <3>3, <3>4
    <3>6. Promised' \in Interrupted(Promised, Item)
      BY <1>5, <1>11, <2>2, <2>4, <3>5 DEF Interrupted
    <3> QED BY <1>1, <1>3, <1>4, <3>6, SameItems DEF Promise!Cut
  <2> QED BY <2>3, <2>4
<1> QED BY <1>10, <1>11

\* Number by number, for models of any size, the reader does what ItemReader promises
\* item by item: an item is replaced as a whole or as Interrupted allows, in file order.
THEOREM ReaderKeepsItems == Spec => KeepsItems
<1>1. IInv /\ [Next]_vars => [Promise!Next]_<<Promised, Item, reading>>
  <2> SUFFICES ASSUME IInv, [Next]_vars PROVE Promise!Next \/ UNCHANGED <<Promised, Item, reading>>
    OBVIOUS
  <2>1. CASE Deserialize
    BY <2>1, BeginKeepsPromise DEF Promise!Next
  <2>2. CASE ReadField
    BY <2>2, ReadKeepsPromise DEF Promise!Next
  <2>3. CASE Done
    BY <2>3, EndKeepsPromise DEF Promise!Next
  <2>4. CASE EndOfFile
    BY <2>4, CutKeepsPromise DEF Promise!Next
  <2>5. CASE UNCHANGED vars
    BY <2>5 DEF vars, Promised, Predictor, SlotOf, Item
  <2> QED BY <2>1, <2>2, <2>3, <2>4, <2>5 DEF Next
<1> QED BY <1>1, InitKeepsPromise, Invariant, PTL DEF Spec, KeepsItems, Promise!Spec
=============================================================================
