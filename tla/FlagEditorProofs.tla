--------------------------- MODULE FlagEditorProofs ---------------------------
(***************************************************************************)
(* Proofs about the page of a flag, for any stored conditions, contexts    *)
(* and edits: the type invariant, that the condition that is saved comes   *)
(* to what the page reads, that saving a page as it opened keeps what the  *)
(* flag evaluates to, and that a boolean strategy is on for the percentage *)
(* that the page shows.                                                    *)
(***************************************************************************)
EXTENDS FlagEditor, FiniteSetTheorems, SequenceTheorems, TLAPS

-----------------------------------------------------------------------------
(* Induction.  The induction theorems of the library have a parameter that *)
(* is an operator; these ones speak of sets instead.                       *)

\* A set of naturals that holds 0 and with each number the next holds them all:
\* were n missing, adding one would map its members up to n injectively to
\* themselves and yet miss 0.
LEMMA AllNaturals ==
    ASSUME NEW S \in SUBSET Nat, 0 \in S, \A n \in S : n + 1 \in S
    PROVE  \A n \in Nat : n \in S
<1> SUFFICES ASSUME NEW n \in Nat, n \notin S PROVE FALSE
  OBVIOUS
<1> DEFINE low == S \cap 0 .. n   next1 == [m \in low |-> m + 1]
<1>1. IsFiniteSet(low)
  <2>1. IsFiniteSet(0 .. n)
    BY FS_Interval
  <2> QED
    BY <2>1, FS_Subset, low \in SUBSET (0 .. n)
<1>2. next1 \in [low -> low]
  OBVIOUS
<1>3. next1 \in Injection(low, low)
  BY <1>2 DEF Injection, IsInjective
<1>4. next1 \in Surjection(low, low)
  <2> HIDE DEF next1, low
  <2> QED
    BY <1>1, <1>3, FS_Injection
<1>5. 0 \in low
  OBVIOUS
<1>6. \E m \in low : next1[m] = 0
  <2> HIDE DEF next1, low
  <2> QED
    BY <1>4, <1>5 DEF Surjection
<1> QED
  BY <1>6

\* A set of naturals has a least member, and Min finds it.
LEMMA LeastNatural ==
    ASSUME NEW T \in SUBSET Nat, T # {}
    PROVE  Min(T) \in T /\ \A m \in T : Min(T) <= m
<1>1. \E n \in T : \A m \in T : n <= m
  <2> SUFFICES ASSUME \A n \in T : \E m \in T : m < n PROVE FALSE
    OBVIOUS
  <2> DEFINE S == {n \in Nat : \A m \in T : n <= m}
  <2>1. 0 \in S /\ \A n \in S : n + 1 \in S
    OBVIOUS
  <2>2. \A n \in Nat : n \in S
    <3> HIDE DEF S
    <3>1. S \in SUBSET Nat
      BY DEF S
    <3> QED
      BY <2>1, <3>1, AllNaturals
  <2>3. PICK t \in T : TRUE
    OBVIOUS
  <2>4. t + 1 \in S
    BY <2>2
  <2> QED
    BY <2>4
<1> QED
  BY <1>1 DEF Min

\* Induction from n down to 1.
LEMMA Downward ==
    ASSUME NEW n \in Nat, NEW S, n > 0 => n \in S,
           \A i \in 1 .. n : i < n /\ i + 1 \in S => i \in S
    PROVE  \A i \in 1 .. n : i \in S
<1> DEFINE T == {k \in Nat : k < n => n - k \in S}
<1>1. T \in SUBSET Nat /\ 0 \in T
  OBVIOUS
<1>2. ASSUME NEW k \in T PROVE k + 1 \in T
  <2> SUFFICES ASSUME k + 1 < n PROVE n - (k + 1) \in S
    OBVIOUS
  <2>1. n - (k + 1) \in 1 .. n /\ n - (k + 1) < n /\ n - (k + 1) + 1 = n - k /\ n - k \in S
    OBVIOUS
  <2> QED
    BY <2>1
<1>3. \A k \in Nat : k \in T
  <2> HIDE DEF T
  <2> QED
    BY <1>1, <1>2, AllNaturals
<1> QED
  <2> SUFFICES ASSUME NEW i \in 1 .. n PROVE i \in S
    OBVIOUS
  <2>1. n - i \in Nat /\ n - i < n /\ n - (n - i) = i
    OBVIOUS
  <2> QED
    BY <1>3, <2>1

\* Induction from 1 up to n.
LEMMA Upward ==
    ASSUME NEW n \in Nat, NEW S, n > 0 => 1 \in S,
           \A i \in 1 .. n : i < n /\ i \in S => i + 1 \in S
    PROVE  \A i \in 1 .. n : i \in S
<1> DEFINE T == {k \in Nat : k < n => k + 1 \in S}
<1>1. T \in SUBSET Nat /\ 0 \in T
  OBVIOUS
<1>2. ASSUME NEW k \in T PROVE k + 1 \in T
  <2> SUFFICES ASSUME k + 1 < n PROVE (k + 1) + 1 \in S
    OBVIOUS
  <2>1. k + 1 \in 1 .. n /\ k + 1 < n /\ k + 1 \in S
    OBVIOUS
  <2> QED
    BY <2>1
<1>3. \A k \in Nat : k \in T
  <2> HIDE DEF T
  <2> QED
    BY <1>1, <1>2, AllNaturals
<1> QED
  <2> SUFFICES ASSUME NEW i \in 1 .. n PROVE i \in S
    OBVIOUS
  <2>1. i - 1 \in Nat /\ i - 1 < n /\ (i - 1) + 1 = i
    OBVIOUS
  <2> QED
    BY <1>3, <2>1

-----------------------------------------------------------------------------
(* Trees.                                                                  *)

\* The recursion that defines Below has a solution.
LEMMA BelowEquation ==
    ASSUME NEW node
    PROVE  /\ Below(node)[0] = {node}
           /\ \A h \in 0 .. MaxHeight - 1 :
                 Below(node)[h + 1] = UNION {ToSet(n.args) : n \in Below(node)[h]}
<1> DEFINE D == 0 .. MaxHeight
    Rhs(g, h) == IF h = 0 THEN {node} ELSE UNION {ToSet(n.args) : n \in g[h - 1]}
    Once(g) == [h \in D |-> Rhs(g, h)]
    Right(g, k) == \A h \in D : h <= k => g[h] = Rhs(g, h)
    S == {k \in Nat : \E g : g = [h \in D |-> g[h]] /\ Right(g, k)}
<1>0. MaxHeight \in Nat
  BY HeightAssumption
<1>1. 0 \in S
  <2>1. Once(<<>>) = [h \in D |-> Once(<<>>)[h]] /\ Right(Once(<<>>), 0)
    OBVIOUS
  <2> QED
    BY <2>1
<1>2. ASSUME NEW k \in S PROVE k + 1 \in S
  <2>1. PICK g : g = [h \in D |-> g[h]] /\ Right(g, k)
    OBVIOUS
  <2>2. ASSUME NEW h \in D, h <= k + 1 PROVE Rhs(g, h) = Rhs(Once(g), h)
    <3>1. CASE h = 0
      BY <3>1
    <3>2. CASE h # 0
      <4>1. h - 1 \in D /\ h - 1 <= k
        BY <1>0, <2>2, <3>2
      <4>2. g[h - 1] = Once(g)[h - 1]
        BY <2>1, <4>1
      <4> QED
        BY <4>2
    <3> QED
      BY <3>1, <3>2
  <2>3. Right(Once(g), k + 1) /\ Once(g) = [h \in D |-> Once(g)[h]]
    BY <2>2
  <2>4. \E f : f = [h \in D |-> f[h]] /\ Right(f, k + 1)
    <3> HIDE DEF Right, Once, D
    <3> QED
      BY <2>3
  <2> HIDE DEF Right, D
  <2> QED
    BY <2>4
<1>3. MaxHeight \in S
  <2> HIDE DEF S
  <2> S \in SUBSET Nat
    BY DEF S
  <2> QED
    BY <1>0, <1>1, <1>2, AllNaturals
<1> DEFINE Solves(g) == g = [h \in D |-> Rhs(g, h)]
<1>4. \E g : Solves(g)
  <2>1. PICK g : g = [h \in D |-> g[h]] /\ Right(g, MaxHeight)
    BY <1>3
  <2>2. \A h \in D : g[h] = Rhs(g, h)
    <3> HIDE DEF Rhs
    <3> QED
      BY <1>0, <2>1
  <2>3. Solves(g)
    <3> HIDE DEF Rhs, D
    <3> QED
      BY <2>1, <2>2
  <2> QED
    BY <2>3
<1>5. Below(node) = CHOOSE g : Solves(g)
  BY DEF Below
<1>6. Solves(Below(node))
  <2> HIDE DEF Solves
  <2> QED
    BY <1>4, <1>5
<1>7. \A h \in D : Below(node)[h] = Rhs(Below(node), h)
  <2> HIDE DEF Rhs, D
  <2> QED
    BY <1>6
<1> QED
  <2>1. Below(node)[0] = {node}
    <3>1. 0 \in D /\ Rhs(Below(node), 0) = {node}
      BY <1>0
    <3> HIDE DEF Rhs, D
    <3> QED
      BY <1>7, <3>1
  <2>2. ASSUME NEW h \in 0 .. MaxHeight - 1
        PROVE  Below(node)[h + 1] = UNION {ToSet(n.args) : n \in Below(node)[h]}
    <3>1. h + 1 \in D /\ h + 1 # 0 /\ h + 1 - 1 = h
      BY <1>0
    <3>2. Below(node)[h + 1] = Rhs(Below(node), h + 1)
      BY <1>7, <3>1
    <3>3. Rhs(Below(node), h + 1) = UNION {ToSet(n.args) : n \in Below(node)[h + 1 - 1]}
      BY <3>1
    <3> QED
      BY <3>1, <3>2, <3>3
  <2> QED
    BY <2>1, <2>2

\* The nodes h + 1 levels below a node are those h levels below its arguments.
LEMMA BelowArguments ==
    ASSUME NEW node, NEW h \in 0 .. MaxHeight - 1
    PROVE  Below(node)[h + 1] = UNION {Below(a)[h] : a \in ToSet(node.args)}
<1> DEFINE Of(k) == UNION {Below(a)[k] : a \in ToSet(node.args)}
    S == {k \in Nat : k < MaxHeight => Below(node)[k + 1] = Of(k)}
<1>0. MaxHeight \in Nat
  BY HeightAssumption
<1>1. 0 \in S
  <2> SUFFICES ASSUME 0 < MaxHeight PROVE Below(node)[1] = Of(0)
    BY 0 + 1 = 1
  <2>1. 0 \in 0 .. MaxHeight - 1
    BY <1>0
  <2>2. Below(node)[0] = {node} /\ Below(node)[0 + 1] = UNION {ToSet(n.args) : n \in Below(node)[0]}
    BY <2>1, BelowEquation
  <2>3. Below(node)[1] = ToSet(node.args)
    BY <2>2
  <2>4. \A a : Below(a)[0] = {a}
    BY BelowEquation
  <2> QED
    BY <2>3, <2>4
<1>2. ASSUME NEW k \in S PROVE k + 1 \in S
  <2> SUFFICES ASSUME k + 1 < MaxHeight PROVE Below(node)[k + 1 + 1] = Of(k + 1)
    OBVIOUS
  <2>1. k \in 0 .. MaxHeight - 1 /\ k + 1 \in 0 .. MaxHeight - 1
    BY <1>0
  <2>2. Below(node)[k + 1] = Of(k)
    BY <1>0
  <2>3. Below(node)[k + 1 + 1] = UNION {ToSet(n.args) : n \in Of(k)}
    BY <2>1, <2>2, BelowEquation
  <2>4. \A a : Below(a)[k + 1] = UNION {ToSet(n.args) : n \in Below(a)[k]}
    BY <2>1, BelowEquation
  <2> QED
    BY <2>3, <2>4
<1>3. h \in S
  <2> HIDE DEF S
  <2> S \in SUBSET Nat
    BY DEF S
  <2> QED
    BY <1>0, <1>1, <1>2, AllNaturals
<1> QED
  BY <1>0, <1>3

\* Whether a node is at most h levels high.
Flat(node, h) == h \in 0 .. MaxHeight /\ \A n \in Below(node)[h] : n.args = <<>>

\* The arguments of a node are less high than the node; a node without arguments has
\* no level below it.
LEMMA FlatArguments ==
    ASSUME NEW node, NEW h \in 0 .. MaxHeight
    PROVE  /\ node.args = <<>> => Flat(node, h)
           /\ h > 0 => (Flat(node, h) <=> \A a \in ToSet(node.args) : Flat(a, h - 1))
<1>0. MaxHeight \in Nat
  BY HeightAssumption
<1>1. ASSUME h > 0 PROVE Flat(node, h) <=> \A a \in ToSet(node.args) : Flat(a, h - 1)
  <2>1. h - 1 \in 0 .. MaxHeight - 1 /\ h - 1 \in 0 .. MaxHeight /\ h - 1 + 1 = h
    BY <1>0, <1>1
  <2>2. Below(node)[h] = UNION {Below(a)[h - 1] : a \in ToSet(node.args)}
    BY <2>1, BelowArguments
  <2> QED
    BY <2>1, <2>2 DEF Flat
<1>2. ASSUME node.args = <<>> PROVE Flat(node, h)
  <2>1. CASE h = 0
    BY <1>2, <2>1, BelowEquation DEF Flat
  <2>2. CASE h > 0
    BY <1>1, <1>2, <2>2 DEF ToSet
  <2> QED
    BY <1>0, <2>1, <2>2
<1> QED
  BY <1>1, <1>2

\* A flat node is flat at the next height.
LEMMA FlatNext ==
    ASSUME NEW node, NEW h \in 0 .. MaxHeight - 1, Flat(node, h)
    PROVE  Flat(node, h + 1)
<1>1. MaxHeight \in Nat /\ h + 1 \in 0 .. MaxHeight
  BY HeightAssumption
<1>2. Below(node)[h + 1] = UNION {ToSet(n.args) : n \in Below(node)[h]}
  BY BelowEquation
<1>3. Below(node)[h + 1] = {}
  BY <1>2 DEF Flat, ToSet
<1> QED
  BY <1>1, <1>3 DEF Flat

\* Whether a tree is of bounded height: the trees that EvalNode is right about.
IsTree(node) == \E h \in 0 .. MaxHeight : Flat(node, h)

\* The nodes of a tree are trees, the less high the lower they are, and their
\* arguments are nodes of the tree.
LEMMA NodesOfTrees ==
    ASSUME NEW root, IsTree(root)
    PROVE  /\ root \in Subnodes(root)
           /\ \A n \in Subnodes(root) : IsTree(n) /\ ToSet(n.args) \subseteq Subnodes(root)
<1>0. MaxHeight \in Nat
  BY HeightAssumption
<1>1. PICK H \in 0 .. MaxHeight : Flat(root, H)
  BY DEF IsTree
<1> DEFINE P(h) == \A n \in Below(root)[h] : h <= H /\ Flat(n, H - h)
    S == {h \in Nat : h <= MaxHeight => P(h)}
<1>2. Below(root)[0] = {root}
  BY BelowEquation
<1>3. 0 \in S
  BY <1>0, <1>1, <1>2
<1>4. ASSUME NEW h \in S PROVE h + 1 \in S
  <2> SUFFICES ASSUME h + 1 <= MaxHeight, NEW n \in Below(root)[h + 1]
               PROVE  h + 1 <= H /\ Flat(n, H - (h + 1))
    OBVIOUS
  <2>1. h \in 0 .. MaxHeight - 1
    BY <1>0
  <2>2. PICK m \in Below(root)[h] : n \in ToSet(m.args)
    BY <2>1, BelowEquation
  <2>3. h <= H /\ Flat(m, H - h) /\ H - h \in 0 .. MaxHeight
    BY <1>0, <2>1
  <2>4. H - h # 0
    <3> SUFFICES ASSUME Flat(m, 0) PROVE FALSE
      BY <2>3
    <3>1. m.args = <<>>
      BY BelowEquation DEF Flat
    <3> QED
      BY <2>2, <3>1 DEF ToSet
  <2>5. Flat(n, (H - h) - 1)
    BY <2>2, <2>3, <2>4, FlatArguments
  <2>6. (H - h) - 1 = H - (h + 1) /\ h + 1 <= H
    BY <1>0, <2>3, <2>4
  <2> QED
    BY <2>5, <2>6
<1>5. \A h \in 0 .. MaxHeight : P(h)
  <2>1. S \in SUBSET Nat
    OBVIOUS
  <2>2. \A h \in Nat : h \in S
    <3> HIDE DEF S
    <3> QED
      BY <1>3, <1>4, <2>1, AllNaturals
  <2> QED
    BY <1>0, <2>2
<1>6. ASSUME NEW n \in Subnodes(root) PROVE IsTree(n) /\ ToSet(n.args) \subseteq Subnodes(root)
  <2>1. PICK h \in 0 .. MaxHeight : n \in Below(root)[h]
    BY DEF Subnodes
  <2>2. h <= H /\ Flat(n, H - h) /\ H - h \in 0 .. MaxHeight
    BY <1>0, <1>5, <2>1
  <2>3. ASSUME h = MaxHeight PROVE n.args = <<>>
    <3>1. Flat(n, 0)
      BY <1>0, <2>2, <2>3
    <3> QED
      BY <3>1, BelowEquation DEF Flat
  <2>4. ASSUME h < MaxHeight PROVE ToSet(n.args) \subseteq Below(root)[h + 1] /\ h + 1 \in 0 .. MaxHeight
    <3>1. h \in 0 .. MaxHeight - 1 /\ h + 1 \in 0 .. MaxHeight
      BY <1>0, <2>4
    <3>2. Below(root)[h + 1] = UNION {ToSet(m.args) : m \in Below(root)[h]}
      BY <3>1, BelowEquation
    <3> QED
      BY <2>1, <3>1, <3>2
  <2>5. ToSet(n.args) \subseteq Subnodes(root)
    <3>1. CASE h = MaxHeight
      BY <2>3, <3>1 DEF ToSet
    <3>2. CASE h < MaxHeight
      BY <2>4, <3>2 DEF Subnodes
    <3> QED
      BY <1>0, <3>1, <3>2
  <2> QED
    BY <2>2, <2>5 DEF IsTree
<1>7. root \in Subnodes(root)
  BY <1>0, <1>2, 0 \in 0 .. MaxHeight DEF Subnodes
<1> QED
  BY <1>6, <1>7

\* What EvalNode says of the nodes of a tree.
Values(root, x) ==
    LET value[n \in Subnodes(root)] ==
          Evaluated(n, [i \in DOMAIN n.args |-> value[n.args[i]]], x)
    IN  value

\* The recursion of EvalNode has a solution: one that is right for the nodes of height
\* at most k gives one for k + 1.
LEMMA ValuesEquation ==
    ASSUME NEW root, IsTree(root), NEW x, NEW n \in Subnodes(root)
    PROVE  Values(root, x)[n]
             = Evaluated(n, [i \in DOMAIN n.args |-> Values(root, x)[n.args[i]]], x)
<1> DEFINE D == Subnodes(root)
    Args(g, m) == [i \in DOMAIN m.args |-> g[m.args[i]]]
    Rhs(g, m) == Evaluated(m, Args(g, m), x)
    Once(g) == [m \in D |-> Rhs(g, m)]
    Low(m, k) == \E j \in 0 .. MaxHeight : j <= k /\ Flat(m, j)
    Right(g, k) == \A m \in D : Low(m, k) => g[m] = Rhs(g, m)
    S == {k \in Nat : \E g : g = [m \in D |-> g[m]] /\ Right(g, k)}
<1>0. MaxHeight \in Nat
  BY HeightAssumption
<1>1. ASSUME NEW g, NEW k \in Nat, k = 0 \/ Right(g, k - 1), NEW m \in D, Low(m, k)
      PROVE  Args(g, m) = Args(Once(g), m)
  <2> SUFFICES ASSUME NEW i \in DOMAIN m.args PROVE g[m.args[i]] = Once(g)[m.args[i]]
    OBVIOUS
  <2>1. PICK j \in 0 .. MaxHeight : j <= k /\ Flat(m, j)
    BY <1>1
  <2>2. m.args[i] \in ToSet(m.args)
    BY DEF ToSet
  <2>3. j # 0
    <3> SUFFICES ASSUME Flat(m, 0) PROVE FALSE
      BY <2>1
    <3>1. m.args = <<>>
      BY BelowEquation DEF Flat
    <3> QED
      BY <3>1
  <2>4. Flat(m.args[i], j - 1)
    BY <2>1, <2>2, <2>3, FlatArguments
  <2>5. k # 0 /\ Low(m.args[i], k - 1)
    BY <1>0, <2>1, <2>3, <2>4
  <2>6. m.args[i] \in D
    BY <2>2, NodesOfTrees
  <2> HIDE DEF Low, Rhs, D
  <2> QED
    BY <1>1, <2>5, <2>6
<1>2. ASSUME NEW g, NEW k \in Nat, k = 0 \/ Right(g, k - 1)
      PROVE  k \in S
  <2>1. \A m \in D : Low(m, k) => Rhs(g, m) = Rhs(Once(g), m)
    <3> HIDE DEF Low, D, Right, Once, Args
    <3> QED
      BY <1>1, <1>2
  <2>2. Right(Once(g), k) /\ Once(g) = [m \in D |-> Once(g)[m]]
    <3> HIDE DEF Low, D, Rhs
    <3> QED
      BY <2>1
  <2>3. \E f : f = [m \in D |-> f[m]] /\ Right(f, k)
    <3> HIDE DEF Right, Once, D
    <3> QED
      BY <2>2
  <2> HIDE DEF Right, D
  <2> QED
    BY <2>3
<1>3. MaxHeight \in S
  <2>1. S \in SUBSET Nat
    OBVIOUS
  <2>2. 0 \in S
    BY <1>2
  <2>3. ASSUME NEW k \in S PROVE k + 1 \in S
    <3>1. PICK g : Right(g, k)
      OBVIOUS
    <3>2. k + 1 \in Nat /\ (k + 1) - 1 = k
      OBVIOUS
    <3>3. Right(g, (k + 1) - 1)
      BY <3>1, <3>2
    <3> HIDE DEF Right, S
    <3> QED
      BY <1>2, <3>2, <3>3
  <2> HIDE DEF S
  <2> QED
    BY <1>0, <2>1, <2>2, <2>3, AllNaturals
<1> DEFINE Solves(g) == g = [m \in D |-> Rhs(g, m)]
<1>4. \E g : Solves(g)
  <2>1. PICK g : g = [m \in D |-> g[m]] /\ Right(g, MaxHeight)
    BY <1>3
  <2>2. \A m \in D : Low(m, MaxHeight)
    BY <1>0, NodesOfTrees DEF IsTree
  <2>3. \A m \in D : g[m] = Rhs(g, m)
    <3> HIDE DEF Low, Rhs, D
    <3> QED
      BY <2>1, <2>2
  <2>4. Solves(g)
    <3> HIDE DEF Rhs, D
    <3> QED
      BY <2>1, <2>3
  <2> QED
    BY <2>4
<1>5. Values(root, x) = CHOOSE g : Solves(g)
  BY DEF Values
<1>6. Solves(Values(root, x))
  <2> HIDE DEF Solves
  <2> QED
    BY <1>4, <1>5
<1>7. Values(root, x)[n] = Rhs(Values(root, x), n)
  <2> HIDE DEF Rhs
  <2> QED
    BY <1>6
<1> QED
  BY <1>7

\* A node has the same value in every tree, and EvalNode evaluates the arguments first.
LEMMA EvalEquation ==
    ASSUME NEW node, IsTree(node), NEW x
    PROVE  EvalNode(node, x)
             = Evaluated(node, [i \in DOMAIN node.args |-> EvalNode(node.args[i], x)], x)
<1> DEFINE Low(m, k) == \E j \in 0 .. MaxHeight : j <= k /\ Flat(m, j)
    Same(k) == \A r, n : IsTree(r) /\ n \in Subnodes(r) /\ Low(n, k)
                           => Values(r, x)[n] = Values(n, x)[n]
    S == {k \in Nat : Same(k)}
<1>0. MaxHeight \in Nat
  BY HeightAssumption
<1>1. ASSUME NEW k \in Nat, k = 0 \/ Same(k - 1), NEW r, IsTree(r), NEW n \in Subnodes(r), Low(n, k)
      PROVE  Values(r, x)[n] = Values(n, x)[n]
  <2>1. IsTree(n) /\ n \in Subnodes(n)
    BY <1>1, NodesOfTrees
  <2>2. ASSUME NEW i \in DOMAIN n.args
        PROVE  Values(r, x)[n.args[i]] = Values(n, x)[n.args[i]]
    <3>1. PICK j \in 0 .. MaxHeight : j <= k /\ Flat(n, j)
      BY <1>1
    <3>2. n.args[i] \in ToSet(n.args)
      BY DEF ToSet
    <3>3. j # 0
      <4> SUFFICES ASSUME Flat(n, 0) PROVE FALSE
        BY <3>1
      <4>1. n.args = <<>>
        BY BelowEquation DEF Flat
      <4> QED
        BY <4>1
    <3>4. Flat(n.args[i], j - 1)
      BY <3>1, <3>2, <3>3, FlatArguments
    <3>5. k # 0 /\ Low(n.args[i], k - 1)
      BY <1>0, <3>1, <3>3, <3>4
    <3>6. n.args[i] \in Subnodes(r) /\ n.args[i] \in Subnodes(n)
      BY <1>1, <2>1, <3>2, NodesOfTrees
    <3> HIDE DEF Low
    <3> QED
      BY <1>1, <2>1, <3>5, <3>6
  <2>3. [i \in DOMAIN n.args |-> Values(r, x)[n.args[i]]]
          = [i \in DOMAIN n.args |-> Values(n, x)[n.args[i]]]
    BY <2>2
  <2>4. Values(r, x)[n] = Evaluated(n, [i \in DOMAIN n.args |-> Values(r, x)[n.args[i]]], x)
    BY <1>1, ValuesEquation
  <2>5. Values(n, x)[n] = Evaluated(n, [i \in DOMAIN n.args |-> Values(n, x)[n.args[i]]], x)
    BY <2>1, ValuesEquation
  <2> QED
    BY <2>3, <2>4, <2>5
<1>2. MaxHeight \in S
  <2>1. S \in SUBSET Nat
    OBVIOUS
  <2>2. 0 \in S
    BY <1>1
  <2>3. ASSUME NEW k \in S PROVE k + 1 \in S
    <3>1. k + 1 \in Nat /\ Same((k + 1) - 1)
      OBVIOUS
    <3>2. Same(k + 1)
      <4> HIDE DEF Low
      <4> QED
        BY <1>1, <3>1
    <3> QED
      BY <3>1, <3>2
  <2> HIDE DEF S
  <2> QED
    BY <1>0, <2>1, <2>2, <2>3, AllNaturals
<1>3. \A n \in Subnodes(node) : Values(node, x)[n] = Values(n, x)[n]
  <2>1. \A n \in Subnodes(node) : Low(n, MaxHeight)
    BY <1>0, NodesOfTrees DEF IsTree
  <2> HIDE DEF Low
  <2> QED
    BY <1>2, <2>1
<1>4. \A n : EvalNode(n, x) = Values(n, x)[n]
  BY DEF EvalNode, Values
<1>5. [i \in DOMAIN node.args |-> Values(node, x)[node.args[i]]]
        = [i \in DOMAIN node.args |-> EvalNode(node.args[i], x)]
  <2> SUFFICES ASSUME NEW i \in DOMAIN node.args
               PROVE  Values(node, x)[node.args[i]] = EvalNode(node.args[i], x)
    OBVIOUS
  <2>1. node.args[i] \in Subnodes(node)
    BY NodesOfTrees DEF ToSet
  <2> QED
    BY <1>3, <1>4, <2>1
<1> QED
  BY <1>4, <1>5, NodesOfTrees, ValuesEquation

-----------------------------------------------------------------------------
(* Chains.                                                                 *)

\* What a comparison and its combinations come to.
Truths == {Bool(TRUE), Bool(FALSE), Error}

LEMMA DistinctTruths ==
    /\ Bool(TRUE).type = "bool" /\ Bool(FALSE).type = "bool" /\ Error.type = "error"
    /\ Bool(TRUE) # Bool(FALSE) /\ Bool(TRUE) # Error /\ Bool(FALSE) # Error
<1>1. Bool(TRUE).text = <<"true">> /\ Bool(FALSE).text = <<"false">>
  BY DEF Bool, Value, Text
<1>2. Bool(TRUE).type = "bool" /\ Bool(FALSE).type = "bool" /\ Error.type = "error"
  BY DEF Bool, Value, Error
<1>3. <<"true">> # <<"false">>
  OBVIOUS
<1> QED
  BY <1>1, <1>2, <1>3

\* The value that decides nothing.
Neutral(op) == Bool(op = "and")

Deciding(op, s) == {i \in DOMAIN s : s[i] # Neutral(op)}

LEMMA NeutralIsTruth ==
    \A op : Neutral(op) \in {Bool(TRUE), Bool(FALSE)} /\ Neutral(op) \in Truths
<1>1. \A op : Neutral(op) \in {Bool(TRUE), Bool(FALSE)}
  BY DEF Neutral, Bool
<1> QED
  BY <1>1, Zenon DEF Truths

\* The first value that is not neutral decides.
LEMMA ChainDecides ==
    ASSUME NEW op, NEW s \in Seq(Truths)
    PROVE  /\ Deciding(op, s) = {} => EvalBoolChain(op, s) = Neutral(op)
           /\ Deciding(op, s) # {} =>
                 /\ EvalBoolChain(op, s) = s[Min(Deciding(op, s))]
                 /\ Min(Deciding(op, s)) \in Deciding(op, s)
                 /\ \A i \in Deciding(op, s) : Min(Deciding(op, s)) <= i
                 /\ s[Min(Deciding(op, s))] \in Truths
<1> DEFINE T == Deciding(op, s)
<1>1. T \in SUBSET Nat /\ T \subseteq DOMAIN s
  BY DEF Deciding
<1>2. T # {} => Min(T) \in T /\ \A i \in T : Min(T) <= i
  <2> HIDE DEF T
  <2> QED
    BY <1>1, LeastNatural
<1>3. T # {} => s[Min(T)] \in Truths
  <2> HIDE DEF T
  <2>1. \A i \in DOMAIN s : s[i] \in Truths
    OBVIOUS
  <2> QED
    BY <1>1, <1>2, <2>1
<1>4. \A v \in Truths : (IF v.type = "bool" THEN v ELSE Error) = v
  BY DistinctTruths DEF Truths
<1>5. EvalBoolChain(op, s) = IF T = {} THEN Neutral(op)
                             ELSE IF s[Min(T)].type = "bool" THEN s[Min(T)] ELSE Error
  BY DEF EvalBoolChain, Neutral, Deciding
<1> HIDE DEF T
<1>6. T # {} => EvalBoolChain(op, s) = s[Min(T)]
  BY <1>3, <1>4, <1>5
<1> QED
  BY <1>2, <1>3, <1>5, <1>6 DEF T

LEMMA EmptyChain == \A op : EvalBoolChain(op, <<>>) = Neutral(op)
BY DEF EvalBoolChain, Neutral

\* A chain is its first value, unless that is neutral: then it is the rest of the chain.
LEMMA ChainStep ==
    ASSUME NEW op \in COMBINATORS, NEW s \in Seq(Truths), s # <<>>
    PROVE  /\ EvalBoolChain(op, s) = IF Head(s) = Neutral(op) THEN EvalBoolChain(op, Tail(s))
                                     ELSE Head(s)
           /\ EvalBoolChain(op, s) \in Truths
<1> DEFINE T(t) == Deciding(op, t)
<1>1. ASSUME NEW t \in Seq(Truths)
      PROVE  /\ T(t) = {} => EvalBoolChain(op, t) = Neutral(op)
             /\ T(t) # {} => EvalBoolChain(op, t) = t[Min(T(t))]
             /\ T(t) # {} => /\ Min(T(t)) \in T(t) /\ t[Min(T(t))] \in Truths
                             /\ \A i \in T(t) : Min(T(t)) <= i
  BY ChainDecides
<1>2. Tail(s) \in Seq(Truths) /\ Len(s) \in Nat /\ Len(s) > 0 /\ DOMAIN s = 1 .. Len(s)
  OBVIOUS
<1>3. DOMAIN Tail(s) = 1 .. Len(s) - 1 /\ \A i \in 1 .. Len(s) - 1 : Tail(s)[i] = s[i + 1]
  OBVIOUS
<1>4. Head(s) = s[1]
  OBVIOUS
<1>5. /\ T(s) = {i \in 1 .. Len(s) : s[i] # Neutral(op)}
      /\ T(Tail(s)) = {i \in 1 .. Len(s) - 1 : s[i + 1] # Neutral(op)}
  BY <1>2, <1>3 DEF Deciding
<1> HIDE DEF T
<1>6. CASE Head(s) # Neutral(op)
  <2>1. 1 \in T(s)
    BY <1>2, <1>4, <1>5, <1>6
  <2>2. \A i \in T(s) : i \in Nat /\ i >= 1
    BY <1>2, <1>5
  <2>3. Min(T(s)) = 1
    BY <1>1, <2>1, <2>2
  <2> QED
    BY <1>1, <1>4, <1>6, <2>1, <2>3
<1>7. CASE Head(s) = Neutral(op)
  <2>1. \A i \in Nat : i \in T(Tail(s)) <=> i + 1 \in T(s) /\ i # 0
    BY <1>2, <1>3, <1>5
  <2>2. \A i \in T(s) : i - 1 \in Nat /\ i - 1 \in T(Tail(s)) /\ i = (i - 1) + 1
    BY <1>2, <1>3, <1>4, <1>5, <1>7
  <2>3. CASE T(Tail(s)) = {}
    <3>1. T(s) = {}
      BY <2>2, <2>3
    <3> QED
      BY <1>1, <1>2, <1>7, NeutralIsTruth, <2>3, <3>1
  <2>4. CASE T(Tail(s)) # {}
    <3> DEFINE m == Min(T(Tail(s)))
    <3>1. m \in T(Tail(s)) /\ \A i \in T(Tail(s)) : m <= i
      BY <1>1, <1>2, <2>4
    <3>2. m \in 1 .. Len(s) - 1
      BY <1>3, <1>5, <3>1
    <3>3. m + 1 \in T(s)
      BY <2>1, <3>1, <3>2
    <3>4. Min(T(s)) \in T(s) /\ Min(T(s)) <= m + 1 /\ T(s) # {}
      BY <1>1, <3>3
    <3>5. Min(T(s)) \in Nat
      BY <1>2, <1>5, <3>4
    <3>6. Min(T(s)) - 1 \in T(Tail(s))
      BY <2>2, <3>4
    <3>7. Min(T(s)) = m + 1
      BY <3>1, <3>2, <3>4, <3>5, <3>6
    <3>8. s[m + 1] = Tail(s)[m]
      BY <1>3, <3>2
    <3> QED
      BY <1>1, <1>2, <1>7, <2>4, <3>4, <3>7, <3>8
  <2> QED
    BY <2>3, <2>4
<1> QED
  BY <1>6, <1>7

\* A chain of one value, and one that is put together from its first value and others.
LEMMA ChainCons ==
    ASSUME NEW op \in COMBINATORS, NEW v \in Truths, NEW s \in Seq(Truths)
    PROVE  /\ EvalBoolChain(op, <<v>> \o s) = IF v = Neutral(op) THEN EvalBoolChain(op, s) ELSE v
           /\ EvalBoolChain(op, <<v>>) = v
           /\ EvalBoolChain(op, s) \in Truths
<1>1. <<v>> \o s \in Seq(Truths) /\ <<v>> \o s # <<>> /\ Head(<<v>> \o s) = v
  OBVIOUS
<1>2. Tail(<<v>> \o s) = s
  OBVIOUS
<1>3. <<v>> \in Seq(Truths) /\ <<v>> # <<>> /\ Head(<<v>>) = v /\ Tail(<<v>>) = <<>>
  OBVIOUS
<1>4. EvalBoolChain(op, <<v>>) = v
  BY <1>3, ChainStep, EmptyChain
<1>5. EvalBoolChain(op, s) \in Truths
  <2>1. Neutral(op) \in Truths
    BY DEF Neutral, Truths
  <2>2. CASE s = <<>>
    BY <2>1, <2>2, EmptyChain
  <2> QED
    BY <2>2, ChainStep
<1> QED
  BY <1>1, <1>2, <1>4, <1>5, ChainStep

-----------------------------------------------------------------------------
(* Comparisons.                                                            *)

LEMMA BoolIsTruth == \A b : Bool(b) \in {Bool(TRUE), Bool(FALSE)}
BY DEF Bool

LEMMA NegationIsTruth == \A v : Negation(v) \in Truths
BY BoolIsTruth DEF Negation, Truths

\* A comparison of two values is true, false or an error.
LEMMA ComparisonIsTruth == \A op, l, r : ApplyOperator(op, l, r) \in Truths
<1> SUFFICES ASSUME NEW op, NEW l, NEW r PROVE ApplyOperator(op, l, r) \in Truths
  OBVIOUS
<1>1. Bool(TRUE) \in Truths /\ Bool(FALSE) \in Truths
  BY DEF Truths
<1>2. Error \in Truths
  BY DEF Truths
<1>3. \A a, b, c : CompareNumbers(a, b, c) \in Truths /\ CompareSemverOp(a, b, c) \in Truths
  BY <1>1, <1>2 DEF CompareNumbers, CompareSemverOp, Bool
<1>4. \A a, b : RegexMatch(a, b) \in Truths
  BY <1>1, <1>2 DEF RegexMatch, Bool
<1>5. \A a, b : MembershipCheck(a, b) \in Truths
  <2> SUFFICES ASSUME NEW a, NEW b PROVE MembershipCheck(a, b) \in Truths
    OBVIOUS
  <2>1. CASE b.type = "list"
    BY <1>1, <2>1 DEF MembershipCheck, Bool
  <2>2. CASE b.type = "string"
    BY <1>1, <2>2 DEF MembershipCheck, Bool
  <2>3. CASE b.type # "list" /\ b.type # "string"
    BY <1>2, <2>3 DEF MembershipCheck
  <2> QED
    BY <2>1, <2>2, <2>3
<1>6. \A v : Negation(v) \in Truths
  BY NegationIsTruth
<1>7. ApplyOperator(op, l, r) \in Truths
  <2> HIDE DEF Truths
  <2>1. Bool(Sprint(l) = Sprint(r)) \in Truths /\ Bool(Sprint(l) # Sprint(r)) \in Truths
    BY <1>1 DEF Bool
  <2> QED
    BY <1>2, <1>3, <1>4, <1>5, <1>6, <2>1, ZenonT(60) DEF ApplyOperator
<1> QED
  BY <1>7

\* What a context says of an attribute.
ValueIn(attribute, x) == IF attribute \in DOMAIN x THEN x[attribute] ELSE Nil

\* A context gives no attribute an error for a value.
IsContext(x) == \A a \in DOMAIN x : x[a].type # "error"

IsComparison(node) ==
    /\ node.op \in OPERATORS
    /\ DOMAIN node.args = 1 .. 2 /\ node.args = [i \in 1 .. 2 |-> node.args[i]]
    /\ node.args[1].op = "var" /\ node.args[1].args = <<>>
    /\ node.args[1].value.type = "string"
    /\ node.args[2].op = "literal" /\ node.args[2].args = <<>>
    /\ node.args[2].value.type # "error"

\* A comparison of an attribute with a value comes to what its operator makes of both.
LEMMA ComparisonMeans ==
    ASSUME NEW node, IsComparison(node), NEW x, IsContext(x)
    PROVE  /\ Flat(node, 1)
           /\ EvalNode(node, x)
                = ApplyOperator(node.op, ValueIn(node.args[1].value.text, x), node.args[2].value)
           /\ EvalNode(node, x) \in Truths
<1> DEFINE left == node.args[1]   right == node.args[2]
<1>0. MaxHeight \in Nat /\ 0 \in 0 .. MaxHeight /\ 1 \in 0 .. MaxHeight /\ 1 - 1 = 0
  BY HeightAssumption
<1>1. Flat(left, 0) /\ Flat(right, 0)
  BY <1>0, FlatArguments DEF IsComparison
<1>2. ToSet(node.args) = {left, right}
  BY DEF IsComparison, ToSet
<1>3. Flat(node, 1)
  BY <1>0, <1>1, <1>2, FlatArguments
<1>4. IsTree(left) /\ IsTree(right) /\ IsTree(node)
  BY <1>0, <1>1, <1>3 DEF IsTree
<1>5. EvalNode(right, x) = right.value
  BY <1>4, EvalEquation DEF Evaluated, IsComparison
<1>6. EvalNode(left, x) = ValueIn(left.value.text, x)
  <2>1. Literal(left.value).op = "literal" /\ Literal(left.value).value = left.value
    BY DEF Literal, Node
  <2>2. left.op = "var" /\ left.args = <<>> /\ left.value.type = "string"
    BY DEF IsComparison
  <2>3. EvalNode(left, x) = Evaluated(left, [i \in DOMAIN left.args |-> EvalNode(left.args[i], x)], x)
    BY <1>4, EvalEquation
  <2> HIDE DEF left
  <2> QED
    BY <2>1, <2>2, <2>3 DEF Evaluated, ValueIn
<1>7. EvalNode(left, x) # Error /\ EvalNode(right, x) # Error
  <2>1. Error.type = "error"
    BY DistinctTruths
  <2>2. Nil.type # "error"
    BY DEF Nil, Value
  <2>3. EvalNode(left, x).type # "error"
    <3> HIDE DEF left
    <3> QED
      BY <1>6, <2>2 DEF ValueIn, IsContext
  <2>4. EvalNode(right, x).type # "error"
    BY <1>5 DEF IsComparison
  <2> QED
    BY <2>1, <2>3, <2>4
<1> DEFINE args == [i \in DOMAIN node.args |-> EvalNode(node.args[i], x)]
<1>8. args = <<EvalNode(left, x), EvalNode(right, x)>>
  BY DEF IsComparison
<1>9. Len(args) = 2 /\ args[1] = EvalNode(left, x) /\ args[2] = EvalNode(right, x) /\ Error \notin ToSet(args)
  <2> HIDE DEF left, right, args
  <2> QED
    BY <1>7, <1>8 DEF ToSet
<1>10. node.op \notin {"literal", "var", "and", "or", "!"}
  <2>1. node.op \in OPERATORS
    BY DEF IsComparison
  <2> QED
    BY <2>1, Zenon DEF OPERATORS
<1>11. EvalNode(node, x) = Evaluated(node, args, x)
  BY <1>4, EvalEquation
<1>12. EvalNode(node, x) = ApplyOperator(node.op, args[1], args[2])
  <2> HIDE DEF args
  <2> QED
    BY <1>9, <1>10, <1>11 DEF Evaluated
<1> QED
  BY <1>3, <1>5, <1>6, <1>9, <1>12, ComparisonIsTruth

\* A negation comes to that of what it negates, and is one level higher.
LEMMA NegationMeans ==
    ASSUME NEW node, node.op = "!", NEW inner, node.args = <<inner>>,
           NEW h \in 0 .. MaxHeight - 1, Flat(inner, h), NEW x
    PROVE  Flat(node, h + 1) /\ EvalNode(node, x) = Negation(EvalNode(inner, x))
<1>0. MaxHeight \in Nat /\ h + 1 \in 0 .. MaxHeight /\ h + 1 > 0 /\ h + 1 - 1 = h
  BY HeightAssumption
<1>1. ToSet(node.args) = {inner}
  BY DEF ToSet
<1>2. Flat(node, h + 1)
  BY <1>0, <1>1, FlatArguments
<1>3. IsTree(node)
  BY <1>0, <1>2 DEF IsTree
<1> DEFINE args == [i \in DOMAIN node.args |-> EvalNode(node.args[i], x)]
<1>4. args = <<EvalNode(inner, x)>>
  OBVIOUS
<1>5. Len(args) = 1 /\ Head(args) = EvalNode(inner, x)
  BY <1>4
<1>6. EvalNode(node, x) = Evaluated(node, args, x)
  BY <1>3, EvalEquation
<1>7. EvalNode(node, x) = Negation(Head(args))
  <2> HIDE DEF args
  <2> QED
    BY <1>5, <1>6 DEF Evaluated
<1> QED
  BY <1>2, <1>5, <1>7

\* A chain comes to that of the values of its members, and is one level higher.
LEMMA CombinationMeans ==
    ASSUME NEW node, node.op \in COMBINATORS,
           NEW h \in 0 .. MaxHeight - 1, \A i \in DOMAIN node.args : Flat(node.args[i], h), NEW x
    PROVE  /\ Flat(node, h + 1)
           /\ EvalNode(node, x)
                = EvalBoolChain(node.op, [i \in DOMAIN node.args |-> EvalNode(node.args[i], x)])
<1>0. MaxHeight \in Nat /\ h + 1 \in 0 .. MaxHeight /\ h + 1 > 0 /\ h + 1 - 1 = h
  BY HeightAssumption
<1>1. Flat(node, h + 1)
  <2>1. \A a \in ToSet(node.args) : Flat(a, h)
    BY DEF ToSet
  <2> QED
    BY <1>0, <2>1, FlatArguments
<1>2. IsTree(node)
  BY <1>0, <1>1 DEF IsTree
<1>3. node.op \in {"and", "or"}
  BY DEF COMBINATORS
<1> DEFINE args == [i \in DOMAIN node.args |-> EvalNode(node.args[i], x)]
<1>4. EvalNode(node, x) = Evaluated(node, args, x)
  BY <1>2, EvalEquation
<1>5. EvalNode(node, x) = EvalBoolChain(node.op, args)
  <2> HIDE DEF args
  <2> QED
    BY <1>3, <1>4 DEF Evaluated
<1> QED
  BY <1>1, <1>5

-----------------------------------------------------------------------------
(* Leaves and groups.                                                      *)

\* What a leaf is compared with, and what that comes to.
ListOf(leaf) == List([i \in DOMAIN leaf.value |-> Str(Text(Trim[leaf.value[i]]))])
Operand(leaf) == IF leaf.operator \in {"in", "not in"} THEN ListOf(leaf) ELSE Str(leaf.value)
Comparison(leaf) == Apply(leaf.operator, <<Var(leaf.attribute), Literal(Operand(leaf))>>)
Compared(leaf, x) == ApplyOperator(leaf.operator, ValueIn(leaf.attribute, x), Operand(leaf))

LEMMA ComparisonOfLeaf ==
    ASSUME NEW leaf, leaf.operator \in OPERATORS
    PROVE  /\ IsComparison(Comparison(leaf))
           /\ Comparison(leaf).args[1].value.text = leaf.attribute
           /\ Comparison(leaf).args[2].value = Operand(leaf)
           /\ Comparison(leaf).op = leaf.operator
<1>1. Str(leaf.attribute).type = "string" /\ Str(leaf.attribute).text = leaf.attribute
  BY DEF Str, Value
<1>2. Operand(leaf).type # "error"
  <2>1. ListOf(leaf).type = "list" /\ Str(leaf.value).type = "string"
    BY DEF ListOf, List, Str, Value
  <2>2. Operand(leaf) = ListOf(leaf) \/ Operand(leaf) = Str(leaf.value)
    BY Zenon DEF Operand
  <2> QED
    BY <2>1, <2>2
<1> DEFINE left == Var(leaf.attribute)   right == Literal(Operand(leaf))
<1>3. left.op = "var" /\ left.args = <<>> /\ left.value = Str(leaf.attribute)
  BY DEF Var, Node
<1>4. right.op = "literal" /\ right.args = <<>> /\ right.value = Operand(leaf)
  BY DEF Literal, Node
<1>5. Comparison(leaf).op = leaf.operator /\ Comparison(leaf).args = <<left, right>>
  BY DEF Comparison, Apply, Node
<1>6. DOMAIN <<left, right>> = 1 .. 2 /\ <<left, right>>[1] = left /\ <<left, right>>[2] = right
      /\ <<left, right>> = [i \in 1 .. 2 |-> <<left, right>>[i]]
  OBVIOUS
<1> HIDE DEF left, right
<1> QED
  BY <1>1, <1>2, <1>3, <1>4, <1>5, <1>6 DEF IsComparison

\* How the page reads a leaf, before it is negated.
LEMMA ReadingOfLeaf ==
    ASSUME NEW leaf, NEW x
    PROVE  LeafReads(leaf, x) = Verdict(IF leaf.negate THEN Negation(Compared(leaf, x))
                                        ELSE Compared(leaf, x))
<1> DEFINE left == ValueIn(leaf.attribute, x)
    among == Bool(\E i \in DOMAIN leaf.value : Text(Trim[leaf.value[i]]) = Sprint(left))
<1>1. MembershipCheck(left, ListOf(leaf)) = among
  <2>1. \A t : Sprint(Str(t)) = t
    BY DEF Sprint, Str, Value
  <2>2. ListOf(leaf).type = "list"
    BY DEF ListOf, List, Value
  <2>3. ListOf(leaf).items = [i \in DOMAIN leaf.value |-> Str(Text(Trim[leaf.value[i]]))]
    BY DEF ListOf, List, Value
  <2>4. DOMAIN ListOf(leaf).items = DOMAIN leaf.value
        /\ \A i \in DOMAIN leaf.value :
              Sprint(ListOf(leaf).items[i]) = Text(Trim[leaf.value[i]])
    BY <2>1, <2>3
  <2> HIDE DEF left
  <2> QED
    BY <2>2, <2>4 DEF MembershipCheck, Bool
<1>2. (CASE leaf.operator = "in"     -> among
         [] leaf.operator = "not in" -> Negation(among)
         [] OTHER -> ApplyOperator(leaf.operator, left, Str(leaf.value))) = Compared(leaf, x)
  <2> HIDE DEF among, left
  <2>1. CASE leaf.operator = "in"
    BY <1>1, <2>1, Zenon DEF Compared, Operand, ApplyOperator, left
  <2>2. CASE leaf.operator = "not in"
    BY <1>1, <2>2, Zenon DEF Compared, Operand, ApplyOperator, left
  <2>3. CASE leaf.operator # "in" /\ leaf.operator # "not in"
    BY <2>3, Zenon DEF Compared, Operand, left
  <2> QED
    BY <2>1, <2>2, <2>3, Zenon
<1>3. left = IF leaf.attribute \in DOMAIN x THEN x[leaf.attribute] ELSE Nil
  BY DEF ValueIn
<1> HIDE DEF left
<1>4. LeafReads(leaf, x) = Verdict(
        IF leaf.negate
        THEN Negation(CASE leaf.operator = "in"     -> among
                        [] leaf.operator = "not in" -> Negation(among)
                        [] OTHER -> ApplyOperator(leaf.operator, left, Str(leaf.value)))
        ELSE CASE leaf.operator = "in"     -> among
               [] leaf.operator = "not in" -> Negation(among)
               [] OTHER -> ApplyOperator(leaf.operator, left, Str(leaf.value)))
  <2> HIDE DEF among
  <2> QED
    BY <1>3, Zenon DEF LeafReads, among
<1> HIDE DEF among
<1> QED
  BY <1>2, <1>4, Zenon

\* The condition of a leaf comes to what the page reads.
LEMMA LeafMeans ==
    ASSUME NEW leaf, leaf.operator \in OPERATORS, NEW x, IsContext(x)
    PROVE  /\ Flat(LeafToCondition(leaf), 2)
           /\ EvalNode(LeafToCondition(leaf), x) \in Truths
           /\ LeafReads(leaf, x) = Verdict(EvalNode(LeafToCondition(leaf), x))
           /\ LeafToCondition(leaf).op \in OPERATORS \cup {"!"}
<1> DEFINE inner == Comparison(leaf)   node == LeafToCondition(leaf)
<1>0. 0 \in 0 .. MaxHeight - 1 /\ 1 \in 0 .. MaxHeight - 1 /\ 1 + 1 = 2 /\ 1 \in 0 .. MaxHeight
  BY HeightAssumption
<1>1. node = IF leaf.negate THEN Apply("!", <<inner>>) ELSE inner
  BY Zenon DEF LeafToCondition, Comparison, Operand, ListOf
<1>2. Flat(inner, 1) /\ EvalNode(inner, x) = Compared(leaf, x)
  BY ComparisonOfLeaf, ComparisonMeans DEF Compared
<1>3. Compared(leaf, x) \in Truths
  BY ComparisonIsTruth DEF Compared
<1>4. inner.op \in OPERATORS
  BY ComparisonOfLeaf
<1> HIDE DEF inner, node
<1>5. CASE leaf.negate
  <2>1. node.op = "!" /\ node.args = <<inner>>
    BY <1>1, <1>5 DEF Apply, Node
  <2>2. Flat(node, 2) /\ EvalNode(node, x) = Negation(Compared(leaf, x))
    BY <1>0, <1>2, <2>1, NegationMeans
  <2> QED
    BY <1>5, <2>1, <2>2, ReadingOfLeaf, NegationIsTruth DEF node
<1>6. CASE ~ leaf.negate
  <2>1. node = inner
    BY <1>1, <1>6
  <2>2. Flat(node, 2)
    BY <1>0, <1>2, <2>1, FlatNext
  <2> QED
    BY <1>2, <1>3, <1>4, <1>6, <2>1, <2>2, ReadingOfLeaf DEF node
<1> QED
  BY <1>5, <1>6

LEMMA Verdicts ==
    /\ Verdict(Bool(TRUE)) = "yes" /\ Verdict(Bool(FALSE)) = "no" /\ Verdict(Error) = "error"
    /\ \A v, w \in Truths : Verdict(v) = Verdict(w) => v = w
<1>1. Verdict(Bool(TRUE)) = "yes" /\ Verdict(Bool(FALSE)) = "no" /\ Verdict(Error) = "error"
  <2> DEFINE t == Bool(TRUE)   f == Bool(FALSE)
  <2>1. \A v : Verdict(v) = CASE v = t -> "yes" [] v = f -> "no" [] OTHER -> "error"
    BY DEF Verdict
  <2>2. t # f /\ t # Error /\ f # Error
    BY DistinctTruths
  <2> HIDE DEF t, f
  <2>3. Verdict(t) = "yes" /\ Verdict(f) = "no" /\ Verdict(Error) = "error"
    BY <2>1, <2>2
  <2> QED
    BY <2>3, Zenon DEF t, f
<1>2. ASSUME NEW v \in Truths, NEW w \in Truths, Verdict(v) = Verdict(w) PROVE v = w
  <2> DEFINE t == Bool(TRUE)   f == Bool(FALSE)
  <2>1. v \in {t, f, Error} /\ w \in {t, f, Error}
    BY Zenon DEF Truths
  <2>2. Verdict(t) = "yes" /\ Verdict(f) = "no" /\ Verdict(Error) = "error"
    BY <1>1
  <2> HIDE DEF t, f
  <2> QED
    BY <1>2, <2>1, <2>2
<1> QED
  BY <1>1, <1>2

LEMMA VerdictOfNeutral ==
    ASSUME NEW op \in COMBINATORS
    PROVE  Verdict(Neutral(op)) = IF op = "and" THEN "yes" ELSE "no"
<1>1. op = "and" => Neutral(op) = Bool(TRUE)
  BY DEF Neutral, Bool
<1>2. op # "and" => Neutral(op) = Bool(FALSE)
  BY DEF Neutral, Bool
<1> QED
  BY <1>1, <1>2, Verdicts

\* An item as RowsTypeOK has it.
IsItem(item) ==
    /\ item.kind \in {"row", "group"} /\ item.combinator \in COMBINATORS
    /\ item.conditions \in Seq(Leaves) /\ item.conditions # <<>>
    /\ item.kind = "row" => Len(item.conditions) = 1

\* An item reads as the chain of what its leaves come to.
LEMMA ReadingOfItem ==
    ASSUME NEW item, item.combinator \in COMBINATORS, NEW x,
           NEW s \in Seq(Truths), DOMAIN s = DOMAIN item.conditions,
           \A j \in DOMAIN s : LeafReads(item.conditions[j], x) = Verdict(s[j])
    PROVE  ItemReads(item, x) = Verdict(EvalBoolChain(item.combinator, s))
<1> DEFINE op == item.combinator
    neutral == IF op = "and" THEN "yes" ELSE "no"
    D == {j \in DOMAIN item.conditions : LeafReads(item.conditions[j], x) # neutral}
<1>1. neutral = Verdict(Neutral(op))
  BY VerdictOfNeutral
<1>2. \A j \in DOMAIN s : s[j] \in Truths
  OBVIOUS
<1>3. D = Deciding(op, s)
  BY <1>1, <1>2, NeutralIsTruth, Verdicts DEF Deciding
<1>4. ItemReads(item, x) = IF D = {} THEN neutral ELSE LeafReads(item.conditions[Min(D)], x)
  BY DEF ItemReads
<1> HIDE DEF D, neutral, op
<1>5. CASE D = {}
  BY <1>1, <1>3, <1>4, <1>5, ChainDecides DEF op
<1>6. CASE D # {}
  <2>1. Min(D) \in D /\ EvalBoolChain(op, s) = s[Min(D)] /\ D \subseteq DOMAIN s
    BY <1>3, <1>6, ChainDecides DEF Deciding
  <2> QED
    BY <1>4, <1>6, <2>1 DEF op
<1> QED
  BY <1>5, <1>6

\* The condition of an item comes to what the page reads.
LEMMA ItemMeans ==
    ASSUME NEW item, IsItem(item), NEW x, IsContext(x)
    PROVE  /\ Flat(ItemToCondition(item), 3)
           /\ EvalNode(ItemToCondition(item), x) \in Truths
           /\ ItemReads(item, x) = Verdict(EvalNode(ItemToCondition(item), x))
           /\ ItemToCondition(item).op \in OPERATORS \cup {"!", "and", "or"}
<1> DEFINE n == Len(item.conditions)   node == ItemToCondition(item)
    Of(j) == LeafToCondition(item.conditions[j])
    s == [j \in 1 .. n |-> EvalNode(Of(j), x)]
<1>0. 2 \in 0 .. MaxHeight - 1 /\ 2 + 1 = 3 /\ 3 \in 0 .. MaxHeight
  BY HeightAssumption
<1>1. n \in Nat /\ n > 0 /\ DOMAIN item.conditions = 1 .. n
      /\ \A j \in 1 .. n : item.conditions[j].operator \in OPERATORS
  <2>1. item.conditions \in Seq(Leaves) /\ item.conditions # <<>>
    BY DEF IsItem
  <2>2. \A leaf \in Leaves : leaf.operator \in OPERATORS
    BY DEF Leaves
  <2> HIDE DEF node, s
  <2> QED
    BY <2>1, <2>2
<1>2. \A j \in 1 .. n : /\ Flat(Of(j), 2) /\ EvalNode(Of(j), x) \in Truths
                        /\ LeafReads(item.conditions[j], x) = Verdict(EvalNode(Of(j), x))
                        /\ Of(j).op \in OPERATORS \cup {"!"}
  BY <1>1, LeafMeans
<1>3. s \in Seq(Truths) /\ DOMAIN s = 1 .. n /\ Len(s) = n
  <2> HIDE DEF Of
  <2> QED
    BY <1>1, <1>2
<1>4. ItemReads(item, x) = Verdict(EvalBoolChain(item.combinator, s))
  <2>1. \A j \in DOMAIN s : LeafReads(item.conditions[j], x) = Verdict(s[j])
    <3> HIDE DEF Of
    <3> QED
      BY <1>2, <1>3
  <2> HIDE DEF s, Of
  <2> QED
    BY <1>1, <1>3, <2>1, ReadingOfItem DEF IsItem
<1>5. CASE item.kind = "group"
  <2>1. node.op = item.combinator /\ node.args = [j \in 1 .. n |-> Of(j)]
    BY <1>1, <1>5 DEF ItemToCondition, Apply, Node
  <2>2. DOMAIN node.args = 1 .. n /\ \A j \in 1 .. n : node.args[j] = Of(j)
    BY <2>1
  <2>3. [j \in DOMAIN node.args |-> EvalNode(node.args[j], x)] = s
    BY <2>2
  <2> HIDE DEF s, Of, node
  <2>4. item.combinator \in COMBINATORS
    BY DEF IsItem
  <2>5. Flat(node, 3) /\ EvalNode(node, x) = EvalBoolChain(item.combinator, s)
    <3>1. \A j \in DOMAIN node.args : Flat(node.args[j], 2)
      BY <1>2, <2>2
    <3>2. node.op \in COMBINATORS
      BY <2>1, <2>4
    <3>3. /\ Flat(node, 2 + 1)
          /\ EvalNode(node, x)
               = EvalBoolChain(node.op, [j \in DOMAIN node.args |-> EvalNode(node.args[j], x)])
      BY <1>0, <3>1, <3>2, CombinationMeans
    <3> QED
      BY <1>0, <2>1, <2>3, <3>3
  <2>6. EvalBoolChain(item.combinator, s) \in Truths
    BY <1>1, <1>3, <2>4, ChainStep
  <2>7. node.op \in {"and", "or"}
    BY <2>1, <2>4 DEF COMBINATORS
  <2> QED
    BY <1>4, <2>5, <2>6, <2>7 DEF node
<1>6. CASE item.kind = "row"
  <2>1. n = 1
    BY <1>6 DEF IsItem
  <2>2. node = Of(1)
    BY <1>1, <1>6, <2>1 DEF ItemToCondition
  <2>3. s = <<EvalNode(Of(1), x)>>
    BY <2>1
  <2> HIDE DEF s, Of, node
  <2>4. item.combinator \in COMBINATORS /\ EvalNode(Of(1), x) \in Truths /\ Flat(Of(1), 2)
        /\ Of(1).op \in OPERATORS \cup {"!"}
    BY <1>2, <2>1 DEF IsItem
  <2>5. EvalBoolChain(item.combinator, s) = EvalNode(Of(1), x)
    BY <2>3, <2>4, ChainCons, <<>> \in Seq(Truths)
  <2>6. Flat(Of(1), 3)
    BY <1>0, <2>4, FlatNext
  <2> QED
    BY <1>4, <2>2, <2>4, <2>5, <2>6 DEF node
<1> QED
  BY <1>5, <1>6 DEF IsItem

-----------------------------------------------------------------------------
(* Rules.                                                                  *)

\* The alternatives of a rule from an item on, as RuleToCondition makes them.
Segments(rule) ==
    LET items == rule.items
        segments[i \in DOMAIN items] ==
          LET node == ItemToCondition(items[i])
              rest == segments[i + 1]
          IN  IF i = Len(items) THEN <<<<node>>>>
              ELSE IF Connector(rule, i + 1) = "or" THEN <<<<node>>>> \o rest
              ELSE <<<<node>> \o Head(rest)>> \o Tail(rest)
    IN  segments

\* The alternatives from item i on, given those from the next item on.
SegmentsFrom(rule, i, rest) ==
    LET node == ItemToCondition(rule.items[i])
    IN  IF i = Len(rule.items) THEN <<<<node>>>>
        ELSE IF Connector(rule, i + 1) = "or" THEN <<<<node>>>> \o rest
        ELSE <<<<node>> \o Head(rest)>> \o Tail(rest)

Joined(op, nodes) == IF Len(nodes) = 1 THEN Head(nodes) ELSE Apply(op, nodes)

LEMMA RuleToConditionOfSegments ==
    ASSUME NEW rule
    PROVE  RuleToCondition(rule)
             = Joined("or", [k \in DOMAIN Segments(rule)[1] |-> Joined("and", Segments(rule)[1][k])])
BY DEF RuleToCondition, Segments, Joined

\* The recursion of RuleToCondition, from the last item up, has a solution.
LEMMA SegmentsEquation ==
    ASSUME NEW rule, NEW n \in Nat, DOMAIN rule.items = 1 .. n, Len(rule.items) = n,
           NEW i \in 1 .. n
    PROVE  Segments(rule)[i] = SegmentsFrom(rule, i, Segments(rule)[i + 1])
<1> DEFINE D == 1 .. n
    Rhs(g, j) == SegmentsFrom(rule, j, g[j + 1])
    Once(g) == [j \in D |-> Rhs(g, j)]
    Right(g, k) == \A j \in D : j + k >= n => g[j] = Rhs(g, j)
    S == {k \in Nat : \E g : g = [j \in D |-> g[j]] /\ Right(g, k)}
<1>1. ASSUME NEW g, NEW h, NEW j \in D, j # n => g[j + 1] = h[j + 1]
      PROVE  Rhs(g, j) = Rhs(h, j)
  BY <1>1 DEF SegmentsFrom
<1>2. ASSUME NEW g, NEW k \in Nat, k = 0 \/ Right(g, k - 1)
      PROVE  k \in S
  <2>1. ASSUME NEW j \in D, j + k >= n PROVE Rhs(g, j) = Rhs(Once(g), j)
    <3>1. ASSUME j # n PROVE g[j + 1] = Once(g)[j + 1]
      <4>1. j + 1 \in D /\ (j + 1) + (k - 1) >= n /\ k # 0
        BY <2>1, <3>1
      <4> HIDE DEF Rhs
      <4> QED
        BY <1>2, <4>1
    <3> HIDE DEF Rhs, Once
    <3> QED
      BY <1>1, <3>1
  <2>2. Right(Once(g), k) /\ Once(g) = [j \in D |-> Once(g)[j]]
    <3> HIDE DEF Rhs
    <3> QED
      BY <2>1
  <2>3. \E f : f = [j \in D |-> f[j]] /\ Right(f, k)
    <3> HIDE DEF Right, Once, D
    <3> QED
      BY <2>2
  <2> HIDE DEF Right, D
  <2> QED
    BY <2>3
<1>3. n \in S
  <2>1. S \in SUBSET Nat
    OBVIOUS
  <2>2. 0 \in S
    BY <1>2
  <2>3. ASSUME NEW k \in S PROVE k + 1 \in S
    <3>1. PICK g : Right(g, k)
      OBVIOUS
    <3>2. k + 1 \in Nat /\ (k + 1) - 1 = k
      OBVIOUS
    <3>3. Right(g, (k + 1) - 1)
      BY <3>1, <3>2
    <3> HIDE DEF Right, S
    <3> QED
      BY <1>2, <3>2, <3>3
  <2> HIDE DEF S
  <2> QED
    BY <2>1, <2>2, <2>3, AllNaturals
<1> DEFINE Solves(g) == g = [j \in D |-> Rhs(g, j)]
<1>4. \E g : Solves(g)
  <2>1. PICK g : g = [j \in D |-> g[j]] /\ Right(g, n)
    BY <1>3
  <2>2. \A j \in D : g[j] = Rhs(g, j)
    <3> HIDE DEF Rhs
    <3> QED
      BY <2>1
  <2>3. Solves(g)
    <3> HIDE DEF Rhs, D
    <3> QED
      BY <2>1, <2>2
  <2> QED
    BY <2>3
<1>5. Segments(rule) = CHOOSE g : Solves(g)
  BY DEF Segments, SegmentsFrom
<1>6. Solves(Segments(rule))
  <2> HIDE DEF Solves
  <2> QED
    BY <1>4, <1>5
<1>7. Segments(rule)[i] = Rhs(Segments(rule), i)
  <2> HIDE DEF Rhs
  <2> QED
    BY <1>6
<1> QED
  BY <1>7

\* The operators of the conditions that the page makes.
Ops == OPERATORS \cup {"!", "and", "or"}

\* What a run of conditions joined by "and", and alternatives of such runs, come to.
RunMeans(run, x) == EvalBoolChain("and", [j \in DOMAIN run |-> EvalNode(run[j], x)])
Meaning(runs, x) == EvalBoolChain("or", [k \in DOMAIN runs |-> RunMeans(runs[k], x)])

\* A condition of some height that the page can have made.
Made(node, h, x) == Flat(node, h) /\ EvalNode(node, x) \in Truths /\ node.op \in Ops

\* Conditions that are joined come to the chain of what they come to, one as well as
\* several.
LEMMA JoinedMeans ==
    ASSUME NEW op \in COMBINATORS, NEW h \in 0 .. MaxHeight - 1, NEW x, IsContext(x),
           NEW P, \A node \in P : Made(node, h, x), NEW nodes \in Seq(P), nodes # <<>>
    PROVE  /\ Made(Joined(op, nodes), h + 1, x)
           /\ EvalNode(Joined(op, nodes), x)
                = EvalBoolChain(op, [i \in DOMAIN nodes |-> EvalNode(nodes[i], x)])
<1> DEFINE n == Len(nodes)   node == Joined(op, nodes)
    s == [i \in DOMAIN nodes |-> EvalNode(nodes[i], x)]
<1>1. n \in Nat /\ n > 0 /\ DOMAIN nodes = 1 .. n /\ Len(nodes) = n
  OBVIOUS
<1>0. \A i \in 1 .. n : /\ Flat(nodes[i], h) /\ EvalNode(nodes[i], x) \in Truths
                       /\ nodes[i].op \in Ops
  BY DEF Made
<1>2. s \in Seq(Truths) /\ s # <<>> /\ Len(s) = n /\ s = [i \in 1 .. n |-> EvalNode(nodes[i], x)]
  BY <1>0, <1>1
<1>3. op \in Ops
  BY DEF COMBINATORS, Ops
<1>4. CASE n = 1
  <2>1. node = nodes[1]
    BY <1>1, <1>4 DEF Joined
  <2>2. s = <<EvalNode(nodes[1], x)>>
    BY <1>2, <1>4
  <2>3. Flat(nodes[1], h) /\ EvalNode(nodes[1], x) \in Truths /\ nodes[1].op \in Ops
    BY <1>0, <1>4
  <2> HIDE DEF s, node
  <2>4. EvalBoolChain(op, s) = EvalNode(nodes[1], x)
    BY <2>2, <2>3, ChainCons, <<>> \in Seq(Truths)
  <2>5. Flat(nodes[1], h + 1)
    BY <2>3, FlatNext
  <2> QED
    BY <2>1, <2>3, <2>4, <2>5 DEF node, s, Made
<1>5. CASE n # 1
  <2>1. node.op = op /\ node.args = nodes
    BY <1>1, <1>5 DEF Joined, Apply, Node
  <2> HIDE DEF node
  <2>2. \A i \in DOMAIN node.args : Flat(node.args[i], h)
    BY <1>0, <1>1, <2>1
  <2>3. node.op \in COMBINATORS
    BY <2>1
  <2>4. /\ Flat(node, h + 1)
        /\ EvalNode(node, x)
             = EvalBoolChain(node.op, [i \in DOMAIN node.args |-> EvalNode(node.args[i], x)])
    BY <2>2, <2>3, CombinationMeans
  <2>5. EvalNode(node, x) = EvalBoolChain(op, s)
    BY <2>1, <2>4
  <2> HIDE DEF s
  <2>6. EvalBoolChain(op, s) \in Truths
    BY <1>2, ChainStep
  <2> QED
    BY <1>3, <2>1, <2>4, <2>5, <2>6 DEF s, node, Made
<1> QED
  BY <1>4, <1>5

\* The condition of alternatives comes to their meaning.
LEMMA AlternativesMean ==
    ASSUME NEW x, IsContext(x), NEW P, \A node \in P : Made(node, 3, x),
           NEW runs \in Seq(Seq(P) \ {<<>>}), runs # <<>>
    PROVE  LET condition == Joined("or", [k \in DOMAIN runs |-> Joined("and", runs[k])])
           IN  EvalNode(condition, x) = Meaning(runs, x) /\ condition.op \in Ops
<1> DEFINE n == Len(runs)   nodes == [k \in DOMAIN runs |-> Joined("and", runs[k])]
<1>0. /\ 3 \in 0 .. MaxHeight - 1 /\ 3 + 1 = 4 /\ 4 \in 0 .. MaxHeight - 1
      /\ "and" \in COMBINATORS /\ "or" \in COMBINATORS
  BY HeightAssumption DEF COMBINATORS
<1>1. n \in Nat /\ n > 0 /\ DOMAIN runs = 1 .. n
  OBVIOUS
<1>2. ASSUME NEW k \in 1 .. n
      PROVE  Made(nodes[k], 4, x) /\ EvalNode(nodes[k], x) = RunMeans(runs[k], x)
  <2> DEFINE run == runs[k]
  <2>1. run \in Seq(P) /\ run # <<>>
    BY <1>1
  <2> HIDE DEF run
  <2>4. /\ Made(Joined("and", run), 3 + 1, x)
        /\ EvalNode(Joined("and", run), x)
             = EvalBoolChain("and", [j \in DOMAIN run |-> EvalNode(run[j], x)])
    BY <1>0, <2>1, JoinedMeans
  <2>5. nodes[k] = Joined("and", run)
    BY <1>1 DEF run
  <2>6. RunMeans(runs[k], x) = EvalNode(Joined("and", run), x)
    BY <2>4 DEF RunMeans, run
  <2> HIDE DEF nodes
  <2> QED
    BY <1>0, <2>4, <2>5, <2>6
<1>3. nodes \in Seq({nodes[k] : k \in 1 .. n}) /\ nodes # <<>> /\ DOMAIN nodes = 1 .. n
  <2>1. DOMAIN nodes = 1 .. n /\ 1 \in DOMAIN nodes /\ nodes = [k \in 1 .. n |-> nodes[k]]
    BY <1>1
  <2> HIDE DEF nodes
  <2>2. nodes # <<>>
    BY <2>1
  <2>3. \A k \in 1 .. n : nodes[k] \in {nodes[i] : i \in 1 .. n}
    OBVIOUS
  <2> QED
    BY <1>1, <2>1, <2>2, <2>3
<1> HIDE DEF nodes
<1>4. /\ Made(Joined("or", nodes), 4 + 1, x)
      /\ EvalNode(Joined("or", nodes), x)
           = EvalBoolChain("or", [k \in DOMAIN nodes |-> EvalNode(nodes[k], x)])
  <2> DEFINE Q == {nodes[k] : k \in 1 .. n}
  <2>1. \A node \in Q : Made(node, 4, x)
    BY <1>2
  <2>2. nodes \in Seq(Q) /\ nodes # <<>>
    BY <1>3
  <2> HIDE DEF Q
  <2> QED
    BY <1>0, <2>1, <2>2, JoinedMeans
<1>5. [k \in DOMAIN nodes |-> EvalNode(nodes[k], x)] = [k \in DOMAIN runs |-> RunMeans(runs[k], x)]
  BY <1>1, <1>2, <1>3
<1> QED
  BY <1>4, <1>5 DEF Meaning, nodes, Made

\* Adding a condition in front of a run, and a run in front of the alternatives.
LEMMA RunCons ==
    ASSUME NEW x, NEW P, \A node \in P : EvalNode(node, x) \in Truths,
           NEW node \in P, NEW run \in Seq(P)
    PROVE  /\ RunMeans(<<node>> \o run, x)
                = IF EvalNode(node, x) = Bool(TRUE) THEN RunMeans(run, x) ELSE EvalNode(node, x)
           /\ RunMeans(<<node>>, x) = EvalNode(node, x)
           /\ RunMeans(run, x) \in Truths
<1> DEFINE Map(r) == [j \in DOMAIN r |-> EvalNode(r[j], x)]
<1>1. Map(run) \in Seq(Truths)
  <2>1. DOMAIN run = 1 .. Len(run) /\ Len(run) \in Nat /\ \A j \in 1 .. Len(run) : run[j] \in P
    OBVIOUS
  <2> QED
    BY <2>1
<1>2. Map(<<node>> \o run) = <<EvalNode(node, x)>> \o Map(run)
  <2>1. DOMAIN (<<node>> \o run) = 1 .. Len(run) + 1
    OBVIOUS
  <2>2. Len(Map(run)) = Len(run) /\ DOMAIN run = 1 .. Len(run)
    OBVIOUS
  <2>3. DOMAIN (<<EvalNode(node, x)>> \o Map(run)) = 1 .. Len(run) + 1
    BY <1>1, <2>2
  <2>4. \A j \in 1 .. Len(run) + 1 :
           (<<node>> \o run)[j] = IF j = 1 THEN node ELSE run[j - 1]
    OBVIOUS
  <2>5. \A j \in 1 .. Len(run) + 1 :
           (<<EvalNode(node, x)>> \o Map(run))[j]
             = IF j = 1 THEN EvalNode(node, x) ELSE EvalNode(run[j - 1], x)
    BY <1>1, <2>2
  <2>6. <<EvalNode(node, x)>> \o Map(run) \in Seq(Truths)
    BY <1>1
  <2>7. <<EvalNode(node, x)>> \o Map(run)
          = [j \in 1 .. Len(run) + 1 |-> (<<EvalNode(node, x)>> \o Map(run))[j]]
    BY <2>3, <2>6
  <2> QED
    BY <2>1, <2>4, <2>5, <2>7
<1>3. Map(<<node>>) = <<EvalNode(node, x)>>
  OBVIOUS
<1>4. "and" \in COMBINATORS /\ Neutral("and") = Bool(TRUE)
  BY DEF COMBINATORS, Neutral, Bool
<1>5. /\ RunMeans(<<node>> \o run, x) = EvalBoolChain("and", Map(<<node>> \o run))
      /\ RunMeans(<<node>>, x) = EvalBoolChain("and", Map(<<node>>))
      /\ RunMeans(run, x) = EvalBoolChain("and", Map(run))
  BY DEF RunMeans
<1> DEFINE v == EvalNode(node, x)   m == Map(run)
<1>7. v \in Truths /\ m \in Seq(Truths)
  BY <1>1
<1> HIDE DEF Map, v, m
<1>8. /\ EvalBoolChain("and", <<v>> \o m) = IF v = Neutral("and") THEN EvalBoolChain("and", m) ELSE v
      /\ EvalBoolChain("and", <<v>>) = v
      /\ EvalBoolChain("and", m) \in Truths
  BY <1>4, <1>7, ChainCons
<1>6. /\ RunMeans(<<node>> \o run, x)
           = IF EvalNode(node, x) = Neutral("and") THEN RunMeans(run, x) ELSE EvalNode(node, x)
      /\ RunMeans(<<node>>, x) = EvalNode(node, x)
      /\ RunMeans(run, x) \in Truths
  BY <1>2, <1>3, <1>5, <1>8, Zenon DEF v, m
<1> QED
  BY <1>4, <1>6, Zenon

LEMMA MeaningCons ==
    ASSUME NEW x, NEW P, \A node \in P : EvalNode(node, x) \in Truths,
           NEW run \in Seq(P), NEW runs \in Seq(Seq(P))
    PROVE  /\ Meaning(<<run>> \o runs, x)
                = IF RunMeans(run, x) = Bool(FALSE) THEN Meaning(runs, x) ELSE RunMeans(run, x)
           /\ Meaning(<<run>>, x) = RunMeans(run, x)
           /\ Meaning(<<>>, x) = Bool(FALSE)
           /\ Meaning(runs, x) \in Truths
<1> DEFINE Map(r) == [k \in DOMAIN r |-> RunMeans(r[k], x)]
<1>1. \A r \in Seq(P) : RunMeans(r, x) \in Truths
  <2> SUFFICES ASSUME NEW r \in Seq(P) PROVE RunMeans(r, x) \in Truths
    OBVIOUS
  <2>1. CASE P = {}
    <3>1. r = <<>>
      BY <2>1
    <3>2. RunMeans(<<>>, x) = Neutral("and")
      <4>1. [j \in DOMAIN <<>> |-> EvalNode(<<>>[j], x)] = <<>>
        OBVIOUS
      <4> QED
        BY <4>1, EmptyChain DEF RunMeans
    <3> QED
      BY <3>1, <3>2, NeutralIsTruth
  <2>2. CASE P # {}
    BY <2>2, RunCons
  <2> QED
    BY <2>1, <2>2
<1>2. Map(runs) \in Seq(Truths)
  <2>1. DOMAIN runs = 1 .. Len(runs) /\ Len(runs) \in Nat
        /\ \A k \in 1 .. Len(runs) : runs[k] \in Seq(P)
    OBVIOUS
  <2> QED
    BY <1>1, <2>1
<1>3. Map(<<run>> \o runs) = <<RunMeans(run, x)>> \o Map(runs)
  <2>1. DOMAIN (<<run>> \o runs) = 1 .. Len(runs) + 1
    OBVIOUS
  <2>2. Len(Map(runs)) = Len(runs) /\ DOMAIN runs = 1 .. Len(runs)
    OBVIOUS
  <2>3. DOMAIN (<<RunMeans(run, x)>> \o Map(runs)) = 1 .. Len(runs) + 1
    BY <1>2, <2>2
  <2>4. \A k \in 1 .. Len(runs) + 1 :
           (<<run>> \o runs)[k] = IF k = 1 THEN run ELSE runs[k - 1]
    OBVIOUS
  <2>5. \A k \in 1 .. Len(runs) + 1 :
           (<<RunMeans(run, x)>> \o Map(runs))[k]
             = IF k = 1 THEN RunMeans(run, x) ELSE RunMeans(runs[k - 1], x)
    BY <1>2, <2>2
  <2>6. <<RunMeans(run, x)>> \o Map(runs) \in Seq(Truths)
    <3>1. RunMeans(run, x) \in Truths
      BY <1>1
    <3> QED
      BY <1>2, <3>1
  <2> HIDE DEF Map
  <2>7. <<RunMeans(run, x)>> \o Map(runs)
          = [k \in 1 .. Len(runs) + 1 |-> (<<RunMeans(run, x)>> \o Map(runs))[k]]
    BY <2>3, <2>6
  <2> QED
    BY <2>1, <2>4, <2>5, <2>7 DEF Map
<1>4. Map(<<run>>) = <<RunMeans(run, x)>> /\ Map(<<>>) = <<>>
  OBVIOUS
<1>5. "or" \in COMBINATORS /\ Neutral("or") = Bool(FALSE)
  BY DEF COMBINATORS, Neutral, Bool
<1>6. /\ Meaning(<<run>> \o runs, x) = EvalBoolChain("or", Map(<<run>> \o runs))
      /\ Meaning(<<run>>, x) = EvalBoolChain("or", Map(<<run>>))
      /\ Meaning(<<>>, x) = EvalBoolChain("or", Map(<<>>))
      /\ Meaning(runs, x) = EvalBoolChain("or", Map(runs))
  BY DEF Meaning
<1> DEFINE v == RunMeans(run, x)   m == Map(runs)
<1>8. v \in Truths /\ m \in Seq(Truths)
  BY <1>1, <1>2
<1> HIDE DEF Map, v, m
<1>9. /\ EvalBoolChain("or", <<v>> \o m) = IF v = Neutral("or") THEN EvalBoolChain("or", m) ELSE v
      /\ EvalBoolChain("or", <<v>>) = v
      /\ EvalBoolChain("or", m) \in Truths
  BY <1>5, <1>8, ChainCons
<1>7. /\ Meaning(<<run>> \o runs, x)
           = IF RunMeans(run, x) = Neutral("or") THEN Meaning(runs, x) ELSE RunMeans(run, x)
      /\ Meaning(<<run>>, x) = RunMeans(run, x)
      /\ Meaning(<<>>, x) = Neutral("or")
      /\ Meaning(runs, x) \in Truths
  BY <1>3, <1>4, <1>6, <1>9, EmptyChain, Zenon DEF v, m
<1> QED
  BY <1>5, <1>7, Zenon

\* A sequence with an element in front, and a sequence that has one.
LEMMA FrontOf ==
    ASSUME NEW T, NEW e \in T, NEW s \in Seq(T)
    PROVE  /\ <<e>> \o s \in Seq(T) \ {<<>>}
           /\ Head(<<e>> \o s) = e /\ Tail(<<e>> \o s) = s
           /\ <<e>> \in Seq(T) \ {<<>>} /\ Head(<<e>>) = e /\ Tail(<<e>>) = <<>>
           /\ s # <<>> => /\ s = <<Head(s)>> \o Tail(s)
                          /\ Head(s) \in T /\ Tail(s) \in Seq(T)
<1>1. <<e>> \o s \in Seq(T) \ {<<>>} /\ Head(<<e>> \o s) = e
  OBVIOUS
<1>2. Tail(<<e>> \o s) = s
  <2>1. Len(Tail(<<e>> \o s)) = Len(s)
    OBVIOUS
  <2>2. \A i \in 1 .. Len(s) : Tail(<<e>> \o s)[i] = s[i]
    OBVIOUS
  <2>3. Tail(<<e>> \o s) \in Seq(T)
    OBVIOUS
  <2> QED
    BY <2>1, <2>2, <2>3, SeqEqual
<1>3. <<e>> \in Seq(T) \ {<<>>} /\ Head(<<e>>) = e /\ Tail(<<e>>) = <<>>
  OBVIOUS
<1>4. ASSUME s # <<>>
      PROVE  /\ s = <<Head(s)>> \o Tail(s)
             /\ Head(s) \in T /\ Tail(s) \in Seq(T)
  BY <1>4
<1> QED
  BY <1>1, <1>2, <1>3, <1>4

\* A rule has items, and P holds what they become.
IsRule(rule, n, P) ==
    /\ n \in Nat \ {0} /\ DOMAIN rule.items = 1 .. n /\ Len(rule.items) = n
    /\ \A i \in 1 .. n : ItemToCondition(rule.items[i]) \in P

\* There is at least one run, and no run is empty.
LEMMA RunsOfSegments ==
    ASSUME NEW rule, NEW n, NEW P, IsRule(rule, n, P), NEW i \in 1 .. n
    PROVE  Segments(rule)[i] \in Seq(Seq(P) \ {<<>>}) /\ Segments(rule)[i] # <<>>
<1> DEFINE R(k) == Segments(rule)[k]
    Runs == Seq(Seq(P) \ {<<>>}) \ {<<>>}
    S == {k \in 1 .. n : R(k) \in Runs}
<1>1. n \in Nat /\ n > 0
  BY DEF IsRule
<1>2. ASSUME NEW k \in 1 .. n, k < n => R(k + 1) \in Runs
      PROVE  R(k) \in Runs
  <2> DEFINE node == ItemToCondition(rule.items[k])   rest == R(k + 1)
  <2>1. /\ k = n => R(k) = <<<<node>>>>
        /\ k # n => R(k) = IF Connector(rule, k + 1) = "or" THEN <<<<node>>>> \o rest
                           ELSE <<<<node>> \o Head(rest)>> \o Tail(rest)
    BY <1>1, SegmentsEquation DEF SegmentsFrom, IsRule
  <2>2. node \in P /\ (k # n => rest \in Runs)
    BY <1>2 DEF IsRule
  <2> HIDE DEF node, rest, R
  <2> DEFINE Q == Seq(P) \ {<<>>}
  <2>3. <<node>> \in Q /\ (k # n => rest \in Seq(Q) \ {<<>>})
    BY <2>2
  <2>4. k # n => /\ Head(rest) \in Q /\ Tail(rest) \in Seq(Q)
                 /\ <<node>> \o Head(rest) \in Q
    <3>1. k # n => Head(rest) \in Q /\ Tail(rest) \in Seq(Q)
      <4> HIDE DEF Q
      <4> QED
        BY <2>3, FrontOf
    <3> QED
      BY <2>2, <3>1, FrontOf
  <2> DEFINE one == <<node>>   more == <<node>> \o Head(rest)
  <2>5. /\ k = n => R(k) = <<one>>
        /\ k # n => R(k) = <<one>> \o rest \/ R(k) = <<more>> \o Tail(rest)
    BY <2>1
  <2> SUFFICES R(k) \in Seq(Q) \ {<<>>}
    OBVIOUS
  <2>6. /\ one \in Q /\ (k # n => more \in Q /\ Tail(rest) \in Seq(Q))
        /\ <<>> \in Seq(Q)
    BY <2>3, <2>4
  <2> HIDE DEF Q, one, more
  <2>7. /\ k = n => <<one>> \in Seq(Q) \ {<<>>}
        /\ k # n => <<one>> \o rest \in Seq(Q) \ {<<>>}
        /\ k # n => <<more>> \o Tail(rest) \in Seq(Q) \ {<<>>}
    BY <2>3, <2>6, FrontOf
  <2> QED
    BY <2>5, <2>7
<1>3. \A k \in 1 .. n : k \in S
  <2>1. n \in S
    BY <1>1, <1>2
  <2>2. \A k \in 1 .. n : k < n /\ k + 1 \in S => k \in S
    BY <1>2
  <2> HIDE DEF S
  <2> QED
    BY <1>1, <2>1, <2>2, Downward
<1> QED
  BY <1>3

\* The items below an item that begin an alternative.
Alternatives(rule, i) == {k \in i + 1 .. Len(rule.items) : Connector(rule, k) = "or"}

\* The first run from an item on is that of the item; the runs after it begin at the
\* next alternative.
LEMMA AlternativesOfSegments ==
    ASSUME NEW rule, NEW n, NEW P, IsRule(rule, n, P), NEW i \in 1 .. n
    PROVE  LET R == Segments(rule)
               node == ItemToCondition(rule.items[i])
               later == Alternatives(rule, i)
               alone == i = n \/ i + 1 \in later
           IN  /\ R[i] = <<Head(R[i])>> \o Tail(R[i])
               /\ later = {} => Tail(R[i]) = <<>>
               /\ later # {} => Min(later) \in i + 1 .. n /\ Tail(R[i]) = R[Min(later)]
               /\ alone => Head(R[i]) = <<node>>
               /\ ~alone => /\ Head(R[i]) = <<node>> \o Head(R[i + 1])
                            /\ Tail(R[i]) = Tail(R[i + 1])
<1> DEFINE R(k) == Segments(rule)[k]
    node(k) == ItemToCondition(rule.items[k])
    later(k) == Alternatives(rule, k)
    Runs == Seq(Seq(P) \ {<<>>}) \ {<<>>}
    Rest(k) == /\ later(k) = {} => Tail(R(k)) = <<>>
               /\ later(k) # {} => Min(later(k)) \in k + 1 .. n /\ Tail(R(k)) = R(Min(later(k)))
    S == {k \in 1 .. n : Rest(k)}
<1>1. n \in Nat /\ n > 0 /\ Len(rule.items) = n
  BY DEF IsRule
<1>2. \A k \in 1 .. n : R(k) \in Runs /\ node(k) \in P
  BY RunsOfSegments DEF IsRule
<1>3. ASSUME NEW k \in 1 .. n
      PROVE  /\ k = n => R(k) = <<<<node(k)>>>>
             /\ k # n /\ Connector(rule, k + 1) = "or" => R(k) = <<<<node(k)>>>> \o R(k + 1)
             /\ k # n /\ Connector(rule, k + 1) # "or" =>
                   R(k) = <<<<node(k)>> \o Head(R(k + 1))>> \o Tail(R(k + 1))
  BY <1>1, SegmentsEquation DEF SegmentsFrom, IsRule
<1>4. ASSUME NEW k \in 1 .. n
      PROVE  /\ k = n => later(k) = {}
             /\ k # n => (k + 1 \in later(k) <=> Connector(rule, k + 1) = "or")
             /\ k # n /\ Connector(rule, k + 1) # "or" => later(k) = later(k + 1)
             /\ later(k) \subseteq k + 1 .. n
  BY <1>1 DEF Alternatives
<1>5. ASSUME NEW k \in 1 .. n, later(k) # {}
      PROVE  Min(later(k)) \in later(k) /\ \A m \in later(k) : Min(later(k)) <= m
  <2>1. later(k) \in SUBSET Nat
    BY <1>1, <1>4
  <2> HIDE DEF later
  <2> QED
    BY <1>5, <2>1, LeastNatural
<1> HIDE DEF R, node, later
<1>6. ASSUME NEW k \in 1 .. n
      PROVE  /\ k = n => Head(R(k)) = <<node(k)>> /\ Tail(R(k)) = <<>>
             /\ k # n /\ Connector(rule, k + 1) = "or" =>
                   Head(R(k)) = <<node(k)>> /\ Tail(R(k)) = R(k + 1)
             /\ k # n /\ Connector(rule, k + 1) # "or" =>
                   /\ Head(R(k)) = <<node(k)>> \o Head(R(k + 1))
                   /\ Tail(R(k)) = Tail(R(k + 1))
  <2> DEFINE Q == Seq(P) \ {<<>>}
  <2>1. <<node(k)>> \in Q
    BY <1>2
  <2>2. k # n => R(k + 1) \in Seq(Q) \ {<<>>}
    BY <1>2, <1>1
  <2>3. k # n => Head(R(k + 1)) \in Q /\ Tail(R(k + 1)) \in Seq(Q)
    <3> HIDE DEF Q
    <3> QED
      BY <2>1, <2>2, FrontOf
  <2>4. k # n => <<node(k)>> \o Head(R(k + 1)) \in Q
    BY <1>2, <2>3, FrontOf
  <2> DEFINE one == <<node(k)>>   more == <<node(k)>> \o Head(R(k + 1))
  <2>5. /\ k = n => R(k) = <<one>>
        /\ k # n /\ Connector(rule, k + 1) = "or" => R(k) = <<one>> \o R(k + 1)
        /\ k # n /\ Connector(rule, k + 1) # "or" => R(k) = <<more>> \o Tail(R(k + 1))
    BY <1>3
  <2>6. /\ one \in Q /\ <<>> \in Seq(Q)
        /\ k # n => more \in Q /\ R(k + 1) \in Seq(Q) /\ Tail(R(k + 1)) \in Seq(Q)
    BY <2>1, <2>2, <2>3, <2>4
  <2> HIDE DEF Q, one, more
  <2>7. /\ Head(<<one>>) = one /\ Tail(<<one>>) = <<>>
        /\ k # n => Head(<<one>> \o R(k + 1)) = one /\ Tail(<<one>> \o R(k + 1)) = R(k + 1)
        /\ k # n => /\ Head(<<more>> \o Tail(R(k + 1))) = more
                    /\ Tail(<<more>> \o Tail(R(k + 1))) = Tail(R(k + 1))
    BY <2>6, FrontOf
  <2>8. /\ k = n => Head(R(k)) = one /\ Tail(R(k)) = <<>>
        /\ k # n /\ Connector(rule, k + 1) = "or" => Head(R(k)) = one /\ Tail(R(k)) = R(k + 1)
        /\ k # n /\ Connector(rule, k + 1) # "or" =>
              Head(R(k)) = more /\ Tail(R(k)) = Tail(R(k + 1))
    BY <2>5, <2>7
  <2> QED
    BY <2>8 DEF one, more
<1>7. \A k \in 1 .. n : k \in S
  <2>1. n \in S
    <3>1. n \in 1 .. n
      BY <1>1
    <3> QED
      BY <1>4, <1>6, <3>1
  <2>2. ASSUME NEW k \in 1 .. n, k < n, Rest(k + 1) PROVE Rest(k)
    <3>1. CASE Connector(rule, k + 1) = "or"
      <4>1. k + 1 \in later(k) /\ later(k) \subseteq k + 1 .. n
        BY <1>4, <2>2, <3>1
      <4>2. Min(later(k)) = k + 1
        BY <1>5, <1>1, <4>1
      <4>3. k # n /\ k + 1 \in k + 1 .. n
        BY <1>1, <2>2
      <4>4. Tail(R(k)) = R(k + 1)
        BY <1>6, <3>1, <4>3
      <4> QED
        BY <4>1, <4>2, <4>3, <4>4
    <3>2. CASE Connector(rule, k + 1) # "or"
      <4>1. later(k) = later(k + 1) /\ Tail(R(k)) = Tail(R(k + 1))
        <5>1. k # n
          BY <1>1, <2>2
        <5> QED
          BY <1>4, <1>6, <3>2, <5>1
      <4>2. k + 2 .. n \subseteq k + 1 .. n /\ (k + 1) + 1 = k + 2
        BY <1>1
      <4> QED
        BY <2>2, <4>1, <4>2
    <3> QED
      BY <3>1, <3>2
  <2>3. \A k \in 1 .. n : k < n /\ k + 1 \in S => k \in S
    BY <2>2
  <2> HIDE DEF S
  <2> QED
    BY <1>1, <2>1, <2>3, Downward
<1>8. R(i) = <<Head(R(i))>> \o Tail(R(i))
  BY <1>2
<1>9. Rest(i)
  BY <1>7
<1>10. i = n \/ i + 1 \in later(i) => Head(R(i)) = <<node(i)>>
  BY <1>4, <1>6
<1>11. ~(i = n \/ i + 1 \in later(i)) => /\ Head(R(i)) = <<node(i)>> \o Head(R(i + 1))
                                         /\ Tail(R(i)) = Tail(R(i + 1))
  BY <1>4, <1>6
<1> QED
  BY <1>8, <1>9, <1>10, <1>11 DEF R, node, later

-----------------------------------------------------------------------------
(* How the page reads a rule.                                              *)

\* The readings of FormReads for a rule, and one of them given those below it.
Reads(rule, x) ==
    LET items == rule.items
        Joins(i) == IF items[i].connector = Undefined THEN rule.combinator
                    ELSE items[i].connector
        reads[i \in DOMAIN items] ==
          LET outcome == ItemReads(items[i], x)
              alternatives == {k \in i + 1 .. Len(items) : Joins(k) = "or"}
          IN  CASE outcome = "error" -> "error"
                [] outcome = "yes" ->
                     IF i = Len(items) \/ i + 1 \in alternatives THEN "yes" ELSE reads[i + 1]
                [] OTHER ->
                     IF alternatives = {} THEN "no" ELSE reads[Min(alternatives)]
    IN  reads
ReadsFrom(rule, i, x, reads) ==
    LET outcome == ItemReads(rule.items[i], x)
        later == Alternatives(rule, i)
    IN  CASE outcome = "error" -> "error"
          [] outcome = "yes" ->
               IF i = Len(rule.items) \/ i + 1 \in later THEN "yes" ELSE reads[i + 1]
          [] OTHER -> IF later = {} THEN "no" ELSE reads[Min(later)]

LEMMA FormReadsOfReads == \A x : FormReads(x) = Reads(form, x)[1]
BY DEF FormReads, Reads

\* The items of a rule come to what the page reads of them.
Reading(rule, n, x) ==
    \A i \in 1 .. n : /\ EvalNode(ItemToCondition(rule.items[i]), x) \in Truths
                      /\ ItemReads(rule.items[i], x)
                           = Verdict(EvalNode(ItemToCondition(rule.items[i]), x))

\* What the page reads from an item on is what the alternatives from it on come to:
\* the readings of the alternatives solve the recursion of FormReads.
LEMMA ReadingOfSegments ==
    ASSUME NEW rule, NEW n, NEW x, NEW P, IsRule(rule, n, P), Reading(rule, n, x),
           \A node \in P : EvalNode(node, x) \in Truths,
           NEW reads, \A i \in 1 .. n : reads[i] = Verdict(Meaning(Segments(rule)[i], x)),
           NEW i \in 1 .. n
    PROVE  reads[i] = ReadsFrom(rule, i, x, reads)
<1> DEFINE R(k) == Segments(rule)[k]
    node == ItemToCondition(rule.items[i])
    v == EvalNode(node, x)
    later == Alternatives(rule, i)
    alone == i = n \/ i + 1 \in later
    m(k) == Meaning(R(k), x)
    f == Bool(FALSE)
    t == Bool(TRUE)
    Q == Seq(P) \ {<<>>}
<1>1. n \in Nat /\ n > 0 /\ Len(rule.items) = n /\ node \in P
  BY DEF IsRule
<1>2. v \in Truths /\ ItemReads(rule.items[i], x) = Verdict(v)
  BY DEF Reading
<1>3. \A k \in 1 .. n : R(k) \in Seq(Q) /\ R(k) # <<>>
  BY RunsOfSegments
<1>4. ASSUME NEW k \in 1 .. n
      PROVE  /\ R(k) = <<Head(R(k))>> \o Tail(R(k))
             /\ Head(R(k)) \in Q /\ Tail(R(k)) \in Seq(Q)
  BY <1>3, FrontOf
<1>5. /\ later = {} => Tail(R(i)) = <<>>
      /\ later # {} => Min(later) \in i + 1 .. n /\ Tail(R(i)) = R(Min(later))
      /\ alone => Head(R(i)) = <<node>>
      /\ ~alone => /\ Head(R(i)) = <<node>> \o Head(R(i + 1))
                   /\ Tail(R(i)) = Tail(R(i + 1))
  BY AlternativesOfSegments, Zenon
<1>6. ASSUME NEW k \in 1 .. n
      PROVE  m(k) = IF RunMeans(Head(R(k)), x) = f THEN Meaning(Tail(R(k)), x)
                    ELSE RunMeans(Head(R(k)), x)
  <2> DEFINE run == Head(R(k))   runs == Tail(R(k))
  <2>1. run \in Seq(P) /\ runs \in Seq(Seq(P)) /\ R(k) = <<run>> \o runs
    BY <1>4
  <2> HIDE DEF run, runs, R
  <2>2. Meaning(<<run>> \o runs, x)
          = IF RunMeans(run, x) = f THEN Meaning(runs, x) ELSE RunMeans(run, x)
    BY <2>1, MeaningCons
  <2> HIDE DEF f
  <2> QED
    BY <2>1, <2>2 DEF run, runs
<1>7. Meaning(<<>>, x) = f
  <2>1. <<>> \in Seq(P) /\ <<>> \in Seq(Seq(P))
    OBVIOUS
  <2> QED
    BY <2>1, MeaningCons
<1>8. /\ alone => RunMeans(Head(R(i)), x) = v
      /\ ~alone => RunMeans(Head(R(i)), x) = IF v = t THEN RunMeans(Head(R(i + 1)), x) ELSE v
  <2>1. ~alone => i + 1 \in 1 .. n
    BY <1>1
  <2> DEFINE run == IF alone THEN <<>> ELSE Head(R(i + 1))
  <2>2. run \in Seq(P)
    <3>1. ~alone => Head(R(i + 1)) \in Seq(P)
      BY <1>4, <2>1
    <3> HIDE DEF R, later
    <3> QED
      BY <3>1
  <2> HIDE DEF run
  <2>3. /\ RunMeans(<<node>> \o run, x) = IF v = t THEN RunMeans(run, x) ELSE v
        /\ RunMeans(<<node>>, x) = v
    BY <1>1, <2>2, RunCons
  <2> HIDE DEF v, t, R, later, node
  <2> QED
    BY <1>5, <2>3 DEF run
<1>9. ~alone => i + 1 \in 1 .. n
  BY <1>1
<1>10. later # {} => Min(later) \in 1 .. n
  BY <1>1, <1>5
<1>11. /\ Verdict(t) = "yes" /\ Verdict(f) = "no" /\ Verdict(Error) = "error"
       /\ t # f /\ t # Error /\ f # Error /\ v \in {t, f, Error}
  BY <1>2, Verdicts, DistinctTruths, Zenon DEF Truths
<1>12. \A k \in 1 .. n : reads[k] = Verdict(m(k))
  OBVIOUS
<1> HIDE DEF R, v, later, m, t, f, node
<1>13. CASE v = Error
  <2>1. m(i) = Error
    BY <1>6, <1>8, <1>11, <1>13
  <2>2. ReadsFrom(rule, i, x, reads) = "error"
    BY <1>2, <1>11, <1>13 DEF ReadsFrom
  <2> QED
    BY <1>11, <1>12, <2>1, <2>2
<1>14. CASE v = t
  <2>1. CASE alone
    <3>1. m(i) = t
      BY <1>6, <1>8, <1>11, <1>14, <2>1
    <3>2. ReadsFrom(rule, i, x, reads) = "yes"
      BY <1>1, <1>2, <1>11, <1>14, <2>1 DEF ReadsFrom, later
    <3> QED
      BY <1>11, <1>12, <3>1, <3>2
  <2>2. CASE ~alone
    <3>1. m(i) = m(i + 1)
      BY <1>5, <1>6, <1>8, <1>9, <1>14, <2>2
    <3>2. ReadsFrom(rule, i, x, reads) = reads[i + 1]
      BY <1>1, <1>2, <1>11, <1>14, <2>2 DEF ReadsFrom, later
    <3> QED
      BY <1>9, <1>12, <2>2, <3>1, <3>2
  <2> QED
    BY <2>1, <2>2
<1>15. CASE v = f
  <2>1. m(i) = Meaning(Tail(R(i)), x)
    BY <1>6, <1>8, <1>11, <1>15
  <2>2. ReadsFrom(rule, i, x, reads) = IF later = {} THEN "no" ELSE reads[Min(later)]
    BY <1>2, <1>11, <1>15 DEF ReadsFrom, later
  <2>3. CASE later = {}
    BY <1>5, <1>7, <1>11, <1>12, <2>1, <2>2, <2>3
  <2>4. CASE later # {}
    <3>1. m(i) = m(Min(later))
      BY <1>5, <2>1, <2>4 DEF m
    <3> QED
      BY <1>10, <1>12, <2>2, <2>4, <3>1
  <2> QED
    BY <2>3, <2>4
<1> QED
  BY <1>11, <1>13, <1>14, <1>15

LEMMA ReadsMeaning ==
    ASSUME NEW rule, NEW n, NEW x, NEW P, IsRule(rule, n, P), Reading(rule, n, x),
           \A node \in P : EvalNode(node, x) \in Truths
    PROVE  \A i \in 1 .. n : /\ Reads(rule, x)[i] = Verdict(Meaning(Segments(rule)[i], x))
                             /\ Reads(rule, x)[i] = ReadsFrom(rule, i, x, Reads(rule, x))
<1> DEFINE D == 1 .. n
    Rhs(g, i) == ReadsFrom(rule, i, x, g)
    Solves(g) == g = [i \in D |-> Rhs(g, i)]
    W == [i \in D |-> Verdict(Meaning(Segments(rule)[i], x))]
    R == Reads(rule, x)
    T == {i \in D : \A j \in i .. n : R[j] = W[j]}
<1>1. n \in Nat /\ n > 0 /\ Len(rule.items) = n /\ DOMAIN rule.items = D
  BY DEF IsRule
<1>2. Solves(W)
  <2>1. \A i \in D : W[i] = Verdict(Meaning(Segments(rule)[i], x))
    OBVIOUS
  <2>2. W = [i \in D |-> W[i]]
    OBVIOUS
  <2> HIDE DEF W
  <2>3. \A i \in D : W[i] = Rhs(W, i)
    BY <2>1, ReadingOfSegments
  <2> HIDE DEF Rhs
  <2> QED
    BY <2>2, <2>3
<1>3. R = CHOOSE g : Solves(g)
  <2>1. R = CHOOSE g : g = [i \in DOMAIN rule.items |-> Rhs(g, i)]
    BY DEF Reads, ReadsFrom, Alternatives, Connector
  <2> HIDE DEF Rhs, R
  <2> QED
    BY <1>1, <2>1
<1>4. Solves(R)
  <2> HIDE DEF Solves, W, R
  <2> QED
    BY <1>2, <1>3
<1>5. ASSUME NEW i \in D, \A j \in i + 1 .. n : R[j] = W[j]
      PROVE  R[i] = W[i]
  <2> DEFINE outcome == ItemReads(rule.items[i], x)   later == Alternatives(rule, i)
  <2>1. outcome \in {"yes", "no", "error"}
    <3>1. EvalNode(ItemToCondition(rule.items[i]), x) \in Truths
      BY DEF Reading
    <3>2. \A v \in Truths : Verdict(v) \in {"yes", "no", "error"}
      BY Verdicts, Zenon DEF Truths
    <3> QED
      BY <3>1, <3>2 DEF Reading
  <2>2. later # {} => Min(later) \in i + 1 .. n
    BY AlternativesOfSegments, Zenon
  <2>3. ~(i = n \/ i + 1 \in later) => i + 1 \in i + 1 .. n
    BY <1>1
  <2>4. R[i] = Rhs(R, i) /\ W[i] = Rhs(W, i)
    <3> HIDE DEF Rhs, R, W
    <3> QED
      BY <1>2, <1>4
  <2>5. /\ later # {} => R[Min(later)] = W[Min(later)]
        /\ ~(i = n \/ i + 1 \in later) => R[i + 1] = W[i + 1]
    <3> HIDE DEF R, W, later
    <3> QED
      BY <1>5, <2>2, <2>3
  <2> HIDE DEF R, W
  <2>6. Rhs(R, i) = Rhs(W, i)
    BY <1>1, <2>1, <2>5 DEF ReadsFrom
  <2> QED
    BY <2>4, <2>6
<1>6. \A i \in D : i \in T
  <2> HIDE DEF R, W
  <2>1. n \in T
    BY <1>1, <1>5
  <2>2. ASSUME NEW i \in 1 .. n, i < n, i + 1 \in T PROVE i \in T
    <3>1. R[i] = W[i]
      BY <1>5, <2>2
    <3>2. \A j \in i .. n : j = i \/ j \in i + 1 .. n
      BY <1>1
    <3> QED
      BY <2>2, <3>1, <3>2
  <2> HIDE DEF T
  <2> QED
    BY <1>1, <2>1, <2>2, Downward
<1>7. ASSUME NEW i \in D PROVE R[i] = W[i] /\ R[i] = Rhs(R, i)
  <2>1. i \in i .. n
    BY <1>1
  <2> HIDE DEF R, W, Rhs
  <2> QED
    BY <1>4, <1>6, <2>1
<1> QED
  BY <1>7

\* A form as RowsTypeOK has it.
IsForm(rule) ==
    /\ rule.combinator \in COMBINATORS
    /\ rule.items \in Seq(Items) \ {<<>>}
    /\ \A i \in DOMAIN rule.items :
          rule.items[i].kind = "row" => Len(rule.items[i].conditions) = 1

LEMMA FormIsRule ==
    ASSUME NEW rule, IsForm(rule), NEW x, IsContext(x)
    PROVE  LET n == Len(rule.items)
               P == {ItemToCondition(rule.items[i]) : i \in 1 .. n}
           IN  /\ IsRule(rule, n, P) /\ Reading(rule, n, x)
               /\ \A node \in P : Made(node, 3, x)
<1> DEFINE n == Len(rule.items)
    P == {ItemToCondition(rule.items[i]) : i \in 1 .. n}
<1>1. n \in Nat /\ n > 0 /\ DOMAIN rule.items = 1 .. n /\ \A i \in 1 .. n : rule.items[i] \in Items
  BY DEF IsForm
<1>2. \A i \in 1 .. n : IsItem(rule.items[i])
  BY <1>1 DEF IsForm, IsItem, Items
<1>3. \A i \in 1 .. n :
         LET node == ItemToCondition(rule.items[i])
         IN  /\ Made(node, 3, x) /\ ItemReads(rule.items[i], x) = Verdict(EvalNode(node, x))
             /\ EvalNode(node, x) \in Truths
  BY <1>2, ItemMeans DEF Made, Ops
<1>4. IsRule(rule, n, P)
  BY <1>1 DEF IsRule
<1> QED
  BY <1>3, <1>4 DEF Reading

\* The condition of a form comes to what the page reads.
LEMMA RuleMeans ==
    ASSUME NEW rule, IsForm(rule), NEW x, IsContext(x)
    PROVE  /\ Reads(rule, x)[1] = Verdict(EvalNode(RuleToCondition(rule), x))
           /\ EvalNode(RuleToCondition(rule), x) \in Truths
           /\ RuleToCondition(rule).op \in Ops
           /\ \A i \in DOMAIN rule.items : Reads(rule, x)[i] = ReadsFrom(rule, i, x, Reads(rule, x))
<1> DEFINE n == Len(rule.items)
    P == {ItemToCondition(rule.items[i]) : i \in 1 .. n}
    runs == Segments(rule)[1]
<1>1. IsRule(rule, n, P) /\ Reading(rule, n, x) /\ \A node \in P : Made(node, 3, x)
  BY FormIsRule
<1>2. 1 \in 1 .. n /\ DOMAIN rule.items = 1 .. n
  BY DEF IsForm
<1> HIDE DEF n, P
<1>3. \A node \in P : EvalNode(node, x) \in Truths
  BY <1>1 DEF Made
<1>4. runs \in Seq(Seq(P) \ {<<>>}) /\ runs # <<>>
  BY <1>1, <1>2, RunsOfSegments
<1>5. /\ EvalNode(RuleToCondition(rule), x) = Meaning(runs, x)
      /\ RuleToCondition(rule).op \in Ops
  <2> HIDE DEF runs
  <2>1. LET condition == Joined("or", [k \in DOMAIN runs |-> Joined("and", runs[k])])
        IN  EvalNode(condition, x) = Meaning(runs, x) /\ condition.op \in Ops
    BY <1>1, <1>4, AlternativesMean
  <2> QED
    BY <2>1, RuleToConditionOfSegments, Zenon DEF runs
<1>6. Meaning(runs, x) \in Truths
  <2>1. runs \in Seq(Seq(P)) /\ <<>> \in Seq(P)
    BY <1>4
  <2> HIDE DEF runs
  <2> QED
    BY <1>3, <2>1, MeaningCons
<1>7. \A i \in 1 .. n : /\ Reads(rule, x)[i] = Verdict(Meaning(Segments(rule)[i], x))
                        /\ Reads(rule, x)[i] = ReadsFrom(rule, i, x, Reads(rule, x))
  BY <1>1, <1>3, ReadsMeaning
<1> QED
  BY <1>2, <1>5, <1>6, <1>7

\* What a condition comes to, but for a strategy without one.
LEMMA OutcomeIsVerdict ==
    ASSUME NEW condition, condition.op # "none", NEW x
    PROVE  Outcome(condition, x) = Verdict(EvalNode(condition, x))
<1>1. condition # NoCondition
  BY DEF NoCondition, Node
<1> HIDE DEF NoCondition
<1> QED
  BY <1>1 DEF Outcome, Verdict

LEMMA SavedAsShown ==
    ASSUME IsForm(form)
    PROVE  SavedMeansShown
<1> SUFFICES ASSUME NEW x \in Context PROVE Outcome(RuleToCondition(form), x) = FormReads(x)
  BY DEF SavedMeansShown
<1>0. IsContext(x)
  BY ContextAssumption DEF IsContext
<1>1. RuleToCondition(form).op # "none"
  <2>1. RuleToCondition(form).op \in Ops
    BY <1>0, RuleMeans
  <2> QED
    BY <2>1, Zenon DEF Ops, OPERATORS
<1> QED
  BY <1>0, <1>1, OutcomeIsVerdict, RuleMeans, FormReadsOfReads

-----------------------------------------------------------------------------
(* From a condition to rows.                                               *)

\* The recursion of FlattenSeq, from the first sequence on.
Flattened(ss) ==
    LET flatten[i \in 1 .. Len(ss)] == IF i = 1 THEN ss[i] ELSE flatten[i - 1] \o ss[i]
    IN  flatten

LEMMA FlattenedEquation ==
    ASSUME NEW T, NEW ss \in Seq(Seq(T)), ss # <<>>
    PROVE  /\ FlattenSeq(ss) = Flattened(ss)[Len(ss)]
           /\ \A i \in 1 .. Len(ss) :
                 Flattened(ss)[i] = IF i = 1 THEN ss[i] ELSE Flattened(ss)[i - 1] \o ss[i]
<1> DEFINE n == Len(ss)
    D == 1 .. n
    Rhs(g, i) == IF i = 1 THEN ss[i] ELSE g[i - 1] \o ss[i]
    Once(g) == [i \in D |-> Rhs(g, i)]
    Right(g, k) == \A i \in D : i <= k => g[i] = Rhs(g, i)
    S == {k \in Nat : \E g : g = [i \in D |-> g[i]] /\ Right(g, k)}
    Solves(g) == g = [i \in D |-> Rhs(g, i)]
<1>1. n \in Nat /\ n > 0
  OBVIOUS
<1>2. ASSUME NEW g, NEW k \in Nat, k = 0 \/ Right(g, k - 1)
      PROVE  k \in S
  <2>1. ASSUME NEW i \in D, i <= k PROVE Rhs(g, i) = Rhs(Once(g), i)
    <3>1. ASSUME i # 1 PROVE g[i - 1] = Once(g)[i - 1]
      <4>1. i - 1 \in D /\ i - 1 <= k - 1 /\ k # 0
        BY <2>1, <3>1
      <4> HIDE DEF Rhs
      <4> QED
        BY <1>2, <4>1
    <3> HIDE DEF Once
    <3> QED
      BY <3>1
  <2>2. Right(Once(g), k) /\ Once(g) = [i \in D |-> Once(g)[i]]
    <3> HIDE DEF Rhs
    <3> QED
      BY <2>1
  <2>3. \E f : f = [i \in D |-> f[i]] /\ Right(f, k)
    <3> HIDE DEF Right, Once, D
    <3> QED
      BY <2>2
  <2> HIDE DEF Right, D
  <2> QED
    BY <2>3
<1>3. n \in S
  <2>1. S \in SUBSET Nat
    OBVIOUS
  <2>2. 0 \in S
    BY <1>2
  <2>3. ASSUME NEW k \in S PROVE k + 1 \in S
    <3>1. PICK g : Right(g, k)
      OBVIOUS
    <3>2. k + 1 \in Nat /\ (k + 1) - 1 = k
      OBVIOUS
    <3>3. Right(g, (k + 1) - 1)
      BY <3>1, <3>2
    <3> HIDE DEF Right, S
    <3> QED
      BY <1>2, <3>2, <3>3
  <2> HIDE DEF S
  <2> QED
    BY <1>1, <2>1, <2>2, <2>3, AllNaturals
<1>4. \E g : Solves(g)
  <2>1. PICK g : g = [i \in D |-> g[i]] /\ Right(g, n)
    BY <1>3
  <2>2. \A i \in D : g[i] = Rhs(g, i)
    <3> HIDE DEF Rhs
    <3> QED
      BY <1>1, <2>1
  <2>3. Solves(g)
    <3> HIDE DEF Rhs, D
    <3> QED
      BY <2>1, <2>2
  <2> QED
    BY <2>3
<1>5. Flattened(ss) = CHOOSE g : Solves(g)
  BY DEF Flattened
<1>6. Solves(Flattened(ss))
  <2> HIDE DEF Solves
  <2> QED
    BY <1>4, <1>5
<1>7. \A i \in D : Flattened(ss)[i] = Rhs(Flattened(ss), i)
  <2> HIDE DEF Rhs
  <2> QED
    BY <1>6
<1>8. FlattenSeq(ss) = Flattened(ss)[n]
  BY <1>1 DEF FlattenSeq, Flattened
<1> QED
  BY <1>7, <1>8

\* Where each of the sequences begins in the flattened one.
Offset(ss, i) == IF i = 1 THEN 0 ELSE Len(Flattened(ss)[i - 1])

\* The elements of a concatenation.
LEMMA ConcatMeans ==
    ASSUME NEW T, NEW a \in Seq(T), NEW b \in Seq(T)
    PROVE  /\ a \o b \in Seq(T) /\ Len(a \o b) = Len(a) + Len(b)
           /\ Len(a) \in Nat /\ Len(b) \in Nat
           /\ \A p \in 1 .. Len(a) : (a \o b)[p] = a[p]
           /\ \A p \in 1 .. Len(b) : (a \o b)[Len(a) + p] = b[p]
<1> DEFINE m == Len(a)   n == Len(b)   c == a \o b
<1>1. m \in Nat /\ n \in Nat
  OBVIOUS
<1>2. /\ c \in Seq(T) /\ Len(c) = m + n
      /\ \A i \in 1 .. m + n : c[i] = IF i <= m THEN a[i] ELSE b[i - m]
  BY ConcatProperties
<1> HIDE DEF m, n, c
<1>3. ASSUME NEW p \in 1 .. m
      PROVE  p \in 1 .. m + n /\ p <= m
  BY <1>1
<1>4. ASSUME NEW p \in 1 .. n
      PROVE  m + p \in 1 .. m + n /\ ~ m + p <= m /\ (m + p) - m = p
  BY <1>1
<1>5. \A p \in 1 .. m : c[p] = a[p]
  BY <1>2, <1>3
<1>6. \A p \in 1 .. n : c[m + p] = b[p]
  BY <1>2, <1>4
<1> QED
  BY <1>1, <1>2, <1>5, <1>6 DEF m, n, c

LEMMA FlattenSeqMeans ==
    ASSUME NEW T, NEW ss \in Seq(Seq(T)), ss # <<>>
    PROVE  /\ FlattenSeq(ss) \in Seq(T)
           /\ Offset(ss, 1) = 0 /\ Len(FlattenSeq(ss)) = Offset(ss, Len(ss) + 1)
           /\ \A i \in 1 .. Len(ss) :
                 /\ Offset(ss, i) \in Nat /\ Offset(ss, i + 1) = Offset(ss, i) + Len(ss[i])
                 /\ Offset(ss, i + 1) <= Len(FlattenSeq(ss))
                 /\ \A p \in 1 .. Len(ss[i]) : FlattenSeq(ss)[Offset(ss, i) + p] = ss[i][p]
<1> DEFINE n == Len(ss)
    F(i) == Flattened(ss)[i]
    off(i) == Offset(ss, i)
    Holds(k, i) == /\ off(i + 1) <= Len(F(k))
                   /\ \A p \in 1 .. Len(ss[i]) : F(k)[off(i) + p] = ss[i][p]
    Begins(i) == off(i) \in Nat /\ off(i + 1) = off(i) + Len(ss[i])
    S == {k \in 1 .. n : F(k) \in Seq(T) /\ \A i \in 1 .. k : Begins(i) /\ Holds(k, i)}
<1>1. n \in Nat /\ n > 0 /\ 1 \in 1 .. n /\ \A i \in 1 .. n : ss[i] \in Seq(T) /\ Len(ss[i]) \in Nat
  OBVIOUS
<1>2. /\ FlattenSeq(ss) = F(n) /\ F(1) = ss[1]
      /\ \A k \in 1 .. n : k < n => F(k + 1) = F(k) \o ss[k + 1]
  <2>1. \A i \in 1 .. n : F(i) = IF i = 1 THEN ss[i] ELSE F(i - 1) \o ss[i]
    BY FlattenedEquation
  <2>2. FlattenSeq(ss) = F(n)
    BY FlattenedEquation
  <2> HIDE DEF F
  <2>3. ASSUME NEW k \in 1 .. n, k < n PROVE F(k + 1) = F(k) \o ss[k + 1]
    <3>1. k + 1 \in 1 .. n /\ k + 1 # 1 /\ (k + 1) - 1 = k
      BY <1>1, <2>3
    <3> QED
      BY <2>1, <3>1
  <2> QED
    BY <1>1, <2>1, <2>2, <2>3
<1>3. off(1) = 0 /\ \A i \in 1 .. n : off(i + 1) = Len(F(i))
  <2>1. \A i \in 1 .. n : i + 1 # 1 /\ (i + 1) - 1 = i
    BY <1>1
  <2> QED
    BY <2>1 DEF Offset
<1> HIDE DEF F, off
<1>4. 1 \in S
  <2>1. F(1) = ss[1] /\ off(1 + 1) = Len(F(1)) /\ off(1) = 0
    BY <1>1, <1>2, <1>3
  <2>2. ss[1] \in Seq(T) /\ Len(ss[1]) \in Nat
    BY <1>1
  <2>3. Begins(1) /\ Holds(1, 1)
    BY <2>1, <2>2
  <2> HIDE DEF Begins, Holds
  <2> QED
    BY <1>1, <2>1, <2>2, <2>3
<1>5. ASSUME NEW k \in 1 .. n, k < n, k \in S PROVE k + 1 \in S
  <2> DEFINE a == F(k)   b == ss[k + 1]   c == F(k + 1)   m == Len(a)
  <2>1. k + 1 \in 1 .. n /\ \A i \in 1 .. k + 1 : i \in 1 .. k \/ i = k + 1
    BY <1>1, <1>5
  <2>2. a \in Seq(T) /\ b \in Seq(T) /\ c = a \o b /\ m = Len(a)
    BY <1>1, <1>2, <1>5, <2>1
  <2>3. /\ off(k + 1) = m /\ off((k + 1) + 1) = Len(c)
    BY <1>3, <2>1
  <2> HIDE DEF a, b, c, m
  <2>4. /\ c \in Seq(T) /\ Len(c) = m + Len(b) /\ m \in Nat /\ Len(b) \in Nat
        /\ \A p \in 1 .. m : c[p] = a[p]
        /\ \A p \in 1 .. Len(b) : c[m + p] = b[p]
    BY <2>2, ConcatMeans
  <2>5. Begins(k + 1) /\ Holds(k + 1, k + 1)
    <3>1. off(k + 1) \in Nat /\ off((k + 1) + 1) = off(k + 1) + Len(b)
      BY <2>3, <2>4
    <3>2. off((k + 1) + 1) <= Len(c) /\ \A p \in 1 .. Len(b) : c[off(k + 1) + p] = b[p]
      <4>1. off((k + 1) + 1) <= Len(c)
        <5> DEFINE l == Len(c)   e == off((k + 1) + 1)
        <5>1. e = l /\ l \in Nat
          BY <2>3, <2>4
        <5> HIDE DEF l, e
        <5>2. e <= l
          BY ONLY <5>1
        <5> QED
          BY <5>2 DEF l, e
      <4>2. ASSUME NEW p \in 1 .. Len(b) PROVE c[off(k + 1) + p] = b[p]
        BY <2>3, <2>4, Zenon
      <4> QED
        BY <4>1, <4>2, Zenon
    <3> QED
      BY <3>1, <3>2 DEF b, c
  <2>6. ASSUME NEW i \in 1 .. k PROVE Begins(i) /\ Holds(k + 1, i)
    <3>1. Begins(i) /\ off(i + 1) <= m /\ \A p \in 1 .. Len(ss[i]) : a[off(i) + p] = ss[i][p]
      BY <1>5 DEF a, m
    <3>2. Len(ss[i]) \in Nat
      BY <1>1, <1>5
    <3>3. off(i + 1) <= Len(c)
      BY <2>4, <3>1, <3>2
    <3>4. ASSUME NEW p \in 1 .. Len(ss[i]) PROVE c[off(i) + p] = ss[i][p]
      <4>1. off(i) + p \in 1 .. m
        <5> DEFINE o == off(i)   l == Len(ss[i])   e == off(i + 1)
        <5>1. o \in Nat /\ e = o + l /\ e <= m /\ l \in Nat /\ m \in Nat
          BY <2>4, <3>1, <3>2
        <5>2. p \in 1 .. l
          BY <3>4
        <5> HIDE DEF o, l, e
        <5>3. o + p \in 1 .. m
          BY ONLY <5>1, <5>2
        <5> QED
          BY <5>3 DEF o
      <4> QED
        BY <2>4, <3>1, <4>1
    <3> QED
      BY <3>1, <3>3, <3>4 DEF c
  <2> HIDE DEF Begins, Holds
  <2> QED
    BY <2>1, <2>4, <2>5, <2>6 DEF c
<1>6. n \in S
  <2>1. \A k \in 1 .. n : k < n /\ k \in S => k + 1 \in S
    BY <1>5
  <2> HIDE DEF S
  <2>2. \A k \in 1 .. n : k \in S
    BY <1>1, <1>4, <2>1, Upward
  <2> QED
    BY <1>1, <2>2
<1>7. F(n) \in Seq(T) /\ \A i \in 1 .. n : Begins(i) /\ Holds(n, i)
  BY <1>6
<1>8. off(n + 1) = Len(F(n))
  BY <1>1, <1>3
<1> QED
  BY <1>2, <1>3, <1>7, <1>8 DEF off

\* The nodes down to a level are as JSON documents have them.
Proper(node, h) ==
    h \in 0 .. MaxHeight /\ \A k \in 0 .. h : \A n \in Below(node)[k] : IsNode(n)

LEMMA ProperArguments ==
    ASSUME NEW node, NEW h \in 1 .. MaxHeight, Proper(node, h)
    PROVE  IsNode(node) /\ \A a \in ToSet(node.args) : Proper(a, h - 1)
<1>0. MaxHeight \in Nat
  BY HeightAssumption
<1>1. IsNode(node)
  <2>1. 0 \in 0 .. h
    BY <1>0
  <2> QED
    BY <2>1, BelowEquation DEF Proper
<1>2. ASSUME NEW a \in ToSet(node.args), NEW k \in 0 .. h - 1, NEW n \in Below(a)[k]
      PROVE  IsNode(n)
  <2>1. k + 1 \in 0 .. h /\ k \in 0 .. MaxHeight - 1
    BY <1>0
  <2>2. n \in Below(node)[k + 1]
    BY <2>1, BelowArguments
  <2> QED
    BY <2>1, <2>2 DEF Proper
<1>3. h - 1 \in 0 .. MaxHeight
  BY <1>0
<1> QED
  BY <1>1, <1>2, <1>3 DEF Proper

LEMMA ConditionIsProper ==
    ASSUME NEW c, IsCondition(c)
    PROVE  Proper(c, 5)
<1>1. 5 \in 0 .. MaxHeight /\ \A k \in 0 .. 5 : k \in 0 .. MaxHeight
  BY HeightAssumption
<1> QED
  BY <1>1 DEF Proper, IsCondition, Subnodes

LEMMA ProperNode ==
    ASSUME NEW node, NEW h, Proper(node, h)
    PROVE  IsNode(node)
<1>1. 0 \in 0 .. h
  BY HeightAssumption DEF Proper
<1> QED
  BY <1>1, BelowEquation DEF Proper

\* The operators that take a list.
ListOperators == {"in", "not in"}

\* The comparison in an editable leaf.
Compares(a) == IF a.op = "!" /\ Len(a.args) = 1 THEN Head(a.args) ELSE a

\* What the operators, but for the membership in a list, make of an operand depends on
\* its text only if it is a string.
LEMMA StringsAlike ==
    ASSUME NEW op \in OPERATORS \ ListOperators, NEW l, NEW r, NEW s,
           r.type = "string", s.type = "string", r.text = s.text
    PROVE  ApplyOperator(op, l, r) = ApplyOperator(op, l, s)
<1>1. Sprint(r) = Sprint(s)
  BY DEF Sprint
<1>2. \A o : CompareNumbers(l, r, o) = CompareNumbers(l, s, o)
  BY DEF CompareNumbers
<1>3. MembershipCheck(r, l) = MembershipCheck(s, l)
  BY <1>1, Zenon DEF MembershipCheck
<1>4. \A k : CompareSemverOp(l, r, k) = CompareSemverOp(l, s, k)
  BY <1>1, Zenon DEF CompareSemverOp, CompareSemver
<1>5. RegexMatch(l, r) = RegexMatch(l, s)
  BY <1>1, Zenon DEF RegexMatch
<1>6. op # "in" /\ op # "not in"
  BY Zenon DEF ListOperators
<1> HIDE DEF Sprint
<1>7. CASE op \in {"==", "!=", ">", "<"}
  BY <1>1, <1>2, <1>7, Zenon DEF ApplyOperator
<1>8. CASE op \in {"contains", "not contains"}
  BY <1>3, <1>8, Zenon DEF ApplyOperator
<1>9. CASE op \in {"semver>", "semver<", "semver="}
  BY <1>4, <1>9, Zenon DEF ApplyOperator
<1>10. CASE op = "matches"
  BY <1>5, <1>10, Zenon DEF ApplyOperator
<1> QED
  BY <1>6, <1>7, <1>8, <1>9, <1>10, Zenon DEF OPERATORS

\* A list that can be shown as a text is the list that the text is parsed to.
LEMMA ListsAlike ==
    ASSUME NEW l, NEW v, ListIsEditable(v), NEW leaf,
           leaf.value = [i \in DOMAIN v.items |-> v.items[i].text[1]],
           \A i \in DOMAIN v.items : v.items[i].text = <<v.items[i].text[1]>>
    PROVE  MembershipCheck(l, v) = MembershipCheck(l, ListOf(leaf))
<1>1. v.type = "list" /\ \A i \in DOMAIN v.items : /\ Sprint(v.items[i]) = v.items[i].text
                                                   /\ Trim[v.items[i].text[1]] = v.items[i].text[1]
  BY DEF ListIsEditable, Sprint
<1>2. ListOf(leaf).type = "list"
      /\ ListOf(leaf).items = [i \in DOMAIN leaf.value |-> Str(Text(Trim[leaf.value[i]]))]
  BY DEF ListOf, List, Value
<1>3. \A t : Sprint(Str(t)) = t
  BY DEF Sprint, Str, Value
<1>4. DOMAIN ListOf(leaf).items = DOMAIN v.items
      /\ \A i \in DOMAIN v.items : Sprint(ListOf(leaf).items[i]) = Sprint(v.items[i])
  BY <1>1, <1>2, <1>3 DEF Text
<1> QED
  BY <1>1, <1>2, <1>4 DEF MembershipCheck, Bool

\* A leaf that is shown reads as the condition it was.
LEMMA LeafRoundTrip ==
    ASSUME NEW a, IsEditableLeaf(a), Proper(a, 3), NEW x, IsContext(x)
    PROVE  /\ ConditionToLeaf(a) \in Leaves
           /\ LeafReads(ConditionToLeaf(a), x) = Verdict(EvalNode(a, x))
           /\ EvalNode(a, x) \in Truths /\ Flat(a, 2) /\ a.op \in OPERATORS \cup {"!"}
<1> DEFINE c == Compares(a)
    leaf == ConditionToLeaf(a)
    right == c.args[2].value
    left == ValueIn(c.args[1].value.text, x)
<1>0. {1, 2, 3} \subseteq 1 .. MaxHeight /\ 1 \in 0 .. MaxHeight - 1 /\ 3 - 1 = 2 /\ 2 - 1 = 1
  BY HeightAssumption
<1>1. /\ c.op \in OPERATORS /\ Len(c.args) = 2
      /\ c.args[1].op = "var" /\ c.args[1].args = <<>> /\ c.args[1].value.type = "string"
      /\ c.args[2].op = "literal"
      /\ IF c.op \in ListOperators THEN ListIsEditable(right) ELSE right.type = "string"
  BY Zenon DEF IsEditableLeaf, Compares, ListOperators
<1>2. c.op # "!"
  BY <1>1, Zenon DEF OPERATORS
<1>3. /\ a.op = "!" => a.args = <<c>> /\ c = Head(a.args) /\ Len(a.args) = 1
      /\ a.op # "!" => c = a
  <2>1. a.op = "!" => Len(a.args) = 1 /\ c = Head(a.args)
    BY <1>2 DEF Compares
  <2>2. a.args \in Seq(ToSet(a.args))
    BY ProperNode DEF IsNode
  <2>3. a.op # "!" => c = a
    BY DEF Compares
  <2> HIDE DEF c
  <2> QED
    BY <2>1, <2>2, <2>3
<1>4. Proper(c, 2) \/ Proper(c, 3)
  <2>1. a.op = "!" => c \in ToSet(a.args)
    BY <1>3 DEF ToSet
  <2> HIDE DEF c
  <2> QED
    BY <1>0, <1>3, <2>1, ProperArguments
<1> HIDE DEF c
<1>5. IsNode(c) /\ \A d \in ToSet(c.args) : Proper(d, 1) \/ Proper(d, 2)
  BY <1>0, <1>4, ProperArguments
<1>6. /\ DOMAIN c.args = 1 .. 2 /\ c.args = [i \in 1 .. 2 |-> c.args[i]]
      /\ c.args[1] \in ToSet(c.args) /\ c.args[2] \in ToSet(c.args)
  <2>1. c.args \in Seq(ToSet(c.args)) /\ Len(c.args) = 2
    BY <1>1, <1>5 DEF IsNode
  <2>2. DOMAIN c.args = 1 .. 2 /\ c.args = [i \in 1 .. 2 |-> c.args[i]]
    BY <2>1
  <2> QED
    BY <2>2 DEF ToSet
<1>7. IsNode(c.args[1]) /\ IsNode(c.args[2])
  BY <1>5, <1>6, ProperNode
<1>8. right.type # "error"
  BY <1>1 DEF ListIsEditable
<1>9. IsComparison(c)
  BY <1>1, <1>6, <1>7, <1>8 DEF IsComparison, IsNode
<1>10. /\ Flat(c, 1) /\ EvalNode(c, x) = ApplyOperator(c.op, left, right)
       /\ EvalNode(c, x) \in Truths
  BY <1>9, ComparisonMeans
<1>11. /\ leaf.attribute = c.args[1].value.text /\ leaf.operator = c.op
       /\ leaf.negate = (a.op = "!")
       /\ leaf.value = IF right.type = "list"
                       THEN [i \in DOMAIN right.items |-> right.items[i].text[1]] ELSE right.text
       /\ leaf = Leaf(leaf.attribute, leaf.operator, leaf.value, leaf.negate)
  <2> DEFINE v == IF right.type = "list"
                  THEN [i \in DOMAIN right.items |-> right.items[i].text[1]] ELSE right.text
             negated == a.op = "!"
  <2>1. (IF a.op = "!" THEN Head(a.args) ELSE a) = c
    BY <1>3, Zenon
  <2>2. leaf = Leaf(c.args[1].value.text, c.op, v, negated)
    BY <2>1, Zenon DEF ConditionToLeaf
  <2>3. \A attribute, op, value, negate :
           /\ Leaf(attribute, op, value, negate).attribute = attribute
           /\ Leaf(attribute, op, value, negate).operator = op
           /\ Leaf(attribute, op, value, negate).value = value
           /\ Leaf(attribute, op, value, negate).negate = negate
    BY Zenon DEF Leaf
  <2> HIDE DEF v, negated, leaf, right
  <2>4. /\ leaf.attribute = c.args[1].value.text /\ leaf.operator = c.op
        /\ leaf.value = v /\ leaf.negate = negated
    BY <2>2, <2>3
  <2>5. leaf = Leaf(leaf.attribute, leaf.operator, leaf.value, leaf.negate)
    BY <2>2, <2>4, Zenon
  <2> QED
    BY <2>4, <2>5, Zenon DEF v, negated
<1>12. c.args[1].value.text \in Texts
  BY <1>1, <1>7 DEF IsNode
<1>13. right.type = "string" => right.text \in Texts
  BY <1>7 DEF IsNode
<1>14. ASSUME c.op \in ListOperators
       PROVE  /\ ListIsEditable(right) /\ right.type = "list" /\ leaf.value \in Texts
              /\ \A i \in DOMAIN right.items : right.items[i].text = <<right.items[i].text[1]>>
  <2>1. ListIsEditable(right)
    BY <1>1, <1>14
  <2> DEFINE items == right.items
  <2>2. /\ right.type = "list" /\ items # <<>>
        /\ \A i \in DOMAIN items : items[i].type = "string" /\ Len(items[i].text) = 1
    BY <2>1 DEF ListIsEditable
  <2>3. items \in Seq(ToSet(items)) /\ \A v \in ToSet(items) : v.type = "string" => v.text \in Texts
    BY <1>7 DEF IsNode
  <2> HIDE DEF items
  <2>4. \A i \in DOMAIN items : items[i].text \in Seq(Piece) /\ Len(items[i].text) = 1
    BY <2>2, <2>3 DEF ToSet, Texts
  <2>5. \A i \in DOMAIN items : items[i].text = <<items[i].text[1]>> /\ items[i].text[1] \in Piece
    BY <2>4
  <2>6. [i \in DOMAIN items |-> items[i].text[1]] \in Texts
    <3>1. DOMAIN items = 1 .. Len(items) /\ Len(items) \in Nat /\ Len(items) # 0
      BY <2>2, <2>3
    <3> DEFINE t == [i \in DOMAIN items |-> items[i].text[1]]
    <3>2. t \in Seq(Piece)
      BY <2>5, <3>1
    <3>3. 1 \in DOMAIN t
      BY <3>1
    <3> HIDE DEF t
    <3>4. t # <<>>
      BY <3>3
    <3>5. t \in Texts
      BY <3>2, <3>4 DEF Texts
    <3> QED
      BY <3>5 DEF t
  <2>7. leaf.value = [i \in DOMAIN items |-> items[i].text[1]]
    <3> HIDE DEF leaf, right
    <3>1. right.type = "list"
      BY <2>2
    <3> QED
      BY <1>11, <3>1, Zenon DEF items
  <2> HIDE DEF leaf, right
  <2> QED
    BY <2>1, <2>2, <2>5, <2>6, <2>7 DEF items
<1>15. c.op \notin ListOperators => right.type = "string" /\ leaf.value = right.text
  <2> HIDE DEF leaf, right
  <2> QED
    BY <1>1, <1>11
<1>16. leaf \in Leaves
  <2>1. leaf.value \in Texts
    BY <1>13, <1>14, <1>15
  <2> HIDE DEF leaf, left, right
  <2>2. (a.op = "!") \in BOOLEAN
    OBVIOUS
  <2> QED
    BY <1>1, <1>11, <1>12, <2>1, <2>2 DEF Leaf, Leaves
<1> HIDE DEF leaf, left, right
<1>17. Compared(leaf, x) = EvalNode(c, x)
  <2>1. ValueIn(leaf.attribute, x) = left
    BY <1>11 DEF left
  <2>2. CASE c.op \in ListOperators
    <3>1. MembershipCheck(left, right) = MembershipCheck(left, ListOf(leaf))
      BY <1>11, <1>14, <2>2, ListsAlike
    <3>2. Operand(leaf) = ListOf(leaf)
      BY <1>11, <2>2, Zenon DEF Operand, ListOperators
    <3> QED
      BY <1>10, <1>11, <2>1, <2>2, <3>1, <3>2, Zenon DEF Compared, ApplyOperator, ListOperators
  <2>3. CASE c.op \notin ListOperators
    <3>1. Operand(leaf) = Str(leaf.value)
      BY <1>11, <2>3, Zenon DEF Operand, ListOperators
    <3>2. Str(leaf.value).type = "string" /\ Str(leaf.value).text = leaf.value
      BY DEF Str, Value
    <3>3. ApplyOperator(c.op, left, right) = ApplyOperator(c.op, left, Str(leaf.value))
      BY <1>1, <1>15, <2>3, <3>2, StringsAlike
    <3> QED
      BY <1>10, <1>11, <2>1, <3>1, <3>3, Zenon DEF Compared
  <2> QED
    BY <2>2, <2>3
<1>18. /\ a.op = "!" => Flat(a, 2) /\ EvalNode(a, x) = Negation(EvalNode(c, x))
       /\ a.op # "!" => Flat(a, 2) /\ EvalNode(a, x) = EvalNode(c, x)
  <2>1. a.op = "!" => Flat(a, 1 + 1) /\ EvalNode(a, x) = Negation(EvalNode(c, x))
    BY <1>0, <1>3, <1>10, NegationMeans
  <2>2. Flat(c, 1 + 1)
    BY <1>0, <1>10, FlatNext
  <2> QED
    BY <1>3, <2>1, <2>2
<1>19. LeafReads(leaf, x) = Verdict(EvalNode(a, x))
  <2>1. leaf.negate <=> a.op = "!"
    BY <1>11
  <2> QED
    BY <1>17, <1>18, <2>1, ReadingOfLeaf, Zenon
<1>20. EvalNode(a, x) \in Truths
  BY <1>10, <1>18, NegationIsTruth
<1>21. a.op \in OPERATORS \cup {"!"}
  BY <1>1, <1>3
<1> QED
  BY <1>16, <1>18, <1>19, <1>20, <1>21 DEF leaf

\* What an item of the page can be made of.
IsGroup(a) ==
    /\ IsCombinatorGroup(a) /\ a.args # <<>>
    /\ \A j \in DOMAIN a.args : IsEditableLeaf(a.args[j])

\* An item that is shown reads as the condition it was.
LEMMA ItemRoundTrip ==
    ASSUME NEW a, IsEditableLeaf(a) \/ IsGroup(a),
           Proper(a, 4) \/ (IsEditableLeaf(a) /\ Proper(a, 3)), NEW x, IsContext(x),
           NEW connector \in COMBINATORS \cup {Undefined}
    PROVE  LET item == ConditionToItem(a, connector)
           IN  /\ item \in Items /\ (item.kind = "row" => Len(item.conditions) = 1)
               /\ item.connector = connector
               /\ ItemReads(item, x) = Verdict(EvalNode(a, x))
               /\ EvalNode(a, x) \in Truths /\ Flat(a, 3)
<1> DEFINE item == ConditionToItem(a, connector)
<1>0. {3, 4} \subseteq 1 .. MaxHeight /\ 2 \in 0 .. MaxHeight - 1 /\ 4 - 1 = 3 /\ 2 + 1 = 3
  BY HeightAssumption
<1>1. CASE IsCombinatorGroup(a)
  <2> DEFINE n == Len(a.args)
      leaves == [j \in DOMAIN a.args |-> ConditionToLeaf(a.args[j])]
      s == [j \in DOMAIN a.args |-> EvalNode(a.args[j], x)]
  <2>1. a.op \in COMBINATORS
    BY <1>1 DEF IsCombinatorGroup
  <2>2. ~IsEditableLeaf(a)
    <3>1. a.op # "!" /\ a.op \notin OPERATORS
      BY <2>1, Zenon DEF COMBINATORS, OPERATORS
    <3> QED
      BY <3>1, Zenon DEF IsEditableLeaf
  <2>3. a.args # <<>> /\ \A j \in DOMAIN a.args : IsEditableLeaf(a.args[j])
    BY <2>2 DEF IsGroup
  <2>4. a.args \in Seq(ToSet(a.args)) /\ \A b \in ToSet(a.args) : Proper(b, 3)
    BY <1>0, <2>2, ProperArguments DEF IsNode
  <2>5. DOMAIN a.args = 1 .. n /\ n \in Nat /\ n # 0
    BY <2>3, <2>4
  <2>6. \A j \in DOMAIN a.args : a.args[j] \in ToSet(a.args)
    BY DEF ToSet
  <2>7. \A j \in DOMAIN a.args :
           /\ ConditionToLeaf(a.args[j]) \in Leaves
           /\ LeafReads(ConditionToLeaf(a.args[j]), x) = Verdict(EvalNode(a.args[j], x))
           /\ EvalNode(a.args[j], x) \in Truths /\ Flat(a.args[j], 2)
    BY <2>3, <2>4, <2>6, LeafRoundTrip
  <2>8. item = Item("group", a.op, leaves, connector)
    BY <1>1 DEF ConditionToItem
  <2>9. s \in Seq(Truths) /\ leaves \in Seq(Leaves) /\ DOMAIN leaves = 1 .. n /\ DOMAIN s = 1 .. n
    BY <2>5, <2>7
  <2>10. leaves # <<>>
    <3>1. 1 \in DOMAIN leaves
      BY <2>5, <2>9
    <3> HIDE DEF leaves
    <3> QED
      BY <3>1
  <2>11. \A j \in DOMAIN s : LeafReads(leaves[j], x) = Verdict(s[j])
    BY <2>7
  <2>12. /\ Flat(a, 2 + 1) /\ EvalNode(a, x) = EvalBoolChain(a.op, s)
    BY <1>0, <2>1, <2>7, CombinationMeans
  <2> HIDE DEF leaves, s, item
  <2>13. /\ item.combinator = a.op /\ item.conditions = leaves /\ item.kind = "group"
         /\ item.connector = connector
    BY <2>8 DEF Item
  <2>14. ItemReads(item, x) = Verdict(EvalBoolChain(a.op, s))
    BY <2>1, <2>9, <2>11, <2>13, ReadingOfItem
  <2>15. EvalBoolChain(a.op, s) \in Truths
    <3>1. s # <<>>
      BY <2>5, <2>9
    <3> QED
      BY <2>1, <2>9, <3>1, ChainStep
  <2>16. item \in Items
    BY <2>1, <2>8, <2>9, <2>10 DEF Item, Items
  <2> QED
    BY <2>12, <2>13, <2>14, <2>15, <2>16 DEF item
<1>2. CASE ~IsCombinatorGroup(a)
  <2> DEFINE leaf == ConditionToLeaf(a)   v == EvalNode(a, x)
  <2>1. IsEditableLeaf(a)
    BY <1>2 DEF IsGroup
  <2>2. Proper(a, 3)
    <3>1. \A k \in 0 .. 3 : k \in 0 .. 4
      OBVIOUS
    <3> QED
      BY <1>0, <3>1 DEF Proper
  <2>3. /\ leaf \in Leaves /\ LeafReads(leaf, x) = Verdict(v) /\ v \in Truths /\ Flat(a, 2)
    BY <2>1, <2>2, LeafRoundTrip
  <2>4. item = Item("row", "and", <<leaf>>, connector)
    BY <1>2 DEF ConditionToItem, Row
  <2>5. Flat(a, 2 + 1)
    BY <1>0, <2>3, FlatNext
  <2> HIDE DEF leaf, v, item
  <2>6. /\ item.combinator = "and" /\ item.conditions = <<leaf>> /\ item.kind = "row"
        /\ item.connector = connector
    BY <2>4 DEF Item
  <2>7. "and" \in COMBINATORS /\ <<v>> \in Seq(Truths) /\ <<leaf>> \in Seq(Leaves) \ {<<>>}
        /\ <<>> \in Seq(Truths) /\ Len(<<leaf>>) = 1
    BY <2>3 DEF COMBINATORS
  <2>8. EvalBoolChain("and", <<v>>) = v
    BY <2>3, <2>7, ChainCons
  <2>9. ItemReads(item, x) = Verdict(EvalBoolChain("and", <<v>>))
    <3>1. DOMAIN <<v>> = DOMAIN item.conditions
          /\ \A j \in DOMAIN <<v>> : LeafReads(item.conditions[j], x) = Verdict(<<v>>[j])
      BY <2>3, <2>6
    <3> DEFINE s == <<v>>
    <3> HIDE DEF s
    <3>2. ItemReads(item, x) = Verdict(EvalBoolChain(item.combinator, s))
      BY <2>6, <2>7, <3>1, ReadingOfItem DEF s
    <3> QED
      BY <2>6, <3>2 DEF s
  <2>10. item \in Items
    BY <2>4, <2>7 DEF Item, Items
  <2> QED
    BY <2>3, <2>5, <2>6, <2>7, <2>8, <2>9, <2>10 DEF item, v
<1> QED
  BY <1>1, <1>2

\* A chain from one of its values on.
From(op, s, j) == EvalBoolChain(op, SubSeq(s, j, Len(s)))

LEMMA ChainFrom ==
    ASSUME NEW op \in COMBINATORS, NEW s \in Seq(Truths), NEW j \in 1 .. Len(s)
    PROVE  /\ From(op, s, j) = IF s[j] = Neutral(op) /\ j < Len(s) THEN From(op, s, j + 1)
                               ELSE s[j]
           /\ From(op, s, j) \in Truths
           /\ From(op, s, 1) = EvalBoolChain(op, s)
<1> DEFINE r(k) == SubSeq(s, k, Len(s))   v == s[j]   rest == r(j + 1)
<1>1. /\ Len(s) \in Nat /\ j \in Int /\ Len(s) \in j .. Len(s) /\ v \in Truths
      /\ \A i \in j .. Len(s) : s[i] \in Truths
      /\ \A i \in j + 1 .. Len(s) : s[i] \in Truths
  OBVIOUS
<1>2. r(j) = <<v>> \o rest
  BY <1>1, SubSeqRecursiveFirst
<1>3. rest \in Seq(Truths) /\ r(j) \in Seq(Truths)
  BY <1>1, SubSeqProperties
<1>4. j = Len(s) => rest = <<>>
  BY <1>1, SubSeqEmpty
<1>5. r(1) = s
  BY SubSeqFull
<1>6. /\ From(op, s, j) = EvalBoolChain(op, r(j)) /\ From(op, s, j + 1) = EvalBoolChain(op, rest)
      /\ From(op, s, 1) = EvalBoolChain(op, r(1))
  BY DEF From
<1> HIDE DEF r, v, rest
<1>7. /\ EvalBoolChain(op, <<v>> \o rest) = IF v = Neutral(op) THEN EvalBoolChain(op, rest) ELSE v
      /\ EvalBoolChain(op, rest) \in Truths
  BY <1>1, <1>3, ChainCons
<1>8. EvalBoolChain(op, <<>>) = Neutral(op)
  BY EmptyChain
<1>9. From(op, s, j) \in Truths
  BY <1>1, <1>2, <1>6, <1>7
<1>10. CASE j = Len(s)
  BY <1>1, <1>2, <1>4, <1>5, <1>6, <1>7, <1>8, <1>9, <1>10 DEF v
<1>11. CASE j # Len(s)
  BY <1>1, <1>2, <1>5, <1>6, <1>7, <1>9, <1>11 DEF v
<1> QED
  BY <1>10, <1>11

\* How the page reads the rows of a condition: each part of the condition has a row for
\* each of its members, whose values are given.  A row that is decided within its part
\* leaves the part; the parts make a chain.
PartsOf(rule, op, ss, vs, x) ==
    /\ rule.combinator = op /\ rule.items = FlattenSeq(ss)
    /\ ss # <<>> /\ Len(vs) = Len(ss)
    /\ \A i \in 1 .. Len(ss) :
          /\ ss[i] # <<>> /\ Len(vs[i]) = Len(ss[i])
          /\ \A j \in 1 .. Len(ss[i]) :
                /\ ItemReads(ss[i][j], x) = Verdict(vs[i][j])
                /\ ss[i][j].connector = IF i = 1 /\ j = 1 THEN Undefined
                                        ELSE IF j = 1 THEN op ELSE "and"

\* The place of a member among the rows, and the alternatives that come after it.
PlaceOf(rule, op, ss, i, j) ==
    LET k == Offset(ss, i) + j
        n == Len(rule.items)
        next == Offset(ss, i + 1) + 1
        later == Alternatives(rule, k)
        last == i = Len(ss)
    IN  /\ n \in Nat /\ k \in 1 .. n /\ rule.items[k] = ss[i][j]
        /\ j = Len(ss[i]) => (k = n <=> last) /\ (~last => k + 1 = next)
        /\ j < Len(ss[i]) => k # n /\ k + 1 \notin later
        /\ ~last => next \in 1 .. n
        /\ op = "and" \/ last => later = {}
        /\ op = "or" /\ ~last => /\ later # {} /\ Min(later) = next
                                 /\ j = Len(ss[i]) => k + 1 \in later

\* The place o + j of member j among the l members that follow the first o of n.
LEMMA PlaceArithmetic ==
    ASSUME NEW n \in Nat, NEW o \in Nat, NEW l \in Nat, NEW j \in 1 .. l, o + l <= n
    PROVE  /\ o + j \in Nat /\ o + j \in 1 .. n
           /\ j = l => o + j = o + l
           /\ j < l => o + j # n /\ (o + j) + 1 \in (o + j) + 1 .. o + l
           /\ \A m \in (o + j) + 1 .. o + l :
                 m - o \in 1 .. l /\ m - o # 1 /\ o + (m - o) = m
           /\ (o + l) + 1 \in 1 .. n =>
                 /\ o + l # n
                 /\ (o + l) + 1 \in (o + j) + 1 .. n
           /\ (o + j) + 1 .. n \subseteq 1 .. n
OBVIOUS

LEMMA PlacesOfParts ==
    ASSUME NEW rule, NEW op \in COMBINATORS, NEW x, NEW T,
           \A item \in T : item.connector \in {Undefined, "and", op},
           NEW ss \in Seq(Seq(T)), NEW vs, PartsOf(rule, op, ss, vs, x),
           NEW i \in 1 .. Len(ss), NEW j \in 1 .. Len(ss[i])
    PROVE  PlaceOf(rule, op, ss, i, j)
<1> DEFINE N == Len(ss)
    n == Len(rule.items)
    off(a) == Offset(ss, a)
    L(a) == Len(ss[a])
    k == off(i) + j
    next == off(i + 1) + 1
    later == Alternatives(rule, k)
    last == i = N
<1>1. N \in Nat /\ N > 0 /\ \A a \in 1 .. N : L(a) \in Nat /\ L(a) > 0 /\ ss[a] \in Seq(T)
  BY DEF PartsOf
<1>2. rule.combinator = op /\ rule.items = FlattenSeq(ss) /\ ss # <<>>
  BY DEF PartsOf
<1>3. /\ rule.items \in Seq(T) /\ off(1) = 0 /\ n = off(N + 1)
      /\ \A a \in 1 .. N :
            /\ off(a) \in Nat /\ off(a + 1) = off(a) + L(a) /\ off(a + 1) <= n
            /\ \A p \in 1 .. L(a) : rule.items[off(a) + p] = ss[a][p]
  BY <1>2, FlattenSeqMeans
<1>4. op # Undefined /\ "and" # Undefined /\ "and" # "or" /\ op \in {"and", "or"}
  BY DEF COMBINATORS, Undefined
<1>5. \A a \in 1 .. N : \A p \in 1 .. L(a) :
         ss[a][p].connector = IF a = 1 /\ p = 1 THEN Undefined ELSE IF p = 1 THEN op ELSE "and"
  BY DEF PartsOf
<1> HIDE DEF off, L
<1>6. ASSUME NEW a \in 1 .. N, NEW p \in 1 .. L(a)
      PROVE  Connector(rule, off(a) + p) = IF p = 1 THEN op ELSE "and"
  <2>1. rule.items[off(a) + p] = ss[a][p]
    BY <1>3
  <2>2. ss[a][p].connector
          = IF a = 1 /\ p = 1 THEN Undefined ELSE IF p = 1 THEN op ELSE "and"
    BY <1>5
  <2> QED
    BY <1>2, <1>4, <2>1, <2>2 DEF Connector
<1>7. n \in Nat
  BY <1>3
<1>8. j \in 1 .. L(i) /\ i \in 1 .. N
  BY DEF L
<1>9. /\ off(i) \in Nat /\ off(i + 1) = off(i) + L(i) /\ off(i + 1) <= n /\ L(i) \in Nat
      /\ off(i + 1) \in Nat /\ rule.items[off(i) + j] = ss[i][j]
  <2>1. off(i) \in Nat /\ off(i + 1) = off(i) + L(i) /\ off(i + 1) <= n /\ L(i) \in Nat
    BY <1>1, <1>3, <1>8
  <2>2. rule.items[off(i) + j] = ss[i][j]
    BY <1>3, <1>8
  <2>3. off(i + 1) \in Nat
    <3> DEFINE o == off(i)   l == L(i)
    <3>1. o \in Nat /\ l \in Nat
      BY <2>1
    <3> HIDE DEF o, l
    <3>2. o + l \in Nat
      BY ONLY <3>1
    <3> QED
      BY <2>1, <3>2 DEF o, l
  <2> HIDE DEF n
  <2> QED
    BY <2>1, <2>2, <2>3
<1>20. later = {m \in k + 1 .. n : Connector(rule, m) = "or"}
  BY DEF Alternatives
<1> HIDE DEF n
<1>21. /\ k \in Nat /\ k \in 1 .. n
       /\ j = L(i) => k = off(i) + L(i)
       /\ j < L(i) => k # n /\ k + 1 \in k + 1 .. off(i) + L(i)
       /\ \A m \in k + 1 .. off(i) + L(i) :
             m - off(i) \in 1 .. L(i) /\ m - off(i) # 1 /\ off(i) + (m - off(i)) = m
       /\ (off(i) + L(i)) + 1 \in 1 .. n =>
             off(i) + L(i) # n /\ (off(i) + L(i)) + 1 \in k + 1 .. n
       /\ k + 1 .. n \subseteq 1 .. n
  <2> DEFINE o == off(i)   l == L(i)
  <2>1. n \in Nat /\ o \in Nat /\ l \in Nat /\ j \in 1 .. l /\ o + l <= n
    BY <1>7, <1>8, <1>9
  <2> HIDE DEF o, l
  <2>2. /\ o + j \in Nat /\ o + j \in 1 .. n
        /\ j = l => o + j = o + l
        /\ j < l => o + j # n /\ (o + j) + 1 \in (o + j) + 1 .. o + l
        /\ \A m \in (o + j) + 1 .. o + l :
              m - o \in 1 .. l /\ m - o # 1 /\ o + (m - o) = m
        /\ (o + l) + 1 \in 1 .. n => o + l # n /\ (o + l) + 1 \in (o + j) + 1 .. n
        /\ (o + j) + 1 .. n \subseteq 1 .. n
    BY <2>1, PlaceArithmetic
  <2> QED
    BY <2>2, Zenon DEF o, l
<1> HIDE DEF k
<1>22. off(i + 1) = off(i) + L(i)
  BY <1>9
<1>10. k \in 1 .. n /\ rule.items[k] = ss[i][j]
  BY <1>9, <1>21 DEF k
<1>11. last => n = off(i + 1)
  BY <1>3
<1>12. ~last => /\ i + 1 \in 1 .. N /\ off((i + 1) + 1) = off(i + 1) + L(i + 1)
                /\ L(i + 1) \in Nat /\ L(i + 1) > 0 /\ next \in 1 .. n
  <2>1. ~last => i + 1 \in 1 .. N
    BY <1>1, <1>8
  <2> DEFINE a == i + 1
  <2> HIDE DEF a
  <2>2. a \in 1 .. N => /\ off(a + 1) = off(a) + L(a) /\ off(a + 1) <= n
                         /\ L(a) \in Nat /\ L(a) > 0
    BY <1>1, <1>3
  <2>3. off(a) \in Nat
    BY <1>9 DEF a
  <2>4. ASSUME a \in 1 .. N PROVE off(a) + 1 \in 1 .. n
    <3> DEFINE o == off(a)   l == L(a)
    <3>1. o + l <= n /\ l \in Nat /\ l > 0 /\ o \in Nat
      BY <2>2, <2>3, <2>4
    <3> HIDE DEF o, l
    <3>2. o + 1 \in 1 .. n
      BY ONLY n \in Nat, <3>1
    <3> QED
      BY <3>2 DEF o
  <2> QED
    BY <2>1, <2>2, <2>4 DEF a
<1>13. ~last => next \in 1 .. n
  BY <1>12
<1>14. j = L(i) => (k = n <=> last) /\ (~last => k + 1 = next)
  <2>1. CASE last
    BY <1>11, <1>21, <1>22, <2>1, Zenon
  <2>2. CASE ~last
    <3>1. off(i) + L(i) # n
      BY <1>13, <1>21, <1>22, <2>2, Zenon
    <3> QED
      BY <1>21, <1>22, <2>2, <3>1, Zenon
  <2> QED
    BY <2>1, <2>2
<1>15. ASSUME NEW m \in k + 1 .. off(i + 1) PROVE Connector(rule, m) = "and"
  <2>1. m - off(i) \in 1 .. L(i) /\ m - off(i) # 1 /\ off(i) + (m - off(i)) = m
    BY <1>21, <1>22, Zenon
  <2> QED
    BY <1>6, <1>8, <2>1
<1>16. j < L(i) => k # n /\ k + 1 \notin later
  <2>1. j < L(i) => k + 1 \in k + 1 .. off(i + 1) /\ k # n
    BY <1>21, <1>22, Zenon
  <2> QED
    BY <1>4, <1>15, <1>20, <2>1
<1>17. op = "and" => later = {}
  <2>1. \A m \in 1 .. n : rule.items[m] \in T
    BY <1>3 DEF n
  <2>2. \A m \in 1 .. n : op = "and" => Connector(rule, m) = "and"
    BY <1>2, <2>1 DEF Connector
  <2>3. k + 1 .. n \subseteq 1 .. n
    BY <1>21
  <2> QED
    BY <1>4, <1>20, <2>2, <2>3
<1>18. last => later = {}
  BY <1>4, <1>11, <1>15, <1>20
<1>19. ASSUME op = "or", ~last
       PROVE  /\ later # {} /\ Min(later) = next
              /\ j = L(i) => k + 1 \in later
  <2>1. Connector(rule, next) = "or"
    <3>1. 1 \in 1 .. L(i + 1)
      BY <1>12, <1>19
    <3> QED
      BY <1>6, <1>12, <1>19, <3>1
  <2>2. next \in k + 1 .. n
    BY <1>13, <1>19, <1>21, <1>22, Zenon
  <2>3. next \in later
    BY <1>20, <2>1, <2>2
  <2>4. later \in SUBSET Nat /\ \A m \in later : m \in k + 1 .. n /\ Connector(rule, m) = "or"
    BY <1>7, <1>10, <1>20
  <2> HIDE DEF later
  <2>5. Min(later) \in later /\ Min(later) <= next
    BY <2>3, <2>4, LeastNatural
  <2>6. Min(later) \notin k + 1 .. off(i + 1)
    BY <1>4, <1>15, <2>4, <2>5
  <2>7. Min(later) = next
    <3> DEFINE m == Min(later)   o == off(i + 1)
    <3>1. m \in k + 1 .. n /\ m <= o + 1 /\ m \notin k + 1 .. o /\ o \in Nat /\ k \in Nat
      <4>1. k \in Nat /\ off(i + 1) \in Nat
        BY <1>9, <1>21
      <4>2. Min(later) \in k + 1 .. n
        BY <2>4, <2>5
      <4> QED
        BY <2>5, <2>6, <4>1, <4>2
    <3> HIDE DEF m, o
    <3>2. m = o + 1
      BY ONLY n \in Nat, <3>1
    <3> QED
      BY <3>2 DEF m, o
  <2> QED
    BY <1>14, <1>19, <2>3, <2>7
<1> QED
  BY <1>4, <1>7, <1>10, <1>13, <1>14, <1>16, <1>17, <1>18, <1>19 DEF PlaceOf, off, L, n, k

\* What the page reads from a member on.
PartReads(reads, op, ss, vs, i, j) ==
    reads[Offset(ss, i) + j]
      = IF From("and", vs[i], j) = Neutral(op) /\ i # Len(ss)
        THEN reads[Offset(ss, i + 1) + 1] ELSE Verdict(From("and", vs[i], j))

\* From a member on, a part reads as the chain of its values from there on, unless that
\* leaves the matter to the next part.
LEMMA ReadsOfPart ==
    ASSUME NEW rule, NEW op \in COMBINATORS, NEW x, NEW T,
           \A item \in T : item.connector \in {Undefined, "and", op},
           NEW ss \in Seq(Seq(T)), NEW vs \in Seq(Seq(Truths)), PartsOf(rule, op, ss, vs, x),
           NEW reads, \A k \in 1 .. Len(rule.items) : reads[k] = ReadsFrom(rule, k, x, reads),
           NEW i \in 1 .. Len(ss)
    PROVE  \A j \in 1 .. Len(ss[i]) : PartReads(reads, op, ss, vs, i, j)
<1> DEFINE n == Len(rule.items)
    l == Len(ss[i])
    o == Offset(ss, i)
    next == Offset(ss, i + 1) + 1
    last == i = Len(ss)
    later(j) == Alternatives(rule, o + j)
    s == vs[i]
    M(j) == From("and", s, j)
    t == Bool(TRUE)
    f == Bool(FALSE)
    S == {j \in 1 .. l : reads[o + j] = IF M(j) = Neutral(op) /\ ~last THEN reads[next]
                                        ELSE Verdict(M(j))}
<1>1. l \in Nat /\ l > 0 /\ Len(s) = l /\ s \in Seq(Truths)
  BY DEF PartsOf
<1>2. \A j \in 1 .. l : ItemReads(ss[i][j], x) = Verdict(s[j])
  BY DEF PartsOf
<1>3. ASSUME NEW j \in 1 .. l
      PROVE  /\ n \in Nat /\ o + j \in 1 .. n /\ rule.items[o + j] = ss[i][j]
             /\ j = l => (o + j = n <=> last) /\ (~last => (o + j) + 1 = next)
             /\ j < l => o + j # n /\ (o + j) + 1 \notin later(j)
             /\ op = "and" \/ last => later(j) = {}
             /\ op = "or" /\ ~last => /\ later(j) # {} /\ Min(later(j)) = next
                                      /\ j = l => (o + j) + 1 \in later(j)
  <2>1. PlaceOf(rule, op, ss, i, j)
    BY PlacesOfParts
  <2> QED
    BY <2>1 DEF PlaceOf
<1>4. "and" \in COMBINATORS /\ Neutral("and") = t /\ (op = "and" => Neutral(op) = t)
      /\ (op = "or" => Neutral(op) = f) /\ op \in {"and", "or"} /\ t # f /\ t # Error /\ f # Error
  BY DistinctTruths, Zenon DEF COMBINATORS, Neutral, Bool
<1>5. ASSUME NEW j \in 1 .. l
      PROVE  /\ M(j) = IF s[j] = t /\ j < l THEN M(j + 1) ELSE s[j]
             /\ s[j] \in {t, f, Error}
  <2>1. j \in 1 .. Len(s)
    BY <1>1
  <2> HIDE DEF s
  <2>2. M(j) = IF s[j] = Neutral("and") /\ j < Len(s) THEN M(j + 1) ELSE s[j]
    BY <1>1, <1>4, <2>1, ChainFrom
  <2>3. s[j] \in Truths
    BY <1>1, <2>1
  <2> HIDE DEF t, f, M
  <2> QED
    BY <1>1, <1>4, <2>2, <2>3 DEF Truths, t, f
<1>6. ASSUME NEW j \in 1 .. l
      PROVE  reads[o + j] = LET k == o + j IN
                 CASE Verdict(s[j]) = "error" -> "error"
                   [] Verdict(s[j]) = "yes" ->
                        IF k = n \/ k + 1 \in later(j) THEN "yes" ELSE reads[k + 1]
                   [] OTHER -> IF later(j) = {} THEN "no" ELSE reads[Min(later(j))]
  <2>1. o + j \in 1 .. n /\ ItemReads(rule.items[o + j], x) = Verdict(s[j])
    BY <1>2, <1>3
  <2>2. reads[o + j] = ReadsFrom(rule, o + j, x, reads)
    BY <2>1
  <2> QED
    BY <2>1, <2>2 DEF ReadsFrom
<1>7. Verdict(t) = "yes" /\ Verdict(f) = "no" /\ Verdict(Error) = "error"
  BY Verdicts
<1> HIDE DEF n, l, o, next, later, s, M, t, f
<1>8. ASSUME NEW j \in 1 .. l, j < l => j + 1 \in S
      PROVE  j \in S
  <2>1. CASE s[j] = Error
    <3>1. M(j) = Error /\ reads[o + j] = "error"
      BY <1>4, <1>5, <1>6, <1>7, <2>1
    <3>2. Error # Neutral(op)
      BY <1>4
    <3> QED
      BY <1>7, <3>1, <3>2
  <2>2. CASE s[j] = f
    <3>1. M(j) = f
      BY <1>4, <1>5, <2>2
    <3>2. reads[o + j] = IF later(j) = {} THEN "no" ELSE reads[Min(later(j))]
      BY <1>6, <1>7, <2>2
    <3>3. CASE op = "and" \/ last
      BY <1>3, <1>4, <1>7, <3>1, <3>2, <3>3
    <3>4. CASE op = "or" /\ ~last
      BY <1>3, <1>4, <1>7, <3>1, <3>2, <3>4
    <3> QED
      BY <1>4, <3>3, <3>4
  <2>3. CASE s[j] = t
    <3>1. reads[o + j] = IF o + j = n \/ (o + j) + 1 \in later(j) THEN "yes" ELSE reads[(o + j) + 1]
      BY <1>6, <1>7, <2>3
    <3>2. CASE j < l
      <4>1. M(j) = M(j + 1) /\ reads[o + j] = reads[(o + j) + 1]
        BY <1>3, <1>5, <2>3, <3>1, <3>2
      <4>2. (o + j) + 1 = o + (j + 1)
        <5>1. o \in Int
          BY DEF o, Offset
        <5> QED
          BY <5>1
      <4> QED
        BY <1>8, <3>2, <4>1, <4>2
    <3>3. CASE j = l
      <4>1. M(j) = t
        BY <1>5, <2>3, <3>3
      <4>2. CASE last
        BY <1>3, <1>7, <3>1, <3>3, <4>1, <4>2
      <4>3. CASE ~last /\ op = "or"
        BY <1>3, <1>4, <1>7, <3>1, <3>3, <4>1, <4>3
      <4>4. CASE ~last /\ op = "and"
        BY <1>3, <1>4, <3>1, <3>3, <4>1, <4>4
      <4> QED
        BY <1>4, <4>2, <4>3, <4>4
    <3> QED
      BY <1>1, <3>2, <3>3
  <2> QED
    BY <1>5, <2>1, <2>2, <2>3
<1>9. \A j \in 1 .. l : j \in S
  <2>1. l \in S
    BY <1>1, <1>8
  <2>2. \A j \in 1 .. l : j < l /\ j + 1 \in S => j \in S
    BY <1>8
  <2> HIDE DEF S
  <2> QED
    BY <1>1, <2>1, <2>2, Downward
<1> QED
  BY <1>9 DEF PartReads, l, o, next, M, s

\* The connectors of the rows; and what the page reads.
JoinedBy(T, op) == \A item \in T : item.connector \in {Undefined, "and", op}
ReadsThrough(rule, x, reads) ==
    \A k \in 1 .. Len(rule.items) : reads[k] = ReadsFrom(rule, k, x, reads)

LEMMA ReadsOfParts ==
    ASSUME NEW rule, NEW op \in COMBINATORS, NEW x, NEW T,
           JoinedBy(T, op),
           NEW ss \in Seq(Seq(T)), NEW vs \in Seq(Seq(Truths)), PartsOf(rule, op, ss, vs, x),
           NEW reads, ReadsThrough(rule, x, reads)
    PROVE  reads[1]
             = Verdict(EvalBoolChain(op, [i \in DOMAIN vs |-> EvalBoolChain("and", vs[i])]))
<1> DEFINE n == Len(ss)
    W == [i \in DOMAIN vs |-> EvalBoolChain("and", vs[i])]
    at(i) == reads[Offset(ss, i) + 1]
    S == {i \in 1 .. n : at(i) = Verdict(From(op, W, i))}
<1>1. /\ n \in Nat /\ n > 0 /\ Len(vs) = n /\ DOMAIN vs = 1 .. n
      /\ \A i \in 1 .. n : /\ vs[i] \in Seq(Truths) /\ Len(vs[i]) = Len(ss[i])
                           /\ 1 \in 1 .. Len(vs[i]) /\ vs[i] # <<>>
  <2>1. n \in Nat /\ n > 0 /\ Len(vs) = n /\ DOMAIN vs = 1 .. n
    BY DEF PartsOf
  <2>2. ASSUME NEW i \in 1 .. n
        PROVE  /\ vs[i] \in Seq(Truths) /\ Len(vs[i]) = Len(ss[i])
               /\ 1 \in 1 .. Len(vs[i]) /\ vs[i] # <<>>
    <3>1. vs[i] \in Seq(Truths) /\ ss[i] \in Seq(T)
      BY <2>1
    <3>2. ss[i] # <<>> /\ Len(vs[i]) = Len(ss[i])
      BY DEF PartsOf
    <3> QED
      BY <3>1, <3>2
  <2> QED
    BY <2>1, <2>2
<1>2. "and" \in COMBINATORS
  BY DEF COMBINATORS
<1>3. ASSUME NEW i \in 1 .. n
      PROVE  From("and", vs[i], 1) = EvalBoolChain("and", vs[i])
             /\ EvalBoolChain("and", vs[i]) \in Truths
  BY <1>1, <1>2, ChainFrom
<1>4. W \in Seq(Truths) /\ Len(W) = n /\ \A i \in 1 .. n : W[i] = From("and", vs[i], 1)
  BY <1>1, <1>3
<1> HIDE DEF W
<1>5. ASSUME NEW i \in 1 .. n
      PROVE  /\ From(op, W, i) = IF W[i] = Neutral(op) /\ i < n THEN From(op, W, i + 1) ELSE W[i]
             /\ From(op, W, 1) = EvalBoolChain(op, W)
  BY <1>4, ChainFrom
<1>6. ASSUME NEW i \in 1 .. n
      PROVE  at(i) = IF W[i] = Neutral(op) /\ i # n THEN at(i + 1) ELSE Verdict(W[i])
  <2>1. 1 \in 1 .. Len(ss[i])
    BY <1>1
  <2>2. PartReads(reads, op, ss, vs, i, 1)
    BY <2>1, ReadsOfPart DEF JoinedBy, ReadsThrough
  <2> QED
    BY <1>4, <2>2 DEF PartReads
<1> HIDE DEF at, n
<1>7. \A i \in 1 .. n : i \in S
  <2>1. n \in S
    BY <1>1, <1>5, <1>6
  <2>2. ASSUME NEW i \in 1 .. n, i < n, i + 1 \in S PROVE i \in S
    <3>1. at(i + 1) = Verdict(From(op, W, i + 1)) /\ i # n
      BY <2>2
    <3> QED
      BY <1>5, <1>6, <2>2, <3>1
  <2> HIDE DEF S
  <2> QED
    BY <1>1, <2>1, <2>2, Downward
<1>8. at(1) = Verdict(EvalBoolChain(op, W))
  <2>1. 1 \in 1 .. n
    BY <1>1
  <2>2. at(1) = Verdict(From(op, W, 1))
    BY <1>7, <2>1
  <2> QED
    BY <1>5, <2>1, <2>2
<1>9. Offset(ss, 1) + 1 = 1
  BY DEF Offset
<1> QED
  BY <1>8, <1>9 DEF at, W

\* The members of a part of a condition, which its rows show.
Members(b) == IF b.op = "and" THEN b.args ELSE <<b>>

LEMMA MembersMean ==
    ASSUME NEW b, IsEditableLeaf(b) \/ IsGroup(b), Proper(b, 4), NEW x, IsContext(x)
    PROVE  LET m == Members(b)
           IN  /\ m \in Seq(ToSet(m)) /\ m # <<>>
               /\ \A a \in ToSet(m) : /\ IsEditableLeaf(a) \/ IsGroup(a)
                                      /\ Proper(a, 4) \/ (IsEditableLeaf(a) /\ Proper(a, 3))
                                      /\ EvalNode(a, x) \in Truths
               /\ EvalNode(b, x) = EvalBoolChain("and", [j \in DOMAIN m |-> EvalNode(m[j], x)])
               /\ EvalNode(b, x) \in Truths /\ Flat(b, 3)
<1>0. {3, 4} \subseteq 1 .. MaxHeight /\ 2 \in 0 .. MaxHeight - 1 /\ 4 - 1 = 3
      /\ "and" \in COMBINATORS
  BY HeightAssumption DEF COMBINATORS
<1>1. EvalNode(b, x) \in Truths /\ Flat(b, 3)
  <2>1. "and" \in COMBINATORS \cup {Undefined}
    BY <1>0
  <2> QED
    BY <2>1, ItemRoundTrip
<1>2. CASE b.op = "and"
  <2>1. ~IsEditableLeaf(b)
    <3>1. b.op # "!" /\ b.op \notin OPERATORS
      BY <1>2, Zenon DEF OPERATORS
    <3> QED
      BY <3>1, Zenon DEF IsEditableLeaf
  <2>2. b.args # <<>> /\ \A j \in DOMAIN b.args : IsEditableLeaf(b.args[j])
    BY <2>1 DEF IsGroup
  <2>3. b.args \in Seq(ToSet(b.args)) /\ \A a \in ToSet(b.args) : Proper(a, 3)
    BY <1>0, ProperArguments DEF IsNode
  <2>4. ASSUME NEW a \in ToSet(b.args)
        PROVE  IsEditableLeaf(a) /\ EvalNode(a, x) \in Truths /\ Flat(a, 2)
    <3>1. IsEditableLeaf(a)
      BY <2>2 DEF ToSet
    <3> QED
      BY <2>3, <3>1, LeafRoundTrip
  <2>5. \A j \in DOMAIN b.args : Flat(b.args[j], 2)
    BY <2>4 DEF ToSet
  <2>6. EvalNode(b, x) = EvalBoolChain(b.op, [j \in DOMAIN b.args |-> EvalNode(b.args[j], x)])
    BY <1>0, <1>2, <2>5, CombinationMeans
  <2>7. Members(b) = b.args
    BY <1>2 DEF Members
  <2> QED
    BY <1>1, <1>2, <2>2, <2>3, <2>4, <2>6, <2>7
<1>3. CASE b.op # "and"
  <2> DEFINE m == <<b>>   v == EvalNode(b, x)
  <2>1. Members(b) = m
    BY <1>3 DEF Members
  <2>2. ToSet(m) = {b} /\ m \in Seq({b}) /\ m # <<>>
    BY DEF ToSet
  <2>3. [j \in DOMAIN m |-> EvalNode(m[j], x)] = <<v>>
    OBVIOUS
  <2> HIDE DEF v, m
  <2>4. EvalBoolChain("and", <<v>>) = v
    <3>1. <<>> \in Seq(Truths) /\ v \in Truths
      BY <1>1 DEF v
    <3> QED
      BY <1>0, <3>1, ChainCons
  <2> QED
    BY <1>1, <2>1, <2>2, <2>3, <2>4 DEF v
<1> QED
  BY <1>2, <1>3

\* A sequence, as a function.
LEMMA SequenceOf ==
    ASSUME NEW n \in Nat, NEW S, NEW s, s = [i \in 1 .. n |-> s[i]],
           \A i \in 1 .. n : s[i] \in S
    PROVE  s \in Seq(S) /\ Len(s) = n /\ DOMAIN s = 1 .. n
<1>1. s \in Seq(S)
  OBVIOUS
<1>2. DOMAIN s = 1 .. n
  OBVIOUS
<1> QED
  BY <1>1, <1>2

\* The rows of a part of a condition.
RowsOf(c, i) ==
    LET m == Members(c.args[i])
    IN  [j \in DOMAIN m |->
           ConditionToItem(m[j], IF i = 1 /\ j = 1 THEN Undefined ELSE IF j = 1 THEN c.op ELSE "and")]
RowItems(op) ==
    {item \in Items : /\ item.kind = "row" => Len(item.conditions) = 1
                      /\ item.connector \in {Undefined, "and", op}}

ValuesOfPart(c, i, x) ==
    LET m == Members(c.args[i]) IN [j \in DOMAIN m |-> EvalNode(m[j], x)]

\* The rows of a part read as the members that they show.
ShowsPart(c, i, rows, values, x) ==
    /\ rows \in Seq(RowItems(c.op)) /\ rows # <<>>
    /\ values \in Seq(Truths) /\ Len(values) = Len(rows)
    /\ EvalNode(c.args[i], x) = EvalBoolChain("and", values) /\ Flat(c.args[i], 3)
    /\ \A j \in 1 .. Len(rows) :
          /\ ItemReads(rows[j], x) = Verdict(values[j])
          /\ rows[j].connector = IF i = 1 /\ j = 1 THEN Undefined
                                 ELSE IF j = 1 THEN c.op ELSE "and"

LEMMA RowsOfPart ==
    ASSUME NEW c, c.op \in COMBINATORS, NEW i,
           IsEditableLeaf(c.args[i]) \/ IsGroup(c.args[i]), Proper(c.args[i], 4),
           NEW x, IsContext(x)
    PROVE  ShowsPart(c, i, RowsOf(c, i), ValuesOfPart(c, i, x), x)
<1> DEFINE b == c.args[i]
    m == Members(b)
    n == Len(m)
    rows == RowsOf(c, i)
    vs == ValuesOfPart(c, i, x)
    joins(j) == IF i = 1 /\ j = 1 THEN Undefined ELSE IF j = 1 THEN c.op ELSE "and"
    T == RowItems(c.op)
<1>1. /\ m \in Seq(ToSet(m)) /\ m # <<>>
      /\ \A a \in ToSet(m) : /\ IsEditableLeaf(a) \/ IsGroup(a)
                             /\ Proper(a, 4) \/ (IsEditableLeaf(a) /\ Proper(a, 3))
                             /\ EvalNode(a, x) \in Truths
      /\ EvalNode(b, x) = EvalBoolChain("and", vs) /\ Flat(b, 3)
  BY MembersMean DEF ValuesOfPart
<1>2. /\ rows = [j \in DOMAIN m |-> ConditionToItem(m[j], joins(j))]
      /\ \A j : joins(j) \in {Undefined, "and", c.op} /\ joins(j) \in COMBINATORS \cup {Undefined}
  BY DEF RowsOf, COMBINATORS
<1> HIDE DEF m, rows, joins
<1>3. n \in Nat /\ n # 0 /\ DOMAIN m = 1 .. n /\ \A j \in 1 .. n : m[j] \in ToSet(m)
  <2>1. n \in Nat /\ n # 0 /\ DOMAIN m = 1 .. n
    BY <1>1
  <2> QED
    BY <2>1 DEF ToSet
<1>4. ASSUME NEW j \in 1 .. n
      PROVE  /\ rows[j] \in T /\ rows[j].connector = joins(j)
             /\ ItemReads(rows[j], x) = Verdict(EvalNode(m[j], x))
  <2>1. rows[j] = ConditionToItem(m[j], joins(j))
    BY <1>2, <1>3
  <2>2. joins(j) \in {Undefined, "and", c.op} /\ joins(j) \in COMBINATORS \cup {Undefined}
    BY <1>2
  <2> DEFINE a == m[j]   item == ConditionToItem(a, joins(j))
  <2>3. /\ IsEditableLeaf(a) \/ IsGroup(a)
        /\ Proper(a, 4) \/ (IsEditableLeaf(a) /\ Proper(a, 3))
    BY <1>1, <1>3
  <2> HIDE DEF a
  <2>4. /\ item \in Items /\ (item.kind = "row" => Len(item.conditions) = 1)
        /\ item.connector = joins(j) /\ ItemReads(item, x) = Verdict(EvalNode(a, x))
    BY <2>2, <2>3, ItemRoundTrip
  <2> HIDE DEF item
  <2>5. item \in T
    BY <2>2, <2>4 DEF RowItems
  <2> QED
    BY <2>1, <2>4, <2>5 DEF item, a
<1>5. DOMAIN rows = 1 .. n /\ rows = [j \in 1 .. n |-> rows[j]]
  BY <1>2, <1>3
<1>6. rows \in Seq(T) /\ rows # <<>> /\ Len(rows) = n
  <2>1. rows \in Seq(T)
    BY <1>3, <1>4, <1>5
  <2>2. Len(rows) = n
    BY <1>3, <1>5, <2>1
  <2> QED
    BY <1>3, <2>1, <2>2
<1>7. vs \in Seq(Truths) /\ Len(vs) = n /\ \A j \in 1 .. n : vs[j] = EvalNode(m[j], x)
  <2>1. vs = [j \in 1 .. n |-> EvalNode(m[j], x)]
    BY <1>3 DEF ValuesOfPart, m
  <2>2. \A j \in 1 .. n : EvalNode(m[j], x) \in Truths
    BY <1>1, <1>3
  <2>4. vs = [j \in 1 .. n |-> vs[j]] /\ \A j \in 1 .. n : vs[j] = EvalNode(m[j], x)
    <3> HIDE DEF vs, n
    <3> QED
      BY <2>1
  <2> HIDE DEF n, vs
  <2>3. vs \in Seq(Truths) /\ Len(vs) = n
    BY <1>3, <2>2, <2>4, SequenceOf
  <2> QED
    BY <2>3, <2>4
<1> HIDE DEF vs, n, T
<1>8. \A j \in 1 .. n : /\ ItemReads(rows[j], x) = Verdict(vs[j])
                        /\ rows[j].connector = joins(j)
  BY <1>4, <1>7
<1> QED
  BY <1>1, <1>6, <1>7, <1>8 DEF ShowsPart, m, rows, vs, b, joins, T

\* The rows of a condition are a form, which is saved as a condition that comes to the
\* same.
RoundTrips(c, x) ==
    LET rule == ConditionToRule(c)
    IN  /\ IsForm(rule) /\ c.op \in Ops
        /\ Verdict(EvalNode(RuleToCondition(rule), x)) = Verdict(EvalNode(c, x))

LEMMA GroupRoundTrip ==
    ASSUME NEW c, c.op \in COMBINATORS, c.args # <<>>, Proper(c, 5),
           \A i \in DOMAIN c.args : IsEditableLeaf(c.args[i]) \/ IsGroup(c.args[i]),
           NEW x, IsContext(x)
    PROVE  RoundTrips(c, x)
<1> DEFINE n == Len(c.args)
    op == c.op
    T == RowItems(op)
    ss == [i \in DOMAIN c.args |-> RowsOf(c, i)]
    vs == [i \in DOMAIN c.args |-> ValuesOfPart(c, i, x)]
    rule == ConditionToRule(c)
    reads == Reads(rule, x)
<1>1. 5 \in 1 .. MaxHeight /\ 3 \in 0 .. MaxHeight - 1 /\ 5 - 1 = 4
  BY HeightAssumption
<1>2. c.args \in Seq(ToSet(c.args)) /\ \A a \in ToSet(c.args) : Proper(a, 4)
  BY <1>1, ProperArguments DEF IsNode
<1>3. n \in Nat /\ n # 0 /\ DOMAIN c.args = 1 .. n /\ \A i \in 1 .. n : c.args[i] \in ToSet(c.args)
  <2>1. n \in Nat /\ n # 0 /\ DOMAIN c.args = 1 .. n
    BY <1>2
  <2> QED
    BY <2>1 DEF ToSet
<1>4. ASSUME NEW i \in 1 .. n
      PROVE  /\ ss[i] \in Seq(T) /\ ss[i] # <<>>
             /\ vs[i] \in Seq(Truths) /\ Len(vs[i]) = Len(ss[i])
             /\ EvalNode(c.args[i], x) = EvalBoolChain("and", vs[i]) /\ Flat(c.args[i], 3)
             /\ \A j \in 1 .. Len(ss[i]) :
                   /\ ItemReads(ss[i][j], x) = Verdict(vs[i][j])
                   /\ ss[i][j].connector = IF i = 1 /\ j = 1 THEN Undefined
                                           ELSE IF j = 1 THEN op ELSE "and"
  <2>1. ss[i] = RowsOf(c, i) /\ vs[i] = ValuesOfPart(c, i, x)
    BY <1>3
  <2>2. IsEditableLeaf(c.args[i]) \/ IsGroup(c.args[i])
    BY <1>3
  <2>3. Proper(c.args[i], 4)
    BY <1>2, <1>3
  <2> HIDE DEF ss, vs
  <2>4. ShowsPart(c, i, ss[i], vs[i], x)
    BY <2>1, <2>2, <2>3, RowsOfPart
  <2> QED
    BY <2>4 DEF ShowsPart
<1>5. rule = [combinator |-> op, items |-> FlattenSeq(ss)]
  BY DEF ConditionToRule, IsCombinatorGroup, RowsOf, Members
<1>6. DOMAIN ss = 1 .. n /\ DOMAIN vs = 1 .. n /\ ss = [i \in 1 .. n |-> ss[i]]
      /\ vs = [i \in 1 .. n |-> vs[i]]
  BY <1>3
<1> HIDE DEF ss, vs, rule, T, reads, op
<1>7. ss \in Seq(Seq(T)) /\ vs \in Seq(Seq(Truths)) /\ Len(ss) = n /\ Len(vs) = n /\ ss # <<>>
  <2> DEFINE S == Seq(T)   V == Seq(Truths)
  <2>5. \A i \in 1 .. n : ss[i] \in S /\ vs[i] \in V
    BY <1>4
  <2> HIDE DEF S, V
  <2>6. ss \in Seq(S) /\ vs \in Seq(V)
    <3> HIDE DEF n
    <3>1. ss \in Seq(S)
      BY <1>3, <1>6, <2>5, SequenceOf
    <3>2. vs \in Seq(V)
      BY <1>3, <1>6, <2>5, SequenceOf
    <3> QED
      BY <3>1, <3>2
  <2>1. ss \in Seq(Seq(T))
    BY <2>6 DEF S
  <2>2. vs \in Seq(Seq(Truths))
    BY <2>6 DEF V
  <2>3. Len(ss) = n /\ Len(vs) = n
    BY <1>3, <1>6, <2>1, <2>2
  <2>4. ss # <<>>
    BY <1>3, <2>1, <2>3
  <2> QED
    BY <2>1, <2>2, <2>3, <2>4
<1>8. PartsOf(rule, op, ss, vs, x)
  BY <1>4, <1>5, <1>7 DEF PartsOf
<1>9. /\ rule.items \in Seq(T)
      /\ Len(ss[1]) <= Len(rule.items)
  <2>1. rule.items \in Seq(T)
    BY <1>5, <1>7, FlattenSeqMeans
  <2>2. /\ Offset(ss, 1) = 0 /\ Offset(ss, 1 + 1) = Offset(ss, 1) + Len(ss[1])
        /\ Offset(ss, 1 + 1) <= Len(FlattenSeq(ss))
    <3>1. 1 \in 1 .. Len(ss)
      BY <1>3, <1>7
    <3> QED
      BY <1>7, <3>1, FlattenSeqMeans
  <2>3. Len(ss[1]) \in Nat
    BY <1>3, <1>4
  <2> QED
    BY <1>5, <2>1, <2>2, <2>3
<1>10. IsForm(rule)
  <2>1. T \in SUBSET Items /\ \A item \in T : item.kind = "row" => Len(item.conditions) = 1
    BY DEF T, RowItems
  <2>2. Len(ss[1]) \in Nat /\ Len(ss[1]) # 0
    <3>1. ss[1] \in Seq(T) /\ ss[1] # <<>>
      BY <1>3, <1>4
    <3> QED
      BY <3>1
  <2>3. rule.items \in Seq(Items) /\ rule.items # <<>>
    BY <1>9, <2>1, <2>2
  <2>4. \A i \in DOMAIN rule.items : rule.items[i] \in T
    BY <1>9
  <2>5. rule.combinator \in COMBINATORS
    BY <1>5 DEF op
  <2> QED
    BY <2>1, <2>3, <2>4, <2>5 DEF IsForm
<1>11. /\ reads[1] = Verdict(EvalNode(RuleToCondition(rule), x))
       /\ \A k \in 1 .. Len(rule.items) : reads[k] = ReadsFrom(rule, k, x, reads)
  <2>1. DOMAIN rule.items = 1 .. Len(rule.items)
    BY <1>9
  <2> QED
    BY <1>10, <2>1, RuleMeans DEF reads
<1>12. reads[1] = Verdict(EvalBoolChain(op, [i \in DOMAIN vs |-> EvalBoolChain("and", vs[i])]))
  <2>1. op \in COMBINATORS
    BY DEF op
  <2>2. JoinedBy(T, op)
    BY DEF T, RowItems, JoinedBy
  <2>3. ReadsThrough(rule, x, reads)
    BY <1>11 DEF ReadsThrough
  <2> QED
    BY <1>7, <1>8, <2>1, <2>2, <2>3, ReadsOfParts
<1>13. EvalNode(c, x) = EvalBoolChain(op, [i \in DOMAIN vs |-> EvalBoolChain("and", vs[i])])
  <2>1. EvalNode(c, x) = EvalBoolChain(op, [i \in DOMAIN c.args |-> EvalNode(c.args[i], x)])
    <3>1. \A i \in DOMAIN c.args : Flat(c.args[i], 3)
      BY <1>3, <1>4
    <3> QED
      BY <1>1, <3>1, CombinationMeans DEF op
  <2>2. [i \in DOMAIN c.args |-> EvalNode(c.args[i], x)]
          = [i \in DOMAIN vs |-> EvalBoolChain("and", vs[i])]
    BY <1>3, <1>4, <1>6
  <2> QED
    BY <2>1, <2>2
<1>14. c.op \in Ops
  BY DEF COMBINATORS, Ops
<1> QED
  BY <1>10, <1>11, <1>12, <1>13, <1>14 DEF RoundTrips, rule

LEMMA LeafFormRoundTrip ==
    ASSUME NEW c, IsEditableLeaf(c), Proper(c, 5), NEW x, IsContext(x)
    PROVE  RoundTrips(c, x)
<1> DEFINE item == ConditionToItem(c, Undefined)
    rule == ConditionToRule(c)
    reads == Reads(rule, x)
    v == EvalNode(c, x)
<1>1. Proper(c, 4) /\ Proper(c, 3)
  <2>1. 4 \in 0 .. MaxHeight /\ 3 \in 0 .. MaxHeight
    BY HeightAssumption
  <2>2. (\A k \in 0 .. 4 : k \in 0 .. 5) /\ (\A k \in 0 .. 3 : k \in 0 .. 5)
    OBVIOUS
  <2> QED
    BY <2>1, <2>2 DEF Proper
<1>2. c.op \notin COMBINATORS /\ c.op \in OPERATORS \cup {"!"}
  <2>1. c.op \in OPERATORS \cup {"!"}
    BY Zenon DEF IsEditableLeaf
  <2> QED
    BY <2>1, Zenon DEF COMBINATORS, OPERATORS
<1>3. /\ item \in Items /\ (item.kind = "row" => Len(item.conditions) = 1)
      /\ item.connector = Undefined /\ ItemReads(item, x) = Verdict(v) /\ v \in Truths
  <2>1. Undefined \in COMBINATORS \cup {Undefined}
    OBVIOUS
  <2> QED
    BY <1>1, <2>1, ItemRoundTrip
<1>4. rule = [combinator |-> "and", items |-> <<item>>]
  BY <1>2 DEF ConditionToRule, ConditionToItem, IsCombinatorGroup
<1> HIDE DEF item, rule, reads, v
<1>5. rule.combinator = "and" /\ rule.items = <<item>>
  BY <1>4
<1>6. Len(rule.items) = 1 /\ rule.items[1] = item /\ DOMAIN rule.items = {1}
      /\ rule.items \in Seq(Items) \ {<<>>}
  BY <1>3, <1>5
<1>7. IsForm(rule)
  <2>1. "and" \in COMBINATORS
    BY DEF COMBINATORS
  <2> QED
    BY <1>3, <1>5, <1>6, <2>1 DEF IsForm
<1>8. reads[1] = Verdict(EvalNode(RuleToCondition(rule), x)) /\ reads[1] = ReadsFrom(rule, 1, x, reads)
  BY <1>6, <1>7, RuleMeans DEF reads
<1>9. Alternatives(rule, 1) = {}
  <2>1. Alternatives(rule, 1) \subseteq 1 + 1 .. 1
    BY <1>6 DEF Alternatives
  <2> QED
    BY <2>1
<1>10. Verdict(v) \in {"yes", "no", "error"}
  BY <1>3, Verdicts, Zenon DEF Truths
<1>11. ReadsFrom(rule, 1, x, reads) = Verdict(v)
  BY <1>3, <1>6, <1>9, <1>10 DEF ReadsFrom
<1>12. c.op \in Ops
  BY <1>2, Zenon DEF Ops
<1> QED
  BY <1>7, <1>8, <1>11, <1>12 DEF RoundTrips, rule, v

\* A condition that can be edited is shown as it is.
LEMMA EditableRoundTrip ==
    ASSUME NEW c, IsEditableCondition(c), Proper(c, 5), NEW x, IsContext(x)
    PROVE  RoundTrips(c, x)
<1>1. CASE IsEditableLeaf(c)
  BY <1>1, LeafFormRoundTrip
<1>2. CASE ~IsEditableLeaf(c)
  <2>1. c.op \in COMBINATORS /\ c.args # <<>>
    BY <1>2 DEF IsEditableCondition, IsCombinatorGroup
  <2>2. \A i \in DOMAIN c.args : IsEditableLeaf(c.args[i]) \/ IsGroup(c.args[i])
    BY <1>2 DEF IsEditableCondition, IsGroup
  <2> QED
    BY <2>1, <2>2, GroupRoundTrip
<1> QED
  BY <1>1, <1>2

LEMMA PieceIsText == \A p \in Piece : Text(p) \in Texts
BY DEF Text, Texts

LEMMA BlankIsLeaf == BlankLeaf \in Leaves
<1>1. Text("") \in Texts
  BY TextAssumption, PieceIsText, Zenon
<1>2. "==" \in OPERATORS
  BY Zenon DEF OPERATORS
<1>3. \A t \in Texts, op \in OPERATORS : Leaf(t, op, t, FALSE) \in Leaves
  BY DEF Leaf, Leaves
<1> QED
  BY <1>1, <1>2, <1>3, Zenon DEF BlankLeaf

LEMMA RowIsItem ==
    ASSUME NEW leaf \in Leaves, NEW connector \in COMBINATORS \cup {Undefined}
    PROVE  Row(leaf, connector) \in Items /\ Len(Row(leaf, connector).conditions) = 1
<1>1. <<leaf>> \in Seq(Leaves) \ {<<>>} /\ Len(<<leaf>>) = 1 /\ "and" \in COMBINATORS
  BY DEF COMBINATORS
<1> QED
  BY <1>1 DEF Row, Item, Items

\* Whatever is opened, the page has a form.
LEMMA ParsedIsForm ==
    ASSUME NEW c, Proper(c, 5)
    PROVE  IsForm(ParsedForm(c))
<1>1. CASE IsEditableCondition(c)
  <2> DEFINE x == [a \in {} |-> Nil]
  <2>1. IsContext(x)
    BY DEF IsContext
  <2> HIDE DEF x
  <2>2. RoundTrips(c, x)
    BY <1>1, <2>1, EditableRoundTrip
  <2> QED
    BY <1>1, <2>2 DEF RoundTrips, ParsedForm
<1>2. CASE ~IsEditableCondition(c)
  <2> DEFINE row == Row(BlankLeaf, Undefined)
  <2>1. row \in Items /\ Len(row.conditions) = 1
    BY BlankIsLeaf, RowIsItem
  <2>2. ParsedForm(c) = [combinator |-> "and", items |-> <<row>>]
    BY <1>2 DEF ParsedForm
  <2> HIDE DEF row
  <2>3. <<row>> \in Seq(Items) \ {<<>>} /\ \A i \in DOMAIN <<row>> : <<row>>[i] = row
    BY <2>1
  <2>4. "and" \in COMBINATORS
    BY DEF COMBINATORS
  <2>5. ParsedForm(c).combinator = "and" /\ ParsedForm(c).items = <<row>>
    BY <2>2
  <2> QED
    BY <2>1, <2>3, <2>4, <2>5 DEF IsForm
<1> QED
  BY <1>1, <1>2

\* Saving what has just been opened says what was opened.
LEMMA UneditedKeeps ==
    ASSUME Proper(fetched, 5)
    PROVE  UneditedSaveKeepsMeaning
<1> SUFFICES ASSUME form = ParsedForm(fetched), raw = ParsedRaw(fetched),
                    fetched \notin {NoCondition, NullCondition}, NEW x \in Context
             PROVE  Outcome(Payload, x) = Outcome(fetched, x)
  BY DEF UneditedSaveKeepsMeaning
<1>1. IsContext(x)
  BY ContextAssumption DEF IsContext
<1>2. CASE IsEditableCondition(fetched)
  <2>1. raw = <<>> /\ form = ConditionToRule(fetched)
    BY <1>2 DEF ParsedRaw, ParsedForm
  <2>2. Payload = RuleToCondition(ConditionToRule(fetched))
    BY <2>1 DEF Payload
  <2>3. /\ IsForm(ConditionToRule(fetched)) /\ fetched.op \in Ops
        /\ Verdict(EvalNode(Payload, x)) = Verdict(EvalNode(fetched, x))
    BY <1>1, <1>2, <2>2, EditableRoundTrip DEF RoundTrips
  <2>4. Payload.op \in Ops
    BY <1>1, <2>2, <2>3, RuleMeans
  <2>5. Payload.op # "none" /\ fetched.op # "none"
    BY <2>3, <2>4, Zenon DEF Ops, OPERATORS
  <2> QED
    BY <2>3, <2>5, OutcomeIsVerdict
<1>3. CASE ~IsEditableCondition(fetched)
  <2>1. raw = <<fetched>>
    BY <1>3 DEF ParsedRaw
  <2>2. \A a, b : <<a>> = <<b>> => a = b
    OBVIOUS
  <2>3. raw \notin {<<>>, <<NoCondition>>, <<NullCondition>>}
    <3>1. <<fetched>> # <<>>
      OBVIOUS
    <3> HIDE DEF NoCondition, NullCondition
    <3> QED
      BY <2>1, <2>2, <3>1
  <2>4. Payload = fetched
    BY <2>1, <2>3 DEF Payload
  <2> QED
    BY <2>4
<1> QED
  BY <1>2, <1>3

-----------------------------------------------------------------------------
(* The conditions that the page makes are conditions.                      *)

\* A tree of at most that height whose nodes are as JSON documents have them.
Sound(node, h) == Flat(node, h) /\ Proper(node, h)

LEMMA SoundBare ==
    ASSUME NEW node, node.args = <<>>, IsNode(node), NEW h \in 0 .. MaxHeight
    PROVE  Sound(node, h)
<1>0. MaxHeight \in Nat
  BY HeightAssumption
<1>1. Below(node)[0] = {node}
  BY BelowEquation
<1>2. ASSUME NEW k \in 0 .. h, k # 0 PROVE Below(node)[k] = {}
  <2>1. k - 1 \in 0 .. MaxHeight - 1 /\ (k - 1) + 1 = k
    BY <1>0, <1>2
  <2>2. Below(node)[(k - 1) + 1] = UNION {Below(a)[k - 1] : a \in ToSet(node.args)}
    BY <2>1, BelowArguments
  <2>3. ToSet(node.args) = {}
    BY DEF ToSet
  <2> QED
    BY <2>1, <2>2, <2>3
<1> QED
  BY <1>1, <1>2, FlatArguments DEF Sound, Proper

LEMMA SoundNext ==
    ASSUME NEW node, NEW h \in 0 .. MaxHeight - 1, Sound(node, h)
    PROVE  Sound(node, h + 1)
<1>0. MaxHeight \in Nat /\ h + 1 \in 0 .. MaxHeight
  BY HeightAssumption
<1>1. Flat(node, h + 1)
  BY FlatNext DEF Sound
<1>2. Below(node)[h + 1] = UNION {ToSet(n.args) : n \in Below(node)[h]}
  BY BelowEquation
<1>3. Below(node)[h + 1] = {}
  BY <1>2 DEF Sound, Flat, ToSet
<1>4. \A k \in 0 .. h + 1 : k \in 0 .. h \/ k = h + 1
  BY <1>0
<1> QED
  BY <1>0, <1>1, <1>3, <1>4 DEF Sound, Proper

LEMMA SoundArguments ==
    ASSUME NEW node, NEW h \in 0 .. MaxHeight - 1, IsNode(node),
           \A a \in ToSet(node.args) : Sound(a, h)
    PROVE  Sound(node, h + 1)
<1>0. MaxHeight \in Nat /\ h + 1 \in 0 .. MaxHeight /\ h + 1 > 0 /\ (h + 1) - 1 = h
  BY HeightAssumption
<1>1. Flat(node, h + 1)
  BY <1>0, FlatArguments DEF Sound
<1>2. Below(node)[0] = {node}
  BY BelowEquation
<1>3. ASSUME NEW k \in 0 .. h + 1, k # 0, NEW n \in Below(node)[k] PROVE IsNode(n)
  <2>1. k - 1 \in 0 .. MaxHeight - 1 /\ (k - 1) + 1 = k /\ k - 1 \in 0 .. h
    BY <1>0, <1>3
  <2>2. Below(node)[(k - 1) + 1] = UNION {Below(a)[k - 1] : a \in ToSet(node.args)}
    BY <2>1, BelowArguments
  <2>3. PICK a \in ToSet(node.args) : n \in Below(a)[k - 1]
    BY <2>1, <2>2
  <2> QED
    BY <2>1, <2>3 DEF Sound, Proper
<1> QED
  BY <1>0, <1>1, <1>2, <1>3 DEF Sound, Proper

\* What an operator is applied to is one level lower.
LEMMA SoundApply ==
    ASSUME NEW op \in Ops, NEW h \in 0 .. MaxHeight - 1, NEW P, \A node \in P : Sound(node, h),
           NEW nodes \in Seq(P)
    PROVE  Sound(Apply(op, nodes), h + 1)
<1> DEFINE node == Apply(op, nodes)
<1>1. node.op = op /\ node.args = nodes /\ node.value = Nil
  BY DEF Apply, Node
<1>2. Nil.items = <<>> /\ Nil.type = "nil"
  BY DEF Nil, Value
<1>3. op # "literal"
  BY Zenon DEF Ops, OPERATORS
<1>4. \A n \in ToSet(nodes) : n \in P
  BY DEF ToSet
<1>5. nodes \in Seq(ToSet(nodes))
  BY DEF ToSet
<1>6. <<>> \in Seq(ToSet(<<>>)) /\ ToSet(<<>>) = {}
  BY DEF ToSet
<1>7. IsNode(node)
  BY <1>1, <1>2, <1>3, <1>5, <1>6 DEF IsNode
<1> QED
  BY <1>1, <1>4, <1>7, SoundArguments

\* The condition of a leaf.
LEMMA LeafSound ==
    ASSUME NEW leaf \in Leaves
    PROVE  Sound(LeafToCondition(leaf), 2)
<1> DEFINE var == Var(leaf.attribute)
    value == Operand(leaf)
    literal == Literal(value)
    inner == Apply(leaf.operator, <<var, literal>>)
    node == LeafToCondition(leaf)
<1>0. /\ {0, 1, 2} \subseteq 0 .. MaxHeight /\ {0, 1} \subseteq 0 .. MaxHeight - 1
      /\ 0 + 1 = 1 /\ 1 + 1 = 2
  BY HeightAssumption
<1>1. /\ leaf.attribute \in Texts /\ leaf.operator \in OPERATORS /\ leaf.value \in Texts
      /\ leaf.negate \in BOOLEAN
  BY DEF Leaves
<1>2. leaf.operator \in Ops /\ "!" \in Ops
  BY <1>1, Zenon DEF Ops
<1>3. node = IF leaf.negate THEN Apply("!", <<inner>>) ELSE inner
  BY Zenon DEF LeafToCondition, Operand, ListOf
<1>4. <<>> \in Seq(ToSet(<<>>)) /\ ToSet(<<>>) = {}
  BY DEF ToSet
<1>5. \A t : Str(t).items = <<>> /\ Str(t).type = "string" /\ Str(t).text = t
  BY DEF Str, Value
<1>6. Sound(var, 0)
  <2>1. var.args = <<>> /\ var.value = Str(leaf.attribute) /\ var.op = "var"
    BY DEF Var, Node
  <2> HIDE DEF var
  <2>2. IsNode(var)
    BY <1>1, <1>4, <1>5, <2>1 DEF IsNode
  <2> QED
    BY <1>0, <2>1, <2>2, SoundBare
<1>7. Sound(literal, 0)
  <2>1. literal.args = <<>> /\ literal.value = value /\ literal.op = "literal"
    BY DEF Literal, Node
  <2>2. value.items \in Seq(ToSet(value.items))
        /\ \A v \in {value} \cup ToSet(value.items) : v.type = "string" => v.text \in Texts
    <3>1. CASE leaf.operator \in ListOperators
      <4> DEFINE items == [i \in DOMAIN leaf.value |-> Str(Text(Trim[leaf.value[i]]))]
          n == Len(leaf.value)
      <4>1. value = ListOf(leaf)
        BY <3>1, Zenon DEF Operand, ListOperators
      <4>2. value.items = items /\ value.type = "list"
        BY <4>1 DEF ListOf, List, Value
      <4>3. \A i \in DOMAIN leaf.value : leaf.value[i] \in Piece
        BY <1>1 DEF Texts
      <4>4. \A i \in DOMAIN leaf.value : Text(Trim[leaf.value[i]]) \in Texts
        BY <4>3, TextAssumption, PieceIsText, Zenon
      <4>5. n \in Nat /\ DOMAIN leaf.value = 1 .. n
        BY <1>1 DEF Texts
      <4>6. items = [i \in 1 .. n |-> items[i]]
            /\ \A i \in 1 .. n : items[i].type = "string" /\ items[i].text \in Texts
        BY <1>5, <4>4, <4>5
      <4> HIDE DEF items, n, value
      <4>7. DOMAIN items = 1 .. n
        BY <4>6
      <4>8. \A i \in 1 .. n : items[i] \in ToSet(items)
        BY <4>7 DEF ToSet
      <4>9. items \in Seq(ToSet(items))
        BY <4>5, <4>6, <4>8, SequenceOf
      <4>10. \A v \in ToSet(items) : v.text \in Texts
        BY <4>6, <4>7 DEF ToSet
      <4> QED
        BY <4>2, <4>9, <4>10
    <3>2. CASE leaf.operator \notin ListOperators
      <4>1. value = Str(leaf.value)
        BY <3>2, Zenon DEF Operand, ListOperators
      <4> HIDE DEF value
      <4> QED
        BY <1>1, <1>4, <1>5, <4>1
    <3> QED
      BY <3>1, <3>2
  <2> HIDE DEF literal, value
  <2>3. IsNode(literal)
    BY <1>4, <2>1, <2>2 DEF IsNode
  <2> QED
    BY <1>0, <2>1, <2>3, SoundBare
<1> HIDE DEF var, literal, node, value
<1>8. Sound(inner, 0 + 1)
  <2>1. <<var, literal>> \in Seq({var, literal})
    OBVIOUS
  <2>2. \A n \in {var, literal} : Sound(n, 0)
    BY <1>6, <1>7
  <2> QED
    BY <1>0, <1>2, <2>1, <2>2, SoundApply
<1> HIDE DEF inner
<1>9. CASE leaf.negate
  <2>1. <<inner>> \in Seq({inner}) /\ \A n \in {inner} : Sound(n, 1)
    BY <1>0, <1>8
  <2>2. Sound(Apply("!", <<inner>>), 1 + 1)
    BY <1>0, <1>2, <2>1, SoundApply
  <2> QED
    BY <1>0, <1>3, <1>9, <2>2 DEF node
<1>10. CASE ~leaf.negate
  <2>1. Sound(inner, 1 + 1)
    BY <1>0, <1>8, SoundNext
  <2> QED
    BY <1>0, <1>3, <1>10, <2>1 DEF node
<1> QED
  BY <1>9, <1>10

LEMMA ItemSound ==
    ASSUME NEW item, IsItem(item)
    PROVE  Sound(ItemToCondition(item), 3)
<1> DEFINE leaves == item.conditions
    n == Len(leaves)
    nodes == [i \in DOMAIN leaves |-> LeafToCondition(leaves[i])]
    P == {LeafToCondition(leaf) : leaf \in Leaves}
<1>0. 2 \in 0 .. MaxHeight - 1 /\ 2 + 1 = 3
  BY HeightAssumption
<1>1. leaves \in Seq(Leaves) /\ leaves # <<>> /\ item.combinator \in Ops
  BY DEF IsItem, COMBINATORS, Ops
<1>2. \A node \in P : Sound(node, 2)
  BY LeafSound
<1>3. n \in Nat /\ n # 0 /\ DOMAIN leaves = 1 .. n /\ Head(leaves) = leaves[1]
  BY <1>1
<1>4. \A i \in 1 .. n : LeafToCondition(leaves[i]) \in P
  BY <1>1, <1>3
<1>5. nodes = [i \in 1 .. n |-> nodes[i]] /\ \A i \in 1 .. n : nodes[i] \in P
  BY <1>3, <1>4
<1>6. nodes \in Seq(P)
  <2> HIDE DEF nodes, P, n
  <2> QED
    BY <1>3, <1>5, SequenceOf
<1>7. CASE item.kind = "group"
  <2>1. ItemToCondition(item) = Apply(item.combinator, nodes)
    BY <1>7 DEF ItemToCondition
  <2> HIDE DEF nodes, P
  <2>2. Sound(Apply(item.combinator, nodes), 2 + 1)
    BY <1>0, <1>1, <1>2, <1>6, SoundApply
  <2> QED
    BY <1>0, <2>1, <2>2
<1>8. CASE item.kind # "group"
  <2>1. ItemToCondition(item) = LeafToCondition(leaves[1])
    BY <1>3, <1>8 DEF ItemToCondition
  <2>2. Sound(LeafToCondition(leaves[1]), 2)
    BY <1>2, <1>3, <1>4
  <2>3. Sound(LeafToCondition(leaves[1]), 2 + 1)
    BY <1>0, <2>2, SoundNext
  <2> QED
    BY <1>0, <2>1, <2>3
<1> QED
  BY <1>7, <1>8

LEMMA JoinedSound ==
    ASSUME NEW op \in COMBINATORS, NEW h \in 0 .. MaxHeight - 1, NEW P,
           \A node \in P : Sound(node, h), NEW nodes \in Seq(P), nodes # <<>>
    PROVE  Sound(Joined(op, nodes), h + 1)
<1>1. op \in Ops
  BY DEF COMBINATORS, Ops
<1>2. CASE Len(nodes) = 1
  <2>1. Joined(op, nodes) = nodes[1] /\ nodes[1] \in P
    BY <1>2 DEF Joined
  <2> QED
    BY <2>1, SoundNext
<1>3. CASE Len(nodes) # 1
  <2>1. Joined(op, nodes) = Apply(op, nodes)
    BY <1>3 DEF Joined
  <2> QED
    BY <1>1, <2>1, SoundApply
<1> QED
  BY <1>2, <1>3

\* The condition of a form is one.
LEMMA RuleSound ==
    ASSUME NEW rule, IsForm(rule)
    PROVE  Proper(RuleToCondition(rule), 5)
<1> DEFINE n == Len(rule.items)
    P == {ItemToCondition(rule.items[i]) : i \in 1 .. n}
    runs == Segments(rule)[1]
    m == Len(runs)
    nodes == [k \in DOMAIN runs |-> Joined("and", runs[k])]
    Q == {node \in {Joined("and", run) : run \in Seq(P) \ {<<>>}} : Sound(node, 4)}
<1>0. /\ 3 \in 0 .. MaxHeight - 1 /\ 4 \in 0 .. MaxHeight - 1 /\ 3 + 1 = 4 /\ 4 + 1 = 5
      /\ "and" \in COMBINATORS /\ "or" \in COMBINATORS
  BY HeightAssumption DEF COMBINATORS
<1>1. n \in Nat /\ n > 0 /\ DOMAIN rule.items = 1 .. n /\ \A i \in 1 .. n : rule.items[i] \in Items
  BY DEF IsForm
<1>2. \A i \in 1 .. n : IsItem(rule.items[i])
  BY <1>1 DEF IsForm, IsItem, Items
<1>3. \A node \in P : Sound(node, 3)
  BY <1>2, ItemSound
<1>4. IsRule(rule, n, P)
  BY <1>1 DEF IsRule
<1> HIDE DEF P, n
<1>5. runs \in Seq(Seq(P) \ {<<>>}) /\ runs # <<>>
  <2>1. 1 \in 1 .. n
    BY <1>1
  <2> QED
    BY <1>4, <2>1, RunsOfSegments
<1> HIDE DEF runs
<1>6. \A run \in Seq(P) \ {<<>>} : Sound(Joined("and", run), 3 + 1)
  BY <1>0, <1>3, JoinedSound
<1>7. \A run \in Seq(P) \ {<<>>} : Joined("and", run) \in Q
  BY <1>0, <1>6
<1>8. m \in Nat /\ m # 0 /\ DOMAIN runs = 1 .. m /\ \A k \in 1 .. m : runs[k] \in Seq(P) \ {<<>>}
  BY <1>5
<1>9. nodes = [k \in 1 .. m |-> nodes[k]] /\ \A k \in 1 .. m : nodes[k] \in Q
  BY <1>7, <1>8
<1>10. \A node \in Q : Sound(node, 4)
  OBVIOUS
<1> HIDE DEF nodes, m, Q
<1>11. nodes \in Seq(Q) /\ nodes # <<>>
  <2>1. nodes \in Seq(Q) /\ Len(nodes) = m
    BY <1>8, <1>9, SequenceOf
  <2> QED
    BY <1>8, <2>1
<1>12. Sound(Joined("or", nodes), 4 + 1)
  BY <1>0, <1>10, <1>11, JoinedSound
<1>13. RuleToCondition(rule) = Joined("or", nodes)
  BY RuleToConditionOfSegments DEF nodes, runs
<1> QED
  BY <1>0, <1>12, <1>13 DEF Sound

-----------------------------------------------------------------------------
(* The rows keep their types.                                              *)

\* The rows of a form, and the invariant of the targeting part of the page: what is
\* stored, shown and sent are conditions.
AreRows(items) ==
    /\ items \in Seq(Items) \ {<<>>}
    /\ \A i \in DOMAIN items : items[i].kind = "row" => Len(items[i].conditions) = 1

RowsInv ==
    /\ RowsTypeOK
    /\ Proper(stored, 5) /\ Proper(fetched, 5)
    /\ saving = <<>> \/ (saving = <<Head(saving)>> /\ Proper(Head(saving), 5))

LEMMA RowsAreForm ==
    ASSUME RowsTypeOK
    PROVE  IsForm(form) /\ AreRows(form.items)
BY DEF RowsTypeOK, IsForm, AreRows

LEMMA ParsedIsTyped ==
    ASSUME NEW c, Proper(c, 5)
    PROVE  /\ ParsedForm(c) \in [combinator : COMBINATORS, items : Seq(Items) \ {<<>>}]
           /\ AreRows(ParsedForm(c).items) /\ ParsedRaw(c) \in {<<>>, <<c>>}
<1>1. IsForm(ParsedForm(c))
  BY ParsedIsForm
<1>2. \E op, items : ParsedForm(c) = [combinator |-> op, items |-> items]
  BY Zenon DEF ParsedForm, ConditionToRule
<1>3. ParsedForm(c) \in [combinator : COMBINATORS, items : Seq(Items) \ {<<>>}]
  BY <1>1, <1>2 DEF IsForm
<1> QED
  BY <1>1, <1>3 DEF IsForm, AreRows, ParsedRaw

LEMMA EditKeepsRows ==
    ASSUME RowsInv, NEW items, AreRows(items), EditRows(items)
    PROVE  RowsInv'
<1>1. form' \in [combinator : COMBINATORS, items : Seq(Items) \ {<<>>}] /\ form'.items = items
  BY DEF RowsInv, RowsTypeOK, EditRows, AreRows
<1>2. edits' \in 0 .. MaxEdits
  BY BoundAssumption DEF RowsInv, RowsTypeOK, EditRows
<1>3. RowsTypeOK'
  BY <1>1, <1>2 DEF RowsInv, RowsTypeOK, EditRows, AreRows
<1> QED
  BY <1>3 DEF RowsInv, EditRows

LEMMA AppendedRows ==
    ASSUME NEW items, AreRows(items), NEW item \in Items,
           item.kind = "row" => Len(item.conditions) = 1
    PROVE  AreRows(Append(items, item))
<1> DEFINE new == Append(items, item)   n == Len(items)
<1>1. items \in Seq(Items) /\ n \in Nat
  BY DEF AreRows
<1>2. new \in Seq(Items) /\ Len(new) = n + 1 /\ DOMAIN new = 1 .. n + 1
  BY <1>1
<1>3. \A i \in 1 .. n + 1 : new[i] = IF i = n + 1 THEN item ELSE items[i]
  BY <1>1
<1>4. \A i \in 1 .. n + 1 : i = n + 1 \/ i \in DOMAIN items
  BY <1>1
<1>5. new # <<>>
  BY <1>1, <1>2
<1> HIDE DEF new, n
<1> QED
  BY <1>2, <1>3, <1>4, <1>5 DEF AreRows, new

LEMMA ReplacedRow ==
    ASSUME NEW items, AreRows(items), NEW i \in DOMAIN items, NEW item \in Items,
           item.kind = "row" => Len(item.conditions) = 1
    PROVE  AreRows([items EXCEPT ![i] = item])
<1> DEFINE new == [items EXCEPT ![i] = item]   n == Len(items)
<1>1. items \in Seq(Items) /\ n \in Nat /\ n # 0 /\ DOMAIN items = 1 .. n
  BY DEF AreRows
<1>2. DOMAIN new = DOMAIN items /\ \A j \in DOMAIN items : new[j] = IF j = i THEN item ELSE items[j]
  BY <1>1
<1>3. new \in Seq(Items) /\ Len(new) = n
  BY <1>1
<1>4. new # <<>>
  BY <1>1, <1>3
<1> HIDE DEF new, n
<1> QED
  BY <1>2, <1>3, <1>4 DEF AreRows, new

\* RemoveAt removes one element.
LEMMA RemoveAtMeans ==
    ASSUME NEW T, NEW s \in Seq(T), NEW i \in 1 .. Len(s)
    PROVE  /\ RemoveAt(s, i) \in Seq(T) /\ Len(RemoveAt(s, i)) = Len(s) - 1
           /\ \A j \in 1 .. Len(s) - 1 :
                 RemoveAt(s, i)[j] = IF j < i THEN s[j] ELSE s[j + 1]
<1> DEFINE a == SubSeq(s, 1, i - 1)   b == SubSeq(s, i + 1, Len(s))   n == Len(s)
<1>1. n \in Nat /\ i \in Nat /\ i >= 1 /\ i <= n
  OBVIOUS
<1>2. /\ a \in Seq(T) /\ Len(a) = i - 1 /\ \A j \in 1 .. i - 1 : a[j] = s[j]
      /\ b \in Seq(T) /\ Len(b) = n - i /\ \A j \in 1 .. n - i : b[j] = s[i + j]
  OBVIOUS
<1>3. RemoveAt(s, i) = a \o b
  BY DEF RemoveAt
<1> HIDE DEF a, b, n
<1>4. /\ a \o b \in Seq(T) /\ Len(a \o b) = n - 1
      /\ \A j \in 1 .. n - 1 : (a \o b)[j] = IF j < i THEN a[j] ELSE b[j - (i - 1)]
  <2> DEFINE p == Len(a)   q == Len(b)   c == a \o b
  <2>1. /\ c \in Seq(T) /\ Len(c) = p + q
        /\ \A j \in 1 .. p + q : c[j] = IF j <= p THEN a[j] ELSE b[j - p]
    BY <1>2, ConcatProperties
  <2>2. p = i - 1 /\ q = n - i
    BY <1>2
  <2> HIDE DEF p, q, c
  <2>3. p + q = n - 1 /\ \A j \in 1 .. n - 1 : j <= p <=> j < i
    BY ONLY <1>1, <2>2, i \in Nat
  <2> QED
    BY <2>1, <2>2, <2>3 DEF c
<1>5. ASSUME NEW j \in 1 .. n - 1
      PROVE  (a \o b)[j] = IF j < i THEN s[j] ELSE s[j + 1]
  <2>1. CASE j < i
    BY <1>1, <1>2, <1>4, <2>1
  <2>2. CASE j >= i
    <3>1. j - (i - 1) \in 1 .. n - i /\ i + (j - (i - 1)) = j + 1
      BY <1>1, <2>2
    <3> QED
      BY <1>1, <1>2, <1>4, <2>2, <3>1
  <2>3. j < i \/ j >= i
    BY <1>1
  <2> QED
    BY <2>1, <2>2, <2>3
<1> QED
  BY <1>3, <1>4, <1>5 DEF n

\* What the fields of a comparison make of it.
LEMMA PatchedLeaves ==
    ASSUME NEW leaf \in Leaves, NEW new \in Patched(leaf)
    PROVE  new \in Leaves
<1>1. leaf = [attribute |-> leaf.attribute, operator |-> leaf.operator,
              value |-> leaf.value, negate |-> leaf.negate]
      /\ leaf.attribute \in Texts /\ leaf.operator \in OPERATORS /\ leaf.value \in Texts
      /\ leaf.negate \in BOOLEAN
  BY DEF Leaves
<1>2. "==" \in OPERATORS
  BY Zenon DEF OPERATORS
<1> DEFINE blank == Text("")
<1>3. \/ new = [leaf EXCEPT !.negate = ~@]
      \/ \E op \in Tried : new = [leaf EXCEPT !.operator = op]
      \/ \E value \in Typed : new = [leaf EXCEPT !.value = value]
      \/ \E attribute \in Attribute :
            new = [leaf EXCEPT !.attribute = attribute, !.value = blank, !.operator = "=="]
  BY Zenon DEF Patched
<1>4. blank \in Texts
  BY TextAssumption, PieceIsText, Zenon
<1> HIDE DEF blank
<1>5. CASE new = [leaf EXCEPT !.negate = ~@]
  BY <1>1, <1>5 DEF Leaves
<1>6. CASE \E op \in Tried : new = [leaf EXCEPT !.operator = op]
  BY <1>1, <1>6, TriedAssumption DEF Leaves
<1>7. CASE \E value \in Typed : new = [leaf EXCEPT !.value = value]
  <2>1. Typed \subseteq Texts
    BY TextAssumption, Zenon
  <2> QED
    BY <1>1, <1>7, <2>1 DEF Leaves
<1>8. CASE \E attribute \in Attribute :
              new = [leaf EXCEPT !.attribute = attribute, !.value = blank, !.operator = "=="]
  <2>1. Attribute \subseteq Texts
    BY TextAssumption, Zenon
  <2> QED
    BY <1>1, <1>2, <1>4, <1>8, <2>1 DEF Leaves
<1> QED
  BY <1>3, <1>5, <1>6, <1>7, <1>8, Zenon

\* Every edit of the rows leaves rows.
LEMMA EditsKeepRows ==
    ASSUME RowsInv, EditsRows
    PROVE  RowsInv'
<1> DEFINE items == form.items
<1>1. AreRows(items) /\ form.combinator \in COMBINATORS
  BY RowsAreForm DEF RowsInv, IsForm
<1>2. ASSUME NEW i \in DOMAIN items
      PROVE  /\ items[i] \in Items /\ (items[i].kind = "row" => Len(items[i].conditions) = 1)
             /\ items[i] = [kind |-> items[i].kind, combinator |-> items[i].combinator,
                            conditions |-> items[i].conditions, connector |-> items[i].connector]
             /\ items[i].kind \in {"row", "group"} /\ items[i].combinator \in COMBINATORS
             /\ items[i].conditions \in Seq(Leaves) /\ items[i].conditions # <<>>
             /\ items[i].connector \in COMBINATORS \cup {Undefined}
  <2>1. items[i] \in Items /\ (items[i].kind = "row" => Len(items[i].conditions) = 1)
    BY <1>1 DEF AreRows
  <2> HIDE DEF items
  <2> QED
    BY <2>1 DEF Items
<1>3. ASSUME NEW new, AreRows(new), EditRows(new) PROVE RowsInv'
  BY <1>3, EditKeepsRows
<1>4. ASSUME NEW i \in DOMAIN items, NEW item \in Items,
             item.kind = "row" => Len(item.conditions) = 1,
             EditRows([items EXCEPT ![i] = item])
      PROVE  RowsInv'
  BY <1>1, <1>3, <1>4, ReplacedRow
<1>5. ASSUME AddCondition PROVE RowsInv'
  <2>1. Row(BlankLeaf, form.combinator) \in Items
        /\ Len(Row(BlankLeaf, form.combinator).conditions) = 1
    BY <1>1, BlankIsLeaf, RowIsItem
  <2> DEFINE new == Append(items, Row(BlankLeaf, form.combinator))
  <2>2. AreRows(new)
    BY <1>1, <2>1, AppendedRows
  <2>3. EditRows(new)
    BY <1>5 DEF AddCondition
  <2> HIDE DEF new
  <2> QED
    BY <1>3, <2>2, <2>3
<1>6. ASSUME AddConditionGroup PROVE RowsInv'
  <2> DEFINE item == Item("group", "and", <<BlankLeaf>>, form.combinator)
      new == Append(items, item)
  <2>1. item \in Items /\ item.kind # "row"
    <3>1. "and" \in COMBINATORS
      BY DEF COMBINATORS
    <3>2. <<BlankLeaf>> \in Seq(Leaves) \ {<<>>}
      BY BlankIsLeaf
    <3> QED
      BY <1>1, <3>1, <3>2 DEF Item, Items
  <2>2. AreRows(new)
    BY <1>1, <2>1, AppendedRows
  <2>3. EditRows(new)
    BY <1>6 DEF AddConditionGroup
  <2> HIDE DEF new
  <2> QED
    BY <1>3, <2>2, <2>3
<1>7. ASSUME NEW i \in DOMAIN items, NEW op \in COMBINATORS, UpdateConditionConnector(i, op)
      PROVE  RowsInv'
  <2> DEFINE item == [items[i] EXCEPT !.connector = op]
  <2>1. item \in Items /\ (item.kind = "row" => Len(item.conditions) = 1)
    BY <1>2 DEF Items
  <2>2. [items EXCEPT ![i].connector = op] = [items EXCEPT ![i] = item]
    OBVIOUS
  <2>3. EditRows([items EXCEPT ![i] = item])
    BY <1>7, <2>2 DEF UpdateConditionConnector
  <2> HIDE DEF item
  <2> QED
    BY <1>4, <2>1, <2>3
<1>8. ASSUME NEW i \in DOMAIN items, NEW op \in COMBINATORS, UpdateGroup(i, op)
      PROVE  RowsInv'
  <2> DEFINE item == [items[i] EXCEPT !.combinator = op]
  <2>1. item \in Items /\ (item.kind = "row" => Len(item.conditions) = 1)
    BY <1>2 DEF Items
  <2>2. [items EXCEPT ![i].combinator = op] = [items EXCEPT ![i] = item]
    OBVIOUS
  <2>3. EditRows([items EXCEPT ![i] = item])
    BY <1>8, <2>2 DEF UpdateGroup
  <2> HIDE DEF item
  <2> QED
    BY <1>4, <2>1, <2>3
<1>9. ASSUME NEW i \in DOMAIN items, AddGroupCondition(i) PROVE RowsInv'
  <2> DEFINE leaves == items[i].conditions
      new == Append(leaves, BlankLeaf)
      item == [items[i] EXCEPT !.conditions = new]
  <2>1. items[i].kind = "group" /\ EditRows([items EXCEPT ![i].conditions = new])
    BY <1>9 DEF AddGroupCondition
  <2>5. leaves \in Seq(Leaves)
    BY <1>2
  <2>2. new \in Seq(Leaves) /\ new # <<>>
    <3> HIDE DEF leaves
    <3> QED
      BY <2>5, BlankIsLeaf, AppendProperties
  <2> HIDE DEF new, leaves
  <2>3. item \in Items /\ item.kind # "row"
    BY <1>2, <2>1, <2>2 DEF Items
  <2>4. [items EXCEPT ![i].conditions = new] = [items EXCEPT ![i] = item]
    OBVIOUS
  <2> HIDE DEF item
  <2> QED
    BY <1>4, <2>1, <2>3, <2>4
<1>10. ASSUME NEW i \in DOMAIN items, RemoveCondition(i) PROVE RowsInv'
  <2> DEFINE new == RemoveAt(items, i)   n == Len(items)
  <2>1. n > 1 /\ EditRows(new)
    BY <1>10 DEF RemoveCondition
  <2>2. items \in Seq(Items) /\ n \in Nat /\ i \in 1 .. n /\ DOMAIN items = 1 .. n
    BY <1>1 DEF AreRows
  <2>3. new \in Seq(Items) /\ Len(new) = n - 1
        /\ \A j \in 1 .. n - 1 : new[j] = IF j < i THEN items[j] ELSE items[j + 1]
    BY <2>2, RemoveAtMeans
  <2> HIDE DEF new, n, items
  <2>4. DOMAIN new = 1 .. n - 1 /\ new # <<>>
    BY <2>1, <2>2, <2>3
  <2>5. \A j \in 1 .. n - 1 : j \in 1 .. n /\ j + 1 \in 1 .. n
    BY <2>2
  <2>6. \A j \in DOMAIN new : new[j].kind = "row" => Len(new[j].conditions) = 1
    <3>1. ASSUME NEW j \in 1 .. n - 1
          PROVE  new[j].kind = "row" => Len(new[j].conditions) = 1
      <4>1. new[j] = items[j] \/ new[j] = items[j + 1]
        BY <2>3
      <4>2. j \in DOMAIN items /\ j + 1 \in DOMAIN items
        BY <2>2, <2>5
      <4> QED
        BY <1>1, <4>1, <4>2 DEF AreRows
    <3> QED
      BY <2>4, <3>1
  <2>7. AreRows(new)
    BY <2>3, <2>4, <2>6 DEF AreRows
  <2> QED
    BY <1>3, <2>1, <2>7
<1>11. ASSUME NEW i \in DOMAIN items, NEW j \in DOMAIN items[i].conditions,
              RemoveGroupCondition(i, j)
       PROVE  RowsInv'
  <2> DEFINE leaves == items[i].conditions
      new == RemoveAt(leaves, j)
      item == [items[i] EXCEPT !.conditions = new]
  <2>1. items[i].kind = "group" /\ Len(leaves) > 1 /\ EditRows([items EXCEPT ![i].conditions = new])
    BY <1>11 DEF RemoveGroupCondition
  <2>7. leaves \in Seq(Leaves) /\ j \in DOMAIN leaves
    BY <1>2
  <2>2. leaves \in Seq(Leaves) /\ j \in 1 .. Len(leaves) /\ Len(leaves) \in Nat
    <3> HIDE DEF leaves
    <3> QED
      BY <2>7
  <2>3. new \in Seq(Leaves) /\ Len(new) = Len(leaves) - 1
    <3> HIDE DEF leaves
    <3> QED
      BY <2>2, RemoveAtMeans
  <2>4. new # <<>>
    <3> HIDE DEF leaves, new
    <3> QED
      BY <2>1, <2>2, <2>3
  <2> HIDE DEF new, leaves
  <2>5. item \in Items /\ item.kind # "row"
    BY <1>2, <2>1, <2>3, <2>4 DEF Items
  <2>6. [items EXCEPT ![i].conditions = new] = [items EXCEPT ![i] = item]
    OBVIOUS
  <2> HIDE DEF item
  <2> QED
    BY <1>4, <2>1, <2>5, <2>6
<1>12. ASSUME NEW i \in DOMAIN items, NEW j \in DOMAIN items[i].conditions,
              UpdateCondition(i, j)
       PROVE  RowsInv'
  <2> DEFINE leaves == items[i].conditions
  <2>1. PICK leaf \in Patched(leaves[j]) : EditRows([items EXCEPT ![i].conditions[j] = leaf])
    BY <1>12 DEF UpdateCondition
  <2> DEFINE new == [leaves EXCEPT ![j] = leaf]
      item == [items[i] EXCEPT !.conditions = new]
  <2>2. leaves \in Seq(Leaves) /\ leaves # <<>> /\ j \in DOMAIN leaves
    BY <1>2
  <2>3. leaf \in Leaves
    <3>1. leaves[j] \in Leaves
      <4> HIDE DEF leaves
      <4> QED
        BY <2>2
    <3> QED
      BY <3>1, PatchedLeaves
  <2>4. [items EXCEPT ![i].conditions[j] = leaf] = [items EXCEPT ![i] = item]
    OBVIOUS
  <2>5. new \in Seq(Leaves) /\ Len(new) = Len(leaves) /\ new # <<>>
    <3> HIDE DEF leaves
    <3>1. new \in Seq(Leaves) /\ Len(new) = Len(leaves) /\ Len(leaves) \in Nat /\ Len(leaves) # 0
      BY <2>2, <2>3
    <3> HIDE DEF new
    <3> QED
      BY <3>1
  <2>6. items[i].kind = "row" => Len(leaves) = 1
    BY <1>2
  <2> HIDE DEF new, leaves
  <2>7. item \in Items /\ (item.kind = "row" => Len(item.conditions) = 1)
    BY <1>2, <2>5, <2>6 DEF Items
  <2> HIDE DEF item
  <2> QED
    BY <1>4, <2>1, <2>4, <2>7
<1> HIDE DEF items
<1> QED
  BY <1>5, <1>6, <1>7, <1>8, <1>9, <1>10, <1>11, <1>12 DEF EditsRows, items

-----------------------------------------------------------------------------
(* The strategies.                                                         *)

\* A strategy of a flag of booleans as the page makes it: off, on, or on for a share.
IsSwitched(s) ==
    HasBoth(s) =>
       \/ s.rollout = <<>> /\ s.default \in {OnVariant(s), OffVariant(s)}
       \/ /\ s.default = OffVariant(s)
          /\ \E p \in {Untyped} \cup 0 .. 100 : s.rollout = <<Bucket(OnVariant(s), p)>>

\* The invariant of the strategies.
Fits(s) ==
    /\ IsStrategy(s) /\ IsStrategyRow(s)
    /\ IsBooleanFlag => s \in ToSet(loaded.strategies) \/ IsSwitched(s)
ListInv == ListTypeOK /\ \A s \in ToSet(strategies) : Fits(s)

\* The elements of a sequence.
LEMMA Elements ==
    ASSUME NEW T, NEW s \in Seq(T)
    PROVE  /\ s \in Seq(ToSet(s)) /\ ToSet(s) \subseteq T
           /\ \A i \in DOMAIN s : s[i] \in ToSet(s)
<1>1. \A i \in DOMAIN s : s[i] \in ToSet(s) /\ s[i] \in T
  BY DEF ToSet
<1>2. ToSet(s) \subseteq T
  BY DEF ToSet
<1>3. Len(s) \in Nat /\ s = [i \in 1 .. Len(s) |-> s[i]] /\ DOMAIN s = 1 .. Len(s)
  OBVIOUS
<1>4. s \in Seq(ToSet(s))
  BY <1>1, <1>3, SequenceOf
<1> QED
  BY <1>1, <1>2, <1>4

LEMMA ElementOf ==
    ASSUME NEW s, NEW v \in ToSet(s)
    PROVE  \E i \in DOMAIN s : v = s[i]
BY DEF ToSet

\* The clamped percentage is one.
LEMMA ClampedPercentage ==
    ASSUME NEW n \in Int
    PROVE  ClampPercentage(n) \in {Untyped} \cup 0 .. 100
<1> DEFINE low == Min({100, n})
<1>1. low \in Int /\ low <= 100
  <2>1. CASE 100 <= n
    <3>1. Min({100, n}) = 100
      BY <2>1 DEF Min
    <3> QED
      BY <3>1
  <2>2. CASE n < 100
    <3>1. Min({100, n}) = n
      BY <2>2 DEF Min
    <3> QED
      BY <2>2, <3>1
  <2> QED
    BY <2>1, <2>2
<1> HIDE DEF low
<1>2. Max({0, low}) \in 0 .. 100
  <2>1. CASE 0 <= low
    <3>1. Max({0, low}) = low
      BY <1>1, <2>1 DEF Max
    <3> QED
      BY <1>1, <2>1, <3>1
  <2>2. CASE low < 0
    <3>1. Max({0, low}) = 0
      BY <1>1, <2>2 DEF Max
    <3> QED
      BY <3>1
  <2> QED
    BY <1>1, <2>1, <2>2
<1> QED
  BY <1>2 DEF ClampPercentage, low

\* What the choice of the first of two texts, and of a key, comes to.
LEMMA OrMeans == \A a, b : Or(a, b) = a \/ Or(a, b) = b
BY Zenon DEF Or

LEMMA OrFirst == \A s, b : HasBoth(s) => Or(OnVariant(s), b) = OnVariant(s)
                                         /\ Or(OffVariant(s), b) = OffVariant(s)
BY Zenon DEF Or, HasBoth

\* The keys of the two values depend on the variants only.
LEMMA SameVariants ==
    ASSUME NEW s, NEW t, s.variants = t.variants
    PROVE  /\ OnVariant(s) = OnVariant(t) /\ OffVariant(s) = OffVariant(t)
           /\ HasBoth(s) <=> HasBoth(t)
BY DEF OnVariant, OffVariant, HasBoth

\* A strategy with one bucket, or none.
LEMMA MadeStrategy ==
    ASSUME NEW s, s = [variants |-> s.variants, default |-> s.default, rollout |-> s.rollout],
           s.variants \in Seq(ToSet(s.variants)),
           NEW key, NEW p \in {Untyped} \cup 0 .. 100, s.rollout \in {<<>>, <<Bucket(key, p)>>}
    PROVE  /\ IsStrategy(s)
           /\ \A b \in DOMAIN s.rollout : s.rollout[b].percentage \in {Untyped} \cup 0 .. 100
<1> DEFINE bucket == Bucket(key, p)   r == s.rollout
<1>1. bucket = Bucket(bucket.variant, bucket.percentage) /\ bucket.percentage = p
  BY DEF Bucket
<1>2. p \in Int
  <2>1. \A q \in {Untyped} \cup 0 .. 100 : q \in Int
    BY ONLY TRUE DEF Untyped
  <2> QED
    BY <2>1, Zenon
<1>3. r \in {<<>>, <<bucket>>}
  OBVIOUS
<1> HIDE DEF bucket, r
<1>4. \A b \in DOMAIN r : r[b] = bucket
  BY <1>3
<1>5. r \in Seq({bucket})
  <2>1. <<>> \in Seq({bucket}) /\ <<bucket>> \in Seq({bucket})
    OBVIOUS
  <2> QED
    BY <1>3, <2>1
<1>6. r \in Seq(ToSet(r)) /\ ToSet(r) \subseteq {bucket}
  BY <1>5, Elements
<1>7. IsStrategy(s)
  BY <1>1, <1>2, <1>6 DEF IsStrategy, r
<1>8. \A b \in DOMAIN r : r[b].percentage = p
  BY <1>1, <1>4
<1> QED
  BY <1>7, <1>8 DEF r

\* What the page makes of a strategy of booleans, whatever it was, fits.
LEMMA SwitchedFits ==
    ASSUME NEW s, s.variants \in Seq(ToSet(s.variants)), NEW d,
           NEW p \in {Untyped} \cup 0 .. 100, NEW r, r = <<>> \/ r = OnAt(s, p),
           HasBoth(s) => d = OffVariant(s) \/ (r = <<>> /\ d = OnVariant(s)),
           s.variants = <<>> => \E t \in ToSet(loaded.strategies) : t.variants = <<>>,
           NEW new, new = [variants |-> s.variants, default |-> d, rollout |-> r]
    PROVE  Fits(new)
<1> DEFINE key == Or(OnVariant(s), FirstKey(s.variants))
<1>1. OnAt(s, p) = <<Bucket(key, p)>>
  BY DEF OnAt
<1>2. new.variants = s.variants /\ new.default = d /\ new.rollout = r
      /\ new = [variants |-> new.variants, default |-> new.default, rollout |-> new.rollout]
  OBVIOUS
<1>3. HasBoth(s) => key = OnVariant(s)
  BY OrFirst
<1> HIDE DEF key
<1>8. r \in {<<>>, <<Bucket(key, p)>>}
  BY <1>1
<1>4. /\ IsStrategy(new)
      /\ \A b \in DOMAIN new.rollout : new.rollout[b].percentage \in {Untyped} \cup 0 .. 100
  <2>1. new.variants \in Seq(ToSet(new.variants)) /\ new.rollout \in {<<>>, <<Bucket(key, p)>>}
    BY <1>2, <1>8
  <2> QED
    BY <1>2, <2>1, MadeStrategy, Zenon
<1>5. IsStrategyRow(new)
  BY <1>2, <1>4 DEF IsStrategyRow
<1>6. /\ OnVariant(new) = OnVariant(s) /\ OffVariant(new) = OffVariant(s)
      /\ HasBoth(new) <=> HasBoth(s)
  BY <1>2, SameVariants
<1>7. IsSwitched(new)
  <2> SUFFICES ASSUME HasBoth(s)
               PROVE  \/ new.rollout = <<>> /\ new.default \in {OnVariant(new), OffVariant(new)}
                      \/ /\ new.default = OffVariant(new)
                         /\ \E q \in {Untyped} \cup 0 .. 100 :
                               new.rollout = <<Bucket(OnVariant(new), q)>>
    BY <1>6 DEF IsSwitched
  <2>1. CASE r = <<>>
    BY <1>2, <1>6, <2>1
  <2>2. CASE r # <<>>
    <3>1. r = <<Bucket(OnVariant(s), p)>> /\ d = OffVariant(s)
      BY <1>1, <1>3, <2>2
    <3> QED
      BY <1>2, <1>6, <3>1
  <2> QED
    BY <2>1, <2>2
<1> QED
  BY <1>4, <1>5, <1>7 DEF Fits

\* An edit that leaves strategies that fit keeps the invariant.
LEMMA EditKeepsList ==
    ASSUME ListInv, NEW T, \A s \in T : Fits(s), NEW new \in Seq(T), Edit(new)
    PROVE  ListInv'
<1>1. new \in Seq(ToSet(new)) /\ ToSet(new) \subseteq T /\ \A i \in DOMAIN new : new[i] \in ToSet(new)
  BY Elements
<1>2. /\ strategies' = new /\ changes' = changes + 1 /\ changes < MaxChanges
      /\ saved' = saved /\ loaded' = loaded /\ prerequisite' = prerequisite /\ sent' = sent
  BY DEF Edit
<1>3. AreStrategies(new)
  BY <1>1 DEF AreStrategies, Fits
<1>4. \A s \in ToSet(new) : Fits(s)'
  BY <1>1, <1>2 DEF Fits, IsStrategyRow, IsBooleanFlag
<1>5. \A i \in DOMAIN new : IsStrategyRow(new[i])'
  BY <1>1, <1>4 DEF Fits
<1>6. changes' \in 0 .. MaxChanges
  BY <1>2, ChangesAssumption DEF ListInv, ListTypeOK
<1>7. ListTypeOK'
  <2>1. IsPrerequisite'
    BY <1>2, Zenon DEF ListInv, ListTypeOK, IsPrerequisite
  <2> QED
    BY <1>2, <1>3, <1>5, <1>6, <2>1 DEF ListInv, ListTypeOK
<1> QED
  BY <1>2, <1>4, <1>7 DEF ListInv

LEMMA UpdateKeepsList ==
    ASSUME ListInv, NEW i \in DOMAIN strategies, NEW s, Fits(s), Update(i, s)
    PROVE  ListInv'
<1> DEFINE T == ToSet(strategies) \cup {s}   new == [strategies EXCEPT ![i] = s]
<1>1. strategies \in Seq(ToSet(strategies))
  BY DEF ListInv, ListTypeOK, AreStrategies
<1>2. new \in Seq(T)
  BY <1>1
<1>3. \A t \in T : Fits(t)
  BY DEF ListInv
<1>4. Edit(new)
  BY DEF Update
<1> HIDE DEF T, new
<1> QED
  BY <1>2, <1>3, <1>4, EditKeepsList

\* A strategy on the page has the parts of one.
LEMMA StrategyParts ==
    ASSUME ListInv, NEW i \in DOMAIN strategies
    PROVE  LET s == strategies[i]
           IN  /\ Fits(s)
               /\ s = [variants |-> s.variants, default |-> s.default, rollout |-> s.rollout]
               /\ s.variants \in Seq(ToSet(s.variants)) /\ s.rollout \in Seq(ToSet(s.rollout))
               /\ s.variants = <<>> => \E t \in ToSet(loaded.strategies) : t.variants = <<>>
<1>1. strategies \in Seq(ToSet(strategies))
  BY DEF ListInv, ListTypeOK, AreStrategies
<1>2. strategies[i] \in ToSet(strategies)
  BY <1>1, Elements
<1>3. Fits(strategies[i])
  BY <1>2 DEF ListInv
<1> DEFINE s == strategies[i]
<1>4. Fits(s)
  BY <1>3
<1> HIDE DEF s
<1>5. /\ s = [variants |-> s.variants, default |-> s.default, rollout |-> s.rollout]
      /\ s.variants \in Seq(ToSet(s.variants)) /\ s.rollout \in Seq(ToSet(s.rollout))
  BY <1>4 DEF Fits, IsStrategy
<1>6. s.variants = <<>> => \E t \in ToSet(loaded.strategies) : t.variants = <<>>
  BY <1>4 DEF Fits, IsStrategyRow
<1> QED
  BY <1>4, <1>5, <1>6 DEF s

\* A strategy that the page adds fits.
LEMMA NewStrategyFits ==
    ASSUME NEW seed, seed \in Seq(ToSet(seed)), NEW type
    PROVE  Fits(NewStrategy(seed, type))
<1> DEFINE blank == Variant("", "")
    variants == IF seed = <<>> THEN <<blank>> ELSE seed
    s == [variants |-> variants]
    default == Or(OffVariant(s), FirstKey(s.variants))
    rollout == IF type = "gradual" THEN OnAt(s, 0) ELSE <<>>
    new == Serving(s, default, rollout)
<1>1. NewStrategy(seed, type) = new
  BY Zenon DEF NewStrategy
<1>2. s.variants = variants
  <2> HIDE DEF variants
  <2> QED
    OBVIOUS
<1>3. variants \in Seq(ToSet(variants)) /\ variants # <<>>
  <2> HIDE DEF blank
  <2>1. <<blank>> \in Seq({blank}) /\ <<blank>> # <<>>
    OBVIOUS
  <2>2. <<blank>> \in Seq(ToSet(<<blank>>))
    BY <2>1, Elements
  <2> QED
    BY <2>1, <2>2
<1>4. HasBoth(s) => default = OffVariant(s)
  BY OrFirst, Zenon
<1>5. rollout = <<>> \/ rollout = OnAt(s, 0)
  BY Zenon
<1>6. 0 \in {Untyped} \cup 0 .. 100
  OBVIOUS
<1>7. s.variants \in Seq(ToSet(s.variants)) /\ s.variants # <<>>
  <2> HIDE DEF variants, s
  <2> QED
    BY <1>2, <1>3
<1> HIDE DEF variants, s, default, rollout
<1>8. new = [variants |-> s.variants, default |-> default, rollout |-> rollout]
  BY DEF Serving
<1> HIDE DEF new
<1>9. Fits(new)
  BY <1>4, <1>5, <1>6, <1>7, <1>8, SwitchedFits, Zenon
<1> QED
  BY <1>1, <1>9, Zenon

\* A strategy whose variants or rollout are edited fits, on a page that shows them.
LEMMA EditedFits ==
    ASSUME NEW s, IsStrategy(s), IsStrategyRow(s), ~ IsBooleanFlag
    PROVE  Fits(s)
BY DEF Fits

\* A strategy of which one part is changed.
LEMMA ChangedPart ==
    ASSUME NEW s, s = [variants |-> s.variants, default |-> s.default, rollout |-> s.rollout],
           NEW part
    PROVE  /\ [s EXCEPT !.variants = part] = Serving([variants |-> part], s.default, s.rollout)
           /\ [s EXCEPT !.default = part] = Serving(s, part, s.rollout)
           /\ [s EXCEPT !.rollout = part] = Serving(s, s.default, part)
<1>1. [s EXCEPT !.variants = part] = Serving([variants |-> part], s.default, s.rollout)
  BY DEF Serving
<1>2. [s EXCEPT !.default = part] = Serving(s, part, s.rollout)
  BY DEF Serving
<1>3. [s EXCEPT !.rollout = part] = Serving(s, s.default, part)
  BY DEF Serving
<1> QED
  BY <1>1, <1>2, <1>3

LEMMA ServingParts ==
    ASSUME NEW s, NEW default, NEW rollout, NEW t, t = Serving(s, default, rollout)
    PROVE  /\ t = [variants |-> t.variants, default |-> t.default, rollout |-> t.rollout]
           /\ t.variants = s.variants /\ t.default = default /\ t.rollout = rollout
BY DEF Serving

LEMMA EditedVariantsFit ==
    ASSUME ListInv, NEW i \in DOMAIN strategies, EditVariants(i)
    PROVE  ListInv'
<1> DEFINE s == strategies[i]   variants == s.variants   blank == Variant("", "")
<1>1. /\ Fits(s)
      /\ s = [variants |-> s.variants, default |-> s.default, rollout |-> s.rollout]
      /\ variants \in Seq(ToSet(variants)) /\ s.rollout \in Seq(ToSet(s.rollout))
      /\ s.variants = <<>> => \E t \in ToSet(loaded.strategies) : t.variants = <<>>
  BY StrategyParts
<1>2. ~ IsBooleanFlag
  BY Zenon DEF EditVariants
<1>3. \/ Update(i, [s EXCEPT !.variants = Append(variants, blank)])
      \/ \E j \in DOMAIN variants :
            \/ \E v : Update(i, [s EXCEPT !.variants[j] = v])
            \/ Len(variants) > 1 /\ Update(i, [s EXCEPT !.variants = RemoveAt(variants, j)])
      \/ \E key : Update(i, [s EXCEPT !.default = key])
  BY Zenon DEF EditVariants, AddVariant, UpdateVariant, RemoveVariant
<1> HIDE DEF s, blank
<1>4. ASSUME NEW T, NEW new \in Seq(T), new = <<>> => variants = <<>>,
             Update(i, [s EXCEPT !.variants = new])
      PROVE  ListInv'
  <2> DEFINE t == [s EXCEPT !.variants = new]
  <2>1. /\ t = [variants |-> t.variants, default |-> t.default, rollout |-> t.rollout]
        /\ t.variants = new /\ t.rollout = s.rollout
    <3>1. t = Serving([variants |-> new], s.default, s.rollout)
      BY <1>1, ChangedPart
    <3>2. [variants |-> new].variants = new
      OBVIOUS
    <3> HIDE DEF t
    <3> QED
      BY <3>1, <3>2, ServingParts
  <2> HIDE DEF t
  <2>2. new \in Seq(ToSet(new))
    BY Elements
  <2>3. IsStrategy(t) /\ IsStrategyRow(t)
    BY <1>1, <1>4, <2>1, <2>2 DEF Fits, IsStrategy, IsStrategyRow
  <2> QED
    BY <1>2, <1>4, <2>3, EditedFits, UpdateKeepsList DEF s, t
<1>5. CASE Update(i, [s EXCEPT !.variants = Append(variants, blank)])
  <2> DEFINE T == ToSet(variants) \cup {blank}
  <2>1. variants \in Seq(T)
    <3> HIDE DEF variants
    <3> QED
      BY <1>1
  <2>2. Append(variants, blank) \in Seq(T) /\ Append(variants, blank) # <<>>
    BY <2>1, AppendProperties
  <2> QED
    BY <1>4, <1>5, <2>2
<1>6. ASSUME NEW j \in DOMAIN variants, NEW v, Update(i, [s EXCEPT !.variants[j] = v])
      PROVE  ListInv'
  <2> DEFINE new == [variants EXCEPT ![j] = v]   T == ToSet(variants) \cup {v}
  <2>1. [s EXCEPT !.variants[j] = v] = [s EXCEPT !.variants = new]
    BY <1>1
  <2>2. new \in Seq(T) /\ (new = <<>> => variants = <<>>)
    <3> HIDE DEF variants
    <3>1. DOMAIN new = DOMAIN variants /\ new \in Seq(T)
      BY <1>1
    <3> HIDE DEF new
    <3> QED
      BY <1>6, <3>1
  <2> HIDE DEF new
  <2> QED
    BY <1>4, <1>6, <2>1, <2>2
<1>7. ASSUME NEW j \in DOMAIN variants, Len(variants) > 1,
             Update(i, [s EXCEPT !.variants = RemoveAt(variants, j)])
      PROVE  ListInv'
  <2> DEFINE new == RemoveAt(variants, j)
  <2>1. new \in Seq(ToSet(variants)) /\ new # <<>>
    <3> HIDE DEF variants
    <3>1. j \in 1 .. Len(variants) /\ Len(variants) \in Nat
      BY <1>1
    <3>2. new \in Seq(ToSet(variants)) /\ Len(new) = Len(variants) - 1
      BY <1>1, <3>1, RemoveAtMeans
    <3> HIDE DEF new
    <3> QED
      BY <1>7, <3>1, <3>2
  <2> HIDE DEF new
  <2> QED
    BY <1>4, <1>7, <2>1 DEF new
<1>8. ASSUME NEW key, Update(i, [s EXCEPT !.default = key])
      PROVE  ListInv'
  <2> DEFINE t == [s EXCEPT !.default = key]
  <2>1. /\ t = [variants |-> t.variants, default |-> t.default, rollout |-> t.rollout]
        /\ t.variants = s.variants /\ t.rollout = s.rollout
    <3>1. t = Serving(s, key, s.rollout)
      BY <1>1, ChangedPart
    <3> HIDE DEF t
    <3> QED
      BY <3>1, ServingParts
  <2> HIDE DEF t
  <2>3. IsStrategy(t) /\ IsStrategyRow(t)
    BY <1>1, <2>1 DEF Fits, IsStrategy, IsStrategyRow
  <2> QED
    BY <1>2, <1>8, <2>3, EditedFits, UpdateKeepsList DEF s, t
<1> QED
  BY <1>3, <1>5, <1>6, <1>7, <1>8 DEF s

LEMMA EditedRolloutFits ==
    ASSUME ListInv, NEW i \in DOMAIN strategies, EditRollout(i)
    PROVE  ListInv'
<1> DEFINE s == strategies[i]   rollout == s.rollout   blank == Bucket("", Untyped)
    Usual == {Untyped} \cup 0 .. 100
    Known == Usual \cup Percentages(loaded.strategies)
<1>1. /\ Fits(s)
      /\ s = [variants |-> s.variants, default |-> s.default, rollout |-> s.rollout]
      /\ s.variants \in Seq(ToSet(s.variants)) /\ rollout \in Seq(ToSet(rollout))
      /\ s.variants = <<>> => \E t \in ToSet(loaded.strategies) : t.variants = <<>>
  BY StrategyParts
<1>2. ~ IsBooleanFlag
  BY Zenon DEF EditRollout
<1>3. \/ Update(i, [s EXCEPT !.rollout = Append(rollout, blank)])
      \/ \E b \in DOMAIN rollout :
            \/ \E key : Update(i, [s EXCEPT !.rollout[b] = [rollout[b] EXCEPT !.variant = key]])
            \/ \E n \in TypedPercentage :
                  Update(i, [s EXCEPT !.rollout[b] =
                                [rollout[b] EXCEPT !.percentage = ClampPercentage(n)]])
            \/ Update(i, [s EXCEPT !.rollout = RemoveAt(rollout, b)])
  BY Zenon DEF EditRollout, AddRolloutBucket, UpdateRolloutBucket, RemoveRolloutBucket
<1>4. /\ \A bucket \in ToSet(rollout) :
            bucket = Bucket(bucket.variant, bucket.percentage) /\ bucket.percentage \in Int
      /\ \A b \in DOMAIN rollout : rollout[b].percentage \in Known
  BY <1>1 DEF Fits, IsStrategy, IsStrategyRow
<1>5. \A bucket \in ToSet(rollout) : bucket.percentage \in Known
  <2> HIDE DEF Known, rollout
  <2> QED
    BY <1>4, ElementOf
<1> DEFINE IsBucket(u) ==
      /\ u = Bucket(u.variant, u.percentage)
      /\ u.percentage \in Int /\ u.percentage \in Known
<1>6. \A u \in ToSet(rollout) : IsBucket(u)
  BY <1>4, <1>5
<1> HIDE DEF s, blank, Known, IsBucket
<1>7. ASSUME NEW T, \A u \in T : IsBucket(u), NEW new \in Seq(T),
             Update(i, [s EXCEPT !.rollout = new])
      PROVE  ListInv'
  <2> DEFINE t == [s EXCEPT !.rollout = new]
  <2>1. /\ t = [variants |-> t.variants, default |-> t.default, rollout |-> t.rollout]
        /\ t.variants = s.variants /\ t.rollout = new
    <3>1. t = Serving(s, s.default, new)
      BY <1>1, ChangedPart
    <3> HIDE DEF t
    <3> QED
      BY <3>1, ServingParts
  <2> HIDE DEF t
  <2>2. new \in Seq(ToSet(new)) /\ ToSet(new) \subseteq T /\ \A b \in DOMAIN new : new[b] \in T
    BY Elements
  <2>3. IsStrategy(t)
    BY <1>1, <1>7, <2>1, <2>2 DEF IsStrategy, IsBucket
  <2>4. IsStrategyRow(t)
    BY <1>1, <1>7, <2>1, <2>2 DEF IsStrategyRow, IsBucket, Known
  <2> QED
    BY <1>2, <1>7, <2>3, <2>4, EditedFits, UpdateKeepsList DEF s, t
<1>8. ASSUME NEW b \in DOMAIN rollout, NEW u, IsBucket(u), Update(i, [s EXCEPT !.rollout[b] = u])
      PROVE  ListInv'
  <2> DEFINE new == [rollout EXCEPT ![b] = u]   T == ToSet(rollout) \cup {u}
  <2>1. [s EXCEPT !.rollout[b] = u] = [s EXCEPT !.rollout = new]
    BY <1>1
  <2>2. new \in Seq(T)
    <3> HIDE DEF rollout
    <3> QED
      BY <1>1
  <2>3. \A w \in T : IsBucket(w)
    BY <1>6, <1>8
  <2> HIDE DEF new
  <2> QED
    BY <1>7, <1>8, <2>1, <2>2, <2>3
<1>9. CASE Update(i, [s EXCEPT !.rollout = Append(rollout, blank)])
  <2> DEFINE T == ToSet(rollout) \cup {blank}
  <2>1. rollout \in Seq(T)
    <3> HIDE DEF rollout
    <3> QED
      BY <1>1
  <2>2. Append(rollout, blank) \in Seq(T)
    BY <2>1, AppendProperties
  <2>3. IsBucket(blank)
    <3>1. \A k, p : Bucket(k, p).variant = k /\ Bucket(k, p).percentage = p
      BY DEF Bucket
    <3>2. blank = Bucket(blank.variant, blank.percentage) /\ blank.percentage = Untyped
      BY <3>1, Zenon DEF blank
    <3>3. Untyped \in Int /\ Untyped \in Known
      BY DEF Untyped, Known
    <3> QED
      BY <3>2, <3>3 DEF IsBucket
  <2>4. \A w \in T : IsBucket(w)
    BY <1>6, <2>3
  <2> QED
    BY <1>7, <1>9, <2>2, <2>4
<1>10. ASSUME NEW b \in DOMAIN rollout, NEW key,
              Update(i, [s EXCEPT !.rollout[b] = [rollout[b] EXCEPT !.variant = key]])
       PROVE  ListInv'
  <2>1. IsBucket(rollout[b])
    <3> HIDE DEF rollout
    <3> QED
      BY <1>1, <1>6, Elements
  <2>2. IsBucket([rollout[b] EXCEPT !.variant = key])
    BY <2>1 DEF IsBucket, Bucket
  <2> QED
    BY <1>8, <1>10, <2>2
<1>11. ASSUME NEW b \in DOMAIN rollout, NEW n \in TypedPercentage,
              Update(i, [s EXCEPT !.rollout[b] =
                            [rollout[b] EXCEPT !.percentage = ClampPercentage(n)]])
       PROVE  ListInv'
  <2>1. IsBucket(rollout[b])
    <3> HIDE DEF rollout
    <3> QED
      BY <1>1, <1>6, Elements
  <2> DEFINE p == ClampPercentage(n)
  <2>2. p \in Int /\ p \in Known
    <3>1. p \in Usual
      BY ChangesAssumption, ClampedPercentage
    <3> HIDE DEF p
    <3> QED
      BY <3>1 DEF Known, Untyped
  <2> HIDE DEF p
  <2>3. IsBucket([rollout[b] EXCEPT !.percentage = p])
    BY <2>1, <2>2 DEF IsBucket, Bucket
  <2> QED
    BY <1>8, <1>11, <2>3 DEF p
<1>12. ASSUME NEW b \in DOMAIN rollout, Update(i, [s EXCEPT !.rollout = RemoveAt(rollout, b)])
       PROVE  ListInv'
  <2>1. RemoveAt(rollout, b) \in Seq(ToSet(rollout))
    <3> HIDE DEF rollout
    <3>1. b \in 1 .. Len(rollout)
      BY <1>1
    <3> QED
      BY <1>1, <3>1, RemoveAtMeans
  <2> QED
    BY <1>6, <1>7, <1>12, <2>1
<1> QED
  BY <1>3, <1>8, <1>9, <1>10, <1>11, <1>12 DEF s

\* The switch and the slider of a strategy, and the choice of its kind.
LEMMA SwitchKeepsList ==
    ASSUME ListInv, NEW i \in DOMAIN strategies, NEW d, NEW p \in {Untyped} \cup 0 .. 100,
           NEW r, r = <<>> \/ r = OnAt(strategies[i], p),
           HasBoth(strategies[i]) =>
              \/ d = OffVariant(strategies[i])
              \/ (r = <<>> /\ d = OnVariant(strategies[i])),
           Update(i, Serving(strategies[i], d, r))
    PROVE  ListInv'
<1> DEFINE s == strategies[i]   new == Serving(s, d, r)
<1>1. /\ s.variants \in Seq(ToSet(s.variants))
      /\ s.variants = <<>> => \E t \in ToSet(loaded.strategies) : t.variants = <<>>
  BY StrategyParts
<1>2. new = [variants |-> s.variants, default |-> d, rollout |-> r]
  BY Zenon DEF Serving
<1>3. Update(i, new)
  OBVIOUS
<1>4. /\ r = <<>> \/ r = OnAt(s, p)
      /\ HasBoth(s) => d = OffVariant(s) \/ (r = <<>> /\ d = OnVariant(s))
  OBVIOUS
<1> HIDE DEF s, new
<1>5. Fits(new)
  BY <1>1, <1>2, <1>4, SwitchedFits, Zenon
<1> QED
  BY <1>3, <1>5, UpdateKeepsList

LEMMA StarterIsList == \A type : StarterVariants(type) \in Seq(ToSet(StarterVariants(type)))
<1>1. ASSUME NEW v
      PROVE  <<v>> \in Seq(ToSet(<<v>>))
  <2>1. <<v>> \in Seq({v})
    OBVIOUS
  <2> QED
    BY <2>1, Elements
<1>2. ASSUME NEW v, NEW w
      PROVE  <<v, w>> \in Seq(ToSet(<<v, w>>))
  <2>1. <<v, w>> \in Seq({v, w})
    OBVIOUS
  <2> QED
    BY <2>1, Elements
<1> TAKE type
<1> QED
  BY <1>1, <1>2, Zenon DEF StarterVariants

LEMMA Parts == \A f, v : Prerequisite(f, v).flag = f /\ Prerequisite(f, v).variant = v
BY DEF Prerequisite

\* Another prerequisite, or another variant of it.
LEMMA PrerequisiteKeepsList ==
    ASSUME ListInv, NEW p, prerequisite' = p, changes < MaxChanges, changes' = changes + 1,
           UNCHANGED <<saved, loaded, strategies, sent>>,
           p = Prerequisite(p.flag, p.variant), IsChosen(p)
    PROVE  ListInv'
<1>1. /\ saved' = saved /\ loaded' = loaded /\ strategies' = strategies /\ sent' = sent
  OBVIOUS
<1>2. IsPrerequisite'
  <2>1. IsChosen(prerequisite)'
    BY Zenon DEF IsChosen
  <2> QED
    BY <2>1, Zenon DEF IsPrerequisite, Prerequisite
<1>3. changes' \in 0 .. MaxChanges
  BY ChangesAssumption DEF ListInv, ListTypeOK
<1>4. \A s : (Fits(s) => Fits(s)') /\ (IsStrategyRow(s) => IsStrategyRow(s)')
  BY <1>1 DEF Fits, IsStrategyRow, IsBooleanFlag
<1>5. ListTypeOK'
  BY <1>1, <1>2, <1>3, <1>4 DEF ListInv, ListTypeOK
<1> QED
  BY <1>1, <1>4, <1>5 DEF ListInv

\* Every edit of the strategies keeps the invariant.
LEMMA EditsKeepList ==
    ASSUME ListInv, EditsStrategies
    PROVE  ListInv'
<1> DEFINE T == ToSet(strategies)
<1>1. /\ strategies \in Seq(T) /\ \A s \in T : Fits(s)
      /\ \A i \in DOMAIN strategies : strategies[i] \in T /\ i \in 1 .. Len(strategies)
  BY Elements DEF ListInv, ListTypeOK, AreStrategies
<1>2. ASSUME NEW type, AddStrategy(type)
      PROVE  ListInv'
  <2> DEFINE seed == IF strategies = <<>> THEN StarterVariants(loaded.type)
                     ELSE Head(strategies).variants
             new == NewStrategy(seed, type)
  <2>1. Edit(Append(strategies, new))
    BY <1>2, Zenon DEF AddStrategy
  <2>2. seed \in Seq(ToSet(seed))
    <3>1. CASE strategies = <<>>
      BY <3>1, StarterIsList, Zenon
    <3>2. CASE strategies # <<>>
      <4>1. 1 \in DOMAIN strategies /\ Head(strategies) = strategies[1]
        <5> HIDE DEF T
        <5> QED
          BY <1>1, <3>2
      <4>2. Head(strategies).variants \in Seq(ToSet(Head(strategies).variants))
        BY <4>1, StrategyParts
      <4> QED
        BY <3>2, <4>2, Zenon
    <3> QED
      BY <3>1, <3>2
  <2> HIDE DEF seed
  <2>3. Fits(new)
    BY <2>2, NewStrategyFits
  <2> HIDE DEF new
  <2> DEFINE U == T \cup {new}
  <2>4. strategies \in Seq(U)
    <3> HIDE DEF T
    <3> QED
      BY <1>1
  <2>5. Append(strategies, new) \in Seq(U)
    BY <2>4, AppendProperties
  <2>6. \A s \in U : Fits(s)
    BY <1>1, <2>3
  <2> QED
    BY <2>1, <2>5, <2>6, EditKeepsList
<1>3. ASSUME NEW i \in DOMAIN strategies, RemoveStrategy(i)
      PROVE  ListInv'
  <2>1. RemoveAt(strategies, i) \in Seq(T)
    BY <1>1, RemoveAtMeans
  <2> QED
    BY <1>1, <1>3, <2>1, EditKeepsList DEF RemoveStrategy
<1>4. ASSUME NEW i \in DOMAIN strategies, NEW destination, MoveStrategy(i, destination)
      PROVE  ListInv'
  <2> DEFINE new == [strategies EXCEPT ![i] = strategies[destination],
                                       ![destination] = strategies[i]]
  <2>1. destination \in DOMAIN strategies /\ Edit(new)
    BY <1>4, Zenon DEF MoveStrategy
  <2>2. new \in Seq(T)
    <3> HIDE DEF T
    <3>1. strategies[i] \in T /\ strategies[destination] \in T
      BY <1>1, <2>1
    <3> QED
      BY <1>1, <2>1, <3>1
  <2> HIDE DEF new
  <2> QED
    BY <1>1, <2>1, <2>2, EditKeepsList
<1>5. 0 \in {Untyped} \cup 0 .. 100
  OBVIOUS
<1>6. ASSUME NEW i \in DOMAIN strategies, NEW type, SetStrategyType(i, type)
      PROVE  ListInv'
  <2> DEFINE s == strategies[i]   d == Or(OffVariant(s), s.default)
             r == IF type = "standard" THEN <<>> ELSE OnAt(s, 0)
  <2>1. Update(i, Serving(s, d, r))
    BY <1>6, Zenon DEF SetStrategyType
  <2>2. (r = <<>> \/ r = OnAt(s, 0)) /\ (HasBoth(s) => d = OffVariant(s))
    BY OrFirst, Zenon
  <2> HIDE DEF d, r
  <2> QED
    BY <1>5, <2>1, <2>2, SwitchKeepsList, Zenon
<1>7. ASSUME NEW i \in DOMAIN strategies, NEW enabled, SetBooleanStandardValue(i, enabled)
      PROVE  ListInv'
  <2> DEFINE s == strategies[i]
             d == Or(IF enabled THEN OnVariant(s) ELSE OffVariant(s), s.default)
             r == <<>>
  <2>1. Update(i, Serving(s, d, r))
    BY <1>7, Zenon DEF SetBooleanStandardValue
  <2>2. HasBoth(s) => d = OffVariant(s) \/ (r = <<>> /\ d = OnVariant(s))
    BY OrFirst, Zenon
  <2>3. r = <<>> \/ r = OnAt(s, 0)
    BY Zenon
  <2> HIDE DEF d, r
  <2> QED
    BY <1>5, <2>1, <2>2, <2>3, SwitchKeepsList, Zenon
<1>8. ASSUME NEW i \in DOMAIN strategies, NEW n \in TypedPercentage,
             SetBooleanRolloutPercentage(i, n)
      PROVE  ListInv'
  <2> DEFINE s == strategies[i]   d == Or(OffVariant(s), s.default)
             p == ClampPercentage(n)   r == OnAt(s, p)
  <2>1. Update(i, Serving(s, d, r))
    BY <1>8, Zenon DEF SetBooleanRolloutPercentage
  <2>2. HasBoth(s) => d = OffVariant(s)
    BY OrFirst, Zenon
  <2>3. p \in {Untyped} \cup 0 .. 100
    BY ChangesAssumption, ClampedPercentage
  <2>4. r = OnAt(s, p)
    BY Zenon
  <2> HIDE DEF d, r, p
  <2> QED
    BY <2>1, <2>2, <2>3, <2>4, SwitchKeepsList, Zenon
<1>9. ASSUME NEW k, SelectPrerequisite(k)
      PROVE  ListInv'
  <2> DEFINE p == Prerequisite(k, "")
  <2>1. /\ prerequisite' = p /\ changes < MaxChanges /\ changes' = changes + 1
        /\ UNCHANGED <<saved, loaded, strategies, sent>>
    BY <1>9, Zenon DEF SelectPrerequisite
  <2>2. p = Prerequisite(p.flag, p.variant) /\ IsChosen(p)
    <3>1. p.flag = k /\ p.variant = ""
      BY Parts, Zenon
    <3> QED
      BY <3>1, Zenon DEF IsChosen
  <2> HIDE DEF p
  <2> QED
    BY <2>1, <2>2, PrerequisiteKeepsList, Zenon
<1>10. ASSUME NEW key, SelectPrerequisiteVariant(key)
       PROVE  ListInv'
  <2> DEFINE p == [prerequisite EXCEPT !.variant = key]
  <2>1. /\ prerequisite' = p /\ changes < MaxChanges /\ changes' = changes + 1
        /\ UNCHANGED <<saved, loaded, strategies, sent>>
        /\ prerequisite.flag # "" /\ key \in Offered[prerequisite.flag]
    BY <1>10, Zenon DEF SelectPrerequisiteVariant
  <2>2. p.flag = prerequisite.flag /\ p.variant = key /\ p = Prerequisite(p.flag, p.variant)
    <3>1. prerequisite = Prerequisite(prerequisite.flag, prerequisite.variant)
      BY Zenon DEF ListInv, ListTypeOK, IsPrerequisite
    <3> QED
      BY <3>1 DEF Prerequisite
  <2>3. IsChosen(p)
    <3> HIDE DEF p
    <3> QED
      BY <2>1, <2>2, Zenon DEF IsChosen
  <2> HIDE DEF p
  <2> QED
    BY <2>1, <2>2, <2>3, PrerequisiteKeepsList, Zenon
<1> QED
  BY <1>2, <1>3, <1>4, <1>6, <1>7, <1>8, <1>9, <1>10, EditedVariantsFit, EditedRolloutFits, Zenon
     DEF EditsStrategies

-----------------------------------------------------------------------------
(* The requests.                                                           *)

LEMMA MaxOfTwo ==
    ASSUME NEW n \in Int
    PROVE  Max({0, n}) \in Int /\ (n >= 0 => Max({0, n}) = n) /\ (n < 0 => Max({0, n}) = 0)
<1>1. CASE 0 <= n
  <2>1. Max({0, n}) = n
    BY <1>1 DEF Max
  <2> QED
    BY <1>1, <2>1
<1>2. CASE n < 0
  <2>1. Max({0, n}) = 0
    BY <1>2 DEF Max
  <2> QED
    BY <1>2, <2>1
<1> QED
  BY <1>1, <1>2

\* The parts of a strategy as it is sent.
LEMMA BodyParts ==
    ASSUME NEW s, IsStrategy(s), NEW type
    PROVE  LET body == BodyStrategy(type, s)
           IN  /\ IsStrategy(body) /\ body.default = s.default
               /\ DOMAIN body.variants = 1 .. Len(s.variants)
               /\ DOMAIN body.rollout = 1 .. Len(s.rollout)
               /\ Len(body.rollout) = Len(s.rollout)
               /\ \A j \in 1 .. Len(s.variants) :
                     body.variants[j] = BodyVariant(type, s.variants[j])
               /\ \A b \in 1 .. Len(s.rollout) : body.rollout[b] = BodyBucket(s.rollout[b])
<1> DEFINE body == BodyStrategy(type, s)
    variants == s.variants   rollout == s.rollout
    newVariants == [j \in DOMAIN variants |-> BodyVariant(type, variants[j])]
    newRollout == [b \in DOMAIN rollout |-> BodyBucket(rollout[b])]
<1>1. /\ body = [variants |-> body.variants, default |-> body.default, rollout |-> body.rollout]
      /\ body.variants = newVariants /\ body.default = s.default /\ body.rollout = newRollout
  BY DEF BodyStrategy
<1>2. /\ variants \in Seq(ToSet(variants)) /\ rollout \in Seq(ToSet(rollout))
      /\ \A bucket \in ToSet(rollout) : bucket.percentage \in Int
  BY DEF IsStrategy
<1> HIDE DEF body, variants, rollout
<1>3. /\ DOMAIN variants = 1 .. Len(variants) /\ Len(variants) \in Nat
      /\ DOMAIN rollout = 1 .. Len(rollout) /\ Len(rollout) \in Nat
  BY <1>2
<1> DEFINE V == {newVariants[j] : j \in DOMAIN variants}
           R == {newRollout[b] : b \in DOMAIN rollout}
<1>4. newVariants \in Seq(V) /\ newRollout \in Seq(R) /\ Len(newRollout) = Len(rollout)
  BY <1>3
<1>5. /\ newVariants \in Seq(ToSet(newVariants))
      /\ newRollout \in Seq(ToSet(newRollout)) /\ ToSet(newRollout) \subseteq R
  <2> HIDE DEF newVariants, newRollout, V, R
  <2> QED
    BY <1>4, Elements
<1>6. \A b \in DOMAIN rollout :
         LET bucket == newRollout[b]
         IN  bucket = Bucket(bucket.variant, bucket.percentage) /\ bucket.percentage \in Int
  <2> TAKE b \in DOMAIN rollout
  <2> DEFINE p == rollout[b].percentage
  <2>1. p \in Int
    BY <1>2, <1>3 DEF ToSet
  <2>2. newRollout[b] = BodyBucket(rollout[b])
    OBVIOUS
  <2>3. Max({0, p}) \in Int
    BY <2>1, MaxOfTwo
  <2>4. \A v, q : /\ Bucket(v, q).variant = v /\ Bucket(v, q).percentage = q
    BY DEF Bucket
  <2> HIDE DEF newRollout
  <2> QED
    BY <2>2, <2>3, <2>4 DEF BodyBucket
<1>7. \A bucket \in R : bucket = Bucket(bucket.variant, bucket.percentage)
                        /\ bucket.percentage \in Int
  <2> HIDE DEF newRollout
  <2> QED
    BY <1>6
<1> HIDE DEF R
<1>8. IsStrategy(body)
  BY <1>1, <1>5, <1>7 DEF IsStrategy
<1> QED
  BY <1>1, <1>3, <1>4, <1>8 DEF body, variants, rollout

\* What the page sends, what is stored and what the page loads keep the invariant.
LEMMA BodyIsList ==
    ASSUME NEW list, AreStrategies(list), NEW type
    PROVE  AreStrategies(Body(type, list))
<1> DEFINE body == Body(type, list)   B == {BodyStrategy(type, s) : s \in ToSet(list)}
<1>1. list \in Seq(ToSet(list)) /\ \A s \in ToSet(list) : IsStrategy(s)
  BY DEF AreStrategies
<1>2. DOMAIN list = 1 .. Len(list) /\ Len(list) \in Nat
      /\ \A i \in DOMAIN list : list[i] \in ToSet(list)
  BY <1>1 DEF ToSet
<1>3. body = [i \in 1 .. Len(list) |-> BodyStrategy(type, list[i])]
  BY <1>2 DEF Body
<1> HIDE DEF body
<1>4. body \in Seq(B)
  BY <1>2, <1>3
<1>5. \A b \in B : IsStrategy(b)
  BY <1>1, BodyParts
<1> HIDE DEF B
<1>6. body \in Seq(ToSet(body)) /\ ToSet(body) \subseteq B
  BY <1>4, Elements
<1> QED
  BY <1>5, <1>6 DEF AreStrategies, body

LEMMA SendKeepsList ==
    ASSUME ListInv, SendStrategies
    PROVE  ListInv'
<1> DEFINE chosen == BodyPrerequisite(prerequisite)
           flag == [type |-> loaded.type, strategies |-> Body(loaded.type, strategies),
                    prerequisite |-> chosen]
<1>1. /\ sent' = <<flag>>
      /\ saved' = saved /\ loaded' = loaded /\ strategies' = strategies
      /\ prerequisite' = prerequisite /\ changes' = changes
  BY Zenon DEF SendStrategies
<1>2. AreStrategies(Body(loaded.type, strategies))
  BY BodyIsList DEF ListInv, ListTypeOK
<1>3. chosen = Prerequisite(chosen.flag, chosen.variant)
  BY Parts, Zenon DEF BodyPrerequisite
<1> DEFINE body == Body(loaded.type, strategies)
<1>4. /\ flag = [type |-> flag.type, strategies |-> flag.strategies,
                 prerequisite |-> flag.prerequisite]
      /\ flag.type = loaded.type /\ flag.strategies = body /\ flag.prerequisite = chosen
  <2>1. \A t, b, p : LET f == [type |-> t, strategies |-> b, prerequisite |-> p]
                     IN  f.type = t /\ f.strategies = b /\ f.prerequisite = p
    OBVIOUS
  <2>2. flag.type = loaded.type /\ flag.strategies = body /\ flag.prerequisite = chosen
    BY <2>1, Zenon
  <2> QED
    BY <2>2, Zenon
<1> HIDE DEF flag, body, chosen
<1>5. IsFlag(flag)
  BY <1>2, <1>3, <1>4 DEF IsFlag, body
<1>6. sent' = <<Head(sent')>> /\ Head(sent') = flag
  BY <1>1
<1>7. IsPrerequisite'
  BY <1>1, Zenon DEF ListInv, ListTypeOK, IsPrerequisite
<1>8. \A s : (Fits(s) => Fits(s)') /\ (IsStrategyRow(s) => IsStrategyRow(s)')
  BY <1>1 DEF Fits, IsStrategyRow, IsBooleanFlag
<1>9. IsFlag(Head(sent')) /\ Head(sent').type = saved'.type
  BY <1>1, <1>4, <1>5, <1>6 DEF ListInv, ListTypeOK
<1>10. ListTypeOK'
  BY <1>1, <1>6, <1>7, <1>8, <1>9 DEF ListInv, ListTypeOK
<1> QED
  BY <1>1, <1>8, <1>10 DEF ListInv

LEMMA StoreKeepsList ==
    ASSUME ListInv, StoreStrategies \/ RefuseStrategies, sent # <<>>
    PROVE  ListInv'
<1>1. /\ sent' = <<>> /\ saved' \in {saved, Head(sent)}
      /\ loaded' = loaded /\ strategies' = strategies
      /\ prerequisite' = prerequisite /\ changes' = changes
  BY Zenon DEF StoreStrategies, RefuseStrategies
<1>7. IsPrerequisite'
  BY <1>1, Zenon DEF ListInv, ListTypeOK, IsPrerequisite
<1>8. \A s : (Fits(s) => Fits(s)') /\ (IsStrategyRow(s) => IsStrategyRow(s)')
  BY <1>1 DEF Fits, IsStrategyRow, IsBooleanFlag
<1>9. IsFlag(saved') /\ loaded'.type = saved'.type
  BY <1>1 DEF ListInv, ListTypeOK
<1>10. ListTypeOK'
  BY <1>1, <1>7, <1>8, <1>9 DEF ListInv, ListTypeOK
<1> QED
  BY <1>1, <1>8, <1>10 DEF ListInv

\* The strategies of the API fit a page that has loaded them.
LEMMA ShownFit ==
    ASSUME NEW flag, IsFlag(flag), ShowStrategies(flag)
    PROVE  /\ loaded' = flag /\ strategies' = flag.strategies
           /\ AreStrategies(strategies)' /\ IsPrerequisite'
           /\ \A s \in ToSet(strategies') : Fits(s)' /\ IsStrategyRow(s)'
           /\ \A i \in DOMAIN strategies' : IsStrategyRow(strategies[i])'
<1>1. /\ loaded' = flag /\ strategies' = flag.strategies /\ prerequisite' = flag.prerequisite
  BY DEF ShowStrategies
<1>2. /\ AreStrategies(flag.strategies)
      /\ flag.prerequisite = Prerequisite(flag.prerequisite.flag, flag.prerequisite.variant)
  BY Zenon DEF IsFlag
<1>3. IsPrerequisite'
  BY <1>1, <1>2, Zenon DEF IsPrerequisite
<1> DEFINE list == flag.strategies
<1>4. list \in Seq(ToSet(list)) /\ \A s \in ToSet(list) : IsStrategy(s)
  BY <1>2 DEF AreStrategies
<1>5. loaded'.strategies = list /\ strategies' = list
  BY <1>1
<1> HIDE DEF list
<1>6. ASSUME NEW s \in ToSet(list)
      PROVE  Fits(s)' /\ IsStrategyRow(s)'
  <2>1. s.rollout \in Seq(ToSet(s.rollout))
    BY <1>4 DEF IsStrategy
  <2> DEFINE rollout == s.rollout
  <2>2. \A b \in DOMAIN rollout : rollout[b] \in ToSet(rollout)
    <3> HIDE DEF rollout
    <3> QED
      BY DEF ToSet
  <2>3. \A bucket \in ToSet(rollout) : bucket.percentage \in Percentages(list)
    BY DEF Percentages
  <2>4. \A b \in DOMAIN rollout : rollout[b].percentage \in Percentages(list)
    BY <2>2, <2>3
  <2>5. IsStrategyRow(s)'
    BY <1>5, <2>4 DEF IsStrategyRow
  <2> QED
    BY <1>4, <1>5, <2>5 DEF Fits
<1>7. \A i \in DOMAIN list : list[i] \in ToSet(list)
  BY DEF ToSet
<1> QED
  BY <1>1, <1>2, <1>3, <1>5, <1>6, <1>7

LEMMA LoadKeepsList ==
    ASSUME ListInv, LoadStrategies
    PROVE  ListInv'
<1>1. /\ IsFlag(saved) /\ ShowStrategies(saved)
      /\ saved' = saved /\ sent' = sent /\ changes' = changes
  BY DEF ListInv, ListTypeOK, LoadStrategies
<1>2. /\ loaded' = saved /\ AreStrategies(strategies)' /\ IsPrerequisite'
      /\ \A s \in ToSet(strategies') : Fits(s)'
      /\ \A i \in DOMAIN strategies' : IsStrategyRow(strategies[i])'
  BY <1>1, ShownFit
<1>3. ListTypeOK'
  BY <1>1, <1>2 DEF ListInv, ListTypeOK
<1> QED
  BY <1>2, <1>3 DEF ListInv

-----------------------------------------------------------------------------
(* What a boolean strategy serves.                                         *)

\* The running sums of PickRolloutVariant, and the buckets that a subject is within.
Cumulative(s) ==
    LET cumulative[b \in 0 .. Len(s.rollout)] ==
          IF b = 0 THEN 0 ELSE cumulative[b - 1] + s.rollout[b].percentage
    IN  cumulative
Reached(s, bucket) == {b \in DOMAIN s.rollout : bucket < Cumulative(s)[b]}

LEMMA PickOfReached ==
    ASSUME NEW s, NEW bucket
    PROVE  PickRolloutVariant(s, bucket)
             = IF Reached(s, bucket) = {} THEN s.default
               ELSE Or(s.rollout[Min(Reached(s, bucket))].variant, s.default)
BY DEF PickRolloutVariant, Cumulative, Reached

LEMMA OneBucketSum ==
    ASSUME NEW s, Len(s.rollout) = 1
    PROVE  Cumulative(s)[1] = 0 + s.rollout[1].percentage
<1> DEFINE p == s.rollout[1].percentage
    Rhs(g) == [b \in 0 .. 1 |-> IF b = 0 THEN 0 ELSE g[b - 1] + s.rollout[b].percentage]
    Solves(g) == g = Rhs(g)
    h == [b \in 0 .. 1 |-> IF b = 0 THEN 0 ELSE 0 + p]
<1>1. \A b \in 0 .. 1 : b = 0 \/ b = 1
  OBVIOUS
<1>2. Solves(h)
  <2>1. ASSUME NEW b \in 0 .. 1
        PROVE  h[b] = Rhs(h)[b]
    <3>1. CASE b = 0
      BY <3>1
    <3>2. CASE b = 1
      <4>1. h[0] = 0 /\ h[1] = 0 + p /\ 1 - 1 = 0 /\ 0 \in 0 .. 1 /\ 1 \in 0 .. 1
        OBVIOUS
      <4>2. Rhs(h)[1] = h[1 - 1] + p
        <5> HIDE DEF h
        <5> QED
          BY <4>1
      <4> HIDE DEF h, Rhs
      <4> QED
        BY <3>2, <4>1, <4>2
    <3> QED
      BY <1>1, <3>1, <3>2
  <2>2. \A g : Rhs(g) = [b \in 0 .. 1 |-> Rhs(g)[b]]
    OBVIOUS
  <2>3. h = [b \in 0 .. 1 |-> h[b]]
    OBVIOUS
  <2> HIDE DEF h, Rhs
  <2> QED
    BY <2>1, <2>2, <2>3
<1>3. Cumulative(s) = CHOOSE g : Solves(g)
  BY DEF Cumulative
<1> HIDE DEF Solves, h
<1>4. Solves(Cumulative(s))
  BY <1>2, <1>3
<1>5. \A g : Solves(g) => g[0] = 0 /\ g[1] = g[0] + p
  BY <1>1 DEF Solves
<1> QED
  BY <1>4, <1>5

\* The variant of a key that has a value.
IsKey(key) == key # ""
LEMMA KeyFound ==
    ASSUME NEW T, NEW variants \in Seq(T), NEW value, IsKey(BooleanVariantKey(variants, value))
    PROVE  \E j \in DOMAIN variants : /\ variants[j].value = value
                                      /\ variants[j].key = BooleanVariantKey(variants, value)
<1> DEFINE found == {j \in DOMAIN variants : variants[j].value = value}
<1>1. found # {} /\ BooleanVariantKey(variants, value) = variants[Min(found)].key
  BY Zenon DEF BooleanVariantKey, IsKey
<1>2. found \in SUBSET Nat
  OBVIOUS
<1> HIDE DEF found
<1>3. Min(found) \in found
  BY <1>1, <1>2, LeastNatural
<1> QED
  BY <1>1, <1>3 DEF found

\* The key of "true" is not the one of "false", and a body serves its value.
LEMMA ServedValue ==
    ASSUME NEW s, IsStrategy(s), HasBoth(s), KeysTellValues(s)
    PROVE  /\ OnVariant(s) # OffVariant(s)
           /\ \A bucket :
                LET body == BodyStrategy("boolean", s)
                IN  /\ PickRolloutVariant(body, bucket) = OnVariant(s) => ServesTrue(body, bucket)
                    /\ PickRolloutVariant(body, bucket) = OffVariant(s)
                          => ~ ServesTrue(body, bucket)
<1> DEFINE variants == s.variants   n == Len(variants)   body == BodyStrategy("boolean", s)
<1>1. variants \in Seq(ToSet(variants))
  BY DEF IsStrategy
<1>2. /\ IsKey(BooleanVariantKey(variants, "true"))
      /\ OnVariant(s) = BooleanVariantKey(variants, "true")
      /\ IsKey(BooleanVariantKey(variants, "false"))
      /\ OffVariant(s) = BooleanVariantKey(variants, "false")
  BY Zenon DEF HasBoth, OnVariant, OffVariant, IsKey
<1>3. DOMAIN variants = 1 .. n /\ n \in Nat /\ \A j \in 1 .. n : variants[j] \in ToSet(variants)
  <2> HIDE DEF variants
  <2> QED
    BY <1>1, Elements
<1>4. \A i, j \in 1 .. n : variants[i].key = variants[j].key => variants[i].value = variants[j].value
  BY <1>3 DEF KeysTellValues
<1>5. /\ DOMAIN body.variants = 1 .. n
      /\ \A j \in 1 .. n : body.variants[j] = BodyVariant("boolean", variants[j])
  BY BodyParts
<1>6. \A v : /\ BodyVariant("boolean", v).key = v.key
             /\ v.value = "true" => BodyVariant("boolean", v).value = "true"
             /\ v.value = "false" => BodyVariant("boolean", v).value = "false"
  <2>1. \A k, w : Variant(k, w).key = k /\ Variant(k, w).value = w
    BY DEF Variant
  <2>2. /\ ParseVariantValue("boolean", "true") = "true"
        /\ ParseVariantValue("boolean", "false") = "false"
    BY Zenon DEF ParseVariantValue
  <2> QED
    BY <2>1, <2>2 DEF BodyVariant
<1> HIDE DEF variants, body, n
<1>7. PICK on \in 1 .. n : variants[on].value = "true" /\ variants[on].key = OnVariant(s)
  BY <1>1, <1>2, <1>3, KeyFound
<1>8. PICK off \in 1 .. n : variants[off].value = "false" /\ variants[off].key = OffVariant(s)
  BY <1>1, <1>2, <1>3, KeyFound
<1>9. OnVariant(s) # OffVariant(s)
  BY <1>4, <1>7, <1>8
<1>10. ASSUME NEW bucket, NEW j \in 1 .. n, PickRolloutVariant(body, bucket) = variants[j].key,
              variants[j].value \in {"true", "false"}
       PROVE  ServesTrue(body, bucket) <=> variants[j].value = "true"
  <2> DEFINE found == {i \in DOMAIN body.variants :
                         body.variants[i].key = PickRolloutVariant(body, bucket)}
  <2>1. j \in found
    BY <1>5, <1>6, <1>10
  <2>2. found \in SUBSET Nat /\ \A i \in found : i \in 1 .. n /\ variants[i].key = variants[j].key
    BY <1>3, <1>5, <1>6, <1>10
  <2>3. ServesTrue(body, bucket) <=> found # {} /\ body.variants[Min(found)].value = "true"
    BY DEF ServesTrue
  <2> HIDE DEF found
  <2>4. Min(found) \in found
    BY <2>1, <2>2, LeastNatural
  <2>5. variants[Min(found)].value = variants[j].value /\ Min(found) \in 1 .. n
    BY <1>4, <2>2, <2>4
  <2>6. body.variants[Min(found)] = BodyVariant("boolean", variants[Min(found)])
    BY <1>5, <2>5
  <2>7. body.variants[Min(found)].value = variants[j].value
    BY <1>6, <1>10, <2>5, <2>6
  <2> QED
    BY <2>1, <2>3, <2>7
<1> QED
  BY <1>7, <1>8, <1>9, <1>10 DEF body

\* A strategy as the page makes it is on for the percentage that the page shows.
LEMMA SwitchedServes ==
    ASSUME NEW s, IsStrategy(s), HasBoth(s), KeysTellValues(s), IsSwitched(s)
    PROVE  Cardinality({bucket \in 0 .. 99 : ServesTrue(BodyStrategy("boolean", s), bucket)})
             = ShownPercentage(s)
<1> DEFINE body == BodyStrategy("boolean", s)   picked(bucket) == PickRolloutVariant(body, bucket)
    on == OnVariant(s)   off == OffVariant(s)   rollout == s.rollout
    subjects == {bucket \in 0 .. 99 : ServesTrue(body, bucket)}
<1>1. /\ on # off
      /\ \A bucket : /\ picked(bucket) = on => ServesTrue(body, bucket)
                     /\ picked(bucket) = off => ~ ServesTrue(body, bucket)
  BY ServedValue
<1>2. /\ body.default = s.default /\ DOMAIN body.rollout = 1 .. Len(rollout)
      /\ Len(body.rollout) = Len(rollout)
      /\ \A b \in 1 .. Len(rollout) : body.rollout[b] = BodyBucket(rollout[b])
  BY BodyParts
<1>3. \A d : Or(on, d) = on
  BY OrFirst
<1>4. on # ""
  BY Zenon DEF HasBoth
<1>5. CASE rollout = <<>> /\ s.default \in {on, off}
  <2>1. Len(rollout) = 0
    <3> HIDE DEF rollout
    <3> QED
      BY <1>5
  <2>2. DOMAIN body.rollout = {}
    <3> HIDE DEF body, rollout
    <3> QED
      BY <1>2, <2>1
  <2>3. \A bucket : Reached(body, bucket) = {}
    BY <2>2, Zenon DEF Reached
  <2>4. \A bucket : picked(bucket) = s.default
    BY <1>2, <2>3, PickOfReached, Zenon
  <2>5. ShownPercentage(s) = IF s.default = on THEN 100 ELSE 0
    <3>1. StrategyTypeOf(s) # "gradual"
      BY <1>5 DEF StrategyTypeOf
    <3> QED
      BY <1>4, <3>1, Zenon DEF ShownPercentage
  <2> HIDE DEF picked, on, off
  <2>6. CASE s.default = on
    <3>1. subjects = 0 .. 99
      BY <1>1, <2>4, <2>6
    <3>2. Cardinality(0 .. 99) = 100
      <4>1. 0 \in Int /\ 99 \in Int
        OBVIOUS
      <4>2. Cardinality(0 .. 99) = IF 0 > 99 THEN 0 ELSE 99 - 0 + 1
        BY <4>1, FS_Interval
      <4> QED
        BY <4>2
    <3> HIDE DEF subjects
    <3> QED
      BY <2>5, <2>6, <3>1, <3>2 DEF subjects
  <2>7. CASE s.default = off
    <3>1. subjects = {}
      BY <1>1, <2>4, <2>7
    <3>2. Cardinality({}) = 0
      BY FS_EmptySet
    <3> HIDE DEF subjects
    <3> QED
      BY <1>1, <2>5, <2>7, <3>1, <3>2 DEF subjects
  <2> QED
    BY <1>5, <2>6, <2>7
<1>6. ASSUME s.default = off, NEW p \in {Untyped} \cup 0 .. 100, rollout = <<Bucket(on, p)>>
      PROVE  Cardinality(subjects) = ShownPercentage(s)
  <2> DEFINE q == Max({0, p})   bucket1 == Bucket(on, p)
  <2>0. bucket1.variant = on /\ bucket1.percentage = p
    BY DEF Bucket
  <2>1. /\ Len(rollout) = 1 /\ rollout[1] = bucket1 /\ DOMAIN rollout = {1}
        /\ rollout # <<>>
    <3>1. rollout = <<bucket1>>
      BY <1>6
    <3> HIDE DEF rollout, bucket1
    <3> QED
      BY <3>1
  <2>2. p \in Int /\ p <= 100
    BY <1>6 DEF Untyped
  <2>3. q \in 0 .. 100
    BY <2>2, MaxOfTwo
  <2>4. /\ body.rollout[1].variant = on /\ body.rollout[1].percentage = q
        /\ DOMAIN body.rollout = {1} /\ Len(body.rollout) = 1
    <3>1. body.rollout[1] = BodyBucket(bucket1)
      BY <1>2, <2>1
    <3>2. BodyBucket(bucket1) = Bucket(on, q)
      BY <2>0, Zenon DEF BodyBucket
    <3>3. \A v, n : Bucket(v, n).variant = v /\ Bucket(v, n).percentage = n
      BY DEF Bucket
    <3>4. body.rollout[1].variant = on /\ body.rollout[1].percentage = q
      <4> HIDE DEF body, q, on, bucket1
      <4> QED
        BY <3>1, <3>2, <3>3
    <3>5. DOMAIN body.rollout = {1} /\ Len(body.rollout) = 1
      <4> HIDE DEF body, rollout
      <4> QED
        BY <1>2, <2>1
    <3> QED
      BY <3>4, <3>5
  <2> HIDE DEF q, bucket1
  <2>5. Cumulative(body)[1] = q
    <3>1. Cumulative(body)[1] = 0 + q
      BY <2>4, OneBucketSum, Zenon
    <3> QED
      BY <2>3, <3>1
  <2>6. \A bucket \in 0 .. 99 : Reached(body, bucket) = IF bucket < q THEN {1} ELSE {}
    <3> HIDE DEF body
    <3> QED
      BY <2>4, <2>5 DEF Reached
  <2>7. Min({1}) = 1
    BY LeastNatural, {1} \in SUBSET Nat
  <2>8. ASSUME NEW bucket \in 0 .. 99
        PROVE  picked(bucket) = IF bucket < q THEN on ELSE off
    <3>1. CASE bucket < q
      <4>1. Reached(body, bucket) = {1} /\ Reached(body, bucket) # {}
        BY <2>6, <3>1
      <4>2. picked(bucket) = Or(body.rollout[1].variant, body.default)
        BY <2>7, <4>1, PickOfReached, Zenon
      <4> QED
        BY <1>3, <2>4, <3>1, <4>2, Zenon
    <3>2. CASE ~ bucket < q
      <4>1. Reached(body, bucket) = {}
        BY <2>6, <3>2
      <4> QED
        BY <1>2, <1>6, <3>2, <4>1, PickOfReached, Zenon
    <3> QED
      BY <3>1, <3>2
  <2>9. Cardinality(subjects) = q
    <3>1. subjects = 0 .. q - 1
      <4> HIDE DEF picked, on, off, body
      <4> QED
        BY <1>1, <2>3, <2>8
    <3>2. Cardinality(0 .. q - 1) = q
      <4>1. 0 \in Int /\ q - 1 \in Int
        BY <2>3
      <4>2. Cardinality(0 .. q - 1) = IF 0 > q - 1 THEN 0 ELSE q - 1 - 0 + 1
        BY <4>1, FS_Interval
      <4> QED
        BY <2>3, <4>2
    <3> QED
      BY <3>1, <3>2
  <2>10. RolloutPercentage(s) = p
    <3> DEFINE ons == {b \in DOMAIN s.rollout : s.rollout[b].variant = OnVariant(s)}
    <3>1. ons = {1}
      BY <2>0, <2>1
    <3>2. RolloutPercentage(s) = s.rollout[IF ons = {} THEN 1 ELSE Min(ons)].percentage
      BY DEF RolloutPercentage
    <3> HIDE DEF ons
    <3>3. RolloutPercentage(s) = s.rollout[1].percentage
      BY <2>7, <3>1, <3>2
    <3> QED
      BY <2>0, <2>1, <3>3
  <2>11. ShownPercentage(s) = Max({0, RolloutPercentage(s)})
    <3>1. StrategyTypeOf(s) = "gradual"
      BY <2>1 DEF StrategyTypeOf
    <3> QED
      BY <3>1, Zenon DEF ShownPercentage
  <2> QED
    BY <2>9, <2>10, <2>11 DEF q
<1>7. \/ rollout = <<>> /\ s.default \in {on, off}
      \/ s.default = off /\ \E p \in {Untyped} \cup 0 .. 100 : rollout = <<Bucket(on, p)>>
  BY Zenon DEF IsSwitched
<1>8. ASSUME rollout = <<>> /\ s.default \in {on, off}
      PROVE  Cardinality(subjects) = ShownPercentage(s)
  BY <1>5, <1>8
<1> HIDE DEF on, off, rollout, subjects
<1>9. Cardinality(subjects) = ShownPercentage(s)
  BY <1>6, <1>7, <1>8, Zenon
<1> QED
  BY <1>9 DEF subjects

\* The property of the switches and sliders, from the invariant.
LEMMA InvariantShows ==
    ASSUME ListInv
    PROVE  BooleanIsAsShown
<1> SUFFICES ASSUME NEW i \in DOMAIN strategies, IsBooleanFlag, HasBoth(strategies[i]),
                    KeysTellValues(strategies[i]), strategies[i] \notin ToSet(loaded.strategies)
             PROVE  LET s == strategies[i]
                    IN  Cardinality({bucket \in 0 .. 99 :
                                       ServesTrue(BodyStrategy(loaded.type, s), bucket)})
                          = ShownPercentage(s)
  BY Zenon DEF BooleanIsAsShown
<1> DEFINE s == strategies[i]
<1>1. Fits(s)
  BY StrategyParts
<1>2. IsStrategy(s) /\ IsSwitched(s) /\ loaded.type = "boolean"
  BY <1>1 DEF Fits, IsBooleanFlag
<1>3. HasBoth(s) /\ KeysTellValues(s)
  OBVIOUS
<1> HIDE DEF s
<1>4. Cardinality({bucket \in 0 .. 99 : ServesTrue(BodyStrategy("boolean", s), bucket)})
        = ShownPercentage(s)
  BY <1>2, <1>3, SwitchedServes
<1> QED
  BY <1>2, <1>4 DEF s

-----------------------------------------------------------------------------
(* The invariant of the page, and the theorems.                            *)

IInv == RowsInv /\ ListInv /\ (saving = <<>> <=> sent = <<>>)

LEMMA PayloadIsProper ==
    ASSUME RowsInv
    PROVE  Proper(Payload, 5)
<1>1. Proper(RuleToCondition(form), 5)
  BY RowsAreForm, RuleSound DEF RowsInv
<1>2. raw = <<>> \/ raw = <<fetched>>
  BY DEF RowsInv, RowsTypeOK
<1>3. Proper(fetched, 5)
  BY DEF RowsInv
<1>4. raw # <<>> => Head(raw) = fetched
  BY <1>2
<1>5. Payload = RuleToCondition(form) \/ (raw # <<>> /\ Payload = Head(raw))
  BY Zenon DEF Payload
<1> QED
  BY <1>1, <1>3, <1>4, <1>5

LEMMA RequestsKeepRows ==
    ASSUME RowsInv, SendRows \/ StoreRows \/ RefuseRows \/ LoadRows
    PROVE  RowsInv'
<1>1. CASE SendRows
  <2>1. /\ saving' = <<Payload>> /\ stored' = stored /\ fetched' = fetched /\ form' = form
        /\ raw' = raw /\ edits' = edits
    BY <1>1 DEF SendRows
  <2>2. saving' = <<Head(saving')>> /\ Head(saving') = Payload
    <3> DEFINE p == Payload
    <3> HIDE DEF p
    <3>1. saving' = <<p>>
      BY <2>1 DEF p
    <3>2. saving' = <<Head(saving')>> /\ Head(saving') = p
      BY <3>1
    <3> QED
      BY <3>2 DEF p
  <2>3. Proper(stored', 5) /\ Proper(fetched', 5) /\ Proper(Head(saving'), 5)
    BY <2>1, <2>2, PayloadIsProper DEF RowsInv
  <2>4. RowsTypeOK'
    BY <2>1 DEF RowsInv, RowsTypeOK
  <2> QED
    BY <2>2, <2>3, <2>4 DEF RowsInv, Proper
<1>2. CASE StoreRows \/ RefuseRows
  <2>1. /\ saving # <<>> /\ saving' = <<>> /\ stored' \in {stored, Head(saving)}
        /\ fetched' = fetched /\ form' = form /\ raw' = raw /\ edits' = edits
    BY <1>2, Zenon DEF StoreRows, RefuseRows
  <2>2. Proper(stored', 5) /\ Proper(fetched', 5)
    BY <2>1 DEF RowsInv
  <2>3. RowsTypeOK'
    BY <2>1 DEF RowsInv, RowsTypeOK
  <2> QED
    BY <2>1, <2>2, <2>3 DEF RowsInv, Proper
<1>3. CASE LoadRows
  <2>1. /\ fetched' = stored /\ form' = ParsedForm(stored) /\ raw' = ParsedRaw(stored)
        /\ stored' = stored /\ saving' = saving /\ edits' = edits
    BY <1>3 DEF LoadRows, ShowRows
  <2>2. Proper(stored, 5)
    BY DEF RowsInv
  <2>3. /\ form' \in [combinator : COMBINATORS, items : Seq(Items) \ {<<>>}]
        /\ AreRows(form'.items) /\ raw' \in {<<>>, <<stored>>}
    BY <2>1, <2>2, ParsedIsTyped
  <2>4. RowsTypeOK'
    BY <2>1, <2>3 DEF RowsInv, RowsTypeOK, AreRows
  <2>5. Proper(stored', 5) /\ Proper(fetched', 5)
    BY <2>1, <2>2
  <2> QED
    BY <2>1, <2>4, <2>5 DEF RowsInv, Proper
<1> QED
  BY <1>1, <1>2, <1>3

LEMMA InitKeeps == Init => IInv
<1> SUFFICES ASSUME Init PROVE IInv
  OBVIOUS
<1>1. /\ stored \in Stored /\ saved \in Opened
      /\ edits \in {0, MaxEdits} /\ changes \in {0, MaxChanges}
  <2>1. (CHOOSE c \in Stored : TRUE) \in Stored
    BY StoredAssumption
  <2>2. (CHOOSE flag \in Opened : TRUE) \in Opened
    BY OpenedAssumption
  <2> QED
    BY <2>1, <2>2, Zenon DEF Init
<1>2. /\ fetched = stored /\ form = ParsedForm(stored) /\ raw = ParsedRaw(stored)
      /\ loaded = saved /\ strategies = saved.strategies
      /\ prerequisite = saved.prerequisite
      /\ saving = <<>> /\ sent = <<>>
  BY DEF Init
<1>3. edits \in 0 .. MaxEdits /\ changes \in 0 .. MaxChanges
  <2>1. MaxEdits \in Nat /\ MaxChanges \in Nat
    BY BoundAssumption, ChangesAssumption
  <2> QED
    BY <1>1, <2>1
<1>4. RowsInv
  <2>1. Proper(stored, 5)
    BY <1>1, StoredAssumption, ConditionIsProper
  <2>2. /\ form \in [combinator : COMBINATORS, items : Seq(Items) \ {<<>>}]
        /\ AreRows(form.items) /\ raw \in {<<>>, <<stored>>}
    BY <1>2, <2>1, ParsedIsTyped
  <2>3. RowsTypeOK
    BY <1>2, <1>3, <2>2 DEF RowsTypeOK, AreRows
  <2> QED
    BY <1>2, <2>1, <2>3 DEF RowsInv
<1>5. ListInv
  <2>1. IsFlag(saved)
    BY <1>1, OpenedAssumption
  <2>2. /\ AreStrategies(saved.strategies)
        /\ saved.prerequisite = Prerequisite(saved.prerequisite.flag, saved.prerequisite.variant)
    BY <2>1, Zenon DEF IsFlag
  <2>3. IsPrerequisite
    BY <1>2, <2>2, Zenon DEF IsPrerequisite
  <2>4. \A s \in ToSet(strategies) : Fits(s) /\ IsStrategyRow(s)
    <3> SUFFICES ASSUME NEW s \in ToSet(strategies) PROVE Fits(s) /\ IsStrategyRow(s)
      OBVIOUS
    <3>1. IsStrategy(s) /\ s \in ToSet(loaded.strategies)
      BY <1>2, <2>2 DEF AreStrategies
    <3> DEFINE rollout == s.rollout
    <3>2. \A b \in DOMAIN rollout : rollout[b] \in ToSet(rollout)
      <4> HIDE DEF rollout
      <4> QED
        BY DEF ToSet
    <3>3. \A bucket \in ToSet(rollout) : bucket.percentage \in Percentages(loaded.strategies)
      BY <3>1 DEF Percentages
    <3>4. \A b \in DOMAIN rollout : rollout[b].percentage \in Percentages(loaded.strategies)
      BY <3>2, <3>3
    <3>5. IsStrategyRow(s)
      BY <3>1, <3>4 DEF IsStrategyRow
    <3> QED
      BY <3>1, <3>5 DEF Fits
  <2>5. \A i \in DOMAIN strategies : IsStrategyRow(strategies[i])
    BY <2>4 DEF ToSet
  <2>6. ListTypeOK
    BY <1>2, <1>3, <2>1, <2>2, <2>3, <2>5 DEF ListTypeOK
  <2> QED
    BY <2>4, <2>6 DEF ListInv
<1> QED
  BY <1>2, <1>4, <1>5 DEF IInv

LEMMA NextKeeps == IInv /\ [Next]_vars => IInv'
<1> SUFFICES ASSUME IInv, [Next]_vars PROVE IInv'
  OBVIOUS
<1>0. RowsInv /\ ListInv /\ (saving = <<>> <=> sent = <<>>)
  BY DEF IInv
<1>1. UNCHANGED rowVars => RowsInv'
  BY <1>0 DEF rowVars, RowsInv, RowsTypeOK, Proper
<1>2. UNCHANGED listVars => ListInv'
  <2> SUFFICES ASSUME UNCHANGED listVars PROVE ListInv'
    OBVIOUS
  <2>1. /\ saved' = saved /\ loaded' = loaded /\ strategies' = strategies
        /\ prerequisite' = prerequisite /\ sent' = sent /\ changes' = changes
    BY DEF listVars
  <2>2. IsPrerequisite'
    BY <1>0, <2>1, Zenon DEF ListInv, ListTypeOK, IsPrerequisite
  <2>3. \A s : (Fits(s) => Fits(s)') /\ (IsStrategyRow(s) => IsStrategyRow(s)')
    BY <2>1 DEF Fits, IsStrategyRow, IsBooleanFlag
  <2>4. ListTypeOK'
    BY <1>0, <2>1, <2>2, <2>3 DEF ListInv, ListTypeOK
  <2> QED
    BY <1>0, <2>1, <2>3, <2>4 DEF ListInv
<1>3. CASE EditsRows /\ UNCHANGED listVars
  <2>1. RowsInv' /\ ListInv'
    BY <1>0, <1>2, <1>3, EditsKeepRows
  <2>2. saving' = saving /\ sent' = sent
    BY <1>3, Zenon DEF listVars, EditsRows, AddCondition, AddConditionGroup,
       UpdateConditionConnector, UpdateGroup, AddGroupCondition, RemoveCondition,
       RemoveGroupCondition, UpdateCondition, EditRows
  <2> QED
    BY <1>0, <2>1, <2>2 DEF IInv
<1>4. CASE EditsStrategies /\ UNCHANGED rowVars
  <2>1. RowsInv' /\ ListInv'
    BY <1>0, <1>1, <1>4, EditsKeepList
  <2>2. saving' = saving /\ sent' = sent
    BY <1>4, Zenon DEF rowVars, EditsStrategies, AddStrategy, RemoveStrategy, MoveStrategy,
       SetStrategyType, SetBooleanStandardValue, SetBooleanRolloutPercentage, EditVariants,
       AddVariant, UpdateVariant, RemoveVariant, EditRollout, AddRolloutBucket,
       UpdateRolloutBucket, RemoveRolloutBucket, SelectPrerequisite,
       SelectPrerequisiteVariant, Update, Edit
  <2> QED
    BY <1>0, <2>1, <2>2 DEF IInv
<1>5. CASE Save
  <2>1. RowsInv' /\ ListInv'
    BY <1>0, <1>5, RequestsKeepRows, SendKeepsList DEF Save
  <2>2. saving' # <<>> /\ sent' # <<>>
    <3>1. \A v : <<v>> # <<>>
      OBVIOUS
    <3> QED
      BY <1>5, <3>1, Zenon DEF Save, SendRows, SendStrategies
  <2> QED
    BY <2>1, <2>2 DEF IInv
<1>6. CASE Saved \/ SaveFailed
  <2>1. saving # <<>> /\ saving' = <<>> /\ sent' = <<>>
    BY <1>6, Zenon DEF Saved, SaveFailed, StoreRows, RefuseRows, StoreStrategies, RefuseStrategies
  <2>2. RowsInv' /\ ListInv'
    BY <1>0, <1>6, <2>1, RequestsKeepRows, StoreKeepsList DEF Saved, SaveFailed
  <2> QED
    BY <2>1, <2>2 DEF IInv
<1>7. CASE Refetch
  <2>1. RowsInv' /\ ListInv'
    BY <1>0, <1>7, RequestsKeepRows, LoadKeepsList DEF Refetch
  <2>2. saving' = saving /\ sent' = sent
    BY <1>7, Zenon DEF Refetch, LoadRows, LoadStrategies
  <2> QED
    BY <1>0, <2>1, <2>2 DEF IInv
<1>8. CASE UNCHANGED vars
  <2>1. UNCHANGED rowVars /\ UNCHANGED listVars
    BY <1>8 DEF vars, rowVars, listVars
  <2>2. saving' = saving /\ sent' = sent
    BY <2>1 DEF rowVars, listVars
  <2> QED
    BY <1>0, <1>1, <1>2, <2>1, <2>2 DEF IInv
<1> QED
  BY <1>3, <1>4, <1>5, <1>6, <1>7, <1>8 DEF Next

THEOREM Invariance == Spec => []IInv
<1>1. Init => IInv
  BY InitKeeps
<1>2. IInv /\ [Next]_vars => IInv'
  BY NextKeeps
<1> QED
  BY <1>1, <1>2, PTL DEF Spec

\* The rows, the strategies, what is kept for them and what is in flight have their
\* types, through every edit, save and refetch (flag-editor.tsx).
THEOREM TypeCorrect == Spec => []TypeOK
<1>1. IInv => TypeOK
  BY DEF IInv, RowsInv, ListInv, TypeOK
<1> QED
  BY <1>1, Invariance, PTL

\* Whatever the edits, the condition that ruleToCondition makes of the rows comes to
\* what the page reads, an error included, in every context.
THEOREM SavedIsShown == Spec => []SavedMeansShown
<1>1. IInv => SavedMeansShown
  BY RowsAreForm, SavedAsShown DEF IInv, RowsInv
<1> QED
  BY <1>1, Invariance, PTL

\* A page that is saved as it opened leaves what the flag evaluates to: parseStrategy
\* and save are inverse in meaning, for every condition that the API can have stored.
THEOREM UneditedIsKept == Spec => []UneditedSaveKeepsMeaning
<1>1. IInv => UneditedSaveKeepsMeaning
  BY UneditedKeeps DEF IInv, RowsInv
<1> QED
  BY <1>1, Invariance, PTL

\* The percentage that the page shows for a strategy of booleans that it has made or
\* edited is the share of the subjects that the strategy will be on for.
THEOREM BooleanServes == Spec => []BooleanIsAsShown
<1>1. IInv => BooleanIsAsShown
  BY InvariantShows DEF IInv
<1> QED
  BY <1>1, Invariance, PTL
=============================================================================
