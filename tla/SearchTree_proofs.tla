-------------------------- MODULE SearchTree_proofs -------------------------
(* Lemmas about the tree of nodes, for any trees: what closing a node and  *)
(* branching on one do to it, whoever does it.  Both modes of the search   *)
(* are proved from them.                                                   *)
EXTENDS SearchTree, FiniteSetTheorems, WellFoundedInduction, TLAPS

(* A non-empty set of naturals has a least element. *)
LEMMA LeastNatural ==
  ASSUME NEW S \in SUBSET Nat, S # {}
  PROVE  \E x \in S : \A y \in S : x <= y
<1> DEFINE R == {p \in Nat \X Nat : p[1] < p[2]}
<1>1. IsWellFoundedOn(R, Nat)
  BY NatLessThanWellFounded, Zenon DEF OpToRel
<1>2. PICK x \in S : \A y \in S : ~(<<y, x>> \in R)
  BY <1>1, WFMin, Zenon
<1>3. \A y \in Nat : y < x => <<y, x>> \in R
  OBVIOUS
<1>4. ASSUME NEW y \in S PROVE x <= y
  <2> HIDE DEF R
  <2>1. x \in Nat /\ y \in Nat
    OBVIOUS
  <2>2. ~(y < x)
    BY <1>2, <1>3, <2>1, Zenon
  <2> QED BY <2>1, <2>2
<1> QED BY <1>4

(* The minimum that the queues and the scans compute. *)
LEMMA MinOfNaturals ==
  ASSUME NEW S \in SUBSET Nat, S # {}
  PROVE  Min(S) \in S /\ \A y \in S : Min(S) <= y
  BY LeastNatural DEF Min

-----------------------------------------------------------------------------
(* The way up to the root.                                                 *)

(* Each step of the way up halves the number of the node. *)
LEMMA WayUpHalves ==
  ASSUME NEW n \in Nat
  PROVE  /\ WayUp(n) \in [0..n -> Nat]
         /\ WayUp(n)[0] = n
         /\ \A k \in 1..n : WayUp(n)[k] = WayUp(n)[k - 1] \div 2
<1> DEFINE Way(f, N) == f[0] = n /\ \A k \in 1..N : f[k] = f[k - 1] \div 2
           Bad == {N \in Nat : ~ \E f \in [0..N -> Nat] : Way(f, N)}
<1>1. Bad = {}
  <2>1. SUFFICES ASSUME Bad # {} PROVE FALSE
    OBVIOUS
  <2>2. PICK N \in Bad : \A y \in Bad : N <= y
    BY <2>1, LeastNatural
  <2>3. CASE N = 0
    <3>1. [k \in 0..0 |-> n] \in [0..0 -> Nat] /\ Way([k \in 0..0 |-> n], 0)
      OBVIOUS
    <3> QED BY <3>1, <2>3
  <2>4. CASE N # 0
    <3>0. N \in Nat /\ N - 1 \in Nat /\ ~(N <= N - 1)
      BY <2>2, <2>4
    <3>1. N \in Nat /\ N - 1 \in Nat /\ N - 1 \notin Bad
      BY <3>0, <2>2
    <3>2. PICK f \in [0..(N - 1) -> Nat] : Way(f, N - 1)
      BY <3>1
    <3> DEFINE g == [k \in 0..N |-> IF k = N THEN f[N - 1] \div 2 ELSE f[k]]
    <3>3. g \in [0..N -> Nat]
      BY <3>1
    <3>4. g[0] = n
      BY <3>1, <3>2, <2>4
    <3>5. ASSUME NEW k \in 1..N PROVE g[k] = g[k - 1] \div 2
      <4>1. k - 1 \in 0..(N - 1) /\ k - 1 \in 0..N /\ k - 1 # N
        BY <3>1
      <4>2. g[k - 1] = f[k - 1]
        BY <4>1
      <4>3. CASE k = N
        <5>1. g[k] = f[N - 1] \div 2
          BY <3>1, <4>3
        <5> QED BY <4>2, <4>3, <5>1
      <4>4. CASE k # N
        <5>1. k \in 1..(N - 1) /\ k \in 0..N
          BY <3>1, <4>4
        <5>2. g[k] = f[k]
          BY <4>4, <5>1
        <5>3. f[k] = f[k - 1] \div 2
          BY <3>2, <5>1
        <5> QED BY <4>2, <5>2, <5>3
      <4> QED BY <4>3, <4>4
    <3> QED BY <3>3, <3>4, <3>5
  <2> QED BY <2>3, <2>4
<1>2. PICK f \in [0..n -> Nat] : Way(f, n)
  BY <1>1
<1>3. f = [k \in 0..n |-> IF k = 0 THEN n ELSE f[k - 1] \div 2]
  BY <1>2
<1> DEFINE up == CHOOSE g : g = [k \in 0..n |-> IF k = 0 THEN n ELSE g[k - 1] \div 2]
<1>4. up = [k \in 0..n |-> IF k = 0 THEN n ELSE up[k - 1] \div 2]
  BY <1>3
<1>5. WayUp(n) = up
  BY DEF WayUp
<1> HIDE DEF up
<1>6. up[0] = n /\ \A k \in 1..n : up[k] = up[k - 1] \div 2
  BY <1>4
<1>7. \A k \in 0..n : up[k] \in Nat
  <2> DEFINE Odd == {k \in 0..n : up[k] \notin Nat}
  <2>1. SUFFICES ASSUME Odd # {} PROVE FALSE
    OBVIOUS
  <2>2. Odd \in SUBSET Nat
    OBVIOUS
  <2>3. PICK N \in Odd : \A y \in Odd : N <= y
    BY <2>1, <2>2, LeastNatural
  <2>4. N \in 1..n /\ N - 1 \in 0..n /\ N - 1 \notin Odd
    BY <2>3, <1>6
  <2>5. up[N - 1] \in Nat
    BY <2>4
  <2> QED BY <2>4, <2>5, <1>6
<1> QED BY <1>4, <1>5, <1>7

(* It goes down at least by one with every step. *)
LEMMA WayUpDescends ==
  ASSUME NEW n \in Nat, NEW k \in 0..n, WayUp(n)[k] # 0
  PROVE  WayUp(n)[k] <= n - k
<1> DEFINE c == WayUp(n)
           Bad == {j \in 0..n : c[j] # 0 /\ ~(c[j] <= n - j)}
<1>1. /\ c \in [0..n -> Nat] /\ c[0] = n
      /\ \A j \in 1..n : c[j] = c[j - 1] \div 2
  BY WayUpHalves
<1> HIDE DEF c
<1>2. SUFFICES ASSUME Bad # {} PROVE FALSE
  BY DEF c
<1>3. Bad \in SUBSET Nat
  OBVIOUS
<1>4. PICK j \in Bad : \A y \in Bad : j <= y
  BY <1>2, <1>3, LeastNatural
<1>5. j \in 1..n /\ j - 1 \in 0..n /\ j - 1 \notin Bad
  BY <1>1, <1>4
<1>6. c[j] = c[j - 1] \div 2 /\ c[j] # 0 /\ c[j - 1] \in Nat
  BY <1>1, <1>4, <1>5
<1>7. c[j - 1] # 0 /\ c[j - 1] <= n - (j - 1)
  BY <1>5, <1>6
<1>8. c[j] <= c[j - 1] - 1
  BY <1>6, <1>7
<1> QED BY <1>4, <1>5, <1>6, <1>7, <1>8

(* The parent of a node, and of each of its ancestors, is an ancestor. *)
LEMMA AncestorsClimb ==
  ASSUME NEW n \in Nat
  PROVE  /\ Ancestors(n) \subseteq Nat
         /\ n >= 2 => n \div 2 \in Ancestors(n)
         /\ \A a \in Ancestors(n) : a >= 1 /\ a < n
         /\ \A a \in Ancestors(n) : a >= 2 => a \div 2 \in Ancestors(n)
         /\ \A a \in Ancestors(n) : a = n \div 2 \/ \E b \in Ancestors(n) : a = b \div 2
<1> DEFINE c == WayUp(n)
<1>1. /\ c \in [0..n -> Nat] /\ c[0] = n
      /\ \A j \in 1..n : c[j] = c[j - 1] \div 2
  BY WayUpHalves
<1>2. \A j \in 0..n : c[j] # 0 => c[j] <= n - j
  BY WayUpDescends
<1>3. Ancestors(n) = {c[j] : j \in 1..n} \ {0}
  BY DEF Ancestors
<1> HIDE DEF c
<1>4. n >= 2 => n \div 2 \in Ancestors(n)
  <2>1. ASSUME n >= 2 PROVE 1 \in 1..n /\ c[1] = n \div 2 /\ n \div 2 # 0
    BY <2>1, <1>1
  <2> QED BY <2>1, <1>3
<1>5. ASSUME NEW a \in Ancestors(n)
      PROVE  /\ a \in Nat /\ a >= 1 /\ a < n
             /\ a >= 2 => a \div 2 \in Ancestors(n)
             /\ a = n \div 2 \/ \E b \in Ancestors(n) : a = b \div 2
  <2>1. PICK j \in 1..n : a = c[j]
    BY <1>3
  <2>2. a \in Nat /\ a # 0 /\ a <= n - j
    BY <2>1, <1>1, <1>2, <1>3
  <2>3. ASSUME a >= 2 PROVE a \div 2 \in Ancestors(n)
    <3>1. j + 1 \in 1..n /\ (j + 1) - 1 = j
      BY <2>2, <2>3
    <3>2. c[j + 1] = c[j] \div 2
      <4>1. c[j + 1] = c[(j + 1) - 1] \div 2
        BY <3>1, <1>1
      <4> QED BY <3>1, <4>1
    <3>3. a \div 2 # 0
      BY <2>2, <2>3
    <3> QED BY <3>1, <3>2, <3>3, <2>1, <1>3
  <2>4. a = n \div 2 \/ \E b \in Ancestors(n) : a = b \div 2
    <3>1. a = c[j - 1] \div 2
      BY <2>1, <1>1
    <3>2. CASE j = 1
      BY <3>1, <3>2, <1>1
    <3>3. CASE j # 1
      <4>0. j - 1 \in 1..n /\ j - 1 \in 0..n
        BY <3>3
      <4>1. j - 1 \in 1..n /\ c[j - 1] \in Nat
        BY <4>0, <1>1
      <4>2. c[j - 1] # 0
        BY <3>1, <4>1, <2>2
      <4> QED BY <3>1, <4>1, <4>2, <1>3
    <3> QED BY <3>2, <3>3
  <2> QED BY <2>2, <2>3, <2>4
<1> QED BY <1>4, <1>5

(* What holds of the parent and passes to the parent of an ancestor holds  *)
(* of all ancestors.                                                       *)
LEMMA AncestorInduction ==
  ASSUME NEW n \in Nat, NEW S,
         n >= 2 => n \div 2 \in S,
         \A a \in Ancestors(n) : a \in S /\ a >= 2 => a \div 2 \in S
  PROVE  Ancestors(n) \subseteq S
<1> DEFINE Bad == {k \in Nat : \E a \in Ancestors(n) : a \notin S /\ k = n - a}
<1>1. Ancestors(n) \subseteq Nat /\ \A a \in Ancestors(n) : a >= 1 /\ a < n
  BY AncestorsClimb
<1>2. SUFFICES ASSUME NEW x \in Ancestors(n), x \notin S PROVE FALSE
  OBVIOUS
<1>3. n - x \in Bad
  BY <1>1, <1>2
<1>4. PICK k \in Bad : \A y \in Bad : k <= y
  <2>1. Bad \in SUBSET Nat /\ Bad # {}
    BY <1>3
  <2> QED BY <2>1, LeastNatural
<1>5. PICK a \in Ancestors(n) : a \notin S /\ k = n - a
  BY <1>4
<1>6. CASE a = n \div 2
  <2>1. n >= 2
    BY <1>6, <1>1, <1>5
  <2> QED BY <2>1, <1>5, <1>6
<1>7. CASE a # n \div 2
  <2>1. PICK b \in Ancestors(n) : a = b \div 2
    BY <1>5, <1>7, AncestorsClimb
  <2>2. b \in Nat /\ b >= 2 /\ b > a
    BY <2>1, <1>1, <1>5
  <2>3. CASE b \in S
    BY <2>1, <2>2, <2>3, <1>5
  <2>4. CASE b \notin S
    <3>1. n - b \in Bad /\ n - b < n - a
      BY <2>1, <2>2, <2>4, <1>1, <1>5
    <3> QED BY <3>1, <1>4, <1>5, <1>1
  <2> QED BY <2>3, <2>4
<1> QED BY <1>6, <1>7

(* The ancestors are the parent and its ancestors. *)
LEMMA AncestorsOfParent ==
  ASSUME NEW n \in Nat, n >= 2
  PROVE  Ancestors(n) = {n \div 2} \cup Ancestors(n \div 2)
<1> DEFINE h == n \div 2
<1>1. h \in Nat /\ h >= 1
  OBVIOUS
<1>2. h \in Ancestors(n)
  BY AncestorsClimb
<1> HIDE DEF h
<1>3. Ancestors(n) \subseteq {h} \cup Ancestors(h)
  <2>1. \A a \in Ancestors(n) : a \in {h} \cup Ancestors(h) /\ a >= 2
          => a \div 2 \in {h} \cup Ancestors(h)
    BY <1>1, AncestorsClimb
  <2>2. n \div 2 \in {h} \cup Ancestors(h)
    BY DEF h
  <2> DEFINE S == {h} \cup Ancestors(h)
  <2>3. n >= 2 => n \div 2 \in S
    BY <2>2
  <2>4. \A a \in Ancestors(n) : a \in S /\ a >= 2 => a \div 2 \in S
    BY <2>1
  <2> HIDE DEF S
  <2>5. Ancestors(n) \subseteq S
    BY <2>3, <2>4, AncestorInduction
  <2> QED BY <2>5 DEF S
<1>4. Ancestors(h) \subseteq Ancestors(n)
  <2>1. h >= 2 => h \div 2 \in Ancestors(n)
    BY <1>2, AncestorsClimb
  <2>2. \A a \in Ancestors(h) : a \in Ancestors(n) /\ a >= 2 => a \div 2 \in Ancestors(n)
    BY AncestorsClimb
  <2> QED BY <1>1, <2>1, <2>2, AncestorInduction
<1> QED BY <1>2, <1>3, <1>4 DEF h

(* Ancestors of ancestors are ancestors. *)
LEMMA AncestorsTransitive ==
  ASSUME NEW n \in Nat, NEW a \in Ancestors(n)
  PROVE  Ancestors(a) \subseteq Ancestors(n)
<1>1. a \in Nat
  BY AncestorsClimb
<1>2. a >= 2 => a \div 2 \in Ancestors(n)
  BY AncestorsClimb
<1>3. \A b \in Ancestors(a) : b \in Ancestors(n) /\ b >= 2 => b \div 2 \in Ancestors(n)
  BY AncestorsClimb
<1> QED BY <1>1, <1>2, <1>3, AncestorInduction

(* The ancestors of a node form a chain: the smaller of two is an ancestor *)
(* of the larger.                                                          *)
LEMMA AncestorsChain ==
  ASSUME NEW n \in Nat,
         NEW a \in {n} \cup Ancestors(n), NEW b \in Ancestors(n), b < a
  PROVE  b \in Ancestors(a) /\ b <= a \div 2
<1> DEFINE Good(N) == \A x, y \in Ancestors(N) : y < x => y \in Ancestors(x)
           Bad == {N \in Nat : ~Good(N)}
<1>1. Bad = {}
  <2>1. SUFFICES ASSUME Bad # {} PROVE FALSE
    OBVIOUS
  <2>2. Bad \in SUBSET Nat
    OBVIOUS
  <2>3. PICK N \in Bad : \A y \in Bad : N <= y
    BY <2>1, <2>2, LeastNatural
  <2>4. PICK x \in Ancestors(N), y \in Ancestors(N) : y < x /\ y \notin Ancestors(x)
    BY <2>3
  <2>5. N \in Nat /\ x \in Nat /\ y \in Nat /\ x >= 1 /\ x < N
    BY <2>3, <2>4, AncestorsClimb
  <2>6. N >= 2
    BY <2>5
  <2>7. N \div 2 \in Nat /\ N \div 2 < N
    BY <2>6
  <2>8. Good(N \div 2)
    <3>1. ~(N <= N \div 2)
      BY <2>6, <2>7
    <3> QED BY <3>1, <2>3, <2>7
  <2>9. \A z \in Ancestors(N \div 2) : z \in Nat /\ z < N \div 2
    BY <2>7, AncestorsClimb
  <2>10. Ancestors(N) = {N \div 2} \cup Ancestors(N \div 2)
    BY <2>6, <2>5, AncestorsOfParent
  <2> DEFINE h == N \div 2
  <2> HIDE DEF h, Good, Bad
  <2>11. CASE x = h
    BY <2>4, <2>5, <2>10, <2>11 DEF h
  <2>12. CASE x # h
    <3>1. x \in Ancestors(h) /\ y # h
      BY <2>4, <2>5, <2>7, <2>9, <2>10, <2>12 DEF h
    <3>2. y \in Ancestors(h)
      BY <3>1, <2>10 DEF h
    <3> QED BY <2>4, <2>8, <3>1, <3>2 DEF h, Good
  <2> QED BY <2>11, <2>12
<1>2. b \in Ancestors(a)
  BY <1>1
<1>3. a \in Nat /\ a >= 2 /\ b \in Nat
  BY AncestorsClimb
<1>4. b = a \div 2 \/ b \in Ancestors(a \div 2)
  BY <1>2, <1>3, AncestorsOfParent
<1>5. a \div 2 \in Nat
  BY <1>3
<1>6. b \in Ancestors(a \div 2) => b < a \div 2
  BY <1>5, AncestorsClimb
<1> QED BY <1>2, <1>3, <1>4, <1>5, <1>6

-----------------------------------------------------------------------------
(* The tree as every step leaves it.                                       *)

Open(n) == node[n].status \in {"pending", "branched"}
Known(n) == node[n].status \in {"pending", "branched", "closed"}
OpenKids(n) == (IF Open(2 * n) THEN 1 ELSE 0) + (IF Open(2 * n + 1) THEN 1 ELSE 0)

(* Nodes that are not freed hang on a branched node, which counts its open *)
(* children and has one.                                                   *)
TreeShape ==
    /\ \A n \in Nodes : node[n].status = "pending" => n \in DOMAIN tree /\ node[n].lb < Infinity
    /\ \A n \in Nodes : node[n].status = "branched" =>
         /\ n \in DOMAIN tree /\ tree[n].kind = "frac"
         /\ Known(2 * n) /\ Known(2 * n + 1)
         /\ node[n].kids = OpenKids(n) /\ node[n].kids # 0
    /\ \A n \in Nodes \ {1} : Known(n) =>
         n \div 2 \in Nodes /\ node[n \div 2].status = "branched"

NodeType ==
    node \in [Nodes -> [status : {"none", "pending", "branched", "closed", "freed"},
                        lb : Bounds, kids : 0..2]]

(* Then what is known of the integer points that have not been found: each *)
(* is below an open node, or below a closed one, whose bound admits it.    *)
Leaves == {l \in DOMAIN tree : tree[l].kind \in {"int", "numerical"}}
Path(l) == {l} \cup Ancestors(l)

Settled ==
    \A l \in Leaves : \E p \in Path(l) :
      /\ p \in Nodes /\ node[p].status \in {"pending", "closed"}
      /\ node[p].lb <= tree[l].obj

(* What the trees are assumed to be. *)
LEMMA TreeFacts ==
  ASSUME tree \in Trees
  PROVE  /\ Nodes \subseteq Nat \ {0}
         /\ DOMAIN tree \subseteq Nodes /\ 1 \in DOMAIN tree /\ tree[1].kind = "frac"
         /\ Infinity \in Nat
         /\ \A n \in DOMAIN tree : tree[n].obj \in Nat /\ tree[n].obj < Infinity
         /\ \A n \in DOMAIN tree : tree[n].kind = "frac" =>
              /\ 2 * n \in DOMAIN tree /\ tree[2 * n].obj >= tree[n].obj
              /\ 2 * n + 1 \in DOMAIN tree /\ tree[2 * n + 1].obj >= tree[n].obj
         /\ \A n \in DOMAIN tree \ {1} : tree[n].kind \in {"frac", "int", "numerical"} =>
              n \div 2 \in DOMAIN tree /\ tree[n \div 2].kind = "frac"
<1>1. \A t \in Trees : DOMAIN t \subseteq Nat \ {0}
  <2>1. \A t \in Trees : \E last \in DOMAIN t : DOMAIN t \subseteq 1..last
    BY SearchTreeAssumption
  <2> QED BY <2>1
<1>2. Nodes \subseteq Nat \ {0} /\ DOMAIN tree \subseteq Nodes
  BY <1>1, Zenon DEF Nodes
<1>3. 1 \in DOMAIN tree /\ tree[1].kind = "frac"
  BY SearchTreeAssumption, Zenon
<1>4. Infinity \in Nat /\ \A n \in DOMAIN tree : tree[n].obj \in 0..(Infinity - 1)
  BY SearchTreeAssumption, Zenon
<1>5. ASSUME NEW n \in DOMAIN tree, tree[n].kind = "frac"
      PROVE  \A c \in {2 * n, 2 * n + 1} : c \in DOMAIN tree /\ tree[c].obj >= tree[n].obj
  BY <1>5, SearchTreeAssumption, Zenon
<1>6. ASSUME NEW n \in DOMAIN tree \ {1}, tree[n].kind \in {"frac", "int", "numerical"}
      PROVE  n \div 2 \in DOMAIN tree /\ tree[n \div 2].kind = "frac"
  BY <1>6, SearchTreeAssumption, Zenon
<1> QED BY <1>2, <1>3, <1>4, <1>5, <1>6

(* Above a node there are fractional nodes with no larger objectives. *)
LEMMA PathIsFractional ==
  ASSUME tree \in Trees, NEW l \in DOMAIN tree, tree[l].kind \in {"frac", "int", "numerical"},
         NEW a \in Ancestors(l)
  PROVE  a \in DOMAIN tree /\ tree[a].kind = "frac" /\ tree[a].obj <= tree[l].obj
<1> DEFINE S == {x \in DOMAIN tree : tree[x].kind = "frac" /\ tree[x].obj <= tree[l].obj}
<1>1. ASSUME NEW x \in DOMAIN tree, tree[x].kind \in {"frac", "int", "numerical"}, x >= 2
      PROVE  /\ x \div 2 \in DOMAIN tree /\ tree[x \div 2].kind = "frac"
             /\ tree[x \div 2].obj <= tree[x].obj
             /\ tree[x \div 2].obj \in Nat /\ tree[x].obj \in Nat
  <2>1. x \in Nat /\ x # 1
    BY <1>1, TreeFacts
  <2>2. x \div 2 \in DOMAIN tree /\ tree[x \div 2].kind = "frac"
    BY <1>1, <2>1, TreeFacts
  <2>3. x = 2 * (x \div 2) \/ x = 2 * (x \div 2) + 1
    BY <2>1
  <2>4. tree[x].obj >= tree[x \div 2].obj
    BY <2>2, <2>3, TreeFacts
  <2> QED BY <2>2, <2>4, <1>1, TreeFacts
<1>2. l \in Nat /\ tree[l].obj \in Nat
  BY TreeFacts
<1>3. l >= 2 => l \div 2 \in S
  BY <1>1
<1>4. \A x \in Ancestors(l) : x \in S /\ x >= 2 => x \div 2 \in S
  BY <1>1, <1>2
<1>5. Ancestors(l) \subseteq S
  BY <1>2, <1>3, <1>4, AncestorInduction
<1> QED BY <1>5

(* What is above an open node is branched. *)
LEMMA AboveIsBranched ==
  ASSUME tree \in Trees, TreeShape, NEW n \in Nodes, Known(n), NEW a \in Ancestors(n)
  PROVE  a \in Nodes /\ node[a].status = "branched"
<1> DEFINE S == {x \in Nodes : node[x].status = "branched"}
<1>1. Nodes \subseteq Nat \ {0}
  BY TreeFacts
<1>2. ASSUME NEW x \in Nodes, Known(x), x >= 2 PROVE x \div 2 \in S
  BY <1>1, <1>2 DEF TreeShape
<1>3. \A x \in Ancestors(n) : x \in S /\ x >= 2 => x \div 2 \in S
  BY <1>2 DEF Known
<1>4. Ancestors(n) \subseteq S
  BY <1>1, <1>2, <1>3, AncestorInduction
<1> QED BY <1>4

(* The climb from n ends at m. *)
Climb(n, m) ==
    /\ m \in {n} \cup Finished(n) /\ m \in Nodes /\ m <= n /\ Open(m)
    /\ \A a \in Finished(n) : /\ a \in Nodes /\ node[a].status = "branched" /\ node[a].kids = 1
                              /\ m <= a /\ a < n
    /\ m # n => m \in Ancestors(n)
    /\ \A x \in {n} \cup Finished(n) : x # m => x \div 2 \in Finished(n)
    /\ \A a \in Finished(n) : \E x \in {n} \cup Finished(n) : a = x \div 2
    /\ m \div 2 \notin Finished(n)
    /\ LosesChild(n) = {m \div 2} \ {0}
    /\ m # 1 => /\ m \div 2 \in Nodes /\ node[m \div 2].status = "branched"
                /\ node[m \div 2].kids = 2

(* Every climb ends: at the root, or below a node with another open child. *)
LEMMA ClimbEnds ==
  ASSUME tree \in Trees, NodeType, TreeShape, NEW n \in Nodes, node[n].status = "pending"
  PROVE  \E m \in Nodes : Climb(n, m)
<1> DEFINE up == Finished(n)
           An == Ancestors(n)
<1>1. n \in Nat /\ n # 0 /\ Nodes \subseteq Nat \ {0}
  BY TreeFacts
<1>2. \A a \in An : a \in Nodes /\ node[a].status = "branched"
  BY AboveIsBranched DEF Known
<1>3. An \subseteq Nat /\ \A a \in An : a >= 1 /\ a < n
  BY <1>1, AncestorsClimb
<1>4. up \subseteq An /\ \A a \in up : node[a].kids = 1
  BY <1>3 DEF Finished
<1>5. \A a \in up, b \in An : b >= a => b \in up
  BY <1>3 DEF Finished
<1>6. PICK m \in {n} \cup up : \A y \in {n} \cup up : m <= y
  <2>1. {n} \cup up \in SUBSET Nat /\ {n} \cup up # {}
    BY <1>1, <1>3, <1>4
  <2> QED BY <2>1, LeastNatural
<1>7. \A a \in {n} \cup An, b \in An : b < a => b <= a \div 2
  BY <1>1, AncestorsChain
<1>8. \A a \in {n} \cup An : a >= 2 => a \div 2 \in An
  BY <1>1, AncestorsClimb
<1>9. m \in Nat /\ m >= 1 /\ m \in {n} \cup An /\ m \in Nodes /\ m <= n
  BY <1>1, <1>3, <1>4, <1>6, <1>2
<1> HIDE DEF up, An
<1>10. ASSUME NEW x \in {n} \cup up, x # m PROVE x \div 2 \in up
  <2>1. m \in up
    BY <1>6, <1>10, <1>3, <1>4, <1>1
  <2>2. x \in Nat /\ x \in {n} \cup An /\ m < x
    BY <1>1, <1>3, <1>4, <1>6, <1>10
  <2>3. m <= x \div 2 /\ x \div 2 \in An
    BY <1>7, <1>8, <2>1, <2>2, <1>4, <1>9
  <2> QED BY <2>1, <2>3, <1>5, <1>3
<1>11. ASSUME NEW a \in up PROVE \E x \in {n} \cup up : a = x \div 2
  <2>1. a = n \div 2 \/ \E x \in An : a = x \div 2
    BY <1>1, <1>4, AncestorsClimb DEF An
  <2>2. ASSUME NEW x \in An, a = x \div 2 PROVE x \in up
    <3>1. x \in Nat /\ a <= x
      BY <2>2, <1>3
    <3> QED BY <3>1, <1>5, <1>3, <1>4
  <2> QED BY <2>1, <2>2
<1>12. m \div 2 < m
  BY <1>9
<1>13. m \div 2 \notin up
  <2>1. m \div 2 \in Nat
    BY <1>9
  <2> QED BY <2>1, <1>6, <1>9, <1>12
<1>14. \A b \in An : b < m <=> b \notin up
  BY <1>3, <1>4, <1>5, <1>6, <1>1, <1>9
<1>15. \A b \in An : b \notin up => b <= m \div 2
  BY <1>14, <1>7, <1>9
<1>16. LosesChild(n) = {m \div 2} \ {0}
  <2>1. CASE m = 1
    <3>0. \A b \in An : b \in up
      BY <1>14, <1>3, <2>1
    <3>1. An \ up = {}
      BY <3>0
    <3>2. LosesChild(n) = {}
      BY <3>1 DEF LosesChild, An, up
    <3> QED BY <3>2, <2>1
  <2>2. CASE m # 1
    <3>1. m \div 2 \in An \ up /\ m \div 2 \in Nat /\ m \div 2 # 0
      BY <1>8, <1>9, <1>13, <2>2
    <3>2. \A a \in An \ up : (\A b \in An \ up : b <= a) <=> a = m \div 2
      BY <3>1, <1>15, <1>3
    <3>3. LosesChild(n) = {m \div 2}
      BY <3>1, <3>2 DEF LosesChild, An, up
    <3> QED BY <3>1, <3>3
  <2> QED BY <2>1, <2>2
<1>17. ASSUME m # 1
       PROVE  /\ m \div 2 \in Nodes /\ node[m \div 2].status = "branched"
              /\ node[m \div 2].kids = 2
  <2>1. m \div 2 \in An /\ m \div 2 \in Nat
    BY <1>8, <1>9, <1>17
  <2>2. m \div 2 \in Nodes /\ node[m \div 2].status = "branched"
    BY <2>1, <1>2
  <2>3. node[m \div 2].kids \in 1..2
    BY <2>2 DEF TreeShape, NodeType
  <2>4. ASSUME node[m \div 2].kids = 1 PROVE FALSE
    <3>1. ASSUME NEW b \in An, b >= m \div 2 PROVE node[b].kids = 1
      <4>1. CASE b \in up
        BY <4>1, <1>4
      <4>2. CASE b \notin up
        BY <4>2, <3>1, <1>15, <1>3, <2>1, <2>4
      <4> QED BY <4>1, <4>2
    <3>2. m \div 2 \in up
      BY <3>1, <2>1 DEF Finished, up, An
    <3> QED BY <3>2, <1>13
  <2> QED BY <2>2, <2>3, <2>4
<1>18. Open(m)
  BY <1>2, <1>9 DEF Open
<1>19. \A a \in up : a \in Nodes /\ node[a].status = "branched" /\ node[a].kids = 1 /\ m <= a /\ a < n
  BY <1>2, <1>3, <1>4, <1>6
<1>20. m \in {n} \cup up /\ (m # n => m \in An)
  BY <1>6, <1>9
<1> QED BY <1>9, <1>10, <1>11, <1>13, <1>16, <1>17, <1>18, <1>19, <1>20 DEF Climb, up, An

(* The siblings along the climb are closed. *)
LEMMA SiblingsAreClosed ==
  ASSUME tree \in Trees, NodeType, TreeShape, NEW n \in Nodes, node[n].status = "pending",
         NEW m \in Nodes, Climb(n, m), NEW p \in Nodes, p \div 2 \in Finished(n),
         p \notin {n} \cup Finished(n)
  PROVE  /\ node[p].status = "closed"
         /\ \E x \in {n} \cup Finished(n) : x > m /\ p = Sibling(x)
<1>1. PICK x \in {n} \cup Finished(n) : p \div 2 = x \div 2
  BY DEF Climb
<1> DEFINE a == p \div 2
<1>2. /\ Nodes \subseteq Nat \ {0} /\ x \in Nodes /\ x \in Nat /\ p \in Nat /\ p # x
      /\ a \in Nodes /\ a \in Nat /\ a = x \div 2
  BY <1>1, TreeFacts DEF Climb
<1>3. Open(x) /\ node[a].status = "branched" /\ node[a].kids = 1
  BY DEF Climb, Open
<1>4. \/ p = 2 * a /\ x = 2 * a + 1
      \/ p = 2 * a + 1 /\ x = 2 * a
  BY <1>2
<1>5. node[a].kids = OpenKids(a) /\ Known(2 * a) /\ Known(2 * a + 1)
  BY <1>2, <1>3 DEF TreeShape
<1>6. ~Open(p) /\ Known(p)
  BY <1>3, <1>4, <1>5 DEF OpenKids
<1>7. p = Sibling(x)
  BY <1>2, <1>4 DEF Sibling
<1>8. m <= x /\ x # m
  BY <1>1, <1>2 DEF Climb
<1> QED BY <1>2, <1>6, <1>7, <1>8, TreeFacts DEF Open, Known

(* Children of finished nodes are freed, the node above the top of the     *)
(* climb loses a child, nothing else changes.                              *)
FreedBelow(C, n, m) ==
    /\ \A p \in Nodes : p \div 2 \in Finished(n) =>
         C[p] = [status |-> "freed", lb |-> 0, kids |-> 0]
    /\ \A p \in Nodes : p \div 2 \notin Finished(n) /\ p # m /\ p = m \div 2 =>
         C[p] = [node[p] EXCEPT !.kids = 1]
    /\ \A p \in Nodes : p \div 2 \notin Finished(n) /\ p # m /\ p # m \div 2 => C[p] = node[p]

(* What closing n does to the tree, node by node, when the climb ends at m. *)
LEMMA ClosedByNode ==
  ASSUME tree \in Trees, NodeType, TreeShape, NEW n \in Nodes, node[n].status = "pending",
         NEW b \in Bounds, NEW m \in Nodes, Climb(n, m)
  PROVE  /\ FreedBelow(Closed(n, b), n, m)
         /\ m = n => Closed(n, b)[m] = [status |-> "closed", lb |-> b, kids |-> 0]
         /\ m # n => Closed(n, b)[m] =
              [status |-> "closed", kids |-> 0,
               lb |-> Min({b} \cup {node[Sibling(x)].lb : x \in {y \in {n} \cup Finished(n) : y > m}})]
<1> DEFINE up == Finished(n)
<1>1. Nodes \subseteq Nat \ {0} /\ Infinity \in Nat
  BY TreeFacts
<1>2. \A p \in Nodes : p \in UNION {Children(a) : a \in up} <=> p \div 2 \in up
  <2>1. up \subseteq Nat
    BY <1>1 DEF Climb
  <2>2. \A p \in Nodes, a \in up : p \in {2 * a, 2 * a + 1} <=> a = p \div 2
    BY <1>1, <2>1
  <2> QED BY <2>2 DEF Children
<1>3. n \div 2 \in up <=> n # m
  BY DEF Climb
<1>4. m \div 2 \notin up /\ (m = n \/ (m \in up /\ \A a \in up : m <= a))
  BY DEF Climb
<1>5. \A p \in Nodes : p \in LosesChild(n) <=> p = m \div 2
  BY <1>1 DEF Climb
<1>6. \A p \in up : p # m => p \div 2 \in up
  BY DEF Climb
<1>7. m \div 2 # m /\ m \div 2 < m
  BY <1>1
<1> DEFINE C == Closed(n, b)
           freed == UNION {Children(a) : a \in up}
           top == {p \in up : \A a \in up : p <= a}
           least(p) == [status |-> "closed",
                        lb |-> Min({b} \cup {node[Sibling(x)].lb : x \in {y \in {n} \cup up : y > p}}),
                        kids |-> 0]
           shut == [status |-> "closed", lb |-> b, kids |-> 0]
           gone == [status |-> "freed", lb |-> 0, kids |-> 0]
           fewer(p) == [node[p] EXCEPT !.kids = @ - 1]
<1>8. \A p \in Nodes : C[p] =
        CASE p = n /\ n \notin freed -> shut
          [] p \in freed -> gone
          [] p \in top -> least(p)
          [] p \in LosesChild(n) -> fewer(p)
          [] OTHER -> node[p]
  BY DEF Closed
<1>15. m # n => m \in top
  BY <1>4
<1>16. top \subseteq up
  OBVIOUS
<1>17. \A p \in Nodes : p \in freed <=> p \div 2 \in up
  BY <1>2
<1>18. ASSUME NEW p \in Nodes, p \div 2 \in up PROVE p \notin top /\ p \notin LosesChild(n)
  <2>1. p \in Nat /\ p # 0 /\ m \in Nat /\ m # 0
    BY <1>1
  <2>2. p \div 2 < p
    BY <2>1
  <2>3. p = m \div 2 => p \div 2 < m
    BY <2>1
  <2>4. m <= p \div 2
    BY <1>18 DEF Climb
  <2>5. p \notin top
    BY <2>1, <2>2, <1>18
  <2> QED BY <2>1, <2>3, <2>4, <2>5, <1>5
<1>19. n \notin up /\ m \notin LosesChild(n)
  BY <1>1, <1>5, <1>7 DEF Climb
<1> HIDE DEF up, C, freed, top, least, shut, gone, fewer
<1>9. ASSUME NEW p \in Nodes, p \div 2 \in up
      PROVE  C[p] = [status |-> "freed", lb |-> 0, kids |-> 0]
  <2>1. C[p] = gone
    BY <1>17, <1>18, <1>8, <1>9
  <2> QED BY <2>1 DEF gone
<1>10. ASSUME NEW p \in Nodes, p \div 2 \notin up, p # m
       PROVE  p # n /\ p \notin up
  BY <1>3, <1>6, <1>10
<1>11. ASSUME NEW p \in Nodes, p \div 2 \notin up, p # m, p = m \div 2
       PROVE  C[p] = [node[p] EXCEPT !.kids = 1]
  <2>1. p # n /\ p \notin up /\ p \in LosesChild(n) /\ m # 1
    BY <1>10, <1>11, <1>5, <1>1
  <2>2. node[p].kids = 2
    BY <2>1, <1>11 DEF Climb
  <2>3. C[p] = [node[p] EXCEPT !.kids = @ - 1]
    <3>1. C[p] = fewer(p)
      BY <2>1, <1>16, <1>17, <1>8, <1>11
    <3> QED BY <3>1 DEF fewer
  <2> QED BY <2>2, <2>3
<1>12. ASSUME NEW p \in Nodes, p \div 2 \notin up, p # m, p # m \div 2
       PROVE  C[p] = node[p]
  <2>1. p # n /\ p \notin up /\ p \notin LosesChild(n)
    BY <1>10, <1>12, <1>5
  <2> QED BY <2>1, <1>16, <1>17, <1>8, <1>12
<1>13. ASSUME m = n PROVE C[m] = [status |-> "closed", lb |-> b, kids |-> 0]
  <2>1. C[m] = shut
    BY <1>16, <1>17, <1>19, <1>4, <1>8, <1>13
  <2> QED BY <2>1 DEF shut
<1>14. ASSUME m # n
       PROVE C[m] = [status |-> "closed", kids |-> 0,
               lb |-> Min({b} \cup {node[Sibling(x)].lb : x \in {y \in {n} \cup up : y > m}})]
  <2>1. C[m] = least(m)
    BY <1>4, <1>15, <1>17, <1>19, <1>8, <1>14
  <2> QED BY <2>1 DEF least
<1> QED BY <1>9, <1>11, <1>12, <1>13, <1>14 DEF FreedBelow, up, C

(* The node at which the climb ends is closed with the least bound of what *)
(* is freed below it.                                                      *)
LEMMA ClosedTop ==
  ASSUME tree \in Trees, NodeType, TreeShape, NEW n \in Nodes, node[n].status = "pending",
         NEW b \in Bounds, NEW m \in Nodes, Climb(n, m)
  PROVE  /\ Closed(n, b)[m] = [status |-> "closed", lb |-> Closed(n, b)[m].lb, kids |-> 0]
         /\ Closed(n, b)[m].lb \in Bounds /\ Closed(n, b)[m].lb <= b
         /\ \/ Closed(n, b)[m].lb = b
            \/ \E p \in Nodes : node[p].status = "closed" /\ Closed(n, b)[m].lb = node[p].lb
         /\ \A p \in Nodes : p \div 2 \in Finished(n) /\ node[p].status = "closed" =>
              m \in Ancestors(p) /\ Closed(n, b)[m].lb <= node[p].lb
<1> DEFINE up == Finished(n)
           C == Closed(n, b)
           L == {node[Sibling(x)].lb : x \in {y \in {n} \cup up : y > m}}
<1>1. Nodes \subseteq Nat \ {0} /\ Infinity \in Nat /\ b \in Nat
  BY TreeFacts DEF Bounds
<1>2. /\ m = n => C[m] = [status |-> "closed", lb |-> b, kids |-> 0]
      /\ m # n => C[m] = [status |-> "closed", kids |-> 0, lb |-> Min({b} \cup L)]
  BY ClosedByNode
<1>3. ASSUME NEW x \in {n} \cup up, x > m
      PROVE  Sibling(x) \in Nodes /\ node[Sibling(x)].status = "closed"
  <2>1. x # m /\ x \div 2 \in up /\ x \in Nodes /\ x \in Nat /\ x >= 2
    BY <1>1, <1>3 DEF Climb
  <2> DEFINE a == x \div 2
             s == Sibling(x)
  <2>2. a \in Nodes /\ a \in Nat /\ a \in DOMAIN tree /\ tree[a].kind = "frac"
    BY <1>1, <2>1 DEF Climb, TreeShape
  <2>3. 2 * a \in Nodes /\ 2 * a + 1 \in Nodes
    BY <2>2, TreeFacts
  <2>4. s \in Nodes /\ s \div 2 = a /\ s # x
    BY <2>1, <2>2, <2>3 DEF Sibling
  <2>5. node[a].kids = 1 /\ node[a].kids = OpenKids(a) /\ Known(2 * a) /\ Known(2 * a + 1)
    BY <2>1, <2>2 DEF Climb, TreeShape
  <2>6. Open(x)
    BY DEF Climb, Open
  <2>7. \/ x = 2 * a /\ s = 2 * a + 1
        \/ s = 2 * a /\ x = 2 * a + 1
    BY <2>1, <2>2 DEF Sibling
  <2>8. ~Open(s) /\ Known(s)
    BY <2>5, <2>6, <2>7 DEF OpenKids
  <2> QED BY <2>4, <2>8 DEF Open, Known
<1>4. {b} \cup L \in SUBSET Nat
  <2>1. \A p \in Nodes : node[p].lb \in Nat
    BY <1>1 DEF NodeType, Bounds
  <2> QED BY <1>1, <1>3, <2>1
<1> HIDE DEF C, L
<1>5. Min({b} \cup L) \in {b} \cup L /\ \A y \in {b} \cup L : Min({b} \cup L) <= y
  BY <1>4, MinOfNaturals
<1>6. \A p \in Nodes : node[p].lb \in Bounds
  BY DEF NodeType
<1>7. C[m] = [status |-> "closed", lb |-> C[m].lb, kids |-> 0]
  BY <1>2
<1>8. C[m].lb = b \/ \E p \in Nodes : node[p].status = "closed" /\ C[m].lb = node[p].lb
  <2>1. \A y \in L : \E p \in Nodes : node[p].status = "closed" /\ y = node[p].lb
    BY <1>3 DEF L
  <2>2. C[m].lb = b \/ C[m].lb = Min({b} \cup L)
    BY <1>2
  <2> QED BY <1>5, <2>1, <2>2
<1>9. C[m].lb \in Bounds /\ C[m].lb <= b
  <2>1. C[m].lb \in Bounds
    BY <1>6, <1>8
  <2>2. C[m].lb = b \/ C[m].lb = Min({b} \cup L)
    BY <1>2
  <2>3. b <= b
    BY <1>1
  <2> QED BY <2>1, <2>2, <2>3, <1>5
<1>10. ASSUME NEW p \in Nodes, p \div 2 \in up, node[p].status = "closed"
       PROVE  m \in Ancestors(p) /\ C[m].lb <= node[p].lb
  <2> DEFINE a == p \div 2
  <2>1. a \in Nodes /\ a \in Nat /\ a >= 1 /\ m <= a /\ a < n /\ m # n /\ p \in Nat /\ n \in Nat
    BY <1>1, <1>10 DEF Climb
  <2>2. p >= 2
    BY <2>1
  <2>3. Ancestors(p) = {a} \cup Ancestors(a)
    BY <2>1, <2>2, AncestorsOfParent
  <2>4. a \in Ancestors(n) /\ m \in Ancestors(n)
    BY <2>1, <1>10 DEF Climb, Finished
  <2>5. m < a => m \in Ancestors(a)
    BY <2>1, <2>4, AncestorsChain
  <2>6. m \in Ancestors(p)
    BY <2>1, <2>3, <2>5, <1>1
  <2>7. p \notin {n} \cup up
    BY <1>10 DEF Climb
  <2>8. node[p].lb \in L
    BY <2>7, <1>10, SiblingsAreClosed DEF L
  <2> QED BY <2>1, <2>6, <2>8, <1>2, <1>5
<1> QED BY <1>7, <1>8, <1>9, <1>10 DEF C, up

(* Closing a pending node keeps the tree in shape, takes that node off the *)
(* pending ones and leaves the others as they are.                         *)
LEMMA ClosedKeepsShape ==
  ASSUME tree \in Trees, tree' = tree, NodeType, TreeShape,
         NEW n \in Nodes, node[n].status = "pending", NEW b \in Bounds, node' = Closed(n, b)
  PROVE  /\ NodeType' /\ TreeShape'
         /\ Pending' = Pending \ {n}
         /\ \A p \in Pending : p # n => node'[p] = node[p]
<1>1. PICK m \in Nodes : Climb(n, m)
  BY ClimbEnds
<1> DEFINE up == Finished(n)
           h == m \div 2
<1>2. Nodes \subseteq Nat \ {0} /\ Infinity \in Nat
  BY TreeFacts
<1>3. /\ \A p \in Nodes : p \div 2 \in up =>
           node'[p] = [status |-> "freed", lb |-> 0, kids |-> 0]
      /\ \A p \in Nodes : p \div 2 \notin up /\ p # m /\ p = h =>
           node'[p] = [node[p] EXCEPT !.kids = 1]
      /\ \A p \in Nodes : p \div 2 \notin up /\ p # m /\ p # h => node'[p] = node[p]
  <2>1. FreedBelow(node', n, m)
    BY <1>1, ClosedByNode
  <2> QED BY <2>1 DEF FreedBelow
<1>4. /\ node'[m] = [status |-> "closed", lb |-> node'[m].lb, kids |-> 0]
      /\ node'[m].lb \in Bounds
  BY <1>1, ClosedTop
<1>5. m \div 2 \notin up /\ h # m
  BY <1>1, <1>2 DEF Climb
<1>6. \A p \in Nodes : node[p] \in [status : {"none", "pending", "branched", "closed", "freed"},
                                   lb : Bounds, kids : 0..2]
  BY DEF NodeType
<1>7. NodeType'
  <2>1. DOMAIN node' = Nodes /\ node' = [p \in Nodes |-> node'[p]]
    BY DEF Closed
  <2>2. ASSUME NEW p \in Nodes
        PROVE node'[p] \in [status : {"none", "pending", "branched", "closed", "freed"},
                            lb : Bounds, kids : 0..2]
    <3>1. 0 \in Bounds
      BY <1>2 DEF Bounds
    <3>2. CASE p \div 2 \in up
      BY <3>1, <3>2, <1>3
    <3>3. CASE p \div 2 \notin up /\ p = m
      BY <3>3, <1>4
    <3>4. CASE p \div 2 \notin up /\ p # m /\ p = h
      <4>1. node'[p] = [node[p] EXCEPT !.kids = 1]
        BY <3>4, <1>3
      <4>2. node[p] \in [status : {"none", "pending", "branched", "closed", "freed"},
                         lb : Bounds, kids : 0..2]
        BY <1>6
      <4> QED BY <4>1, <4>2
    <3>5. CASE p \div 2 \notin up /\ p # m /\ p # h
      BY <3>5, <1>3, <1>6
    <3> QED BY <3>2, <3>3, <3>4, <3>5
  <2> QED BY <2>1, <2>2 DEF NodeType, Bounds, Nodes
<1>8. /\ h \in Nodes => node[h].status = "branched" /\ node[h].kids = 2
      /\ m # 1 => h \in Nodes
  BY <1>1, <1>2 DEF Climb
<1>9. \A p \in Nodes : p \in {n} \cup up => p = m \/ p \div 2 \in up
  BY <1>1 DEF Climb
<1>10. \A a \in up : node[a].status = "branched"
  BY <1>1 DEF Climb
<1>11. m \in {n} \cup up
  BY <1>1 DEF Climb
<1>12. \A p \in Nodes : p \div 2 \notin up /\ p # m =>
         node'[p].status = node[p].status /\ node'[p].lb = node[p].lb
  <2>1. SUFFICES ASSUME NEW p \in Nodes, p \div 2 \notin up, p # m
                 PROVE  node'[p].status = node[p].status /\ node'[p].lb = node[p].lb
    OBVIOUS
  <2>2. CASE p = h
    <3>1. node'[p] = [node[p] EXCEPT !.kids = 1]
      BY <2>1, <2>2, <1>3
    <3>2. node[p] \in [status : {"none", "pending", "branched", "closed", "freed"},
                       lb : Bounds, kids : 0..2]
      BY <1>6
    <3> QED BY <3>1, <3>2
  <2>3. CASE p # h
    <3>1. node'[p] = node[p]
      BY <2>1, <2>3, <1>3
    <3> QED BY <3>1
  <2> QED BY <2>2, <2>3
<1>13. \A p \in Nodes : p \div 2 \in up => node'[p].status = "freed"
  BY <1>3
<1> HIDE DEF up, h
<1>14. ASSUME NEW p \in Nodes
       PROVE  node'[p].status = "pending" <=> node[p].status = "pending" /\ p # n
  <2>1. CASE p \div 2 \in up
    <3>1. p \in {n} \cup up \/ node[p].status = "closed"
      BY <1>1, <2>1, SiblingsAreClosed DEF up
    <3> QED BY <3>1, <2>1, <1>13, <1>10
  <2>2. CASE p \div 2 \notin up /\ p = m
    BY <2>2, <1>4, <1>10, <1>11
  <2>3. CASE p \div 2 \notin up /\ p # m
    BY <2>3, <1>12, <1>9
  <2> QED BY <2>1, <2>2, <2>3
<1>15. Pending' = Pending \ {n}
  <2>1. Nodes' = Nodes
    BY DEF Nodes
  <2> QED BY <2>1, <1>14 DEF Pending
<1>16. ASSUME NEW p \in Pending, p # n PROVE node'[p] = node[p]
  <2>1. p \in Nodes /\ node[p].status = "pending" /\ node'[p].status = "pending"
    BY <1>14, <1>16 DEF Pending
  <2>2. p \div 2 \notin up /\ p # m /\ p # h
    BY <2>1, <1>13, <1>4, <1>8
  <2> QED BY <2>1, <2>2, <1>3
<1>17. ASSUME NEW p \in Nodes, node'[p].status = "pending"
       PROVE  p \in DOMAIN tree /\ node'[p].lb < Infinity
  <2>1. p \in Pending /\ p # n
    BY <1>14, <1>17 DEF Pending
  <2> QED BY <2>1, <1>16 DEF TreeShape, Pending
<1>18. \A p \in Nodes : Open(p)' <=> Open(p) /\ p \div 2 \notin up /\ p # m
  <2>1. ASSUME NEW p \in Nodes PROVE Open(p)' <=> Open(p) /\ p \div 2 \notin up /\ p # m
    <3>1. CASE p \div 2 \in up
      BY <3>1, <1>13 DEF Open
    <3>2. CASE p = m
      BY <3>2, <1>4 DEF Open
    <3>3. CASE p \div 2 \notin up /\ p # m
      BY <3>3, <1>12 DEF Open
    <3> QED BY <3>1, <3>2, <3>3
  <2> QED BY <2>1
<1>19. \A p \in Nodes : Known(p)' <=> p = m \/ (Known(p) /\ p \div 2 \notin up)
  <2>1. ASSUME NEW p \in Nodes PROVE Known(p)' <=> p = m \/ (Known(p) /\ p \div 2 \notin up)
    <3>1. CASE p \div 2 \in up
      BY <3>1, <1>5, <1>13 DEF Known, h
    <3>2. CASE p = m
      BY <3>2, <1>4 DEF Known
    <3>3. CASE p \div 2 \notin up /\ p # m
      BY <3>3, <1>12 DEF Known
    <3> QED BY <3>1, <3>2, <3>3
  <2> QED BY <2>1
<1>20. \A p \in Nodes : node'[p].status = "branched" <=> node[p].status = "branched" /\ p \notin up
  <2>1. ASSUME NEW p \in Nodes
        PROVE node'[p].status = "branched" <=> node[p].status = "branched" /\ p \notin up
    <3>1. CASE p \div 2 \in up
      <4>1. p \in {n} \cup up \/ node[p].status = "closed"
        BY <1>1, <3>1, SiblingsAreClosed DEF up
      <4> QED BY <3>1, <4>1, <1>13, <1>10
    <3>2. CASE p = m
      BY <3>2, <1>4, <1>11
    <3>3. CASE p \div 2 \notin up /\ p # m
      BY <3>3, <1>12, <1>9
    <3> QED BY <3>1, <3>2, <3>3
  <2> QED BY <2>1
<1>21. ASSUME NEW p \in Nodes, node'[p].status = "branched"
       PROVE  /\ p \in DOMAIN tree /\ tree[p].kind = "frac"
              /\ Known(2 * p)' /\ Known(2 * p + 1)'
              /\ node'[p].kids = OpenKids(p)' /\ node'[p].kids # 0
  <2>1. node[p].status = "branched" /\ p \notin up
    BY <1>20, <1>21
  <2>2. p \in DOMAIN tree /\ tree[p].kind = "frac" /\ Known(2 * p) /\ Known(2 * p + 1)
        /\ node[p].kids = OpenKids(p) /\ node[p].kids # 0
    BY <2>1 DEF TreeShape
  <2>3. 2 * p \in Nodes /\ 2 * p + 1 \in Nodes
    BY <2>2, TreeFacts
  <2>4. p \in Nat /\ (2 * p) \div 2 = p /\ (2 * p + 1) \div 2 = p
    BY <1>2
  <2>5. Known(2 * p)' /\ Known(2 * p + 1)'
    BY <2>1, <2>2, <2>3, <2>4, <1>19
  <2>6. /\ Open(2 * p)' <=> Open(2 * p) /\ 2 * p # m
        /\ Open(2 * p + 1)' <=> Open(2 * p + 1) /\ 2 * p + 1 # m
    BY <2>1, <2>3, <2>4, <1>18
  <2>7. p = h <=> 2 * p = m \/ 2 * p + 1 = m
    BY <2>4, <1>2 DEF h
  <2>8. p # m
    BY <1>4, <1>21
  <2>9. p \div 2 \notin up
    BY <1>13, <1>21
  <2>10. CASE p = h
    <3>1. node'[p].kids = 1 /\ node[p].kids = 2
      BY <2>8, <2>9, <2>10, <1>3, <1>6, <1>8
    <3>2. Open(2 * p) /\ Open(2 * p + 1)
      BY <3>1, <2>2 DEF OpenKids
    <3>3. OpenKids(p)' = (IF Open(2 * p)' THEN 1 ELSE 0) + (IF Open(2 * p + 1)' THEN 1 ELSE 0)
      BY DEF OpenKids, Open
    <3>4. OpenKids(p)' = 1
      BY <2>4, <2>6, <2>7, <2>10, <3>2, <3>3
    <3> QED BY <2>2, <2>5, <3>1, <3>4
  <2>11. CASE p # h
    <3>1. node'[p] = node[p]
      BY <2>8, <2>9, <2>11, <1>3
    <3>2. OpenKids(p)' = OpenKids(p)
      BY <2>6, <2>7, <2>11 DEF OpenKids, Open
    <3> QED BY <2>2, <2>5, <3>1, <3>2
  <2> QED BY <2>10, <2>11
<1>22. ASSUME NEW p \in Nodes \ {1}, Known(p)'
       PROVE  p \div 2 \in Nodes /\ node'[p \div 2].status = "branched"
  <2>1. CASE p = m
    BY <2>1, <1>5, <1>8, <1>20, <1>22 DEF h
  <2>2. CASE p # m
    <3>1. Known(p) /\ p \div 2 \notin up
      BY <2>2, <1>19, <1>22
    <3>2. p \div 2 \in Nodes /\ node[p \div 2].status = "branched"
      BY <3>1 DEF TreeShape
    <3> QED BY <3>1, <3>2, <1>20
  <2> QED BY <2>1, <2>2
<1>23. Nodes' = Nodes /\ Infinity' = Infinity
  BY DEF Nodes
<1>24. TreeShape'
  BY <1>17, <1>21, <1>22, <1>23 DEF TreeShape
<1> QED BY <1>7, <1>15, <1>16, <1>24

(* Closing a node with a bound that admits every point below it keeps each *)
(* point below an open or closed node whose bound admits it.               *)
LEMMA ClosedSettles ==
  ASSUME tree \in Trees, tree' = tree, NodeType, TreeShape, Settled,
         NEW n \in Nodes, node[n].status = "pending", NEW b \in Bounds, node' = Closed(n, b),
         \A l \in Leaves : n \in Path(l) => b <= tree[l].obj
  PROVE  Settled'
<1>1. PICK m \in Nodes : Climb(n, m)
  BY ClimbEnds
<1>2. Nodes \subseteq Nat \ {0} /\ DOMAIN tree \subseteq Nodes /\ Infinity \in Nat
      /\ \A l \in DOMAIN tree : tree[l].obj \in Nat
  BY TreeFacts
<1>3. FreedBelow(node', n, m)
  BY <1>1, ClosedByNode
<1>4. /\ node'[m].status = "closed" /\ node'[m].lb \in Nat /\ node'[m].lb <= b
      /\ \A p \in Nodes : p \div 2 \in Finished(n) /\ node[p].status = "closed" =>
           m \in Ancestors(p) /\ node'[m].lb <= node[p].lb
  <2>0. /\ node'[m] = [status |-> "closed", lb |-> node'[m].lb, kids |-> 0]
        /\ node'[m].lb \in Bounds /\ node'[m].lb <= b
    BY <1>1, ClosedTop
  <2>1. /\ node'[m].status = "closed"
        /\ node'[m].lb \in Bounds /\ node'[m].lb <= b
    BY <2>0
  <2>2. \A p \in Nodes : p \div 2 \in Finished(n) /\ node[p].status = "closed" =>
           m \in Ancestors(p) /\ node'[m].lb <= node[p].lb
    BY <1>1, ClosedTop
  <2>3. Bounds \subseteq Nat
    BY <1>2 DEF Bounds
  <2>4. node'[m].lb \in Nat
    BY <2>1, <2>3, Zenon
  <2> QED BY <2>1, <2>2, <2>4, Zenon
<1>5. Leaves' = Leaves /\ Nodes' = Nodes
  BY DEF Leaves, Nodes
<1>6. SUFFICES ASSUME NEW l \in Leaves
               PROVE  \E p \in Path(l) : /\ p \in Nodes /\ node'[p].status \in {"pending", "closed"}
                                         /\ node'[p].lb <= tree[l].obj
  BY <1>5 DEF Settled
<1>7. l \in Nat /\ tree[l].obj \in Nat /\ b \in Nat
  <2>1. Bounds \subseteq Nat
    BY <1>2 DEF Bounds
  <2> QED BY <1>2, <2>1 DEF Leaves
<1>8. PICK p \in Path(l) : /\ p \in Nodes /\ node[p].status \in {"pending", "closed"}
                           /\ node[p].lb <= tree[l].obj
  BY DEF Settled
<1>9. \A x \in Path(l) : Ancestors(x) \subseteq Path(l)
  BY <1>7, AncestorsTransitive DEF Path
<1>10. CASE p = n
  <2>1. m \in Path(l)
    BY <1>1, <1>8, <1>9, <1>10 DEF Climb
  <2>2. node'[m].lb <= tree[l].obj
    BY <1>4, <1>7, <1>8, <1>10
  <2> QED BY <2>1, <2>2, <1>4
<1>11. CASE p # n /\ node[p].status = "pending"
  <2>1. p \in Pending /\ node'[p] = node[p]
    BY <1>8, <1>11, ClosedKeepsShape DEF Pending
  <2> QED BY <2>1, <1>8
<1>12. CASE node[p].status = "closed" /\ p \div 2 \in Finished(n)
  <2>1. m \in Path(l)
    BY <1>4, <1>8, <1>9, <1>12
  <2>2. node[p].lb \in Nat
    BY <1>2, <1>8 DEF NodeType, Bounds
  <2>3. node'[m].lb <= tree[l].obj
    BY <1>4, <1>7, <1>8, <1>12, <2>2
  <2> QED BY <2>1, <2>3, <1>4
<1>13. CASE node[p].status = "closed" /\ p \div 2 \notin Finished(n)
  <2>1. p # m /\ (p = m \div 2 => node[p].status = "branched")
    BY <1>1, <1>2, <1>8, <1>13 DEF Climb, Open
  <2>2. node'[p] = node[p]
    BY <2>1, <1>3, <1>8, <1>13 DEF FreedBelow
  <2> QED BY <2>2, <1>8
<1> QED BY <1>8, <1>10, <1>11, <1>12, <1>13

(* The bound of a node that is closed now is that of the node closed in    *)
(* this step or of a node that was closed before.                          *)
LEMMA ClosedNodesBounds ==
  ASSUME tree \in Trees, NodeType, TreeShape,
         NEW n \in Nodes, node[n].status = "pending", NEW b \in Bounds, node' = Closed(n, b),
         NEW p \in Nodes, node'[p].status = "closed"
  PROVE  \/ node'[p].lb = b
         \/ \E q \in Nodes : node[q].status = "closed" /\ node'[p].lb = node[q].lb
<1>1. PICK m \in Nodes : Climb(n, m)
  BY ClimbEnds
<1>2. FreedBelow(node', n, m)
  BY <1>1, ClosedByNode
<1>3. \/ node'[m].lb = b
      \/ \E q \in Nodes : node[q].status = "closed" /\ node'[m].lb = node[q].lb
  <2>1. \/ Closed(n, b)[m].lb = b
        \/ \E q \in Nodes : node[q].status = "closed" /\ Closed(n, b)[m].lb = node[q].lb
    BY <1>1, ClosedTop
  <2> QED BY <2>1
<1>4. CASE p = m
  BY <1>4, <1>3
<1>5. CASE p # m /\ p \div 2 \in Finished(n)
  BY <1>5, <1>2 DEF FreedBelow
<1>6. CASE p # m /\ p \div 2 \notin Finished(n) /\ p = m \div 2
  <2>1. node'[p] = [node[p] EXCEPT !.kids = 1] /\ m # 1
    BY <1>6, <1>2, TreeFacts DEF FreedBelow
  <2>2. node'[p].status = node[p].status
    BY <2>1 DEF NodeType
  <2> QED BY <2>2, <1>6, <2>1, <1>1 DEF Climb
<1>7. CASE p # m /\ p \div 2 \notin Finished(n) /\ p # m \div 2
  <2>1. node'[p] = node[p]
    BY <1>7, <1>2 DEF FreedBelow
  <2> QED BY <2>1
<1> QED BY <1>4, <1>5, <1>6, <1>7

(* Branching on a fractional node keeps the tree in shape: its children,   *)
(* unknown so far, take its place among the pending nodes.                 *)
LEMMA BranchedKeepsShape ==
  ASSUME tree \in Trees, tree' = tree, NodeType, TreeShape,
         NEW n \in Nodes, node[n].status = "pending", tree[n].kind = "frac",
         node' = Branched(n, tree[n].obj)
  PROVE  /\ NodeType' /\ TreeShape'
         /\ 2 * n \in Nodes /\ 2 * n + 1 \in Nodes
         /\ 2 * n \notin Pending /\ 2 * n + 1 \notin Pending
         /\ Pending' = (Pending \ {n}) \cup {2 * n, 2 * n + 1}
         /\ \A p \in Nodes : p \notin {n, 2 * n, 2 * n + 1} => node'[p] = node[p]
         /\ node'[n].status = "branched"
         /\ \A c \in {2 * n, 2 * n + 1} :
              node'[c] = [status |-> "pending", lb |-> tree[n].obj, kids |-> 0]
<1> DEFINE b == tree[n].obj
<1>1. Nodes \subseteq Nat \ {0} /\ Infinity \in Nat /\ DOMAIN tree \subseteq Nodes
  BY TreeFacts
<1>2. /\ n \in Nat /\ n # 0 /\ n \in DOMAIN tree /\ b \in Bounds /\ b < Infinity
      /\ 2 * n \in DOMAIN tree /\ 2 * n + 1 \in DOMAIN tree
      /\ 2 * n \in Nodes /\ 2 * n + 1 \in Nodes
  BY <1>1, TreeFacts DEF TreeShape, Bounds
<1>3. n # 2 * n /\ n # 2 * n + 1 /\ (2 * n) \div 2 = n /\ (2 * n + 1) \div 2 = n
      /\ 2 * n # 1 /\ 2 * n + 1 # 1
  BY <1>2
<1>4. ~Known(2 * n) /\ ~Known(2 * n + 1)
  BY <1>2, <1>3 DEF TreeShape
<1>5. /\ node'[n] = [status |-> "branched", lb |-> b, kids |-> 2]
      /\ \A c \in {2 * n, 2 * n + 1} : node'[c] = [status |-> "pending", lb |-> b, kids |-> 0]
      /\ \A p \in Nodes : p \notin {n, 2 * n, 2 * n + 1} => node'[p] = node[p]
      /\ node' = [p \in Nodes |-> node'[p]]
  BY <1>2, <1>3 DEF Branched, Children
<1>6. Nodes' = Nodes
  BY DEF Nodes
<1> HIDE DEF b
<1>7. \A p \in Nodes : node'[p] \in [status : {"none", "pending", "branched", "closed", "freed"},
                                     lb : Bounds, kids : 0..2]
  BY <1>2, <1>5 DEF NodeType
<1>8. NodeType'
  BY <1>5, <1>6, <1>7 DEF NodeType, Bounds
<1>9. \A p \in Nodes : node'[p].status = "pending" <=>
        p \in {2 * n, 2 * n + 1} \/ (node[p].status = "pending" /\ p # n)
  BY <1>5
<1>10. Pending' = (Pending \ {n}) \cup {2 * n, 2 * n + 1}
  BY <1>2, <1>6, <1>9 DEF Pending
<1>11. 2 * n \notin Pending /\ 2 * n + 1 \notin Pending
  BY <1>4 DEF Known, Pending
<1>12. ASSUME NEW p \in Nodes, node'[p].status = "pending"
       PROVE  p \in DOMAIN tree /\ node'[p].lb < Infinity
  BY <1>2, <1>5, <1>12 DEF TreeShape
<1>13. \A p \in Nodes : Known(p)' <=> Known(p) \/ p \in {2 * n, 2 * n + 1}
  BY <1>5 DEF Known
<1>14. \A p \in Nodes : Open(p)' <=> Open(p) \/ p \in {2 * n, 2 * n + 1}
  BY <1>5 DEF Open
<1>15. ASSUME NEW p \in Nodes, node'[p].status = "branched"
       PROVE  /\ p \in DOMAIN tree /\ tree[p].kind = "frac"
              /\ Known(2 * p)' /\ Known(2 * p + 1)'
              /\ node'[p].kids = OpenKids(p)' /\ node'[p].kids # 0
  <2>1. CASE p = n
    BY <2>1, <1>2, <1>5, <1>13, <1>14 DEF OpenKids, Open
  <2>2. CASE p # n
    <3>1. p \notin {n, 2 * n, 2 * n + 1} /\ node'[p] = node[p] /\ node[p].status = "branched"
      BY <2>2, <1>5, <1>15
    <3>2. /\ p \in DOMAIN tree /\ tree[p].kind = "frac" /\ Known(2 * p) /\ Known(2 * p + 1)
          /\ node[p].kids = OpenKids(p) /\ node[p].kids # 0
      BY <3>1 DEF TreeShape
    <3>3. 2 * p \in Nodes /\ 2 * p + 1 \in Nodes /\ p \in Nat
      BY <3>2, <1>1, TreeFacts
    <3>4. 2 * p \notin {2 * n, 2 * n + 1} /\ 2 * p + 1 \notin {2 * n, 2 * n + 1}
      BY <2>2, <3>3, <1>2
    <3>5. OpenKids(p)' = OpenKids(p)
      BY <3>3, <3>4, <1>14 DEF OpenKids, Open
    <3> QED BY <3>1, <3>2, <3>3, <3>5, <1>13
  <2> QED BY <2>1, <2>2
<1>16. ASSUME NEW p \in Nodes \ {1}, Known(p)'
       PROVE  p \div 2 \in Nodes /\ node'[p \div 2].status = "branched"
  <2>1. CASE p \in {2 * n, 2 * n + 1}
    BY <2>1, <1>3, <1>5
  <2>2. CASE p \notin {2 * n, 2 * n + 1}
    <3>1. Known(p)
      BY <2>2, <1>13, <1>16
    <3>2. p \div 2 \in Nodes /\ node[p \div 2].status = "branched"
      BY <3>1 DEF TreeShape
    <3>3. p \div 2 \notin {n, 2 * n, 2 * n + 1}
      BY <3>2, <1>4 DEF Known
    <3> QED BY <3>2, <3>3, <1>5
  <2> QED BY <2>1, <2>2
<1>17. TreeShape'
  BY <1>6, <1>12, <1>15, <1>16 DEF TreeShape
<1> QED BY <1>2, <1>5, <1>8, <1>10, <1>11, <1>17 DEF b

(* Branching keeps each point below an open node whose bound admits it. *)
LEMMA BranchedSettles ==
  ASSUME tree \in Trees, tree' = tree, NodeType, TreeShape, Settled,
         NEW n \in Nodes, node[n].status = "pending", tree[n].kind = "frac",
         node' = Branched(n, tree[n].obj)
  PROVE  Settled'
<1>1. Leaves' = Leaves /\ Nodes' = Nodes
  BY DEF Leaves, Nodes
<1>2. SUFFICES ASSUME NEW l \in Leaves
               PROVE  \E p \in Path(l) : /\ p \in Nodes /\ node'[p].status \in {"pending", "closed"}
                                         /\ node'[p].lb <= tree[l].obj
  BY <1>1 DEF Settled
<1>3. /\ 2 * n \in Nodes /\ 2 * n + 1 \in Nodes
      /\ 2 * n \notin Pending /\ 2 * n + 1 \notin Pending
      /\ \A p \in Nodes : p \notin {n, 2 * n, 2 * n + 1} => node'[p] = node[p]
      /\ \A c \in {2 * n, 2 * n + 1} :
           node'[c] = [status |-> "pending", lb |-> tree[n].obj, kids |-> 0]
  BY BranchedKeepsShape
<1>4. PICK p \in Path(l) : /\ p \in Nodes /\ node[p].status \in {"pending", "closed"}
                           /\ node[p].lb <= tree[l].obj
  BY DEF Settled
<1>5. n \in Nat /\ n # 0 /\ l \in Nat /\ l \in DOMAIN tree /\ tree[l].kind \in {"int", "numerical"}
  BY TreeFacts DEF Leaves
<1>6. CASE p = n
  <2>1. n \in Ancestors(l)
    BY <1>4, <1>5, <1>6 DEF Path
  <2>2. PICK x \in Path(l) : n = x \div 2 /\ x \in Nat
    BY <2>1, <1>5, AncestorsClimb DEF Path
  <2>3. x \in {2 * n, 2 * n + 1}
    BY <2>2, <1>5
  <2>4. tree[n].obj <= tree[l].obj
    BY <2>1, <1>5, PathIsFractional
  <2> QED BY <2>2, <2>3, <2>4, <1>3
<1>7. CASE p # n
  <2>1. p \notin {2 * n, 2 * n + 1}
    <3>1. n = (2 * n) \div 2 /\ n = (2 * n + 1) \div 2 /\ 2 * n # 1 /\ 2 * n + 1 # 1
      BY <1>5
    <3> QED BY <3>1, <1>3, <1>4 DEF TreeShape, Known
  <2> QED BY <2>1, <1>3, <1>4, <1>7
<1> QED BY <1>6, <1>7

(* The bound of an integer node becomes its value. *)
LEMMA PointKeepsShape ==
  ASSUME tree \in Trees, tree' = tree, NodeType, TreeShape,
         NEW n \in Nodes, node[n].status = "pending", tree[n].kind = "int",
         node' = [node EXCEPT ![n].lb = tree[n].obj]
  PROVE  /\ NodeType' /\ TreeShape' /\ Pending' = Pending
         /\ \A p \in Nodes : p # n => node'[p] = node[p]
         /\ node'[n].status = "pending" /\ node'[n].lb = tree[n].obj
         /\ Settled => Settled'
<1>1. Nodes' = Nodes /\ Leaves' = Leaves
  BY DEF Nodes, Leaves
<1>2. n \in DOMAIN tree /\ tree[n].obj \in Bounds /\ tree[n].obj < Infinity
  BY TreeFacts DEF TreeShape, Bounds
<1>3. /\ \A p \in Nodes : p # n => node'[p] = node[p]
      /\ node'[n] = [node[n] EXCEPT !.lb = tree[n].obj]
  BY DEF NodeType
<1>4. NodeType'
  BY <1>1, <1>2 DEF NodeType, Bounds
<1>5. /\ \A p \in Nodes : node'[p].status = node[p].status /\ node'[p].kids = node[p].kids
      /\ node'[n].lb = tree[n].obj
  BY <1>3 DEF NodeType
<1>6. Pending' = Pending
  BY <1>1, <1>5 DEF Pending
<1>7. \A p \in Nodes : (Known(p)' <=> Known(p)) /\ (Open(p)' <=> Open(p))
  BY <1>5 DEF Known, Open
<1>8. TreeShape'
  <2>1. ASSUME NEW p \in Nodes, node'[p].status = "pending"
        PROVE  p \in DOMAIN tree /\ node'[p].lb < Infinity
    BY <2>1, <1>2, <1>3, <1>5 DEF TreeShape
  <2>2. ASSUME NEW p \in Nodes, node'[p].status = "branched"
        PROVE  /\ p \in DOMAIN tree /\ tree[p].kind = "frac"
               /\ Known(2 * p)' /\ Known(2 * p + 1)'
               /\ node'[p].kids = OpenKids(p)' /\ node'[p].kids # 0
    <3>1. /\ p \in DOMAIN tree /\ tree[p].kind = "frac" /\ Known(2 * p) /\ Known(2 * p + 1)
          /\ node[p].kids = OpenKids(p) /\ node[p].kids # 0
      BY <2>2, <1>5 DEF TreeShape
    <3>2. 2 * p \in Nodes /\ 2 * p + 1 \in Nodes
      BY <3>1, TreeFacts
    <3>3. OpenKids(p)' = OpenKids(p)
      BY <3>2, <1>7 DEF OpenKids, Open
    <3> QED BY <3>1, <3>2, <3>3, <1>5, <1>7
  <2>3. ASSUME NEW p \in Nodes \ {1}, Known(p)'
        PROVE  p \div 2 \in Nodes /\ node'[p \div 2].status = "branched"
    BY <2>3, <1>5, <1>7 DEF TreeShape
  <2> QED BY <1>1, <2>1, <2>2, <2>3 DEF TreeShape
<1>9. ASSUME Settled PROVE Settled'
  <2>1. SUFFICES ASSUME NEW l \in Leaves
                 PROVE  \E p \in Path(l) : /\ p \in Nodes /\ node'[p].status \in {"pending", "closed"}
                                           /\ node'[p].lb <= tree[l].obj
    BY <1>1 DEF Settled
  <2>2. PICK p \in Path(l) : /\ p \in Nodes /\ node[p].status \in {"pending", "closed"}
                             /\ node[p].lb <= tree[l].obj
    BY <1>9 DEF Settled
  <2>3. CASE p # n
    BY <2>2, <2>3, <1>3
  <2>4. CASE p = n
    <3>1. p = l
      BY <2>2, <2>4, PathIsFractional DEF Path, Leaves
    <3>2. tree[l].obj \in Nat
      BY TreeFacts DEF Leaves
    <3> QED BY <2>2, <2>4, <3>1, <3>2, <1>5
  <2> QED BY <2>3, <2>4
<1> QED BY <1>3, <1>4, <1>5, <1>6, <1>8, <1>9

-----------------------------------------------------------------------------
(* Bounds, the optimum and the start.                                      *)

LEMMA BoundFacts ==
  Infinity \in Nat /\ Bounds \subseteq Nat /\ 0 \in Bounds /\ Infinity \in Bounds /\ Bounds' = Bounds
  BY SearchTreeAssumption DEF Bounds

(* Open nodes are finitely many. *)
LEMMA OpenAreFinite ==
  ASSUME tree \in Trees, TreeShape
  PROVE  IsFiniteSet(Pending)
<1>1. PICK last \in DOMAIN tree : DOMAIN tree \subseteq 1..last
  BY SearchTreeAssumption, Zenon
<1>2. last \in Nat
  BY <1>1, TreeFacts
<1>3. IsFiniteSet(1..last)
  BY <1>2, FS_Interval
<1>4. Pending \subseteq 1..last
  BY <1>1 DEF Pending, TreeShape
<1> QED BY <1>3, <1>4, FS_Subset

(* Minima of bounds are bounds. *)
LEMMA MinBounds ==
  ASSUME NEW S \in SUBSET Bounds, S # {}
  PROVE  Min(S) \in Bounds /\ Min(S) \in S /\ \A y \in S : Min(S) <= y
<1>1. S \in SUBSET Nat
  BY BoundFacts
<1> QED BY <1>1, MinOfNaturals

(* The tree when the search starts. *)
LEMMA InitTree ==
  ASSUME TreeInit
  PROVE  /\ tree \in Trees /\ {1, 2, 3} \subseteq Nodes /\ {2, 3} \subseteq DOMAIN tree
         /\ tree[1].obj \in Bounds /\ tree[1].obj < Infinity
         /\ node[1] = [status |-> "branched", lb |-> tree[1].obj, kids |-> 2]
         /\ node[2] = [status |-> "pending", lb |-> tree[1].obj, kids |-> 0]
         /\ node[3] = [status |-> "pending", lb |-> tree[1].obj, kids |-> 0]
         /\ \A n \in Nodes \ {1, 2, 3} : node[n] = [status |-> "none", lb |-> 0, kids |-> 0]
         /\ NodeType /\ TreeShape /\ Pending = {2, 3}
<1>1. tree \in Trees
  BY DEF TreeInit
<1>2. /\ 1 \in DOMAIN tree /\ 2 \in DOMAIN tree /\ 3 \in DOMAIN tree /\ DOMAIN tree \subseteq Nodes
      /\ tree[1].kind = "frac"
      /\ tree[1].obj \in Nat /\ tree[1].obj < Infinity /\ Nodes \subseteq Nat \ {0}
      /\ Infinity \in Nat
  BY <1>1, TreeFacts
<1>3. tree[1].obj \in Bounds /\ 0 \in Bounds
  BY <1>2 DEF Bounds
<1>4. /\ node[1] = [status |-> "branched", lb |-> tree[1].obj, kids |-> 2]
      /\ node[2] = [status |-> "pending", lb |-> tree[1].obj, kids |-> 0]
      /\ node[3] = [status |-> "pending", lb |-> tree[1].obj, kids |-> 0]
      /\ \A n \in Nodes \ {1, 2, 3} : node[n] = [status |-> "none", lb |-> 0, kids |-> 0]
      /\ DOMAIN node = Nodes
  BY <1>2 DEF TreeInit
<1>5. NodeType
  <2>1. \A n \in Nodes : node[n] \in
          [status : {"none", "pending", "branched", "closed", "freed"}, lb : Bounds, kids : 0..2]
    BY <1>3, <1>4
  <2>2. node = [n \in Nodes |-> node[n]]
    BY DEF TreeInit
  <2> QED BY <2>1, <2>2 DEF NodeType
<1>6. Pending = {2, 3}
  <2>1. \A n \in Nodes : node[n].status = "pending" <=> n \in {2, 3}
    <3>1. \A n \in Nodes : n = 1 \/ n = 2 \/ n = 3 \/ n \in Nodes \ {1, 2, 3}
      OBVIOUS
    <3> QED BY <1>4, <3>1
  <2> QED BY <1>2, <2>1 DEF Pending
<1>7. \A n \in Nodes : node[n].status = "branched" => n = 1
  <2>1. \A n \in Nodes : n = 1 \/ n = 2 \/ n = 3 \/ n \in Nodes \ {1, 2, 3}
    OBVIOUS
  <2>2. node[2].status = "pending" /\ node[3].status = "pending"
    BY <1>4
  <2>3. \A n \in Nodes \ {1, 2, 3} : node[n].status = "none"
    BY <1>4
  <2> QED BY <2>1, <2>2, <2>3
<1>8. \A n \in Nodes : Known(n) => n \in {1, 2, 3}
  BY <1>2, <1>4 DEF Known
<1>9. TreeShape
  <2>1. \A n \in Nodes : node[n].status = "pending" => n \in DOMAIN tree /\ node[n].lb < Infinity
    BY <1>2, <1>4, <1>6 DEF Pending
  <2>2. Known(2 * 1) /\ Known(2 * 1 + 1) /\ node[1].kids = OpenKids(1) /\ node[1].kids # 0
    BY <1>4 DEF Known, Open, OpenKids
  <2>3. \A n \in Nodes \ {1} : Known(n) => n \div 2 \in Nodes /\ node[n \div 2].status = "branched"
    <3>1. 2 \div 2 = 1 /\ 3 \div 2 = 1
      OBVIOUS
    <3> QED BY <3>1, <1>2, <1>4, <1>8
  <2> QED BY <1>2, <1>7, <2>1, <2>2, <2>3 DEF TreeShape
<1> QED BY <1>1, <1>2, <1>3, <1>4, <1>5, <1>6, <1>9

(* At the start every point is below one of the root's children. *)
LEMMA InitSettles ==
  ASSUME TreeInit
  PROVE  Settled
<1>1. /\ tree \in Trees /\ {1, 2, 3} \subseteq Nodes /\ tree[1].obj \in Nat
      /\ node[2] = [status |-> "pending", lb |-> tree[1].obj, kids |-> 0]
      /\ node[3] = [status |-> "pending", lb |-> tree[1].obj, kids |-> 0]
  BY InitTree, BoundFacts
<1>2. ASSUME NEW l \in Leaves
      PROVE  \E p \in Path(l) : /\ p \in Nodes /\ node[p].status \in {"pending", "closed"}
                                /\ node[p].lb <= tree[l].obj
  <2>1. /\ l \in DOMAIN tree /\ tree[l].kind \in {"int", "numerical"} /\ l \in Nat \ {0} /\ l # 1
    BY <1>1, TreeFacts DEF Leaves
  <2>2. 1 \in Ancestors(l)
    <3> DEFINE S == {a \in Ancestors(l) : a \in Nat}
    <3>1. l >= 2
      BY <2>1
    <3>2. l \div 2 \in Ancestors(l)
      BY <2>1, <3>1, AncestorsClimb
    <3>3. \A a \in Ancestors(l) : a \in Nat /\ a >= 1
      BY <2>1, AncestorsClimb
    <3>4. S \in SUBSET Nat /\ S # {}
      BY <3>2, <3>3
    <3>5. PICK a \in S : \A b \in S : a <= b
      BY <3>4, LeastNatural
    <3>6. a < 2
      <4>1. SUFFICES ASSUME a >= 2 PROVE FALSE
        BY <3>3, <3>5
      <4>2. a \div 2 \in Ancestors(l)
        BY <2>1, <3>5, <4>1, AncestorsClimb
      <4>3. a \div 2 \in S /\ a \div 2 < a
        BY <3>3, <3>5, <4>1, <4>2
      <4> QED BY <3>3, <3>5, <4>3
    <3> QED BY <3>3, <3>5, <3>6
  <2>3. tree[1].obj <= tree[l].obj
    BY <1>1, <2>1, <2>2, PathIsFractional
  <2>4. PICK x \in Path(l) : 1 = x \div 2 /\ x \in Nat
    BY <2>1, <2>2, AncestorsClimb DEF Path
  <2>5. x = 2 \/ x = 3
    BY <2>4
  <2> QED BY <1>1, <2>3, <2>4, <2>5
<1> QED BY <1>2 DEF Settled

(* The bound of an open node admits every point below the node. *)
LEMMA PendingAdmits ==
  ASSUME tree \in Trees, TreeShape, Settled, NEW n \in Nodes, node[n].status = "pending",
         NEW l \in Leaves, n \in Path(l)
  PROVE  node[n].lb <= tree[l].obj
<1>1. PICK p \in Path(l) : /\ p \in Nodes /\ node[p].status \in {"pending", "closed"}
                           /\ node[p].lb <= tree[l].obj
  BY DEF Settled
<1>2. l \in Nat \ {0} /\ l \in Nodes
  BY TreeFacts DEF Leaves
<1>3. n \notin Ancestors(p)
  BY <1>1, AboveIsBranched DEF Known
<1>4. p \notin Ancestors(n)
  BY <1>1, AboveIsBranched DEF Known
<1>5. p = n
  BY <1>1, <1>2, <1>3, <1>4, AncestorsChain DEF Path
<1> QED BY <1>1, <1>5

(* The optimum is the value of a leaf, or there is none. *)
LEMMA OptFacts ==
  ASSUME tree \in Trees
  PROVE  /\ Opt \in Bounds
         /\ \A l \in Leaves : Opt <= tree[l].obj /\ tree[l].obj \in Nat /\ tree[l].obj < Infinity
         /\ Opt = Infinity \/ \E l \in Leaves : Opt = tree[l].obj
<1> DEFINE S == {tree[l].obj : l \in Leaves} \cup {Infinity}
<1>1. \A l \in Leaves : tree[l].obj \in Nat /\ tree[l].obj < Infinity
  BY TreeFacts DEF Leaves
<1>2. \A l \in Leaves : tree[l].obj \in Bounds
  BY <1>1, BoundFacts DEF Bounds
<1>3. S \in SUBSET Bounds /\ S # {}
  BY <1>2, BoundFacts
<1>4. Opt = Min(S)
  BY DEF Opt, Leaves
<1> HIDE DEF S
<1>5. Opt \in Bounds /\ Opt \in S /\ \A y \in S : Opt <= y
  BY <1>3, <1>4, MinBounds
<1> QED BY <1>1, <1>5 DEF S

(* The root stays in the tree: nothing above it could free it. *)
LEMMA ClosedKeepsRoot ==
  ASSUME tree \in Trees, tree' = tree, NodeType, TreeShape, Known(1),
         NEW n \in Nodes, node[n].status = "pending", NEW b \in Bounds, node' = Closed(n, b)
  PROVE  Known(1)'
<1>1. PICK m \in Nodes : Climb(n, m)
  BY ClimbEnds
<1>2. 1 \in Nodes /\ Nodes \subseteq Nat \ {0}
  BY TreeFacts
<1>3. 1 \div 2 = 0
  OBVIOUS
<1>4. 1 \div 2 \notin Finished(n)
  <2>1. \A a \in Finished(n) : a \in Nodes
    BY <1>1 DEF Climb
  <2> QED BY <1>2, <1>3, <2>1
<1>5. FreedBelow(node', n, m)
  BY <1>1, ClosedByNode
<1>6. node'[m].status = "closed"
  <2>1. Closed(n, b)[m] = [status |-> "closed", lb |-> Closed(n, b)[m].lb, kids |-> 0]
    BY <1>1, ClosedTop
  <2> QED BY <2>1
<1>7. CASE m = 1
  BY <1>6, <1>7 DEF Known
<1>8. CASE m # 1 /\ 1 = m \div 2
  <2>1. node'[1] = [node[1] EXCEPT !.kids = 1]
    BY <1>2, <1>4, <1>5, <1>8 DEF FreedBelow
  <2>2. node[1] \in [status : {"none", "pending", "branched", "closed", "freed"},
                     lb : Bounds, kids : 0..2]
    BY <1>2 DEF NodeType
  <2>3. node'[1].status = node[1].status
    BY <2>1, <2>2
  <2> QED BY <2>3 DEF Known
<1>9. CASE m # 1 /\ 1 # m \div 2
  <2>1. node'[1] = node[1]
    BY <1>2, <1>4, <1>5, <1>9 DEF FreedBelow
  <2> QED BY <2>1 DEF Known
<1> QED BY <1>7, <1>8, <1>9

=============================================================================
