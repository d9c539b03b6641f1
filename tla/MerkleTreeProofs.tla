-------------------------- MODULE MerkleTreeProofs --------------------------
(***************************************************************************)
(* Theorems about MerkleTree, for lists of leaves of any length: the root  *)
(* is the one of the definition, and two lists of one length have the same *)
(* root only if they are the same list.  The library states induction      *)
(* over the naturals for predicates; here it is stated for sets, from      *)
(* the theorem that a well-founded relation has minimal elements.          *)
(***************************************************************************)
EXTENDS MerkleTree, SequenceTheorems, WellFoundedInduction, TLAPS

\* A set of natural numbers has a least member.
LEMMA Least ==
  ASSUME NEW T, T \subseteq Nat, T # {}
  PROVE  \E x \in T : \A y \in T : x <= y
<1> DEFINE R == OpToRel(<, Nat)
<1>1. IsWellFoundedOn(R, Nat)
  BY NatLessThanWellFounded
<1>2. R = {ss \in Nat \X Nat : ss[1] < ss[2]}
  BY DEF OpToRel
<1> HIDE DEF R
<1>3. PICK x \in T : \A y \in T : <<y, x>> \notin R
  BY <1>1, WFMin
<1>4. \A y \in Nat : y < x => <<y, x>> \in R
  BY <1>2, <1>3
<1>5. \A y \in T : y \in Nat /\ ~(y < x)
  BY <1>3, <1>4
<1>6. \A y \in T : x <= y
  BY <1>5
<1> QED
  BY <1>6

\* Induction up to n, on a set.
LEMMA UpTo ==
  ASSUME NEW n \in Nat, NEW T, 0 \in T,
         \A k \in 0 .. n - 1 : k \in T => k + 1 \in T
  PROVE  \A k \in 0 .. n : k \in T
<1> DEFINE U == {k \in 0 .. n : k \notin T}
<1> SUFFICES ASSUME U # {} PROVE FALSE
  OBVIOUS
<1>0. U \subseteq Nat
  OBVIOUS
<1>1. PICK x \in U : \A y \in U : x <= y
  <2> HIDE DEF U
  <2> QED
    BY <1>0, Least
<1>2. x # 0 /\ x - 1 \in 0 .. n - 1 /\ (x - 1) + 1 = x
  BY <1>1
<1>3. x - 1 \in T
  BY <1>1, <1>2
<1> QED
  BY <1>1, <1>2, <1>3

-----------------------------------------------------------------------------
(***************************************************************************)
(* The levels.  No set has the nodes of all levels, so a list is what has  *)
(* a length and members, whatever they are.                                *)
(***************************************************************************)
IsList(s) == Len(s) \in Nat /\ s = [i \in 1 .. Len(s) |-> s[i]]

Half(n) == (n + 1) \div 2

IsLevels(f, leaves, n) ==
  f = [k \in 0 .. n |-> IF k = 0 THEN leaves ELSE Round(f[k - 1])]

LEMMA LevelsExist ==
  ASSUME NEW leaves, NEW n \in Nat
  PROVE  \E f : IsLevels(f, leaves, n)
<1> DEFINE T == {k \in Nat : \E f : IsLevels(f, leaves, k)}
<1>1. 0 \in T
  <2> DEFINE f == [k \in 0 .. 0 |-> leaves]
  <2>1. IsLevels(f, leaves, 0)
    BY DEF IsLevels
  <2> QED
    BY <2>1
<1>2. ASSUME NEW k \in 0 .. n - 1, k \in T PROVE k + 1 \in T
  <2>1. PICK f : IsLevels(f, leaves, k)
    BY <1>2
  <2> DEFINE g == [j \in 0 .. k + 1 |-> IF j <= k THEN f[j] ELSE Round(f[k])]
  <2>2. IsLevels(g, leaves, k + 1)
    BY <2>1 DEF IsLevels
  <2> QED
    BY <2>2
<1>3. n \in T
  <2> HIDE DEF T
  <2> QED
    BY <1>1, <1>2, UpTo
<1> QED
  BY <1>3

\* Both loops compute the levels.
LEMMA Levels ==
  ASSUME NEW leaves, Len(leaves) \in Nat
  PROVE  \E f : /\ f[0] = leaves
                /\ \A k \in 0 .. Len(leaves) - 1 : f[k + 1] = Round(f[k])
                /\ AgentRoot(leaves) = f[Len(leaves)][1]
                /\ BuilderRoot(leaves) = f[Len(leaves)][1]
<1> DEFINE n == Len(leaves)
           f == CHOOSE level : level =
                  [k \in 0 .. n |->
                     IF k = 0 THEN leaves ELSE Round(level[k - 1])]
<1>1. AgentRoot(leaves) = f[n][1]
  BY DEF AgentRoot
<1>2. BuilderRoot(leaves) = f[n][1]
  BY DEF BuilderRoot
<1>3. f = [k \in 0 .. n |-> IF k = 0 THEN leaves ELSE Round(f[k - 1])]
  BY LevelsExist DEF IsLevels
<1> HIDE DEF f
<1>4. f[0] = leaves /\ \A k \in 0 .. n - 1 : f[k + 1] = Round(f[k])
  BY <1>3
<1> QED
  BY <1>1, <1>2, <1>4

\* A round pairs the nodes, the last one with itself if need be.
LEMMA RoundPairs ==
  ASSUME NEW s, IsList(s), Len(s) > 1
  PROVE  /\ IsList(Round(s))
         /\ Len(Round(s)) = Half(Len(s))
         /\ \A i \in 1 .. Half(Len(s)) :
              Round(s)[i] = NodeHash(s[2 * i - 1],
                                     s[IF 2 * i <= Len(s) THEN 2 * i ELSE Len(s)])
<1> DEFINE n == Len(s)
           S == {s[i] : i \in 1 .. n}
           even == IF n % 2 = 1 THEN Append(s, s[n]) ELSE s
<1>1. n \in Nat /\ s \in Seq(S)
  BY DEF IsList
<1>2. /\ Len(even) \in Nat /\ Len(even) \div 2 = Half(n)
      /\ \A i \in 1 .. Half(n) :
           /\ even[2 * i - 1] = s[2 * i - 1]
           /\ even[2 * i] = s[IF 2 * i <= n THEN 2 * i ELSE n]
  <2>1. CASE n % 2 = 1
    <3>1. /\ Len(Append(s, s[n])) = n + 1
          /\ \A i \in 1 .. n : Append(s, s[n])[i] = s[i]
          /\ Append(s, s[n])[n + 1] = s[n]
      BY <1>1, AppendProperties
    <3>2. even = Append(s, s[n])
      BY <2>1
    <3> HIDE DEF even
    <3>3. n + 1 = 2 * Half(n) /\ Half(n) \in Nat /\ (n + 1) \div 2 = Half(n)
      BY <1>1, <2>1 DEF Half
    <3>4. ASSUME NEW i \in 1 .. Half(n)
          PROVE  /\ even[2 * i - 1] = s[2 * i - 1]
                 /\ even[2 * i] = s[IF 2 * i <= n THEN 2 * i ELSE n]
      <4>1. 2 * i - 1 \in 1 .. n
        BY <1>1, <3>3
      <4>2. CASE 2 * i <= n
        BY <1>1, <3>1, <3>2, <4>1, <4>2
      <4>3. CASE ~(2 * i <= n)
        <5>1. 2 * i = n + 1
          <6> HIDE DEF n, S
          <6>1. n \in Nat /\ Half(n) \in Nat /\ n + 1 = 2 * Half(n)
            BY <1>1, <3>3
          <6> QED
            BY <4>3, <6>1
        <5> QED
          BY <3>1, <3>2, <4>1, <4>3, <5>1
      <4> QED
        BY <4>2, <4>3
    <3>5. Len(even) = n + 1
      BY <3>1, <3>2
    <3>6. n + 1 \in Nat
      BY <1>1
    <3> QED
      BY <3>3, <3>4, <3>5, <3>6
  <2>2. CASE n % 2 # 1
    <3>1. n = 2 * Half(n)
      BY <1>1, <2>2 DEF Half
    <3> QED
      BY <1>1, <2>2, <3>1 DEF Half
  <2> QED
    BY <2>1, <2>2
<1>3. Round(s) = [i \in 1 .. Len(even) \div 2 |-> NodeHash(even[2 * i - 1], even[2 * i])]
  BY DEF Round, NextLevel
<1> HIDE DEF even
<1>4. Half(n) \in Nat
  BY <1>1 DEF Half
<1>5. Round(s) = [i \in 1 .. Half(n) |->
                    NodeHash(s[2 * i - 1], s[IF 2 * i <= n THEN 2 * i ELSE n])]
  BY <1>2, <1>3
<1> QED
  BY <1>4, <1>5 DEF IsList

\* A round makes a list shorter, down to one node.
LEMMA RoundShortens ==
  ASSUME NEW s, IsList(s), Len(s) # 0
  PROVE  /\ IsList(Round(s)) /\ Len(Round(s)) # 0
         /\ Len(s) = 1 => Len(Round(s)) = 1
         /\ Len(s) > 1 => Len(Round(s)) < Len(s)
<1>1. Len(s) \in Nat
  BY DEF IsList
<1>2. CASE Len(s) > 1
  <2>1. Half(Len(s)) # 0 /\ Half(Len(s)) < Len(s)
    BY <1>1, <1>2 DEF Half
  <2> QED
    BY <1>2, <2>1, RoundPairs
<1>3. CASE ~(Len(s) > 1)
  BY <1>3 DEF Round
<1> QED
  BY <1>2, <1>3

\* The levels are lists, and after as many rounds as there are leaves one node
\* is left.
LEMMA Widths ==
  ASSUME NEW leaves, IsList(leaves), Len(leaves) # 0,
         NEW f, f[0] = leaves,
         \A k \in 0 .. Len(leaves) - 1 : f[k + 1] = Round(f[k])
  PROVE  /\ \A k \in 0 .. Len(leaves) : IsList(f[k]) /\ Len(f[k]) # 0
         /\ Len(f[Len(leaves)]) = 1
<1> DEFINE n == Len(leaves)
           Narrow(k, s) == /\ IsList(s) /\ Len(s) # 0
                           /\ Len(s) = 1 \/ Len(s) + k <= n
           T == {k \in 0 .. n : Narrow(k, f[k])}
<1>0. n \in Nat /\ n > 0
  BY DEF IsList
<1>1. 0 \in T
  BY <1>0
<1>2. ASSUME NEW k \in 0 .. n - 1, NEW s, Narrow(k, s)
      PROVE  Narrow(k + 1, Round(s))
  <2>1. /\ IsList(Round(s)) /\ Len(Round(s)) # 0
        /\ Len(s) = 1 => Len(Round(s)) = 1
        /\ Len(s) > 1 => Len(Round(s)) < Len(s)
    BY <1>2, RoundShortens
  <2>2. Len(s) \in Nat /\ Len(Round(s)) \in Nat
    BY <1>2, <2>1 DEF IsList
  <2>3. CASE Len(s) = 1
    BY <2>1, <2>3
  <2>4. CASE Len(s) # 1
    <3>0. Len(s) # 0 /\ Len(s) + k <= n
      BY <1>2, <2>4
    <3>1. Len(s) + k <= n /\ Len(s) > 1
      <4>1. \A w \in Nat : w # 0 /\ w # 1 => w > 1
        OBVIOUS
      <4> QED
        BY <2>2, <2>4, <3>0, <4>1
    <3>2. Len(Round(s)) + (k + 1) <= n
      BY <1>0, <2>1, <2>2, <3>1
    <3> QED
      BY <2>1, <3>2
  <2> QED
    BY <2>3, <2>4
<1> HIDE DEF Narrow
<1>3. ASSUME NEW k \in 0 .. n - 1, k \in T PROVE k + 1 \in T
  <2>1. f[k + 1] = Round(f[k]) /\ k + 1 \in 0 .. n
    BY <1>0
  <2>2. Narrow(k, f[k])
    BY <1>3
  <2>3. Narrow(k + 1, Round(f[k]))
    BY <1>2, <2>2
  <2> QED
    BY <2>1, <2>3
<1>4. \A k \in 0 .. n : k \in T
  <2> HIDE DEF T
  <2> QED
    BY <1>0, <1>1, <1>3, UpTo
<1>5. ASSUME NEW k \in 0 .. n
      PROVE  /\ IsList(f[k]) /\ Len(f[k]) # 0
             /\ Len(f[k]) = 1 \/ Len(f[k]) + k <= n
  BY <1>4 DEF Narrow
<1>6. Len(f[n]) = 1
  <2>1. n \in 0 .. n
    BY <1>0
  <2>2. Len(f[n]) \in Nat
    BY <1>5, <2>1 DEF IsList
  <2> QED
    BY <1>0, <1>5, <2>1, <2>2
<1> QED
  BY <1>5, <1>6

-----------------------------------------------------------------------------
\* Two levels of one length that make the same next level are the same.
LEMMA RoundInjective ==
  ASSUME NEW s, NEW t, IsList(s), IsList(t), Len(s) = Len(t),
         Len(s) # 0, Round(s) = Round(t)
  PROVE  s = t
<1> DEFINE n == Len(s)
<1>0. n \in Nat \ {0}
  BY DEF IsList
<1>1. CASE n = 1
  BY <1>1 DEF Round
<1>2. CASE n > 1
  <2>1. ASSUME NEW j \in 1 .. n PROVE s[j] = t[j]
    <3>1. ASSUME NEW i \in 1 .. Half(n)
          PROVE  /\ s[2 * i - 1] = t[2 * i - 1]
                 /\ 2 * i <= n => s[2 * i] = t[2 * i]
      <4>1. Round(s)[i] = NodeHash(s[2 * i - 1], s[IF 2 * i <= n THEN 2 * i ELSE n])
        BY <1>2, RoundPairs
      <4>2. Round(t)[i] = NodeHash(t[2 * i - 1], t[IF 2 * i <= n THEN 2 * i ELSE n])
        BY <1>2, RoundPairs
      <4> QED
        BY <4>1, <4>2 DEF NodeHash
    <3>2. CASE j % 2 = 1
      <4>1. Half(j) \in 1 .. Half(n) /\ 2 * Half(j) - 1 = j
        BY <1>0, <3>2 DEF Half
      <4> QED
        BY <3>1, <4>1
    <3>3. CASE j % 2 # 1
      <4>1. Half(j) \in 1 .. Half(n) /\ 2 * Half(j) = j
        BY <1>0, <3>3 DEF Half
      <4> QED
        BY <3>1, <4>1
    <3> QED
      BY <3>2, <3>3
  <2> QED
    BY <2>1 DEF IsList
<1> QED
  BY <1>0, <1>1, <1>2

(***************************************************************************)
(* The root of the agent's loop (strategies.py, _build_merkle_root) is     *)
(* that of one list of leaves only, among the lists of its length: the     *)
(* levels of two lists are as long as each other, and where they agree,    *)
(* the levels below agree.                                                 *)
(***************************************************************************)
THEOREM RootOfOneList ==
  ASSUME NEW a, NEW b, IsList(a), IsList(b), Len(a) = Len(b),
         Len(a) # 0, AgentRoot(a) = AgentRoot(b)
  PROVE  a = b
<1> DEFINE n == Len(a)
<1>0. n \in Nat
  BY DEF IsList
<1>1. PICK f : /\ f[0] = a
               /\ \A k \in 0 .. n - 1 : f[k + 1] = Round(f[k])
               /\ AgentRoot(a) = f[n][1]
  BY <1>0, Levels
<1>2. PICK g : /\ g[0] = b
               /\ \A k \in 0 .. n - 1 : g[k + 1] = Round(g[k])
               /\ AgentRoot(b) = g[n][1]
  BY <1>0, Levels
<1>3. /\ \A k \in 0 .. n : IsList(f[k]) /\ Len(f[k]) # 0
      /\ Len(f[n]) = 1
  BY <1>1, Widths
<1>4. /\ \A k \in 0 .. n : IsList(g[k]) /\ Len(g[k]) # 0
      /\ Len(g[n]) = 1
  BY <1>2, Widths
<1>5. \A k \in 0 .. n : Len(f[k]) = Len(g[k])
  <2> DEFINE T == {k \in 0 .. n : Len(f[k]) = Len(g[k])}
  <2>1. 0 \in T
    BY <1>0, <1>1, <1>2
  <2>2. ASSUME NEW k \in 0 .. n - 1, k \in T PROVE k + 1 \in T
    <3>1. /\ f[k + 1] = Round(f[k]) /\ g[k + 1] = Round(g[k])
          /\ Len(f[k]) = Len(g[k]) /\ k \in 0 .. n /\ k + 1 \in 0 .. n
      BY <1>0, <1>1, <1>2, <2>2
    <3>2. CASE Len(f[k]) > 1
      BY <1>3, <1>4, <3>1, <3>2, RoundPairs
    <3>3. CASE ~(Len(f[k]) > 1)
      BY <3>1, <3>3 DEF Round
    <3> QED
      BY <3>2, <3>3
  <2>3. \A k \in 0 .. n : k \in T
    <3> HIDE DEF T
    <3> QED
      BY <1>0, <2>1, <2>2, UpTo
  <2> QED
    BY <2>3
<1>6. f[n] = g[n]
  <2>1. f[n][1] = g[n][1]
    BY <1>1, <1>2
  <2>2. n \in 0 .. n
    BY <1>0
  <2>3. IsList(f[n]) /\ IsList(g[n]) /\ Len(f[n]) = 1 /\ Len(g[n]) = 1
    BY <1>3, <1>4, <2>2
  <2>4. f[n] = [i \in 1 .. 1 |-> f[n][i]] /\ g[n] = [i \in 1 .. 1 |-> g[n][i]]
    BY <2>3 DEF IsList
  <2>5. \A i \in 1 .. 1 : f[n][i] = g[n][i]
    BY <2>1
  <2> HIDE DEF n
  <2> QED
    BY <2>4, <2>5
<1>7. f[0] = g[0]
  <2> DEFINE T == {d \in 0 .. n : f[n - d] = g[n - d]}
  <2>1. 0 \in T
    BY <1>0, <1>6
  <2>2. ASSUME NEW d \in 0 .. n - 1, d \in T PROVE d + 1 \in T
    <3> DEFINE k == n - (d + 1)
    <3>1. k \in 0 .. n - 1 /\ k + 1 = n - d /\ k \in 0 .. n /\ d + 1 \in 0 .. n
      BY <1>0
    <3>2. f[k + 1] = g[k + 1]
      BY <2>2, <3>1
    <3>3. f[k + 1] = Round(f[k]) /\ g[k + 1] = Round(g[k])
      BY <1>1, <1>2, <3>1
    <3>4. f[k] = g[k]
      <4> HIDE DEF k
      <4>1. IsList(f[k]) /\ IsList(g[k]) /\ Len(f[k]) = Len(g[k]) /\ Len(f[k]) # 0
        BY <1>3, <1>4, <1>5, <3>1
      <4> QED
        BY <3>2, <3>3, <4>1, RoundInjective
    <3> QED
      BY <3>1, <3>4
  <2>3. n \in T
    <3> HIDE DEF T
    <3> QED
      BY <1>0, <2>1, <2>2, UpTo
  <2> QED
    BY <1>0, <2>3
<1> QED
  BY <1>1, <1>2, <1>7

-----------------------------------------------------------------------------
\* The recursive functions of ReferenceRoot exist.
LEMMA SpanExists ==
  ASSUME NEW n \in Nat
  PROVE  \E f : f = [h \in 0 .. n |-> IF h = 0 THEN 1 ELSE 2 * f[h - 1]]
<1> DEFINE IsSpan(f, m) == f = [h \in 0 .. m |-> IF h = 0 THEN 1 ELSE 2 * f[h - 1]]
           T == {m \in Nat : \E f : IsSpan(f, m)}
<1>1. 0 \in T
  <2> DEFINE f == [h \in 0 .. 0 |-> 1]
  <2>1. IsSpan(f, 0)
    OBVIOUS
  <2> QED
    BY <2>1
<1>2. ASSUME NEW m \in 0 .. n - 1, m \in T PROVE m + 1 \in T
  <2>1. PICK f : IsSpan(f, m)
    BY <1>2
  <2> DEFINE g == [h \in 0 .. m + 1 |-> IF h <= m THEN f[h] ELSE 2 * f[m]]
  <2>2. IsSpan(g, m + 1)
    BY <2>1
  <2> HIDE DEF IsSpan
  <2> QED
    BY <2>2
<1>3. n \in T
  <2> HIDE DEF T
  <2> QED
    BY <1>1, <1>2, UpTo
<1> QED
  BY <1>3

\* Which nodes of a level of w nodes node k of the next level is made of.
Right(w, k) == IF 2 * k + 1 < w THEN 2 * k + 1 ELSE 2 * k

LEMMA Children ==
  ASSUME NEW w \in Nat, NEW k \in Nat
  PROVE  /\ k < Half(w) <=> 2 * k < w
         /\ k < Half(w) => /\ k + 1 \in 1 .. Half(w)
                          /\ Right(w, k) \in Nat /\ Right(w, k) < w
                          /\ (IF 2 * (k + 1) <= w THEN 2 * (k + 1) ELSE w)
                               = Right(w, k) + 1
<1>1. k < Half(w) <=> 2 * k < w
  BY DEF Half
<1>2. ASSUME k < Half(w) PROVE k + 1 \in 1 .. Half(w)
  BY <1>2 DEF Half
<1>3. CASE 2 * k + 1 < w
  BY <1>1, <1>2, <1>3 DEF Right
<1>4. CASE ~(2 * k + 1 < w)
  <2>1. 2 * k < w => w = 2 * k + 1 /\ ~(2 * (k + 1) <= w)
    BY <1>4
  <2> QED
    BY <1>1, <1>2, <1>4, <2>1 DEF Right
<1> QED
  BY <1>3, <1>4

\* Row h of the tree over `leaves', from the row below it.
Row(leaves, span, h, below) ==
  LET n == Len(leaves)
  IN  [k \in {k \in 0 .. n - 1 : k * span[h] < n} |->
        IF h = 0 THEN leaves[k + 1]
        ELSE NodeHash(below[2 * k],
                      below[IF 2 * k + 1 \in {j \in 0 .. n - 1 : j * span[h - 1] < n}
                              THEN 2 * k + 1 ELSE 2 * k])]

IsTree(f, leaves, span, n) ==
  f = [h \in 0 .. n |-> Row(leaves, span, h, f[h - 1])]

LEMMA TreeExists ==
  ASSUME NEW n \in Nat, NEW leaves, NEW span
  PROVE  \E f : IsTree(f, leaves, span, n)
<1> DEFINE T == {m \in Nat : \E f : IsTree(f, leaves, span, m)}
<1>1. 0 \in T
  <2> DEFINE f == [h \in 0 .. 0 |-> Row(leaves, span, 0, <<>>)]
  <2>1. \A below : Row(leaves, span, 0, below) = Row(leaves, span, 0, <<>>)
    BY DEF Row
  <2>2. IsTree(f, leaves, span, 0)
    BY <2>1 DEF IsTree
  <2> QED
    BY <2>2
<1>2. ASSUME NEW m \in 0 .. n - 1, m \in T PROVE m + 1 \in T
  <2>1. PICK f : IsTree(f, leaves, span, m)
    BY <1>2
  <2> DEFINE g == [h \in 0 .. m + 1 |->
                     IF h <= m THEN f[h] ELSE Row(leaves, span, m + 1, f[m])]
  <2>2. IsTree(g, leaves, span, m + 1)
    <3>1. \A h \in 1 .. m + 1 : g[h - 1] = f[h - 1]
      OBVIOUS
    <3>2. \A h \in 0 .. m : f[h] = Row(leaves, span, h, f[h - 1])
      BY <2>1 DEF IsTree
    <3>3. \A below, other :
            Row(leaves, span, 0, below) = Row(leaves, span, 0, other)
      BY DEF Row
    <3>4. ASSUME NEW h \in 0 .. m + 1
          PROVE  g[h] = Row(leaves, span, h, g[h - 1])
      <4>1. CASE h = 0
        BY <3>2, <3>3, <4>1
      <4>2. CASE h # 0 /\ h <= m
        BY <3>1, <3>2, <4>2
      <4>3. CASE h = m + 1
        <5>1. h \in 1 .. m + 1 /\ h - 1 = m /\ ~(h <= m)
          BY <4>3
        <5> QED
          BY <3>1, <4>3, <5>1
      <4> QED
        BY <4>1, <4>2, <4>3
    <3>5. g = [h \in 0 .. m + 1 |-> g[h]]
      OBVIOUS
    <3> HIDE DEF g
    <3> QED
      BY <3>4, <3>5 DEF IsTree
  <2> QED
    BY <2>2
<1>3. n \in T
  <2> HIDE DEF T
  <2> QED
    BY <1>1, <1>2, UpTo
<1> QED
  BY <1>3

(***************************************************************************)
(* The root of the agent's loop, and of the publisher's, is the one of the *)
(* definition, for any number of leaves: where a level of the loop has k   *)
(* nodes, the row of the tree has as many, and they are the same.          *)
(***************************************************************************)
THEOREM RootIsReference ==
  ASSUME NEW leaves, IsList(leaves), Len(leaves) # 0
  PROVE  /\ AgentRoot(leaves) = ReferenceRoot(leaves)
         /\ BuilderRoot(leaves) = ReferenceRoot(leaves)
<1> DEFINE n == Len(leaves)
           span == CHOOSE span : span =
                     [h \in 0 .. n |-> IF h = 0 THEN 1 ELSE 2 * span[h - 1]]
           Nodes(h) == {k \in 0 .. n - 1 : k * span[h] < n}
           node == CHOOSE node : node =
             [h \in 0 .. n |->
               [k \in Nodes(h) |->
                 IF h = 0 THEN leaves[k + 1]
                 ELSE NodeHash(node[h - 1][2 * k],
                               node[h - 1][IF 2 * k + 1 \in Nodes(h - 1)
                                             THEN 2 * k + 1 ELSE 2 * k])]]
           height == CHOOSE h \in 0 .. n :
                       span[h] >= n /\ \A g \in 0 .. h - 1 : span[g] < n
<1>0. n \in Nat /\ n > 0
  BY DEF IsList
<1>1. ReferenceRoot(leaves) = node[height][0]
  BY DEF ReferenceRoot
<1>2. span = [h \in 0 .. n |-> IF h = 0 THEN 1 ELSE 2 * span[h - 1]]
  BY <1>0, SpanExists
<1>3. node = [h \in 0 .. n |-> Row(leaves, span, h, node[h - 1])]
  <2>1. \E f : IsTree(f, leaves, span, n)
    <3> HIDE DEF span, node, height, n
    <3> QED
      BY <1>0, TreeExists
  <2>2. node = CHOOSE f : IsTree(f, leaves, span, n)
    BY DEF IsTree, Row
  <2>3. IsTree(node, leaves, span, n)
    <3> HIDE DEF span, node, height, n
    <3> QED
      BY <2>1, <2>2
  <2> QED
    BY <2>3 DEF IsTree
<1> HIDE DEF span, node
<1>4. /\ span[0] = 1
      /\ \A h \in 0 .. n - 1 : span[h + 1] = 2 * span[h]
  BY <1>0, <1>2
<1>5. \A h \in 0 .. n : span[h] \in Nat /\ span[h] > h
  <2> DEFINE T == {h \in 0 .. n : span[h] \in Nat /\ span[h] > h}
  <2>1. 0 \in T
    BY <1>0, <1>4
  <2>2. ASSUME NEW h \in 0 .. n - 1, h \in T PROVE h + 1 \in T
    <3>1. span[h + 1] = 2 * span[h] /\ h + 1 \in 0 .. n
      BY <1>0, <1>4
    <3>2. span[h] \in Nat /\ span[h] > h
      BY <2>2
    <3>3. 2 * span[h] \in Nat /\ 2 * span[h] > h + 1
      BY <3>2
    <3> QED
      BY <3>1, <3>3
  <2>3. \A h \in 0 .. n : h \in T
    <3> HIDE DEF T
    <3> QED
      BY <1>0, <2>1, <2>2, UpTo
  <2> QED
    BY <2>3
<1>6. /\ height \in 0 .. n /\ span[height] >= n
      /\ \A g \in 0 .. height - 1 : span[g] < n
  <2> DEFINE T == {h \in 0 .. n : span[h] >= n}
  <2>1. n \in T
    BY <1>0, <1>5
  <2>0. T \subseteq Nat
    OBVIOUS
  <2>2. PICK h \in T : \A g \in T : h <= g
    <3> HIDE DEF T
    <3> QED
      BY <2>0, <2>1, Least
  <2>3. h \in 0 .. n /\ span[h] >= n
    OBVIOUS
  <2>4. ASSUME NEW g \in 0 .. h - 1 PROVE span[g] < n
    <3>1. g \in 0 .. n /\ ~(h <= g)
      BY <2>3
    <3>2. g \notin T
      BY <2>2, <3>1
    <3> QED
      BY <1>0, <1>5, <3>1, <3>2
  <2>5. \E h1 \in 0 .. n : span[h1] >= n /\ \A g \in 0 .. h1 - 1 : span[g] < n
    BY <2>3, <2>4
  <2> QED
    BY <2>5
<1> HIDE DEF height
<1>7. PICK f : /\ f[0] = leaves
               /\ \A k \in 0 .. n - 1 : f[k + 1] = Round(f[k])
               /\ AgentRoot(leaves) = f[n][1]
               /\ BuilderRoot(leaves) = f[n][1]
  BY <1>0, Levels
<1>8. /\ \A k \in 0 .. n : IsList(f[k]) /\ Len(f[k]) # 0
      /\ Len(f[n]) = 1
  BY <1>7, Widths
\* As many rounds as the tree is high: the loop and the tree go together.
<1> DEFINE Same(h) == /\ \A k \in Nat : k * span[h] < n <=> k < Len(f[h])
                      /\ \A k \in Nat : k < Len(f[h]) => node[h][k] = f[h][k + 1]
<1>9. ASSUME NEW h \in 0 .. n, \A k \in Nat : k * span[h] < n <=> k < Len(f[h])
      PROVE  Nodes(h) = {k \in Nat : k < Len(f[h])}
  <2>1. span[h] \in Nat /\ span[h] >= 1
    BY <1>0, <1>5
  <2>2. ASSUME NEW k \in Nat, k * span[h] < n PROVE k \in 0 .. n - 1
    <3>1. k <= k * span[h] /\ k * span[h] \in Nat
      BY <2>1
    <3> QED
      BY <1>0, <2>2, <3>1
  <2> QED
    BY <1>9, <2>2
<1>10. Same(0)
  <2>1. \A k \in Nat : k * span[0] = k
    BY <1>4
  <2>2. \A k \in Nat : k * span[0] < n <=> k < Len(f[0])
    BY <1>7, <2>1
  <2>3. Nodes(0) = {k \in Nat : k < Len(f[0])}
    BY <1>0, <1>9, <2>2
  <2>4. node[0] = [k \in Nodes(0) |-> leaves[k + 1]]
    <3>1. 0 \in 0 .. n
      BY <1>0
    <3>2. node[0] = Row(leaves, span, 0, node[0 - 1])
      BY <1>3, <3>1
    <3> QED
      BY <3>2 DEF Row
  <2> QED
    BY <1>7, <2>2, <2>3, <2>4
<1>11. ASSUME NEW h \in 0 .. height - 1, Same(h) PROVE Same(h + 1)
  <2> DEFINE L == Len(f[h])
  <2>1. h \in 0 .. n - 1 /\ h \in 0 .. n /\ h + 1 \in 0 .. n /\ (h + 1) - 1 = h
    BY <1>0, <1>6
  <2>2. L \in Nat /\ L > 1
    <3>1. 1 * span[h] < n
      BY <1>5, <1>6, <2>1
    <3> QED
      BY <1>8, <1>11, <2>1, <3>1 DEF IsList
  <2>3. /\ Len(f[h + 1]) = Half(L)
        /\ \A i \in 1 .. Half(L) :
             f[h + 1][i] = NodeHash(f[h][2 * i - 1],
                                    f[h][IF 2 * i <= L THEN 2 * i ELSE L])
    <3>1. f[h + 1] = Round(f[h]) /\ IsList(f[h])
      BY <1>7, <1>8, <2>1
    <3> QED
      BY <2>2, <3>1, RoundPairs
  <2>4. \A k \in Nat : k < Half(L) <=> 2 * k < L
    BY <2>2, Children
  <2>5. \A k \in Nat : k * span[h + 1] < n <=> k < Half(L)
    <3> TAKE k \in Nat
    <3>1. k * span[h + 1] = (2 * k) * span[h]
      BY <1>4, <1>5, <2>1
    <3>2. 2 * k \in Nat
      OBVIOUS
    <3> QED
      BY <1>11, <2>4, <3>1, <3>2
  <2>6. /\ Nodes(h) = {k \in Nat : k < L}
        /\ Nodes(h + 1) = {k \in Nat : k < Half(L)}
    BY <1>9, <1>11, <2>1, <2>3, <2>5
  <2>7. ASSUME NEW k \in Nat, k < Half(L)
        PROVE  node[h + 1][k] = f[h + 1][k + 1]
    <3> DEFINE r == Right(L, k)
    <3>1. node[h + 1] = Row(leaves, span, h + 1, node[h])
      BY <1>3, <2>1
    <3>2. node[h + 1][k] = NodeHash(node[h][2 * k], node[h][r])
      <4>1. k \in Nodes(h + 1) /\ (2 * k + 1 \in Nodes(h) <=> 2 * k + 1 < L)
        BY <2>6, <2>7
      <4> HIDE DEF L
      <4> QED
        BY <2>1, <3>1, <4>1 DEF Row, Right
    <3>3. /\ 2 * k < L /\ 2 * k \in Nat /\ r \in Nat /\ r < L
          /\ k + 1 \in 1 .. Half(L)
          /\ (IF 2 * (k + 1) <= L THEN 2 * (k + 1) ELSE L) = r + 1
      <4> HIDE DEF L
      <4>1. 2 * k \in Nat /\ 2 * k < L
        BY <2>4, <2>7
      <4> QED
        BY <2>2, <2>7, <4>1, Children
    <3>4. node[h][2 * k] = f[h][2 * k + 1] /\ node[h][r] = f[h][r + 1]
      BY <1>11, <3>3
    <3>5. 2 * (k + 1) - 1 = 2 * k + 1
      OBVIOUS
    <3>6. f[h + 1][k + 1] = NodeHash(f[h][2 * (k + 1) - 1],
                                     f[h][IF 2 * (k + 1) <= L THEN 2 * (k + 1) ELSE L])
      BY <2>3, <3>3
    <3> QED
      BY <3>2, <3>3, <3>4, <3>5, <3>6
  <2> QED
    BY <2>3, <2>5, <2>7
<1>12. Same(height)
  <2> DEFINE T == {h \in 0 .. height : Same(h)}
  <2>1. 0 \in T
    BY <1>6, <1>10
  <2>2. ASSUME NEW h \in 0 .. height - 1, h \in T PROVE h + 1 \in T
    <3> HIDE DEF Same
    <3>1. Same(h) /\ h + 1 \in 0 .. height
      BY <1>6, <2>2
    <3> QED
      BY <1>11, <3>1
  <2>3. height \in T
    <3>1. height \in Nat /\ height \in 0 .. height
      BY <1>0, <1>6
    <3> HIDE DEF T
    <3> QED
      BY <2>1, <2>2, <3>1, UpTo
  <2> QED
    BY <2>3
\* There one node is left, and the loop makes no more rounds.
<1>13. Len(f[height]) = 1
  <2>1. ~(1 * span[height] < n)
    BY <1>0, <1>5, <1>6
  <2>2. Len(f[height]) \in Nat /\ Len(f[height]) # 0
    BY <1>6, <1>8 DEF IsList
  <2>3. 1 * span[height] < n <=> 1 < Len(f[height])
    BY <1>12
  <2>4. \A w \in Nat : w # 0 /\ ~(1 < w) => w = 1
    OBVIOUS
  <2> QED
    BY <2>1, <2>2, <2>3, <2>4
<1>14. f[n] = f[height]
  <2>0. n - height \in Nat /\ height + (n - height) = n /\ height + 0 = height
    BY <1>0, <1>6
  <2> DEFINE m == n - height
             T == {d \in 0 .. m : f[height + d] = f[height]}
  <2>1. 0 \in T
    BY <2>0
  <2>2. ASSUME NEW d \in 0 .. m - 1, d \in T PROVE d + 1 \in T
    <3>1. f[height + d] = f[height] /\ height + d \in 0 .. n - 1
          /\ (height + d) + 1 = height + (d + 1) /\ d + 1 \in 0 .. m
      BY <1>0, <1>6, <2>2
    <3>2. f[(height + d) + 1] = Round(f[height + d])
      BY <1>7, <3>1
    <3>3. Round(f[height]) = f[height]
      BY <1>13 DEF Round
    <3>4. f[height + (d + 1)] = f[height]
      BY <3>1, <3>2, <3>3
    <3> QED
      BY <3>1, <3>4
  <2>3. m \in T
    <3>1. m \in Nat /\ m \in 0 .. m
      BY <2>0
    <3> HIDE DEF T, m
    <3> QED
      BY <2>1, <2>2, <3>1, UpTo
  <2> QED
    BY <2>0, <2>3
<1>15. node[height][0] = f[height][1]
  BY <1>12, <1>13
<1> QED
  BY <1>1, <1>7, <1>14, <1>15
=============================================================================
