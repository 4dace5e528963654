---------------------------- MODULE DirFSProofs ----------------------------
(***************************************************************************)
(* Memory and disk stay in step, and every spelling reads back what was    *)
(* written under it (pkg/fs/rwosfs.go, pkg/fs/memfs.go), for any number of *)
(* names, contents, link targets, calls and calls the disk fails.          *)
(***************************************************************************)
EXTENDS DirFS, FiniteSetTheorems, SequenceTheorems, WellFoundedInduction, TLAPS

-----------------------------------------------------------------------------
(* Recursion over the numbers up to n. *)

\* Every nonempty set of numbers has a least element.
LEMMA LeastNumber ==
    ASSUME NEW T, T \subseteq Nat, T # {}
    PROVE  \E n \in T : \A m \in T : n <= m
  <1>1. PICK n \in T : \A m \in T : ~(<<m, n>> \in OpToRel(<, Nat))
    BY WFMin, NatLessThanWellFounded
  <1>2. \A m \in T : ~(m < n)
    BY <1>1 DEF OpToRel
  <1>3. \A m \in T : n <= m
    BY <1>2
  <1> QED
    BY <1>3

\* Induction, with a set for the property.
LEMMA UpToInduction ==
    ASSUME NEW n \in Nat, NEW T, 0 \in T,
           \A k \in 1..n : k - 1 \in T => k \in T
    PROVE  0..n \subseteq T
  <1> SUFFICES ASSUME NEW j \in 0..n, j \notin T PROVE FALSE
    OBVIOUS
  <1> DEFINE out == {k \in 0..n : k \notin T}
  <1>1. out \subseteq Nat /\ out # {}
    OBVIOUS
  <1>2. PICK k \in out : \A m \in out : k <= m
    BY <1>1, LeastNumber
  <1>3. k \in 1..n /\ k - 1 \in 0..n
    BY <1>2
  <1>4. k - 1 \in T
    BY <1>2, <1>3
  <1> QED
    BY <1>2, <1>3, <1>4

IsStep(g, n, U) == \A k \in 1..n, u \in U : g[<<k, u>>] \in U
IsRecursion(f, g, e, n, U) ==
    /\ f \in [0..n -> U]
    /\ f[0] = e
    /\ \A k \in 1..n : f[k] = g[<<k, f[k - 1]>>]

\* A function with f[0] = e and f[k] = g[k, f[k - 1]] exists.
LEMMA RecursionExists ==
    ASSUME NEW n \in Nat, NEW U, NEW e \in U, NEW g, IsStep(g, n, U)
    PROVE  \E f : IsRecursion(f, g, e, n, U)
  <1> USE DEF IsStep
  <1> DEFINE Upto(f, m) == /\ f[0] = e
                           /\ \A k \in 1..m : f[k] = g[<<k, f[k - 1]>>]
             T == {m \in 0..n : \E f \in [0..m -> U] : Upto(f, m)}
  <1>1. 0 \in T
    <2> DEFINE f == [k \in 0..0 |-> e]
    <2>1. f \in [0..0 -> U] /\ Upto(f, 0) /\ 0 \in 0..n
      OBVIOUS
    <2> HIDE DEF f, Upto
    <2> QED
      BY <2>1
  <1>2. ASSUME NEW k \in 1..n, k - 1 \in T PROVE k \in T
    <2>1. PICK f \in [0..(k - 1) -> U] : Upto(f, k - 1)
      BY <1>2
    <2> DEFINE h == [j \in 0..k |-> IF j = k THEN g[<<k, f[k - 1]>>] ELSE f[j]]
    <2>2. f[k - 1] \in U
      BY <2>1
    <2>3. h \in [0..k -> U]
      <3> SUFFICES ASSUME NEW j \in 0..k
                   PROVE (IF j = k THEN g[<<k, f[k - 1]>>] ELSE f[j]) \in U
        OBVIOUS
      <3>1. CASE j = k
        BY <2>2, <3>1
      <3>2. CASE j # k
        BY <3>2
      <3> QED
        BY <3>1, <3>2
    <2>4. h[0] = e
      BY <2>1
    <2>5. ASSUME NEW j \in 1..k PROVE h[j] = g[<<j, h[j - 1]>>]
      <3>1. h[j - 1] = f[j - 1]
        OBVIOUS
      <3>2. CASE j = k
        <4>1. h[k] = g[<<k, f[k - 1]>>]
          OBVIOUS
        <4> HIDE DEF h
        <4> QED
          BY <3>1, <3>2, <4>1
      <3>3. CASE j # k
        <4>1. j \in 1..(k - 1) /\ h[j] = f[j]
          BY <3>3
        <4> QED
          BY <2>1, <3>1, <4>1
      <3> QED
        BY <3>2, <3>3
    <2> HIDE DEF h
    <2> QED
      BY <2>3, <2>4, <2>5
  <1> HIDE DEF T
  <1>3. n \in T
    BY <1>1, <1>2, UpToInduction
  <1> QED
    BY <1>3 DEF T, IsRecursion

-----------------------------------------------------------------------------
(* Paths and trees. *)

LEMMA PathCases ==
    ASSUME NEW p \in Paths
    PROVE  \/ \E x \in Names : p = <<x>>
           \/ \E x, y \in Names : p = <<x, y>>
  BY DEF Paths

LEMMA OneNamePaths ==
    ASSUME NEW x \in Names, NEW n
    PROVE  /\ <<x>> \in Paths /\ Len(<<x>>) = 1 /\ <<x>>[1] = x
           /\ Append(DirOf(<<x>>), n) = <<n>>
           /\ DirOf(<<x>>) = <<>>
  <1>1. DirOf(<<x>>) = <<>>
    BY DEF DirOf
  <1> QED
    BY <1>1 DEF Paths

LEMMA TwoNamePaths ==
    ASSUME NEW x \in Names, NEW y \in Names, NEW n \in Names
    PROVE  /\ <<x, y>> \in Paths /\ Len(<<x, y>>) = 2
           /\ <<x, y>>[1] = x /\ <<x, y>>[2] = y
           /\ DirOf(<<x, y>>) = <<x>>
           /\ Append(<<x>>, n) = <<x, n>>
           /\ Append(DirOf(<<x, y>>), n) = <<x, n>>
  <1>1. DirOf(<<x, y>>) = <<x>>
    <2>1. <<x, y>> \in Seq(Names) /\ <<x>> \in Seq(Names) /\ Len(<<x, y>>) = 2 /\ Len(<<x>>) = 1
      OBVIOUS
    <2>2. DirOf(<<x, y>>) = SubSeq(<<x, y>>, 1, 1)
      BY <2>1 DEF DirOf
    <2>3. /\ SubSeq(<<x, y>>, 1, 1) \in Seq(Names)
          /\ Len(SubSeq(<<x, y>>, 1, 1)) = 1
          /\ SubSeq(<<x, y>>, 1, 1)[1] = x
      BY <2>1
    <2>4. \A i \in 1..1 : SubSeq(<<x, y>>, 1, 1)[i] = <<x>>[i]
      BY <2>3
    <2> QED
      BY <2>1, <2>2, <2>3, <2>4, SeqEqual
  <1>2. Append(<<x>>, n) = <<x, n>>
    <2>1. <<x, n>> \in Seq(Names) /\ <<x>> \in Seq(Names) /\ Len(<<x, n>>) = 2 /\ Len(<<x>>) = 1
      OBVIOUS
    <2>2. /\ Append(<<x>>, n) \in Seq(Names) /\ Len(Append(<<x>>, n)) = 2
          /\ Append(<<x>>, n)[1] = x /\ Append(<<x>>, n)[2] = n
      BY <2>1
    <2>3. \A i \in 1..2 : Append(<<x>>, n)[i] = <<x, n>>[i]
      BY <2>2
    <2> QED
      BY <2>1, <2>2, <2>3, SeqEqual
  <1>3. <<x, y>> \in Paths
    BY DEF Paths
  <1> QED
    BY <1>1, <1>2, <1>3

\* What a link can hold.
Targets == Texts \cup {HostRoot}

LEMMA NodeCases ==
    ASSUME NEW n \in NodesOfTree
    PROVE  /\ n[1] \in {"none", "dir", "dev", "file", "link"}
           /\ n[1] = "none" => n = Nothing
           /\ n[1] = "dir" => n = Dir
           /\ n[1] = "dev" => n = Dev
           /\ n[1] = "file" => n[2] \in Numbers /\ n = Reg(n[2])
           /\ n[1] = "link" => n[2] \in Targets /\ n = SymlinkTo(n[2])
  BY DEF NodesOfTree, Nothing, Dir, Dev, Reg, SymlinkTo, Targets

LEMMA NodeKinds ==
    /\ Nothing \in NodesOfTree /\ Nothing[1] = "none"
    /\ Dir \in NodesOfTree /\ Dir[1] = "dir"
    /\ Dev \in NodesOfTree /\ Dev[1] = "dev"
    /\ \A i \in Numbers : Reg(i) \in NodesOfTree /\ Reg(i)[1] = "file" /\ Reg(i)[2] = i
    /\ \A w \in Targets : /\ SymlinkTo(w) \in NodesOfTree /\ SymlinkTo(w)[1] = "link"
                          /\ SymlinkTo(w)[2] = w
  BY DEF NodesOfTree, Nothing, Dir, Dev, Reg, SymlinkTo, Targets

LEMMA TreeFields ==
    ASSUME NEW t \in Trees
    PROVE  /\ t.entry \in [Paths -> NodesOfTree]
           /\ t.data \in [Numbers -> Contents \cup {Empty}]
  BY DEF Trees

-----------------------------------------------------------------------------
(* Routes: what a path becomes when links are followed. *)

Routes == Seq(Names \cup {Up, Root})

LEMMA TargetRoutes ==
    ASSUME NEW w \in Targets
    PROVE  w \in Routes /\ w # <<>>
  <1>1. HostRoot \in Routes /\ HostRoot # <<>>
    BY DEF HostRoot, Routes
  <1> QED
    BY <1>1, TextsAssumption DEF Targets, Routes

LEMMA PathRoutes ==
    ASSUME NEW p \in Paths
    PROVE  /\ p \in Routes /\ Len(p) \in {1, 2} /\ p[1] \in Names
           /\ LastName(p) \in Names /\ DirOf(p) \in Routes
           /\ Append(DirOf(p), LastName(p)) = p
  <1>1. CASE \E x \in Names : p = <<x>>
    <2>1. PICK x \in Names : p = <<x>>
      BY <1>1
    <2>2. /\ Len(p) = 1 /\ p[1] = x /\ DirOf(p) = <<>>
          /\ Append(<<>>, x) = p /\ <<>> \in Routes /\ p \in Routes
      BY <2>1, OneNamePaths DEF Routes
    <2> QED
      BY <2>2 DEF LastName
  <1>2. CASE \E x, y \in Names : p = <<x, y>>
    <2>1. PICK x \in Names, y \in Names : p = <<x, y>>
      BY <1>2
    <2>2. /\ Len(p) = 2 /\ p[1] = x /\ p[2] = y /\ DirOf(p) = <<x>>
          /\ Append(<<x>>, y) = p /\ <<x>> \in Routes /\ p \in Routes
      BY <2>1, TwoNamePaths DEF Routes
    <2> QED
      BY <2>2 DEF LastName
  <1> QED
    BY <1>1, <1>2, PathCases

LEMMA RouteParts ==
    ASSUME NEW s \in Routes, NEW k \in Int, NEW l \in Int, 1 <= k, l <= Len(s)
    PROVE  /\ SubSeq(s, k, l) \in Routes
           /\ Len(SubSeq(s, k, l)) = IF k <= l THEN l - k + 1 ELSE 0
           /\ \A i \in 1..(l - k + 1) : SubSeq(s, k, l)[i] = s[k + i - 1]
  <1>1. \A i \in k..l : s[i] \in Names \cup {Up, Root}
    BY DEF Routes
  <1> QED
    BY <1>1, SubSeqProperties DEF Routes

LEMMA JoinRoute ==
    ASSUME NEW d \in Routes, NEW w \in Targets
    PROVE  Join(d, w) \in Routes
  <1>1. w \in Routes /\ w # <<>>
    BY TargetRoutes
  <1>2. Tail(w) \in Routes
    BY <1>1, HeadTailProperties DEF Routes
  <1>3. d # <<>> => SubSeq(d, 1, Len(d) - 1) \in Routes
    <2>1. Len(d) \in Nat
      BY DEF Routes
    <2> QED
      BY <2>1, RouteParts
  <1>4. d # <<>> => SubSeq(d, 1, Len(d) - 1) \o Tail(w) \in Routes
    BY <1>2, <1>3, ConcatProperties DEF Routes
  <1>5. d \o w \in Routes
    BY <1>1, ConcatProperties DEF Routes
  <1> QED
    BY <1>2, <1>4, <1>5 DEF Join

\* The link that is followed, and how.
Chosen(S) == CHOOSE k \in S : TRUE
Past(t, s, k) == Join(SubSeq(s, 1, k - 1), t.entry[SubSeq(s, 1, k)][2]) \o SubSeq(s, k + 1, Len(s))

LEMMA HopIs ==
    ASSUME NEW t, NEW s
    PROVE  /\ LinkAt(t, s) = {} => Hop(t, s) = s
           /\ LinkAt(t, s) # {} => /\ Chosen(LinkAt(t, s)) \in LinkAt(t, s)
                                   /\ Hop(t, s) = Past(t, s, Chosen(LinkAt(t, s)))
  <1>1. LinkAt(t, s) # {} => Chosen(LinkAt(t, s)) \in LinkAt(t, s)
    <2> DEFINE S == LinkAt(t, s)
    <2> HIDE DEF S
    <2>1. S # {} => Chosen(S) \in S
      BY DEF Chosen
    <2> QED
      BY <2>1 DEF S
  <1>2. LinkAt(t, s) # {} => Hop(t, s) = Past(t, s, Chosen(LinkAt(t, s)))
    BY DEF Hop, Past, Chosen
  <1> QED
    BY <1>1, <1>2 DEF Hop

LEMMA LinkFacts ==
    ASSUME NEW t \in Trees, NEW s \in Routes, NEW k \in LinkAt(t, s)
    PROVE  /\ k \in 1..Len(s) /\ Len(s) \in Nat /\ k \in {1, 2} /\ s[1] \in Names
           /\ SubSeq(s, 1, k) \in Paths /\ KindAt(t, SubSeq(s, 1, k)) = "link"
           /\ t.entry[SubSeq(s, 1, k)][2] \in Targets
           /\ SubSeq(s, 1, k - 1) \in Routes /\ Len(SubSeq(s, 1, k - 1)) = k - 1
           /\ SubSeq(s, k + 1, Len(s)) \in Routes
  <1> DEFINE p == SubSeq(s, 1, k)
  <1>1. k \in 1..Len(s) /\ p \in Paths /\ KindAt(t, p) = "link"
    BY DEF LinkAt
  <1>2. Len(s) \in Nat
    BY DEF Routes
  <1>3. Len(p) = k /\ p[1] = s[1]
    <2>1. 1 <= 1 /\ k <= Len(s) /\ k \in Int /\ 1 <= k
      BY <1>1, <1>2
    <2>2. /\ Len(p) = IF 1 <= k THEN k - 1 + 1 ELSE 0
          /\ \A i \in 1..(k - 1 + 1) : p[i] = s[1 + i - 1]
      BY <2>1, RouteParts
    <2> HIDE DEF p
    <2>3. 1 \in 1..(k - 1 + 1)
      BY <2>1
    <2>4. p[1] = s[1 + 1 - 1]
      BY <2>2, <2>3
    <2> QED
      BY <2>1, <2>2, <2>4
  <1>4. /\ SubSeq(s, 1, k - 1) \in Routes /\ Len(SubSeq(s, 1, k - 1)) = k - 1
        /\ SubSeq(s, k + 1, Len(s)) \in Routes
    <2>1. /\ 1 <= 1 /\ k - 1 <= Len(s) /\ k - 1 \in Int /\ 1 <= k + 1 /\ k + 1 \in Int
          /\ Len(s) \in Int /\ Len(s) <= Len(s)
      BY <1>1, <1>2
    <2>2. /\ SubSeq(s, 1, k - 1) \in Routes
          /\ Len(SubSeq(s, 1, k - 1)) = IF 1 <= k - 1 THEN k - 1 - 1 + 1 ELSE 0
      BY <2>1, RouteParts
    <2>3. SubSeq(s, k + 1, Len(s)) \in Routes
      BY <2>1, RouteParts
    <2> QED
      BY <1>1, <2>2, <2>3
  <1> HIDE DEF p
  <1>5. Len(p) \in {1, 2} /\ p[1] \in Names
    BY <1>1, PathRoutes
  <1>6. t.entry[p][2] \in Targets
    <2>1. t.entry[p] \in NodesOfTree
      BY <1>1, TreeFields
    <2> QED
      BY <1>1, <2>1, NodeCases DEF KindAt
  <1> QED
    BY <1>1, <1>2, <1>3, <1>4, <1>5, <1>6 DEF p

LEMMA HopRoute ==
    ASSUME NEW t \in Trees, NEW s \in Routes
    PROVE  Hop(t, s) \in Routes
  <1>1. CASE LinkAt(t, s) = {}
    BY <1>1, HopIs
  <1>2. CASE LinkAt(t, s) # {}
    <2>1. PICK k \in LinkAt(t, s) : Hop(t, s) = Past(t, s, k)
      BY <1>2, HopIs
    <2> DEFINE d == SubSeq(s, 1, k - 1)
               w == t.entry[SubSeq(s, 1, k)][2]
               r == SubSeq(s, k + 1, Len(s))
    <2>2. d \in Routes /\ w \in Targets /\ r \in Routes
      BY LinkFacts
    <2>3. Past(t, s, k) = Join(d, w) \o r
      BY DEF Past
    <2> HIDE DEF d, w, r
    <2>4. Join(d, w) \in Routes
      BY <2>2, JoinRoute
    <2> QED
      BY <2>1, <2>2, <2>3, <2>4, ConcatProperties DEF Routes
  <1> QED
    BY <1>1, <1>2

\* The chain of links that Follow goes along.
IsChain(f, t, s) ==
    /\ f \in [0..MaxLinks -> Routes]
    /\ f[0] = s
    /\ \A k \in 1..MaxLinks : f[k] = Hop(t, f[k - 1])

LEMMA FollowIsChain ==
    ASSUME NEW t \in Trees, NEW s \in Routes
    PROVE  \E f : IsChain(f, t, s) /\ Follow(t, s) = f[MaxLinks]
  <1> DEFINE n == MaxLinks
             U == Routes
             g == [z \in (1..n) \X U |-> Hop(t, z[2])]
             Rec(f) == f = [k \in 0..n |-> IF k = 0 THEN s ELSE Hop(t, f[k - 1])]
             after == CHOOSE f : Rec(f)
  <1>1. n \in Nat /\ s \in U
    BY LinksAssumption
  <1>2. \A k \in 1..n, u \in U : g[<<k, u>>] = Hop(t, u)
    OBVIOUS
  <1>3. Follow(t, s) = after[n]
    BY DEF Follow
  <1> HIDE DEF n, g, U
  <1>4. IsStep(g, n, U)
    BY <1>2, HopRoute DEF IsStep, U
  <1>5. PICK f \in [0..n -> U] : /\ f[0] = s
                                 /\ \A k \in 1..n : f[k] = g[<<k, f[k - 1]>>]
    <2>1. \E f : IsRecursion(f, g, s, n, U)
      BY <1>1, <1>4, RecursionExists
    <2> QED
      BY <2>1 DEF IsRecursion
  <1>6. Rec(f)
    <2>1. ASSUME NEW k \in 0..n, k # 0 PROVE f[k] = Hop(t, f[k - 1])
      <3>1. k \in 1..n /\ k - 1 \in 0..n
        BY <1>1, <2>1
      <3> QED
        BY <1>2, <1>5, <3>1
    <2> QED
      BY <1>5, <2>1
  <1>7. Rec(after)
    BY <1>6
  <1> HIDE DEF after
  <1>8. /\ after[0] = s /\ \A k \in 1..n : after[k] = Hop(t, after[k - 1])
        /\ DOMAIN after = 0..n /\ after = [k \in 0..n |-> after[k]]
    <2>1. 0 \in 0..n /\ \A k \in 1..n : k \in 0..n /\ k # 0
      BY <1>1
    <2> QED
      BY <1>7, <2>1
  <1> DEFINE T == {k \in 0..n : after[k] \in U}
  <1>9. 0 \in T
    BY <1>1, <1>8
  <1>10. ASSUME NEW k \in 1..n, k - 1 \in T PROVE k \in T
    <2>1. k \in 0..n
      BY <1>1
    <2> QED
      BY <1>8, <1>10, <2>1, HopRoute DEF U
  <1> HIDE DEF T
  <1>11. 0..n \subseteq T
    BY <1>1, <1>9, <1>10, UpToInduction
  <1>12. after \in [0..n -> U]
    BY <1>8, <1>11 DEF T
  <1>13. IsChain(after, t, s)
    BY <1>8, <1>12 DEF IsChain, n, U
  <1> QED
    BY <1>3, <1>13 DEF n

\* Where no link is, and above the root, nothing is followed.
LEMMA FollowRoute ==
    ASSUME NEW t \in Trees, NEW s \in Routes
    PROVE  /\ Follow(t, s) \in Routes
           /\ LinkAt(t, s) = {} => Follow(t, s) = s
  <1> DEFINE n == MaxLinks
  <1>1. PICK f : IsChain(f, t, s) /\ Follow(t, s) = f[n]
    BY FollowIsChain
  <1>2. n \in Nat
    BY LinksAssumption
  <1>3. /\ f \in [0..n -> Routes] /\ f[0] = s
        /\ \A k \in 1..n : f[k] = Hop(t, f[k - 1])
    BY <1>1 DEF IsChain
  <1> HIDE DEF n
  <1>4. Follow(t, s) \in Routes
    BY <1>1, <1>2, <1>3
  <1>5. ASSUME LinkAt(t, s) = {} PROVE Follow(t, s) = s
    <2> DEFINE T == {k \in 0..n : f[k] = s}
    <2>1. 0 \in T
      BY <1>2, <1>3
    <2>2. ASSUME NEW k \in 1..n, k - 1 \in T PROVE k \in T
      <3>1. k \in 0..n
        BY <1>2
      <3>2. Hop(t, s) = s
        BY <1>5, HopIs
      <3> QED
        BY <1>3, <2>2, <3>1, <3>2
    <2> HIDE DEF T
    <2>3. 0..n \subseteq T
      BY <1>2, <2>1, <2>2, UpToInduction
    <2> QED
      BY <1>1, <1>2, <2>3 DEF T
  <1> QED
    BY <1>4, <1>5

LEMMA AboveStays ==
    ASSUME NEW t \in Trees, NEW s \in Routes, Above(s) \/ s = <<>>
    PROVE  LinkAt(t, s) = {}
  <1> SUFFICES ASSUME NEW k \in LinkAt(t, s) PROVE FALSE
    OBVIOUS
  <1>1. s[1] \in Names /\ k \in 1..Len(s)
    BY LinkFacts
  <1>2. CASE Above(s)
    BY <1>1, <1>2, NamesAssumption DEF Above
  <1>3. CASE s = <<>>
    BY <1>1, <1>3
  <1> QED
    BY <1>2, <1>3
-----------------------------------------------------------------------------
(* getNode *)

\* The directory of the path is there.
InDir(t, r) == \A x, y \in Names : r = <<x, y>> => KindAt(t, <<x>>) = "dir"

LEMMA InPlaceIs ==
    ASSUME NEW t \in Trees, NEW s, InPlace(t, s)
    PROVE  /\ s \in Paths /\ s \in Routes /\ InDir(t, s) /\ ~Above(s)
           /\ KindAt(t, s) # "link" => LinkAt(t, s) = {}
  <1>1. s \in Paths /\ s \in Routes /\ s[1] \in Names
    BY PathRoutes DEF InPlace
  <1>2. ~Above(s)
    BY <1>1, NamesAssumption DEF Above
  <1>3. InDir(t, s)
    <2> SUFFICES ASSUME NEW x \in Names, NEW y \in Names, s = <<x, y>>
                 PROVE  KindAt(t, <<x>>) = "dir"
      BY DEF InDir
    <2>1. Len(s) = 2 /\ DirOf(s) = <<x>>
      BY TwoNamePaths
    <2> QED
      BY <2>1 DEF InPlace
  <1>4. ASSUME KindAt(t, s) # "link", NEW k \in LinkAt(t, s) PROVE FALSE
    <2>1. /\ k \in 1..Len(s) /\ k \in {1, 2} /\ SubSeq(s, 1, k) \in Paths
          /\ KindAt(t, SubSeq(s, 1, k)) = "link"
      BY <1>1, LinkFacts
    <2>2. Len(s) \in {1, 2} /\ s \in Seq(Names \cup {Up, Root})
      BY <1>1, PathRoutes DEF Routes
    <2>3. CASE k = Len(s)
      <3>1. SubSeq(s, 1, k) = s
        BY <2>2, <2>3, SubSeqFull
      <3> QED
        BY <1>4, <2>1, <3>1
    <2>4. CASE k # Len(s)
      <3>1. k = 1 /\ Len(s) = 2
        <4>1. PICK l \in {1, 2} : l = Len(s)
          BY <2>2
        <4>2. k \in 1..l /\ k \in {1, 2} /\ k # l
          BY <2>1, <2>4, <4>1
        <4> QED
          BY <4>1, <4>2
      <3>2. KindAt(t, DirOf(s)) = "dir" /\ DirOf(s) = SubSeq(s, 1, 1)
        BY <3>1 DEF InPlace, DirOf
      <3> QED
        BY <2>1, <3>1, <3>2
    <2> QED
      BY <2>3, <2>4
  <1> QED
    BY <1>1, <1>2, <1>3, <1>4

LEMMA RealRoute ==
    ASSUME NEW t \in Trees, NEW p \in Paths
    PROVE  /\ Follow(t, DirOf(p)) \in Routes
           /\ Real(t, p) \in Routes /\ Real(t, p) # <<>>
           /\ getNode(t, p) \in Routes
           /\ Real(t, p) \in Paths => ~Above(Follow(t, DirOf(p)))
  <1> DEFINE f == Follow(t, DirOf(p))
             n == LastName(p)
  <1>1. DirOf(p) \in Routes /\ n \in Names
    BY PathRoutes
  <1>2. f \in Routes
    BY <1>1, FollowRoute
  <1>3. Real(t, p) = Append(f, n)
    BY DEF Real
  <1> HIDE DEF f, n
  <1>4. Append(f, n) \in Routes /\ Append(f, n) # <<>>
    <2>1. f \in Seq(Names \cup {Up, Root}) /\ n \in Names \cup {Up, Root}
      BY <1>1, <1>2 DEF Routes
    <2> QED
      BY <2>1, AppendProperties DEF Routes
  <1>5. getNode(t, p) \in Routes
    BY <1>3, <1>4, FollowRoute DEF getNode
  <1>6. ASSUME Append(f, n) \in Paths, Above(f) PROVE FALSE
    <2>1. f \in Seq(Names \cup {Up, Root}) /\ n \in Names \cup {Up, Root} /\ f # <<>> /\ f[1] = Up
      BY <1>1, <1>2, <1>6 DEF Routes, Above
    <2>2. Append(f, n)[1] = Up
      <3>1. Len(f) \in Nat /\ Len(f) # 0
        BY <2>1
      <3>2. 1 \in 1..Len(f)
        BY <3>1
      <3> QED
        BY <2>1, <3>2, AppendProperties
    <2>3. Append(f, n)[1] \in Names
      BY <1>6, PathRoutes
    <2> QED
      BY <2>2, <2>3, NamesAssumption
  <1> QED
    BY <1>2, <1>3, <1>4, <1>5, <1>6 DEF f

\* A path that is in place, and is no link, is where it leads.
LEMMA RealIs ==
    ASSUME NEW t \in Trees, NEW p \in Paths, HasParent(t, p)
    PROVE  /\ Real(t, p) \in Paths /\ InDir(t, Real(t, p))
           /\ ~Above(Follow(t, DirOf(p)))
           /\ KindAt(t, Real(t, p)) # "link" => /\ getNode(t, p) = Real(t, p)
                                                /\ Leads(t, p) /\ ~Above(getNode(t, p))
  <1> DEFINE r == Real(t, p)
  <1>1. InPlace(t, r)
    BY DEF HasParent
  <1>2. ~Above(Follow(t, DirOf(p))) \/ r \notin Paths
    BY RealRoute
  <1>3. getNode(t, p) = Follow(t, r)
    BY DEF getNode
  <1> HIDE DEF r
  <1>4. /\ r \in Paths /\ r \in Routes /\ InDir(t, r) /\ ~Above(r)
        /\ KindAt(t, r) # "link" => LinkAt(t, r) = {}
    BY <1>1, InPlaceIs
  <1>5. KindAt(t, r) # "link" => Follow(t, r) = r
    BY <1>4, FollowRoute
  <1>6. KindAt(t, r) # "link" => Leads(t, p)
    BY <1>1, <1>3, <1>5 DEF Leads
  <1> QED
    BY <1>2, <1>3, <1>4, <1>5, <1>6 DEF r

LEMMA DirOfPath ==
    ASSUME NEW p \in Paths, Len(p) = 2
    PROVE  DirOf(p) \in Paths
  <1>1. ASSUME NEW x \in Names, p = <<x>> PROVE FALSE
    <2>1. Len(<<x>>) = 1
      OBVIOUS
    <2> QED
      BY <1>1, <2>1
  <1>2. PICK x \in Names, y \in Names : p = <<x, y>>
    BY <1>1, PathCases
  <1> QED
    BY <1>2, TwoNamePaths, OneNamePaths

LEMMA NodeIs ==
    ASSUME NEW t \in Trees, NEW p \in Paths, Leads(t, p)
    PROVE  getNode(t, p) \in Paths /\ InDir(t, getNode(t, p)) /\ ~Above(getNode(t, p))
  BY InPlaceIs DEF Leads

\* Without links every path is where it says.
NoLinks(t) == \A p \in Paths : KindAt(t, p) # "link"

LEMMA StraightWays ==
    ASSUME NEW t \in Trees, NoLinks(t), NEW p \in Paths
    PROVE  /\ Real(t, p) = p /\ getNode(t, p) = p
           /\ ~Above(getNode(t, p)) /\ ~Above(Follow(t, DirOf(p)))
  <1>1. \A s \in Routes : LinkAt(t, s) = {}
    BY DEF LinkAt, NoLinks
  <1>2. p \in Routes /\ p[1] \in Names /\ DirOf(p) \in Routes
        /\ Append(DirOf(p), LastName(p)) = p
    BY PathRoutes
  <1>3. Follow(t, DirOf(p)) = DirOf(p) /\ Follow(t, p) = p
    BY <1>1, <1>2, FollowRoute
  <1>4. Real(t, p) = p
    BY <1>2, <1>3 DEF Real
  <1>5. ~Above(p)
    BY <1>2, NamesAssumption DEF Above
  <1>6. ~Above(Follow(t, DirOf(p)))
    BY <1>4, RealRoute
  <1> QED
    BY <1>3, <1>4, <1>5, <1>6 DEF getNode
-----------------------------------------------------------------------------
(* A number for a new file. *)

LEMMA PathsFinite == IsFiniteSet(Paths)
  <1> DEFINE one == {<<x>> : x \in Names}
             f == [x \in Names |-> <<x>>]
  <1>1. IsFiniteSet(one)
    <2>1. f \in Surjection(Names, one)
      BY DEF Surjection
    <2> HIDE DEF f, one
    <2> QED
      BY <2>1, NamesAssumption, FS_Surjection
  <1>2. IsFiniteSet(Names \X Names)
    BY NamesAssumption, FS_Product
  <1>3. Paths = one \cup (Names \X Names)
    BY DEF Paths
  <1> HIDE DEF one
  <1> QED
    BY <1>1, <1>2, <1>3, FS_Union

\* As long as some path is free not every number is used.
LEMMA UnusedExists ==
    ASSUME NEW t \in Trees, NEW f \in Paths, KindAt(t, f) = "none"
    PROVE  /\ Unused(t) \in Numbers
           /\ \A p \in Paths : t.entry[p] # Reg(Unused(t))
  <1> DEFINE n == Cardinality(Paths)
             free == {i \in Numbers : \A p \in Paths : t.entry[p] # Reg(i)}
  <1>1. n \in Nat /\ Numbers = 1..n
    BY PathsFinite, FS_CardinalityType DEF Numbers
  <1>2. free # {}
    <2> SUFFICES ASSUME free = {} PROVE FALSE
      OBVIOUS
    <2> DEFINE P == Paths \ {f}
               g == [i \in Numbers |-> CHOOSE p \in Paths : t.entry[p] = Reg(i)]
    <2>1. \A i \in Numbers : g[i] \in Paths /\ t.entry[g[i]] = Reg(i)
      OBVIOUS
    <2> HIDE DEF g
    <2>2. \A i \in Numbers : g[i] # f
      BY <2>1, NodeKinds DEF KindAt
    <2>3. g \in [Numbers -> P]
      BY <2>1, <2>2 DEF g
    <2>4. IsFiniteSet(P) /\ Cardinality(P) = n - 1
      BY PathsFinite, FS_RemoveElement
    <2>5. IsFiniteSet(Numbers) /\ Cardinality(Numbers) = n
      BY <1>1, FS_Interval
    <2> HIDE DEF P, n
    <2>6. PICK i \in Numbers, j \in Numbers : i # j /\ g[i] = g[j]
      <3>1. Cardinality(P) < Cardinality(Numbers)
        BY <1>1, <2>4, <2>5
      <3> QED
        BY <2>3, <2>4, <2>5, <3>1, FS_PigeonHole
    <2>7. Reg(i) = Reg(j)
      BY <2>1, <2>6
    <2> QED
      BY <2>6, <2>7, NodeKinds
  <1>3. PICK i \in free : \A j \in free : i <= j
    <2>1. free \subseteq Nat
      BY <1>1
    <2> HIDE DEF free
    <2> QED
      BY <1>2, <2>1, LeastNumber
  <1> HIDE DEF n
  <1>4. \A j \in 1..(i - 1) : Reg(j) \in {t.entry[p] : p \in Paths}
    <2> SUFFICES ASSUME NEW j \in 1..(i - 1) PROVE \E p \in Paths : t.entry[p] = Reg(j)
      OBVIOUS
    <2>1. j \in Numbers /\ ~(i <= j)
      BY <1>1, <1>3
    <2> QED
      BY <1>3, <2>1
  <1>5. i \in Numbers /\ Reg(i) \notin {t.entry[p] : p \in Paths}
    BY <1>3
  <1> HIDE DEF free
  <1>6. /\ Unused(t) \in Numbers
        /\ Reg(Unused(t)) \notin {t.entry[p] : p \in Paths}
    BY <1>4, <1>5 DEF Unused
  <1> QED
    BY <1>6
-----------------------------------------------------------------------------
(* What the operations leave is a tree. *)

LEMMA TreeOf ==
    ASSUME NEW e \in [Paths -> NodesOfTree], NEW c \in [Numbers -> Contents \cup {Empty}],
           \A x, y \in Names : e[<<x, y>>][1] # "none" => e[<<x>>][1] = "dir"
    PROVE  IsTree([entry |-> e, data |-> c])
  BY DEF IsTree, Trees, KindAt

\* A node where nothing or no directory was, in a directory.
LEMMA EntrySet ==
    ASSUME NEW t, IsTree(t), NEW r \in Paths, InDir(t, r), KindAt(t, r) # "dir",
           NEW n \in NodesOfTree
    PROVE  /\ [t.entry EXCEPT ![r] = n] \in [Paths -> NodesOfTree]
           /\ \A x, y \in Names : [t.entry EXCEPT ![r] = n][<<x, y>>][1] # "none"
                                     => [t.entry EXCEPT ![r] = n][<<x>>][1] = "dir"
  <1> DEFINE e == [t.entry EXCEPT ![r] = n]
  <1>1. t.entry \in [Paths -> NodesOfTree]
    BY TreeFields DEF IsTree
  <1>2. /\ e \in [Paths -> NodesOfTree]
        /\ \A q \in Paths : e[q] = IF q = r THEN n ELSE t.entry[q]
    BY <1>1
  <1> HIDE DEF e
  <1>3. ASSUME NEW x \in Names, NEW y \in Names, e[<<x, y>>][1] # "none"
        PROVE  e[<<x>>][1] = "dir"
    <2>1. <<x>> \in Paths /\ <<x, y>> \in Paths /\ <<x>> # <<x, y>>
      <3>1. Len(<<x>>) = 1 /\ Len(<<x, y>>) = 2
        OBVIOUS
      <3> QED
        BY <3>1, OneNamePaths, TwoNamePaths
    <2>2. KindAt(t, <<x>>) = "dir"
      BY <1>2, <1>3, <2>1 DEF IsTree, InDir, KindAt
    <2> QED
      BY <1>2, <2>1, <2>2 DEF KindAt
  <1> QED
    BY <1>2, <1>3 DEF e

LEMMA PutTree ==
    ASSUME NEW t, IsTree(t), NEW p \in Paths, Vacant(t, p), NEW n \in NodesOfTree
    PROVE  /\ IsTree(Put(t, p, n))
           /\ Real(t, p) \in Paths /\ t.entry[Real(t, p)] = Nothing
           /\ Put(t, p, n).entry = [t.entry EXCEPT ![Real(t, p)] = n]
           /\ Put(t, p, n).data = t.data
  <1> DEFINE r == Real(t, p)
  <1>1. /\ t \in Trees /\ t.entry \in [Paths -> NodesOfTree]
        /\ t.data \in [Numbers -> Contents \cup {Empty}]
        /\ t = [entry |-> t.entry, data |-> t.data]
    BY TreeFields DEF IsTree, Trees
  <1>2. r \in Paths /\ InDir(t, r) /\ KindAt(t, r) = "none"
    BY <1>1, RealIs DEF Vacant
  <1>3. t.entry[r] = Nothing
    BY <1>1, <1>2, NodeCases DEF KindAt
  <1>4. Put(t, p, n) = [entry |-> [t.entry EXCEPT ![r] = n], data |-> t.data]
    BY <1>1 DEF Put
  <1> HIDE DEF r
  <1>5. KindAt(t, r) # "dir"
    BY <1>2
  <1> DEFINE e == [t.entry EXCEPT ![r] = n]
  <1>6. /\ e \in [Paths -> NodesOfTree]
        /\ \A x, y \in Names : e[<<x, y>>][1] # "none" => e[<<x>>][1] = "dir"
    BY <1>2, <1>5, EntrySet
  <1>7. Put(t, p, n).entry = e /\ Put(t, p, n).data = t.data
    BY <1>4
  <1> HIDE DEF e
  <1>8. IsTree(Put(t, p, n))
    BY <1>1, <1>4, <1>6, TreeOf DEF e
  <1> QED
    BY <1>2, <1>3, <1>7, <1>8 DEF r, e

\* The file that is written has the number i; a new one's is nobody's.
WrittenAs(t, f, i) ==
    /\ KindAt(t, f) \in {"file", "none"}
    /\ KindAt(t, f) = "file" => t.entry[f] = Reg(i)
    /\ KindAt(t, f) = "none" => \A q \in Paths : t.entry[q] # Reg(i)

IsWritten(t, u, f, d) ==
    \E i \in Numbers : /\ WrittenAs(t, f, i)
                        /\ u.entry = [t.entry EXCEPT ![f] = Reg(i)]
                        /\ u.data = [t.data EXCEPT ![i] = d]

LEMMA WriteTree ==
    ASSUME NEW t, IsTree(t), NEW p \in Paths, OpenWorks(t, p, TRUE), NEW d \in Contents \cup {Empty}
    PROVE  /\ IsTree(Write(t, p, d))
           /\ getNode(t, p) \in Paths
           /\ IsWritten(t, Write(t, p, d), getNode(t, p), d)
  <1> DEFINE f == getNode(t, p)
             i == IF KindAt(t, f) = "file" THEN t.entry[f][2] ELSE Unused(t)
  <1>1. /\ t \in Trees /\ t.entry \in [Paths -> NodesOfTree]
        /\ t.data \in [Numbers -> Contents \cup {Empty}]
    BY TreeFields DEF IsTree
  <1>2. f \in Paths /\ InDir(t, f) /\ KindAt(t, f) \in {"file", "none"}
    BY <1>1, NodeIs DEF OpenWorks
  <1>3. Write(t, p, d) = [entry |-> [t.entry EXCEPT ![f] = Reg(i)], data |-> [t.data EXCEPT ![i] = d]]
    BY DEF Write
  <1> HIDE DEF f
  <1>4. i \in Numbers /\ WrittenAs(t, f, i)
    <2>1. CASE KindAt(t, f) = "file"
      BY <1>1, <1>2, <2>1, NodeCases DEF KindAt, WrittenAs
    <2>2. CASE KindAt(t, f) = "none"
      BY <1>1, <1>2, <2>2, UnusedExists DEF WrittenAs
    <2> QED
      BY <1>2, <2>1, <2>2
  <1> HIDE DEF i
  <1>5. IsTree(Write(t, p, d))
    <2>1. Reg(i) \in NodesOfTree /\ [t.data EXCEPT ![i] = d] \in [Numbers -> Contents \cup {Empty}]
      BY <1>1, <1>4, NodeKinds
    <2>2. KindAt(t, f) # "dir"
      BY <1>2
    <2> DEFINE e == [t.entry EXCEPT ![f] = Reg(i)]
               c == [t.data EXCEPT ![i] = d]
    <2>3. /\ e \in [Paths -> NodesOfTree]
          /\ \A x, y \in Names : e[<<x, y>>][1] # "none" => e[<<x>>][1] = "dir"
      BY <1>2, <2>1, <2>2, EntrySet
    <2>4. Write(t, p, d) = [entry |-> e, data |-> c]
      BY <1>3
    <2>5. c \in [Numbers -> Contents \cup {Empty}]
      BY <2>1
    <2> HIDE DEF e, c
    <2> QED
      BY <2>3, <2>4, <2>5, TreeOf
  <1>6. /\ Write(t, p, d).entry = [t.entry EXCEPT ![f] = Reg(i)]
        /\ Write(t, p, d).data = [t.data EXCEPT ![i] = d]
    BY <1>3
  <1>7. IsWritten(t, Write(t, p, d), f, d)
    BY <1>4, <1>6 DEF IsWritten
  <1> QED
    BY <1>2, <1>5, <1>7 DEF f

LEMMA RemoveTree ==
    ASSUME NEW t, IsTree(t), NEW p \in Paths
    PROVE  /\ IsTree(Remove(t, p))
           /\ Remove(t, p).entry
                 = [q \in Paths |-> IF q \in Under(t, p) THEN Nothing ELSE t.entry[q]]
           /\ \A q \in Paths \ Under(t, p) : KindAt(t, q) = "file" =>
                 Remove(t, p).data[t.entry[q][2]] = t.data[t.entry[q][2]]
  <1> DEFINE e == [q \in Paths |-> IF q \in Under(t, p) THEN Nothing ELSE t.entry[q]]
             used == {i \in Numbers : \E q \in Paths : e[q] = Reg(i)}
             c == [i \in Numbers |-> IF i \in used THEN t.data[i] ELSE Empty]
  <1>1. /\ t \in Trees /\ t.entry \in [Paths -> NodesOfTree]
        /\ t.data \in [Numbers -> Contents \cup {Empty}]
    BY TreeFields DEF IsTree
  <1>2. Remove(t, p) = [entry |-> e, data |-> c]
    BY DEF Remove
  <1>3. e \in [Paths -> NodesOfTree] /\ c \in [Numbers -> Contents \cup {Empty}]
    BY <1>1, NodeKinds
  <1>4. ASSUME NEW x \in Names, NEW y \in Names, e[<<x, y>>][1] # "none"
        PROVE  e[<<x>>][1] = "dir"
    <2>1. <<x>> \in Paths /\ <<x, y>> \in Paths /\ DirOf(<<x, y>>) = <<x>> /\ DirOf(<<x>>) = <<>>
      BY OneNamePaths, TwoNamePaths
    <2>2. <<x, y>> \notin Under(t, p) /\ KindAt(t, <<x, y>>) # "none"
      BY <1>4, <2>1, NodeKinds DEF KindAt
    <2>3. <<x>> \notin Under(t, p)
      <3>1. Real(t, p) # <<>>
        BY <1>1, RealRoute
      <3> QED
        BY <2>1, <2>2, <3>1 DEF Under
    <2>4. KindAt(t, <<x>>) = "dir"
      BY <2>2 DEF IsTree
    <2> QED
      BY <2>1, <2>3, <2>4 DEF KindAt
  <1>5. ASSUME NEW q \in Paths, q \notin Under(t, p), KindAt(t, q) = "file"
        PROVE  c[t.entry[q][2]] = t.data[t.entry[q][2]]
    <2>1. t.entry[q][2] \in Numbers /\ e[q] = Reg(t.entry[q][2])
      BY <1>1, <1>5, NodeCases DEF KindAt
    <2> QED
      BY <2>1
  <1> HIDE DEF e, c
  <1>6. IsTree(Remove(t, p))
    BY <1>2, <1>3, <1>4, TreeOf
  <1> QED
    BY <1>2, <1>5, <1>6 DEF e

-----------------------------------------------------------------------------
(* Spellings *)

LEMMA FoldedPaths ==
    ASSUME NEW p \in Paths
    PROVE  key(p) \in Paths /\ key(key(p)) = key(p)
  <1>1. \A n \in Names : Fold[n] \in Names /\ Fold[Fold[n]] = Fold[n]
    BY FoldAssumption
  <1>2. \A x : key(<<x>>) = <<Fold[x]>>
    BY DEF key
  <1>3. \A x, y : key(<<x, y>>) = <<Fold[x], Fold[y]>>
    BY DEF key
  <1> QED
    BY <1>1, <1>2, <1>3, PathCases DEF Paths

LEMMA DiskPaths ==
    ASSUME NEW p \in Paths, caseSensitive \in BOOLEAN
    PROVE  /\ DiskPath(p) \in Paths
           /\ caseSensitive => DiskPath(p) = p
           /\ ~caseSensitive => DiskPath(p) = key(p)
  <1>1. CASE caseSensitive
    <2>1. \A n : DiskName(n) = n
      BY <1>1 DEF DiskName
    <2>2. DiskPath(p) = [k \in DOMAIN p |-> p[k]]
      BY <2>1 DEF DiskPath
    <2>3. p \in Seq(Names)
      <3>1. \A x, y \in Names : <<x>> \in Seq(Names) /\ <<x, y>> \in Seq(Names)
        OBVIOUS
      <3> QED
        BY <3>1, PathCases
    <2> QED
      BY <1>1, <2>2, <2>3
  <1>2. CASE ~caseSensitive
    BY <1>2, FoldedPaths DEF DiskPath, DiskName, key
  <1> QED
    BY <1>1, <1>2
MapOK(m) ==
    /\ m \in [Paths -> Paths \cup {Unclaimed}]
    /\ \A p \in Paths : m[p] # Unclaimed => key(m[p]) = p
Expectations == [Paths -> {<<>>} \cup {<<d>> : d \in Contents}]

LEMMA TypeParts ==
    TypeOK <=> /\ caseSensitive \in BOOLEAN /\ mayMknod \in BOOLEAN
               /\ plain \in BOOLEAN /\ diverged \in BOOLEAN
               /\ IsTree(mem) /\ IsTree(disk) /\ MapOK(caseMap)
               /\ ops \in 0..MaxOps /\ faults \in 0..MaxFaults /\ expect \in Expectations
  BY DEF TypeOK, MapOK, Expectations

LEMMA TypeNext ==
    ASSUME caseSensitive \in BOOLEAN, mayMknod \in BOOLEAN, UNCHANGED <<caseSensitive, mayMknod>>,
           plain' \in BOOLEAN, diverged' \in BOOLEAN, IsTree(mem'), IsTree(disk'),
           MapOK(caseMap'), ops \in 0..MaxOps, ops < MaxOps, ops' = ops + 1,
           faults' \in 0..MaxFaults, expect' \in Expectations
    PROVE  TypeOK'
  <1>1. ops' \in 0..MaxOps
    BY OpsAssumption
  <1> QED
    BY <1>1 DEF TypeOK, MapOK, Expectations

LEMMA AnsweredType ==
    ASSUME faults \in 0..MaxFaults, NEW how, NEW asked, NEW outside,
           Answered(how, asked, outside)
    PROVE  faults' \in 0..MaxFaults
  BY OpsAssumption DEF Answered

LEMMA ClaimedOK ==
    ASSUME MapOK(caseMap), NEW p \in Paths
    PROVE  MapOK(Claimed(p))
  <1>1. key(p) \in Paths
    BY FoldedPaths
  <1> QED
    BY <1>1 DEF MapOK, Claimed

LEMMA ReleasedOK ==
    ASSUME MapOK(caseMap), NEW p \in Paths, NEW slash
    PROVE  MapOK(Released(p, slash))
  <1>1. key(p) \in Paths
    BY FoldedPaths
  <1> QED
    BY <1>1 DEF MapOK, Released

LEMMA ExpectSet ==
    ASSUME expect \in Expectations, NEW p \in Paths, NEW d \in Contents, NEW b
    PROVE  [expect EXCEPT ![p] = IF b THEN <<d>> ELSE <<>>] \in Expectations
  BY DEF Expectations

LEMMA OpenExisting ==
    ASSUME NEW t, NEW p, NEW create, OpenWorks(t, p, create)
    PROVE  OpenWorks(t, p, TRUE)
  BY DEF OpenWorks

\* What becomes of the disk when a file is opened there and written to.
LEMMA WrittenIs ==
    ASSUME IsTree(disk), NEW q \in Paths, NEW d \in Contents \cup {Empty}, NEW create, NEW how,
           Opens(q, create, how)
    PROVE  /\ IsTree(Written(q, d, how))
           /\ Outside(q) => Written(q, d, how) = disk
           /\ ~Outside(q) => /\ OpenWorks(disk, q, create) /\ OpenWorks(disk, q, TRUE)
                             /\ \E c \in Contents \cup {Empty} :
                                   /\ how # "torn" => c = d
                                   /\ Written(q, d, how) = Write(disk, q, c)
  <1>1. CASE Outside(q)
    BY <1>1 DEF Written
  <1>2. CASE ~Outside(q)
    <2>1. OpenWorks(disk, q, create) /\ OpenWorks(disk, q, TRUE)
      BY <1>2, OpenExisting DEF Opens
    <2>2. PICK c \in Contents \cup {Empty} : c = IF how = "torn" THEN Empty ELSE d
      OBVIOUS
    <2>3. Written(q, d, how) = Write(disk, q, c)
      BY <1>2, <2>2 DEF Written
    <2>4. IsTree(Write(disk, q, c))
      BY <2>1, WriteTree
    <2> QED
      BY <1>2, <2>1, <2>2, <2>3, <2>4
  <1> QED
    BY <1>1, <1>2

LEMMA WriteFileType ==
    ASSUME TypeOK, NEW p \in Paths, NEW d \in Contents, NEW how, WriteFile(p, d, how)
    PROVE  TypeOK'
  <1> DEFINE here == createOnDisk(p)
             q == DiskPath(p)
             opened == here /\ Opens(q, TRUE, how)
             onDisk == here => opened /\ how = "done"
             inMem == OpenWorks(mem, p, TRUE)
  <1>1. /\ caseSensitive \in BOOLEAN /\ mayMknod \in BOOLEAN
        /\ plain \in BOOLEAN /\ diverged \in BOOLEAN
        /\ IsTree(mem) /\ IsTree(disk) /\ MapOK(caseMap)
        /\ ops \in 0..MaxOps /\ faults \in 0..MaxFaults /\ expect \in Expectations
    BY TypeParts
  <1>2. /\ Answered(how, here, Outside(q))
        /\ disk' = IF opened THEN Written(q, d, how) ELSE disk
        /\ mem' = IF onDisk /\ inMem THEN Write(mem, p, IF here THEN Empty ELSE d) ELSE mem
        /\ expect' = [expect EXCEPT ![p] = IF onDisk /\ inMem THEN <<d>> ELSE <<>>]
        /\ caseMap' = Claimed(p)
        /\ UNCHANGED <<caseSensitive, mayMknod, plain>> /\ diverged' \in BOOLEAN
        /\ ops < MaxOps /\ ops' = ops + 1
    BY <1>1 DEF WriteFile, NoteOp, system
  <1>3. IsTree(disk')
    <2>1. q \in Paths
      BY <1>1, DiskPaths
    <2> HIDE DEF q
    <2>2. CASE opened
      BY <1>1, <1>2, <2>1, <2>2, WrittenIs
    <2>3. CASE ~opened
      BY <1>1, <1>2, <2>3
    <2> QED
      BY <2>2, <2>3
  <1>4. IsTree(mem')
    <2>1. (IF here THEN Empty ELSE d) \in Contents \cup {Empty}
      OBVIOUS
    <2> HIDE DEF here, onDisk
    <2>2. CASE onDisk /\ inMem
      BY <1>1, <1>2, <2>1, <2>2, WriteTree
    <2>3. CASE ~(onDisk /\ inMem)
      BY <1>1, <1>2, <2>3
    <2> QED
      BY <2>2, <2>3
  <1> HIDE DEF here, onDisk, inMem, opened, q
  <1>5. MapOK(caseMap') /\ expect' \in Expectations /\ faults' \in 0..MaxFaults
    BY <1>1, <1>2, ClaimedOK, ExpectSet, AnsweredType
  <1>6. plain' \in BOOLEAN
    BY <1>1, <1>2
  <1> QED
    BY <1>1, <1>2, <1>3, <1>4, <1>5, <1>6, TypeNext

LEMMA CreateType ==
    ASSUME TypeOK, NEW p \in Paths, NEW d \in Contents, NEW how, Create(p, d, how)
    PROVE  TypeOK'
  <1> DEFINE inMem == OpenWorks(mem, p, TRUE)
             here == inMem /\ createOnDisk(p)
             q == DiskPath(p)
             opened == here /\ Opens(q, TRUE, how)
             fine == inMem /\ (here => opened) /\ how = "done"
  <1>1. /\ caseSensitive \in BOOLEAN /\ mayMknod \in BOOLEAN
        /\ plain \in BOOLEAN /\ diverged \in BOOLEAN
        /\ IsTree(mem) /\ IsTree(disk) /\ MapOK(caseMap)
        /\ ops \in 0..MaxOps /\ faults \in 0..MaxFaults /\ expect \in Expectations
    BY TypeParts
  <1>2. /\ Answered(how, here, Outside(q))
        /\ mem' = IF inMem THEN Write(mem, p, IF here THEN Empty ELSE d) ELSE mem
        /\ disk' = IF opened THEN Written(q, d, how) ELSE disk
        /\ caseMap' = IF inMem THEN Claimed(p) ELSE caseMap
        /\ expect' = [expect EXCEPT ![p] = IF fine THEN <<d>> ELSE <<>>]
        /\ UNCHANGED <<caseSensitive, mayMknod, plain>> /\ diverged' \in BOOLEAN
        /\ ops < MaxOps /\ ops' = ops + 1
    BY <1>1 DEF Create, NoteOp, system
  <1>3. IsTree(disk')
    <2>1. q \in Paths
      BY <1>1, DiskPaths
    <2> HIDE DEF q
    <2>2. CASE opened
      BY <1>1, <1>2, <2>1, <2>2, WrittenIs
    <2>3. CASE ~opened
      BY <1>1, <1>2, <2>3
    <2> QED
      BY <2>2, <2>3
  <1>4. IsTree(mem')
    <2>1. (IF here THEN Empty ELSE d) \in Contents \cup {Empty}
      OBVIOUS
    <2> HIDE DEF here
    <2>2. CASE inMem
      BY <1>1, <1>2, <2>1, <2>2, WriteTree
    <2>3. CASE ~inMem
      BY <1>1, <1>2, <2>3
    <2> QED
      BY <2>2, <2>3
  <1> HIDE DEF here, inMem, opened, q, fine
  <1>5. MapOK(caseMap') /\ expect' \in Expectations /\ faults' \in 0..MaxFaults
    BY <1>1, <1>2, ClaimedOK, ExpectSet, AnsweredType
  <1>6. plain' \in BOOLEAN
    BY <1>1, <1>2
  <1> QED
    BY <1>1, <1>2, <1>3, <1>4, <1>5, <1>6, TypeNext

LEMMA OpenFileType ==
    ASSUME TypeOK, NEW p \in Paths, NEW d \in Contents, NEW how, OpenFile(p, d, how)
    PROVE  TypeOK'
  <1> DEFINE here == caseSensitiveOnDisk(p)
             q == DiskPath(p)
             opened == IF here THEN Opens(q, FALSE, how) ELSE OpenWorks(mem, p, FALSE)
  <1>1. /\ caseSensitive \in BOOLEAN /\ mayMknod \in BOOLEAN
        /\ plain \in BOOLEAN /\ diverged \in BOOLEAN
        /\ IsTree(mem) /\ IsTree(disk) /\ MapOK(caseMap)
        /\ ops \in 0..MaxOps /\ faults \in 0..MaxFaults /\ expect \in Expectations
    BY TypeParts
  <1>2. /\ UNCHANGED <<caseSensitive, mayMknod, plain, diverged, caseMap>>
        /\ Answered(how, here, Outside(q))
        /\ ops < MaxOps /\ ops' = ops + 1
        /\ expect' = expect \/ expect' = [expect EXCEPT ![p] = IF how = "done" THEN <<d>> ELSE <<>>]
        /\ disk' = IF here /\ opened THEN Written(q, d, how) ELSE disk
        /\ mem' = IF ~here /\ opened THEN Write(mem, p, d) ELSE mem
    BY DEF OpenFile, NoteOp, system
  <1>3. expect' \in Expectations
    BY <1>1, <1>2, ExpectSet
  <1>4. IsTree(disk') /\ IsTree(mem')
    <2>1. q \in Paths
      BY <1>1, DiskPaths
    <2> HIDE DEF q
    <2>2. CASE here /\ opened
      BY <1>1, <1>2, <2>1, <2>2, WrittenIs
    <2>3. CASE ~here /\ opened
      BY <1>1, <1>2, <2>3, OpenExisting, WriteTree
    <2>4. CASE ~opened
      BY <1>1, <1>2, <2>4
    <2> QED
      BY <2>2, <2>3, <2>4
  <1> HIDE DEF here, opened, q
  <1>5. faults' \in 0..MaxFaults
    BY <1>1, <1>2, AnsweredType
  <1> QED
    BY <1>1, <1>2, <1>3, <1>4, <1>5, TypeNext

\* What Mkdir, MkdirAll and Symlink have in common: the node n is put on disk,
\* if that is where it belongs, or not, and m in memory, or not.
Placed(p, n, m) ==
    /\ disk' = disk \/ /\ createOnDisk(p) /\ Vacant(disk, DiskPath(p))
                       /\ disk' = Put(disk, DiskPath(p), n)
    /\ mem' = mem \/ (Vacant(mem, p) /\ mem' = Put(mem, p, m))
    /\ caseMap' = Claimed(p)
    /\ faults \in 0..MaxFaults => faults' \in 0..MaxFaults
    /\ UNCHANGED <<caseSensitive, mayMknod, expect>>
    /\ ops < MaxOps /\ ops' = ops + 1

LEMMA MakeDirPlaces ==
    ASSUME NEW p \in Paths, NEW how, MakeDir(p, how)
    PROVE  Placed(p, Dir, Dir) /\ UNCHANGED <<plain, diverged>>
  <1>1. CASE DiskThenMem(p, how, FALSE, Vacant(disk, DiskPath(p)), Put(disk, DiskPath(p), Dir),
                         Vacant(mem, p), Put(mem, p, Dir))
    BY <1>1, AnsweredType DEF DiskThenMem, Placed, MakeDir, NoteOp, system
  <1>2. CASE DiskThenMem(p, how, Outside(DiskPath(p)),
                         MkdirAllWorks(disk, DiskPath(p)), MkdirAll(disk, DiskPath(p)),
                         MkdirAllWorks(mem, p), MkdirAll(mem, p))
    BY <1>2, AnsweredType DEF DiskThenMem, Placed, MakeDir, MkdirAllWorks, MkdirAll, NoteOp, system
  <1> QED
    BY <1>1, <1>2 DEF MakeDir

LEMMA MakeSymlinkPlaces ==
    ASSUME NEW p \in Paths, NEW w \in Texts, NEW how, MakeSymlink(w, p, how)
    PROVE  /\ Placed(p, SymlinkTo(DiskText(w)), SymlinkTo(w))
           /\ plain' = FALSE /\ diverged' = (diverged \/ ParentOutside(p))
  BY AnsweredType DEF MakeSymlink, DiskThenMem, Placed, NoteOp, system

LEMMA PlacedType ==
    ASSUME TypeOK, NEW p \in Paths, NEW n \in NodesOfTree, NEW m \in NodesOfTree,
           Placed(p, n, m), plain' \in BOOLEAN, diverged' \in BOOLEAN
    PROVE  TypeOK'
  <1>1. /\ caseSensitive \in BOOLEAN /\ mayMknod \in BOOLEAN
        /\ IsTree(mem) /\ IsTree(disk) /\ MapOK(caseMap)
        /\ ops \in 0..MaxOps /\ faults \in 0..MaxFaults /\ expect \in Expectations
    BY TypeParts
  <1>2. DiskPath(p) \in Paths
    BY <1>1, DiskPaths
  <1>3. IsTree(disk')
    <2>1. CASE createOnDisk(p) /\ Vacant(disk, DiskPath(p)) /\ disk' = Put(disk, DiskPath(p), n)
      BY <1>1, <1>2, <2>1, PutTree
    <2>2. CASE disk' = disk
      BY <1>1, <2>2
    <2> QED
      BY <2>1, <2>2 DEF Placed
  <1>4. IsTree(mem')
    <2>1. CASE mem' = mem
      BY <1>1, <2>1
    <2>2. CASE Vacant(mem, p) /\ mem' = Put(mem, p, m)
      <3>1. IsTree(Put(mem, p, m))
        BY <1>1, <2>2, PutTree
      <3> QED
        BY <2>2, <3>1
    <2> QED
      BY <2>1, <2>2 DEF Placed
  <1>5. /\ caseMap' = Claimed(p) /\ UNCHANGED <<caseSensitive, mayMknod, expect>>
        /\ ops < MaxOps /\ ops' = ops + 1 /\ faults' \in 0..MaxFaults
    BY <1>1 DEF Placed
  <1>6. MapOK(caseMap')
    BY <1>1, <1>5, ClaimedOK
  <1> QED
    BY <1>1, <1>3, <1>4, <1>5, <1>6, TypeNext
LEMMA DiskTexts ==
    ASSUME NEW w \in Texts
    PROVE  /\ DiskText(w) \in Targets
           /\ caseSensitive => DiskText(w) \in {w, HostRoot}
  BY FoldTextAssumption DEF DiskText, Targets

\* os.Link
LinksOnDisk(old, p) ==
    /\ Vacant(disk, DiskPath(p))
    /\ \/ ParentOutside(old)
       \/ /\ HasParent(disk, DiskPath(old))
          /\ KindAt(disk, Real(disk, DiskPath(old))) \notin {"none", "dir"}
LinkNode(old) ==
    IF ParentOutside(old) THEN Reg(Unused(disk)) ELSE disk.entry[Real(disk, DiskPath(old))]

LEMMA MakeLinkSteps ==
    ASSUME NEW p \in Paths, NEW old \in Paths, NEW how, MakeLink(old, p, how)
    PROVE  /\ DiskThenMem(p, how, ParentOutside(p), LinksOnDisk(old, p),
                          Put(disk, DiskPath(p), LinkNode(old)),
                          LinkWorks(mem, old, p), Put(mem, p, mem.entry[getNode(mem, old)]))
           /\ Found(mem, old) => KindAt(mem, getNode(mem, old)) # "dir"
           /\ plain' = FALSE
           /\ diverged' = (\/ diverged \/ ParentOutside(p) \/ ParentOutside(old)
                           \/ LinksOnDisk(old, p)
                              /\ KindAt(disk, Real(disk, DiskPath(old))) = "link")
  <1>1. DiskThenMem(p, how, ParentOutside(p), LinksOnDisk(old, p),
                    Put(disk, DiskPath(p), LinkNode(old)),
                    LinkWorks(mem, old, p), Link(mem, old, p))
    BY DEF MakeLink, LinksOnDisk, LinkNode
  <1>2. Link(mem, old, p) = Put(mem, p, mem.entry[getNode(mem, old)])
    BY DEF Link
  <1>3. DiskThenMem(p, how, ParentOutside(p), LinksOnDisk(old, p),
                    Put(disk, DiskPath(p), LinkNode(old)),
                    LinkWorks(mem, old, p), Put(mem, p, mem.entry[getNode(mem, old)]))
    BY <1>1, <1>2
  <1> QED
    BY <1>3 DEF MakeLink, LinksOnDisk

LEMMA MakeLinkType ==
    ASSUME TypeOK, NEW p \in Paths, NEW old \in Paths, NEW how, MakeLink(old, p, how)
    PROVE  TypeOK'
  <1> DEFINE n == LinkNode(old)
             m == mem.entry[getNode(mem, old)]
  <1>1. /\ caseSensitive \in BOOLEAN /\ mayMknod \in BOOLEAN /\ diverged \in BOOLEAN
        /\ IsTree(mem) /\ IsTree(disk) /\ MapOK(caseMap)
        /\ ops \in 0..MaxOps /\ faults \in 0..MaxFaults /\ expect \in Expectations
    BY TypeParts
  <1>2. DiskPath(p) \in Paths /\ DiskPath(old) \in Paths
    BY <1>1, DiskPaths
  <1>3. LinksOnDisk(old, p) => n \in NodesOfTree
    <2> SUFFICES ASSUME LinksOnDisk(old, p) PROVE n \in NodesOfTree
      OBVIOUS
    <2>1. CASE ParentOutside(old)
      <3>1. Real(disk, DiskPath(p)) \in Paths /\ KindAt(disk, Real(disk, DiskPath(p))) = "none"
        BY <1>1, <1>2, RealIs DEF LinksOnDisk, Vacant, IsTree
      <3>2. Unused(disk) \in Numbers
        BY <1>1, <3>1, UnusedExists DEF IsTree
      <3> QED
        BY <2>1, <3>2, NodeKinds DEF LinkNode
    <2>2. CASE ~ParentOutside(old)
      <3>1. Real(disk, DiskPath(old)) \in Paths
        BY <1>1, <1>2, <2>2, RealIs DEF LinksOnDisk, IsTree
      <3>2. disk.entry \in [Paths -> NodesOfTree]
        BY <1>1, TreeFields DEF IsTree
      <3> QED
        BY <2>2, <3>1, <3>2 DEF LinkNode
    <2> QED
      BY <2>1, <2>2
  <1>4. LinkWorks(mem, old, p) => m \in NodesOfTree
    <2> SUFFICES ASSUME LinkWorks(mem, old, p) PROVE m \in NodesOfTree
      OBVIOUS
    <2>1. getNode(mem, old) \in Paths
      BY <1>1, NodeIs DEF LinkWorks, Found, IsTree
    <2>2. mem.entry \in [Paths -> NodesOfTree]
      BY <1>1, TreeFields DEF IsTree
    <2> QED
      BY <2>1, <2>2
  <1>5. /\ disk' = disk \/ (LinksOnDisk(old, p) /\ disk' = Put(disk, DiskPath(p), n))
        /\ mem' = mem \/ (LinkWorks(mem, old, p) /\ mem' = Put(mem, p, m))
        /\ caseMap' = Claimed(p) /\ UNCHANGED <<caseSensitive, mayMknod, expect>>
        /\ ops < MaxOps /\ ops' = ops + 1
        /\ Answered(how, createOnDisk(p), ParentOutside(p))
        /\ plain' \in BOOLEAN /\ diverged' \in BOOLEAN
    <2>1. plain' \in BOOLEAN /\ diverged' \in BOOLEAN
      BY <1>1, MakeLinkSteps
    <2>2. DiskThenMem(p, how, ParentOutside(p), LinksOnDisk(old, p), Put(disk, DiskPath(p), n),
                      LinkWorks(mem, old, p), Put(mem, p, m))
      BY MakeLinkSteps
    <2> HIDE DEF n, m
    <2> QED
      BY <2>1, <2>2 DEF DiskThenMem, NoteOp, system
  <1> HIDE DEF n, m
  <1>6. IsTree(disk')
    <2>1. LinksOnDisk(old, p) => IsTree(Put(disk, DiskPath(p), n))
      BY <1>1, <1>2, <1>3, PutTree DEF LinksOnDisk
    <2>2. CASE disk' = disk
      BY <1>1, <2>2
    <2>3. CASE LinksOnDisk(old, p) /\ disk' = Put(disk, DiskPath(p), n)
      BY <2>1, <2>3
    <2> QED
      BY <1>5, <2>2, <2>3
  <1>7. IsTree(mem')
    <2>1. LinkWorks(mem, old, p) => IsTree(Put(mem, p, m))
      BY <1>1, <1>4, PutTree DEF LinkWorks
    <2>2. CASE mem' = mem
      BY <1>1, <2>2
    <2>3. CASE LinkWorks(mem, old, p) /\ mem' = Put(mem, p, m)
      BY <2>1, <2>3
    <2> QED
      BY <1>5, <2>2, <2>3
  <1>8. MapOK(caseMap') /\ faults' \in 0..MaxFaults
    BY <1>1, <1>5, ClaimedOK, AnsweredType
  <1> QED
    BY <1>1, <1>5, <1>6, <1>7, <1>8, TypeNext

LEMMA MakeDeviceType ==
    ASSUME TypeOK, NEW p \in Paths, NEW how, MakeDevice(p, how)
    PROVE  TypeOK'
  <1> DEFINE q == DiskPath(p)
             here == caseSensitiveOnDisk(p)
             node == mayMknod /\ Vacant(disk, q) /\ how = "done"
             done == here => node \/ Opens(q, TRUE, how)
  <1>1. /\ caseSensitive \in BOOLEAN /\ mayMknod \in BOOLEAN /\ diverged \in BOOLEAN
        /\ IsTree(mem) /\ IsTree(disk) /\ MapOK(caseMap)
        /\ ops \in 0..MaxOps /\ faults \in 0..MaxFaults /\ expect \in Expectations
    BY TypeParts
  <1>2. /\ Answered(how, here, Outside(q))
        /\ disk' = IF ~(here /\ done) THEN disk
                   ELSE IF node THEN Put(disk, q, Dev) ELSE Written(q, Empty, how)
        /\ mem' = IF done /\ Vacant(mem, p) THEN Put(mem, p, Dev) ELSE mem
        /\ UNCHANGED <<caseSensitive, mayMknod, expect, caseMap>>
        /\ ops < MaxOps /\ ops' = ops + 1
        /\ plain' = FALSE
        /\ diverged' = (diverged \/ ~Vacant(disk, q))
    BY DEF MakeDevice, NoteOp, system
  <1>3. q \in Paths
    BY <1>1, DiskPaths
  <1>4. Dev \in NodesOfTree
    BY NodeKinds
  <1> HIDE DEF q
  <1>5. IsTree(mem')
    <2> HIDE DEF here, done
    <2> QED
      BY <1>1, <1>2, <1>4, PutTree
  <1>6. IsTree(disk')
    <2>1. CASE here /\ node
      BY <1>1, <1>2, <1>3, <1>4, <2>1, PutTree
    <2>2. CASE here /\ ~node /\ done
      <3>1. disk' = Written(q, Empty, how) /\ Opens(q, TRUE, how)
        BY <1>2, <2>2
      <3> QED
        BY <1>1, <1>3, <3>1, WrittenIs
    <2>3. CASE ~(here /\ done)
      BY <1>1, <1>2, <2>3
    <2> QED
      BY <2>1, <2>2, <2>3
  <1> HIDE DEF node, done, here
  <1>7. plain' \in BOOLEAN /\ diverged' \in BOOLEAN /\ faults' \in 0..MaxFaults
    BY <1>1, <1>2, AnsweredType
  <1> QED
    BY <1>1, <1>2, <1>5, <1>6, <1>7, TypeNext

\* Remove reaches the disk, and the disk does as it is told.
There(p, slash) == RemoveWorks(mem, p) /\ removeOnDisk(p, slash)
Gone(p, how) == how = "done" /\ ~ParentOutside(p) /\ DiskRemoves(DiskPath(p))

LEMMA RemovePathSteps ==
    ASSUME NEW p \in Paths, NEW slash \in BOOLEAN, NEW how, RemovePath(p, slash, how)
    PROVE  /\ mem' = IF RemoveWorks(mem, p) THEN Remove(mem, p) ELSE mem
           /\ disk' = IF There(p, slash) /\ Gone(p, how) THEN Remove(disk, DiskPath(p)) ELSE disk
           /\ caseMap' = IF RemoveWorks(mem, p) THEN Released(p, slash) ELSE caseMap
           /\ expect' = IF RemoveWorks(mem, p)
                        THEN [q \in Paths |-> IF q \in Under(mem, p) THEN <<>> ELSE expect[q]]
                        ELSE expect
           /\ diverged' = (diverged \/ (There(p, slash) /\ ~Gone(p, how)))
           /\ plain' = (plain /\ (\/ caseSensitive \/ ~There(p, slash)
                                  \/ Gone(p, how) /\ OnlySpelling(p)))
           /\ UNCHANGED <<caseSensitive, mayMknod>>
           /\ ops < MaxOps /\ ops' = ops + 1
           /\ faults \in 0..MaxFaults => faults' \in 0..MaxFaults
  BY AnsweredType DEF RemovePath, NoteOp, system, There, Gone

LEMMA RemovePathType ==
    ASSUME TypeOK, NEW p \in Paths, NEW slash \in BOOLEAN, NEW how, RemovePath(p, slash, how)
    PROVE  TypeOK'
  <1>1. /\ caseSensitive \in BOOLEAN /\ mayMknod \in BOOLEAN
        /\ plain \in BOOLEAN /\ diverged \in BOOLEAN
        /\ IsTree(mem) /\ IsTree(disk) /\ MapOK(caseMap)
        /\ ops \in 0..MaxOps /\ faults \in 0..MaxFaults /\ expect \in Expectations
    BY TypeParts
  <1>2. DiskPath(p) \in Paths
    BY <1>1, DiskPaths
  <1>3. IsTree(mem') /\ IsTree(disk')
    BY <1>1, <1>2, RemovePathSteps, RemoveTree
  <1>4. MapOK(caseMap')
    BY <1>1, RemovePathSteps, ReleasedOK
  <1>5. expect' \in Expectations
    BY <1>1, RemovePathSteps DEF Expectations
  <1>6. plain' \in BOOLEAN /\ diverged' \in BOOLEAN /\ faults' \in 0..MaxFaults
    BY <1>1, RemovePathSteps
  <1>7. UNCHANGED <<caseSensitive, mayMknod>> /\ ops < MaxOps /\ ops' = ops + 1
    BY RemovePathSteps
  <1> QED
    BY <1>1, <1>3, <1>4, <1>5, <1>6, <1>7, TypeNext
-----------------------------------------------------------------------------
(* Memory and disk in step. *)

Mirrors(e, f) ==
    /\ \A p \in Paths : e[p][1] = f[p][1] \/ (e[p][1] = "dev" /\ f[p][1] = "file")
    /\ \A p, q \in Paths : e[p][1] = "file" /\ e[q][1] = "file" => (e[p] = e[q] <=> f[p] = f[q])
    /\ \A p \in Paths : e[p][1] = "link" => f[p] \in {e[p], SymlinkTo(HostRoot)}

LEMMA MirrorParts ==
    MirrorInv <=> (caseSensitive /\ ~diverged => Mirrors(mem.entry, disk.entry))
  BY DEF MirrorInv, Mirrored, Mirrors, KindAt

LEMMA MirrorNext ==
    MirrorInv' <=> (caseSensitive' /\ ~diverged' => Mirrors(mem'.entry, disk'.entry))
  BY DEF MirrorInv, Mirrored, Mirrors, KindAt

\* One path changes in both.
LEMMA MirrorsSet ==
    ASSUME NEW e \in [Paths -> NodesOfTree], NEW f \in [Paths -> NodesOfTree], Mirrors(e, f),
           NEW r \in Paths, NEW a \in NodesOfTree, NEW b \in NodesOfTree,
           a[1] = b[1] \/ (a[1] = "dev" /\ b[1] = "file"),
           a[1] = "link" => b \in {a, SymlinkTo(HostRoot)},
           a[1] = "file" => \A p \in Paths : p # r /\ e[p][1] = "file" => (e[p] = a <=> f[p] = b)
    PROVE  Mirrors([e EXCEPT ![r] = a], [f EXCEPT ![r] = b])
  <1> DEFINE e2 == [e EXCEPT ![r] = a]
             f2 == [f EXCEPT ![r] = b]
  <1>1. \A p \in Paths : /\ e2[p] = IF p = r THEN a ELSE e[p]
                         /\ f2[p] = IF p = r THEN b ELSE f[p]
    OBVIOUS
  <1> HIDE DEF e2, f2
  <1>2. \A p \in Paths : e2[p][1] = f2[p][1] \/ (e2[p][1] = "dev" /\ f2[p][1] = "file")
    BY <1>1 DEF Mirrors
  <1>3. \A p \in Paths : e2[p][1] = "link" => f2[p] \in {e2[p], SymlinkTo(HostRoot)}
    BY <1>1 DEF Mirrors
  <1>4. ASSUME NEW p \in Paths, NEW q \in Paths, e2[p][1] = "file", e2[q][1] = "file"
        PROVE  e2[p] = e2[q] <=> f2[p] = f2[q]
    <2>1. CASE p = r /\ q = r
      BY <2>1
    <2>2. CASE p = r /\ q # r
      BY <1>1, <1>4, <2>2
    <2>3. CASE p # r /\ q = r
      BY <1>1, <1>4, <2>3
    <2>4. CASE p # r /\ q # r
      BY <1>1, <1>4, <2>4 DEF Mirrors
    <2> QED
      BY <2>1, <2>2, <2>3, <2>4
  <1>5. Mirrors(e2, f2)
    BY <1>2, <1>3, <1>4 DEF Mirrors
  <1> QED
    BY <1>5 DEF e2, f2

\* A link that differs leads out of the tree u, wherever it is.
LEMMA HostRootLeaves ==
    ASSUME NEW d \in Routes, Len(d) \in {0, 1}, NEW r \in Routes
    PROVE  Above(Join(d, HostRoot) \o r)
  <1>1. Join(d, HostRoot) \in {<<Up>>, <<Up, Up>>}
    <2>1. HostRoot[1] = Up /\ Up # Root /\ Tail(HostRoot) = <<Up>>
      BY DEF HostRoot, Up, Root
    <2>2. CASE d = <<>>
      <3>1. Join(d, HostRoot) = d \o HostRoot
        BY <2>1, <2>2 DEF Join
      <3>2. <<Up, Up>> \in Seq({Up})
        OBVIOUS
      <3> QED
        BY <2>2, <3>1, <3>2, ConcatEmptySeq DEF HostRoot
    <2>3. CASE d # <<>>
      <3>1. Join(d, HostRoot) = SubSeq(d, 1, Len(d) - 1) \o <<Up>>
        BY <2>1, <2>3 DEF Join
      <3>2. Len(d) = 1
        BY <2>3 DEF Routes
      <3>3. SubSeq(d, 1, Len(d) - 1) = <<>>
        BY <3>2, SubSeqEmpty
      <3>4. <<Up>> \in Seq({Up})
        OBVIOUS
      <3> QED
        BY <3>1, <3>3, <3>4, ConcatEmptySeq
    <2> QED
      BY <2>2, <2>3
  <1> DEFINE j == Join(d, HostRoot)
  <1>2. j \in Routes /\ Len(j) \in {1, 2} /\ j[1] = Up
    <2>1. <<Up>> \in Routes /\ Len(<<Up>>) = 1 /\ <<Up>>[1] = Up
      BY DEF Routes
    <2>2. <<Up, Up>> \in Routes /\ Len(<<Up, Up>>) = 2 /\ <<Up, Up>>[1] = Up
      BY DEF Routes
    <2>3. j = <<Up>> \/ j = <<Up, Up>>
      BY <1>1
    <2> HIDE DEF j
    <2> QED
      BY <2>1, <2>2, <2>3
  <1> HIDE DEF j
  <1>3. Len(j \o r) = Len(j) + Len(r) /\ (j \o r)[1] = j[1] /\ Len(r) \in Nat
    <2>1. 1 \in 1..(Len(j) + Len(r)) /\ 1 <= Len(j) /\ Len(r) \in Nat
      BY <1>2 DEF Routes
    <2> QED
      BY <1>2, <2>1, ConcatProperties DEF Routes
  <1>4. j \o r # <<>>
    BY <1>2, <1>3
  <1> QED
    BY <1>2, <1>3, <1>4 DEF Above, j

LEMMA HopMirrors ==
    ASSUME NEW t \in Trees, NEW u \in Trees, Mirrors(t.entry, u.entry), NEW s \in Routes
    PROVE  Hop(t, s) = Hop(u, s) \/ Above(Hop(u, s))
  <1>1. LinkAt(t, s) = LinkAt(u, s)
    <2>1. \A p \in Paths : KindAt(t, p) = "link" <=> KindAt(u, p) = "link"
      BY DEF Mirrors, KindAt
    <2> QED
      BY <2>1 DEF LinkAt
  <1>2. CASE LinkAt(u, s) = {}
    BY <1>1, <1>2, HopIs
  <1>3. CASE LinkAt(u, s) # {}
    <2>1. PICK k \in LinkAt(u, s) : Hop(t, s) = Past(t, s, k) /\ Hop(u, s) = Past(u, s, k)
      BY <1>1, <1>3, HopIs
    <2> DEFINE p == SubSeq(s, 1, k)
               d == SubSeq(s, 1, k - 1)
               r == SubSeq(s, k + 1, Len(s))
    <2>2. /\ p \in Paths /\ KindAt(u, p) = "link" /\ k \in {1, 2}
          /\ d \in Routes /\ Len(d) = k - 1 /\ r \in Routes
      BY LinkFacts
    <2>3. /\ Past(t, s, k) = Join(d, t.entry[p][2]) \o r
          /\ Past(u, s, k) = Join(d, u.entry[p][2]) \o r
      BY DEF Past
    <2> HIDE DEF p, d, r
    <2>4. u.entry[p] \in {t.entry[p], SymlinkTo(HostRoot)}
      BY <2>2 DEF Mirrors, KindAt
    <2>5. CASE u.entry[p] = t.entry[p]
      BY <2>1, <2>3, <2>5
    <2>6. CASE u.entry[p] = SymlinkTo(HostRoot)
      <3>1. u.entry[p][2] = HostRoot
        BY <2>6, NodeKinds DEF Targets
      <3>2. Len(d) \in {0, 1}
        BY <2>2
      <3>3. Above(Join(d, HostRoot) \o r)
        BY <2>2, <3>2, HostRootLeaves
      <3> QED
        BY <2>1, <2>3, <3>1, <3>3
    <2> QED
      BY <2>4, <2>5, <2>6
  <1> QED
    BY <1>2, <1>3

\* A route that does not leave the tree u leads to the same place in both.
LEMMA FollowMirrors ==
    ASSUME NEW t \in Trees, NEW u \in Trees, Mirrors(t.entry, u.entry), NEW s \in Routes,
           ~Above(Follow(u, s))
    PROVE  Follow(t, s) = Follow(u, s)
  <1> DEFINE n == MaxLinks
  <1>1. PICK f : IsChain(f, t, s) /\ Follow(t, s) = f[n]
    BY FollowIsChain
  <1>2. PICK h : IsChain(h, u, s) /\ Follow(u, s) = h[n]
    BY FollowIsChain
  <1>3. n \in Nat
    BY LinksAssumption
  <1>4. /\ f \in [0..n -> Routes] /\ f[0] = s
        /\ \A k \in 1..n : f[k] = Hop(t, f[k - 1])
        /\ h \in [0..n -> Routes] /\ h[0] = s
        /\ \A k \in 1..n : h[k] = Hop(u, h[k - 1])
    BY <1>1, <1>2 DEF IsChain
  <1> HIDE DEF n
  <1> DEFINE T == {k \in 0..n : f[k] = h[k] \/ Above(h[k])}
  <1>5. 0 \in T
    BY <1>3, <1>4
  <1>6. ASSUME NEW k \in 1..n, k - 1 \in T PROVE k \in T
    <2>1. k \in 0..n /\ k - 1 \in 0..n
      BY <1>3
    <2>2. h[k - 1] \in Routes /\ f[k] = Hop(t, f[k - 1]) /\ h[k] = Hop(u, h[k - 1])
      BY <1>4, <2>1
    <2>3. CASE f[k - 1] = h[k - 1]
      <3>1. Hop(t, h[k - 1]) = Hop(u, h[k - 1]) \/ Above(Hop(u, h[k - 1]))
        BY <2>2, HopMirrors
      <3> QED
        BY <2>1, <2>2, <2>3, <3>1
    <2>4. CASE Above(h[k - 1])
      <3>1. Hop(u, h[k - 1]) = h[k - 1]
        BY <2>2, <2>4, AboveStays, HopIs
      <3> QED
        BY <2>1, <2>2, <2>4, <3>1
    <2> QED
      BY <1>6, <2>3, <2>4
  <1> HIDE DEF T
  <1>7. 0..n \subseteq T
    BY <1>3, <1>5, <1>6, UpToInduction
  <1>8. n \in T
    BY <1>3, <1>7
  <1> QED
    BY <1>1, <1>2, <1>8 DEF T

LEMMA MirrorsWays ==
    ASSUME NEW t \in Trees, NEW u \in Trees, Mirrors(t.entry, u.entry), NEW p \in Paths,
           ~Above(Follow(u, DirOf(p)))
    PROVE  /\ Real(t, p) = Real(u, p)
           /\ HasParent(t, p) <=> HasParent(u, p)
           /\ Vacant(t, p) <=> Vacant(u, p)
           /\ RemoveWorks(t, p) <=> RemoveWorks(u, p)
           /\ ~Above(getNode(u, p)) => getNode(t, p) = getNode(u, p)
  <1>1. Follow(t, DirOf(p)) = Follow(u, DirOf(p))
    BY FollowMirrors, PathRoutes
  <1>2. Real(t, p) = Real(u, p) /\ Real(u, p) \in Routes
    BY <1>1, RealRoute DEF Real
  <1>3. ~Above(getNode(u, p)) => getNode(t, p) = getNode(u, p)
    BY <1>2, FollowMirrors DEF getNode
  <1> DEFINE r == Real(u, p)
  <1>4. \A q \in Paths : /\ KindAt(t, q) = "dir" <=> KindAt(u, q) = "dir"
                         /\ KindAt(t, q) = "none" <=> KindAt(u, q) = "none"
    BY DEF Mirrors, KindAt
  <1> HIDE DEF r
  <1>5. InPlace(t, r) <=> InPlace(u, r)
    <2>1. r \in Paths /\ Len(r) = 2 => DirOf(r) \in Paths
      BY DirOfPath
    <2> QED
      BY <1>4, <2>1 DEF InPlace
  <1>6. InPlace(u, r) => r \in Paths
    BY DEF InPlace
  <1> QED
    BY <1>2, <1>3, <1>4, <1>5, <1>6 DEF HasParent, Vacant, RemoveWorks, r

\* Also for what is opened, but for a device.
LEMMA MirrorsOpen ==
    ASSUME NEW t \in Trees, NEW u \in Trees, Mirrors(t.entry, u.entry), NEW p \in Paths,
           ~Above(getNode(u, p)), Leads(t, p) => KindAt(t, getNode(t, p)) # "dev",
           NEW create
    PROVE  /\ getNode(t, p) = getNode(u, p)
           /\ OpenWorks(t, p, create) <=> OpenWorks(u, p, create)
  <1>1. ~Above(Follow(u, DirOf(p)))
    <2> SUFFICES ASSUME Above(Follow(u, DirOf(p))) PROVE FALSE
      OBVIOUS
    <2> DEFINE f == Follow(u, DirOf(p))
               n == LastName(p)
    <2>1. Real(u, p) = Append(f, n)
      BY DEF Real
    <2>2. f \in Seq(Names \cup {Up, Root}) /\ n \in Names \cup {Up, Root} /\ f # <<>> /\ f[1] = Up
      BY RealRoute, PathRoutes DEF Routes, Above
    <2> HIDE DEF f, n
    <2>3. Append(f, n) # <<>> /\ Append(f, n)[1] = Up
      <3>1. Len(f) \in Nat /\ Len(f) # 0
        BY <2>2
      <3>2. 1 \in 1..Len(f)
        BY <3>1
      <3> QED
        BY <2>2, <3>2, AppendProperties
    <2>4. Real(u, p) \in Routes /\ Above(Real(u, p))
      BY <2>1, <2>3, RealRoute DEF Above
    <2>5. getNode(u, p) = Real(u, p)
      BY <2>4, AboveStays, FollowRoute DEF getNode
    <2> QED
      BY <2>4, <2>5
  <1>2. getNode(t, p) = getNode(u, p)
    BY <1>1, MirrorsWays
  <1> DEFINE f == getNode(u, p)
  <1> HIDE DEF f
  <1>3. Leads(t, p) <=> Leads(u, p)
    <2>1. \A q \in Paths : KindAt(t, q) = "dir" <=> KindAt(u, q) = "dir"
      BY DEF Mirrors, KindAt
    <2>2. f \in Paths /\ Len(f) = 2 => DirOf(f) \in Paths
      BY DirOfPath
    <2>3. InPlace(t, f) <=> InPlace(u, f)
      BY <2>1, <2>2 DEF InPlace
    <2> QED
      BY <1>2, <2>3 DEF Leads, f
  <1>4. Leads(t, p) => KindAt(t, f) = KindAt(u, f)
    <2>1. Leads(t, p) => f \in Paths /\ KindAt(t, f) # "dev"
      BY <1>2, NodeIs DEF f
    <2> QED
      BY <2>1 DEF Mirrors, KindAt
  <1> QED
    BY <1>2, <1>3, <1>4 DEF OpenWorks, f
LEMMA MirrorsWrite ==
    ASSUME NEW t, NEW u, IsTree(t), IsTree(u), Mirrors(t.entry, u.entry), NEW p \in Paths,
           getNode(t, p) = getNode(u, p), OpenWorks(t, p, TRUE), OpenWorks(u, p, TRUE),
           NEW c \in Contents \cup {Empty}, NEW d \in Contents \cup {Empty}
    PROVE  Mirrors(Write(t, p, c).entry, Write(u, p, d).entry)
  <1> DEFINE f == getNode(t, p)
  <1>1. t \in Trees /\ u \in Trees
    BY DEF IsTree
  <1>2. getNode(u, p) = f /\ f \in Paths
    BY <1>1, NodeIs DEF OpenWorks
  <1>3. t.entry \in [Paths -> NodesOfTree] /\ u.entry \in [Paths -> NodesOfTree]
    BY <1>1, TreeFields
  <1>4. PICK i \in Numbers : /\ WrittenAs(t, f, i)
                             /\ Write(t, p, c).entry = [t.entry EXCEPT ![f] = Reg(i)]
    <2>1. IsWritten(t, Write(t, p, c), f, c)
      BY WriteTree
    <2> HIDE DEF f
    <2> QED
      BY <2>1 DEF IsWritten
  <1>5. PICK j \in Numbers : /\ WrittenAs(u, f, j)
                             /\ Write(u, p, d).entry = [u.entry EXCEPT ![f] = Reg(j)]
    <2>1. IsWritten(u, Write(u, p, d), f, d)
      BY <1>2, WriteTree
    <2> HIDE DEF f
    <2> QED
      BY <2>1 DEF IsWritten
  <1> HIDE DEF f
  <1>6. Reg(i) \in NodesOfTree /\ Reg(j) \in NodesOfTree /\ Reg(i)[1] = "file" /\ Reg(j)[1] = "file"
    BY NodeKinds
  <1>7. ASSUME NEW q \in Paths, q # f, t.entry[q][1] = "file"
        PROVE  t.entry[q] = Reg(i) <=> u.entry[q] = Reg(j)
    <2>1. CASE KindAt(t, f) = "file"
      <3>1. KindAt(u, f) = "file"
        BY <1>2, <2>1 DEF Mirrors, KindAt
      <3>2. t.entry[f] = Reg(i) /\ u.entry[f] = Reg(j)
        BY <1>4, <1>5, <2>1, <3>1 DEF WrittenAs
      <3> QED
        BY <1>2, <1>7, <2>1, <3>2 DEF Mirrors, KindAt
    <2>2. CASE KindAt(t, f) = "none"
      <3>1. KindAt(u, f) = "none"
        BY <1>2, <2>2 DEF Mirrors, KindAt
      <3> QED
        BY <1>4, <1>5, <2>2, <3>1 DEF WrittenAs
    <2> QED
      BY <1>4, <2>1, <2>2 DEF WrittenAs
  <1>8. Mirrors([t.entry EXCEPT ![f] = Reg(i)], [u.entry EXCEPT ![f] = Reg(j)])
    BY <1>2, <1>3, <1>6, <1>7, MirrorsSet
  <1> QED
    BY <1>4, <1>5, <1>8

LEMMA MirrorsPut ==
    ASSUME NEW t, NEW u, IsTree(t), IsTree(u), Mirrors(t.entry, u.entry), NEW p \in Paths,
           Real(t, p) = Real(u, p), Vacant(t, p), Vacant(u, p), NEW a \in NodesOfTree, NEW b \in NodesOfTree,
           a[1] = b[1] \/ (a[1] = "dev" /\ b[1] = "file"),
           a[1] = "link" => b \in {a, SymlinkTo(HostRoot)},
           a[1] = "file" => \A q \in Paths : t.entry[q][1] = "file" =>
                               (t.entry[q] = a <=> u.entry[q] = b)
    PROVE  Mirrors(Put(t, p, a).entry, Put(u, p, b).entry)
  <1> DEFINE r == Real(t, p)
  <1>1. t \in Trees /\ u \in Trees
    BY DEF IsTree
  <1>2. Real(u, p) = r /\ r \in Paths
    BY <1>1, RealIs DEF Vacant
  <1>3. t.entry \in [Paths -> NodesOfTree] /\ u.entry \in [Paths -> NodesOfTree]
    BY <1>1, TreeFields
  <1>4. /\ Put(t, p, a).entry = [t.entry EXCEPT ![r] = a]
        /\ Put(u, p, b).entry = [u.entry EXCEPT ![r] = b]
    BY <1>2, PutTree
  <1> HIDE DEF r
  <1>5. Mirrors([t.entry EXCEPT ![r] = a], [u.entry EXCEPT ![r] = b])
    BY <1>2, <1>3, MirrorsSet
  <1> QED
    BY <1>4, <1>5

LEMMA MirrorsRemove ==
    ASSUME NEW t, NEW u, IsTree(t), IsTree(u), Mirrors(t.entry, u.entry), NEW p \in Paths,
           Real(t, p) = Real(u, p)
    PROVE  Mirrors(Remove(t, p).entry, Remove(u, p).entry)
  <1>1. t \in Trees /\ u \in Trees
    BY DEF IsTree
  <1>2. Under(t, p) = Under(u, p)
    BY DEF Under
  <1> DEFINE e == Remove(t, p).entry
             f == Remove(u, p).entry
  <1>3. \A q \in Paths : /\ e[q] = IF q \in Under(t, p) THEN Nothing ELSE t.entry[q]
                         /\ f[q] = IF q \in Under(t, p) THEN Nothing ELSE u.entry[q]
    <2>1. /\ e = [q \in Paths |-> IF q \in Under(t, p) THEN Nothing ELSE t.entry[q]]
          /\ f = [q \in Paths |-> IF q \in Under(u, p) THEN Nothing ELSE u.entry[q]]
      BY RemoveTree, Zenon
    <2> HIDE DEF e, f
    <2> QED
      BY <1>2, <2>1
  <1> HIDE DEF e, f
  <1>4. Nothing[1] = "none"
    BY NodeKinds
  <1>5. Mirrors(e, f)
    BY <1>3, <1>4 DEF Mirrors
  <1> QED
    BY <1>5 DEF e, f
\* A file that is there keeps its number.
LEMMA WriteExisting ==
    ASSUME NEW t, IsTree(t), NEW p \in Paths, OpenWorks(t, p, FALSE), NEW d \in Contents \cup {Empty}
    PROVE  Write(t, p, d).entry = t.entry
  <1> DEFINE f == getNode(t, p)
  <1>1. KindAt(t, f) = "file" /\ t.entry \in [Paths -> NodesOfTree]
    BY TreeFields DEF OpenWorks, IsTree
  <1>2. IsWritten(t, Write(t, p, d), f, d) /\ f \in Paths
    BY OpenExisting, WriteTree
  <1> HIDE DEF f
  <1>3. PICK i \in Numbers : /\ WrittenAs(t, f, i)
                             /\ Write(t, p, d).entry = [t.entry EXCEPT ![f] = Reg(i)]
    BY <1>2 DEF IsWritten
  <1>4. t.entry[f] = Reg(i)
    BY <1>1, <1>3 DEF WrittenAs
  <1> QED
    BY <1>1, <1>2, <1>3, <1>4

-----------------------------------------------------------------------------
(* The calls keep memory and disk in step. *)

\* Where the disk has case every spelling is its own.
LEMMA WithCase ==
    ASSUME caseSensitive, caseSensitive \in BOOLEAN, NEW p \in Paths
    PROVE  /\ DiskPath(p) = p /\ caseSensitiveOnDisk(p) /\ createOnDisk(p)
           /\ \A slash : removeOnDisk(p, slash)
           /\ ParentOutside(p) <=> Above(Follow(disk, DirOf(p)))
  BY DiskPaths DEF caseSensitiveOnDisk, createOnDisk, removeOnDisk, ParentOutside

LEMMA WriteFileMirrors ==
    ASSUME TypeOK, MirrorInv, NEW p \in Paths, NEW d \in Contents, NEW how \in Answers,
           WriteFile(p, d, how)
    PROVE  MirrorInv'
  <1>1. /\ caseSensitive' = caseSensitive
        /\ caseSensitive \in BOOLEAN /\ IsTree(mem) /\ IsTree(disk)
        /\ mem \in Trees /\ disk \in Trees
    BY DEF WriteFile, system, TypeOK, IsTree
  <1> SUFFICES ASSUME caseSensitive, ~diverged'
               PROVE  Mirrors(mem'.entry, disk'.entry)
    BY <1>1, MirrorNext
  <1>2. DiskPath(p) = p /\ createOnDisk(p)
    BY <1>1, WithCase
  <1> DEFINE opened == Opens(p, TRUE, how)
             inMem == OpenWorks(mem, p, TRUE)
  <1>3. /\ disk' = IF opened THEN Written(p, d, how) ELSE disk
        /\ mem' = IF opened /\ how = "done" /\ inMem THEN Write(mem, p, Empty) ELSE mem
        /\ ~diverged /\ ~Outside(p)
        /\ opened /\ how = "torn" => OpenWorks(mem, p, FALSE)
        /\ NotADevice(p)
    BY <1>2 DEF WriteFile
  <1>4. Mirrors(mem.entry, disk.entry)
    BY <1>3, MirrorParts
  <1>5. /\ getNode(mem, p) = getNode(disk, p)
        /\ OpenWorks(mem, p, TRUE) <=> OpenWorks(disk, p, TRUE)
        /\ OpenWorks(mem, p, FALSE) <=> OpenWorks(disk, p, FALSE)
    BY <1>1, <1>3, <1>4, MirrorsOpen DEF NotADevice, Outside
  <1>6. CASE ~opened
    BY <1>3, <1>4, <1>6
  <1>7. CASE opened
    <2>1. inMem /\ OpenWorks(disk, p, TRUE) /\ how # "refused"
      BY <1>3, <1>5, <1>7 DEF Opens
    <2>2. PICK c \in Contents \cup {Empty} : disk' = Write(disk, p, c)
      BY <1>1, <1>3, <1>7, WrittenIs
    <2>3. CASE how = "done"
      <3>1. mem' = Write(mem, p, Empty) /\ Empty \in Contents \cup {Empty}
        BY <1>3, <1>7, <2>1, <2>3
      <3>2. Mirrors(Write(mem, p, Empty).entry, Write(disk, p, c).entry)
        BY <1>1, <1>4, <1>5, <2>1, <3>1, MirrorsWrite
      <3> QED
        BY <2>2, <3>1, <3>2
    <2>4. CASE how = "torn"
      <3>1. mem' = mem /\ OpenWorks(disk, p, FALSE)
        BY <1>3, <1>5, <1>7, <2>4
      <3>2. Write(disk, p, c).entry = disk.entry
        BY <1>1, <3>1, WriteExisting
      <3> QED
        BY <1>4, <2>2, <3>1, <3>2
    <2> QED
      BY <2>1, <2>3, <2>4 DEF Answers
  <1> QED
    BY <1>6, <1>7

LEMMA CreateMirrors ==
    ASSUME TypeOK, MirrorInv, NEW p \in Paths, NEW d \in Contents, NEW how \in Answers,
           Create(p, d, how)
    PROVE  MirrorInv'
  <1>1. /\ caseSensitive' = caseSensitive
        /\ caseSensitive \in BOOLEAN /\ IsTree(mem) /\ IsTree(disk)
        /\ mem \in Trees /\ disk \in Trees
    BY DEF Create, system, TypeOK, IsTree
  <1> SUFFICES ASSUME caseSensitive, ~diverged'
               PROVE  Mirrors(mem'.entry, disk'.entry)
    BY <1>1, MirrorNext
  <1>2. DiskPath(p) = p /\ createOnDisk(p)
    BY <1>1, WithCase
  <1> DEFINE inMem == OpenWorks(mem, p, TRUE)
             opened == inMem /\ Opens(p, TRUE, how)
  <1>3. /\ mem' = IF inMem THEN Write(mem, p, IF inMem THEN Empty ELSE d) ELSE mem
        /\ disk' = IF opened THEN Written(p, d, how) ELSE disk
        /\ ~diverged /\ (inMem => ~Outside(p))
        /\ inMem /\ how = "refused" => OpenWorks(mem, p, FALSE)
        /\ NotADevice(p)
    BY <1>2 DEF Create
  <1>4. Mirrors(mem.entry, disk.entry)
    BY <1>3, MirrorParts
  <1>5. CASE ~inMem
    BY <1>3, <1>4, <1>5
  <1>6. CASE inMem
    <2>1. /\ getNode(mem, p) = getNode(disk, p) /\ OpenWorks(disk, p, TRUE)
      BY <1>1, <1>3, <1>4, <1>6, MirrorsOpen DEF NotADevice, Outside
    <2>2. mem' = Write(mem, p, Empty) /\ Empty \in Contents \cup {Empty}
      BY <1>3, <1>6
    <2>3. CASE how = "refused"
      <3>1. disk' = disk /\ OpenWorks(mem, p, FALSE)
        BY <1>3, <1>6, <2>3 DEF Opens
      <3>2. Write(mem, p, Empty).entry = mem.entry
        BY <1>1, <2>2, <3>1, WriteExisting
      <3> QED
        BY <1>4, <2>2, <3>1, <3>2
    <2>4. CASE how # "refused"
      <3>1. Opens(p, TRUE, how) /\ disk' = Written(p, d, how) /\ ~Outside(p)
        BY <1>3, <1>6, <2>1, <2>4 DEF Opens
      <3>2. PICK c \in Contents \cup {Empty} : disk' = Write(disk, p, c)
        BY <1>1, <3>1, WrittenIs
      <3>3. Mirrors(Write(mem, p, Empty).entry, Write(disk, p, c).entry)
        BY <1>1, <1>4, <1>6, <2>1, <2>2, MirrorsWrite
      <3> QED
        BY <2>2, <3>2, <3>3
    <2> QED
      BY <2>3, <2>4
  <1> QED
    BY <1>5, <1>6

LEMMA OpenFileMirrors ==
    ASSUME TypeOK, MirrorInv, NEW p \in Paths, NEW d \in Contents, NEW how \in Answers,
           OpenFile(p, d, how)
    PROVE  MirrorInv'
  <1>1. /\ caseSensitive' = caseSensitive /\ diverged' = diverged
        /\ caseSensitive \in BOOLEAN /\ IsTree(mem) /\ IsTree(disk)
    BY DEF OpenFile, system, TypeOK
  <1> SUFFICES ASSUME caseSensitive, ~diverged
               PROVE  Mirrors(mem'.entry, disk'.entry)
    BY <1>1, MirrorNext
  <1>2. Mirrors(mem.entry, disk.entry)
    BY MirrorParts
  <1>3. DiskPath(p) = p /\ caseSensitiveOnDisk(p)
    BY <1>1, WithCase
  <1>4. mem' = mem /\ disk' = IF Opens(p, FALSE, how) THEN Written(p, d, how) ELSE disk
    BY <1>3 DEF OpenFile
  <1>5. disk'.entry = disk.entry
    <2>1. CASE ~Opens(p, FALSE, how) \/ Outside(p)
      BY <1>4, <2>1 DEF Written
    <2>2. CASE Opens(p, FALSE, how) /\ ~Outside(p)
      <3>1. OpenWorks(disk, p, FALSE)
        BY <2>2 DEF Opens
      <3>2. PICK c \in Contents \cup {Empty} : disk' = Write(disk, p, c)
        BY <1>1, <1>4, <2>2, WrittenIs
      <3> QED
        BY <1>1, <3>1, <3>2, WriteExisting
    <2> QED
      BY <2>1, <2>2
  <1> QED
    BY <1>2, <1>4, <1>5
\* Both stay as they are, or both get a node at p.
InStep(p, n, m) ==
    \/ disk' = disk /\ mem' = mem
    \/ /\ Vacant(disk, p) /\ Vacant(mem, p)
       /\ disk' = Put(disk, p, n) /\ mem' = Put(mem, p, m)

LEMMA InStepMirrors ==
    ASSUME IsTree(mem), IsTree(disk), Mirrors(mem.entry, disk.entry), NEW p \in Paths,
           NEW n \in NodesOfTree, NEW m \in NodesOfTree, InStep(p, n, m),
           Real(mem, p) = Real(disk, p),
           m[1] = n[1] \/ (m[1] = "dev" /\ n[1] = "file"),
           m[1] = "link" => n \in {m, SymlinkTo(HostRoot)},
           m[1] = "file" => \A q \in Paths : mem.entry[q][1] = "file" =>
                               (mem.entry[q] = m <=> disk.entry[q] = n)
    PROVE  Mirrors(mem'.entry, disk'.entry)
  <1>1. CASE disk' = disk /\ mem' = mem
    BY <1>1
  <1>2. CASE /\ Vacant(disk, p) /\ Vacant(mem, p)
             /\ disk' = Put(disk, p, n) /\ mem' = Put(mem, p, m)
    <2>1. Mirrors(Put(mem, p, m).entry, Put(disk, p, n).entry)
      BY <1>2, MirrorsPut
    <2> QED
      BY <1>2, <2>1
  <1> QED
    BY <1>1, <1>2 DEF InStep

LEMMA MakeDirMirrors ==
    ASSUME TypeOK, MirrorInv, NEW p \in Paths, NEW how, MakeDir(p, how)
    PROVE  MirrorInv'
  <1>1. /\ caseSensitive' = caseSensitive /\ diverged' = diverged
        /\ caseSensitive \in BOOLEAN /\ IsTree(mem) /\ IsTree(disk)
        /\ mem \in Trees /\ disk \in Trees
    BY MakeDirPlaces DEF Placed, TypeOK, IsTree
  <1> SUFFICES ASSUME caseSensitive, ~diverged
               PROVE  Mirrors(mem'.entry, disk'.entry)
    BY <1>1, MirrorNext
  <1>2. Mirrors(mem.entry, disk.entry)
    BY MirrorParts
  <1>3. DiskPath(p) = p /\ createOnDisk(p)
    BY <1>1, WithCase
  <1>4. ~Above(Follow(disk, DirOf(p)))
    <2>1. Len(p) = 1 /\ DirOf(p) = SubSeq(p, 1, 0)
      BY DEF MakeDir, DirOf
    <2>2. DirOf(p) = <<>>
      BY <2>1, SubSeqEmpty
    <2>3. DirOf(p) \in Routes
      BY PathRoutes
    <2>4. Follow(disk, DirOf(p)) = DirOf(p)
      BY <1>1, <2>2, <2>3, AboveStays, FollowRoute
    <2> QED
      BY <2>2, <2>4 DEF Above
  <1>5. Real(mem, p) = Real(disk, p) /\ (Vacant(mem, p) <=> Vacant(disk, p))
    BY <1>1, <1>2, <1>4, MirrorsWays
  <1>6. Vacant(disk, p) => ~Outside(p)
    BY <1>1, RealIs DEF Vacant, Outside
  <1>7. InStep(p, Dir, Dir)
    <2>1. CASE DiskThenMem(p, how, FALSE, Vacant(disk, p), Put(disk, p, Dir),
                           Vacant(mem, p), Put(mem, p, Dir))
      <3>1. /\ disk' = IF how = "done" /\ Vacant(disk, p) THEN Put(disk, p, Dir) ELSE disk
            /\ mem' = IF how = "done" /\ Vacant(disk, p) /\ Vacant(mem, p)
                      THEN Put(mem, p, Dir) ELSE mem
        BY <1>3, <2>1 DEF DiskThenMem
      <3> QED
        BY <1>5, <3>1 DEF InStep
    <2>2. CASE DiskThenMem(p, how, Outside(p), MkdirAllWorks(disk, p), MkdirAll(disk, p),
                           MkdirAllWorks(mem, p), MkdirAll(mem, p))
      <3> DEFINE done == how = "done" /\ (Outside(p) \/ MkdirAllWorks(disk, p))
      <3>1. /\ disk' = IF done /\ ~Outside(p) THEN MkdirAll(disk, p) ELSE disk
            /\ mem' = IF done /\ MkdirAllWorks(mem, p) THEN MkdirAll(mem, p) ELSE mem
        BY <1>3, <2>2 DEF DiskThenMem
      <3>2. Vacant(mem, p) => MkdirAllWorks(mem, p)
        BY DEF MkdirAllWorks
      <3> HIDE DEF done
      <3>3. CASE Vacant(disk, p)
        <4>1. ~Outside(p) /\ Vacant(mem, p) /\ MkdirAllWorks(mem, p)
          BY <1>5, <1>6, <3>2, <3>3
        <4> QED
          BY <3>1, <3>3, <4>1 DEF InStep, MkdirAll
      <3>4. CASE ~Vacant(disk, p)
        BY <1>5, <3>1, <3>4 DEF InStep, MkdirAll
      <3> QED
        BY <3>3, <3>4
    <2> QED
      BY <1>3, <2>1, <2>2 DEF MakeDir
  <1>8. Dir \in NodesOfTree /\ Dir[1] = "dir"
    BY NodeKinds
  <1> QED
    BY <1>1, <1>2, <1>5, <1>7, <1>8, InStepMirrors

\* A disk with case spells a link as memory does, or it leads out.
LEMMA MakeSymlinkMirrors ==
    ASSUME TypeOK, MirrorInv, NEW p \in Paths, NEW w \in Texts, NEW how, MakeSymlink(w, p, how)
    PROVE  MirrorInv'
  <1>1. /\ caseSensitive' = caseSensitive /\ diverged' = (diverged \/ ParentOutside(p))
        /\ caseSensitive \in BOOLEAN /\ IsTree(mem) /\ IsTree(disk)
        /\ mem \in Trees /\ disk \in Trees
    BY MakeSymlinkPlaces DEF Placed, TypeOK, IsTree
  <1> SUFFICES ASSUME caseSensitive, ~diverged'
               PROVE  Mirrors(mem'.entry, disk'.entry)
    BY <1>1, MirrorNext
  <1>2. ~diverged /\ ~ParentOutside(p) /\ DiskPath(p) = p /\ createOnDisk(p)
        /\ ~Above(Follow(disk, DirOf(p)))
    BY <1>1, WithCase
  <1>3. Mirrors(mem.entry, disk.entry)
    BY <1>2, MirrorParts
  <1>4. Real(mem, p) = Real(disk, p) /\ (Vacant(mem, p) <=> Vacant(disk, p))
    BY <1>1, <1>2, <1>3, MirrorsWays
  <1> DEFINE n == SymlinkTo(DiskText(w))
             m == SymlinkTo(w)
  <1>5. /\ n \in NodesOfTree /\ m \in NodesOfTree /\ n[1] = "link" /\ m[1] = "link"
        /\ n \in {m, SymlinkTo(HostRoot)}
    <2>1. DiskText(w) \in Targets /\ DiskText(w) \in {w, HostRoot} /\ w \in Targets
      BY DiskTexts DEF Targets
    <2> QED
      BY <2>1, NodeKinds
  <1>6. DiskThenMem(p, how, ParentOutside(p), Vacant(disk, p), Put(disk, p, n),
                    Vacant(mem, p), Put(mem, p, m))
    BY <1>2 DEF MakeSymlink
  <1> HIDE DEF n, m
  <1>7. /\ disk' = IF how = "done" /\ Vacant(disk, p) THEN Put(disk, p, n) ELSE disk
        /\ mem' = IF how = "done" /\ Vacant(disk, p) /\ Vacant(mem, p)
                  THEN Put(mem, p, m) ELSE mem
    BY <1>2, <1>6 DEF DiskThenMem
  <1>8. InStep(p, n, m)
    BY <1>4, <1>7 DEF InStep
  <1> QED
    BY <1>1, <1>3, <1>4, <1>5, <1>8, InStepMirrors

LEMMA MakeLinkMirrors ==
    ASSUME TypeOK, MirrorInv, NEW p \in Paths, NEW old \in Paths, NEW how, MakeLink(old, p, how)
    PROVE  MirrorInv'
  <1> DEFINE n == LinkNode(old)
             m == mem.entry[getNode(mem, old)]
  <1>1. /\ DiskThenMem(p, how, ParentOutside(p), LinksOnDisk(old, p), Put(disk, DiskPath(p), n),
                       LinkWorks(mem, old, p), Put(mem, p, m))
        /\ Found(mem, old) => KindAt(mem, getNode(mem, old)) # "dir"
        /\ diverged' = (\/ diverged \/ ParentOutside(p) \/ ParentOutside(old)
                        \/ LinksOnDisk(old, p)
                           /\ KindAt(disk, Real(disk, DiskPath(old))) = "link")
    BY MakeLinkSteps
  <1>2. /\ caseSensitive' = caseSensitive
        /\ caseSensitive \in BOOLEAN /\ IsTree(mem) /\ IsTree(disk)
        /\ mem \in Trees /\ disk \in Trees
    <2> HIDE DEF n, m
    <2> QED
      BY <1>1 DEF DiskThenMem, system, TypeOK, IsTree
  <1> SUFFICES ASSUME caseSensitive, ~diverged'
               PROVE  Mirrors(mem'.entry, disk'.entry)
    BY <1>2, MirrorNext
  <1>3. /\ DiskPath(p) = p /\ DiskPath(old) = old /\ createOnDisk(p)
        /\ ParentOutside(p) <=> Above(Follow(disk, DirOf(p)))
        /\ ParentOutside(old) <=> Above(Follow(disk, DirOf(old)))
    BY <1>2, WithCase
  <1>4. /\ ~diverged /\ ~ParentOutside(p) /\ ~ParentOutside(old)
        /\ ~(LinksOnDisk(old, p) /\ KindAt(disk, Real(disk, old)) = "link")
    BY <1>1, <1>3
  <1>5. Mirrors(mem.entry, disk.entry)
    BY <1>4, MirrorParts
  <1> DEFINE r == Real(disk, old)
  <1>6. /\ Real(mem, old) = r /\ (HasParent(mem, old) <=> HasParent(disk, old))
        /\ Real(mem, p) = Real(disk, p) /\ (Vacant(mem, p) <=> Vacant(disk, p))
    BY <1>2, <1>3, <1>4, <1>5, MirrorsWays
  <1>7. LinksOnDisk(old, p) <=> /\ HasParent(disk, old) /\ Vacant(disk, p)
                                /\ KindAt(disk, r) \notin {"none", "dir"}
    BY <1>3, <1>4 DEF LinksOnDisk
  <1>8. n = disk.entry[r]
    BY <1>3, <1>4 DEF LinkNode
  <1>9. /\ disk' = IF how = "done" /\ LinksOnDisk(old, p) THEN Put(disk, p, n) ELSE disk
        /\ mem' = IF how = "done" /\ LinksOnDisk(old, p) /\ LinkWorks(mem, old, p)
                  THEN Put(mem, p, m) ELSE mem
    <2> HIDE DEF n, m
    <2> QED
      BY <1>1, <1>3, <1>4 DEF DiskThenMem
  <1>10. CASE LinksOnDisk(old, p)
    <2>1. HasParent(mem, old) /\ r \in Paths /\ Vacant(disk, p) /\ Vacant(mem, p)
      BY <1>2, <1>6, <1>7, <1>10, RealIs
    <2> HIDE DEF r
    <2>2. KindAt(disk, r) \notin {"none", "dir", "link"}
      BY <1>4, <1>7, <1>10 DEF r
    <2>3. /\ KindAt(mem, r) = KindAt(disk, r) \/ (KindAt(mem, r) = "dev" /\ KindAt(disk, r) = "file")
      BY <1>5, <2>1 DEF Mirrors, KindAt
    <2>4. KindAt(mem, r) \notin {"none", "dir", "link"}
      BY <2>2, <2>3
    <2>5. getNode(mem, old) = r /\ Leads(mem, old)
      BY <1>2, <1>6, <2>1, <2>4, RealIs
    <2>6. LinkWorks(mem, old, p)
      BY <2>1, <2>4, <2>5 DEF LinkWorks, Found
    <2>7. m = mem.entry[r]
      BY <2>5
    <2>8. InStep(p, n, m)
      <3> HIDE DEF n, m
      <3> QED
        BY <1>9, <1>10, <2>1, <2>6 DEF InStep
    <2> HIDE DEF n, m
    <2>9. n \in NodesOfTree /\ m \in NodesOfTree
      BY <1>2, <1>8, <2>1, <2>7, TreeFields
    <2>10. /\ m[1] = n[1] \/ (m[1] = "dev" /\ n[1] = "file")
           /\ m[1] # "link"
      BY <1>8, <2>3, <2>4, <2>7 DEF KindAt
    <2>11. m[1] = "file" => \A q \in Paths : mem.entry[q][1] = "file" =>
             (mem.entry[q] = m <=> disk.entry[q] = n)
      BY <1>5, <1>8, <2>1, <2>7 DEF Mirrors
    <2> QED
      BY <1>2, <1>5, <1>6, <2>8, <2>9, <2>10, <2>11, InStepMirrors
  <1>11. CASE ~LinksOnDisk(old, p)
    BY <1>5, <1>9, <1>11
  <1> QED
    BY <1>10, <1>11

LEMMA MakeDeviceMirrors ==
    ASSUME TypeOK, MirrorInv, NEW p \in Paths, NEW how, MakeDevice(p, how)
    PROVE  MirrorInv'
  <1>1. /\ caseSensitive' = caseSensitive /\ diverged' = (diverged \/ ~Vacant(disk, DiskPath(p)))
        /\ caseSensitive \in BOOLEAN /\ IsTree(mem) /\ IsTree(disk)
        /\ mem \in Trees /\ disk \in Trees
    BY DEF MakeDevice, system, TypeOK, IsTree
  <1> SUFFICES ASSUME caseSensitive, ~diverged'
               PROVE  Mirrors(mem'.entry, disk'.entry)
    BY <1>1, MirrorNext
  <1>2. DiskPath(p) = p /\ caseSensitiveOnDisk(p)
    BY <1>1, WithCase
  <1>3. ~diverged /\ Vacant(disk, p)
    BY <1>1, <1>2
  <1>4. Mirrors(mem.entry, disk.entry)
    BY <1>3, MirrorParts
  <1> DEFINE r == Real(disk, p)
  <1>5. /\ r \in Paths /\ KindAt(disk, r) = "none" /\ ~Above(Follow(disk, DirOf(p)))
        /\ getNode(disk, p) = r /\ Leads(disk, p) /\ ~Outside(p)
    BY <1>1, <1>3, RealIs DEF Vacant, Outside
  <1>6. Vacant(mem, p) /\ Real(mem, p) = r
    BY <1>1, <1>3, <1>4, <1>5, MirrorsWays
  <1>7. OpenWorks(disk, p, TRUE)
    BY <1>5 DEF OpenWorks
  <1>8. Dev \in NodesOfTree /\ Dev[1] = "dev"
    BY NodeKinds
  <1> DEFINE node == mayMknod /\ how = "done"
             done == node \/ how # "refused"
  <1>9. /\ disk' = IF ~done THEN disk ELSE IF node THEN Put(disk, p, Dev) ELSE Written(p, Empty, how)
        /\ mem' = IF done THEN Put(mem, p, Dev) ELSE mem
        /\ done /\ ~node => Opens(p, TRUE, how)
    BY <1>2, <1>3, <1>5, <1>6, <1>7 DEF MakeDevice, Opens
  <1> HIDE DEF node
  <1>10. CASE ~done
    BY <1>4, <1>9, <1>10
  <1>11. CASE node
    <2>1. InStep(p, Dev, Dev)
      BY <1>3, <1>6, <1>9, <1>11 DEF InStep
    <2> QED
      BY <1>1, <1>4, <1>6, <1>8, <2>1, InStepMirrors
  <1>12. CASE done /\ ~node
    <2>1. disk' = Written(p, Empty, how) /\ mem' = Put(mem, p, Dev) /\ Opens(p, TRUE, how)
      BY <1>9, <1>12
    <2>2. PICK c \in Contents \cup {Empty} : disk' = Write(disk, p, c)
      <3>1. PICK d \in Contents \cup {Empty} : d = Empty
        OBVIOUS
      <3>2. IsTree(disk) /\ ~Outside(p) /\ Opens(p, TRUE, how) /\ disk' = Written(p, d, how)
        BY <1>1, <1>5, <2>1, <3>1
      <3> QED
        BY <3>2, WrittenIs
    <2>3. IsWritten(disk, disk', r, c)
      BY <1>1, <1>5, <1>7, <2>2, WriteTree
    <2>4. mem'.entry = [mem.entry EXCEPT ![r] = Dev]
      BY <1>1, <1>6, <1>8, <2>1, PutTree
    <2> HIDE DEF r
    <2>5. PICK i \in Numbers : disk'.entry = [disk.entry EXCEPT ![r] = Reg(i)]
      BY <2>3 DEF IsWritten
    <2>6. Reg(i) \in NodesOfTree /\ Reg(i)[1] = "file"
      BY NodeKinds
    <2>7. mem.entry \in [Paths -> NodesOfTree] /\ disk.entry \in [Paths -> NodesOfTree]
      BY <1>1, TreeFields
    <2>8. Mirrors([mem.entry EXCEPT ![r] = Dev], [disk.entry EXCEPT ![r] = Reg(i)])
      BY <1>4, <1>5, <1>8, <2>6, <2>7, MirrorsSet
    <2> QED
      BY <2>4, <2>5, <2>8
  <1> QED
    BY <1>10, <1>11, <1>12

LEMMA RemovePathMirrors ==
    ASSUME TypeOK, MirrorInv, NEW p \in Paths, NEW slash \in BOOLEAN, NEW how,
           RemovePath(p, slash, how)
    PROVE  MirrorInv'
  <1>1. /\ caseSensitive' = caseSensitive
        /\ caseSensitive \in BOOLEAN /\ IsTree(mem) /\ IsTree(disk)
        /\ mem \in Trees /\ disk \in Trees
    BY RemovePathSteps DEF TypeOK, IsTree
  <1> SUFFICES ASSUME caseSensitive, ~diverged'
               PROVE  Mirrors(mem'.entry, disk'.entry)
    BY <1>1, MirrorNext
  <1>2. /\ DiskPath(p) = p /\ removeOnDisk(p, slash)
        /\ ParentOutside(p) <=> Above(Follow(disk, DirOf(p)))
    BY <1>1, WithCase
  <1>3. ~diverged /\ (RemoveWorks(mem, p) => There(p, slash) /\ Gone(p, how))
    BY <1>2, RemovePathSteps DEF There
  <1>4. Mirrors(mem.entry, disk.entry)
    BY <1>1, <1>3, MirrorParts
  <1>5. CASE RemoveWorks(mem, p)
    <2>1. mem' = Remove(mem, p) /\ disk' = Remove(disk, p)
      BY <1>2, <1>3, <1>5, RemovePathSteps
    <2>2. Real(mem, p) = Real(disk, p)
      BY <1>1, <1>2, <1>3, <1>4, <1>5, MirrorsWays DEF Gone
    <2> QED
      BY <1>1, <1>4, <2>1, <2>2, MirrorsRemove
  <1>6. CASE ~RemoveWorks(mem, p)
    <2>1. mem' = mem /\ disk' = disk
      BY <1>6, RemovePathSteps DEF There
    <2> QED
      BY <1>4, <2>1
  <1> QED
    BY <1>5, <1>6
-----------------------------------------------------------------------------
(* What is written is read back. *)

Holds(t, q, c) == KindAt(t, q) = "file" /\ c = <<t.data[t.entry[q][2]]>>

\* The tree u is t but for what is at p.
Touched(t, u, p) ==
    /\ NoLinks(u) /\ OneName(u)
    /\ \A q \in Paths \ {p} : /\ KindAt(u, q) = KindAt(t, q)
                              /\ \A c : Holds(t, q, c) => Holds(u, q, c)

LEMMA WriteTouches ==
    ASSUME NEW t, IsTree(t), NoLinks(t), OneName(t), NEW p \in Paths,
           OpenWorks(t, p, TRUE), NEW d \in Contents \cup {Empty}
    PROVE  Touched(t, Write(t, p, d), p) /\ Holds(Write(t, p, d), p, <<d>>)
  <1> DEFINE u == Write(t, p, d)
  <1>1. /\ t \in Trees /\ t.entry \in [Paths -> NodesOfTree]
        /\ t.data \in [Numbers -> Contents \cup {Empty}]
    BY TreeFields DEF IsTree
  <1>2. getNode(t, p) = p
    BY <1>1, StraightWays
  <1>3. IsWritten(t, u, p, d)
    BY <1>2, WriteTree
  <1> HIDE DEF u
  <1>4. PICK i \in Numbers : /\ WrittenAs(t, p, i)
                             /\ u.entry = [t.entry EXCEPT ![p] = Reg(i)]
                             /\ u.data = [t.data EXCEPT ![i] = d]
    BY <1>3 DEF IsWritten
  <1>5. Reg(i)[1] = "file" /\ Reg(i)[2] = i
    BY NodeKinds
  <1>6. \A q \in Paths : u.entry[q] = IF q = p THEN Reg(i) ELSE t.entry[q]
    BY <1>1, <1>4
  <1>7. NoLinks(u)
    BY <1>5, <1>6 DEF NoLinks, KindAt
  <1>8. \A q \in Paths \ {p} : t.entry[q] # Reg(i)
    <2>1. CASE KindAt(t, p) = "file"
      <3>1. t.entry[p] = Reg(i)
        BY <1>4, <2>1 DEF WrittenAs
      <3> QED
        BY <2>1, <3>1 DEF OneName
    <2>2. CASE KindAt(t, p) = "none"
      BY <1>4, <2>2 DEF WrittenAs
    <2> QED
      BY <1>4, <2>1, <2>2 DEF WrittenAs
  <1>9. OneName(u)
    <2> SUFFICES ASSUME NEW a \in Paths, NEW b \in Paths, KindAt(u, a) = "file",
                        u.entry[a] = u.entry[b]
                 PROVE a = b
      BY DEF OneName
    <2>1. CASE a # p /\ b # p
      BY <1>6, <2>1 DEF OneName, KindAt
    <2>2. CASE a = p \/ b = p
      BY <1>6, <1>8, <2>2
    <2> QED
      BY <2>1, <2>2
  <1>10. ASSUME NEW q \in Paths \ {p}
         PROVE  KindAt(u, q) = KindAt(t, q) /\ \A c : Holds(t, q, c) => Holds(u, q, c)
    <2>1. u.entry[q] = t.entry[q]
      BY <1>6
    <2>2. ASSUME KindAt(t, q) = "file" PROVE u.data[t.entry[q][2]] = t.data[t.entry[q][2]]
      <3>1. t.entry[q][2] \in Numbers /\ t.entry[q] = Reg(t.entry[q][2])
        BY <1>1, <2>2, NodeCases DEF KindAt
      <3>2. t.entry[q][2] # i
        BY <1>8, <3>1
      <3> QED
        BY <1>1, <1>4, <3>1, <3>2
    <2> QED
      BY <2>1, <2>2 DEF KindAt, Holds
  <1>11. Holds(u, p, <<d>>)
    <2>1. u.entry[p] = Reg(i) /\ u.data[i] = d
      BY <1>1, <1>4, <1>6
    <2> QED
      BY <1>5, <2>1 DEF Holds, KindAt
  <1> QED
    BY <1>7, <1>9, <1>10, <1>11 DEF Touched, u

LEMMA PutDirTouches ==
    ASSUME NEW t, IsTree(t), NoLinks(t), OneName(t), NEW p \in Paths, Vacant(t, p)
    PROVE  /\ Touched(t, Put(t, p, Dir), p)
           /\ KindAt(t, p) = "none"
  <1> DEFINE u == Put(t, p, Dir)
  <1>1. t \in Trees /\ t.entry \in [Paths -> NodesOfTree]
    BY TreeFields DEF IsTree
  <1>2. Real(t, p) = p
    BY <1>1, StraightWays
  <1>3. Dir \in NodesOfTree /\ Dir[1] = "dir"
    BY NodeKinds
  <1>4. u.entry = [t.entry EXCEPT ![p] = Dir] /\ u.data = t.data
    BY <1>2, <1>3, PutTree
  <1> HIDE DEF u
  <1>5. \A q \in Paths : u.entry[q] = IF q = p THEN Dir ELSE t.entry[q]
    BY <1>1, <1>4
  <1>6. NoLinks(u) /\ OneName(u)
    BY <1>3, <1>5 DEF NoLinks, OneName, KindAt
  <1>7. \A q \in Paths \ {p} : /\ KindAt(u, q) = KindAt(t, q)
                              /\ \A c : Holds(t, q, c) => Holds(u, q, c)
    BY <1>4, <1>5 DEF Holds, KindAt
  <1>8. KindAt(t, p) = "none"
    BY <1>2 DEF Vacant
  <1> QED
    BY <1>6, <1>7, <1>8 DEF Touched, u

LEMMA SameTouches ==
    ASSUME NEW t, NoLinks(t), OneName(t), NEW p
    PROVE  Touched(t, t, p)
  BY DEF Touched

LEMMA WrittenTouches ==
    ASSUME IsTree(disk), NoLinks(disk), OneName(disk), NEW q \in Paths,
           NEW d \in Contents \cup {Empty}, NEW create, NEW how, Opens(q, create, how)
    PROVE  /\ Touched(disk, Written(q, d, how), q)
           /\ how # "torn" => Holds(Written(q, d, how), q, <<d>>)
           /\ OpenWorks(disk, q, create)
  <1>1. ~Outside(q)
    BY StraightWays DEF Outside, IsTree
  <1>2. PICK c \in Contents \cup {Empty} : /\ how # "torn" => c = d
                                           /\ Written(q, d, how) = Write(disk, q, c)
    BY <1>1, WrittenIs
  <1>3. OpenWorks(disk, q, create) /\ OpenWorks(disk, q, TRUE)
    BY <1>1, WrittenIs
  <1>4. Touched(disk, Write(disk, q, c), q) /\ Holds(Write(disk, q, c), q, <<c>>)
    BY <1>3, WriteTouches
  <1> QED
    BY <1>2, <1>3, <1>4

ClaimedOnes ==
    ~caseSensitive =>
       \A p \in Paths : /\ KindAt(disk, p) # "none" => caseMap[p] # Unclaimed
                        /\ expect[p] # <<>> => caseMap[key(p)] # Unclaimed
ReadableOnes ==
    \A p \in Paths : expect[p] # <<>> => Holds(Home(p), PathAtHome(p), expect[p])

LEMMA ReadParts ==
    ReadInv <=> (plain => /\ OneName(mem) /\ OneName(disk)
                          /\ NoLinks(mem) /\ NoLinks(disk)
                          /\ ClaimedOnes /\ ReadableOnes)
  BY DEF ReadInv, NoLinks, ClaimedOnes, ReadableOnes, Holds

LEMMA ReadNext ==
    ASSUME plain' => /\ OneName(mem') /\ OneName(disk')
                     /\ NoLinks(mem') /\ NoLinks(disk')
                     /\ ClaimedOnes' /\ ReadableOnes'
    PROVE  ReadInv'
  BY DEF ReadInv, OneName, NoLinks, ClaimedOnes, ReadableOnes, Holds, KindAt
LEMMA PathsClaim ==
    ASSUME NEW p \in Paths
    PROVE  p # Unclaimed
  <1>1. Len(p) \in {1, 2}
    BY PathCases, OneNamePaths, TwoNamePaths
  <1> QED
    BY <1>1 DEF Unclaimed

\* What Claimed does to the map.
LEMMA ClaimedMap ==
    ASSUME MapOK(caseMap), caseSensitive \in BOOLEAN, NEW p \in Paths
    PROVE  /\ \A k \in Paths : caseMap[k] # Unclaimed => Claimed(p)[k] = caseMap[k]
           /\ ~caseSensitive => Claimed(p)[key(p)] # Unclaimed
           /\ createOnDisk(p) /\ ~caseSensitive => Claimed(p)[key(p)] = p
           /\ ~createOnDisk(p) => Claimed(p) = caseMap
  <1>1. key(p) \in Paths /\ p # Unclaimed
    BY FoldedPaths, PathsClaim
  <1> QED
    BY <1>1 DEF MapOK, Claimed, createOnDisk, caseSensitiveOnDisk

\* A call about p that touches only what is at p, on disk only if that is
\* where p is, and leaves what is expected of p to be read at its home.
LEMMA ReadStep ==
    ASSUME TypeOK, MapOK(caseMap'), NEW p \in Paths,
           OneName(mem), OneName(disk), NoLinks(mem), NoLinks(disk), ClaimedOnes, ReadableOnes,
           caseSensitive' = caseSensitive,
           caseMap' = caseMap \/ caseMap' = Claimed(p),
           Touched(disk, disk', DiskPath(p)), disk' = disk \/ createOnDisk(p),
           Touched(mem, mem', p),
           ~caseSensitive /\ KindAt(disk', key(p)) # "none" => caseMap'[key(p)] # Unclaimed,
           ~caseSensitive /\ expect'[p] # <<>> => caseMap'[key(p)] # Unclaimed,
           \A q \in Paths \ {p} : expect'[q] = expect[q],
           expect'[p] # <<>> =>
              IF caseSensitive' \/ caseMap'[key(p)] \in {Unclaimed, p}
              THEN Holds(disk', DiskPath(p), expect'[p]) ELSE Holds(mem', p, expect'[p])
    PROVE  /\ OneName(mem') /\ OneName(disk')
           /\ NoLinks(mem') /\ NoLinks(disk')
           /\ ClaimedOnes' /\ ReadableOnes'
  <1>1. caseSensitive \in BOOLEAN /\ MapOK(caseMap)
    BY TypeParts
  <1>2. OneName(mem') /\ OneName(disk') /\ NoLinks(mem') /\ NoLinks(disk')
    BY DEF Touched
  <1>3. \A k \in Paths : caseMap[k] # Unclaimed => caseMap'[k] = caseMap[k]
    BY <1>1, ClaimedMap
  <1>4. \A q \in Paths : DiskPath(q)' = DiskPath(q)
    BY DEF DiskPath, DiskName
  <1>5. ClaimedOnes'
    <2> SUFFICES ASSUME ~caseSensitive, NEW q \in Paths
                 PROVE  /\ KindAt(disk', q) # "none" => caseMap'[q] # Unclaimed
                        /\ expect'[q] # <<>> => caseMap'[key(q)] # Unclaimed
      BY DEF ClaimedOnes, KindAt, key
    <2>1. DiskPath(p) = key(p) /\ key(q) \in Paths
      BY <1>1, DiskPaths, FoldedPaths
    <2>2. KindAt(disk', q) # "none" => caseMap'[q] # Unclaimed
      <3>1. CASE q = key(p)
        BY <3>1
      <3>2. CASE q # key(p)
        BY <1>3, <2>1, <3>2 DEF Touched, ClaimedOnes
      <3> QED
        BY <3>1, <3>2
    <2>3. expect'[q] # <<>> => caseMap'[key(q)] # Unclaimed
      <3>1. CASE q = p
        BY <3>1
      <3>2. CASE q # p
        BY <1>3, <2>1, <3>2 DEF ClaimedOnes
      <3> QED
        BY <3>1, <3>2
    <2> QED
      BY <2>2, <2>3
  <1>6. ASSUME NEW q \in Paths, expect'[q] # <<>>
        PROVE  IF caseSensitive' \/ caseMap'[key(q)] \in {Unclaimed, q}
               THEN Holds(disk', DiskPath(q), expect'[q]) ELSE Holds(mem', q, expect'[q])
    <2>1. CASE q = p
      BY <1>6, <2>1
    <2>2. CASE q # p
      <3>1. expect'[q] = expect[q] /\ expect[q] # <<>>
        BY <1>6, <2>2
      <3>2. key(q) \in Paths /\ DiskPath(q) \in Paths
        BY <1>1, FoldedPaths, DiskPaths
      <3>3. caseSensitive \/ (caseMap[key(q)] # Unclaimed /\ caseMap'[key(q)] = caseMap[key(q)])
        BY <1>3, <3>1, <3>2 DEF ClaimedOnes
      <3>4. CASE caseSensitiveOnDisk(q)
        <4>1. Holds(disk, DiskPath(q), expect[q])
          BY <3>1, <3>4 DEF ReadableOnes, Home, PathAtHome
        <4>2. Holds(disk', DiskPath(q), expect[q])
          <5>1. CASE DiskPath(q) # DiskPath(p)
            BY <3>2, <4>1, <5>1 DEF Touched
          <5>2. CASE DiskPath(q) = DiskPath(p)
            <6>1. ~caseSensitive /\ key(q) = key(p)
              BY <1>1, <2>2, <5>2, DiskPaths
            <6>2. caseMap[key(p)] = q
              BY <3>3, <3>4, <6>1 DEF caseSensitiveOnDisk
            <6>3. ~createOnDisk(p)
              BY <2>2, <3>3, <6>1, <6>2 DEF createOnDisk, caseSensitiveOnDisk
            <6> QED
              BY <4>1, <6>3
          <5> QED
            BY <5>1, <5>2
        <4> QED
          BY <3>1, <3>3, <3>4, <4>2 DEF caseSensitiveOnDisk
      <3>5. CASE ~caseSensitiveOnDisk(q)
        <4>1. Holds(mem, q, expect[q])
          BY <3>1, <3>5 DEF ReadableOnes, Home, PathAtHome
        <4>2. Holds(mem', q, expect[q])
          BY <2>2, <4>1 DEF Touched
        <4> QED
          BY <3>1, <3>3, <3>5, <4>2 DEF caseSensitiveOnDisk
      <3> QED
        BY <3>4, <3>5
    <2> QED
      BY <2>1, <2>2
  <1>7. ReadableOnes'
    <2> SUFFICES ASSUME NEW q \in Paths, expect'[q] # <<>>
                 PROVE  Holds(Home(q)', PathAtHome(q)', expect'[q])
      BY DEF ReadableOnes, Holds, KindAt
    <2>1. caseSensitiveOnDisk(q)' <=> (caseSensitive' \/ caseMap'[key(q)] \in {Unclaimed, q})
      BY DEF caseSensitiveOnDisk, key
    <2>2. /\ Home(q)' = IF caseSensitiveOnDisk(q)' THEN disk' ELSE mem'
          /\ PathAtHome(q)' = IF caseSensitiveOnDisk(q)' THEN DiskPath(q) ELSE q
      BY <1>4 DEF Home, PathAtHome
    <2>3. CASE caseSensitiveOnDisk(q)'
      BY <1>6, <2>1, <2>2, <2>3
    <2>4. CASE ~caseSensitiveOnDisk(q)'
      BY <1>6, <2>1, <2>2, <2>4
    <2> QED
      BY <2>3, <2>4
  <1> QED
    BY <1>2, <1>5, <1>7

LEMMA WriteFileReads ==
    ASSUME TypeOK, ReadInv, NEW p \in Paths, NEW d \in Contents, NEW how, WriteFile(p, d, how)
    PROVE  ReadInv'
  <1> DEFINE here == createOnDisk(p)
             opened == here /\ Opens(DiskPath(p), TRUE, how)
             onDisk == here => opened /\ how = "done"
             inMem == OpenWorks(mem, p, TRUE)
  <1>1. /\ disk' = IF opened THEN Written(DiskPath(p), d, how) ELSE disk
        /\ mem' = IF onDisk /\ inMem THEN Write(mem, p, IF here THEN Empty ELSE d) ELSE mem
        /\ expect' = [expect EXCEPT ![p] = IF onDisk /\ inMem THEN <<d>> ELSE <<>>]
        /\ caseMap' = Claimed(p)
        /\ UNCHANGED <<caseSensitive, plain>>
    BY DEF WriteFile, system
  <1> SUFFICES ASSUME plain
               PROVE  /\ OneName(mem') /\ OneName(disk')
                      /\ NoLinks(mem') /\ NoLinks(disk')
                      /\ ClaimedOnes' /\ ReadableOnes'
    BY <1>1, ReadNext
  <1>2. /\ OneName(mem) /\ OneName(disk) /\ NoLinks(mem) /\ NoLinks(disk)
        /\ ClaimedOnes /\ ReadableOnes
    BY ReadParts
  <1>3. /\ caseSensitive \in BOOLEAN /\ IsTree(mem) /\ IsTree(disk) /\ MapOK(caseMap)
        /\ expect \in Expectations
    BY TypeParts
  <1>4. key(p) \in Paths /\ DiskPath(p) \in Paths /\ MapOK(caseMap')
    BY <1>1, <1>3, FoldedPaths, DiskPaths, ClaimedOK
  <1>5. /\ Touched(disk, disk', DiskPath(p))
        /\ here /\ onDisk => Holds(disk', DiskPath(p), <<d>>)
    <2>1. CASE opened
      BY <1>1, <1>2, <1>3, <1>4, <2>1, WrittenTouches
    <2>2. CASE ~opened
      BY <1>1, <1>2, <2>2, SameTouches
    <2> QED
      BY <2>1, <2>2
  <1>6. disk' = disk \/ createOnDisk(p)
    BY <1>1
  <1> HIDE DEF onDisk, opened
  <1>7. /\ Touched(mem, mem', p)
        /\ ~here /\ onDisk /\ inMem => Holds(mem', p, <<d>>)
    <2>1. CASE onDisk /\ inMem
      <3> DEFINE c == IF here THEN Empty ELSE d
      <3>1. c \in Contents \cup {Empty} /\ (~here => c = d)
        OBVIOUS
      <3>2. mem' = Write(mem, p, c)
        BY <1>1, <2>1
      <3> HIDE DEF c
      <3>3. Touched(mem, mem', p) /\ Holds(mem', p, <<c>>)
        BY <1>2, <1>3, <2>1, <3>1, <3>2, WriteTouches
      <3> QED
        BY <3>1, <3>3
    <2>2. CASE ~(onDisk /\ inMem)
      BY <1>1, <1>2, <2>2, SameTouches
    <2> QED
      BY <2>1, <2>2
  <1>8. /\ ~caseSensitive => caseMap'[key(p)] # Unclaimed
        /\ here /\ ~caseSensitive => caseMap'[key(p)] = p
        /\ ~here => caseMap' = caseMap
    BY <1>1, <1>3, ClaimedMap
  <1>9. /\ expect'[p] = IF onDisk /\ inMem THEN <<d>> ELSE <<>>
        /\ \A q \in Paths \ {p} : expect'[q] = expect[q]
    BY <1>1, <1>3 DEF Expectations
  <1>10. ASSUME expect'[p] # <<>>
         PROVE  IF caseSensitive' \/ caseMap'[key(p)] \in {Unclaimed, p}
                THEN Holds(disk', DiskPath(p), expect'[p]) ELSE Holds(mem', p, expect'[p])
    <2>1. onDisk /\ inMem /\ expect'[p] = <<d>>
      BY <1>9, <1>10
    <2>2. CASE here
      BY <1>1, <1>5, <1>8, <2>1, <2>2
    <2>3. CASE ~here
      <3>1. ~(caseSensitive \/ caseMap[key(p)] \in {Unclaimed, p})
        BY <2>3 DEF createOnDisk, caseSensitiveOnDisk
      <3> QED
        BY <1>1, <1>7, <1>8, <2>1, <2>3, <3>1
    <2> QED
      BY <2>2, <2>3
  <1>11. caseSensitive' = caseSensitive /\ caseMap' = Claimed(p)
    BY <1>1
  <1> HIDE DEF here, inMem
  <1> QED
    BY <1>2, <1>4, <1>5, <1>6, <1>7, <1>8, <1>9, <1>10, <1>11, ReadStep

LEMMA CreateReads ==
    ASSUME TypeOK, ReadInv, NEW p \in Paths, NEW d \in Contents, NEW how, Create(p, d, how)
    PROVE  ReadInv'
  <1> DEFINE inMem == OpenWorks(mem, p, TRUE)
             here == inMem /\ createOnDisk(p)
             opened == here /\ Opens(DiskPath(p), TRUE, how)
             onDisk == (here => opened) /\ how = "done"
  <1>1. /\ mem' = IF inMem THEN Write(mem, p, IF here THEN Empty ELSE d) ELSE mem
        /\ disk' = IF opened THEN Written(DiskPath(p), d, how) ELSE disk
        /\ caseMap' = IF inMem THEN Claimed(p) ELSE caseMap
        /\ expect' = [expect EXCEPT ![p] = IF inMem /\ onDisk THEN <<d>> ELSE <<>>]
        /\ UNCHANGED <<caseSensitive, plain>>
    BY DEF Create, system
  <1> SUFFICES ASSUME plain
               PROVE  /\ OneName(mem') /\ OneName(disk')
                      /\ NoLinks(mem') /\ NoLinks(disk')
                      /\ ClaimedOnes' /\ ReadableOnes'
    BY <1>1, ReadNext
  <1>2. /\ OneName(mem) /\ OneName(disk) /\ NoLinks(mem) /\ NoLinks(disk)
        /\ ClaimedOnes /\ ReadableOnes
    BY ReadParts
  <1>3. /\ caseSensitive \in BOOLEAN /\ IsTree(mem) /\ IsTree(disk) /\ MapOK(caseMap)
        /\ expect \in Expectations
    BY TypeParts
  <1>4. key(p) \in Paths /\ DiskPath(p) \in Paths /\ MapOK(caseMap')
    BY <1>1, <1>3, FoldedPaths, DiskPaths, ClaimedOK
  <1>5. /\ Touched(disk, disk', DiskPath(p))
        /\ here /\ onDisk => Holds(disk', DiskPath(p), <<d>>)
    <2>1. CASE opened
      BY <1>1, <1>2, <1>3, <1>4, <2>1, WrittenTouches
    <2>2. CASE ~opened
      BY <1>1, <1>2, <2>2, SameTouches
    <2> QED
      BY <2>1, <2>2
  <1>6. /\ disk' = disk \/ createOnDisk(p)
        /\ ~inMem => disk' = disk
    BY <1>1
  <1>7. /\ Touched(mem, mem', p)
        /\ inMem /\ ~here => Holds(mem', p, <<d>>)
    <2> HIDE DEF onDisk, opened, here
    <2>1. CASE inMem
      <3> DEFINE c == IF here THEN Empty ELSE d
      <3>1. c \in Contents \cup {Empty} /\ (~here => c = d)
        OBVIOUS
      <3>2. mem' = Write(mem, p, c)
        BY <1>1, <2>1
      <3> HIDE DEF c
      <3>3. Touched(mem, mem', p) /\ Holds(mem', p, <<c>>)
        BY <1>2, <1>3, <2>1, <3>1, <3>2, WriteTouches
      <3> QED
        BY <3>1, <3>3
    <2>2. CASE ~inMem
      BY <1>1, <1>2, <2>2, SameTouches
    <2> QED
      BY <2>1, <2>2
  <1>8. ASSUME inMem
        PROVE  /\ ~caseSensitive => caseMap'[key(p)] # Unclaimed
               /\ here /\ ~caseSensitive => caseMap'[key(p)] = p
               /\ ~here => caseMap' = caseMap
    BY <1>1, <1>3, <1>8, ClaimedMap
  <1>9. /\ expect'[p] = IF inMem /\ onDisk THEN <<d>> ELSE <<>>
        /\ \A q \in Paths \ {p} : expect'[q] = expect[q]
    BY <1>1, <1>3 DEF Expectations
  <1>10. ASSUME expect'[p] # <<>>
         PROVE  IF caseSensitive' \/ caseMap'[key(p)] \in {Unclaimed, p}
                THEN Holds(disk', DiskPath(p), expect'[p]) ELSE Holds(mem', p, expect'[p])
    <2>1. onDisk /\ inMem /\ expect'[p] = <<d>>
      BY <1>9, <1>10
    <2>2. CASE here
      BY <1>1, <1>5, <1>8, <2>1, <2>2
    <2>3. CASE ~here
      <3>1. ~(caseSensitive \/ caseMap[key(p)] \in {Unclaimed, p})
        BY <2>1, <2>3 DEF createOnDisk, caseSensitiveOnDisk
      <3> QED
        BY <1>1, <1>7, <1>8, <2>1, <2>3, <3>1
    <2> QED
      BY <2>2, <2>3
  <1>11. caseSensitive' = caseSensitive /\ (caseMap' = caseMap \/ caseMap' = Claimed(p))
    BY <1>1
  <1>12. ~caseSensitive /\ KindAt(disk', key(p)) # "none" => caseMap'[key(p)] # Unclaimed
    <2>1. CASE inMem
      BY <1>8, <2>1
    <2>2. CASE ~inMem
      BY <1>1, <1>2, <1>4, <1>6, <2>2 DEF ClaimedOnes
    <2> QED
      BY <2>1, <2>2
  <1>13. ~caseSensitive /\ expect'[p] # <<>> => caseMap'[key(p)] # Unclaimed
    BY <1>8, <1>9
  <1> HIDE DEF here, inMem, onDisk, opened
  <1> QED
    BY <1>2, <1>4, <1>5, <1>6, <1>7, <1>9, <1>10, <1>11, <1>12, <1>13, ReadStep

LEMMA OpenFileReads ==
    ASSUME TypeOK, ReadInv, NEW p \in Paths, NEW d \in Contents, NEW how, OpenFile(p, d, how)
    PROVE  ReadInv'
  <1> DEFINE here == caseSensitiveOnDisk(p)
             opens == IF here THEN Opens(DiskPath(p), FALSE, how) ELSE OpenWorks(mem, p, FALSE)
             value == IF how = "done" THEN <<d>> ELSE <<>>
  <1>1. /\ disk' = IF here /\ opens THEN Written(DiskPath(p), d, how) ELSE disk
        /\ mem' = IF ~here /\ opens THEN Write(mem, p, d) ELSE mem
        /\ expect' = IF opens THEN [expect EXCEPT ![p] = value] ELSE expect
        /\ UNCHANGED <<caseSensitive, caseMap, plain>>
    <2>1. CASE here
      BY <2>1 DEF OpenFile, system
    <2>2. CASE ~here
      BY <2>2 DEF OpenFile, system
    <2> QED
      BY <2>1, <2>2
  <1> SUFFICES ASSUME plain
               PROVE  /\ OneName(mem') /\ OneName(disk')
                      /\ NoLinks(mem') /\ NoLinks(disk')
                      /\ ClaimedOnes' /\ ReadableOnes'
    BY <1>1, ReadNext
  <1>2. /\ OneName(mem) /\ OneName(disk) /\ NoLinks(mem) /\ NoLinks(disk)
        /\ ClaimedOnes /\ ReadableOnes
    BY ReadParts
  <1>3. /\ caseSensitive \in BOOLEAN /\ IsTree(mem) /\ IsTree(disk) /\ MapOK(caseMap)
        /\ expect \in Expectations
    BY TypeParts
  <1>4. key(p) \in Paths /\ DiskPath(p) \in Paths /\ MapOK(caseMap')
    BY <1>1, <1>3, FoldedPaths, DiskPaths
  <1>5. /\ Touched(disk, disk', DiskPath(p))
        /\ here /\ opens /\ how = "done" => Holds(disk', DiskPath(p), <<d>>)
        /\ here /\ opens => OpenWorks(disk, DiskPath(p), FALSE)
    <2>1. CASE here /\ opens
      BY <1>1, <1>2, <1>3, <1>4, <2>1, WrittenTouches
    <2>2. CASE ~(here /\ opens)
      BY <1>1, <1>2, <2>2, SameTouches
    <2> QED
      BY <2>1, <2>2
  <1>6. disk' = disk \/ createOnDisk(p)
    BY <1>1 DEF createOnDisk
  <1>7. /\ Touched(mem, mem', p)
        /\ ~here /\ opens => Holds(mem', p, <<d>>)
    <2>1. CASE ~here /\ opens
      BY <1>1, <1>2, <1>3, <2>1, WriteTouches, OpenExisting
    <2>2. CASE ~(~here /\ opens)
      BY <1>1, <1>2, <2>2, SameTouches
    <2> QED
      BY <2>1, <2>2
  <1>8. here /\ opens => KindAt(disk, DiskPath(p)) = "file"
    BY <1>2, <1>3, <1>4, <1>5, StraightWays DEF OpenWorks, IsTree
  <1>9. ~caseSensitive => DiskPath(p) = key(p)
    BY <1>3, DiskPaths
  <1>10. ~caseSensitive /\ KindAt(disk', key(p)) # "none" => caseMap'[key(p)] # Unclaimed
    <2>1. CASE here /\ opens
      BY <1>1, <1>2, <1>4, <1>8, <1>9, <2>1 DEF ClaimedOnes
    <2>2. CASE ~(here /\ opens)
      BY <1>1, <1>2, <1>4, <2>2 DEF ClaimedOnes
    <2> QED
      BY <2>1, <2>2
  <1>11. /\ expect'[p] = IF opens THEN value ELSE expect[p]
         /\ \A q \in Paths \ {p} : expect'[q] = expect[q]
    BY <1>1, <1>3 DEF Expectations
  <1>12. here <=> (caseSensitive' \/ caseMap'[key(p)] \in {Unclaimed, p})
    BY <1>1 DEF caseSensitiveOnDisk
  <1>13. ~caseSensitive /\ expect'[p] # <<>> => caseMap'[key(p)] # Unclaimed
    <2>1. CASE opens /\ here
      BY <1>1, <1>2, <1>4, <1>8, <1>9, <2>1 DEF ClaimedOnes
    <2>2. CASE opens /\ ~here
      BY <1>12, <2>2
    <2>3. CASE ~opens
      BY <1>1, <1>2, <1>11, <2>3 DEF ClaimedOnes
    <2> QED
      BY <2>1, <2>2, <2>3
  <1>14. ASSUME expect'[p] # <<>>
         PROVE  IF caseSensitive' \/ caseMap'[key(p)] \in {Unclaimed, p}
                THEN Holds(disk', DiskPath(p), expect'[p]) ELSE Holds(mem', p, expect'[p])
    <2>1. CASE opens
      <3>1. how = "done" /\ expect'[p] = <<d>>
        BY <1>11, <1>14, <2>1
      <3> QED
        BY <1>5, <1>7, <1>12, <2>1, <3>1
    <2>2. CASE ~opens
      <3>1. Holds(Home(p), PathAtHome(p), expect[p])
        BY <1>2, <1>11, <1>14, <2>2 DEF ReadableOnes
      <3>2. disk' = disk /\ mem' = mem /\ expect'[p] = expect[p]
        BY <1>1, <1>11, <2>2
      <3> QED
        BY <1>12, <3>1, <3>2 DEF Home, PathAtHome
    <2> QED
      BY <2>1, <2>2
  <1>15. caseSensitive' = caseSensitive /\ caseMap' = caseMap
    BY <1>1
  <1> HIDE DEF here, opens, value
  <1> QED
    BY <1>2, <1>4, <1>5, <1>6, <1>7, <1>10, <1>11, <1>13, <1>14, <1>15, ReadStep

LEMMA MakeDirReads ==
    ASSUME TypeOK, ReadInv, NEW p \in Paths, NEW how, MakeDir(p, how)
    PROVE  ReadInv'
  <1>1. /\ Placed(p, Dir, Dir) /\ UNCHANGED plain
        /\ UNCHANGED <<caseSensitive, expect>> /\ caseMap' = Claimed(p)
    BY MakeDirPlaces DEF Placed
  <1> SUFFICES ASSUME plain
               PROVE  /\ OneName(mem') /\ OneName(disk')
                      /\ NoLinks(mem') /\ NoLinks(disk')
                      /\ ClaimedOnes' /\ ReadableOnes'
    BY <1>1, ReadNext
  <1>2. /\ OneName(mem) /\ OneName(disk) /\ NoLinks(mem) /\ NoLinks(disk)
        /\ ClaimedOnes /\ ReadableOnes
    BY ReadParts
  <1>3. caseSensitive \in BOOLEAN /\ IsTree(mem) /\ IsTree(disk) /\ MapOK(caseMap)
    BY TypeParts
  <1>4. key(p) \in Paths /\ DiskPath(p) \in Paths /\ MapOK(caseMap')
    BY <1>1, <1>3, FoldedPaths, DiskPaths, ClaimedOK
  <1>5. /\ Touched(disk, disk', DiskPath(p))
        /\ disk' = disk \/ (createOnDisk(p) /\ KindAt(disk, DiskPath(p)) = "none")
    <2>1. CASE createOnDisk(p) /\ Vacant(disk, DiskPath(p)) /\ disk' = Put(disk, DiskPath(p), Dir)
      <3>1. /\ Touched(disk, Put(disk, DiskPath(p), Dir), DiskPath(p))
            /\ KindAt(disk, DiskPath(p)) = "none"
        BY <1>2, <1>3, <1>4, <2>1, PutDirTouches
      <3> QED
        BY <2>1, <3>1
    <2>2. CASE disk' = disk
      BY <1>2, <2>2, SameTouches
    <2> QED
      BY <1>1, <2>1, <2>2 DEF Placed
  <1>6. /\ Touched(mem, mem', p)
        /\ mem' = mem \/ KindAt(mem, p) = "none"
    <2>1. CASE Vacant(mem, p) /\ mem' = Put(mem, p, Dir)
      <3>1. Touched(mem, Put(mem, p, Dir), p) /\ KindAt(mem, p) = "none"
        BY <1>2, <1>3, <2>1, PutDirTouches
      <3> QED
        BY <2>1, <3>1
    <2>2. CASE mem' = mem
      BY <1>2, <2>2, SameTouches
    <2> QED
      BY <1>1, <2>1, <2>2 DEF Placed
  <1>7. /\ ~caseSensitive => caseMap'[key(p)] # Unclaimed
        /\ caseMap[key(p)] # Unclaimed => caseMap'[key(p)] = caseMap[key(p)]
    BY <1>1, <1>3, <1>4, ClaimedMap
  <1>8. ASSUME expect'[p] # <<>>
        PROVE  IF caseSensitive' \/ caseMap'[key(p)] \in {Unclaimed, p}
               THEN Holds(disk', DiskPath(p), expect'[p]) ELSE Holds(mem', p, expect'[p])
    <2>1. expect'[p] = expect[p] /\ Holds(Home(p), PathAtHome(p), expect[p])
      BY <1>1, <1>2, <1>8 DEF ReadableOnes
    <2>2. caseSensitiveOnDisk(p) <=> (caseSensitive' \/ caseMap'[key(p)] \in {Unclaimed, p})
      BY <1>1, <1>2, <1>7, <2>1, <1>8 DEF ClaimedOnes, caseSensitiveOnDisk
    <2>3. CASE caseSensitiveOnDisk(p)
      <3>1. Holds(disk, DiskPath(p), expect[p])
        BY <2>1, <2>3 DEF Home, PathAtHome
      <3>2. disk' = disk
        BY <1>5, <3>1 DEF Holds
      <3> QED
        BY <2>1, <2>2, <2>3, <3>1, <3>2
    <2>4. CASE ~caseSensitiveOnDisk(p)
      <3>1. Holds(mem, p, expect[p])
        BY <2>1, <2>4 DEF Home, PathAtHome
      <3>2. mem' = mem
        BY <1>6, <3>1 DEF Holds
      <3> QED
        BY <2>1, <2>2, <2>4, <3>1, <3>2
    <2> QED
      BY <2>3, <2>4
  <1> QED
    BY <1>1, <1>2, <1>4, <1>5, <1>6, <1>7, <1>8, ReadStep

LEMMA RemoveTouches ==
    ASSUME NEW t, IsTree(t), NoLinks(t), OneName(t), NEW p \in Paths
    PROVE  /\ NoLinks(Remove(t, p)) /\ OneName(Remove(t, p))
           /\ \A q \in Paths \ Under(t, p) : \A c : Holds(t, q, c) => Holds(Remove(t, p), q, c)
  <1> DEFINE u == Remove(t, p)
  <1>1. u.entry = [q \in Paths |-> IF q \in Under(t, p) THEN Nothing ELSE t.entry[q]]
    BY RemoveTree, Zenon
  <1>2. \A q \in Paths \ Under(t, p) : KindAt(t, q) = "file" =>
           u.data[t.entry[q][2]] = t.data[t.entry[q][2]]
    BY RemoveTree, Zenon
  <1> HIDE DEF u
  <1>3. Nothing[1] = "none"
    BY NodeKinds
  <1>4. NoLinks(u) /\ OneName(u)
    BY <1>1, <1>3 DEF NoLinks, OneName, KindAt
  <1>5. \A q \in Paths \ Under(t, p) : \A c : Holds(t, q, c) => Holds(u, q, c)
    BY <1>1, <1>2 DEF Holds, KindAt
  <1> QED
    BY <1>4, <1>5 DEF u

\* Without links what is under a path is what its name says.
LEMMA StraightUnder ==
    ASSUME NEW t \in Trees, NoLinks(t), NEW p \in Paths
    PROVE  Under(t, p) = {q \in Paths : p \in {q, DirOf(q)}}
  BY StraightWays DEF Under

\* Remove releases the spelling it takes from the disk and leaves what the
\* other paths are expected to hold where it is.
LEMMA RemovePathReads ==
    ASSUME TypeOK, ReadInv, NEW p \in Paths, NEW slash \in BOOLEAN, NEW how,
           RemovePath(p, slash, how)
    PROVE  ReadInv'
  <1>1. /\ caseSensitive \in BOOLEAN /\ IsTree(mem) /\ IsTree(disk) /\ MapOK(caseMap)
        /\ mem \in Trees /\ disk \in Trees
        /\ plain \in BOOLEAN /\ expect \in Expectations
    BY TypeParts DEF IsTree
  <1> DEFINE works == RemoveWorks(mem, p)
             there == There(p, slash)
             gone == Gone(p, how)
  <1>2. /\ mem' = IF works THEN Remove(mem, p) ELSE mem
        /\ disk' = IF there /\ gone THEN Remove(disk, DiskPath(p)) ELSE disk
        /\ caseMap' = IF works THEN Released(p, slash) ELSE caseMap
        /\ expect' = IF works
                     THEN [q \in Paths |-> IF q \in Under(mem, p) THEN <<>> ELSE expect[q]]
                     ELSE expect
        /\ plain' = (plain /\ (caseSensitive \/ ~there \/ (gone /\ OnlySpelling(p))))
        /\ caseSensitive' = caseSensitive
    BY RemovePathSteps
  <1>3. there => works
    BY DEF There
  <1> HIDE DEF works, there, gone
  <1> SUFFICES ASSUME plain, caseSensitive \/ ~there \/ (gone /\ OnlySpelling(p))
               PROVE  /\ OneName(mem') /\ OneName(disk')
                      /\ NoLinks(mem') /\ NoLinks(disk')
                      /\ ClaimedOnes' /\ ReadableOnes'
    BY <1>2, ReadNext
  <1>4. /\ OneName(mem) /\ OneName(disk) /\ NoLinks(mem) /\ NoLinks(disk)
        /\ ClaimedOnes /\ ReadableOnes
    BY ReadParts
  <1>5. /\ key(p) \in Paths /\ DiskPath(p) \in Paths
        /\ caseSensitive => DiskPath(p) = p
        /\ ~caseSensitive => DiskPath(p) = key(p)
    BY <1>1, FoldedPaths, DiskPaths
  <1>6. /\ Under(mem, p) = {q \in Paths : p \in {q, DirOf(q)}}
        /\ Under(disk, DiskPath(p)) = {q \in Paths : DiskPath(p) \in {q, DirOf(q)}}
    BY <1>1, <1>4, <1>5, StraightUnder
  <1>7. /\ NoLinks(mem') /\ OneName(mem')
        /\ \A q \in Paths : (works => q \notin Under(mem, p)) =>
              \A c : Holds(mem, q, c) => Holds(mem', q, c)
    <2>1. CASE works
      BY <1>1, <1>2, <1>4, <2>1, RemoveTouches
    <2>2. CASE ~works
      BY <1>2, <1>4, <2>2
    <2> QED
      BY <2>1, <2>2
  <1>8. /\ NoLinks(disk') /\ OneName(disk')
        /\ \A q \in Paths : (there /\ gone => q \notin Under(disk, DiskPath(p))) =>
              \A c : Holds(disk, q, c) => Holds(disk', q, c)
    <2>1. CASE there /\ gone
      BY <1>1, <1>2, <1>4, <1>5, <2>1, RemoveTouches
    <2>2. CASE ~(there /\ gone)
      BY <1>2, <1>4, <2>2
    <2> QED
      BY <2>1, <2>2
  <1>9. \A q \in Paths : expect'[q] # <<>> =>
           /\ expect'[q] = expect[q] /\ (works => q \notin Under(mem, p))
    BY <1>2
  \* On a disk without case a spelling is released only if no other one, and
  \* nothing below it, is expected to hold anything there.
  <1>10. ASSUME ~caseSensitive, there
         PROVE  /\ gone /\ OnlySpelling(p)
                /\ \A k \in Paths \ {key(p)} : caseMap'[k] = caseMap[k]
                /\ \A q \in Paths : q \in Under(disk, key(p)) /\ q # key(p) =>
                      KindAt(disk, q) = "none"
    <2>1. gone /\ OnlySpelling(p)
      BY <1>10
    <2>2. removeOnDisk(p, slash)
      BY <1>10 DEF there, There
    <2>3. caseMap' = [caseMap EXCEPT ![key(p)] = Unclaimed]
      BY <1>2, <1>3, <1>10, <2>2 DEF Released
    <2>4. \A k \in Paths \ {key(p)} : caseMap'[k] = caseMap[k]
      BY <1>1, <1>5, <2>3 DEF MapOK
    <2>5. DiskRemoves(DiskPath(p))
      BY <2>1 DEF gone, Gone
    <2>6. Real(disk, key(p)) = key(p)
      BY <1>1, <1>4, <1>5, StraightWays
    <2>7. \A q \in Under(disk, key(p)) \ {key(p)} : KindAt(disk, q) = "none"
      BY <1>5, <1>10, <2>5, <2>6 DEF DiskRemoves
    <2> QED
      BY <2>1, <2>4, <2>7
  <1>11. ~caseSensitive /\ ~there => caseMap' = caseMap /\ disk' = disk
    <2>1. works /\ ~there => ~removeOnDisk(p, slash)
      BY DEF works, there, There
    <2> QED
      BY <1>2, <2>1 DEF Released
  <1>12. ASSUME ~caseSensitive, NEW q \in Paths, expect'[q] # <<>>
         PROVE  /\ there => key(q) # key(p)
                /\ caseMap'[key(q)] = caseMap[key(q)] /\ caseMap[key(q)] # Unclaimed
    <2>1. key(q) \in Paths /\ expect[q] # <<>> /\ (works => q \notin Under(mem, p))
      BY <1>9, <1>12, FoldedPaths
    <2>2. caseMap[key(q)] # Unclaimed
      BY <1>4, <1>12, <2>1 DEF ClaimedOnes
    <2>3. there => q # p
      BY <1>3, <1>6, <2>1
    <2>4. there => key(q) # key(p)
      BY <1>10, <1>12, <2>1, <2>3 DEF OnlySpelling
    <2> QED
      BY <1>10, <1>11, <1>12, <2>1, <2>2, <2>4
  <1>13. ClaimedOnes'
    <2> SUFFICES ASSUME ~caseSensitive, NEW q \in Paths
                 PROVE  /\ KindAt(disk', q) # "none" => caseMap'[q] # Unclaimed
                        /\ expect'[q] # <<>> => caseMap'[key(q)] # Unclaimed
      BY <1>2 DEF ClaimedOnes, KindAt, key
    <2>1. expect'[q] # <<>> => caseMap'[key(q)] # Unclaimed
      BY <1>12
    <2>2. ASSUME KindAt(disk', q) # "none" PROVE caseMap'[q] # Unclaimed
      <3>1. CASE ~there
        BY <1>4, <1>11, <2>2, <3>1 DEF ClaimedOnes
      <3>2. CASE there
        <4>1. disk' = Remove(disk, key(p))
          BY <1>2, <1>5, <1>10, <3>2
        <4>2. disk'.entry = [u \in Paths |-> IF u \in Under(disk, key(p)) THEN Nothing
                                             ELSE disk.entry[u]]
          BY <1>1, <1>5, <4>1, RemoveTree, Zenon
        <4>3. Nothing[1] = "none"
          BY NodeKinds
        <4>4. q \notin Under(disk, key(p)) /\ KindAt(disk, q) # "none"
          BY <2>2, <4>2, <4>3 DEF KindAt
        <4>5. q # key(p)
          BY <1>5, <1>6, <4>4
        <4> QED
          BY <1>4, <1>10, <3>2, <4>4, <4>5 DEF ClaimedOnes
      <3> QED
        BY <3>1, <3>2
    <2> QED
      BY <2>1, <2>2
  <1>14. ASSUME NEW q \in Paths, expect'[q] # <<>>
         PROVE  IF caseSensitive' \/ caseMap'[key(q)] \in {Unclaimed, q}
                THEN Holds(disk', DiskPath(q), expect'[q]) ELSE Holds(mem', q, expect'[q])
    <2>1. /\ expect'[q] = expect[q] /\ (works => q \notin Under(mem, p))
          /\ Holds(Home(q), PathAtHome(q), expect[q])
      BY <1>4, <1>9, <1>14 DEF ReadableOnes
    <2>2. DiskPath(q) \in Paths /\ (caseSensitive => DiskPath(q) = q)
          /\ (~caseSensitive => DiskPath(q) = key(q))
      BY <1>1, DiskPaths
    <2>3. caseSensitiveOnDisk(q) <=> caseSensitive' \/ caseMap'[key(q)] \in {Unclaimed, q}
      BY <1>2, <1>12, <1>14 DEF caseSensitiveOnDisk
    <2>4. CASE caseSensitiveOnDisk(q)
      <3>1. Holds(disk, DiskPath(q), expect[q])
        BY <2>1, <2>4 DEF Home, PathAtHome
      <3>2. there /\ gone => DiskPath(q) \notin Under(disk, DiskPath(p))
        <4>1. CASE caseSensitive
          BY <1>3, <1>5, <1>6, <2>1, <2>2, <4>1
        <4>2. CASE ~caseSensitive
          <5>1. there => key(q) # key(p)
            BY <1>12, <1>14, <4>2
          <5>2. KindAt(disk, key(q)) # "none"
            BY <2>2, <3>1, <4>2 DEF Holds
          <5> QED
            BY <1>5, <1>10, <2>2, <4>2, <5>1, <5>2
        <4> QED
          BY <1>1, <4>1, <4>2
      <3>3. Holds(disk', DiskPath(q), expect[q])
        BY <1>8, <2>2, <3>1, <3>2
      <3> QED
        BY <2>1, <2>3, <2>4, <3>3
    <2>5. CASE ~caseSensitiveOnDisk(q)
      <3>1. Holds(mem, q, expect[q])
        BY <2>1, <2>5 DEF Home, PathAtHome
      <3>2. Holds(mem', q, expect[q])
        BY <1>7, <2>1, <3>1
      <3> QED
        BY <2>1, <2>3, <2>5, <3>2
    <2> QED
      BY <2>4, <2>5
  <1>15. ReadableOnes'
    <2> SUFFICES ASSUME NEW q \in Paths, expect'[q] # <<>>
                 PROVE  Holds(Home(q)', PathAtHome(q)', expect'[q])
      BY DEF ReadableOnes, Holds, KindAt
    <2>1. caseSensitiveOnDisk(q)' <=> (caseSensitive' \/ caseMap'[key(q)] \in {Unclaimed, q})
      BY DEF caseSensitiveOnDisk, key
    <2>2. DiskPath(q)' = DiskPath(q)
      BY <1>2 DEF DiskPath, DiskName
    <2>3. /\ Home(q)' = IF caseSensitiveOnDisk(q)' THEN disk' ELSE mem'
          /\ PathAtHome(q)' = IF caseSensitiveOnDisk(q)' THEN DiskPath(q) ELSE q
      BY <2>2 DEF Home, PathAtHome
    <2>4. CASE caseSensitiveOnDisk(q)'
      BY <1>14, <2>1, <2>3, <2>4
    <2>5. CASE ~caseSensitiveOnDisk(q)'
      BY <1>14, <2>1, <2>3, <2>5
    <2> QED
      BY <2>4, <2>5
  <1> QED
    BY <1>7, <1>8, <1>13, <1>15
-----------------------------------------------------------------------------
(* The theorems *)

\* Every base is a tree, and so is what the walk puts into memory.
LEMMA WalkedTree ==
    ASSUME NEW t \in Bases
    PROVE  /\ IsTree(t) /\ IsTree(Walked(t))
           /\ \A p \in Paths : Walked(t).entry[p] = IF KindAt(t, p) = "link" THEN Nothing
                                                    ELSE t.entry[p]
  <1> DEFINE e == [p \in Paths |-> IF KindAt(t, p) = "link" THEN Nothing ELSE t.entry[p]]
             c == NewMemFS.data
  <1>1. IsTree(t) /\ t \in Trees /\ t.entry \in [Paths -> NodesOfTree]
    BY BasesAssumption, TreeFields DEF IsTree
  <1>2. Walked(t) = [entry |-> e, data |-> c]
    BY DEF Walked
  <1>3. c \in [Numbers -> Contents \cup {Empty}]
    BY DEF NewMemFS
  <1>4. e \in [Paths -> NodesOfTree] /\ Nothing[1] = "none"
    BY <1>1, NodeKinds
  <1>5. \A p \in Paths : e[p] = IF KindAt(t, p) = "link" THEN Nothing ELSE t.entry[p]
    OBVIOUS
  <1> HIDE DEF e, c
  <1>6. ASSUME NEW x \in Names, NEW y \in Names, e[<<x, y>>][1] # "none"
        PROVE  e[<<x>>][1] = "dir"
    <2>1. <<x, y>> \in Paths /\ <<x>> \in Paths
      BY OneNamePaths, TwoNamePaths
    <2>2. KindAt(t, <<x, y>>) # "none"
      BY <1>4, <1>5, <1>6, <2>1 DEF KindAt
    <2>3. KindAt(t, <<x>>) = "dir"
      BY <1>1, <2>2 DEF IsTree
    <2> QED
      BY <1>5, <2>1, <2>3 DEF KindAt
  <1> QED
    BY <1>1, <1>2, <1>3, <1>4, <1>5, <1>6, TreeOf

LEMMA InitDirInv == Init => DirInv
  <1> SUFFICES ASSUME Init PROVE DirInv
    OBVIOUS
  <1>1. /\ IsTree(disk) /\ IsTree(mem)
        /\ \A p \in Paths : mem.entry[p] = IF KindAt(disk, p) = "link" THEN Nothing
                                           ELSE disk.entry[p]
    BY WalkedTree DEF Init
  <1>2. TypeOK
    <2>1. MapOK(caseMap) /\ expect \in Expectations
      BY DEF Init, MapOK, Expectations, Unclaimed
    <2>2. ops \in 0..MaxOps /\ faults \in 0..MaxFaults
      BY OpsAssumption DEF Init
    <2>3. /\ caseSensitive \in BOOLEAN /\ mayMknod \in BOOLEAN
          /\ plain \in BOOLEAN /\ diverged \in BOOLEAN
      BY DEF Init
    <2> QED
      BY <1>1, <2>1, <2>2, <2>3, TypeParts
  <1>3. ~diverged => NoLinks(disk) /\ \A p \in Paths : mem.entry[p] = disk.entry[p]
    BY <1>1 DEF Init, NoLinks
  <1>4. MirrorInv
    BY <1>3, MirrorParts DEF Mirrors
  <1>5. ReadInv
    <2> SUFFICES ASSUME plain
                 PROVE  /\ OneName(mem) /\ OneName(disk)
                        /\ NoLinks(mem) /\ NoLinks(disk)
                        /\ ClaimedOnes /\ ReadableOnes
      BY ReadParts
    <2>1. disk = NewMemFS => \A p \in Paths : KindAt(disk, p) = "none"
      <3>1. \A p \in Paths : KindAt(NewMemFS, p) = "none"
        BY NodeKinds DEF NewMemFS, KindAt
      <3> QED
        BY <3>1
    <2>2. NoLinks(disk) /\ \A p \in Paths : mem.entry[p] = disk.entry[p]
      <3>1. (caseSensitive /\ ~diverged) \/ disk = NewMemFS
        BY DEF Init
      <3> QED
        BY <1>1, <1>3, <2>1, <3>1 DEF NoLinks
    <2>3. OneName(disk)
      BY BasesAssumption DEF Init
    <2>4. OneName(mem) /\ NoLinks(mem)
      BY <2>2, <2>3 DEF OneName, NoLinks, KindAt
    <2>5. \A p \in Paths : expect[p] = <<>>
      BY DEF Init
    <2>6. ~caseSensitive => \A p \in Paths : KindAt(disk, p) = "none"
      BY <2>1 DEF Init
    <2> QED
      BY <2>2, <2>3, <2>4, <2>5, <2>6 DEF ClaimedOnes, ReadableOnes
  <1> QED
    BY <1>2, <1>4, <1>5 DEF DirInv

LEMMA NextDirInv == DirInv /\ [Next]_vars => DirInv'
  <1> SUFFICES ASSUME DirInv, [Next]_vars PROVE DirInv'
    OBVIOUS
  <1>1. TypeOK /\ MirrorInv /\ ReadInv
    BY DEF DirInv
  <1>2. ASSUME NEW p \in Paths, NEW d \in Contents, NEW how \in Answers,
               WriteFile(p, d, how) PROVE DirInv'
    BY <1>1, <1>2, WriteFileType, WriteFileMirrors, WriteFileReads DEF DirInv
  <1>3. ASSUME NEW p \in Paths, NEW d \in Contents, NEW how \in Answers,
               Create(p, d, how) PROVE DirInv'
    BY <1>1, <1>3, CreateType, CreateMirrors, CreateReads DEF DirInv
  <1>4. ASSUME NEW p \in Paths, NEW d \in Contents, NEW how \in Answers,
               OpenFile(p, d, how) PROVE DirInv'
    BY <1>1, <1>4, OpenFileType, OpenFileMirrors, OpenFileReads DEF DirInv
  <1>5. ASSUME NEW p \in Paths, NEW how \in Answers, MakeDir(p, how) PROVE DirInv'
    <2>1. Placed(p, Dir, Dir) /\ UNCHANGED <<plain, diverged>>
      BY <1>5, MakeDirPlaces
    <2>2. Dir \in NodesOfTree /\ Dir[1] # "file"
      BY NodeKinds
    <2>3. plain' \in BOOLEAN /\ diverged' \in BOOLEAN
      BY <1>1, <2>1, TypeParts
    <2>4. TypeOK'
      BY <1>1, <2>1, <2>2, <2>3, PlacedType
    <2> QED
      BY <1>1, <1>5, <2>4, MakeDirMirrors, MakeDirReads DEF DirInv
  <1>6. ASSUME NEW p \in Paths, NEW w \in Texts, NEW how \in Answers,
               MakeSymlink(w, p, how) PROVE DirInv'
    <2>1. /\ Placed(p, SymlinkTo(DiskText(w)), SymlinkTo(w))
          /\ plain' = FALSE /\ diverged' = (diverged \/ ParentOutside(p))
      BY <1>6, MakeSymlinkPlaces
    <2>2. SymlinkTo(w) \in NodesOfTree /\ SymlinkTo(DiskText(w)) \in NodesOfTree
      BY DiskTexts, NodeKinds DEF Targets
    <2>3. plain' \in BOOLEAN /\ diverged' \in BOOLEAN
      BY <1>1, <2>1, TypeParts
    <2>4. TypeOK'
      BY <1>1, <2>1, <2>2, <2>3, PlacedType
    <2>5. MirrorInv'
      BY <1>1, <1>6, MakeSymlinkMirrors
    <2>6. ReadInv'
      BY <2>1, ReadNext
    <2> QED
      BY <2>4, <2>5, <2>6 DEF DirInv
  <1>7. ASSUME NEW p \in Paths, NEW old \in Paths, NEW how \in Answers,
               MakeLink(old, p, how) PROVE DirInv'
    <2>1. ~plain'
      BY <1>7, MakeLinkSteps
    <2>2. ReadInv'
      BY <2>1, ReadNext
    <2> QED
      BY <1>1, <1>7, <2>2, MakeLinkType, MakeLinkMirrors DEF DirInv
  <1>8. ASSUME NEW p \in Paths, NEW how \in Answers, MakeDevice(p, how) PROVE DirInv'
    <2>1. ~plain'
      BY <1>8 DEF MakeDevice
    <2>2. ReadInv'
      BY <2>1, ReadNext
    <2> QED
      BY <1>1, <1>8, <2>2, MakeDeviceType, MakeDeviceMirrors DEF DirInv
  <1>9. ASSUME NEW p \in Paths, NEW slash \in BOOLEAN, NEW how \in Answers,
               RemovePath(p, slash, how) PROVE DirInv'
    BY <1>1, <1>9, RemovePathType, RemovePathMirrors, RemovePathReads DEF DirInv
  <1>10. CASE UNCHANGED vars
    <2>1. /\ caseSensitive' = caseSensitive /\ mayMknod' = mayMknod /\ mem' = mem /\ disk' = disk
          /\ caseMap' = caseMap /\ ops' = ops /\ faults' = faults /\ expect' = expect /\ plain' = plain
          /\ diverged' = diverged
      BY <1>10 DEF vars
    <2>2. TypeOK'
      BY <1>1, <2>1 DEF TypeOK
    <2>3. MirrorInv'
      BY <1>1, <2>1, MirrorParts, MirrorNext
    <2>4. ReadInv'
      <3>1. \A p \in Paths : Home(p)' = Home(p) /\ PathAtHome(p)' = PathAtHome(p)
        BY <2>1 DEF Home, PathAtHome, caseSensitiveOnDisk, DiskPath, DiskName, key
      <3>2. ReadableOnes => ReadableOnes'
        BY <2>1, <3>1 DEF ReadableOnes, Holds, KindAt
      <3>3. ClaimedOnes => ClaimedOnes'
        BY <2>1 DEF ClaimedOnes, KindAt, key
      <3> QED
        BY <1>1, <2>1, <3>2, <3>3, ReadParts, ReadNext
    <2> QED
      BY <2>2, <2>3, <2>4 DEF DirInv
  <1> QED
    BY <1>2, <1>3, <1>4, <1>5, <1>6, <1>7, <1>8, <1>9, <1>10 DEF Next

\* Through every sequence of calls on a filesystem over a directory, ones the
\* disk refuses or breaks off included and through links to anywhere, both trees
\* stay trees, memory and disk are in step but for the calls Mirrored names, and
\* what was written under a spelling is at its home (WriteFile, Create, OpenFile,
\* Symlink, Link, Mknod, Remove ... of rwosfs.go).
THEOREM DirInvariance == Spec => []DirInv
  BY InitDirInv, NextDirInv, PTL DEF Spec

\* On a disk that tells the cases apart memory has the paths, kinds and hard
\* links of the disk (createOnDisk, Create, Remove ... of rwosfs.go), for any
\* names, link targets, number of calls and number of calls the disk fails, as
\* long as there was none of the calls that let them part.
THEOREM MemoryMirrorsDisk == Spec => []Mirrored
  <1>1. DirInv => Mirrored
    BY DEF DirInv, MirrorInv
  <1> QED
    BY <1>1, DirInvariance, PTL

\* Every spelling of a path reads back what was written under it last, also on
\* a disk that has room for one spelling only (caseMap of rwosfs.go), that fails
\* calls, and after Remove of the spelling on disk if no other one was written.
THEOREM SpellingsReadBack == Spec => []ReadsBack
  <1>1. DirInv => ReadsBack
    <2> SUFFICES ASSUME DirInv, plain, NEW p \in Paths, expect[p] # <<>>
                 PROVE  Reads(p) = expect[p]
      BY DEF ReadsBack
    <2>1. /\ TypeOK /\ caseSensitive \in BOOLEAN /\ IsTree(mem) /\ IsTree(disk)
          /\ NoLinks(mem) /\ NoLinks(disk) /\ Holds(Home(p), PathAtHome(p), expect[p])
      BY TypeParts, ReadParts DEF DirInv, ReadableOnes
    <2>2. Reads(p) = ReadFile(Home(p), PathAtHome(p))
      BY DEF Reads, Home, PathAtHome
    <2>3. PICK t : t = Home(p) /\ IsTree(t) /\ NoLinks(t)
      BY <2>1 DEF Home
    <2>4. PICK q \in Paths : q = PathAtHome(p)
      BY <2>1, DiskPaths DEF PathAtHome
    <2>5. getNode(t, q) = q /\ KindAt(t, q) = "file" /\ expect[p] = <<t.data[t.entry[q][2]]>>
      BY <2>1, <2>3, <2>4, StraightWays DEF Holds, IsTree
    <2>6. Leads(t, q)
      <3>1. ASSUME Len(q) = 2 PROVE KindAt(t, DirOf(q)) = "dir"
        <4>1. ASSUME NEW x \in Names, q = <<x>> PROVE FALSE
          BY <3>1, <4>1, OneNamePaths
        <4>2. PICK x \in Names, y \in Names : q = <<x, y>>
          BY <4>1, PathCases
        <4>3. KindAt(t, <<x>>) = "dir" /\ DirOf(q) = <<x>>
          BY <2>3, <2>5, <4>2, TwoNamePaths DEF IsTree
        <4> QED
          BY <4>3
      <3> QED
        BY <2>5, <3>1 DEF Leads, InPlace
    <2> QED
      BY <2>2, <2>3, <2>4, <2>5, <2>6 DEF ReadFile, OpenWorks
  <1> QED
    BY <1>1, DirInvariance, PTL
=============================================================================
