--------------------------- MODULE ResolverProofs ---------------------------
(***************************************************************************)
(* The resolver for every index and every world (pkg/apk/repo.go): the     *)
(* types, the depth of the recursion, that the world is honoured, that     *)
(* dependencies come first, and that every step leaves less to be done.    *)
(*                                                                         *)
(* The loops of the code that build a list from a list are recursive       *)
(* functions of the model.  What they compute is proved with an induction  *)
(* over a set of numbers, from the well-foundedness of the natural ones.   *)
(***************************************************************************)
EXTENDS Resolver, SequenceTheorems, FiniteSetTheorems, WellFoundedInduction, TLAPS

-----------------------------------------------------------------------------
(* Recursion over the numbers up to n. *)

\* Every nonempty set of numbers has a least element.
LEMMA LeastNumber ==
    ASSUME NEW T, T \subseteq Nat, T # {}
    PROVE  \E n \in T : \A m \in T : n <= m
  <1>1. PICK n \in T : \A m \in T : ~(<<m, n>> \in OpToRel(<, Nat))
    BY WFMin, NatLessThanWellFounded
  <1>2. \A m \in T : ~(m < n)
    BY <1>1 DEF OpToRel
  <1>3. \A m \in T : n <= m
    BY <1>2
  <1> QED
    BY <1>3

\* Induction, with a set for the property.
LEMMA UpToInduction ==
    ASSUME NEW n \in Nat, NEW T, 0 \in T,
           \A k \in 1..n : k - 1 \in T => k \in T
    PROVE  0..n \subseteq T
  <1> SUFFICES ASSUME NEW j \in 0..n, j \notin T PROVE FALSE
    OBVIOUS
  <1> DEFINE out == {k \in 0..n : k \notin T}
  <1>1. out \subseteq Nat /\ out # {}
    OBVIOUS
  <1>2. PICK k \in out : \A m \in out : k <= m
    BY <1>1, LeastNumber
  <1>3. k \in 1..n /\ k - 1 \in 0..n
    BY <1>2
  <1>4. k - 1 \in T
    BY <1>2, <1>3
  <1> QED
    BY <1>2, <1>3, <1>4

IsStep(g, n, U) == \A k \in 1..n, u \in U : g[<<k, u>>] \in U
IsRecursion(f, g, e, n, U) ==
    /\ f \in [0..n -> U]
    /\ f[0] = e
    /\ \A k \in 1..n : f[k] = g[<<k, f[k - 1]>>]

\* A function with f[0] = e and f[k] = g[k, f[k - 1]] exists.
LEMMA RecursionExists ==
    ASSUME NEW n \in Nat, NEW U, NEW e \in U, NEW g, IsStep(g, n, U)
    PROVE  \E f : IsRecursion(f, g, e, n, U)
  <1> USE DEF IsStep
  <1> DEFINE Upto(f, m) == /\ f[0] = e
                           /\ \A k \in 1..m : f[k] = g[<<k, f[k - 1]>>]
             T == {m \in 0..n : \E f \in [0..m -> U] : Upto(f, m)}
  <1>1. 0 \in T
    <2> DEFINE f == [k \in 0..0 |-> e]
    <2>1. f \in [0..0 -> U] /\ Upto(f, 0) /\ 0 \in 0..n
      OBVIOUS
    <2> HIDE DEF f, Upto
    <2> QED
      BY <2>1
  <1>2. ASSUME NEW k \in 1..n, k - 1 \in T PROVE k \in T
    <2>1. PICK f \in [0..(k - 1) -> U] : Upto(f, k - 1)
      BY <1>2
    <2> DEFINE h == [j \in 0..k |-> IF j = k THEN g[<<k, f[k - 1]>>] ELSE f[j]]
    <2>2. f[k - 1] \in U
      BY <2>1
    <2>3. h \in [0..k -> U]
      <3> SUFFICES ASSUME NEW j \in 0..k
                   PROVE (IF j = k THEN g[<<k, f[k - 1]>>] ELSE f[j]) \in U
        OBVIOUS
      <3>1. CASE j = k
        BY <2>2, <3>1
      <3>2. CASE j # k
        BY <3>2
      <3> QED
        BY <3>1, <3>2
    <2>4. h[0] = e
      BY <2>1
    <2>5. ASSUME NEW j \in 1..k PROVE h[j] = g[<<j, h[j - 1]>>]
      <3>1. h[j - 1] = f[j - 1]
        OBVIOUS
      <3>2. CASE j = k
        BY <3>1, <3>2
      <3>3. CASE j # k
        <4>1. j \in 1..(k - 1) /\ h[j] = f[j]
          BY <3>3
        <4> QED
          BY <2>1, <3>1, <4>1
      <3> QED
        BY <3>2, <3>3
    <2> HIDE DEF h
    <2> QED
      BY <2>3, <2>4, <2>5
  <1> HIDE DEF T
  <1>3. n \in T
    BY <1>1, <1>2, UpToInduction
  <1> QED
    BY <1>3 DEF T, IsRecursion

-----------------------------------------------------------------------------
(* The lists of the resolver. *)

LEMMA AppendRange ==
    ASSUME NEW X, NEW s \in Seq(X), NEW x \in X
    PROVE  /\ Append(s, x) \in Seq(X)
           /\ Len(Append(s, x)) = Len(s) + 1
           /\ Range(Append(s, x)) = Range(s) \cup {x}
  <1>1. Append(s, x) \in Seq(X) /\ Len(Append(s, x)) = Len(s) + 1 /\ Len(s) \in Nat
    OBVIOUS
  <1>2. \A k \in 1..Len(s) : Append(s, x)[k] = s[k]
    OBVIOUS
  <1>3. Append(s, x)[Len(s) + 1] = x
    OBVIOUS
  <1>4. DOMAIN s = 1..Len(s) /\ DOMAIN Append(s, x) = 1..(Len(s) + 1)
    BY <1>1, LenProperties
  <1>5. ASSUME NEW y \in Range(Append(s, x)) PROVE y \in Range(s) \cup {x}
    <2>1. PICK k \in 1..(Len(s) + 1) : y = Append(s, x)[k]
      BY <1>4, <1>5 DEF Range
    <2>2. CASE k = Len(s) + 1
      BY <1>3, <2>1, <2>2
    <2>3. CASE k # Len(s) + 1
      <3>1. k \in 1..Len(s)
        BY <1>1, <2>3
      <3> QED
        BY <1>2, <1>4, <2>1, <3>1 DEF Range
    <2> QED
      BY <2>2, <2>3
  <1>6. ASSUME NEW y \in Range(s) PROVE y \in Range(Append(s, x))
    <2>1. PICK k \in 1..Len(s) : y = s[k]
      BY <1>4 DEF Range
    <2>2. k \in 1..(Len(s) + 1)
      BY <1>1
    <2> QED
      BY <1>2, <1>4, <2>1, <2>2 DEF Range
  <1>7. x \in Range(Append(s, x))
    <2>1. Len(s) + 1 \in 1..(Len(s) + 1)
      BY <1>1
    <2> QED
      BY <1>3, <1>4, <2>1 DEF Range
  <1> QED
    BY <1>1, <1>5, <1>6, <1>7

LEMMA ConcatRange ==
    ASSUME NEW X, NEW s \in Seq(X), NEW t \in Seq(X)
    PROVE  s \o t \in Seq(X) /\ Range(s \o t) = Range(s) \cup Range(t)
  <1>1. /\ s \o t \in Seq(X) /\ Len(s \o t) = Len(s) + Len(t)
        /\ Len(s) \in Nat /\ Len(t) \in Nat
        /\ \A k \in 1..(Len(s) + Len(t)) :
              (s \o t)[k] = IF k <= Len(s) THEN s[k] ELSE t[k - Len(s)]
    BY ConcatProperties, LenProperties
  <1>2. /\ DOMAIN s = 1..Len(s) /\ DOMAIN t = 1..Len(t)
        /\ DOMAIN (s \o t) = 1..(Len(s) + Len(t))
    BY <1>1, LenProperties
  <1>3. ASSUME NEW y \in Range(s \o t) PROVE y \in Range(s) \cup Range(t)
    <2>1. PICK k \in 1..(Len(s) + Len(t)) : y = (s \o t)[k]
      BY <1>2 DEF Range
    <2>2. CASE k <= Len(s)
      <3>1. k \in 1..Len(s) /\ y = s[k]
        BY <1>1, <2>1, <2>2
      <3> QED
        BY <1>2, <3>1 DEF Range
    <2>3. CASE ~(k <= Len(s))
      <3>1. k - Len(s) \in 1..Len(t) /\ y = t[k - Len(s)]
        BY <1>1, <2>1, <2>3
      <3> QED
        BY <1>2, <3>1 DEF Range
    <2> QED
      BY <2>2, <2>3
  <1>4. ASSUME NEW y \in Range(s) PROVE y \in Range(s \o t)
    <2>1. PICK k \in 1..Len(s) : y = s[k]
      BY <1>2 DEF Range
    <2>2. k \in 1..(Len(s) + Len(t)) /\ (s \o t)[k] = s[k]
      BY <1>1
    <2> QED
      BY <1>2, <2>1, <2>2 DEF Range
  <1>5. ASSUME NEW y \in Range(t) PROVE y \in Range(s \o t)
    <2>1. PICK k \in 1..Len(t) : y = t[k]
      BY <1>2 DEF Range
    <2>2. /\ Len(s) + k \in 1..(Len(s) + Len(t)) /\ ~(Len(s) + k <= Len(s))
          /\ (Len(s) + k) - Len(s) = k
      BY <1>1
    <2>3. (s \o t)[Len(s) + k] = t[k]
      BY <1>1, <2>2
    <2> QED
      BY <1>2, <2>1, <2>2, <2>3 DEF Range
  <1> QED
    BY <1>1, <1>3, <1>4, <1>5

LEMMA RangeElements ==
    ASSUME NEW X, NEW s \in Seq(X)
    PROVE  /\ Range(s) \subseteq X
           /\ \A k \in 1..Len(s) : s[k] \in Range(s)
           /\ \A y \in Range(s) : \E k \in 1..Len(s) : y = s[k]
           /\ s = <<>> <=> Range(s) = {}
  <1>1. DOMAIN s = 1..Len(s) /\ Len(s) \in Nat /\ \A k \in 1..Len(s) : s[k] \in X
    BY LenProperties
  <1>2. s = <<>> <=> Len(s) = 0
    BY EmptySeq
  <1>3. /\ Range(s) \subseteq X
        /\ \A k \in 1..Len(s) : s[k] \in Range(s)
        /\ \A y \in Range(s) : \E k \in 1..Len(s) : y = s[k]
    BY <1>1 DEF Range
  <1>4. s = <<>> => Range(s) = {}
    BY <1>1, <1>2, <1>3
  <1>5. s # <<>> => 1 \in 1..Len(s)
    BY <1>1, <1>2
  <1> QED
    BY <1>3, <1>4, <1>5

\* Select keeps what is in the set and nothing else.
LEMMA SelectProperties ==
    ASSUME NEW X, NEW s \in Seq(X), NEW S
    PROVE  /\ Select(s, S) \in Seq(X)
           /\ Range(Select(s, S)) = Range(s) \cap S
           /\ ~(Range(s) \subseteq S) => Len(Select(s, S)) < Len(s)
  <1> DEFINE n == Len(s)
             U == Seq(X)
             step(k, u) == IF s[k] \in S THEN Append(u, s[k]) ELSE u
             g == [z \in (1..n) \X U |-> step(z[1], z[2])]
             Rec(f) == f = [k \in 0..n |-> IF k = 0 THEN <<>>
                                           ELSE IF s[k] \in S THEN Append(f[k - 1], s[k])
                                           ELSE f[k - 1]]
             upTo == CHOOSE f : Rec(f)
  <1>1. n \in Nat /\ DOMAIN s = 1..n /\ \A k \in 1..n : s[k] \in X
    BY LenProperties
  <1>2. <<>> \in U
    OBVIOUS
  <1>3. \A k \in 1..n, u \in U : step(k, u) \in U
    BY <1>1
  <1>4. \A k \in 1..n, u \in U : g[<<k, u>>] = step(k, u)
    OBVIOUS
  <1> HIDE DEF n, U, g
  <1>5. PICK f \in [0..n -> U] : /\ f[0] = <<>>
                                 /\ \A k \in 1..n : f[k] = g[<<k, f[k - 1]>>]
    <2>1. IsStep(g, n, U)
      BY <1>3, <1>4 DEF IsStep
    <2>2. \E f : IsRecursion(f, g, <<>>, n, U)
      BY <1>1, <1>2, <2>1, RecursionExists
    <2> QED
      BY <2>2 DEF IsRecursion
  <1>6. Rec(f)
    <2>1. ASSUME NEW k \in 0..n, k # 0 PROVE f[k] = step(k, f[k - 1])
      <3>1. k \in 1..n /\ k - 1 \in 0..n
        BY <1>1, <2>1
      <3> QED
        BY <1>4, <1>5, <3>1
    <2> QED
      BY <1>5, <2>1
  <1>7. Rec(upTo)
    BY <1>6
  <1>8. Select(s, S) = upTo[n]
    BY DEF Select, n
  <1> HIDE DEF upTo
  <1> DEFINE Good(k) == /\ upTo[k] \in Seq(X)
                        /\ Range(upTo[k]) = {s[j] : j \in 1..k} \cap S
                        /\ Len(upTo[k]) <= k
                        /\ (\E j \in 1..k : s[j] \notin S) => Len(upTo[k]) < k
             T == {k \in 0..n : Good(k)}
  <1>9. 0 \in T
    <2>1. upTo[0] = <<>>
      BY <1>1, <1>7
    <2>2. upTo[0] \in Seq(X) /\ Len(upTo[0]) = 0 /\ Range(upTo[0]) = {}
      BY <2>1 DEF Range
    <2> QED
      BY <1>1, <2>2
  <1>10. ASSUME NEW k \in 1..n, k - 1 \in T PROVE k \in T
    <2>0. k \in 0..n /\ k # 0 /\ s[k] \in X
      BY <1>1
    <2>1. upTo[k] = step(k, upTo[k - 1])
      BY <1>7, <2>0
    <2> DEFINE u == upTo[k - 1]
    <2>2. /\ u \in Seq(X) /\ Len(u) \in Nat /\ Len(u) <= k - 1
          /\ Range(u) = {s[j] : j \in 1..(k - 1)} \cap S
          /\ (\E j \in 1..(k - 1) : s[j] \notin S) => Len(u) < k - 1
      BY <1>10
    <2>3. /\ {s[j] : j \in 1..k} = {s[j] : j \in 1..(k - 1)} \cup {s[k]}
          /\ \A j \in 1..k : j = k \/ j \in 1..(k - 1)
      <3>1. \A j \in 1..k : j = k \/ j \in 1..(k - 1)
        BY <1>1
      <3>2. \A j \in 1..(k - 1) : j \in 1..k
        BY <1>1
      <3>3. k \in 1..k
        BY <1>1
      <3> QED
        BY <3>1, <3>2, <3>3
    <2> HIDE DEF u
    <2>4. CASE s[k] \in S
      <3>1. /\ upTo[k] \in Seq(X) /\ Len(upTo[k]) = Len(u) + 1
            /\ Range(upTo[k]) = Range(u) \cup {s[k]}
        BY <2>0, <2>1, <2>2, <2>4, AppendRange DEF u
      <3>2. Range(upTo[k]) = {s[j] : j \in 1..k} \cap S
        BY <2>2, <2>3, <2>4, <3>1
      <3>3. (\E j \in 1..k : s[j] \notin S) => Len(u) < k - 1
        BY <2>2, <2>3, <2>4
      <3>4. Len(upTo[k]) <= k /\ ((\E j \in 1..k : s[j] \notin S) => Len(upTo[k]) < k)
        BY <2>2, <3>1, <3>3
      <3> QED
        BY <2>0, <3>1, <3>2, <3>4
    <2>5. CASE s[k] \notin S
      <3>1. upTo[k] = u
        BY <2>1, <2>5 DEF u
      <3>2. Range(u) = {s[j] : j \in 1..k} \cap S
        BY <2>2, <2>3, <2>5
      <3>3. Len(u) < k
        BY <2>2
      <3> QED
        BY <2>0, <2>2, <3>1, <3>2, <3>3
    <2> QED
      BY <2>4, <2>5
  <1> HIDE DEF T
  <1>11. n \in T
    <2>1. 0..n \subseteq T
      BY <1>1, <1>9, <1>10, UpToInduction
    <2> QED
      BY <1>1, <2>1
  <1>12. Good(n)
    BY <1>11 DEF T
  <1>13. {s[j] : j \in 1..n} = Range(s)
    BY <1>1 DEF Range
  <1>14. ~(Range(s) \subseteq S) => \E j \in 1..n : s[j] \notin S
    BY <1>13
  <1> QED
    BY <1>8, <1>12, <1>13, <1>14 DEF n

-----------------------------------------------------------------------------
(* Looking packages up. *)

Given == IsUniverse(pkgs, world, installed)

LEMMA PackagesAreNumbered ==
    ASSUME Given
    PROVE  /\ pkgs \in Seq(Range(pkgs)) /\ world \in Seq(Range(world))
           /\ Len(pkgs) \in Nat /\ Ids = 1..Len(pkgs) /\ None \notin Ids
           /\ \A i \in Ids : IsPackage(pkgs[i])
           /\ \A i \in Ids : pkgs[i].name \in Names
           /\ \A i \in Ids : \A c, d \in pkgs[i].deps : Text(c) = Text(d) => c = d
           /\ \A k \in 1..Len(world) : world[k] \in Range(world)
           /\ \A c \in Range(world) : IsConstraint(c)
  <1>1. pkgs \in Seq(Range(pkgs)) /\ world \in Seq(Range(world))
    BY DEF Given, IsUniverse
  <1>2. Len(pkgs) \in Nat /\ Ids = 1..Len(pkgs)
    BY <1>1, LenProperties DEF Ids
  <1>3. None \notin Ids
    BY <1>2 DEF None
  <1>4. \A i \in Ids : pkgs[i] \in Range(pkgs)
    BY <1>1, <1>2, RangeElements
  <1>5. \A k \in 1..Len(world) : world[k] \in Range(world)
    BY <1>1, RangeElements
  <1>6. /\ \A p \in Range(pkgs) : IsPackage(p)
        /\ \A p \in Range(pkgs) : \A c, d \in p.deps : Text(c) = Text(d) => c = d
        /\ \A c \in Range(world) : IsConstraint(c)
    BY DEF Given, IsUniverse
  <1>7. \A i \in Ids : pkgs[i].name \in Names
    BY <1>4, <1>6 DEF IsPackage
  <1> QED
    BY <1>1, <1>2, <1>3, <1>4, <1>5, <1>6, <1>7

LEMMA InOrderProperties ==
    ASSUME Given, NEW S, S \subseteq Ids
    PROVE  InOrder(S) \in Seq(Ids) /\ Range(InOrder(S)) = S
  <1> DEFINE all == [i \in Ids |-> i]
  <1>1. Len(pkgs) \in Nat /\ Ids = 1..Len(pkgs)
    BY PackagesAreNumbered
  <1>2. all \in Seq(Ids)
    BY <1>1, SeqDef
  <1>3. Range(all) = Ids
    BY DEF Range
  <1>4. InOrder(S) = Select(all, S)
    BY DEF InOrder
  <1> HIDE DEF all
  <1>5. Select(all, S) \in Seq(Ids) /\ Range(Select(all, S)) = Range(all) \cap S
    BY <1>2, SelectProperties
  <1> QED
    BY <1>3, <1>4, <1>5

LEMMA nameMapProperties ==
    ASSUME Given, NEW n
    PROVE  /\ nameMap(n) \in Seq(Ids)
           /\ Range(nameMap(n)) =
                 {i \in Ids : pkgs[i].name = n \/ n \in DOMAIN pkgs[i].provides}
  <1> DEFINE S == {i \in Ids : pkgs[i].name = n}
             T == {i \in Ids : n \in DOMAIN pkgs[i].provides}
  <1>1. nameMap(n) = InOrder(S) \o InOrder(T)
    BY DEF nameMap
  <1>2. InOrder(S) \in Seq(Ids) /\ Range(InOrder(S)) = S
    BY InOrderProperties
  <1>3. InOrder(T) \in Seq(Ids) /\ Range(InOrder(T)) = T
    BY InOrderProperties
  <1> HIDE DEF S, T
  <1>4. /\ InOrder(S) \o InOrder(T) \in Seq(Ids)
        /\ Range(InOrder(S) \o InOrder(T)) = Range(InOrder(S)) \cup Range(InOrder(T))
    BY <1>2, <1>3, ConcatRange
  <1>5. nameMap(n) \in Seq(Ids) /\ Range(nameMap(n)) = S \cup T
    BY <1>1, <1>2, <1>3, <1>4
  <1> QED
    BY <1>5 DEF S, T

\* The candidates of a constraint: not disqualified, and known by its name.
LEMMA filterPackagesProperties ==
    ASSUME Given, NEW c, NEW D, NEW pins, NEW chosen
    PROVE  /\ filterPackages(c, D, pins, chosen) \in Seq(Ids)
           /\ Range(filterPackages(c, D, pins, chosen))
                 \subseteq Range(nameMap(c.name)) \ D
  <1> DEFINE S == {i \in Ids : Passes(i, c, D, pins, chosen)}
  <1>1. S \cap D = {}
    BY DEF Passes
  <1>2. filterPackages(c, D, pins, chosen) = Select(nameMap(c.name), S)
    BY DEF filterPackages
  <1> HIDE DEF S
  <1>3. nameMap(c.name) \in Seq(Ids)
    BY nameMapProperties
  <1>4. /\ Select(nameMap(c.name), S) \in Seq(Ids)
        /\ Range(Select(nameMap(c.name), S)) = Range(nameMap(c.name)) \cap S
    BY <1>3, SelectProperties
  <1> QED
    BY <1>1, <1>2, <1>4

\* The resolver's lookups do not change while the indexes do not.
LEMMA SameLookups ==
    ASSUME UNCHANGED given
    PROVE  /\ Ids' = Ids
           /\ \A n : nameMap(n)' = nameMap(n)
           /\ \A i : Needs(i)' = Needs(i)
           /\ \A s : NamesIn(s)' = NamesIn(s)
  <1>1. pkgs' = pkgs /\ Ids' = Ids
    BY DEF given, Ids
  <1>2. ASSUME NEW n PROVE nameMap(n)' = nameMap(n)
    BY <1>1 DEF nameMap, InOrder
  <1>3. ASSUME NEW i PROVE Needs(i)' = Needs(i)
    BY <1>1 DEF Needs
  <1>4. ASSUME NEW s PROVE NamesIn(s)' = NamesIn(s)
    BY <1>1 DEF NamesIn
  <1> QED
    BY <1>1, <1>2, <1>3, <1>4

-----------------------------------------------------------------------------
(* Choosing. *)

\* The best of some candidates is one of them.
LEMMA bestPackageIsCandidate ==
    ASSUME NEW X, NEW s \in Seq(X), s # <<>>, NEW n, NEW ex, NEW os, NEW pin
    PROVE  bestPackage(s, n, ex, os, pin) \in Range(s)
  <1> DEFINE m == Len(s)
             U == Range(s)
             lesser(a, b) == IF comparePackages(n, ex, os, pin, a, b) < 0 THEN a ELSE b
             g == [z \in (1..m) \X U |-> IF z[1] = 1 THEN s[1] ELSE lesser(s[z[1]], z[2])]
             Rec(f) == f = [k \in 1..m |-> IF k = 1 THEN s[1]
                                           ELSE lesser(s[k], f[k - 1])]
             min == CHOOSE f : Rec(f)
  <1>1. m \in Nat /\ 1 \in 1..m /\ \A k \in 1..m : s[k] \in U
    <2>1. m \in Nat /\ m # 0
      BY LenProperties, EmptySeq
    <2> QED
      BY <2>1, RangeElements
  <1>2. \A k \in 1..m, u \in U :
           /\ g[<<k, u>>] = (IF k = 1 THEN s[1] ELSE lesser(s[k], u))
           /\ lesser(s[k], u) \in U
    BY <1>1
  <1>3. bestPackage(s, n, ex, os, pin) = min[m]
    BY DEF bestPackage
  <1> HIDE DEF m, U, g, lesser
  <1>4. PICK f \in [0..m -> U] : /\ f[0] = s[1]
                                 /\ \A k \in 1..m : f[k] = g[<<k, f[k - 1]>>]
    <2>1. IsStep(g, m, U)
      BY <1>1, <1>2 DEF IsStep
    <2>2. \E f : IsRecursion(f, g, s[1], m, U)
      BY <1>1, <2>1, RecursionExists
    <2> QED
      BY <2>2 DEF IsRecursion
  <1> DEFINE h == [k \in 1..m |-> f[k]]
  <1>5. Rec(h)
    <2>1. ASSUME NEW k \in 1..m PROVE f[k] = IF k = 1 THEN s[1] ELSE lesser(s[k], h[k - 1])
      <3>1. k - 1 \in 0..m /\ f[k - 1] \in U /\ (k # 1 => k - 1 \in 1..m)
        BY <1>1, <1>4
      <3>2. f[k] = IF k = 1 THEN s[1] ELSE lesser(s[k], f[k - 1])
        BY <1>2, <1>4, <3>1
      <3>3. k # 1 => h[k - 1] = f[k - 1]
        BY <3>1
      <3> QED
        BY <3>2, <3>3
    <2> QED
      BY <2>1
  <1> HIDE DEF h
  <1>6. Rec(min)
    BY <1>5
  <1> HIDE DEF min
  <1> DEFINE T == {k \in 0..m : k # 0 => min[k] \in U}
  <1>7. 0 \in T
    BY <1>1
  <1>8. ASSUME NEW k \in 1..m, k - 1 \in T PROVE k \in T
    <2>1. min[k] = IF k = 1 THEN s[1] ELSE lesser(s[k], min[k - 1])
      BY <1>6
    <2>2. CASE k = 1
      BY <1>1, <2>1, <2>2
    <2>3. CASE k # 1
      <3>1. min[k - 1] \in U
        BY <1>1, <1>8, <2>3
      <3> QED
        BY <1>1, <1>2, <2>1, <2>3, <3>1
    <2> QED
      BY <2>2, <2>3
  <1> HIDE DEF T
  <1>9. 0..m \subseteq T
    BY <1>1, <1>7, <1>8, UpToInduction
  <1>10. min[m] \in U
    BY <1>1, <1>9 DEF T
  <1> QED
    BY <1>3, <1>10 DEF U

\* A list has a first element among those with the least number.
LEMMA FirstLeast ==
    ASSUME NEW m \in Nat, m # 0, NEW size, \A k \in 1..m : size[k] \in Nat
    PROVE  \E k \in 1..m : /\ \A j \in 1..m : size[k] <= size[j]
                           /\ \A j \in 1..(k - 1) : size[k] < size[j]
  <1> DEFINE sizes == {size[k] : k \in 1..m}
  <1>1. sizes \subseteq Nat /\ sizes # {}
    <2>1. size[1] \in sizes
      OBVIOUS
    <2> QED
      BY <2>1
  <1>2. PICK a \in sizes : \A b \in sizes : a <= b
    BY <1>1, LeastNumber
  <1> DEFINE least == {k \in 1..m : size[k] = a}
  <1>3. least \subseteq Nat /\ least # {}
    BY <1>2
  <1>4. PICK k \in least : \A j \in least : k <= j
    BY <1>3, LeastNumber
  <1>5. \A j \in 1..m : size[k] <= size[j]
    BY <1>2, <1>4
  <1>6. ASSUME NEW j \in 1..(k - 1) PROVE size[k] < size[j]
    <2>1. j \in 1..m /\ j < k /\ size[j] \in Nat /\ size[k] \in Nat
      BY <1>4
    <2>2. size[j] # a
      BY <1>4, <2>1
    <2> QED
      BY <1>4, <1>5, <2>1, <2>2
  <1> QED
    BY <1>4, <1>5, <1>6

LEMMA OptionsProperties ==
    ASSUME Given, NEW c, NEW D
    PROVE  /\ Options(c, D) \in Seq(Ids)
           /\ Len(Options(c, D)) \in Nat
           /\ Range(Options(c, D)) \subseteq Range(nameMap(c.name)) \ D
           /\ Options(c, D) # <<>> => ~c.not
  <1>1. CASE c.not
    <2>1. Options(c, D) = <<>>
      BY <1>1 DEF Options
    <2>2. Options(c, D) \in Seq(Ids) /\ Range(Options(c, D)) = {}
      BY <2>1 DEF Range
    <2> QED
      BY <2>1, <2>2, LenProperties
  <1>2. CASE ~c.not
    <2>1. Options(c, D) = filterPackages(c, D, {c.pin}, None)
      BY <1>2 DEF Options
    <2>2. /\ Options(c, D) \in Seq(Ids)
          /\ Range(Options(c, D)) \subseteq Range(nameMap(c.name)) \ D
      BY <2>1, filterPackagesProperties
    <2> QED
      BY <1>2, <2>2, LenProperties
  <1> QED
    BY <1>1, <1>2

LEMMA nextPackageIsLeft ==
    ASSUME Given, NEW X, left \in Seq(X), left # <<>>
    PROVE  nextPackage \in Range(left)
  <1> DEFINE size == [k \in DOMAIN left |-> Len(Options(left[k], dq))]
             m == Len(left)
             First(k) == /\ \A j \in DOMAIN left : size[k] <= size[j]
                         /\ \A j \in 1..(k - 1) : size[k] < size[j]
             Is(k) == LET sz(l) == Len(Options(left[l], dq))
                      IN  /\ \A j \in DOMAIN left : sz(k) <= sz(j)
                          /\ \A j \in 1..(k - 1) : sz(k) < sz(j)
  <1>1. m \in Nat /\ m # 0 /\ DOMAIN left = 1..m
    BY LenProperties, EmptySeq
  <1>2. \A k \in 1..m : size[k] \in Nat /\ size[k] = Len(Options(left[k], dq))
    BY <1>1, OptionsProperties
  <1>3. nextPackage = left[CHOOSE k \in DOMAIN left : Is(k)]
    BY DEF nextPackage
  <1> HIDE DEF size, m
  <1>4. PICK k \in 1..m : First(k)
    BY <1>1, <1>2, FirstLeast
  <1>5. \A j \in 1..(k - 1) : j \in 1..m
    BY <1>1
  <1>6. Is(k)
    BY <1>1, <1>2, <1>4, <1>5
  <1> HIDE DEF Is
  <1>7. (CHOOSE l \in DOMAIN left : Is(l)) \in DOMAIN left
    BY <1>1, <1>6
  <1> QED
    BY <1>3, <1>7 DEF Range

LEMMA DepOptionsProperties ==
    ASSUME Given, NEW c
    PROVE  /\ DepOptions(c) \in Seq(Ids)
           /\ Len(DepOptions(c)) \in Nat
           /\ Range(DepOptions(c)) \subseteq Range(nameMap(c.name)) \ dq
  <1>1. DepOptions(c) = filterPackages(c, dq, {world[pos].pin}, existing[c.name])
    BY DEF DepOptions
  <1>2. /\ DepOptions(c) \in Seq(Ids)
        /\ Range(DepOptions(c)) \subseteq Range(nameMap(c.name)) \ dq
    BY <1>1, filterPackagesProperties
  <1> QED
    BY <1>2, LenProperties

\* Some dependency is the lowest.
LEMMA LowestIsMember ==
    ASSUME Given, NEW cs, cs # {}, \A c \in cs : Text(c) \in Nat
    PROVE  Lowest(cs) \in cs
  <1> DEFINE size(c) == Len(DepOptions(c))
             Below(c, d) == \/ size(c) < size(d)
                            \/ size(c) = size(d) /\ Text(c) <= Text(d)
             sizes == {size(c) : c \in cs}
  <1>1. \A c \in cs : size(c) \in Nat
    BY DepOptionsProperties
  <1>2. Lowest(cs) = CHOOSE c \in cs : \A d \in cs : Below(c, d)
    BY DEF Lowest
  <1> HIDE DEF size
  <1>3. PICK a \in sizes : \A b \in sizes : a <= b
    BY <1>1, LeastNumber
  <1> DEFINE texts == {Text(c) : c \in {d \in cs : size(d) = a}}
  <1>4. texts \subseteq Nat /\ texts # {}
    BY <1>3
  <1>5. PICK t \in texts : \A u \in texts : t <= u
    BY <1>4, LeastNumber
  <1>6. PICK c \in cs : size(c) = a /\ Text(c) = t
    BY <1>5
  <1>7. ASSUME NEW d \in cs PROVE Below(c, d)
    <2>1. a <= size(d) /\ a \in Nat /\ size(d) \in Nat
      BY <1>1, <1>3
    <2>2. CASE a = size(d)
      BY <1>5, <1>6, <2>2
    <2>3. CASE a # size(d)
      BY <1>6, <2>1, <2>3
    <2> QED
      BY <2>2, <2>3
  <1> HIDE DEF Below
  <1> QED
    BY <1>2, <1>7

\* The last place of a list that is in a set of places.
LEMMA MaxIsMember ==
    ASSUME NEW m \in Nat, NEW S, S \subseteq 1..m, S # {}
    PROVE  Max(S) \in S
  <1> DEFINE T == {m - k : k \in S}
  <1>1. T \subseteq Nat /\ T # {}
    <2>1. \A k \in S : m - k \in Nat
      OBVIOUS
    <2> QED
      BY <2>1
  <1>2. PICK a \in T : \A b \in T : a <= b
    BY <1>1, LeastNumber
  <1>3. PICK k \in S : a = m - k
    BY <1>2
  <1>4. \A j \in S : k >= j
    <2> SUFFICES ASSUME NEW j \in S PROVE k >= j
      OBVIOUS
    <2>1. m - k <= m - j
      BY <1>2, <1>3
    <2> QED
      BY <2>1
  <1> QED
    BY <1>4 DEF Max

-----------------------------------------------------------------------------
(* The lists of packages of which no two have the same name. *)

LEMMA NamesInRange ==
    ASSUME NEW s
    PROVE  NamesIn(s) = {pkgs[i].name : i \in Range(s)}
  BY DEF NamesIn, Range

\* More names in front do no harm.
LEMMA FollowsMore ==
    ASSUME NEW i, NEW ns, NEW ms, ns \subseteq ms, MayFollow(i, ns)
    PROVE  MayFollow(i, ms)
  BY DEF MayFollow

\* Lists in order: one package more, or one list behind another.
LEMMA OrderedAppend ==
    ASSUME NEW s \in Seq(Ids), NEW i \in Ids, Ordered(s), MayFollow(i, NamesIn(s))
    PROVE  Ordered(Append(s, i))
  <1> DEFINE new == Append(s, i)
  <1>1. /\ Len(s) \in Nat /\ DOMAIN s = 1..Len(s) /\ DOMAIN new = 1..(Len(s) + 1)
        /\ new[Len(s) + 1] = i
    BY LenProperties
  <1>2. \A k \in 1..Len(s) : new[k] = s[k]
    OBVIOUS
  <1> HIDE DEF new
  <1>3. ASSUME NEW k \in 1..(Len(s) + 1) PROVE MayFollow(new[k], NamesBefore(new, k))
    <2>1. \A j \in 1..(k - 1) : j \in 1..Len(s)
      BY <1>1
    <2>2. NamesBefore(new, k) = {pkgs[s[j]].name : j \in 1..(k - 1)}
      BY <1>2, <2>1 DEF NamesBefore
    <2>3. CASE k = Len(s) + 1
      <3>1. 1..(k - 1) = DOMAIN s
        BY <1>1, <2>3
      <3>2. NamesBefore(new, k) = NamesIn(s)
        BY <2>2, <3>1 DEF NamesIn
      <3> QED
        BY <1>1, <2>3, <3>2
    <2>4. CASE k # Len(s) + 1
      <3>1. k \in 1..Len(s)
        BY <1>1, <2>4
      <3>2. MayFollow(s[k], NamesBefore(s, k))
        BY <1>1, <3>1 DEF Ordered
      <3> QED
        BY <1>2, <2>2, <3>1, <3>2 DEF NamesBefore
    <2> QED
      BY <2>3, <2>4
  <1> QED
    BY <1>1, <1>3 DEF Ordered, new

LEMMA OrderedConcat ==
    ASSUME NEW s \in Seq(Ids), NEW t \in Seq(Ids), Ordered(s), Ordered(t)
    PROVE  Ordered(s \o t)
  <1> DEFINE new == s \o t
  <1>1. /\ Len(s) \in Nat /\ Len(t) \in Nat
        /\ DOMAIN s = 1..Len(s) /\ DOMAIN t = 1..Len(t)
    BY LenProperties
  <1>2. /\ s \o t \in Seq(Ids) /\ Len(s \o t) = Len(s) + Len(t)
        /\ \A i \in 1..(Len(s) + Len(t)) :
              (s \o t)[i] = IF i <= Len(s) THEN s[i] ELSE t[i - Len(s)]
    BY ConcatProperties
  <1>3. DOMAIN new = 1..(Len(s) + Len(t))
    BY <1>2, LenProperties
  <1> HIDE DEF new
  <1>4. \A k \in 1..Len(s) : new[k] = s[k]
    BY <1>1, <1>2 DEF new
  <1>5. ASSUME NEW k \in 1..Len(t)
        PROVE  Len(s) + k \in 1..(Len(s) + Len(t)) /\ new[Len(s) + k] = t[k]
    <2>1. /\ Len(s) + k \in 1..(Len(s) + Len(t)) /\ ~(Len(s) + k <= Len(s))
          /\ (Len(s) + k) - Len(s) = k
      BY <1>1
    <2> QED
      BY <1>2, <2>1 DEF new
  <1>6. ASSUME NEW k \in 1..Len(s) PROVE MayFollow(new[k], NamesBefore(new, k))
    <2>1. \A j \in 1..(k - 1) : j \in 1..Len(s)
      BY <1>1
    <2>2. NamesBefore(new, k) = NamesBefore(s, k)
      BY <1>4, <2>1 DEF NamesBefore
    <2> QED
      BY <1>1, <1>4, <2>2 DEF Ordered
  <1>7. ASSUME NEW k \in 1..Len(t)
        PROVE  MayFollow(new[Len(s) + k], NamesBefore(new, Len(s) + k))
    <2>1. ASSUME NEW j \in 1..(k - 1)
          PROVE  Len(s) + j \in 1..((Len(s) + k) - 1) /\ new[Len(s) + j] = t[j]
      <3>1. j \in 1..Len(t) /\ Len(s) + j \in 1..((Len(s) + k) - 1)
        BY <1>1
      <3> QED
        BY <1>5, <3>1
    <2>2. NamesBefore(t, k) \subseteq NamesBefore(new, Len(s) + k)
      BY <2>1 DEF NamesBefore
    <2>3. MayFollow(t[k], NamesBefore(t, k))
      BY <1>1 DEF Ordered
    <2> QED
      BY <1>5, <2>2, <2>3, FollowsMore
  <1>8. ASSUME NEW k \in 1..(Len(s) + Len(t)) PROVE MayFollow(new[k], NamesBefore(new, k))
    <2>1. CASE k <= Len(s)
      BY <1>1, <1>6, <2>1
    <2>2. CASE ~(k <= Len(s))
      <3>1. k - Len(s) \in 1..Len(t) /\ Len(s) + (k - Len(s)) = k
        BY <1>1, <2>2
      <3>2. MayFollow(new[Len(s) + (k - Len(s))], NamesBefore(new, Len(s) + (k - Len(s))))
        BY <1>7, <3>1
      <3> QED
        BY <3>1, <3>2
    <2> QED
      BY <2>1, <2>2
  <1> QED
    BY <1>3, <1>8 DEF Ordered, new

LEMMA AddNewProperties ==
    ASSUME NEW s \in Seq(Ids), NEW i \in Ids
    PROVE  /\ AddNew(s, i) \in Seq(Ids)
           /\ Range(s) \subseteq Range(AddNew(s, i))
           /\ Range(AddNew(s, i)) \subseteq Range(s) \cup {i}
           /\ pkgs[i].name \in NamesIn(AddNew(s, i))
  <1>1. CASE pkgs[i].name \in NamesIn(s)
    BY <1>1 DEF AddNew
  <1>2. CASE pkgs[i].name \notin NamesIn(s)
    <2>1. AddNew(s, i) = Append(s, i)
      BY <1>2 DEF AddNew
    <2>2. Append(s, i) \in Seq(Ids) /\ Range(Append(s, i)) = Range(s) \cup {i}
      BY AppendRange
    <2>3. pkgs[i].name \in NamesIn(Append(s, i))
      BY <2>2, NamesInRange
    <2> QED
      BY <2>1, <2>2, <2>3
  <1> QED
    BY <1>1, <1>2

\* AppendNew loses nothing, invents nothing, has every name, and keeps what
\* a package needs in front of it.
LEMMA AppendNewProperties ==
    ASSUME NEW s \in Seq(Ids), NEW t \in Seq(Ids)
    PROVE  /\ AppendNew(s, t) \in Seq(Ids)
           /\ Range(s) \subseteq Range(AppendNew(s, t))
           /\ Range(AppendNew(s, t)) \subseteq Range(s) \cup Range(t)
           /\ \A i \in Range(t) : pkgs[i].name \in NamesIn(AppendNew(s, t))
           /\ Ordered(s) /\ Ordered(t) => Ordered(AppendNew(s, t))
  <1> DEFINE n == Len(t)
             U == {u \in Seq(Ids) : /\ Range(s) \subseteq Range(u)
                                    /\ Range(u) \subseteq Range(s) \cup Range(t)}
             g == [z \in (1..n) \X U |-> AddNew(z[2], t[z[1]])]
             Rec(f) == f = [k \in 0..n |-> IF k = 0 THEN s ELSE AddNew(f[k - 1], t[k])]
             upTo == CHOOSE f : Rec(f)
  <1>1. n \in Nat /\ \A k \in 1..n : t[k] \in Ids /\ t[k] \in Range(t)
    BY LenProperties, RangeElements
  <1>2. s \in U
    OBVIOUS
  <1>3. ASSUME NEW k \in 1..n, NEW u \in U
        PROVE  /\ AddNew(u, t[k]) \in U
               /\ Range(u) \subseteq Range(AddNew(u, t[k]))
               /\ pkgs[t[k]].name \in NamesIn(AddNew(u, t[k]))
    <2>1. u \in Seq(Ids) /\ t[k] \in Ids /\ t[k] \in Range(t)
      BY <1>1
    <2>2. /\ AddNew(u, t[k]) \in Seq(Ids)
          /\ Range(u) \subseteq Range(AddNew(u, t[k]))
          /\ Range(AddNew(u, t[k])) \subseteq Range(u) \cup {t[k]}
          /\ pkgs[t[k]].name \in NamesIn(AddNew(u, t[k]))
      BY <2>1, AddNewProperties
    <2> QED
      BY <2>1, <2>2
  <1>4. \A k \in 1..n, u \in U : g[<<k, u>>] = AddNew(u, t[k])
    OBVIOUS
  <1>5. AppendNew(s, t) = upTo[n]
    BY DEF AppendNew
  <1> HIDE DEF n, g
  <1>6. PICK f \in [0..n -> U] : /\ f[0] = s
                                 /\ \A k \in 1..n : f[k] = g[<<k, f[k - 1]>>]
    <2> HIDE DEF U
    <2>1. IsStep(g, n, U)
      BY <1>3, <1>4 DEF IsStep
    <2>2. \E f : IsRecursion(f, g, s, n, U)
      BY <1>1, <1>2, <2>1, RecursionExists
    <2> QED
      BY <2>2 DEF IsRecursion
  <1>7. Rec(f)
    <2> HIDE DEF U
    <2>1. ASSUME NEW k \in 0..n, k # 0 PROVE f[k] = AddNew(f[k - 1], t[k])
      <3>1. k \in 1..n /\ k - 1 \in 0..n
        BY <1>1, <2>1
      <3> QED
        BY <1>4, <1>6, <3>1
    <2> QED
      BY <1>6, <2>1
  <1>8. Rec(upTo)
    BY <1>7
  <1> HIDE DEF upTo
  <1> DEFINE Good(k) == /\ upTo[k] \in U
                        /\ \A j \in 1..k : pkgs[t[j]].name \in NamesIn(upTo[k])
                        /\ Ordered(s) /\ Ordered(t) => Ordered(upTo[k])
             T == {k \in 0..n : Good(k)}
  <1>9. 0 \in T
    <2>1. upTo[0] = s
      BY <1>1, <1>8
    <2> QED
      BY <1>1, <1>2, <2>1
  <1>10. ASSUME NEW k \in 1..n, k - 1 \in T PROVE k \in T
    <2> DEFINE u == upTo[k - 1]
    <2> HIDE DEF U
    <2>1. k \in 0..n /\ k # 0
      BY <1>1
    <2>2. upTo[k] = AddNew(u, t[k])
      BY <1>8, <2>1
    <2>3. /\ u \in U /\ \A j \in 1..(k - 1) : pkgs[t[j]].name \in NamesIn(u)
          /\ Ordered(s) /\ Ordered(t) => Ordered(u)
      BY <1>10
    <2> HIDE DEF u
    <2>4. /\ upTo[k] \in U
          /\ Range(u) \subseteq Range(upTo[k])
          /\ pkgs[t[k]].name \in NamesIn(upTo[k])
      BY <1>3, <2>2, <2>3
    <2>5. NamesIn(u) \subseteq NamesIn(upTo[k])
      BY <2>4, NamesInRange
    <2>6. \A j \in 1..k : j = k \/ j \in 1..(k - 1)
      BY <1>1
    <2>7. \A j \in 1..k : pkgs[t[j]].name \in NamesIn(upTo[k])
      BY <2>3, <2>4, <2>5, <2>6
    <2>8. ASSUME Ordered(s), Ordered(t) PROVE Ordered(upTo[k])
      <3>1. CASE pkgs[t[k]].name \in NamesIn(u)
        BY <2>2, <2>3, <2>8, <3>1 DEF AddNew
      <3>2. CASE pkgs[t[k]].name \notin NamesIn(u)
        <4>1. upTo[k] = Append(u, t[k]) /\ u \in Seq(Ids) /\ t[k] \in Ids
          BY <1>1, <2>2, <2>3, <3>2 DEF AddNew, U
        <4>2. DOMAIN t = 1..n
          BY LenProperties DEF n
        <4>3. MayFollow(t[k], NamesBefore(t, k))
          BY <2>8, <4>2 DEF Ordered
        <4>4. NamesBefore(t, k) \subseteq NamesIn(u)
          BY <2>3 DEF NamesBefore
        <4>5. MayFollow(t[k], NamesIn(u))
          BY <4>3, <4>4, FollowsMore
        <4> QED
          BY <2>3, <2>8, <4>1, <4>5, OrderedAppend
      <3> QED
        BY <3>1, <3>2
    <2> QED
      BY <2>1, <2>4, <2>7, <2>8
  <1> HIDE DEF T
  <1>11. n \in T
    <2>1. 0..n \subseteq T
      BY <1>1, <1>9, <1>10, UpToInduction
    <2> QED
      BY <1>1, <2>1
  <1>12. Good(n)
    BY <1>11 DEF T
  <1>13. \A i \in Range(t) : \E j \in 1..n : i = t[j]
    BY RangeElements DEF n
  <1> QED
    BY <1>5, <1>12, <1>13

\* u is s, continued with what was not there.
Continues(u, s) ==
    /\ Len(s) <= Len(u)
    /\ \A k \in 1..Len(s) : u[k] = s[k]
    /\ \A k \in 1..Len(u) : k > Len(s) => u[k] \notin Range(s)

LEMMA ContinuesRange ==
    ASSUME NEW s \in Seq(Ids), NEW u \in Seq(Ids), Continues(u, s)
    PROVE  Range(s) \subseteq Range(u)
  <1>1. Len(s) \in Nat /\ Len(u) \in Nat
    BY LenProperties
  <1>2. \A k \in 1..Len(s) : k \in 1..Len(u) /\ u[k] = s[k]
    BY <1>1 DEF Continues
  <1>3. \A k \in 1..Len(u) : u[k] \in Range(u)
    BY RangeElements
  <1>4. \A y \in Range(s) : \E k \in 1..Len(s) : y = s[k]
    BY RangeElements
  <1> QED
    BY <1>2, <1>3, <1>4

\* AppendInstallIf loses nothing.
LEMMA AppendInstallIfProperties ==
    ASSUME NEW s \in Seq(Ids), NEW t \in Seq(Ids)
    PROVE  /\ AppendInstallIf(s, t) \in Seq(Ids)
           /\ Continues(AppendInstallIf(s, t), s)
           /\ Range(s) \subseteq Range(AppendInstallIf(s, t))
  <1> DEFINE n == Len(t)
             U == {u \in Seq(Ids) : Continues(u, s)}
             g == [z \in (1..n) \X U |-> AddInstallIf(z[2], t[z[1]])]
             Rec(f) == f = [k \in 0..n |-> IF k = 0 THEN s
                                           ELSE AddInstallIf(f[k - 1], t[k])]
             upTo == CHOOSE f : Rec(f)
  <1>1. n \in Nat /\ \A k \in 1..n : t[k] \in Ids
    BY LenProperties
  <1>2. s \in U
    <2>1. Len(s) \in Nat
      BY LenProperties
    <2> QED
      BY <2>1 DEF Continues
  <1>3. ASSUME NEW k \in 1..n, NEW u \in U
        PROVE  AddInstallIf(u, t[k]) \in U
    <2>1. u \in Seq(Ids) /\ Continues(u, s) /\ t[k] \in Ids
      BY <1>1
    <2>2. CASE AddInstallIf(u, t[k]) = u
      BY <2>2
    <2>3. CASE AddInstallIf(u, t[k]) # u
      <3> DEFINE new == Append(u, t[k])
      <3>1. AddInstallIf(u, t[k]) = new /\ pkgs[t[k]].name \notin NamesIn(u)
        BY <2>3 DEF AddInstallIf, AddNew
      <3>2. t[k] \notin Range(s)
        BY <2>1, <3>1, NamesInRange, ContinuesRange
      <3>3. /\ Len(s) \in Nat /\ Len(u) \in Nat
            /\ new \in Seq(Ids) /\ Len(new) = Len(u) + 1 /\ new[Len(u) + 1] = t[k]
            /\ \A j \in 1..Len(u) : new[j] = u[j]
        BY <2>1, LenProperties
      <3> HIDE DEF new
      <3>4. \A j \in 1..Len(s) : j \in 1..Len(u) /\ new[j] = s[j]
        BY <2>1, <3>3 DEF Continues
      <3>5. \A j \in 1..Len(new) : j = Len(u) + 1 \/ j \in 1..Len(u)
        BY <3>3
      <3>6. \A j \in 1..Len(new) : j > Len(s) => new[j] \notin Range(s)
        BY <2>1, <3>2, <3>3, <3>5 DEF Continues
      <3>7. Len(s) <= Len(new)
        BY <2>1, <3>3 DEF Continues
      <3> QED
        BY <3>1, <3>3, <3>4, <3>6, <3>7 DEF Continues
    <2> QED
      BY <2>2, <2>3
  <1>4. \A k \in 1..n, u \in U : g[<<k, u>>] = AddInstallIf(u, t[k])
    OBVIOUS
  <1>5. AppendInstallIf(s, t) = upTo[n]
    BY DEF AppendInstallIf
  <1> HIDE DEF n, g, U
  <1>6. PICK f \in [0..n -> U] : /\ f[0] = s
                                 /\ \A k \in 1..n : f[k] = g[<<k, f[k - 1]>>]
    <2>1. IsStep(g, n, U)
      BY <1>3, <1>4 DEF IsStep
    <2>2. \E f : IsRecursion(f, g, s, n, U)
      BY <1>1, <1>2, <2>1, RecursionExists
    <2> QED
      BY <2>2 DEF IsRecursion
  <1>7. Rec(f)
    <2>1. ASSUME NEW k \in 0..n, k # 0 PROVE f[k] = AddInstallIf(f[k - 1], t[k])
      <3>1. k \in 1..n /\ k - 1 \in 0..n
        BY <1>1, <2>1
      <3> QED
        BY <1>4, <1>6, <3>1
    <2> QED
      BY <1>6, <2>1
  <1>8. Rec(upTo)
    BY <1>7
  <1> HIDE DEF upTo
  <1> DEFINE T == {k \in 0..n : upTo[k] \in U}
  <1>9. 0 \in T
    <2>1. upTo[0] = s
      BY <1>1, <1>8
    <2> QED
      BY <1>1, <1>2, <2>1
  <1>10. ASSUME NEW k \in 1..n, k - 1 \in T PROVE k \in T
    <2>1. k \in 0..n /\ k # 0
      BY <1>1
    <2>2. upTo[k] = AddInstallIf(upTo[k - 1], t[k])
      BY <1>8, <2>1
    <2> QED
      BY <1>3, <1>10, <2>1, <2>2
  <1> HIDE DEF T
  <1>11. n \in T
    <2>1. 0..n \subseteq T
      BY <1>1, <1>9, <1>10, UpToInduction
    <2> QED
      BY <1>1, <2>1
  <1>12. AppendInstallIf(s, t) \in Seq(Ids) /\ Continues(AppendInstallIf(s, t), s)
    BY <1>5, <1>11 DEF T, U
  <1> QED
    BY <1>12, ContinuesRange

-----------------------------------------------------------------------------
(* What the steps leave alone. *)

LEMMA SameGiven ==
    ASSUME UNCHANGED given
    PROVE  /\ Given' <=> Given
           /\ Calls' = Calls
           /\ WorldDisqualified' = WorldDisqualified
           /\ \A i, c : Honours(i, c)' <=> Honours(i, c)
  <1>1. /\ pkgs' = pkgs /\ world' = world /\ installed' = installed /\ Ids' = Ids
        /\ \A n : nameMap(n)' = nameMap(n)
    BY SameLookups DEF given
  <1>2. Given' <=> Given
    BY <1>1 DEF Given
  <1>3. Calls' = Calls
    BY <1>1 DEF Calls
  <1>4. \A c : DisqualifiedBy(c)' = DisqualifiedBy(c)
    BY <1>1 DEF DisqualifiedBy, Passes
  <1>5. WorldDisqualified' = WorldDisqualified
    BY <1>1, <1>4 DEF WorldDisqualified, constrain
  <1>6. \A i, c : Honours(i, c)' <=> Honours(i, c)
    BY <1>1 DEF Honours, getDepVersionForName
  <1> QED
    BY <1>2, <1>3, <1>5, <1>6

\* A constraint that is honoured stays honoured while the result grows.
LEMMA StaysHonoured ==
    ASSUME UNCHANGED given, Range(toInstall) \subseteq Range(toInstall)',
           optional \subseteq optional', NEW c, IsHonoured(c)
    PROVE  IsHonoured(c)'
  <1>1. /\ pkgs' = pkgs
        /\ \A n : nameMap(n)' = nameMap(n)
        /\ \A s : NamesIn(s)' = NamesIn(s)
        /\ \A i : Honours(i, c)' <=> Honours(i, c)
    BY SameLookups, SameGiven DEF given
  <1>2. PICK i \in Range(toInstall) :
           \/ Honours(i, c)
           \/ /\ pkgs[i].name \in NamesIn(nameMap(c.name))
              /\ i \in optional \/ i \notin Range(nameMap(c.name))
    BY DEF IsHonoured
  <1>3. i \in Range(toInstall)'
    BY <1>2
  <1>4. CASE Honours(i, c)
    BY <1>1, <1>3, <1>4 DEF IsHonoured
  <1>5. CASE ~Honours(i, c)
    <2>1. pkgs[i].name \in NamesIn(nameMap(c.name))
      BY <1>2, <1>5
    <2>2. i \in optional \/ i \notin Range(nameMap(c.name))
      BY <1>2, <1>5
    <2>3. (NamesIn(nameMap(c.name)))' = NamesIn(nameMap(c.name))
      BY <1>1
    <2>4. pkgs'[i].name \in (NamesIn(nameMap(c.name)))'
      BY <1>1, <2>1, <2>3
    <2>5. i \in optional' \/ i \notin Range(nameMap(c.name))'
      BY <1>1, <2>2
    <2> QED
      BY <1>3, <2>4, <2>5 DEF IsHonoured
  <1> QED
    BY <1>4, <1>5

\* What the world does not disqualify honours the constraints for whose names
\* it stands.
LEMMA NotDisqualifiedHonours ==
    ASSUME Given, NEW c \in Range(world), ~c.not, NEW i \in Range(nameMap(c.name)),
           i \notin WorldDisqualified
    PROVE  Honours(i, c)
  <1>1. i \notin DisqualifiedBy(c)
    BY DEF WorldDisqualified, constrain
  <1>2. CASE Dep(c) = "any"
    BY <1>2 DEF Honours
  <1>3. CASE Dep(c) # "any"
    <2> DEFINE text == IF pkgs[i].name = c.name THEN pkgs[i].version
                       ELSE pkgs[i].provides[c.name]
    <2>1. Meets(text, c)
      BY <1>1, <1>3 DEF DisqualifiedBy
    <2>2. pkgs[i].name = c.name \/ c.name \in DOMAIN pkgs[i].provides
      BY nameMapProperties
    <2>3. ~Invalid(text)
      BY <2>1 DEF Meets
    <2>4. Invalid(NoText)
      BY DEF Invalid, NoText
    <2>5. getDepVersionForName(i, c.name) = text
      BY <2>2, <2>3, <2>4 DEF getDepVersionForName
    <2> HIDE DEF text
    <2> QED
      BY <2>1, <2>5 DEF Honours
  <1> QED
    BY <1>2, <1>3

\* A step that changes nothing but the phase.
LEMMA OnlyPhase ==
    ASSUME ChoiceInv,
           UNCHANGED <<given, left, dq, depMap, pos, stack, existing, origins,
                       added, visit, toInstall, conflicts, optional>>,
           phase' \in {"constrain", "world", "deps", "installIf", "done", "install",
                       "failed"},
           phase = "constrain" => phase' = "constrain",
           PhaseInv', DoneInv'
    PROVE  ChoiceInv'
  <1> USE DEF ChoiceInv
  <1>1. UNCHANGED given
    OBVIOUS
  <1>2. /\ pkgs' = pkgs /\ world' = world /\ installed' = installed /\ Ids' = Ids
        /\ \A n : nameMap(n)' = nameMap(n)
        /\ \A i : Needs(i)' = Needs(i)
        /\ \A s : NamesIn(s)' = NamesIn(s)
        /\ Calls' = Calls /\ WorldDisqualified' = WorldDisqualified
    BY <1>1, SameLookups, SameGiven DEF given
  <1>3. TypeOK'
    BY <1>2 DEF TypeOK
  <1>4. CallsInv'
    BY <1>2 DEF CallsInv
  <1>5. PickedInv'
    BY <1>2 DEF PickedInv
  <1>6. HonouredInv'
    <2>1. \A c : IsHonoured(c) => IsHonoured(c)'
      BY <1>1, StaysHonoured
    <2> QED
      BY <1>2, <2>1 DEF HonouredInv
  <1> QED
    BY <1>3, <1>4, <1>5, <1>6

-----------------------------------------------------------------------------
(* Every step keeps the invariant. *)

LEMMA MoreDisqualified ==
    ASSUME Given, NEW D, D \subseteq Ids
    PROVE  /\ \A cs : D \subseteq constrain(cs, D) /\ constrain(cs, D) \subseteq Ids
           /\ \A i : D \subseteq disqualifyConflicts(i, D) /\ disqualifyConflicts(i, D) \subseteq Ids
  <1>1. \A n : Range(nameMap(n)) \subseteq Ids
    BY nameMapProperties
  <1>2. \A c : DisqualifiedBy(c) \subseteq Ids
    BY <1>1 DEF DisqualifiedBy
  <1>3. \A cs : D \subseteq constrain(cs, D) /\ constrain(cs, D) \subseteq Ids
    BY <1>2 DEF constrain
  <1>4. \A i : D \subseteq disqualifyConflicts(i, D) /\ disqualifyConflicts(i, D) \subseteq Ids
    BY DEF disqualifyConflicts
  <1> QED
    BY <1>3, <1>4

LEMMA InitInv == Init => ChoiceInv
  <1> SUFFICES ASSUME Init PROVE ChoiceInv
    OBVIOUS
  <1>1. PICK u \in Universes :
           /\ pkgs = u.pkgs /\ world = u.world /\ installed = u.installed
           /\ left = u.world
    BY DEF Init
  <1>2. Given
    BY <1>1, UniversesAssumption DEF Given
  <1>3. /\ phase = "constrain" /\ dq = {} /\ depMap = NoneExisting /\ pos = 1
        /\ stack = <<>> /\ existing = NoneExisting /\ added = <<>> /\ visit = {}
        /\ toInstall = <<>> /\ optional = {}
    BY DEF Init
  <1>4. world \in Seq(Range(world)) /\ Len(world) \in Nat
    BY <1>2, PackagesAreNumbered, LenProperties
  <1>5. TypeOK
    <2>1. NoneExisting \in [Names -> Ids \cup {None}]
      BY DEF NoneExisting
    <2>2. stack \in Seq(Calls) /\ added \in Seq(Ids) /\ toInstall \in Seq(Ids)
      BY <1>3
    <2>3. \A f \in DOMAIN stack : stack[f].todo \subseteq Needs(stack[f].pkg)
      BY <1>3
    <2>4. pos \in 1..(Len(world) + 1)
      BY <1>3, <1>4
    <2> QED
      BY <1>1, <1>2, <1>3, <1>4, <2>1, <2>2, <2>3, <2>4 DEF TypeOK, Given
  <1>6. PhaseInv /\ DoneInv
    BY <1>3 DEF PhaseInv, DoneInv
  <1>7. CallsInv
    BY <1>3 DEF CallsInv
  <1>8. PickedInv
    <2>1. Range(added) = {} /\ Range(toInstall) = {}
      BY <1>3 DEF Range
    <2> QED
      BY <1>3, <2>1 DEF PickedInv
  <1>9. HonouredInv
    BY <1>3 DEF HonouredInv
  <1> QED
    BY <1>5, <1>6, <1>7, <1>8, <1>9 DEF ChoiceInv

\* A step on the way to the choice for the world, before there is a call.
LEMMA BeforeDeps ==
    ASSUME ChoiceInv,
           UNCHANGED <<given, pos, stack, existing, origins,
                       added, visit, toInstall, conflicts, optional>>,
           phase' \in {"world", "failed"}, pos = 1, stack = <<>>,
           left' \in Seq(Range(world)),
           WorldDisqualified \subseteq dq', dq' \subseteq Ids,
           depMap' \in [Names -> Ids \cup {None}]
    PROVE  ChoiceInv'
  <1>1. UNCHANGED given
    OBVIOUS
  <1>2. /\ pkgs' = pkgs /\ world' = world /\ installed' = installed /\ Ids' = Ids
        /\ \A n : nameMap(n)' = nameMap(n)
        /\ \A i : Needs(i)' = Needs(i)
        /\ \A s : NamesIn(s)' = NamesIn(s)
        /\ Calls' = Calls /\ WorldDisqualified' = WorldDisqualified
    BY <1>1, SameLookups, SameGiven DEF given
  <1>3. TypeOK'
    BY <1>2 DEF TypeOK, ChoiceInv
  <1>4. PhaseInv' /\ DoneInv'
    BY <1>2 DEF PhaseInv, DoneInv
  <1>5. CallsInv'
    BY <1>2 DEF CallsInv
  <1>6. PickedInv'
    BY <1>2 DEF PickedInv, ChoiceInv
  <1>7. HonouredInv'
    BY <1>2 DEF HonouredInv
  <1> QED
    BY <1>3, <1>4, <1>5, <1>6, <1>7 DEF ChoiceInv

LEMMA ConstrainKeepsInv ==
    ASSUME ChoiceInv, Constrain PROVE ChoiceInv'
  <1>1. Given /\ dq \subseteq Ids /\ pos = 1 /\ stack = <<>>
    BY DEF ChoiceInv, TypeOK, Given, PhaseInv, Constrain
  <1>2. WorldDisqualified \subseteq dq'
    BY DEF WorldDisqualified, constrain, Constrain
  <1>3. dq' \subseteq Ids
    BY <1>1, MoreDisqualified DEF Constrain
  <1>4. left \in Seq(Range(world)) /\ depMap \in [Names -> Ids \cup {None}]
    BY DEF ChoiceInv, TypeOK
  <1> QED
    BY <1>1, <1>2, <1>3, <1>4, BeforeDeps DEF Constrain

LEMMA ChooseForWorldKeepsInv ==
    ASSUME ChoiceInv, ChooseForWorld PROVE ChoiceInv'
  <1> DEFINE next == nextPackage
             s == Options(next, dq)
             pkg == bestPackage(s, next.name, NoneExisting, {}, next.pin)
  <1>1. Given /\ dq \subseteq Ids /\ pos = 1 /\ stack = <<>> /\ WorldDisqualified \subseteq dq
    BY DEF ChoiceInv, TypeOK, Given, PhaseInv, PickedInv, ChooseForWorld
  <1>2. left \in Seq(Range(world)) /\ left # <<>> /\ depMap \in [Names -> Ids \cup {None}]
    BY DEF ChoiceInv, TypeOK, ChooseForWorld
  <1>3. /\ depMap' = [depMap EXCEPT ![pkgs[pkg].name] = pkg]
        /\ left' = Select(left, Range(left) \ {next})
        /\ dq' = disqualifyConflicts(pkg, dq)
    BY DEF ChooseForWorld
  <1>4. next \in Range(left) /\ s \in Seq(Ids) /\ s # <<>>
    <2>1. next \in Range(left)
      BY <1>1, <1>2, nextPackageIsLeft
    <2>2. PICK k \in DOMAIN left : next = left[k]
      BY <2>1 DEF Range
    <2>3. s # <<>>
      BY <2>2 DEF ChooseForWorld
    <2> QED
      BY <1>1, <2>1, <2>3, OptionsProperties
  <1> HIDE DEF next, s
  <1>5. pkg \in Ids
    BY <1>4, bestPackageIsCandidate, RangeElements
  <1> HIDE DEF pkg
  <1>6. left' \in Seq(Range(world))
    BY <1>2, <1>3, SelectProperties
  <1>7. WorldDisqualified \subseteq dq' /\ dq' \subseteq Ids
    BY <1>1, <1>3, MoreDisqualified
  <1>8. depMap' \in [Names -> Ids \cup {None}]
    BY <1>2, <1>3, <1>5
  <1>9. /\ UNCHANGED <<given, pos, stack, existing, origins, added, visit, toInstall,
                       conflicts, optional>>
        /\ phase' = "world"
    BY DEF ChooseForWorld
  <1> QED
    BY <1>1, <1>6, <1>7, <1>8, <1>9, BeforeDeps

LEMMA PhaseOnlyStepsKeepInv ==
    ASSUME ChoiceInv,
           \/ WorldUnsolvable \/ WorldChosen \/ Unresolvable \/ NoOption
           \/ FixateWorld \/ UNCHANGED vars
    PROVE  ChoiceInv'
  <1>1. /\ UNCHANGED <<given, left, dq, depMap, pos, stack, existing, origins,
                       added, visit, toInstall, conflicts, optional>>
    BY DEF WorldUnsolvable, WorldChosen, Unresolvable, NoOption, FixateWorld, vars
  <1>2. /\ world' = world /\ pos' = pos /\ stack' = stack
        /\ PhaseInv /\ DoneInv /\ Given /\ TypeOK
    BY <1>1 DEF ChoiceInv, given, TypeOK, Given
  <1>3. world \in Seq(Range(world)) /\ Len(world) \in Nat /\ (world = <<>> <=> Len(world) = 0)
    BY <1>2, PackagesAreNumbered, LenProperties, EmptySeq
  <1>4. /\ phase' \in {"constrain", "world", "deps", "installIf", "done", "install",
                       "failed"}
        /\ phase = "constrain" => phase' = "constrain"
    BY <1>2 DEF WorldUnsolvable, WorldChosen, Unresolvable, NoOption, FixateWorld, vars,
       TypeOK
  <1>5. PhaseInv' /\ DoneInv'
    <2>1. CASE WorldChosen
      <3>1. phase = "world" /\ phase' = IF world = <<>> THEN "done" ELSE "deps"
        BY <2>1 DEF WorldChosen
      <3>2. pos = 1 /\ stack = <<>>
        BY <1>2, <3>1 DEF PhaseInv
      <3> QED
        BY <1>2, <1>3, <3>1, <3>2 DEF PhaseInv, DoneInv
    <2>2. CASE UNCHANGED vars
      BY <1>2, <2>2 DEF PhaseInv, DoneInv, vars
    <2>3. CASE WorldUnsolvable \/ Unresolvable \/ NoOption \/ FixateWorld
      <3>1. phase' \in {"failed", "install"}
        BY <2>3 DEF WorldUnsolvable, Unresolvable, NoOption, FixateWorld
      <3> QED
        BY <3>1 DEF PhaseInv, DoneInv
    <2> QED
      BY <2>1, <2>2, <2>3
  <1> QED
    BY <1>1, <1>4, <1>5, OnlyPhase

\* What the invariant says of a stack of calls.
GoodStack(st) ==
    /\ st \in Seq(Calls)
    /\ \A f \in 1..Len(st) : st[f].todo \subseteq Needs(st[f].pkg)
    /\ \A f, g \in 1..Len(st) : pkgs[st[f].pkg].name = pkgs[st[g].pkg].name => f = g
    /\ \A f \in 1..Len(st) : /\ st[f].pkg \notin WorldDisqualified
                             /\ Range(st[f].out) \cap WorldDisqualified = {}
    /\ Len(st) # 0 => /\ pos <= Len(world) /\ ~world[pos].not
                      /\ st[1].pkg \in Range(nameMap(world[pos].name))

LEMMA CallFields ==
    ASSUME NEW st \in Seq(Calls), NEW k \in 1..Len(st)
    PROVE  st[k] \in Calls /\ st[k].pkg \in Ids /\ st[k].out \in Seq(Ids)
  <1>1. st[k] \in Calls
    OBVIOUS
  <1> QED
    BY <1>1 DEF Calls

LEMMA InvStack ==
    ASSUME ChoiceInv
    PROVE  GoodStack(stack) /\ Len(stack) \in Nat /\ (stack = <<>> <=> Len(stack) = 0)
  <1>1. stack \in Seq(Calls)
    BY DEF ChoiceInv, TypeOK
  <1>2. Len(stack) \in Nat /\ DOMAIN stack = 1..Len(stack) /\ (stack = <<>> <=> Len(stack) = 0)
    BY <1>1, LenProperties, EmptySeq
  <1>3. \A f \in 1..Len(stack) : stack[f].todo \subseteq Needs(stack[f].pkg)
    BY <1>2 DEF ChoiceInv, TypeOK
  <1>4. /\ \A f, g \in 1..Len(stack) :
              pkgs[stack[f].pkg].name = pkgs[stack[g].pkg].name => f = g
        /\ Len(stack) # 0 => /\ pos <= Len(world) /\ ~world[pos].not
                             /\ stack[1].pkg \in Range(nameMap(world[pos].name))
    BY <1>2 DEF ChoiceInv, CallsInv
  <1>5. \A f \in 1..Len(stack) : /\ stack[f].pkg \notin WorldDisqualified
                                 /\ Range(stack[f].out) \cap WorldDisqualified = {}
    BY <1>2 DEF ChoiceInv, PickedInv
  <1> QED
    BY <1>1, <1>2, <1>3, <1>4, <1>5 DEF GoodStack

\* A stack with the same calls, or without the last ones.
LEMMA SameCalls ==
    ASSUME NEW st, GoodStack(st), NEW st2 \in Seq(Calls), Len(st2) <= Len(st),
           \A f \in 1..Len(st2) : /\ st2[f].pkg = st[f].pkg
                                  /\ st2[f].todo \subseteq st[f].todo
                                  /\ Range(st2[f].out) \cap WorldDisqualified = {}
    PROVE  GoodStack(st2)
  <1>1. Len(st) \in Nat /\ Len(st2) \in Nat
    BY LenProperties DEF GoodStack
  <1>2. \A f \in 1..Len(st2) : f \in 1..Len(st)
    BY <1>1
  <1>3. Len(st2) # 0 => Len(st) # 0 /\ 1 \in 1..Len(st2)
    BY <1>1
  <1>4. \A f \in 1..Len(st2) : st2[f].todo \subseteq Needs(st2[f].pkg)
    BY <1>2 DEF GoodStack
  <1>5. \A f, g \in 1..Len(st2) : pkgs[st2[f].pkg].name = pkgs[st2[g].pkg].name => f = g
    BY <1>2 DEF GoodStack
  <1>6. \A f \in 1..Len(st2) : st2[f].pkg \notin WorldDisqualified
    BY <1>2 DEF GoodStack
  <1>7. Len(st2) # 0 => /\ pos <= Len(world) /\ ~world[pos].not
                        /\ st2[1].pkg \in Range(nameMap(world[pos].name))
    BY <1>3 DEF GoodStack
  <1> QED
    BY <1>4, <1>5, <1>6, <1>7 DEF GoodStack

\* A new call.
LEMMA NewCall ==
    ASSUME Given, NEW st, GoodStack(st), NEW i \in Ids, i \notin WorldDisqualified,
           \A f \in 1..Len(st) : pkgs[st[f].pkg].name # pkgs[i].name,
           Len(st) = 0 => /\ pos <= Len(world) /\ ~world[pos].not
                          /\ i \in Range(nameMap(world[pos].name))
    PROVE  GoodStack(Append(st, Frame(i)))
  <1> DEFINE new == Append(st, Frame(i))
             m == Len(st) + 1
  <1>1. /\ Frame(i).pkg = i /\ Frame(i).todo = Needs(i) /\ Frame(i).out = <<>>
        /\ Needs(i) \subseteq pkgs[i].deps
    BY DEF Frame, Needs
  <1>2. Frame(i) \in Calls
    BY <1>1 DEF Calls, Frame
  <1>3. st \in Seq(Calls) /\ Len(st) \in Nat
    BY LenProperties DEF GoodStack
  <1>4. new \in Seq(Calls) /\ Len(new) = m /\ new[m] = Frame(i)
    BY <1>2, <1>3
  <1>5. \A f \in 1..Len(st) : new[f] = st[f]
    BY <1>2, <1>3
  <1>6. \A f \in 1..m : f = m \/ f \in 1..Len(st)
    BY <1>3
  <1> HIDE DEF new
  <1>7. \A f \in 1..m : new[f].todo \subseteq Needs(new[f].pkg)
    BY <1>1, <1>4, <1>5, <1>6 DEF GoodStack
  <1>8. \A f, g \in 1..m : pkgs[new[f].pkg].name = pkgs[new[g].pkg].name => f = g
    BY <1>1, <1>4, <1>5, <1>6 DEF GoodStack
  <1>9. ASSUME NEW f \in 1..m
        PROVE /\ new[f].pkg \notin WorldDisqualified
              /\ Range(new[f].out) \cap WorldDisqualified = {}
    <2>1. CASE f = m
      BY <1>1, <1>4, <2>1 DEF Range
    <2>2. CASE f # m
      BY <1>5, <1>6, <2>2 DEF GoodStack
    <2> QED
      BY <2>1, <2>2
  <1>10. /\ pos <= Len(world) /\ ~world[pos].not
         /\ new[1].pkg \in Range(nameMap(world[pos].name))
    <2>1. CASE Len(st) = 0
      BY <1>1, <1>4, <2>1
    <2>2. CASE Len(st) # 0
      BY <1>3, <1>5, <2>2 DEF GoodStack
    <2> QED
      BY <2>1, <2>2
  <1> QED
    BY <1>4, <1>7, <1>8, <1>9, <1>10 DEF GoodStack, new

\* A step of getPackageDependencies that leaves a stack of this kind.
LEMMA DepsStep ==
    ASSUME ChoiceInv,
           UNCHANGED <<given, left, depMap, pos, added, visit, toInstall, optional>>,
           phase = "deps", phase' \in {"deps", "failed"},
           dq \subseteq dq', dq' \subseteq Ids,
           existing' \in [Names -> Ids \cup {None}],
           GoodStack(stack')
    PROVE  ChoiceInv'
  <1>1. UNCHANGED given
    OBVIOUS
  <1>2. /\ pkgs' = pkgs /\ world' = world /\ installed' = installed /\ Ids' = Ids
        /\ \A n : nameMap(n)' = nameMap(n)
        /\ \A i : Needs(i)' = Needs(i)
        /\ \A s : NamesIn(s)' = NamesIn(s)
        /\ Calls' = Calls /\ WorldDisqualified' = WorldDisqualified
    BY <1>1, SameLookups, SameGiven DEF given
  <1>3. /\ stack' \in Seq(Calls) /\ DOMAIN stack' = 1..Len(stack')
        /\ (stack' = <<>> <=> Len(stack') = 0)
    BY LenProperties, EmptySeq DEF GoodStack
  <1>4. TypeOK'
    <2>1. \A f \in DOMAIN stack' : stack'[f].todo \subseteq Needs(stack'[f].pkg)
      BY <1>3 DEF GoodStack
    <2> QED
      BY <1>2, <1>3, <2>1 DEF TypeOK, ChoiceInv
  <1>5. PhaseInv' /\ DoneInv'
    BY <1>2 DEF PhaseInv, DoneInv, ChoiceInv
  <1>6. CallsInv'
    BY <1>2, <1>3 DEF CallsInv, GoodStack
  <1>7. PickedInv'
    <2>1. \A f \in DOMAIN stack' :
             ({stack'[f].pkg} \cup Range(stack'[f].out)) \cap WorldDisqualified = {}
      BY <1>3 DEF GoodStack
    <2> QED
      BY <1>2, <2>1 DEF PickedInv, ChoiceInv
  <1>8. HonouredInv'
    <2>1. \A c : IsHonoured(c) => IsHonoured(c)'
      BY <1>1, StaysHonoured
    <2> QED
      BY <1>2, <2>1 DEF HonouredInv, ChoiceInv
  <1> QED
    BY <1>4, <1>5, <1>6, <1>7, <1>8 DEF ChoiceInv

\* A call for i on top of st.
LEMMA CallStep ==
    ASSUME ChoiceInv,
           UNCHANGED <<given, left, depMap, pos, added, visit, toInstall, optional>>,
           phase = "deps", existing' \in [Names -> Ids \cup {None}],
           NEW i \in Ids, NEW st, GoodStack(Append(st, Frame(i))),
           NEW D, dq \subseteq D, D \subseteq Ids, Call(i, st, D)
    PROVE  ChoiceInv'
  <1>1. Given
    BY DEF ChoiceInv, TypeOK, Given
  <1>2. dq \subseteq dq' /\ dq' \subseteq Ids /\ phase' \in {"deps", "failed"}
    BY <1>1, MoreDisqualified DEF Call
  <1>3. GoodStack(<<>>)
    BY DEF GoodStack
  <1>4. GoodStack(stack')
    BY <1>3 DEF Call
  <1> QED
    BY <1>2, <1>4, DepsStep

LEMMA StartPackageKeepsInv ==
    ASSUME ChoiceInv, StartPackage PROVE ChoiceInv'
  <1> DEFINE c == world[pos]
             s == Options(c, dq)
             pkg == bestPackage(s, c.name, NoneExisting, {}, c.pin)
  <1>1. /\ Given /\ dq \subseteq Ids /\ WorldDisqualified \subseteq dq
        /\ depMap \in [Names -> Ids \cup {None}]
    BY DEF ChoiceInv, TypeOK, Given, PickedInv, StartPackage
  <1>2. /\ phase = "deps" /\ pos <= Len(world) /\ s # <<>>
        /\ Call(pkg, <<>>, dq) /\ existing' = depMap
        /\ UNCHANGED <<given, left, depMap, pos, added, visit, toInstall, optional>>
    BY DEF StartPackage
  <1>3. s \in Seq(Ids) /\ Range(s) \subseteq Range(nameMap(c.name)) \ dq /\ ~c.not
    BY <1>1, <1>2, OptionsProperties
  <1> HIDE DEF s
  <1>4. pkg \in Range(s)
    BY <1>2, <1>3, bestPackageIsCandidate
  <1> HIDE DEF pkg
  <1>5. pkg \in Ids /\ pkg \notin WorldDisqualified /\ pkg \in Range(nameMap(c.name))
    BY <1>1, <1>3, <1>4, RangeElements
  <1>6. GoodStack(Append(<<>>, Frame(pkg)))
    <2> DEFINE none == <<>>
    <2>1. GoodStack(none) /\ Len(none) = 0 /\ 1..Len(none) = {}
      BY DEF GoodStack
    <2> HIDE DEF none
    <2>2. GoodStack(Append(none, Frame(pkg)))
      BY <1>1, <1>2, <1>3, <1>5, <2>1, NewCall
    <2> QED
      BY <2>2 DEF none
  <1> QED
    BY <1>1, <1>2, <1>5, <1>6, CallStep

\* The dependency a round of the loop takes is an open one.
LEMMA LowestIsOpen ==
    ASSUME ChoiceInv, stack # <<>>, stack[Len(stack)].todo # {}
    PROVE  Lowest(stack[Len(stack)].todo) \in stack[Len(stack)].todo
  <1> DEFINE top == stack[Len(stack)]
  <1>1. Given /\ GoodStack(stack) /\ stack \in Seq(Calls) /\ Len(stack) \in 1..Len(stack)
    BY InvStack DEF ChoiceInv, TypeOK, Given, GoodStack
  <1>2. top.todo \subseteq Needs(top.pkg) /\ top.pkg \in Ids
    BY <1>1, CallFields DEF GoodStack
  <1>3. IsPackage(pkgs[top.pkg])
    BY <1>1, <1>2, PackagesAreNumbered
  <1>4. \A d \in top.todo : Text(d) \in Nat
    BY <1>2, <1>3 DEF IsPackage, Needs
  <1> QED
    BY <1>1, <1>4, LowestIsMember

LEMMA DescendKeepsInv ==
    ASSUME ChoiceInv, Descend PROVE ChoiceInv'
  <1> DEFINE m == Len(stack)
             top == stack[m]
             c == Lowest(top.todo)
             dep == bestPackage(DepOptions(c), c.name, existing, origins, NoPin)
             D == disqualifyConflicts(dep, dq)
             rest == [stack EXCEPT ![m].todo = @ \ {c}]
             more == [rest EXCEPT ![m].out = Append(@, dep)]
  <1>1. /\ Given /\ dq \subseteq Ids /\ WorldDisqualified \subseteq dq
        /\ existing \in [Names -> Ids \cup {None}]
    BY DEF ChoiceInv, TypeOK, Given, PickedInv, Descend
  <1>2. GoodStack(stack) /\ stack \in Seq(Calls) /\ m \in Nat /\ m \in 1..m /\ m # 0
    BY InvStack DEF Descend, GoodStack
  <1>3. Last(stack) = top
    BY DEF Last
  <1>4. /\ phase = "deps" /\ top.todo # {} /\ DepOptions(c) # <<>>
        /\ UNCHANGED <<given, left, depMap, pos, existing, added, visit, toInstall,
                       optional>>
        /\ IF IsParent(dep) THEN dq' = D /\ stack' = more /\ phase' = phase
           ELSE Call(dep, rest, D)
    <2>1. phase = "deps" /\ top.todo # {}
      BY <1>3 DEF Descend
    <2>2. /\ UNCHANGED <<given, left, depMap, pos, existing, added, visit, toInstall,
                         optional>>
          /\ IF IsParent(dep) THEN dq' = D /\ stack' = more /\ phase' = phase
             ELSE Call(dep, rest, D)
      BY <1>3 DEF Descend
    <2>3. c \in top.todo
      BY <2>1, LowestIsOpen DEF Descend
    <2>4. DepOptions(c) # <<>>
      BY <1>3, <2>3 DEF Descend
    <2> QED
      BY <2>1, <2>2, <2>4
  <1>5. DepOptions(c) \in Seq(Ids) /\ Range(DepOptions(c)) \subseteq Ids \ dq
    <2>1. /\ DepOptions(c) \in Seq(Ids)
          /\ Range(DepOptions(c)) \subseteq Range(nameMap(c.name)) \ dq
      BY <1>1, DepOptionsProperties
    <2> QED
      BY <2>1, RangeElements
  <1> HIDE DEF c
  <1>6. dep \in Ids /\ dep \notin WorldDisqualified
    BY <1>1, <1>4, <1>5, bestPackageIsCandidate
  <1> HIDE DEF dep
  <1>7. dq \subseteq D /\ D \subseteq Ids
    BY <1>1, MoreDisqualified
  <1> HIDE DEF D
  <1>8. top \in Calls /\ top.out \in Seq(Ids) /\ top.pkg \in Ids
    BY <1>2, CallFields
  <1>9. /\ rest \in Seq(Calls) /\ Len(rest) = m
        /\ \A f \in 1..m : /\ rest[f].pkg = stack[f].pkg
                           /\ rest[f].todo \subseteq stack[f].todo
                           /\ rest[f].out = stack[f].out
    <2>1. [top EXCEPT !.todo = @ \ {c}] \in Calls
      BY <1>8 DEF Calls
    <2>2. rest = [stack EXCEPT ![m] = [top EXCEPT !.todo = @ \ {c}]]
      OBVIOUS
    <2>3. rest \in Seq(Calls) /\ Len(rest) = m
      BY <1>2, <2>1, <2>2, ExceptSeq
    <2>4. \A f \in 1..m : rest[f] = IF f = m THEN [top EXCEPT !.todo = @ \ {c}] ELSE stack[f]
      BY <1>2, <2>2, ExceptSeq
    <2>5. /\ [top EXCEPT !.todo = @ \ {c}].pkg = top.pkg
          /\ [top EXCEPT !.todo = @ \ {c}].todo \subseteq top.todo
          /\ [top EXCEPT !.todo = @ \ {c}].out = top.out
      BY <1>8 DEF Calls
    <2> HIDE DEF rest
    <2> QED
      BY <2>3, <2>4, <2>5
  <1>10. GoodStack(rest)
    BY <1>2, <1>9, SameCalls DEF GoodStack
  <1>11. CASE IsParent(dep)
    <2>1. /\ more \in Seq(Calls) /\ Len(more) = m
          /\ \A f \in 1..m : /\ more[f].pkg = rest[f].pkg
                             /\ more[f].todo = rest[f].todo
                             /\ Range(more[f].out) \subseteq Range(rest[f].out) \cup {dep}
      <3> DEFINE last == [rest[m] EXCEPT !.out = Append(@, dep)]
      <3> HIDE DEF rest
      <3>1. rest[m] \in Calls /\ rest[m].out \in Seq(Ids)
        BY <1>2, <1>9, CallFields
      <3>2. /\ Append(rest[m].out, dep) \in Seq(Ids)
            /\ Range(Append(rest[m].out, dep)) = Range(rest[m].out) \cup {dep}
        BY <1>6, <3>1, AppendRange
      <3>3. /\ last \in Calls /\ last.pkg = rest[m].pkg /\ last.todo = rest[m].todo
            /\ last.out = Append(rest[m].out, dep)
        BY <3>1, <3>2 DEF Calls
      <3>4. more = [rest EXCEPT ![m] = last]
        OBVIOUS
      <3> HIDE DEF last, more
      <3>5. more \in Seq(Calls) /\ Len(more) = m
        BY <1>2, <1>9, <3>3, <3>4, ExceptSeq
      <3>6. \A f \in 1..m : more[f] = IF f = m THEN last ELSE rest[f]
        BY <1>2, <1>9, <3>3, <3>4, ExceptSeq
      <3> QED
        BY <3>2, <3>3, <3>5, <3>6
    <2> HIDE DEF rest, more
    <2>2. \A f \in 1..m : Range(more[f].out) \cap WorldDisqualified = {}
      BY <1>2, <1>6, <1>9, <2>1 DEF GoodStack
    <2>3. GoodStack(more)
      BY <1>9, <1>10, <2>1, <2>2, SameCalls
    <2> QED
      BY <1>1, <1>4, <1>7, <1>11, <2>3, DepsStep
  <1>12. CASE ~IsParent(dep)
    <2>1. \A f \in 1..m : pkgs[stack[f].pkg].name # pkgs[dep].name
      <3>1. DOMAIN stack = 1..m
        BY <1>2, LenProperties
      <3> QED
        BY <1>12, <3>1 DEF IsParent
    <2>2. \A f \in 1..Len(rest) : pkgs[rest[f].pkg].name # pkgs[dep].name
      BY <1>9, <2>1
    <2> HIDE DEF rest
    <2>3. GoodStack(Append(rest, Frame(dep)))
      BY <1>1, <1>2, <1>6, <1>9, <1>10, <2>2, NewCall
    <2> QED
      BY <1>1, <1>4, <1>6, <1>7, <1>12, <2>3, CallStep
  <1> QED
    BY <1>11, <1>12

LEMMA ReturnKeepsInv ==
    ASSUME ChoiceInv, Return PROVE ChoiceInv'
  <1> DEFINE m == Len(stack)
             f == stack[m]
             front == SubSeq(stack, 1, m - 1)
             latest(n) == {j \in DOMAIN f.out : pkgs[f.out[j]].name = n}
             below == front[m - 1]
             last == [below EXCEPT !.out = @ \o WithChildren(f)]
  <1>1. Given /\ dq \subseteq Ids /\ existing \in [Names -> Ids \cup {None}]
    BY DEF ChoiceInv, TypeOK, Given
  <1>2. /\ GoodStack(stack) /\ stack \in Seq(Calls)
        /\ m \in Nat /\ m > 1 /\ m \in 1..m /\ m - 1 \in 1..m
    <2>1. GoodStack(stack) /\ m \in Nat /\ m > 1
      BY InvStack DEF Return
    <2> QED
      BY <2>1 DEF GoodStack
  <1>3. Last(stack) = f /\ Front(stack) = front
    BY DEF Last, Front
  <1>4. /\ phase = "deps" /\ phase' = "deps" /\ dq' = dq
        /\ UNCHANGED <<given, left, depMap, pos, added, visit, toInstall, optional>>
        /\ stack' = [front EXCEPT ![m - 1].out = @ \o WithChildren(f)]
        /\ existing' = [n \in Names |-> IF latest(n) = {} THEN existing[n]
                                        ELSE f.out[Max(latest(n))]]
    BY <1>3 DEF Return
  <1>5. f \in Calls /\ f.out \in Seq(Ids) /\ f.pkg \in Ids
    BY <1>2, CallFields
  <1>6. existing' \in [Names -> Ids \cup {None}]
    <2>1. \A n : latest(n) # {} => f.out[Max(latest(n))] \in Ids
      <3> SUFFICES ASSUME NEW n, latest(n) # {} PROVE f.out[Max(latest(n))] \in Ids
        OBVIOUS
      <3>1. Len(f.out) \in Nat /\ DOMAIN f.out = 1..Len(f.out)
        BY <1>5, LenProperties
      <3>2. latest(n) \subseteq 1..Len(f.out)
        BY <3>1
      <3> HIDE DEF latest
      <3>3. Max(latest(n)) \in 1..Len(f.out)
        BY <3>1, <3>2, MaxIsMember
      <3> QED
        BY <1>5, <3>3
    <2> HIDE DEF latest
    <2> QED
      BY <1>1, <1>4, <2>1
  <1>7. front \in Seq(Calls) /\ Len(front) = m - 1 /\ \A k \in 1..(m - 1) : front[k] = stack[k]
    BY <1>2, SubSeqProperties
  <1>8. below = stack[m - 1] /\ below \in Calls /\ below.out \in Seq(Ids)
    BY <1>2, <1>7 DEF Calls
  <1> HIDE DEF front
  <1>9. /\ WithChildren(f) \in Seq(Ids)
        /\ Range(WithChildren(f)) = Range(f.out) \cup {f.pkg}
    <2>1. WithChildren(f) = Append(f.out, f.pkg)
      BY <1>5 DEF WithChildren
    <2> QED
      BY <1>5, <2>1, AppendRange
  <1>10. /\ below.out \o WithChildren(f) \in Seq(Ids)
         /\ Range(below.out \o WithChildren(f)) = Range(below.out) \cup Range(WithChildren(f))
    BY <1>8, <1>9, ConcatRange
  <1> HIDE DEF f
  <1>11. /\ last \in Calls /\ last.pkg = below.pkg /\ last.todo = below.todo
         /\ last.out = below.out \o WithChildren(f)
    BY <1>8, <1>10 DEF Calls
  <1>12. stack' = [front EXCEPT ![m - 1] = last]
    BY <1>4
  <1> HIDE DEF last, below
  <1>13. stack' \in Seq(Calls) /\ Len(stack') = m - 1
    BY <1>2, <1>7, <1>11, <1>12, ExceptSeq
  <1>14. \A k \in 1..(m - 1) : stack'[k] = IF k = m - 1 THEN last ELSE stack[k]
    BY <1>2, <1>7, <1>12, ExceptSeq
  <1>15. \A k \in 1..m : Range(stack[k].out) \cap WorldDisqualified = {}
    BY <1>2 DEF GoodStack
  <1>16. Range(last.out) \cap WorldDisqualified = {}
    <2>1. f.pkg \notin WorldDisqualified /\ Range(f.out) \cap WorldDisqualified = {}
      BY <1>2 DEF GoodStack, f
    <2> QED
      BY <1>2, <1>8, <1>9, <1>10, <1>11, <1>15, <2>1
  <1>17. ASSUME NEW k \in 1..Len(stack')
         PROVE  /\ stack'[k].pkg = stack[k].pkg
                /\ stack'[k].todo \subseteq stack[k].todo
                /\ Range(stack'[k].out) \cap WorldDisqualified = {}
    <2>1. k \in 1..(m - 1) /\ k \in 1..m
      BY <1>2, <1>13
    <2>2. CASE k = m - 1
      BY <1>8, <1>11, <1>14, <1>16, <2>1, <2>2
    <2>3. CASE k # m - 1
      BY <1>14, <1>15, <2>1, <2>3
    <2> QED
      BY <2>2, <2>3
  <1>18. GoodStack(stack')
    <2>1. Len(stack') <= m
      BY <1>2, <1>13
    <2> QED
      BY <1>2, <1>13, <1>17, <2>1, SameCalls
  <1> QED
    BY <1>1, <1>4, <1>6, <1>18, DepsStep

\* A step of the install_if loop, before it and after it: the call stays.
LEMMA AddedStep ==
    ASSUME ChoiceInv,
           UNCHANGED <<given, left, dq, depMap, pos, stack, existing, origins,
                       toInstall, conflicts>>,
           phase \in {"deps", "installIf"}, phase' = "installIf", Len(stack) = 1,
           added' \in Seq(Ids), visit' \subseteq NamesIn(added'),
           optional \subseteq optional', optional' \subseteq Ids,
           (Range(added') \ optional') \cap WorldDisqualified = {}
    PROVE  ChoiceInv'
  <1>1. UNCHANGED given
    OBVIOUS
  <1>2. /\ pkgs' = pkgs /\ world' = world /\ installed' = installed /\ Ids' = Ids
        /\ \A n : nameMap(n)' = nameMap(n)
        /\ \A i : Needs(i)' = Needs(i)
        /\ \A s : NamesIn(s)' = NamesIn(s)
        /\ Calls' = Calls /\ WorldDisqualified' = WorldDisqualified
    BY <1>1, SameLookups, SameGiven DEF given
  <1>3. TypeOK'
    BY <1>2 DEF TypeOK, ChoiceInv
  <1>4. PhaseInv' /\ DoneInv'
    BY <1>2 DEF PhaseInv, DoneInv, ChoiceInv
  <1>5. CallsInv'
    BY <1>2 DEF CallsInv, ChoiceInv
  <1>6. PickedInv'
    BY <1>2 DEF PickedInv, ChoiceInv
  <1>7. HonouredInv'
    <2>1. \A c : IsHonoured(c) => IsHonoured(c)'
      BY <1>1, StaysHonoured
    <2> QED
      BY <1>2, <2>1 DEF HonouredInv, ChoiceInv
  <1> QED
    BY <1>3, <1>4, <1>5, <1>6, <1>7 DEF ChoiceInv

LEMMA CollectedKeepsInv ==
    ASSUME ChoiceInv, Collected PROVE ChoiceInv'
  <1> DEFINE out == stack[1].out
  <1>1. /\ phase = "deps" /\ phase' = "installIf" /\ Len(stack) = 1
        /\ UNCHANGED <<given, left, dq, depMap, pos, stack, existing, origins,
                       toInstall, conflicts, optional>>
    BY DEF Collected
  <1>2. added' = AppendNew(<<>>, out) /\ visit' = NamesIn(added')
    <2>1. Last(stack) = stack[1]
      BY <1>1 DEF Last
    <2> QED
      BY <2>1 DEF Collected, Triggers
  <1>3. out \in Seq(Ids) /\ Range(out) \cap WorldDisqualified = {}
    <2>1. GoodStack(stack) /\ 1 \in 1..Len(stack)
      BY <1>1, InvStack
    <2>2. stack \in Seq(Calls) /\ Range(out) \cap WorldDisqualified = {}
      BY <2>1 DEF GoodStack
    <2> QED
      BY <2>1, <2>2, CallFields
  <1> DEFINE none == <<>>
  <1>4. none \in Seq(Ids) /\ Range(none) = {}
    BY DEF Range
  <1>5. added' = AppendNew(none, out)
    BY <1>2
  <1> HIDE DEF out, none
  <1>6. added' \in Seq(Ids) /\ Range(added') \subseteq Range(out)
    BY <1>3, <1>4, <1>5, AppendNewProperties
  <1>7. optional' = optional /\ optional \subseteq Ids
    BY <1>1 DEF ChoiceInv, TypeOK
  <1> QED
    BY <1>1, <1>2, <1>3, <1>6, <1>7, AddedStep

LEMMA VisitInstallIfKeepsInv ==
    ASSUME ChoiceInv, VisitInstallIf PROVE ChoiceInv'
  <1>1. /\ phase = "installIf" /\ phase' = "installIf" /\ Len(stack) = 1
        /\ UNCHANGED <<given, left, dq, depMap, pos, stack, existing, origins,
                       toInstall, conflicts>>
    BY DEF VisitInstallIf, ChoiceInv, PhaseInv
  <1>2. PICK i, n, more :
           LET new == AppendInstallIf(added, InstallIfList(i))
           IN  /\ added' = new
               /\ more \in SUBSET (NamesIn(new) \ NamesIn(added))
               /\ visit' = (visit \ {n}) \cup more
               /\ optional' = optional \cup (Range(new) \ Range(added))
    BY DEF VisitInstallIf
  <1> DEFINE new == AppendInstallIf(added, InstallIfList(i))
  <1>3. /\ added' = new /\ more \subseteq NamesIn(new)
        /\ visit' = (visit \ {n}) \cup more
        /\ optional' = optional \cup (Range(new) \ Range(added))
    BY <1>2
  <1>4. /\ Given /\ added \in Seq(Ids) /\ visit \subseteq NamesIn(added)
        /\ optional \subseteq Ids
        /\ (Range(added) \ optional) \cap WorldDisqualified = {}
    BY DEF ChoiceInv, TypeOK, Given, PickedInv
  <1>5. InstallIfList(i) \in Seq(Ids)
    <2>1. \A S : S \subseteq Ids => InOrder(S) \in Seq(Ids)
      BY <1>4, InOrderProperties
    <2> QED
      BY <2>1 DEF InstallIfList
  <1>6. new \in Seq(Ids) /\ Range(added) \subseteq Range(new)
    BY <1>4, <1>5, AppendInstallIfProperties
  <1> HIDE DEF new
  <1>7. NamesIn(added) \subseteq NamesIn(new) /\ Range(new) \subseteq Ids
    BY <1>6, NamesInRange, RangeElements
  <1>8. /\ added' \in Seq(Ids) /\ visit' \subseteq NamesIn(added')
        /\ optional \subseteq optional' /\ optional' \subseteq Ids
        /\ (Range(added') \ optional') \cap WorldDisqualified = {}
    BY <1>3, <1>4, <1>6, <1>7
  <1> QED
    BY <1>1, <1>8, AddedStep

LEMMA TakeKeepsInv ==
    ASSUME ChoiceInv, Take PROVE ChoiceInv'
  <1> DEFINE pkg == stack[1].pkg
             t == Append(added, pkg)
  <1>0. PICK c : c = world[pos]
    OBVIOUS
  <1>1. /\ Given /\ TypeOK /\ PhaseInv /\ CallsInv /\ PickedInv /\ HonouredInv
        /\ added \in Seq(Ids) /\ toInstall \in Seq(Ids)
        /\ depMap \in [Names -> Ids \cup {None}] /\ pos \in 1..(Len(world) + 1)
    BY DEF ChoiceInv, TypeOK, Given
  <1>2. /\ phase = "installIf"
        /\ UNCHANGED <<given, left, dq, existing, origins, added, visit, conflicts, optional>>
        /\ toInstall' = AppendNew(toInstall, t)
        /\ stack' = <<>> /\ pos' = pos + 1
        /\ phase' = IF pos = Len(world) THEN "done" ELSE "deps"
    BY DEF Take
  <1>3. /\ Len(stack) = 1 /\ pos <= Len(world) /\ Len(world) \in Nat
        /\ world \in Seq(Range(world)) /\ pos \in 1..Len(world) /\ c \in Range(world)
    <2>1. Len(stack) = 1 /\ pos <= Len(world)
      BY <1>1, <1>2 DEF PhaseInv
    <2>2. world \in Seq(Range(world)) /\ Len(world) \in Nat
      BY <1>1, PackagesAreNumbered, LenProperties
    <2>3. pos \in 1..Len(world)
      BY <1>1, <2>1, <2>2
    <2> QED
      BY <1>0, <1>1, <2>1, <2>2, <2>3, PackagesAreNumbered
  <1>4. pkg \in Ids /\ pkg \notin WorldDisqualified /\ pkg \in Range(nameMap(c.name)) /\ ~c.not
    <2>1. GoodStack(stack) /\ stack \in Seq(Calls) /\ 1 \in 1..Len(stack)
      BY <1>3, InvStack DEF GoodStack
    <2>2. pkg \in Ids
      BY <2>1, CallFields
    <2> QED
      BY <1>0, <1>3, <2>1, <2>2 DEF GoodStack
  <1>5. UNCHANGED given
    BY <1>2
  <1>6. /\ pkgs' = pkgs /\ world' = world /\ installed' = installed /\ Ids' = Ids
        /\ \A n : nameMap(n)' = nameMap(n)
        /\ \A i : Needs(i)' = Needs(i)
        /\ \A s : NamesIn(s)' = NamesIn(s)
        /\ Calls' = Calls /\ WorldDisqualified' = WorldDisqualified
        /\ \A i, d : Honours(i, d)' <=> Honours(i, d)
    BY <1>5, SameLookups, SameGiven DEF given
  <1>7. depMap' \in [Names -> Ids \cup {None}]
    <2> DEFINE named(n) == {i \in Range(added) \cup {pkg} : pkgs[i].name = n}
    <2>1. depMap' = [n \in Names |->
                       IF depMap[n] # None \/ named(n) = {} THEN depMap[n]
                       ELSE IF \E i \in named(n) : i \in Range(added)
                       THEN CHOOSE i \in named(n) : i \in Range(added)
                       ELSE pkg]
      BY DEF Take
    <2>2. Range(added) \subseteq Ids
      BY <1>1, RangeElements
    <2>3. \A n : (\E i \in named(n) : i \in Range(added))
                    => (CHOOSE i \in named(n) : i \in Range(added)) \in Ids
      BY <2>2
    <2> HIDE DEF named
    <2> QED
      BY <1>1, <1>4, <2>1, <2>3
  <1>8. t \in Seq(Ids) /\ Range(t) = Range(added) \cup {pkg}
    BY <1>1, <1>4, AppendRange
  <1> HIDE DEF t
  <1>9. /\ toInstall' \in Seq(Ids)
        /\ Range(toInstall) \subseteq Range(toInstall')
        /\ Range(toInstall') \subseteq Range(toInstall) \cup Range(t)
        /\ \A i \in Range(t) : pkgs[i].name \in NamesIn(toInstall')
    BY <1>1, <1>2, <1>8, AppendNewProperties
  <1>10. TypeOK'
    <2>1. pos' \in 1..(Len(world) + 1)
      BY <1>2, <1>3
    <2>2. stack' \in Seq(Calls) /\ DOMAIN stack' = {}
      BY <1>2
    <2>3. phase' \in {"done", "deps"}
      BY <1>2
    <2> QED
      BY <1>1, <1>2, <1>6, <1>7, <1>9, <2>1, <2>2, <2>3 DEF TypeOK
  <1>11. PhaseInv' /\ DoneInv'
    BY <1>2, <1>3, <1>6 DEF PhaseInv, DoneInv
  <1>12. CallsInv'
    BY <1>2 DEF CallsInv
  <1>13. (Range(toInstall') \ optional) \cap WorldDisqualified = {}
    BY <1>1, <1>4, <1>8, <1>9 DEF PickedInv
  <1>14. PickedInv'
    <2>1. DOMAIN stack' = {}
      BY <1>2
    <2> QED
      BY <1>1, <1>2, <1>6, <1>13, <2>1 DEF PickedInv
  <1>15. IsHonoured(c)'
    <2>1. PICK i \in Range(toInstall') : pkgs[i].name = pkgs[pkg].name
      BY <1>8, <1>9, NamesInRange
    <2>2. pkgs[i].name \in NamesIn(nameMap(c.name))
      BY <1>4, <2>1, NamesInRange
    <2>3. CASE i \in optional \/ i \notin Range(nameMap(c.name))
      <3>1. (NamesIn(nameMap(c.name)))' = NamesIn(nameMap(c.name))
        BY <1>2, <1>6
      <3>2. pkgs'[i].name \in (NamesIn(nameMap(c.name)))'
        BY <1>6, <2>2, <3>1
      <3>3. i \in optional' \/ i \notin Range(nameMap(c.name))'
        BY <1>2, <1>6, <2>3
      <3> QED
        BY <2>1, <3>2, <3>3 DEF IsHonoured
    <2>4. CASE i \notin optional /\ i \in Range(nameMap(c.name))
      <3>1. i \notin WorldDisqualified
        BY <1>13, <2>1, <2>4
      <3>2. Honours(i, c)
        BY <1>1, <1>3, <1>4, <2>4, <3>1, NotDisqualifiedHonours
      <3>3. Honours(i, c)'
        BY <1>6, <3>2
      <3> QED
        BY <2>1, <3>3 DEF IsHonoured
    <2> QED
      BY <2>3, <2>4
  <1>16. HonouredInv'
    <2>1. \A d : IsHonoured(d) => IsHonoured(d)'
      BY <1>2, <1>5, <1>9, StaysHonoured
    <2>2. \A k \in 1..pos : k = pos \/ k \in 1..(pos - 1)
      BY <1>1
    <2>3. pos' - 1 = pos
      BY <1>1, <1>2
    <2>4. ASSUME NEW k \in 1..pos PROVE IsHonoured(world[k])'
      <3>1. PICK d : d = world[k]
        OBVIOUS
      <3>2. IsHonoured(d)'
        BY <1>0, <1>1, <1>15, <2>1, <2>2, <3>1 DEF HonouredInv
      <3> QED
        BY <1>6, <3>1, <3>2
    <2> QED
      BY <2>3, <2>4 DEF HonouredInv
  <1> QED
    BY <1>10, <1>11, <1>12, <1>14, <1>16 DEF ChoiceInv

-----------------------------------------------------------------------------
(* The theorems. *)

\* For every set of indexes and every world, every state of the resolver is one
\* of ChoiceInv: the types are right, the calls of getPackageDependencies are
\* for packages of different names, and no package that the constraints of
\* the world disqualify is picked, put on the list or returned, except by
\* install_if.
THEOREM ChoiceInvariance == Spec => []ChoiceInv
  <1>1. Init => ChoiceInv
    BY InitInv
  <1>2. ChoiceInv /\ [Next]_vars => ChoiceInv'
    <2> SUFFICES ASSUME ChoiceInv, [Next]_vars PROVE ChoiceInv'
      OBVIOUS
    <2>1. CASE Constrain
      BY <2>1, ConstrainKeepsInv
    <2>2. CASE ChooseForWorld
      BY <2>2, ChooseForWorldKeepsInv
    <2>3. CASE \/ WorldUnsolvable \/ WorldChosen \/ Unresolvable \/ NoOption
               \/ FixateWorld \/ UNCHANGED vars
      BY <2>3, PhaseOnlyStepsKeepInv
    <2>4. CASE StartPackage
      BY <2>4, StartPackageKeepsInv
    <2>5. CASE Descend
      BY <2>5, DescendKeepsInv
    <2>6. CASE Return
      BY <2>6, ReturnKeepsInv
    <2>7. CASE Collected
      BY <2>7, CollectedKeepsInv
    <2>8. CASE VisitInstallIf
      BY <2>8, VisitInstallIfKeepsInv
    <2>9. CASE Take
      BY <2>9, TakeKeepsInv
    <2>10. CASE Finished
      BY <2>10, PhaseOnlyStepsKeepInv DEF Finished
    <2> QED
      BY <2>1, <2>2, <2>3, <2>4, <2>5, <2>6, <2>7, <2>8, <2>9, <2>10 DEF Next
  <1> QED
    BY <1>1, <1>2, PTL DEF Spec

\* When GetPackagesWithDependencies returns, every constraint of the world is
\* met by a package of the list, whatever was disqualified while the later
\* ones were resolved and whichever package of a name the list kept.
THEOREM WorldIsHonoured == Spec => []WorldHonoured
  <1>1. ChoiceInv => WorldHonoured
    <2> SUFFICES ASSUME ChoiceInv, phase = "done", NEW c \in Range(world)
                 PROVE  IsHonoured(c)
      BY DEF WorldHonoured
    <2>1. Given /\ pos = Len(world) + 1
      BY DEF ChoiceInv, TypeOK, Given, DoneInv
    <2>2. world \in Seq(Range(world)) /\ Len(world) \in Nat
      BY <2>1, PackagesAreNumbered, LenProperties
    <2>3. PICK k \in 1..Len(world) : c = world[k]
      BY <2>2, RangeElements
    <2>4. k \in 1..(pos - 1)
      BY <2>1, <2>2
    <2> QED
      BY <2>3, <2>4 DEF ChoiceInv, HonouredInv
  <1> QED
    BY <1>1, ChoiceInvariance, PTL

\* The recursion of getPackageDependencies is never deeper than there are names
\* in the indexes, whatever cycles the dependencies form.
THEOREM DepthIsBounded == Spec => []DepthBounded
  <1>1. ChoiceInv => DepthBounded
    <2> SUFFICES ASSUME ChoiceInv PROVE Len(stack) <= Cardinality(Names)
      BY DEF DepthBounded
    <2> DEFINE m == Len(stack)
               f == [k \in 1..m |-> pkgs[stack[k].pkg].name]
    <2>1. Given /\ GoodStack(stack) /\ m \in Nat /\ stack \in Seq(Calls)
      BY InvStack DEF ChoiceInv, TypeOK, Given, GoodStack
    <2>2. \A k \in 1..m : stack[k].pkg \in Ids
      BY <2>1, CallFields
    <2>3. f \in [1..m -> Names]
      BY <2>1, <2>2, PackagesAreNumbered
    <2>4. \A x, y \in 1..m : f[x] = f[y] => x = y
      BY <2>1 DEF GoodStack
    <2>5. IsFiniteSet(1..m) /\ Cardinality(1..m) = m
      BY <2>1, FS_Interval
    <2>6. IsFiniteSet(Names) /\ Cardinality(Names) \in Nat
      BY NamesAssumption, FS_CardinalityType
    <2> HIDE DEF f
    <2>7. ~(Cardinality(Names) < Cardinality(1..m))
      BY <2>3, <2>4, <2>5, <2>6, FS_PigeonHole
    <2> QED
      BY <2>1, <2>5, <2>6, <2>7
  <1> QED
    BY <1>1, ChoiceInvariance, PTL

-----------------------------------------------------------------------------
(* Dependencies come first. *)

\* What is in order stays in order while the indexes do not change.
LEMMA SameOrder ==
    ASSUME UNCHANGED given, optional \subseteq optional'
    PROVE  /\ \A i, ns : MayFollow(i, ns) => MayFollow(i, ns)'
           /\ \A s : Ordered(s) => Ordered(s)'
           /\ \A st, f : OrderedCall(st, f) => OrderedCall(st, f)'
  <1>1. /\ pkgs' = pkgs /\ Ids' = Ids
        /\ \A n : nameMap(n)' = nameMap(n)
        /\ \A i : Needs(i)' = Needs(i)
        /\ \A s : NamesIn(s)' = NamesIn(s)
    BY SameLookups DEF given
  <1>2. ASSUME NEW n PROVE BringsIn(n)' = BringsIn(n)
    BY <1>1 DEF BringsIn
  <1>3. ASSUME NEW n PROVE OnCycle(n)' <=> OnCycle(n)
    BY <1>2 DEF OnCycle
  <1>4. ASSUME NEW i, NEW ns, MayFollow(i, ns) PROVE MayFollow(i, ns)'
    BY <1>1, <1>3, <1>4 DEF MayFollow
  <1>5. ASSUME NEW s, Ordered(s) PROVE Ordered(s)'
    <2>1. \A k : NamesBefore(s, k)' = NamesBefore(s, k)
      BY <1>1 DEF NamesBefore
    <2> QED
      BY <1>4, <1>5, <2>1 DEF Ordered
  <1>6. ASSUME NEW st, NEW f, OrderedCall(st, f) PROVE OrderedCall(st, f)'
    <2>1. \A c : Waits(st, f, c)' <=> Waits(st, f, c)
      BY <1>1 DEF Waits
    <2> QED
      BY <1>1, <1>5, <1>6, <2>1 DEF OrderedCall
  <1> QED
    BY <1>4, <1>5, <1>6

\* The places up to m, the ones in front of it, and one more.
LEMMA Places ==
    ASSUME NEW m \in Nat, m # 0
    PROVE  /\ \A f \in 1..m : f = m \/ f \in 1..(m - 1)
           /\ \A f \in 1..(m + 1) : f = m \/ f = m + 1 \/ f \in 1..(m - 1)
           /\ \A f \in 1..(m - 1) : /\ f \in 1..m /\ f # m
                                    /\ f + 1 = m \/ f + 1 \in 1..(m - 1)
  OBVIOUS

OrderedStack(st) == \A f \in 1..Len(st) : OrderedCall(st, f)

\* What a package depends on, its name brings in.
LEMMA BroughtIn ==
    ASSUME NEW i \in Ids, NEW c \in Needs(i), NEW j \in Range(nameMap(c.name))
    PROVE  pkgs[j].name \in BringsIn(pkgs[i].name)
  <1> DEFINE cs == UNION {Needs(k) : k \in {h \in Ids : pkgs[h].name = pkgs[i].name}}
             js == UNION {Range(nameMap(d.name)) : d \in cs}
  <1>1. c \in cs
    OBVIOUS
  <1> HIDE DEF cs
  <1>2. j \in js
    BY <1>1
  <1> HIDE DEF js
  <1>3. BringsIn(pkgs[i].name) = {pkgs[h].name : h \in js}
    BY DEF BringsIn, js, cs
  <1> QED
    BY <1>2, <1>3

\* A dependency of the innermost call whose name is that of a call below it is
\* on a cycle.
LEMMA ParentIsOnCycle ==
    ASSUME ChoiceInv, OrderedStack(stack), stack # <<>>,
           NEW c \in Needs(stack[Len(stack)].pkg), NEW dep \in Range(nameMap(c.name)),
           IsParent(dep)
    PROVE  OnCycle(pkgs[dep].name)
  <1> DEFINE m == Len(stack)
             n == pkgs[dep].name
             name(k) == pkgs[stack[k].pkg].name
  <1>1. Given /\ stack \in Seq(Calls) /\ m \in Nat /\ m \in 1..m /\ DOMAIN stack = 1..m
    BY InvStack, LenProperties DEF ChoiceInv, TypeOK, Given, GoodStack
  <1>2. \A k \in 1..m : stack[k].pkg \in Ids
    BY <1>1, CallFields
  <1>3. PICK f \in 1..m : name(f) = n
    BY <1>1 DEF IsParent
  <1>4. SUFFICES ASSUME NEW closed \in SUBSET Names, BringsIn(n) \subseteq closed,
                        \A b \in closed : BringsIn(b) \subseteq closed
                 PROVE  n \in closed
    BY DEF OnCycle
  <1> DEFINE T == {k \in 0..(m - f) : k = 0 \/ name(f + k) \in closed}
  <1>5. 0 \in T /\ m - f \in Nat
    BY <1>1
  <1>6. ASSUME NEW k \in 1..(m - f), k - 1 \in T PROVE k \in T
    <2> DEFINE g == f + (k - 1)
    <2>1. g \in 1..m /\ g < m /\ g + 1 \in 1..m /\ g + 1 = f + k /\ k \in 0..(m - f)
      BY <1>1
    <2>2. BringsIn(name(g)) \subseteq closed
      <3>1. CASE k - 1 = 0
        <4>1. g = f
          BY <3>1
        <4> QED
          BY <1>3, <1>4, <4>1
      <3>2. CASE name(g) \in closed
        BY <1>4, <3>2
      <3> QED
        BY <1>6, <3>1, <3>2
    <2> HIDE DEF g
    <2>3. PICK d \in Needs(stack[g].pkg) : Waits(stack, g, d)
      BY <2>1 DEF OrderedStack, OrderedCall
    <2>4. stack[g + 1].pkg \in Range(nameMap(d.name))
      BY <2>3 DEF Waits
    <2>5. name(g + 1) \in BringsIn(name(g))
      BY <1>2, <2>1, <2>4, BroughtIn
    <2> QED
      BY <2>1, <2>2, <2>5
  <1>7. m - f \in T
    <2> HIDE DEF T
    <2>1. 0..(m - f) \subseteq T
      BY <1>5, <1>6, UpToInduction
    <2> QED
      BY <1>5, <2>1
  <1>8. n \in BringsIn(name(m))
    BY <1>1, <1>2, BroughtIn
  <1>9. f + (m - f) = m
    BY <1>1
  <1>10. CASE m - f = 0
    <2>1. m = f
      <3> HIDE DEF m, T, name
      <3> QED
        BY <1>1, <1>10
    <2> QED
      BY <1>3, <1>4, <1>8, <2>1
  <1>11. CASE name(m) \in closed
    BY <1>4, <1>8, <1>11
  <1> QED
    BY <1>7, <1>9, <1>10, <1>11

LEMMA AddedInOrder ==
    ASSUME UNCHANGED given, optional \subseteq optional', Ordered(added')
    PROVE  Ordered(added)'
  <1>1. PICK s : s = added'
    OBVIOUS
  <1>2. Ordered(s)'
    BY <1>1, SameOrder
  <1> QED
    BY <1>1, <1>2 DEF Ordered

\* A step that leaves lists and calls in order.
LEMMA OrderStep ==
    ASSUME UNCHANGED given, optional \subseteq optional',
           Ordered(added)', Ordered(toInstall'), OrderedStack(stack'),
           stack' \in Seq(Calls),
           phase' = "installIf" => /\ stack'[1].todo = {}
                                   /\ NamesIn(stack'[1].out) \subseteq NamesIn(added')
    PROVE  OrderInv'
  <1>1. Ordered(toInstall)'
    <2>1. PICK s : s = toInstall'
      OBVIOUS
    <2>2. Ordered(s)
      BY <2>1
    <2>3. Ordered(s)'
      BY <2>2, SameOrder
    <2> QED
      BY <2>1, <2>3 DEF Ordered
  <1>2. \A f \in DOMAIN stack' : OrderedCall(stack, f)'
    <2>1. PICK st : st = stack'
      OBVIOUS
    <2>2. DOMAIN stack' = 1..Len(st)
      BY <2>1, LenProperties
    <2>3. \A f \in 1..Len(st) : OrderedCall(st, f)
      BY <2>1 DEF OrderedStack
    <2>4. \A f \in 1..Len(st) : OrderedCall(st, f)'
      BY <2>3, SameOrder
    <2> QED
      BY <2>1, <2>2, <2>4 DEF OrderedCall, Waits
  <1>3. \A s : NamesIn(s)' = NamesIn(s)
    BY SameLookups
  <1>4. phase' = "installIf" => (NamesIn(stack[1].out) \subseteq NamesIn(added))'
    BY <1>3 DEF NamesIn, given
  <1> QED
    BY <1>1, <1>2, <1>4 DEF OrderInv

\* The stack after a round of the loop: the dependency is taken, and the package
\* for it is on the list if it is a parent, or else is called.
LEMMA DescendShape ==
    ASSUME ChoiceInv, Descend, phase' # "failed"
    PROVE  \E c \in stack[Len(stack)].todo : \E dep \in Range(nameMap(c.name)) :
              /\ phase' = "deps" /\ dep \in Ids
              /\ \A f \in 1..(Len(stack) - 1) : stack'[f] = stack[f]
              /\ stack'[Len(stack)].pkg = stack[Len(stack)].pkg
              /\ stack'[Len(stack)].todo = stack[Len(stack)].todo \ {c}
              /\ \/ /\ IsParent(dep) /\ Len(stack') = Len(stack)
                    /\ stack'[Len(stack)].out = Append(stack[Len(stack)].out, dep)
                 \/ /\ Len(stack') = Len(stack) + 1
                    /\ stack'[Len(stack)].out = stack[Len(stack)].out
                    /\ stack'[Len(stack) + 1] = Frame(dep)
  <1> DEFINE m == Len(stack)
             top == stack[m]
             c == Lowest(top.todo)
             dep == bestPackage(DepOptions(c), c.name, existing, origins, NoPin)
             rest == [stack EXCEPT ![m].todo = @ \ {c}]
             more == [rest EXCEPT ![m].out = Append(@, dep)]
  <1>1. /\ Given /\ stack \in Seq(Calls) /\ m \in Nat /\ m # 0 /\ m \in 1..m
        /\ DOMAIN stack = 1..m /\ stack # <<>>
    BY InvStack, LenProperties DEF Descend, GoodStack, ChoiceInv, TypeOK, Given
  <1>2. Last(stack) = top /\ top.todo # {}
    BY DEF Last, Descend
  <1>3. c \in top.todo
    BY <1>1, <1>2, LowestIsOpen
  <1>4. phase' = "deps" /\ ((IsParent(dep) /\ stack' = more) \/ stack' = Append(rest, Frame(dep)))
    BY <1>2 DEF Descend, Call
  <1>5. DepOptions(c) # <<>>
    BY <1>2, <1>3 DEF Descend
  <1> HIDE DEF c
  <1>6. /\ DepOptions(c) \in Seq(Ids)
        /\ Range(DepOptions(c)) \subseteq Range(nameMap(c.name)) \ dq
    BY <1>1, DepOptionsProperties
  <1>7. dep \in Range(DepOptions(c))
    BY <1>5, <1>6, bestPackageIsCandidate
  <1> HIDE DEF dep
  <1>8. dep \in Range(nameMap(c.name)) /\ dep \in Ids
    BY <1>6, <1>7, RangeElements
  <1>9. top \in Calls /\ top.out \in Seq(Ids)
    BY <1>1, CallFields
  <1>10. /\ rest \in Seq(Calls) /\ Len(rest) = m /\ DOMAIN rest = 1..m
         /\ \A f \in 1..(m - 1) : rest[f] = stack[f]
         /\ rest[m] \in Calls /\ rest[m].pkg = top.pkg
         /\ rest[m].todo = top.todo \ {c} /\ rest[m].out = top.out
    <2> DEFINE last == [top EXCEPT !.todo = @ \ {c}]
    <2>1. /\ last \in Calls /\ last.pkg = top.pkg /\ last.todo = top.todo \ {c}
          /\ last.out = top.out
      BY <1>9 DEF Calls
    <2>2. rest = [stack EXCEPT ![m] = last]
      OBVIOUS
    <2> HIDE DEF last, rest
    <2>3. rest \in Seq(Calls) /\ Len(rest) = m
      BY <1>1, <2>1, <2>2, ExceptSeq
    <2>4. rest[m] = last /\ \A f \in 1..(m - 1) : rest[f] = stack[f]
      <3>1. \A f \in 1..m : rest[f] = IF f = m THEN last ELSE stack[f]
        BY <1>1, <2>2, ExceptSeq
      <3>2. \A f \in 1..(m - 1) : f \in 1..m /\ f # m
        BY <1>1, Places
      <3> QED
        BY <1>1, <3>1, <3>2
    <2>5. DOMAIN rest = 1..m
      BY <2>3, LenProperties
    <2> QED
      BY <2>1, <2>3, <2>4, <2>5
  <1> HIDE DEF rest
  <1>11. CASE IsParent(dep) /\ stack' = more
    <2>1. \A f \in 1..(m - 1) : stack'[f] = stack[f]
      BY <1>1, <1>10, <1>11
    <2>2. DOMAIN more = 1..m /\ Len(more) = m
      BY <1>1, <1>10
    <2>3. stack'[m] = [rest[m] EXCEPT !.out = Append(@, dep)]
      BY <1>1, <1>10, <1>11
    <2> HIDE DEF more
    <2>4. /\ stack'[m].pkg = top.pkg /\ stack'[m].todo = top.todo \ {c}
          /\ stack'[m].out = Append(top.out, dep)
      BY <1>10, <2>3 DEF Calls
    <2> QED
      BY <1>3, <1>4, <1>8, <1>11, <2>1, <2>2, <2>4
  <1>12. CASE stack' = Append(rest, Frame(dep))
    <2>1. /\ Len(stack') = m + 1 /\ \A f \in 1..m : stack'[f] = rest[f]
          /\ stack'[m + 1] = Frame(dep)
      BY <1>10, <1>12
    <2>2. \A f \in 1..(m - 1) : f \in 1..m
      BY <1>1
    <2>3. \A f \in 1..(m - 1) : stack'[f] = stack[f]
      BY <1>10, <2>1, <2>2
    <2>4. /\ stack'[m].pkg = top.pkg /\ stack'[m].todo = top.todo \ {c}
          /\ stack'[m].out = top.out
      BY <1>1, <1>10, <2>1
    <2> QED
      BY <1>3, <1>4, <1>8, <2>1, <2>3, <2>4
  <1> QED
    BY <1>4, <1>11, <1>12

\* The stack after a return: the list of the call, and its package, are with the
\* call below.
LEMMA ReturnShape ==
    ASSUME ChoiceInv, Return
    PROVE  LET m == Len(stack)
           IN  /\ Len(stack') = m - 1
               /\ \A f \in 1..(m - 2) : stack'[f] = stack[f]
               /\ stack'[m - 1].pkg = stack[m - 1].pkg
               /\ stack'[m - 1].todo = stack[m - 1].todo
               /\ stack'[m - 1].out =
                     stack[m - 1].out \o Append(stack[m].out, stack[m].pkg)
  <1> DEFINE m == Len(stack)
             top == stack[m]
             front == SubSeq(stack, 1, m - 1)
  <1>1. /\ stack \in Seq(Calls) /\ m \in Nat /\ m > 1 /\ m \in 1..m /\ m - 1 \in 1..m
        /\ m - 1 \in 1..(m - 1)
    <2>1. GoodStack(stack) /\ m \in Nat /\ m > 1
      BY InvStack DEF Return
    <2> QED
      BY <2>1 DEF GoodStack
  <1>2. Last(stack) = top /\ Front(stack) = front
    BY DEF Last, Front
  <1>3. top \in Calls /\ top.out \in Seq(Ids) /\ top.pkg \in Ids
    BY <1>1, CallFields
  <1>4. WithChildren(top) = Append(top.out, top.pkg)
    BY <1>3 DEF WithChildren
  <1>5. stack' = [front EXCEPT ![m - 1].out = @ \o WithChildren(top)]
    BY <1>2 DEF Return
  <1>6. front \in Seq(Calls) /\ Len(front) = m - 1 /\ \A k \in 1..(m - 1) : front[k] = stack[k]
    BY <1>1, SubSeqProperties
  <1> HIDE DEF front, top
  <1>7. DOMAIN front = 1..(m - 1)
    BY <1>6, LenProperties
  <1>8. DOMAIN stack' = 1..(m - 1)
    BY <1>5, <1>7
  <1>9. Len(stack') = m - 1
    BY <1>1, <1>8
  <1>10. ASSUME NEW f \in 1..(m - 2) PROVE stack'[f] = stack[f]
    <2>1. f \in 1..(m - 1) /\ f # m - 1
      BY <1>1
    <2> QED
      BY <1>5, <1>6, <1>7, <2>1
  <1>11. stack'[m - 1] = [front[m - 1] EXCEPT !.out = @ \o WithChildren(top)]
    BY <1>1, <1>5, <1>7
  <1>12. front[m - 1] = stack[m - 1] /\ stack[m - 1] \in Calls
    BY <1>1, <1>6, CallFields
  <1>13. /\ stack'[m - 1].pkg = stack[m - 1].pkg
         /\ stack'[m - 1].todo = stack[m - 1].todo
         /\ stack'[m - 1].out = stack[m - 1].out \o WithChildren(top)
    BY <1>11, <1>12 DEF Calls
  <1> QED
    BY <1>4, <1>9, <1>10, <1>13 DEF top

\* Steps that touch neither lists nor calls.
LEMMA OrderUntouched ==
    ASSUME ChoiceInv, OrderInv, UNCHANGED <<given, stack, added, toInstall, optional>>,
           phase' = "installIf" => phase = "installIf"
    PROVE  OrderInv'
  <1>1. UNCHANGED given /\ optional \subseteq optional'
    OBVIOUS
  <1>2. stack' \in Seq(Calls) /\ OrderedStack(stack')
    <2>1. stack \in Seq(Calls) /\ DOMAIN stack = 1..Len(stack)
      BY LenProperties DEF ChoiceInv, TypeOK
    <2>2. OrderedStack(stack)
      BY <2>1 DEF OrderInv, OrderedStack
    <2> QED
      BY <2>1, <2>2
  <1>3. Ordered(added)'
    BY <1>1, AddedInOrder DEF OrderInv
  <1> QED
    BY <1>1, <1>2, <1>3, OrderStep DEF OrderInv

\* Steps of getPackageDependencies, which change the calls only.
LEMMA DepsStepInOrder ==
    ASSUME OrderInv, phase' # "installIf",
           UNCHANGED <<given, added, toInstall, optional>>,
           stack' \in Seq(Calls), OrderedStack(stack')
    PROVE  OrderInv'
  <1>1. UNCHANGED given /\ optional \subseteq optional'
    OBVIOUS
  <1>2. Ordered(added)'
    BY <1>1, AddedInOrder DEF OrderInv
  <1> QED
    BY <1>1, <1>2, OrderStep DEF OrderInv

LEMMA NewCallInOrder ==
    ASSUME NEW i
    PROVE  /\ Ordered(Frame(i).out)
           /\ Needs(Frame(i).pkg) \ Frame(i).todo = {}
  BY DEF Frame, Ordered

LEMMA StartPackageInOrder ==
    ASSUME ChoiceInv', OrderInv, StartPackage PROVE OrderInv'
  <1>1. /\ phase' # "installIf" /\ UNCHANGED <<given, added, toInstall, optional>>
        /\ \E i : stack' = <<>> \/ stack' = Append(<<>>, Frame(i))
    BY DEF StartPackage, Call
  <1>2. stack' \in Seq(Calls)
    BY <1>1, SameGiven DEF ChoiceInv, TypeOK
  <1>3. OrderedStack(stack')
    <2>1. CASE stack' = <<>>
      BY <2>1 DEF OrderedStack
    <2>2. CASE \E i : stack' = Append(<<>>, Frame(i))
      <3>1. PICK i : stack' = <<Frame(i)>>
        BY <2>2
      <3>2. Len(stack') = 1 /\ stack'[1] = Frame(i)
        BY <3>1
      <3>3. OrderedCall(stack', 1)
        BY <3>2, NewCallInOrder DEF OrderedCall
      <3> QED
        BY <3>2, <3>3 DEF OrderedStack
    <2> QED
      BY <1>1, <2>1, <2>2
  <1> QED
    BY <1>1, <1>2, <1>3, DepsStepInOrder

\* A call that keeps its package, its list and its open dependencies, in a
\* stack that has the same call above it.
LEMMA SameCallInOrder ==
    ASSUME NEW st, NEW st2, NEW f, OrderedCall(st, f), f < Len(st), f < Len(st2),
           st2[f] = st[f], st2[f + 1].pkg = st[f + 1].pkg
    PROVE  OrderedCall(st2, f)
  <1>1. \A c : Waits(st2, f, c) <=> Waits(st, f, c)
    BY DEF Waits
  <1> QED
    BY <1>1 DEF OrderedCall

LEMMA DescendInOrder ==
    ASSUME ChoiceInv, ChoiceInv', OrderInv, Descend PROVE OrderInv'
  <1> DEFINE m == Len(stack)
             top == stack[m]
  <1>1. /\ phase' # "installIf" /\ UNCHANGED <<given, added, toInstall, optional>>
        /\ stack # <<>>
    BY DEF Descend, Call
  <1>2. stack' \in Seq(Calls)
    BY <1>1, SameGiven DEF ChoiceInv, TypeOK
  <1>3. /\ Given /\ stack \in Seq(Calls) /\ m \in Nat /\ m # 0 /\ m \in 1..m
        /\ DOMAIN stack = 1..m
    BY <1>1, InvStack, LenProperties DEF GoodStack, ChoiceInv, TypeOK, Given
  <1>4. OrderedStack(stack)
    BY <1>3 DEF OrderInv, OrderedStack
  <1>5. top \in Calls /\ top.out \in Seq(Ids) /\ top.pkg \in Ids
    BY <1>3, CallFields
  <1>6. /\ top.todo \subseteq Needs(top.pkg) /\ Ordered(top.out)
        /\ \A d \in Needs(top.pkg) \ top.todo :
              NamesIn(top.out) \cap NamesIn(nameMap(d.name)) # {}
    BY <1>3, <1>4, InvStack DEF OrderedStack, OrderedCall, Waits, GoodStack
  <1>7. CASE phase' = "failed"
    <2>1. stack' = <<>>
      BY <1>1, <1>7 DEF Descend, Call
    <2>2. OrderedStack(stack')
      BY <2>1 DEF OrderedStack
    <2> QED
      BY <1>1, <1>2, <2>2, DepsStepInOrder
  <1>8. CASE phase' # "failed"
    <2>1. PICK c \in top.todo : \E dep \in Range(nameMap(c.name)) :
              /\ phase' = "deps" /\ dep \in Ids
              /\ \A f \in 1..(m - 1) : stack'[f] = stack[f]
              /\ stack'[m].pkg = top.pkg
              /\ stack'[m].todo = top.todo \ {c}
              /\ \/ /\ IsParent(dep) /\ Len(stack') = m
                    /\ stack'[m].out = Append(top.out, dep)
                 \/ /\ Len(stack') = m + 1
                    /\ stack'[m].out = top.out
                    /\ stack'[m + 1] = Frame(dep)
      BY <1>8, DescendShape
    <2>2. PICK dep \in Range(nameMap(c.name)) :
              /\ dep \in Ids
              /\ \A f \in 1..(m - 1) : stack'[f] = stack[f]
              /\ stack'[m].pkg = top.pkg
              /\ stack'[m].todo = top.todo \ {c}
              /\ \/ /\ IsParent(dep) /\ Len(stack') = m
                    /\ stack'[m].out = Append(top.out, dep)
                 \/ /\ Len(stack') = m + 1
                    /\ stack'[m].out = top.out
                    /\ stack'[m + 1] = Frame(dep)
      BY <2>1
    <2>3. c \in Needs(top.pkg) /\ pkgs[dep].name \in NamesIn(nameMap(c.name))
      BY <1>6, NamesInRange
    <2>4. ASSUME NEW f \in 1..(m - 1) PROVE OrderedCall(stack', f)
      <3>1. f \in 1..m /\ f < m /\ f < Len(stack') /\ OrderedCall(stack, f)
        BY <1>3, <1>4, <2>2 DEF OrderedStack
      <3>2. stack'[f + 1].pkg = stack[f + 1].pkg
        <4>1. CASE f + 1 = m
          BY <2>2, <4>1
        <4>2. CASE f + 1 # m
          <5>1. f + 1 \in 1..(m - 1)
            BY <1>3, <4>2, Places
          <5> QED
            BY <2>2, <5>1
        <4> QED
          BY <4>1, <4>2
      <3> QED
        BY <2>2, <3>1, <3>2, SameCallInOrder
    <2>5. CASE IsParent(dep) /\ Len(stack') = m /\ stack'[m].out = Append(top.out, dep)
      <3> DEFINE out == Append(top.out, dep)
      <3>1. OnCycle(pkgs[dep].name)
        BY <1>1, <1>4, <2>3, <2>5, ParentIsOnCycle
      <3>2. MayFollow(dep, NamesIn(top.out))
        BY <3>1 DEF MayFollow
      <3>3. Ordered(out)
        BY <1>5, <1>6, <2>2, <3>2, OrderedAppend
      <3>4. Range(out) = Range(top.out) \cup {dep}
        BY <1>5, <2>2, AppendRange
      <3> HIDE DEF out
      <3>5. NamesIn(out) = NamesIn(top.out) \cup {pkgs[dep].name}
        BY <3>4, NamesInRange
      <3>6. \A d \in Needs(top.pkg) \ (top.todo \ {c}) :
               NamesIn(out) \cap NamesIn(nameMap(d.name)) # {}
        <4> SUFFICES ASSUME NEW d \in Needs(top.pkg) \ (top.todo \ {c})
                     PROVE  NamesIn(out) \cap NamesIn(nameMap(d.name)) # {}
          OBVIOUS
        <4>1. CASE d = c
          BY <2>3, <3>5, <4>1
        <4>2. CASE d # c
          BY <1>6, <3>5, <4>2
        <4> QED
          BY <4>1, <4>2
      <3>7. stack'[m].out = out
        BY <2>5 DEF out
      <3>8. OrderedCall(stack', m)
        BY <1>3, <2>2, <2>5, <3>3, <3>6, <3>7 DEF OrderedCall
      <3>9. OrderedStack(stack')
        <4>1. \A f \in 1..m : f = m \/ f \in 1..(m - 1)
          BY <1>3, Places
        <4> QED
          BY <2>4, <2>5, <3>8, <4>1 DEF OrderedStack
      <3> QED
        BY <1>1, <1>2, <3>9, DepsStepInOrder
    <2>6. CASE /\ Len(stack') = m + 1 /\ stack'[m].out = top.out
               /\ stack'[m + 1] = Frame(dep)
      <3>1. Waits(stack', m, c)
        <4>1. Frame(dep).pkg = dep
          BY DEF Frame
        <4> QED
          BY <1>3, <2>6, <4>1 DEF Waits
      <3>2. OrderedCall(stack', m)
        <4>1. \A d \in Needs(top.pkg) \ (top.todo \ {c}) :
                 d = c \/ NamesIn(top.out) \cap NamesIn(nameMap(d.name)) # {}
          BY <1>6
        <4> QED
          BY <1>6, <2>2, <2>3, <2>6, <3>1, <4>1 DEF OrderedCall
      <3>3. OrderedCall(stack', m + 1)
        <4>1. ~(m + 1 < Len(stack'))
          BY <1>3, <2>6
        <4> QED
          BY <2>6, <4>1, NewCallInOrder DEF OrderedCall
      <3>4. OrderedStack(stack')
        <4>1. \A f \in 1..(m + 1) : f = m \/ f = m + 1 \/ f \in 1..(m - 1)
          BY <1>3, Places
        <4> QED
          BY <2>4, <2>6, <3>2, <3>3, <4>1 DEF OrderedStack
      <3> QED
        BY <1>1, <1>2, <3>4, DepsStepInOrder
    <2> QED
      BY <2>2, <2>5, <2>6
  <1> QED
    BY <1>7, <1>8

LEMMA ReturnInOrder ==
    ASSUME ChoiceInv, ChoiceInv', OrderInv, Return PROVE OrderInv'
  <1> DEFINE m == Len(stack)
             n == m - 1
             top == stack[m]
             below == stack[n]
             all == Append(top.out, top.pkg)
             out == below.out \o all
  <1>1. /\ phase' # "installIf" /\ UNCHANGED <<given, added, toInstall, optional>>
        /\ m > 1 /\ Last(stack).todo = {}
    BY DEF Return
  <1>2. stack' \in Seq(Calls)
    BY <1>1, SameGiven DEF ChoiceInv, TypeOK
  <1>3. /\ stack \in Seq(Calls) /\ m \in Nat /\ DOMAIN stack = 1..m
    BY InvStack, LenProperties DEF GoodStack
  <1>4. n \in Nat /\ n # 0 /\ n + 1 = m /\ m \in 1..m /\ n \in 1..m /\ n < m
    <2>1. m \in Nat /\ m > 1
      BY <1>1, <1>3
    <2> HIDE DEF m
    <2> QED
      BY <2>1
  <1>5. OrderedCall(stack, m) /\ OrderedCall(stack, n) /\ \A f \in 1..m : OrderedCall(stack, f)
    BY <1>3, <1>4 DEF OrderInv
  <1>6. /\ top \in Calls /\ top.out \in Seq(Ids) /\ top.pkg \in Ids
        /\ below \in Calls /\ below.out \in Seq(Ids)
    BY <1>3, <1>4, CallFields
  <1>7. top.todo = {}
    BY <1>1 DEF Last
  <1>8. /\ Len(stack') = n
        /\ \A f \in 1..(n - 1) : stack'[f] = stack[f]
        /\ stack'[n].pkg = below.pkg /\ stack'[n].todo = below.todo
        /\ stack'[n].out = out
    <2>1. m - 2 = n - 1
      BY <1>3
    <2>2. /\ Len(stack') = m - 1
          /\ \A f \in 1..(m - 2) : stack'[f] = stack[f]
          /\ stack'[m - 1].pkg = stack[m - 1].pkg
          /\ stack'[m - 1].todo = stack[m - 1].todo
          /\ stack'[m - 1].out = stack[m - 1].out \o Append(stack[m].out, stack[m].pkg)
      BY ReturnShape
    <2> QED
      BY <2>1, <2>2
  <1>9. MayFollow(top.pkg, NamesIn(top.out)) /\ Ordered(top.out) /\ Ordered(below.out)
    <2>1. ~(m < Len(stack))
      BY <1>3
    <2>2. \A c \in Needs(top.pkg) : NamesIn(top.out) \cap NamesIn(nameMap(c.name)) # {}
      BY <1>5, <1>7, <2>1 DEF OrderedCall, Waits
    <2> QED
      BY <1>5, <2>2 DEF MayFollow, OrderedCall
  <1>10. /\ all \in Seq(Ids) /\ Range(all) = Range(top.out) \cup {top.pkg}
         /\ Ordered(all)
    BY <1>6, <1>9, AppendRange, OrderedAppend
  <1> HIDE DEF all
  <1>11. /\ Ordered(out) /\ Range(out) = Range(below.out) \cup Range(all)
    BY <1>6, <1>9, <1>10, ConcatRange, OrderedConcat
  <1> HIDE DEF out
  <1>12. NamesIn(below.out) \subseteq NamesIn(out) /\ pkgs[top.pkg].name \in NamesIn(out)
    BY <1>10, <1>11, NamesInRange
  <1>13. ASSUME NEW c \in Needs(below.pkg) \ below.todo
         PROVE  NamesIn(out) \cap NamesIn(nameMap(c.name)) # {}
    <2>1. CASE Waits(stack, n, c)
      <3>1. top.pkg \in Range(nameMap(c.name))
        BY <1>4, <2>1 DEF Waits
      <3>2. pkgs[top.pkg].name \in NamesIn(nameMap(c.name))
        BY <3>1, NamesInRange
      <3> QED
        BY <1>12, <3>2
    <2>2. CASE NamesIn(below.out) \cap NamesIn(nameMap(c.name)) # {}
      BY <1>12, <2>2
    <2> QED
      BY <1>5, <2>1, <2>2 DEF OrderedCall
  <1>14. OrderedCall(stack', n)
    <2>1. ~(n < Len(stack'))
      BY <1>4, <1>8
    <2> QED
      BY <1>8, <1>11, <1>13, <2>1 DEF OrderedCall
  <1>15. ASSUME NEW f \in 1..(n - 1) PROVE OrderedCall(stack', f)
    <2>1. f \in 1..n /\ f < n /\ f < m /\ f \in 1..m
      BY <1>3, <1>4
    <2>2. stack'[f + 1].pkg = stack[f + 1].pkg
      <3>1. f + 1 = n \/ f + 1 \in 1..(n - 1)
        BY <1>4, Places
      <3> QED
        BY <1>8, <3>1
    <2> QED
      BY <1>5, <1>8, <2>1, <2>2, SameCallInOrder
  <1>16. OrderedStack(stack')
    <2>1. \A f \in 1..n : f = n \/ f \in 1..(n - 1)
      BY <1>4, Places
    <2> QED
      BY <1>8, <1>14, <1>15, <2>1 DEF OrderedStack
  <1> QED
    BY <1>1, <1>2, <1>16, DepsStepInOrder

LEMMA CollectedInOrder ==
    ASSUME ChoiceInv, OrderInv, Collected PROVE OrderInv'
  <1> DEFINE out == stack[1].out
             none == <<>>
  <1>1. /\ phase' = "installIf" /\ Len(stack) = 1
        /\ UNCHANGED <<given, stack, toInstall, optional>>
        /\ Last(stack) = stack[1] /\ Last(stack).todo = {}
        /\ added' = AppendNew(none, out)
    <2>1. Len(stack) = 1 /\ Last(stack) = stack[1]
      BY DEF Collected, Last
    <2> QED
      BY <2>1 DEF Collected
  <1>2. stack \in Seq(Calls) /\ DOMAIN stack = 1..1 /\ 1 \in 1..Len(stack)
    BY <1>1, InvStack, LenProperties DEF GoodStack
  <1>3. out \in Seq(Ids) /\ OrderedCall(stack, 1)
    BY <1>2, CallFields DEF OrderInv
  <1>4. Ordered(out) /\ none \in Seq(Ids) /\ Ordered(none)
    BY <1>3 DEF OrderedCall, Ordered
  <1> HIDE DEF out, none
  <1>5. /\ Ordered(added') /\ \A i \in Range(out) : pkgs[i].name \in NamesIn(added')
    BY <1>1, <1>3, <1>4, AppendNewProperties
  <1>6. NamesIn(out) \subseteq NamesIn(added')
    BY <1>5, NamesInRange
  <1>7. UNCHANGED given /\ optional \subseteq optional'
    BY <1>1
  <1>8. Ordered(added)'
    BY <1>5, <1>7, AddedInOrder
  <1>9. OrderedStack(stack') /\ stack' \in Seq(Calls) /\ Ordered(toInstall')
    BY <1>1, <1>2, <1>3 DEF OrderedStack, OrderInv
  <1> QED
    BY <1>1, <1>6, <1>7, <1>8, <1>9, OrderStep DEF out

LEMMA VisitInstallIfInOrder ==
    ASSUME ChoiceInv, OrderInv, VisitInstallIf PROVE OrderInv'
  <1>1. phase = "installIf" /\ UNCHANGED <<given, stack, toInstall>>
    BY DEF VisitInstallIf
  <1>2. PICK i : LET new == AppendInstallIf(added, InstallIfList(i))
                 IN  /\ added' = new
                     /\ optional' = optional \cup (Range(new) \ Range(added))
    BY DEF VisitInstallIf
  <1>3. PICK new : new = AppendInstallIf(added, InstallIfList(i))
    OBVIOUS
  <1>4. added' = new /\ optional' = optional \cup (Range(new) \ Range(added))
    BY <1>2, <1>3
  <1>5. /\ Given /\ added \in Seq(Ids) /\ Ordered(added)
        /\ stack \in Seq(Calls) /\ DOMAIN stack = 1..Len(stack)
    BY LenProperties DEF ChoiceInv, TypeOK, Given, OrderInv
  <1>6. InstallIfList(i) \in Seq(Ids)
    <2>1. \A S : S \subseteq Ids => InOrder(S) \in Seq(Ids)
      BY <1>5, InOrderProperties
    <2> QED
      BY <2>1 DEF InstallIfList
  <1>7. new \in Seq(Ids) /\ Continues(new, added) /\ Range(added) \subseteq Range(new)
    BY <1>3, <1>5, <1>6, AppendInstallIfProperties
  <1>8. UNCHANGED given /\ optional \subseteq optional'
    BY <1>1, <1>4
  <1>9. PICK s : s = added
    OBVIOUS
  <1>10. Ordered(s)' /\ s \in Seq(Ids) /\ Len(s) \in Nat /\ Len(new) \in Nat
    BY <1>5, <1>7, <1>8, <1>9, SameOrder, LenProperties
  <1>11. ASSUME NEW k \in 1..Len(new) PROVE MayFollow(new[k], NamesBefore(new, k))'
    <2>1. CASE k <= Len(s)
      <3>1. k \in DOMAIN s /\ new[k] = s[k] /\ \A j \in 1..(k - 1) : new[j] = s[j]
        BY <1>7, <1>9, <1>10, <2>1, LenProperties DEF Continues
      <3>2. NamesBefore(new, k)' = NamesBefore(s, k)'
        BY <3>1 DEF NamesBefore
      <3>3. MayFollow(s[k], NamesBefore(s, k))'
        BY <1>10, <3>1 DEF Ordered
      <3> QED
        BY <3>1, <3>2, <3>3
    <2>2. CASE ~(k <= Len(s))
      <3>1. new[k] \notin Range(added) /\ new[k] \in Range(new)
        BY <1>7, <1>9, <1>10, <2>2, RangeElements DEF Continues
      <3>2. new[k] \in optional'
        BY <1>4, <3>1
      <3> QED
        BY <3>2 DEF MayFollow
    <2> QED
      BY <2>1, <2>2
  <1>12. Ordered(added)'
    <2>1. DOMAIN new = 1..Len(new)
      BY <1>7, LenProperties
    <2>2. Ordered(new)'
      BY <1>11, <2>1 DEF Ordered
    <2> QED
      BY <1>4, <2>2 DEF Ordered
  <1>13. OrderedStack(stack') /\ stack' \in Seq(Calls) /\ Ordered(toInstall')
    BY <1>1, <1>5 DEF OrderedStack, OrderInv
  <1>14. NamesIn(added) \subseteq NamesIn(added')
    BY <1>4, <1>7, NamesInRange
  <1>15. stack'[1].todo = {} /\ NamesIn(stack'[1].out) \subseteq NamesIn(added')
    BY <1>1, <1>14 DEF OrderInv
  <1> QED
    BY <1>8, <1>12, <1>13, <1>15, OrderStep

LEMMA TakeInOrder ==
    ASSUME ChoiceInv, OrderInv, Take PROVE OrderInv'
  <1> DEFINE pkg == stack[1].pkg
             t == Append(added, pkg)
  <1>1. /\ phase = "installIf" /\ phase' # "installIf"
        /\ UNCHANGED <<given, added, optional>> /\ stack' = <<>>
        /\ toInstall' = AppendNew(toInstall, t)
    BY DEF Take
  <1>2. /\ added \in Seq(Ids) /\ toInstall \in Seq(Ids) /\ stack \in Seq(Calls)
        /\ Len(stack) = 1 /\ DOMAIN stack = 1..1
    BY <1>1, LenProperties DEF ChoiceInv, TypeOK, PhaseInv
  <1>3. pkg \in Ids /\ OrderedCall(stack, 1)
    <2>1. 1 \in 1..Len(stack) /\ 1 \in DOMAIN stack
      BY <1>2
    <2> QED
      BY <1>2, <2>1, CallFields DEF OrderInv
  <1>4. MayFollow(pkg, NamesIn(added))
    <2>1. \A c \in Needs(pkg) : NamesIn(stack[1].out) \cap NamesIn(nameMap(c.name)) # {}
      BY <1>1, <1>2, <1>3 DEF OrderInv, OrderedCall, Waits
    <2>2. \A c \in Needs(pkg) : NamesIn(added) \cap NamesIn(nameMap(c.name)) # {}
      BY <1>1, <2>1 DEF OrderInv
    <2> QED
      BY <2>2 DEF MayFollow
  <1> HIDE DEF pkg
  <1>5. t \in Seq(Ids) /\ Ordered(t)
    BY <1>2, <1>3, <1>4, AppendRange, OrderedAppend DEF OrderInv
  <1> HIDE DEF t
  <1>6. Ordered(toInstall')
    BY <1>1, <1>2, <1>5, AppendNewProperties DEF OrderInv
  <1>7. UNCHANGED given /\ optional \subseteq optional'
    BY <1>1
  <1>8. Ordered(added)'
    BY <1>1, <1>7, AddedInOrder DEF OrderInv
  <1>9. OrderedStack(stack') /\ stack' \in Seq(Calls)
    BY <1>1 DEF OrderedStack
  <1> QED
    BY <1>1, <1>6, <1>7, <1>8, <1>9, OrderStep

\* For every set of indexes and every world, every state of the resolver is one
\* of ResolverInv: besides ChoiceInv, every list that a call, the install_if
\* loop or GetPackagesWithDependencies has built so far is in order.
THEOREM ResolverInvariance == Spec => []ResolverInv
  <1>1. Init => OrderInv
    BY DEF Init, OrderInv, Ordered
  <1>2. ChoiceInv /\ ChoiceInv' /\ OrderInv /\ [Next]_vars => OrderInv'
    <2> SUFFICES ASSUME ChoiceInv, ChoiceInv', OrderInv, [Next]_vars PROVE OrderInv'
      OBVIOUS
    <2>1. CASE \/ Constrain \/ ChooseForWorld \/ WorldUnsolvable \/ WorldChosen
               \/ Unresolvable \/ NoOption \/ FixateWorld \/ Finished
               \/ UNCHANGED vars
      <3>1. /\ UNCHANGED <<given, stack, added, toInstall, optional>>
            /\ phase' = "installIf" => phase = "installIf"
        BY <2>1 DEF Constrain, ChooseForWorld, WorldUnsolvable, WorldChosen,
                    Unresolvable, NoOption, FixateWorld, Finished, vars
      <3> QED
        BY <3>1, OrderUntouched
    <2>2. CASE StartPackage
      BY <2>2, StartPackageInOrder
    <2>3. CASE Descend
      BY <2>3, DescendInOrder
    <2>4. CASE Return
      BY <2>4, ReturnInOrder
    <2>5. CASE Collected
      BY <2>5, CollectedInOrder
    <2>6. CASE VisitInstallIf
      BY <2>6, VisitInstallIfInOrder
    <2>7. CASE Take
      BY <2>7, TakeInOrder
    <2> QED
      BY <2>1, <2>2, <2>3, <2>4, <2>5, <2>6, <2>7 DEF Next
  <1>3. ChoiceInv /\ OrderInv => ResolverInv
    BY DEF ResolverInv
  <1> QED
    BY <1>1, <1>2, <1>3, ChoiceInvariance, PTL DEF Spec

\* When GetPackagesWithDependencies returns, every package of the list stands
\* behind a package for each of its dependencies, except on a cycle and for
\* what install_if brought in: what InstallPackages installs in this order
\* finds what it depends on.
THEOREM DependenciesComeFirst == Spec => []DependenciesFirst
  <1>1. ResolverInv => DependenciesFirst
    BY DEF ResolverInv, OrderInv, DependenciesFirst
  <1> QED
    BY <1>1, ResolverInvariance, PTL

-----------------------------------------------------------------------------
(* The resolver comes to an end: every step leaves less to be done. *)

\* CompareSeqs is decided by the first difference, or else by the lengths.
LEMMA FirstSmaller ==
    ASSUME NEW s \in Seq(Int), NEW t \in Seq(Int), NEW i \in 1..Len(s), i \in 1..Len(t),
           s[i] < t[i], \A j \in 1..(i - 1) : s[j] = t[j]
    PROVE  CompareSeqs(s, t) = less
  <1> DEFINE both == DOMAIN s \cap DOMAIN t
             First(k) == s[k] # t[k] /\ \A j \in 1..(k - 1) : s[j] = t[j]
             k == CHOOSE k \in both : First(k)
  <1>1. /\ Len(s) \in Nat /\ Len(t) \in Nat /\ DOMAIN s = 1..Len(s) /\ DOMAIN t = 1..Len(t)
        /\ s[i] \in Int /\ t[i] \in Int
    BY LenProperties
  <1>2. i \in both /\ First(i)
    BY <1>1
  <1>3. \A l \in both : First(l) => l = i
    <2> SUFFICES ASSUME NEW l \in both, First(l), l # i PROVE FALSE
      OBVIOUS
    <2>1. l \in 1..(i - 1) \/ i \in 1..(l - 1)
      BY <1>1
    <2> QED
      BY <1>2, <2>1
  <1>4. CompareSeqs(s, t) = Compare(s[k], t[k])
    BY <1>2 DEF CompareSeqs
  <1> HIDE DEF First, both
  <1>5. k = i
    BY <1>2, <1>3
  <1>6. CompareSeqs(s, t) = Compare(s[i], t[i])
    BY <1>4, <1>5
  <1> QED
    BY <1>1, <1>6 DEF Compare

LEMMA Shorter ==
    ASSUME NEW s \in Seq(Int), NEW t \in Seq(Int), Len(s) < Len(t),
           \A j \in 1..Len(s) : s[j] = t[j]
    PROVE  CompareSeqs(s, t) = less
  <1>1. Len(s) \in Nat /\ Len(t) \in Nat /\ DOMAIN s = 1..Len(s)
    BY LenProperties
  <1>2. CompareSeqs(s, t) = Compare(Len(s), Len(t))
    BY <1>1 DEF CompareSeqs
  <1> QED
    BY <1>1, <1>2 DEF Compare

\* The shape of LeftToDo.
LEMMA Measure ==
    ASSUME NEW a \in Int, NEW b \in Int, NEW c \in Int, NEW t \in Seq(Int)
    PROVE  /\ <<a, b, c>> \o t \in Seq(Int) /\ Len(<<a, b, c>> \o t) = Len(t) + 3
           /\ (<<a, b, c>> \o t)[1] = a /\ (<<a, b, c>> \o t)[2] = b
           /\ (<<a, b, c>> \o t)[3] = c
           /\ \A k \in 1..Len(t) : (<<a, b, c>> \o t)[k + 3] = t[k]
  <1> DEFINE s == <<a, b, c>>
  <1>1. s \in Seq(Int) /\ Len(s) = 3 /\ s[1] = a /\ s[2] = b /\ s[3] = c
    OBVIOUS
  <1>2. Len(t) \in Nat
    OBVIOUS
  <1> HIDE DEF s
  <1>3. /\ s \o t \in Seq(Int) /\ Len(s \o t) = Len(s) + Len(t)
        /\ \A i \in 1..(Len(s) + Len(t)) :
              (s \o t)[i] = IF i <= Len(s) THEN s[i] ELSE t[i - Len(s)]
    BY <1>1, ConcatProperties
  <1>4. (s \o t)[1] = a /\ (s \o t)[2] = b /\ (s \o t)[3] = c
    BY <1>1, <1>2, <1>3
  <1>5. ASSUME NEW k \in 1..Len(t) PROVE (s \o t)[k + 3] = t[k]
    <2>1. k + 3 \in 1..(Len(s) + Len(t)) /\ ~(k + 3 <= Len(s)) /\ (k + 3) - Len(s) = k
      BY <1>1, <1>2
    <2> QED
      BY <1>3, <2>1
  <1> QED
    BY <1>1, <1>2, <1>3, <1>4, <1>5 DEF s

LEMMA HeadSmaller ==
    ASSUME NEW a \in Int, NEW b \in Int, NEW c \in Int, NEW t \in Seq(Int),
           NEW x \in Int, NEW y \in Int, NEW z \in Int, NEW u \in Seq(Int),
           x < a \/ (x = a /\ y < b) \/ (x = a /\ y = b /\ z < c)
    PROVE  CompareSeqs(<<x, y, z>> \o u, <<a, b, c>> \o t) = less
  <1> DEFINE s == <<a, b, c>> \o t
             r == <<x, y, z>> \o u
  <1>1. /\ s \in Seq(Int) /\ Len(s) = Len(t) + 3 /\ s[1] = a /\ s[2] = b /\ s[3] = c
        /\ r \in Seq(Int) /\ Len(r) = Len(u) + 3 /\ r[1] = x /\ r[2] = y /\ r[3] = z
        /\ Len(t) \in Nat /\ Len(u) \in Nat
    BY Measure, LenProperties
  <1> HIDE DEF s, r
  <1>2. \A i \in 1..3 : i \in 1..Len(s) /\ i \in 1..Len(r)
    <2>1. Len(s) >= 3 /\ Len(r) >= 3 /\ Len(s) \in Nat /\ Len(r) \in Nat
      BY <1>1
    <2> QED
      BY <2>1
  <1>3. CASE x < a
    <2>1. 1 \in 1..3 /\ \A j \in 1..(1 - 1) : r[j] = s[j]
      OBVIOUS
    <2> QED
      BY <1>1, <1>2, <1>3, <2>1, FirstSmaller DEF s, r
  <1>4. CASE x = a /\ y < b
    <2>1. 2 \in 1..3 /\ \A j \in 1..(2 - 1) : r[j] = s[j]
      BY <1>1, <1>4
    <2> QED
      BY <1>1, <1>2, <1>4, <2>1, FirstSmaller DEF s, r
  <1>5. CASE x = a /\ y = b /\ z < c
    <2>1. 3 \in 1..3 /\ \A j \in 1..(3 - 1) : j \in {1, 2}
      OBVIOUS
    <2>2. \A j \in 1..(3 - 1) : r[j] = s[j]
      BY <1>1, <1>5, <2>1
    <2> QED
      BY <1>1, <1>2, <1>5, <2>1, <2>2, FirstSmaller DEF s, r
  <1> QED
    BY <1>3, <1>4, <1>5

LEMMA TailSmaller ==
    ASSUME NEW a \in Int, NEW b \in Int, NEW c \in Int,
           NEW t \in Seq(Int), NEW u \in Seq(Int), NEW i \in 1..Len(u), i \in 1..Len(t),
           u[i] < t[i], \A j \in 1..(i - 1) : u[j] = t[j]
    PROVE  CompareSeqs(<<a, b, c>> \o u, <<a, b, c>> \o t) = less
  <1> DEFINE s == <<a, b, c>> \o t
             r == <<a, b, c>> \o u
  <1>1. /\ s \in Seq(Int) /\ Len(s) = Len(t) + 3 /\ s[1] = a /\ s[2] = b /\ s[3] = c
        /\ r \in Seq(Int) /\ Len(r) = Len(u) + 3 /\ r[1] = a /\ r[2] = b /\ r[3] = c
        /\ Len(t) \in Nat /\ Len(u) \in Nat
        /\ \A k \in 1..Len(t) : s[k + 3] = t[k]
        /\ \A k \in 1..Len(u) : r[k + 3] = u[k]
    <2>1. Len(t) \in Nat /\ Len(u) \in Nat
      BY LenProperties
    <2>2. /\ s \in Seq(Int) /\ Len(s) = Len(t) + 3 /\ s[1] = a /\ s[2] = b /\ s[3] = c
          /\ \A k \in 1..Len(t) : s[k + 3] = t[k]
      BY Measure
    <2>3. /\ r \in Seq(Int) /\ Len(r) = Len(u) + 3 /\ r[1] = a /\ r[2] = b /\ r[3] = c
          /\ \A k \in 1..Len(u) : r[k + 3] = u[k]
      BY Measure
    <2> QED
      BY <2>1, <2>2, <2>3
  <1> HIDE DEF s, r
  <1>2. i + 3 \in 1..Len(r) /\ i + 3 \in 1..Len(s) /\ r[i + 3] < s[i + 3]
    BY <1>1
  <1>3. ASSUME NEW j \in 1..((i + 3) - 1) PROVE r[j] = s[j]
    <2>1. CASE j \in {1, 2, 3}
      BY <1>1, <2>1
    <2>2. CASE j \notin {1, 2, 3}
      <3>1. j - 3 \in 1..(i - 1) /\ (j - 3) + 3 = j
        BY <2>2
      <3>2. j - 3 \in 1..Len(t) /\ j - 3 \in 1..Len(u)
        <4>1. Len(t) \in Nat /\ Len(u) \in Nat
          BY <1>1
        <4> QED
          BY <3>1, <4>1
      <3>3. s[j] = t[j - 3] /\ r[j] = u[j - 3]
        BY <1>1, <3>1, <3>2
      <3> QED
        BY <3>1, <3>3
    <2> QED
      BY <2>1, <2>2
  <1> QED
    BY <1>1, <1>2, <1>3, FirstSmaller DEF s, r

LEMMA TailShorter ==
    ASSUME NEW a \in Int, NEW b \in Int, NEW c \in Int,
           NEW t \in Seq(Int), NEW u \in Seq(Int), Len(u) < Len(t),
           \A j \in 1..Len(u) : u[j] = t[j]
    PROVE  CompareSeqs(<<a, b, c>> \o u, <<a, b, c>> \o t) = less
  <1> DEFINE s == <<a, b, c>> \o t
             r == <<a, b, c>> \o u
  <1>1. /\ s \in Seq(Int) /\ Len(s) = Len(t) + 3 /\ s[1] = a /\ s[2] = b /\ s[3] = c
        /\ r \in Seq(Int) /\ Len(r) = Len(u) + 3 /\ r[1] = a /\ r[2] = b /\ r[3] = c
        /\ Len(t) \in Nat /\ Len(u) \in Nat
        /\ \A k \in 1..Len(t) : s[k + 3] = t[k]
        /\ \A k \in 1..Len(u) : r[k + 3] = u[k]
    <2>1. Len(t) \in Nat /\ Len(u) \in Nat
      BY LenProperties
    <2>2. /\ s \in Seq(Int) /\ Len(s) = Len(t) + 3 /\ s[1] = a /\ s[2] = b /\ s[3] = c
          /\ \A k \in 1..Len(t) : s[k + 3] = t[k]
      BY Measure
    <2>3. /\ r \in Seq(Int) /\ Len(r) = Len(u) + 3 /\ r[1] = a /\ r[2] = b /\ r[3] = c
          /\ \A k \in 1..Len(u) : r[k + 3] = u[k]
      BY Measure
    <2> QED
      BY <2>1, <2>2, <2>3
  <1> HIDE DEF s, r
  <1>2. ASSUME NEW j \in 1..Len(r) PROVE r[j] = s[j]
    <2>1. CASE j \in {1, 2, 3}
      BY <1>1, <2>1
    <2>2. CASE j \notin {1, 2, 3}
      <3>1. j - 3 \in 1..Len(t) /\ j - 3 \in 1..Len(u) /\ (j - 3) + 3 = j
        BY <1>1, <2>2
      <3>2. s[j] = t[j - 3] /\ r[j] = u[j - 3]
        BY <1>1, <3>1
      <3> QED
        BY <3>1, <3>2
    <2> QED
      BY <2>1, <2>2
  <1>3. Len(r) < Len(s)
    BY <1>1
  <1>4. CompareSeqs(r, s) = less
    BY <1>1, <1>2, <1>3, Shorter
  <1> QED
    BY <1>4 DEF s, r

LEMMA OpenIsFinite ==
    ASSUME ChoiceInv, NEW f \in 1..Len(stack)
    PROVE  IsFiniteSet(stack[f].todo) /\ Cardinality(stack[f].todo) \in Nat
  <1>1. Given /\ GoodStack(stack) /\ stack \in Seq(Calls)
    BY InvStack DEF ChoiceInv, TypeOK, Given, GoodStack
  <1>2. stack[f].todo \subseteq Needs(stack[f].pkg) /\ stack[f].pkg \in Ids
    BY <1>1, CallFields DEF GoodStack
  <1>3. IsFiniteSet(pkgs[stack[f].pkg].deps)
    BY <1>1, <1>2, PackagesAreNumbered DEF IsPackage
  <1>4. stack[f].todo \in SUBSET pkgs[stack[f].pkg].deps
    BY <1>2 DEF Needs
  <1>5. IsFiniteSet(stack[f].todo)
    BY <1>3, <1>4, FS_Subset
  <1> QED
    BY <1>5, FS_CardinalityType

LEMMA NamesAreFinite ==
    ASSUME Given, NEW s \in Seq(Ids)
    PROVE  NamesIn(s) \subseteq Names /\ IsFiniteSet(NamesIn(s))
  <1>1. \A i \in Range(s) : pkgs[i].name \in Names
    BY PackagesAreNumbered, RangeElements
  <1>2. NamesIn(s) \in SUBSET Names
    BY <1>1, NamesInRange
  <1> QED
    BY <1>2, NamesAssumption, FS_Subset

\* The measure is a sequence of numbers.
LEMMA MeasureType ==
    ChoiceInv => /\ PhaseRank \in Int /\ Len(left) \in Int /\ Len(world) - pos \in Int
                   /\ OpenWork \in Seq(Int)
  <1> SUFFICES ASSUME ChoiceInv
               PROVE  /\ PhaseRank \in Int /\ Len(left) \in Int /\ Len(world) - pos \in Int
                      /\ OpenWork \in Seq(Int)
    OBVIOUS
  <1>1. Given /\ left \in Seq(Range(world)) /\ added \in Seq(Ids)
    BY DEF ChoiceInv, TypeOK, Given
  <1>2. PhaseRank \in Int
    BY DEF PhaseRank
  <1>3. Len(left) \in Int /\ Len(world) - pos \in Int
    <2>1. Len(left) \in Nat /\ Len(world) \in Nat
      BY <1>1, PackagesAreNumbered, LenProperties
    <2>2. pos \in 1..(Len(world) + 1)
      BY DEF ChoiceInv, TypeOK
    <2> QED
      BY <2>1, <2>2
  <1>4. CASE phase = "deps" /\ stack = <<>>
    BY <1>2, <1>3, <1>4 DEF OpenWork
  <1>5. CASE phase = "deps" /\ stack # <<>>
    <2> DEFINE cards == [f \in DOMAIN stack |-> Cardinality(stack[f].todo)]
               one == <<1>>
    <2>1. Len(stack) \in Nat /\ DOMAIN stack = 1..Len(stack)
      BY InvStack, LenProperties DEF GoodStack
    <2>2. \A f \in 1..Len(stack) : Cardinality(stack[f].todo) \in Int
      BY OpenIsFinite
    <2>3. cards \in Seq(Int)
      BY <2>1, <2>2, SeqDef
    <2>4. OpenWork = one \o cards /\ one \in Seq(Int)
      BY <1>5 DEF OpenWork
    <2> HIDE DEF cards, one
    <2>5. OpenWork \in Seq(Int)
      BY <2>3, <2>4, ConcatProperties
    <2> QED
      BY <1>2, <1>3, <2>5
  <1>6. CASE phase = "installIf"
    <2>1. IsFiniteSet(NamesIn(added)) /\ visit \subseteq NamesIn(added)
      BY <1>1, NamesAreFinite DEF ChoiceInv, TypeOK
    <2>2. /\ Cardinality(NamesIn(added)) \in Nat /\ Cardinality(visit) \in Nat
          /\ Cardinality(Names) \in Nat
      BY <2>1, NamesAssumption, FS_Subset, FS_CardinalityType
    <2>3. OpenWork = <<0, Cardinality(Names) - Cardinality(NamesIn(added)), Cardinality(visit)>>
      BY <1>6 DEF OpenWork
    <2> QED
      BY <1>2, <1>3, <2>2, <2>3
  <1>7. CASE phase \notin {"deps", "installIf"}
    <2>1. OpenWork = <<>>
      BY <1>7 DEF OpenWork
    <2> QED
      BY <1>2, <1>3, <2>1
  <1> QED
    BY <1>4, <1>5, <1>6, <1>7

LEMMA MeasureTypeNext ==
    (ChoiceInv => /\ PhaseRank \in Int /\ Len(left) \in Int /\ Len(world) - pos \in Int
                    /\ OpenWork \in Seq(Int))'
  BY MeasureType, PTL

LEMMA CallsWork ==
    ChoiceInv /\ phase = "deps" /\ stack # <<>> =>
       /\ Len(OpenWork) = Len(stack) + 1 /\ OpenWork[1] = 1
       /\ \A f \in 1..Len(stack) : OpenWork[f + 1] = Cardinality(stack[f].todo)
  <1> SUFFICES ASSUME ChoiceInv, phase = "deps", stack # <<>>
               PROVE  /\ Len(OpenWork) = Len(stack) + 1 /\ OpenWork[1] = 1
                      /\ \A f \in 1..Len(stack) : OpenWork[f + 1] = Cardinality(stack[f].todo)
    OBVIOUS
  <1> DEFINE cards == [f \in DOMAIN stack |-> Cardinality(stack[f].todo)]
             one == <<1>>
  <1>1. Len(stack) \in Nat /\ DOMAIN stack = 1..Len(stack)
    BY InvStack, LenProperties DEF GoodStack
  <1>2. \A f \in 1..Len(stack) : Cardinality(stack[f].todo) \in Int
    BY OpenIsFinite
  <1>3. cards \in Seq(Int) /\ Len(cards) = Len(stack)
    BY <1>1, <1>2, SeqDef
  <1>4. /\ OpenWork = one \o cards /\ one \in Seq(Int) /\ Len(one) = 1 /\ one[1] = 1
        /\ \A f \in 1..Len(stack) : cards[f] = Cardinality(stack[f].todo)
    BY <1>1 DEF OpenWork
  <1>4a. one \in Seq(Int)
    BY <1>4
  <1> HIDE DEF cards, one
  <1>5. /\ Len(one \o cards) = Len(one) + Len(cards)
        /\ \A i \in 1..(Len(one) + Len(cards)) :
              (one \o cards)[i] = IF i <= Len(one) THEN one[i] ELSE cards[i - Len(one)]
    BY <1>3, <1>4a, ConcatProperties
  <1>6. ASSUME NEW f \in 1..Len(stack)
        PROVE  OpenWork[f + 1] = Cardinality(stack[f].todo)
    <2>1. f + 1 \in 1..(Len(one) + Len(cards)) /\ ~(f + 1 <= Len(one)) /\ (f + 1) - Len(one) = f
      BY <1>1, <1>3, <1>4
    <2> QED
      BY <1>4, <1>5, <2>1
  <1>7. OpenWork[1] = 1
    <2>1. 1 \in 1..(Len(one) + Len(cards)) /\ 1 <= Len(one)
      BY <1>1, <1>3, <1>4
    <2> QED
      BY <1>4, <1>5, <2>1
  <1>8. Len(OpenWork) = Len(stack) + 1
    BY <1>1, <1>3, <1>4, <1>5
  <1> QED
    BY <1>6, <1>7, <1>8

LEMMA CallsWorkNext ==
    (ChoiceInv /\ phase = "deps" /\ stack # <<>> =>
       /\ Len(OpenWork) = Len(stack) + 1 /\ OpenWork[1] = 1
       /\ \A f \in 1..Len(stack) : OpenWork[f + 1] = Cardinality(stack[f].todo))'
  BY CallsWork, PTL

\* A step that lowers one of the first three numbers.
LEMMA HeadSteps ==
    ASSUME ChoiceInv, ChoiceInv',
           \/ PhaseRank' < PhaseRank
           \/ PhaseRank' = PhaseRank /\ Len(left') < Len(left)
           \/ /\ PhaseRank' = PhaseRank /\ Len(left') = Len(left)
              /\ Len(world') - pos' < Len(world) - pos
    PROVE  CompareSeqs(LeftToDo', LeftToDo) = less
  <1> DEFINE a == PhaseRank  b == Len(left)  c == Len(world) - pos  t == OpenWork
             x == PhaseRank' y == Len(left') z == Len(world') - pos' u == OpenWork'
  <1>1. a \in Int /\ b \in Int /\ c \in Int /\ t \in Seq(Int)
    BY MeasureType
  <1>2. x \in Int /\ y \in Int /\ z \in Int /\ u \in Seq(Int)
    BY MeasureTypeNext
  <1>3. LeftToDo = <<a, b, c>> \o t /\ LeftToDo' = <<x, y, z>> \o u
    BY DEF LeftToDo
  <1>4. x < a \/ (x = a /\ y < b) \/ (x = a /\ y = b /\ z < c)
    OBVIOUS
  <1> HIDE DEF a, b, c, t, x, y, z, u
  <1>5. CompareSeqs(<<x, y, z>> \o u, <<a, b, c>> \o t) = less
    BY <1>1, <1>2, <1>4, HeadSmaller
  <1> QED
    BY <1>3, <1>5

\* A step that lowers a later one, or drops the last.
LEMMA TailSteps ==
    ASSUME ChoiceInv, ChoiceInv', PhaseRank' = PhaseRank, left' = left,
           world' = world, pos' = pos,
           \/ \E i \in 1..Len(OpenWork') :
                 /\ i \in 1..Len(OpenWork) /\ OpenWork'[i] < OpenWork[i]
                 /\ \A j \in 1..(i - 1) : OpenWork'[j] = OpenWork[j]
           \/ /\ Len(OpenWork') < Len(OpenWork)
              /\ \A j \in 1..Len(OpenWork') : OpenWork'[j] = OpenWork[j]
    PROVE  CompareSeqs(LeftToDo', LeftToDo) = less
  <1> DEFINE a == PhaseRank  b == Len(left)  c == Len(world) - pos  t == OpenWork
             u == OpenWork'
  <1>1. a \in Int /\ b \in Int /\ c \in Int /\ t \in Seq(Int)
    BY MeasureType
  <1>2. u \in Seq(Int)
    BY MeasureTypeNext
  <1>3. LeftToDo = <<a, b, c>> \o t /\ LeftToDo' = <<a, b, c>> \o u
    BY DEF LeftToDo
  <1> HIDE DEF a, b, c
  <1>4. CASE \E i \in 1..Len(u) : /\ i \in 1..Len(t) /\ u[i] < t[i]
                                  /\ \A j \in 1..(i - 1) : u[j] = t[j]
    <2> HIDE DEF t, u
    <2>1. PICK i \in 1..Len(u) : /\ i \in 1..Len(t) /\ u[i] < t[i]
                                 /\ \A j \in 1..(i - 1) : u[j] = t[j]
      BY <1>4
    <2> QED
      BY <1>1, <1>2, <1>3, <2>1, TailSmaller
  <1>5. CASE Len(u) < Len(t) /\ \A j \in 1..Len(u) : u[j] = t[j]
    <2> HIDE DEF t, u
    <2> QED
      BY <1>1, <1>2, <1>3, <1>5, TailShorter
  <1> QED
    BY <1>4, <1>5

LEMMA ChooseForWorldIsLess ==
    ASSUME ChoiceInv, ChoiceInv', ChooseForWorld
    PROVE  CompareSeqs(LeftToDo', LeftToDo) = less
  <1> DEFINE next == nextPackage
  <1>1. Given /\ left \in Seq(Range(world)) /\ left # <<>>
    BY DEF ChoiceInv, TypeOK, Given, ChooseForWorld
  <1>2. left' = Select(left, Range(left) \ {next}) /\ PhaseRank' = PhaseRank
    BY DEF ChooseForWorld, PhaseRank
  <1>3. next \in Range(left)
    BY <1>1, nextPackageIsLeft
  <1> HIDE DEF next
  <1>4. Len(left') < Len(left)
    BY <1>1, <1>2, <1>3, SelectProperties
  <1> QED
    BY <1>2, <1>4, HeadSteps

LEMMA StartPackageIsLess ==
    ASSUME ChoiceInv, ChoiceInv', StartPackage
    PROVE  CompareSeqs(LeftToDo', LeftToDo) = less
  <1>1. PICK pkg : Call(pkg, <<>>, dq)
    BY DEF StartPackage
  <1>2. /\ phase = "deps" /\ stack = <<>>
        /\ left' = left /\ world' = world /\ pos' = pos
    BY DEF StartPackage, given
  <1>3. CASE phase' = "failed"
    <2>1. PhaseRank' < PhaseRank
      BY <1>2, <1>3 DEF PhaseRank
    <2> QED
      BY <2>1, HeadSteps
  <1>4. CASE phase' = "deps" /\ stack' = Append(<<>>, Frame(pkg))
    <2>1. stack' # <<>> /\ Len(stack') = 1
      BY <1>4
    <2>2. Len(OpenWork') = 2 /\ OpenWork'[1] = 1
      BY <1>4, <2>1, CallsWorkNext
    <2>3. OpenWork = <<2>>
      BY <1>2 DEF OpenWork
    <2>4. PhaseRank' = PhaseRank
      BY <1>2, <1>4 DEF PhaseRank
    <2>5. /\ 1 \in 1..Len(OpenWork') /\ 1 \in 1..Len(OpenWork) /\ OpenWork'[1] < OpenWork[1]
          /\ \A j \in 1..(1 - 1) : OpenWork'[j] = OpenWork[j]
      BY <2>2, <2>3
    <2> QED
      BY <1>2, <2>4, <2>5, TailSteps
  <1> QED
    BY <1>1, <1>3, <1>4 DEF Call

\* A round of the loop takes one dependency from the innermost call and leaves
\* the others as they are.
LEMMA DescendTakesOne ==
    ASSUME ChoiceInv, Descend, phase' = "deps"
    PROVE  /\ Len(stack') >= Len(stack)
           /\ \A f \in 1..(Len(stack) - 1) : stack'[f].todo = stack[f].todo
           /\ \E c \in stack[Len(stack)].todo :
                 stack'[Len(stack)].todo = stack[Len(stack)].todo \ {c}
  <1> DEFINE m == Len(stack)
  <1>1. m \in Nat
    BY InvStack
  <1>2. PICK c \in stack[m].todo :
           /\ \A f \in 1..(m - 1) : stack'[f] = stack[f]
           /\ stack'[m].todo = stack[m].todo \ {c}
           /\ Len(stack') = m \/ Len(stack') = m + 1
    BY DescendShape
  <1>3. Len(stack') >= m
    BY <1>1, <1>2
  <1> QED
    BY <1>2, <1>3

LEMMA DescendIsLess ==
    ASSUME ChoiceInv, ChoiceInv', Descend
    PROVE  CompareSeqs(LeftToDo', LeftToDo) = less
  <1> DEFINE m == Len(stack)
             u == OpenWork'
             t == OpenWork
  <1>1. /\ phase = "deps" /\ stack # <<>> /\ phase' \in {"deps", "failed"}
        /\ left' = left /\ world' = world /\ pos' = pos
    BY DEF Descend, Call, given
  <1>2. CASE phase' = "failed"
    <2>1. PhaseRank' < PhaseRank
      BY <1>1, <1>2 DEF PhaseRank
    <2> QED
      BY <2>1, HeadSteps
  <1>3. CASE phase' = "deps"
    <2>1. m \in Nat /\ m # 0 /\ m \in 1..m
      BY <1>1, InvStack
    <2>2. PICK c \in stack[m].todo :
             /\ Len(stack') >= m
             /\ \A f \in 1..(m - 1) : stack'[f].todo = stack[f].todo
             /\ stack'[m].todo = stack[m].todo \ {c}
      BY <1>3, DescendTakesOne
    <2>3. Len(t) = m + 1 /\ t[1] = 1 /\ \A f \in 1..m : t[f + 1] = Cardinality(stack[f].todo)
      BY <1>1, CallsWork
    <2>4. stack' # <<>> /\ Len(stack') \in Nat
      <3>1. stack' \in Seq(Calls')
        BY DEF ChoiceInv, TypeOK
      <3>2. Len(stack') \in Nat /\ (stack' = <<>> => Len(stack') = 0)
        BY <3>1, LenProperties
      <3> QED
        BY <2>1, <2>2, <3>2
    <2>5. /\ Len(u) = Len(stack') + 1 /\ u[1] = 1
          /\ \A f \in 1..Len(stack') : u[f + 1] = Cardinality(stack'[f].todo)
      BY <1>3, <2>4, CallsWorkNext
    <2>6. u[m + 1] < t[m + 1]
      <3>1. IsFiniteSet(stack[m].todo) /\ Cardinality(stack[m].todo) \in Nat
        BY <2>1, OpenIsFinite
      <3>2. Cardinality(stack[m].todo \ {c}) = Cardinality(stack[m].todo) - 1
        BY <2>2, <3>1, FS_RemoveElement
      <3>3. m \in 1..Len(stack')
        BY <2>1, <2>2, <2>4
      <3>4. u[m + 1] = Cardinality(stack'[m].todo) /\ t[m + 1] = Cardinality(stack[m].todo)
        BY <2>1, <2>3, <2>5, <3>3
      <3>5. u[m + 1] = Cardinality(stack[m].todo) - 1
        BY <2>2, <3>2, <3>4
      <3> HIDE DEF u, t
      <3> QED
        BY <3>1, <3>4, <3>5
    <2>7. ASSUME NEW j \in 1..((m + 1) - 1) PROVE u[j] = t[j]
      <3>1. CASE j = 1
        BY <2>3, <2>5, <3>1
      <3>2. CASE j # 1
        <4>1. j - 1 \in 1..(m - 1) /\ j - 1 \in 1..m /\ (j - 1) + 1 = j
          BY <2>1, <3>2
        <4>2. j - 1 \in 1..Len(stack')
          BY <2>1, <2>2, <2>4, <4>1
        <4>3. u[j] = Cardinality(stack'[j - 1].todo) /\ t[j] = Cardinality(stack[j - 1].todo)
          BY <2>3, <2>5, <4>1, <4>2
        <4> QED
          BY <2>2, <4>1, <4>3
      <3> QED
        BY <3>1, <3>2
    <2>8. m + 1 \in 1..Len(u) /\ m + 1 \in 1..Len(t)
      BY <2>1, <2>2, <2>3, <2>4, <2>5
    <2>9. PhaseRank' = PhaseRank
      BY <1>1, <1>3 DEF PhaseRank
    <2> QED
      BY <1>1, <2>6, <2>7, <2>8, <2>9, TailSteps
  <1> QED
    BY <1>1, <1>2, <1>3

LEMMA ReturnIsLess ==
    ASSUME ChoiceInv, ChoiceInv', Return
    PROVE  CompareSeqs(LeftToDo', LeftToDo) = less
  <1> DEFINE m == Len(stack)
             u == OpenWork'
             t == OpenWork
  <1>1. /\ phase = "deps" /\ phase' = "deps" /\ m > 1
        /\ left' = left /\ world' = world /\ pos' = pos
    BY DEF Return, given
  <1>2. /\ stack \in Seq(Calls) /\ m \in Nat /\ m - 1 \in 1..m /\ m - 1 \in Nat
        /\ m - 1 # 0 /\ stack # <<>>
    <2>1. GoodStack(stack) /\ m \in Nat /\ (stack = <<>> <=> m = 0)
      BY InvStack
    <2> QED
      BY <1>1, <2>1 DEF GoodStack
  <1>3. /\ Len(stack') = m - 1
        /\ \A f \in 1..(m - 2) : stack'[f] = stack[f]
        /\ stack'[m - 1].todo = stack[m - 1].todo
    BY ReturnShape
  <1>4. stack' # <<>>
    BY <1>2, <1>3
  <1>5. ASSUME NEW k \in 1..(m - 1) PROVE stack'[k].todo = stack[k].todo
    <2>1. CASE k = m - 1
      BY <1>3, <2>1
    <2>2. CASE k # m - 1
      <3>1. k \in 1..(m - 2)
        BY <1>2, <2>2
      <3> QED
        BY <1>3, <3>1
    <2> QED
      BY <2>1, <2>2
  <1>6. Len(t) = m + 1 /\ t[1] = 1 /\ \A f \in 1..m : t[f + 1] = Cardinality(stack[f].todo)
    BY <1>1, <1>2, CallsWork
  <1>7. /\ Len(u) = (m - 1) + 1 /\ u[1] = 1
        /\ \A f \in 1..(m - 1) : u[f + 1] = Cardinality(stack'[f].todo)
    BY <1>1, <1>3, <1>4, CallsWorkNext
  <1>8. ASSUME NEW j \in 1..Len(u) PROVE u[j] = t[j]
    <2>1. CASE j = 1
      BY <1>6, <1>7, <2>1
    <2>2. CASE j # 1
      <3>1. j - 1 \in 1..(m - 1) /\ j - 1 \in 1..m /\ (j - 1) + 1 = j
        BY <1>2, <1>7, <2>2
      <3>2. u[j] = Cardinality(stack'[j - 1].todo) /\ t[j] = Cardinality(stack[j - 1].todo)
        BY <1>6, <1>7, <3>1
      <3> QED
        BY <1>5, <3>1, <3>2
    <2> QED
      BY <2>1, <2>2
  <1>9. Len(u) < Len(t)
    BY <1>2, <1>6, <1>7
  <1>10. PhaseRank' = PhaseRank
    BY <1>1 DEF PhaseRank
  <1> QED
    BY <1>1, <1>8, <1>9, <1>10, TailSteps

LEMMA CollectedIsLess ==
    ASSUME ChoiceInv, ChoiceInv', Collected
    PROVE  CompareSeqs(LeftToDo', LeftToDo) = less
  <1>1. /\ phase = "deps" /\ phase' = "installIf" /\ Len(stack) = 1
        /\ left' = left /\ world' = world /\ pos' = pos
    BY DEF Collected, given
  <1>2. stack # <<>>
    BY <1>1, InvStack
  <1>3. Len(OpenWork) = 2 /\ OpenWork[1] = 1
    BY <1>1, <1>2, CallsWork
  <1>4. OpenWork' = <<0, Cardinality(Names) - Cardinality(NamesIn(added)'),
                      Cardinality(visit')>>
    BY <1>1 DEF OpenWork
  <1>5. Len(OpenWork') = 3 /\ OpenWork'[1] = 0
    BY <1>4
  <1>6. /\ 1 \in 1..Len(OpenWork') /\ 1 \in 1..Len(OpenWork) /\ OpenWork'[1] < OpenWork[1]
        /\ \A j \in 1..(1 - 1) : OpenWork'[j] = OpenWork[j]
    BY <1>3, <1>5
  <1>7. PhaseRank' = PhaseRank
    BY <1>1 DEF PhaseRank
  <1> QED
    BY <1>1, <1>6, <1>7, TailSteps

LEMMA VisitInstallIfIsLess ==
    ASSUME ChoiceInv, ChoiceInv', VisitInstallIf
    PROVE  CompareSeqs(LeftToDo', LeftToDo) = less
  <1> DEFINE N == Cardinality(Names)
             old == NamesIn(added)
             u == OpenWork'
             t == OpenWork
  <1>1. /\ phase = "installIf" /\ phase' = "installIf" /\ UNCHANGED given
        /\ left' = left /\ world' = world /\ pos' = pos
    BY DEF VisitInstallIf, given
  <1>2. PICK i, more, n :
           /\ n \in visit
           /\ LET new == AppendInstallIf(added, InstallIfList(i))
              IN  /\ added' = new
                  /\ more \in SUBSET (NamesIn(new) \ NamesIn(added))
                  /\ visit' = (visit \ {n}) \cup more
    BY DEF VisitInstallIf
  <1> DEFINE new == NamesIn(added')
  <1>3. /\ added' = AppendInstallIf(added, InstallIfList(i))
        /\ more \subseteq new \ old /\ visit' = (visit \ {n}) \cup more
    BY <1>2
  <1>4. Given /\ added \in Seq(Ids) /\ visit \subseteq old /\ added' \in Seq(Ids)
    <2>1. added' \in Seq(Ids')
      BY DEF ChoiceInv, TypeOK
    <2> QED
      BY <1>1, <2>1, SameLookups DEF ChoiceInv, TypeOK, Given
  <1>5. old \subseteq new
    <2>1. InstallIfList(i) \in Seq(Ids)
      <3>1. \A S : S \subseteq Ids => InOrder(S) \in Seq(Ids)
        BY <1>4, InOrderProperties
      <3> QED
        BY <3>1 DEF InstallIfList
    <2>2. Range(added) \subseteq Range(added')
      BY <1>3, <1>4, <2>1, AppendInstallIfProperties
    <2> QED
      BY <2>2, NamesInRange
  <1>6. IsFiniteSet(old) /\ IsFiniteSet(new)
    BY <1>4, NamesAreFinite
  <1>7. NamesIn(added)' = new
    BY <1>1, SameLookups
  <1>8. /\ t = <<0, N - Cardinality(old), Cardinality(visit)>>
        /\ u = <<0, N - Cardinality(new), Cardinality(visit')>>
    BY <1>1, <1>7 DEF OpenWork
  <1> HIDE DEF old, new
  <1>9. N \in Nat /\ Cardinality(old) \in Nat /\ Cardinality(new) \in Nat
    BY <1>6, NamesAssumption, FS_CardinalityType
  <1>10. IsFiniteSet(visit) /\ Cardinality(visit) \in Nat
    BY <1>4, <1>6, FS_Subset, FS_CardinalityType
  <1> HIDE DEF N
  <1>11. /\ Len(t) = 3 /\ t[1] = 0 /\ t[2] = N - Cardinality(old) /\ t[3] = Cardinality(visit)
         /\ Len(u) = 3 /\ u[1] = 0 /\ u[2] = N - Cardinality(new) /\ u[3] = Cardinality(visit')
    BY <1>8
  <1> HIDE DEF t, u
  <1>12. PhaseRank' = PhaseRank
    BY <1>1 DEF PhaseRank
  <1>13. \E k \in 1..Len(u) : /\ k \in 1..Len(t) /\ u[k] < t[k]
                              /\ \A j \in 1..(k - 1) : u[j] = t[j]
    <2>1. CASE new = old
      <3>1. visit' = visit \ {n}
        BY <1>3, <2>1
      <3>2. Cardinality(visit') = Cardinality(visit) - 1
        BY <1>2, <1>10, <3>1, FS_RemoveElement
      <3>3. 3 \in 1..Len(u) /\ 3 \in 1..Len(t) /\ u[3] < t[3]
        BY <1>10, <1>11, <3>2
      <3>4. \A j \in 1..(3 - 1) : j \in {1, 2}
        OBVIOUS
      <3>5. \A j \in 1..(3 - 1) : u[j] = t[j]
        BY <1>11, <2>1, <3>4
      <3> QED
        BY <3>3, <3>5
    <2>2. CASE new # old
      <3>1. Cardinality(old) <= Cardinality(new) /\ Cardinality(new) # Cardinality(old)
        BY <1>5, <1>6, <2>2, FS_Subset
      <3>2. 2 \in 1..Len(u) /\ 2 \in 1..Len(t) /\ u[2] < t[2]
        BY <1>9, <1>11, <3>1
      <3>3. \A j \in 1..(2 - 1) : j = 1
        OBVIOUS
      <3>4. \A j \in 1..(2 - 1) : u[j] = t[j]
        BY <1>11, <3>3
      <3> QED
        BY <3>2, <3>4
    <2> QED
      BY <2>1, <2>2
  <1> QED
    BY <1>1, <1>12, <1>13, TailSteps DEF t, u

LEMMA TakeIsLess ==
    ASSUME ChoiceInv, ChoiceInv', Take
    PROVE  CompareSeqs(LeftToDo', LeftToDo) = less
  <1>1. /\ phase = "installIf" /\ left' = left /\ world' = world /\ pos' = pos + 1
        /\ phase' \in {"done", "deps"}
    BY DEF Take, given
  <1>2. CASE phase' = "done"
    <2>1. PhaseRank' < PhaseRank
      BY <1>1, <1>2 DEF PhaseRank
    <2> QED
      BY <2>1, HeadSteps
  <1>3. CASE phase' = "deps"
    <2>1. PhaseRank' = PhaseRank
      BY <1>1, <1>3 DEF PhaseRank
    <2>2. Len(world') - pos' < Len(world) - pos
      <3>1. Len(world) \in Nat /\ pos \in Int
        <4>1. Given /\ pos \in 1..(Len(world) + 1)
          BY DEF ChoiceInv, TypeOK, Given
        <4>2. Len(world) \in Nat
          BY <4>1, PackagesAreNumbered, LenProperties
        <4> QED
          BY <4>1, <4>2
      <3> QED
        BY <1>1, <3>1
    <2> QED
      BY <1>1, <2>1, <2>2, HeadSteps
  <1> QED
    BY <1>1, <1>2, <1>3

\* Every step of the resolver leaves less to be done, for every set of indexes
\* and every world, with any cycles among the dependencies.  As the depth is
\* bounded and the numbers are natural ones, the resolver does not run forever.
THEOREM ResolverAdvances == Spec => Advances
  <1>1. ChoiceInv /\ ChoiceInv' /\ [Next]_vars
           => [CompareSeqs(LeftToDo', LeftToDo) = less]_vars
    <2> SUFFICES ASSUME ChoiceInv, ChoiceInv', Next
                 PROVE  CompareSeqs(LeftToDo', LeftToDo) = less \/ UNCHANGED vars
      OBVIOUS
    <2>1. CASE Constrain \/ WorldUnsolvable \/ WorldChosen \/ Unresolvable \/ NoOption
               \/ FixateWorld
      <3>1. PhaseRank' < PhaseRank
        BY <2>1 DEF PhaseRank, Constrain, WorldUnsolvable, WorldChosen, Unresolvable,
           NoOption, FixateWorld
      <3> QED
        BY <3>1, HeadSteps
    <2>2. CASE ChooseForWorld
      BY <2>2, ChooseForWorldIsLess
    <2>3. CASE StartPackage
      BY <2>3, StartPackageIsLess
    <2>4. CASE Descend
      BY <2>4, DescendIsLess
    <2>5. CASE Return
      BY <2>5, ReturnIsLess
    <2>6. CASE Collected
      BY <2>6, CollectedIsLess
    <2>7. CASE VisitInstallIf
      BY <2>7, VisitInstallIfIsLess
    <2>8. CASE Take
      BY <2>8, TakeIsLess
    <2>9. CASE Finished
      BY <2>9 DEF Finished
    <2> QED
      BY <2>1, <2>2, <2>3, <2>4, <2>5, <2>6, <2>7, <2>8, <2>9 DEF Next
  <1>2. Spec => [][Next]_vars
    BY PTL DEF Spec
  <1> QED
    BY <1>1, <1>2, ChoiceInvariance, PTL DEF Advances
=============================================================================
