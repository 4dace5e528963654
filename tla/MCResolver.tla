----------------------------- MODULE MCResolver -----------------------------
(* Instances of Resolver: three families of small indexes, and the order of *)
(* versions over a sample.                                                  *)
EXTENDS Resolver

MCNames == 1..4
A == 1
B == 2
C == 3
D == 4

V(n) == [NoText EXCEPT !.numbers = <<n>>]
Req(n) == [not |-> FALSE, name |-> n, op |-> "", version |-> NoText, pin |-> NoPin]
ReqV(n, o, v) == [Req(n) EXCEPT !.op = o, !.version = V(v)]
Not(n) == [Req(n) EXCEPT !.not = TRUE]
Edge(c) == [c EXCEPT !.pin = "edge"]

P(n, v, deps) ==
    [name |-> n, version |-> V(v), provides |-> <<>>, deps |-> deps,
     installIf |-> {}, origin |-> NoOrigin, pin |-> NoPin, priority |-> 0]
WithV(p, text) == [p EXCEPT !.provides = (D :> text)]

\* The order of the texts: the name, the operator as its characters are ordered
\* in front of a digit, the version.
OperatorOrder == <<"", "<", "<=", "=", ">", ">=", "~">>
MCText(c) ==
    100 * c.name + 10 * (CHOOSE r \in DOMAIN OperatorOrder : OperatorOrder[r] = c.op)
       + (IF c.version = NoText THEN 0 ELSE c.version.numbers[1])

----------------------------------------------------------------------------
(* Versions, conflicts and cycles among the dependencies.                  *)

DependencyUniverses ==
    {[pkgs |-> <<P(A, 1, da), P(B, 1, {}), P(B, 2, db), P(C, 1, {}), P(C, 2, dc),
                 P(D, 1, dd)>>,
      world |-> w, installed |-> {B}] :
        da \in {{Req(B), Req(C)}, {ReqV(B, "<", 2), Req(D)}, {Not(B), Req(C)},
                {Req(D)}},
        db \in {{}, {Req(A)}, {Req(D)}},
        dc \in {{}, {ReqV(B, "=", 1)}, {ReqV(B, ">", 1), Req(D)}, {Req(A)}},
        dd \in {{}, {Req(B)}, {ReqV(C, "<=", 1), ReqV(D, ">=", 1)}},
        w \in {<<Req(A)>>, <<Req(D), Req(A)>>, <<Req(A), ReqV(B, "=", 1)>>,
               <<ReqV(C, "~", 2), Req(A)>>}}

\* Packages that provide the name D, with and without a version; priorities,
\* origins and a tagged index.
VirtualUniverses ==
    {[pkgs |-> <<P(A, 1, da), WithV(P(B, 1, {}), vb), P(B, 2, {}),
                 [WithV(P(C, 1, {}), vc) EXCEPT !.priority = pc, !.origin = oc],
                 [WithV(P(C, 2, {Req(A)}), V(2)) EXCEPT !.pin = "edge", !.origin = "o"]>>,
      world |-> w, installed |-> {B}] :
        da \in {{Req(D)}, {ReqV(D, "=", 1)}, {ReqV(D, ">", 1), Req(C)}},
        vb \in {NoText, V(1), V(2)},
        vc \in {NoText, V(1)},
        pc \in {0, 1},
        oc \in {NoOrigin, "o"},
        w \in {<<Req(A)>>, <<Req(B), Req(D)>>, <<Edge(Req(C)), Req(A)>>,
               <<Req(D), Edge(Req(A))>>, <<Req(A), Not(C)>>, <<>>}}

\* install_if, versions that do not parse, and constraints that do not.
InstallIfUniverses ==
    {[pkgs |-> <<P(A, 1, {Req(B), cb}), P(B, 1, {}), P(B, 2, {Req(C)}),
                 [P(C, 1, {}) EXCEPT !.version = vc],
                 [P(D, 1, {Req(A)}) EXCEPT !.installIf = di],
                 [P(C, 2, {}) EXCEPT !.installIf = ci]>>,
      world |-> w, installed |-> {B}] :
        cb \in {Req(C), ReqV(C, "<", 2), [Req(C) EXCEPT !.op = "="]},
        vc \in {V(1), NoText, V(MaxInt + 1)},
        di \in {{Req(B)}, {Req(B), ReqV(C, "=", 1)}, {ReqV(B, "=", 2)}},
        ci \in {{}, {Req(D)}},
        w \in {<<Req(A)>>, <<Req(C), Req(A)>>, <<[Req(B) EXCEPT !.op = ">"]>>}}

MCUniverses == DependencyUniverses \cup VirtualUniverses \cup InstallIfUniverses

\* a needs b and c; the newest c needs the older b, which is looked at only
\* when the newest b has been chosen.
MCDiamond ==
    {[pkgs |-> <<P(A, 1, {Req(B), Req(C)}), P(B, 1, {}), P(B, 2, {}), P(C, 1, {}),
                 P(C, 2, {ReqV(B, "=", 1)})>>,
      world |-> <<Req(A)>>, installed |-> {}]}

----------------------------------------------------------------------------

Samples ==
    {[numbers |-> ns, letter |-> l, preSuffix |-> q, preSuffixNumber |-> 0,
      postSuffix |-> s, postSuffixNumber |-> sn, revision |-> r] :
        ns \in {<<1>>, <<1, 2>>, <<1, 10>>, <<2>>}, l \in {0, 97},
        q \in {0, 1, 4}, s \in {0, 3}, sn \in {0, 1}, r \in {0, 1}}

Small == {v \in Samples : v.letter = 0 /\ v.postSuffixNumber = 0}

\* The order of versions is a total one, and the operators of constraints agree
\* with it and with each other.
ASSUME VersionOrder ==
    /\ \A v, w \in Samples :
          /\ CompareVersions(v, w) = -CompareVersions(w, v)
          /\ CompareVersions(v, w) = equal <=> v = w
          /\ satisfies(">=", v, w) <=> ~satisfies("<", v, w)
          /\ satisfies("=", v, w) => satisfies("~", v, w)
    /\ \A u, v, w \in Small :
          /\ satisfies("<=", u, v) /\ satisfies("<=", v, w) => satisfies("<=", u, w)
          /\ satisfies("~", u, v) /\ satisfies("~", v, w) => satisfies("~", u, w)
=============================================================================
