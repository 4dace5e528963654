------------------------------ MODULE Resolver ------------------------------
(***************************************************************************)
(* PkgResolver.GetPackagesWithDependencies (pkg/apk/repo.go): from the     *)
(* constraints of /etc/apk/world and the packages of the indexes to the    *)
(* list of packages to install, in the order in which InstallPackages will *)
(* install them; and FixateWorld, which calls it, up to InstallPackages.   *)
(*                                                                         *)
(* The recursion of getPackageDependencies is the variable stack, one      *)
(* frame per call.  Names are numbers, so that they can be compared as the *)
(* code compares strings.  A pointer to a package is its place in the      *)
(* indexes.  The order in which NewPkgResolver walks its map of names is   *)
(* not fixed by Go; the model takes the order of the indexes, and          *)
(* ChoiceOrderIndependent says that it makes no difference.                *)
(***************************************************************************)
EXTENDS Version, FiniteSets, SequencesExt

CONSTANTS Names,      \* the names of packages and of what they provide
          Text(_),    \* the place of a constraint among the texts in order
          Universes   \* sets of indexes, and a world to be solved with them

ASSUME NamesAssumption == Names \subseteq Nat /\ IsFiniteSet(Names)

None == 0             \* no package
NoPin == ""           \* no tag: an index without one, a constraint without one
NoOrigin == ""

\* A constraint as it is written: "!name", "name>=version", "name@pin"; an
\* index entry; and an instance.
Matchers == {"=", ">", "<", ">=", "<=", "~"}
IsConstraint(c) ==
    /\ DOMAIN c = {"not", "name", "op", "version", "pin"}
    /\ c.not \in BOOLEAN /\ c.name \in Names /\ c.op \in Matchers \cup {""}
IsPackage(p) ==
    /\ DOMAIN p = {"name", "version", "provides", "deps", "installIf",
                   "origin", "pin", "priority"}
    /\ p.name \in Names /\ DOMAIN p.provides \subseteq Names
    /\ \A c \in p.deps \cup p.installIf : IsConstraint(c) /\ Text(c) \in Nat
    /\ IsFiniteSet(p.deps)

\* Two dependencies of a package are two texts.
IsUniverse(ps, w, names) ==
    /\ ps \in Seq(Range(ps)) /\ w \in Seq(Range(w)) /\ names \subseteq Names
    /\ \A p \in Range(ps) : /\ IsPackage(p)
                            /\ \A c, d \in p.deps : Text(c) = Text(d) => c = d
    /\ \A c \in Range(w) : IsConstraint(c)

ASSUME UniversesAssumption ==
    \A u \in Universes : IsUniverse(u.pkgs, u.world, u.installed)

VARIABLES
    pkgs,        \* the packages of all indexes, in the order of the indexes
    world,       \* the constraints to solve, in the order of the file
    installed,   \* the names in the installed database
    phase,       \* where FixateWorld is
    left,        \* world constraints for which no package is chosen yet
    dq,          \* the packages disqualified so far
    depMap,      \* dependenciesMap: name to the package chosen for it, or None
    pos,         \* the world constraint whose dependencies are looked for
    stack,       \* the calls of getPackageDependencies, outermost first
    existing,    \* the map existing of these calls
    origins,     \* their existingOrigins
    added,       \* dependencies of GetPackageWithDependencies, no name twice
    visit,       \* the names of added that range over added will still yield
    toInstall,   \* the result
    conflicts,   \* the constraints "!name" met
    optional     \* packages that are there because of install_if (history)

given == <<pkgs, world, installed>>
vars == <<given, phase, left, dq, depMap, pos, stack, existing, origins,
          added, visit, toInstall, conflicts, optional>>

----------------------------------------------------------------------------
(* Looking packages up                                                     *)

Ids == DOMAIN pkgs
NamesIn(s) == {pkgs[s[j]].name : j \in DOMAIN s}

\* The elements of s that are in S, in their order.
Select(s, S) ==
    LET upTo[k \in 0..Len(s)] ==
           IF k = 0 THEN <<>>
           ELSE IF s[k] \in S THEN Append(upTo[k - 1], s[k]) ELSE upTo[k - 1]
    IN  upTo[Len(s)]

InOrder(S) == Select([i \in Ids |-> i], S)

\* nameMap[n]: the packages of that name, then those that provide it.
nameMap(n) ==
    InOrder({i \in Ids : pkgs[i].name = n})
       \o InOrder({i \in Ids : n \in DOMAIN pkgs[i].provides})

\* resolvePackageNameVersionPin: an unknown operator asks for no version.
Dep(c) == IF c.op \in Matchers THEN c.op ELSE "any"

Meets(text, c) ==
    /\ ~Invalid(text)
    /\ satisfies(Dep(c), ParseVersion(text), ParseVersion(c.version))

\* The filter of filterPackages: pins are the tags that are preferred or
\* allowed, chosen the package already chosen under this name.  Any version
\* the package provides will do, whatever the name it is provided for.
Passes(i, c, D, pins, chosen) ==
    /\ i \notin D
    /\ pkgs[i].pin \in pins \cup {NoPin} \/ i = chosen
    /\ \/ Dep(c) = "any"
       \/ /\ ~Invalid(c.version)
          /\ ~Invalid(pkgs[i].version)
          /\ \/ Meets(pkgs[i].version, c)
             \/ \E n \in DOMAIN pkgs[i].provides : Meets(pkgs[i].provides[n], c)

filterPackages(c, D, pins, chosen) ==
    Select(nameMap(c.name), {i \in Ids : Passes(i, c, D, pins, chosen)})

\* ResolvePackage: what a constraint of the world can be solved with.  It does
\* not know "!name" and looks for a package of that name.
Options(c, D) ==
    IF c.not THEN <<>> ELSE filterPackages(c, D, {c.pin}, None)

----------------------------------------------------------------------------
(* Choosing the best                                                       *)

\* The version under which i provides n.
getDepVersionForName(i, n) ==
    IF pkgs[i].name = n THEN pkgs[i].version
    ELSE IF n \notin DOMAIN pkgs[i].provides THEN NoText
    ELSE IF pkgs[i].provides[n] = NoText THEN pkgs[i].version
    ELSE pkgs[i].provides[n]

\* What counts before the version, 1 for preferred: chosen already, an origin
\* chosen already, the tag asked for, the provider priority.
Preference(i, ex, os, pin) ==
    LET met == ex[pkgs[i].name]
    IN  <<IF met # None /\ pkgs[met].version = pkgs[i].version THEN 1 ELSE 0,
          IF pkgs[i].origin \in os THEN 1 ELSE 0,
          IF pkgs[i].pin = pin THEN 1 ELSE 0,
          pkgs[i].priority>>

\* The higher version first, one that does not parse last.
Newer(s, t) ==
    CASE Invalid(s) -> 1
      [] ~Invalid(s) /\ Invalid(t) -> -1
      [] OTHER -> CompareVersions(ParseVersion(t), ParseVersion(s))

FirstVerdict(verdicts) ==
    IF \A v \in DOMAIN verdicts : verdicts[v] = 0 THEN 0
    ELSE verdicts[CHOOSE v \in DOMAIN verdicts :
                    /\ verdicts[v] # 0
                    /\ \A u \in 1..(v - 1) : verdicts[u] = 0]

\* Mutant: the packages' own versions and names are not looked at.
comparePackagesUnnamed(n, ex, os, pin, a, b) ==
    FirstVerdict(
        <<CompareSeqs(Preference(b, ex, os, pin), Preference(a, ex, os, pin)),
          Newer(getDepVersionForName(a, n), getDepVersionForName(b, n))>>)

\* Negative if a is to be preferred over b.
comparePackages(n, ex, os, pin, a, b) ==
    LET va == getDepVersionForName(a, n)
        vb == getDepVersionForName(b, n)
    IN  FirstVerdict(
            <<CompareSeqs(Preference(b, ex, os, pin), Preference(a, ex, os, pin)),
              Newer(va, vb),
              IF va # pkgs[a].version \/ vb # pkgs[b].version
              THEN Newer(pkgs[a].version, pkgs[b].version) ELSE 0,
              Compare(pkgs[a].name, pkgs[b].name)>>)

\* slices.MinFunc: the first of the least.
bestPackage(s, n, ex, os, pin) ==
    LET lesser(a, b) == IF comparePackages(n, ex, os, pin, a, b) < 0 THEN a ELSE b
        min[k \in 1..Len(s)] == IF k = 1 THEN s[1] ELSE lesser(s[k], min[k - 1])
    IN  min[Len(s)]

NoneExisting == [n \in Names |-> None]

----------------------------------------------------------------------------
(* Disqualifying                                                           *)

\* What constrain and disqualifyProviders do for one constraint.
DisqualifiedBy(c) ==
    CASE c.not -> {i \in Range(nameMap(c.name)) : Passes(i, c, {}, {c.pin}, None)}
      [] ~c.not /\ Dep(c) = "any" -> {}
      [] OTHER -> {i \in Range(nameMap(c.name)) :
                      ~Meets(IF pkgs[i].name = c.name THEN pkgs[i].version
                             ELSE pkgs[i].provides[c.name], c)}

\* Mutant: only "!name" disqualifies.
constrainConflicts(cs, D) == D \cup UNION {DisqualifiedBy(c) : c \in {d \in cs : d.not}}

constrain(cs, D) == D \cup UNION {DisqualifiedBy(c) : c \in cs}

\* The error of constrain.
Unconstrainable(cs) ==
    \E c \in cs : /\ ~c.not /\ Dep(c) # "any"
                  /\ nameMap(c.name) # <<>>
                  /\ Invalid(c.version)

\* A package that provides a name with a version excludes the others that have
\* it, one that provides it without only those that have it with a version.
conflictingVersion(text, n, j) ==
    \/ text # NoText
    \/ IF pkgs[j].name = n THEN pkgs[j].version # NoText
       ELSE pkgs[j].provides[n] # NoText

disqualifyConflicts(i, D) ==
    D \cup {j \in Ids \ {i} :
              \E n \in DOMAIN pkgs[i].provides :
                 /\ j \in Range(nameMap(n))
                 /\ conflictingVersion(pkgs[i].provides[n], n, j)}

----------------------------------------------------------------------------
(* Choosing a package for every constraint of the world                    *)

Init ==
    \E u \in Universes :
       /\ pkgs = u.pkgs /\ world = u.world /\ installed = u.installed
       /\ phase = "constrain"
       /\ left = u.world
       /\ dq = {}
       /\ depMap = NoneExisting
       /\ pos = 1
       /\ stack = <<>>
       /\ existing = NoneExisting
       /\ origins = {}
       /\ added = <<>>
       /\ visit = {}
       /\ toInstall = <<>>
       /\ conflicts = {}
       /\ optional = {}

Constrain ==
    /\ phase = "constrain"
    /\ dq' = constrain(Range(world), dq)
    /\ phase' = IF Unconstrainable(Range(world)) THEN "failed" ELSE "world"
    /\ UNCHANGED <<given, left, depMap, pos, stack, existing, origins, added,
                   visit, toInstall, conflicts, optional>>

\* nextPackage: the first of the constraints with the fewest options.
nextPackage ==
    LET size(k) == Len(Options(left[k], dq))
    IN  left[CHOOSE k \in DOMAIN left :
               /\ \A j \in DOMAIN left : size(k) <= size(j)
               /\ \A j \in 1..(k - 1) : size(k) < size(j)]

ChooseForWorld ==
    /\ phase = "world"
    /\ left # <<>>
    /\ \A k \in DOMAIN left : Options(left[k], dq) # <<>>
    /\ LET next == nextPackage
           pkg == bestPackage(Options(next, dq), next.name, NoneExisting, {},
                              next.pin)
       IN  /\ depMap' = [depMap EXCEPT ![pkgs[pkg].name] = pkg]
           /\ left' = Select(left, Range(left) \ {next})
           /\ dq' = disqualifyConflicts(pkg, dq)
    /\ UNCHANGED <<given, phase, pos, stack, existing, origins, added, visit,
                   toInstall, conflicts, optional>>

WorldUnsolvable ==
    /\ phase = "world"
    /\ \E k \in DOMAIN left : Options(left[k], dq) = <<>>
    /\ phase' = "failed"
    /\ UNCHANGED <<given, left, dq, depMap, pos, stack, existing, origins,
                   added, visit, toInstall, conflicts, optional>>

\* Mutant: what was disqualified meanwhile is taken into account by a new start.
WorldChosenAgain ==
    /\ phase = "world"
    /\ left = <<>>
    /\ phase' = "constrain"
    /\ left' = world
    /\ UNCHANGED <<given, dq, depMap, pos, stack, existing, origins,
                   added, visit, toInstall, conflicts, optional>>

WorldChosen ==
    /\ phase = "world"
    /\ left = <<>>
    /\ phase' = IF world = <<>> THEN "done" ELSE "deps"
    /\ UNCHANGED <<given, left, dq, depMap, pos, stack, existing, origins,
                   added, visit, toInstall, conflicts, optional>>

----------------------------------------------------------------------------
(* The dependencies of one package: getPackageDependencies                 *)

\* The dependencies for which a package has to be found: not "!name", not what
\* the package provides, not itself in a version that will do.
Needs(i) ==
    {c \in pkgs[i].deps :
       /\ ~c.not
       /\ c.name \notin DOMAIN pkgs[i].provides
       /\ ~(/\ pkgs[i].name = c.name
            /\ ~Invalid(pkgs[i].version)
            /\ Dep(c) # "any" => ~Invalid(c.version)
            /\ Meets(pkgs[i].version, c))}

\* A call for package i: its constraints are applied, its conflicts noted.
Frame(i) == [pkg |-> i, todo |-> Needs(i), out |-> <<>>]

Call(i, rest, D) ==
    /\ dq' = constrain(pkgs[i].deps, D)
    /\ conflicts' = conflicts \cup {c \in pkgs[i].deps : c.not}
    /\ IF Unconstrainable(pkgs[i].deps)
       THEN phase' = "failed" /\ stack' = <<>>
       ELSE phase' = "deps" /\ stack' = Append(rest, Frame(i))

\* GetPackageWithDependencies for the next constraint of the world.  The
\* package is resolved again, by what is disqualified meanwhile.
StartPackage ==
    /\ phase = "deps"
    /\ stack = <<>>
    /\ pos <= Len(world)
    /\ Options(world[pos], dq) # <<>>
    /\ Call(bestPackage(Options(world[pos], dq), world[pos].name, NoneExisting,
                        {}, world[pos].pin),
            <<>>, dq)
    /\ existing' = depMap
    /\ origins' = {pkgs[depMap[n]].origin : n \in {m \in Names : depMap[m] # None}}
                    \ {NoOrigin}
    /\ UNCHANGED <<given, left, depMap, pos, added, visit, toInstall, optional>>

Unresolvable ==
    /\ phase = "deps"
    /\ stack = <<>>
    /\ pos <= Len(world)
    /\ Options(world[pos], dq) = <<>>
    /\ phase' = "failed"
    /\ UNCHANGED <<given, left, dq, depMap, pos, stack, existing, origins,
                   added, visit, toInstall, conflicts, optional>>

DepOptions(c) == filterPackages(c, dq, {world[pos].pin}, existing[c.name])

\* The dependency with the fewest options, ties broken by the text.
Lowest(cs) ==
    CHOOSE c \in cs : \A d \in cs :
       \/ Len(DepOptions(c)) < Len(DepOptions(d))
       \/ Len(DepOptions(c)) = Len(DepOptions(d)) /\ Text(c) <= Text(d)

\* Mutant: only the innermost call is looked at.
IsParentLast(dep) == pkgs[Last(stack).pkg].name = pkgs[dep].name

IsParent(dep) == \E f \in DOMAIN stack : pkgs[stack[f].pkg].name = pkgs[dep].name

\* One round of the loop.  A package whose name is on the stack already is a
\* cycle: the call for it returns at once.
Descend ==
    /\ phase = "deps"
    /\ stack # <<>>
    /\ Last(stack).todo # {}
    /\ \A c \in Last(stack).todo : DepOptions(c) # <<>>
    /\ LET c == Lowest(Last(stack).todo)
           dep == bestPackage(DepOptions(c), c.name, existing, origins, NoPin)
           D == disqualifyConflicts(dep, dq)
           rest == [stack EXCEPT ![Len(stack)].todo = @ \ {c}]
       IN  IF IsParent(dep)
           THEN /\ dq' = D
                /\ stack' = [rest EXCEPT ![Len(stack)].out = Append(@, dep)]
                /\ UNCHANGED <<phase, conflicts>>
           ELSE Call(dep, rest, D)
    /\ UNCHANGED <<given, left, depMap, pos, existing, origins, added, visit,
                   toInstall, optional>>

NoOption ==
    /\ phase = "deps"
    /\ stack # <<>>
    /\ \E c \in Last(stack).todo : DepOptions(c) = <<>>
    /\ phase' = "failed"
    /\ UNCHANGED <<given, left, dq, depMap, pos, stack, existing, origins,
                   added, visit, toInstall, conflicts, optional>>

\* Mutant: the package first.
WithChildrenBehind(f) == <<f.pkg>> \o f.out

\* The children first, then the package itself.
WithChildren(f) == f.out \o <<f.pkg>>

Return ==
    /\ phase = "deps"
    /\ Len(stack) > 1
    /\ Last(stack).todo = {}
    /\ LET f == Last(stack)
           latest(n) == {j \in DOMAIN f.out : pkgs[f.out[j]].name = n}
       IN  /\ stack' = [Front(stack) EXCEPT ![Len(stack) - 1].out =
                           @ \o WithChildren(f)]
           /\ existing' = [n \in Names |->
                             IF latest(n) = {} THEN existing[n]
                             ELSE f.out[Max(latest(n))]]
           /\ origins' = origins \cup {pkgs[i].origin : i \in Range(f.out)}
    /\ UNCHANGED <<given, phase, left, dq, depMap, pos, added, visit,
                   toInstall, conflicts, optional>>

----------------------------------------------------------------------------
(* The rest of GetPackageWithDependencies                                  *)

\* s followed by the packages of t whose names are not there yet.
AddNew(s, i) == IF pkgs[i].name \in NamesIn(s) THEN s ELSE Append(s, i)
AppendNew(s, t) ==
    LET upTo[k \in 0..Len(t)] == IF k = 0 THEN s ELSE AddNew(upTo[k - 1], t[k])
    IN  upTo[Len(t)]

\* Mutant: the package itself may trigger an install_if.
TriggersWithPackage(s) == NamesIn(s) \cup {pkgs[stack[1].pkg].name}

Triggers(s) == NamesIn(s)

Collected ==
    /\ phase = "deps"
    /\ Len(stack) = 1
    /\ Last(stack).todo = {}
    /\ added' = AppendNew(<<>>, Last(stack).out)
    /\ visit' = Triggers(added')
    /\ phase' = "installIf"
    /\ UNCHANGED <<given, left, dq, depMap, pos, stack, existing, origins,
                   toInstall, conflicts, optional>>

\* installIfMap[n], or else installIfMap[n=version].
InstallIfList(i) ==
    LET plain(j) == \E c \in pkgs[j].installIf :
                       ~c.not /\ c.name = pkgs[i].name /\ Dep(c) = "any"
        exact(j) == \E c \in pkgs[j].installIf :
                       /\ ~c.not /\ c.name = pkgs[i].name /\ Dep(c) = "="
                       /\ c.version = pkgs[i].version
    IN  IF \E j \in Ids : plain(j) THEN InOrder({j \in Ids : plain(j)})
        ELSE InOrder({j \in Ids : exact(j)})

\* A leading ! is taken for a part of the name, and no package has that one.
InstallIfMet(j, s) ==
    \A c \in pkgs[j].installIf :
       \E i \in Range(s) : /\ ~c.not /\ pkgs[i].name = c.name
                           /\ Dep(c) = "any" \/ pkgs[i].version = c.version

AddInstallIf(s, j) == IF InstallIfMet(j, s) THEN AddNew(s, j) ELSE s
AppendInstallIf(s, t) ==
    LET upTo[k \in 0..Len(t)] == IF k = 0 THEN s ELSE AddInstallIf(upTo[k - 1], t[k])
    IN  upTo[Len(t)]

\* range over added takes the names in any order.  Whether it also yields what
\* the loop puts into the map is left open by Go.
VisitInstallIf ==
    /\ phase = "installIf"
    /\ \E n \in visit :
          LET i == CHOOSE i \in Range(added) : pkgs[i].name = n
              new == AppendInstallIf(added, InstallIfList(i))
          IN  /\ added' = new
              /\ \E more \in SUBSET (NamesIn(new) \ NamesIn(added)) :
                    visit' = (visit \ {n}) \cup more
              /\ optional' = optional \cup (Range(new) \ Range(added))
    /\ UNCHANGED <<given, phase, left, dq, depMap, pos, stack, existing,
                   origins, toInstall, conflicts>>

\* Back in GetPackagesWithDependencies: the dependencies, then the package.
Take ==
    /\ phase = "installIf"
    /\ visit = {}
    /\ toInstall' = AppendNew(toInstall, Append(added, stack[1].pkg))
    /\ depMap' = [n \in Names |->
                    LET named == {i \in Range(added) \cup {stack[1].pkg} :
                                     pkgs[i].name = n}
                    IN  IF depMap[n] # None \/ named = {} THEN depMap[n]
                        ELSE IF \E i \in named : i \in Range(added)
                        THEN CHOOSE i \in named : i \in Range(added)
                        ELSE stack[1].pkg]
    /\ stack' = <<>>
    /\ pos' = pos + 1
    /\ phase' = IF pos = Len(world) THEN "done" ELSE "deps"
    /\ UNCHANGED <<given, left, dq, existing, origins, added, visit, conflicts,
                   optional>>

----------------------------------------------------------------------------

\* FixateWorld: a conflict is looked for among the installed packages by its
\* whole text, one with a version is never found.
FixateWorld ==
    /\ phase = "done"
    /\ phase' = IF \E c \in conflicts : Dep(c) = "any" /\ c.name \in installed
                THEN "failed" ELSE "install"
    /\ UNCHANGED <<given, left, dq, depMap, pos, stack, existing, origins,
                   added, visit, toInstall, conflicts, optional>>

\* The packages are handed to InstallPackages, or the call has failed.
Finished == phase \in {"install", "failed"} /\ UNCHANGED vars

Next == \/ Constrain \/ ChooseForWorld \/ WorldUnsolvable \/ WorldChosen
        \/ StartPackage \/ Unresolvable \/ Descend \/ NoOption \/ Return
        \/ Collected \/ VisitInstallIf \/ Take
        \/ FixateWorld \/ Finished

Spec == Init /\ [][Next]_vars

----------------------------------------------------------------------------
(* Properties                                                              *)

Calls == [pkg : Ids, todo : SUBSET UNION {pkgs[i].deps : i \in Ids}, out : Seq(Ids)]

TypeOK ==
    /\ IsUniverse(pkgs, world, installed)
    /\ phase \in {"constrain", "world", "deps", "installIf", "done", "install",
                 "failed"}
    /\ left \in Seq(Range(world))
    /\ dq \subseteq Ids /\ optional \subseteq Ids
    /\ depMap \in [Names -> Ids \cup {None}] /\ existing \in [Names -> Ids \cup {None}]
    /\ pos \in 1..(Len(world) + 1)
    /\ stack \in Seq(Calls)
    /\ \A f \in DOMAIN stack : stack[f].todo \subseteq Needs(stack[f].pkg)
    /\ added \in Seq(Ids) /\ toInstall \in Seq(Ids)
    /\ visit \subseteq NamesIn(added)

\* The names that packages of the name n may bring in, and whether one may
\* bring in n again.
BringsIn(n) ==
    {pkgs[j].name : j \in UNION {Range(nameMap(c.name)) :
                      c \in UNION {Needs(i) : i \in {k \in Ids : pkgs[k].name = n}}}}

OnCycle(n) ==
    \A closed \in SUBSET Names :
       (/\ BringsIn(n) \subseteq closed
        /\ \A m \in closed : BringsIn(m) \subseteq closed) => n \in closed

\* Package i may stand behind packages of these names: they are what it needs;
\* or it is there by install_if, or its dependencies form a cycle.
MayFollow(i, names) ==
    \/ i \in optional
    \/ OnCycle(pkgs[i].name)
    \/ \A c \in Needs(i) : names \cap NamesIn(nameMap(c.name)) # {}

NamesBefore(s, k) == {pkgs[s[j]].name : j \in 1..(k - 1)}
Ordered(s) == \A k \in DOMAIN s : MayFollow(s[k], NamesBefore(s, k))

\* "The child before the parent" (getPackageDependencies): in the result every
\* package stands behind one that was picked for each of its dependencies, or
\* behind another version of that one; unless the dependencies form a cycle,
\* or the package is there by install_if.
DependenciesFirst == phase = "done" => Ordered(toInstall)

\* The result meets the constraint c.
Honours(i, c) ==
    /\ i \in Range(nameMap(c.name))
    /\ Dep(c) = "any" \/ Meets(getDepVersionForName(i, c.name), c)

\* A package of the result meets c, or stands in its place: another version of
\* a provider that does not provide the name, or what install_if brought in.
IsHonoured(c) ==
    \E i \in Range(toInstall) :
       \/ Honours(i, c)
       \/ /\ pkgs[i].name \in NamesIn(nameMap(c.name))
          /\ i \in optional \/ i \notin Range(nameMap(c.name))

\* Every constraint of the world is met by a package of the result: neither
\* what is disqualified later nor the removal of double names loses one to
\* anything but what IsHonoured names.
WorldHonoured ==
    phase = "done" => \A c \in Range(world) : IsHonoured(c)

\* The result does not depend on the order of nameMap, which for the packages
\* that provide a name is the order of a Go map: taken from the other end, the
\* candidates yield the same package.  Versions that do not parse are left
\* out, for them comparePackages is not an order.
ChoiceOrderIndependent ==
    LET same(s, n, ex, os, pin) ==
            \/ \E i \in Range(s) : Invalid(getDepVersionForName(i, n))
                                     \/ Invalid(pkgs[i].version)
            \/ LET one == bestPackage(s, n, ex, os, pin)
                   other == bestPackage(Reverse(s), n, ex, os, pin)
               IN  /\ pkgs[one].name = pkgs[other].name
                   /\ pkgs[one].version = pkgs[other].version
    IN  /\ phase = "world" =>
              \A c \in Range(left) : Options(c, dq) # <<>> =>
                 same(Options(c, dq), c.name, NoneExisting, {}, c.pin)
        /\ phase = "deps" /\ stack # <<>> =>
              \A c \in Last(stack).todo : DepOptions(c) # <<>> =>
                 same(DepOptions(c), c.name, existing, origins, NoPin)

PhaseRank ==
    CASE phase = "constrain" -> 4 [] phase = "world" -> 3
      [] phase \in {"deps", "installIf"} -> 2 [] phase = "done" -> 1
      [] OTHER -> 0

\* While dependencies are looked for: the open dependencies of every call.
OpenWork ==
    CASE phase = "deps" /\ stack = <<>> -> <<2>>
      [] phase = "deps" /\ stack # <<>> ->
            <<1>> \o [f \in DOMAIN stack |-> Cardinality(stack[f].todo)]
      [] phase = "installIf" ->
            <<0, Cardinality(Names) - Cardinality(NamesIn(added)), Cardinality(visit)>>
      [] OTHER -> <<>>

\* What is left to be done, most important first.
LeftToDo == <<PhaseRank, Len(left), Len(world) - pos>> \o OpenWork

\* Every step of the resolver leaves less to be done, in the lexicographic
\* order.  With DepthBounded, which bounds the length, and with no state in
\* which no step is possible, this says that it comes to an end.
Advances == [][CompareSeqs(LeftToDo', LeftToDo) = less]_vars

\* "Because the packages are just listing dependencies in text, it might be
\* cyclical": the recursion is not deeper than there are names.
DepthBounded == Len(stack) <= Cardinality(Names)

\* The comment of PkgResolver: it finds "the correct version of a package given
\* version constraints, if any, as well as all the package and all of the
\* required upstream dependencies".  What every package of the result asks for
\* is in the result, in a version that meets the constraint.
DepsSatisfied ==
    phase = "done" =>
       \A j \in Range(toInstall) \ optional :
          \A c \in Needs(j) : \E i \in Range(toInstall) : Honours(i, c)

----------------------------------------------------------------------------
(* Why the world is honoured and dependencies come first.                  *)

\* What the constraints of the world disqualify in the first step.
WorldDisqualified == constrain(Range(world), {})

PhaseInv ==
    /\ phase \in {"constrain", "world"} => pos = 1 /\ stack = <<>>
    /\ phase \in {"deps", "installIf"} => pos <= Len(world)
    /\ phase = "installIf" => Len(stack) = 1

\* The calls are for packages of different names, the outermost for one that
\* its constraint admits.
CallsInv ==
    /\ \A f, g \in DOMAIN stack :
          pkgs[stack[f].pkg].name = pkgs[stack[g].pkg].name => f = g
    /\ stack # <<>> => /\ pos <= Len(world) /\ ~world[pos].not
                       /\ stack[1].pkg \in Range(nameMap(world[pos].name))

\* No package is picked that the world disqualifies, except by install_if.
PickedInv ==
    /\ phase # "constrain" => WorldDisqualified \subseteq dq
    /\ \A f \in DOMAIN stack :
          ({stack[f].pkg} \cup Range(stack[f].out)) \cap WorldDisqualified = {}
    /\ ((Range(added) \cup Range(toInstall)) \ optional) \cap WorldDisqualified = {}

\* The constraints in front of pos are met for good.
HonouredInv == \A k \in 1..(pos - 1) : IsHonoured(world[k])

\* How far the loop has come, for WorldHonoured.
DoneInv == phase = "done" => pos = Len(world) + 1

\* All of this is inductive without what follows.
ChoiceInv ==
    TypeOK /\ PhaseInv /\ CallsInv /\ PickedInv /\ HonouredInv /\ DoneInv

\* Why dependencies come first.  Call f of a stack has put a package on its list
\* for each dependency it is done with, except for the one that it waits for;
\* the call above it is for one of its dependencies, so that a name that comes
\* up twice is on a cycle.
Waits(st, f, c) == f < Len(st) /\ st[f + 1].pkg \in Range(nameMap(c.name))

OrderedCall(st, f) ==
    /\ Ordered(st[f].out)
    /\ \A c \in Needs(st[f].pkg) \ st[f].todo :
          \/ Waits(st, f, c)
          \/ NamesIn(st[f].out) \cap NamesIn(nameMap(c.name)) # {}
    /\ f < Len(st) => \E c \in Needs(st[f].pkg) : Waits(st, f, c)

OrderInv ==
    /\ Ordered(added) /\ Ordered(toInstall)
    /\ \A f \in DOMAIN stack : OrderedCall(stack, f)
    /\ phase = "installIf" => /\ stack[1].todo = {}
                              /\ NamesIn(stack[1].out) \subseteq NamesIn(added)

ResolverInv == ChoiceInv /\ OrderInv
=============================================================================
