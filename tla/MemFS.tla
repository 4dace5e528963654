------------------------------- MODULE MemFS -------------------------------
(***************************************************************************)
(* The in-memory filesystem (pkg/fs/memfs.go) as operators on a tree.      *)
(*                                                                         *)
(* A path is a sequence of one or two names; only a path of one name can   *)
(* be a directory.  A tree maps a path to what is there, and the number of *)
(* a file, which hard links share, to its contents.  A symbolic link holds *)
(* the text of its target: names from its own directory on, from the one   *)
(* above it (Up), or from the root on (Root), and at least one name, so    *)
(* that no link leads to the root itself.  Modes, owners, times and        *)
(* extended attributes are left out.                                       *)
(***************************************************************************)
EXTENDS Integers, Sequences, FiniteSets

CONSTANTS Names, Contents,
          Texts,     \* the targets of symbolic links
          MaxLinks   \* maxLinks, the bound on the links followed

Up == ".."
Root == "/"

ASSUME NamesAssumption == IsFiniteSet(Names) /\ Up \notin Names /\ Root \notin Names
ASSUME TextsAssumption ==
    \A w \in Texts : /\ w \in Seq(Names \cup {Up, Root}) /\ w # <<>>
                     /\ w[Len(w)] \in Names /\ \A k \in 2..Len(w) : w[k] \in Names
ASSUME LinksAssumption == MaxLinks \in Nat

\* The target of a link that leaves the base directory from wherever it is.
HostRoot == <<Up, Up>>

Paths == {<<x>> : x \in Names} \cup {<<x, y>> : x, y \in Names}
Numbers == 1..Cardinality(Paths)
Empty == "empty"

Nothing == <<"none">>
Dir == <<"dir">>
Dev == <<"dev">>
Reg(i) == <<"file", i>>
SymlinkTo(w) == <<"link", w>>
NodesOfTree == {Nothing, Dir, Dev} \cup {Reg(i) : i \in Numbers}
                  \cup {SymlinkTo(w) : w \in Texts \cup {HostRoot}}
Trees == [entry : [Paths -> NodesOfTree], data : [Numbers -> Contents \cup {Empty}]]

NewMemFS == [entry |-> [p \in Paths |-> Nothing], data |-> [i \in Numbers |-> Empty]]

KindAt(t, p) == t.entry[p][1]

\* What is not in a directory is not there.
IsTree(t) ==
    /\ t \in Trees
    /\ \A x, y \in Names : KindAt(t, <<x, y>>) # "none" => KindAt(t, <<x>>) = "dir"

----------------------------------------------------------------------------
(* getNode                                                                 *)

DirOf(p) == SubSeq(p, 1, Len(p) - 1)
LastName(p) == p[Len(p)]

\* filepath.Join of a directory and the target of a link in it.  Above the root
\* a route stays above it.
Join(d, w) ==
    IF w[1] = Root THEN Tail(w)
    ELSE IF w[1] = Up /\ d # <<>> THEN SubSeq(d, 1, Len(d) - 1) \o Tail(w)
    ELSE d \o w

\* Where on the route s there is a link: go where it points, and on.
LinkAt(t, s) == {k \in 1..Len(s) : SubSeq(s, 1, k) \in Paths /\ KindAt(t, SubSeq(s, 1, k)) = "link"}
Hop(t, s) ==
    IF LinkAt(t, s) = {} THEN s
    ELSE LET k == CHOOSE k \in LinkAt(t, s) : TRUE
         IN  Join(SubSeq(s, 1, k - 1), t.entry[SubSeq(s, 1, k)][2])
                \o SubSeq(s, k + 1, Len(s))

\* Where the links lead.  If they go round in a circle there is a link still.
Follow(t, s) ==
    LET after[n \in 0..MaxLinks] == IF n = 0 THEN s ELSE Hop(t, after[n - 1])
    IN  after[MaxLinks]

\* The route leaves the tree.
Above(s) == s # <<>> /\ s[1] = Up

\* Something is there, or could be made there.
InPlace(t, s) == s \in Paths /\ (Len(s) = 2 => KindAt(t, DirOf(s)) = "dir")

\* The path without links but for its last name.
Real(t, p) == Append(Follow(t, DirOf(p)), LastName(p))
HasParent(t, p) == InPlace(t, Real(t, p))

getNode(t, p) == Follow(t, Real(t, p))
Leads(t, p) == InPlace(t, getNode(t, p))
Found(t, p) == Leads(t, p) /\ KindAt(t, getNode(t, p)) \notin {"none", "link"}

----------------------------------------------------------------------------
(* The operations: when they succeed, and the tree they leave.             *)

Put(t, p, n) == [t EXCEPT !.entry[Real(t, p)] = n]

\* Mkdir, Symlink, Mknod and the new name of Link: nothing may be there.
Vacant(t, p) == HasParent(t, p) /\ KindAt(t, Real(t, p)) = "none"

MkdirAllWorks(t, p) == Vacant(t, p) \/ (Found(t, p) /\ KindAt(t, getNode(t, p)) = "dir")
MkdirAll(t, p) == IF Vacant(t, p) THEN Put(t, p, Dir) ELSE t

\* openFile follows links, also to a file it then creates.
OpenWorks(t, p, create) ==
    /\ Leads(t, p)
    /\ \/ KindAt(t, getNode(t, p)) = "file"
       \/ create /\ KindAt(t, getNode(t, p)) = "none"

Unused(t) == CHOOSE i \in Numbers :
               /\ Reg(i) \notin {t.entry[p] : p \in Paths}
               /\ \A j \in 1..(i - 1) : Reg(j) \in {t.entry[p] : p \in Paths}

\* The file is opened, created if need be, and d written to it.
Write(t, p, d) ==
    LET f == getNode(t, p)
        i == IF KindAt(t, f) = "file" THEN t.entry[f][2] ELSE Unused(t)
    IN  [entry |-> [t.entry EXCEPT ![f] = Reg(i)],
         data |-> [t.data EXCEPT ![i] = d]]

ReadFile(t, p) ==
    IF OpenWorks(t, p, FALSE) THEN <<t.data[t.entry[getNode(t, p)][2]]>> ELSE <<>>

\* A directory goes with everything in it.
Under(t, p) == {q \in Paths : Real(t, p) \in {q, DirOf(q)}}

RemoveWorks(t, p) == HasParent(t, p) /\ KindAt(t, Real(t, p)) # "none"
Remove(t, p) ==
    LET entry == [q \in Paths |-> IF q \in Under(t, p) THEN Nothing ELSE t.entry[q]]
        used == {i \in Numbers : \E q \in Paths : entry[q] = Reg(i)}
    IN  [entry |-> entry,
         data |-> [i \in Numbers |-> IF i \in used THEN t.data[i] ELSE Empty]]

LinkWorks(t, old, new) == Found(t, old) /\ Vacant(t, new)
Link(t, old, new) == Put(t, new, t.entry[getNode(t, old)])
=============================================================================
