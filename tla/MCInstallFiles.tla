--------------------------- MODULE MCInstallFiles ---------------------------
(***************************************************************************)
(* Instances of InstallFiles: three packages with one regular file, where  *)
(* ownership passes along a chain; and two packages with a path of every   *)
(* kind, over base systems.                                                *)
(***************************************************************************)
EXTENDS InstallFiles

CONSTANTS o1, o2

MCPaths == {"f", "s", "l", "d"}
MCKind ==
    [p \in MCPaths |-> CASE p = "f" -> "reg" [] p = "s" -> "sym"
                         [] p = "l" -> "link" [] p = "d" -> "dir"]
MCContents == {"x", "y"}

Nothing == [f \in Paths |-> Absent]
Only(f, d) == [Nothing EXCEPT ![f] = d]

\* Every file in three packages of every origin, on an empty filesystem.  The
\* contents, and the origins, can be exchanged: the first package has the first.
Chains ==
    [payload : {a \in [Pkgs -> {Only("f", d) : d \in Contents \cup {Absent}}] : a[1]["f"] # "y"},
     origin : {o \in [Pkgs -> {o1, o2, NoOrigin}] : o[1] # o2},
     base : {Nothing}]

\* A directory has no content, a hard link is refused whatever it names; a
\* package has both or none of them.  The base system has the file and the symbolic
\* link, or nothing.
KindArchives == {a \in Archives : a["l"] # "y" /\ a["d"] = a["l"]}
Kinds ==
    [payload : {<<a, b, Nothing>> : a \in {c \in KindArchives : c["s"] # "y"}, b \in KindArchives},
     origin : {<<o, u, NoOrigin>> : o, u \in {o1, NoOrigin}},
     base : {Nothing, [Only("f", "x") EXCEPT !["s"] = "x"]}]

MCSystems == Chains \cup Kinds
MCChains == Chains
=============================================================================
