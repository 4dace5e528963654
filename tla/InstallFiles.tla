---------------------------- MODULE InstallFiles ----------------------------
(***************************************************************************)
(* Which package's file ends up on the filesystem, and which package lists *)
(* it in /lib/apk/db/installed: installAPKFiles, installRegularFile and    *)
(* writeOneFile (pkg/apk/install.go), the map a.installedFiles, and the    *)
(* record loop of InstallPackages (pkg/apk/implementation.go).  The        *)
(* packages are installed one after the other, which is what               *)
(* InstallPackages.tla shows of the goroutines.                            *)
(*                                                                         *)
(* An archive is a function from its paths to their data: the content of a *)
(* regular file, the target of a link.  Its entries are taken in any       *)
(* order, so every archive order is covered.  A path has the same kind in  *)
(* every package.  The owner in a.installedFiles is a pointer: each call   *)
(* of packageInfo allocates a new one, so the pointer is the package       *)
(* together with the call that made it.                                    *)
(***************************************************************************)
EXTENDS Naturals

CONSTANTS N,          \* number of packages in the list
          Paths,      \* the paths packages ship
          Kind,       \* Kind[f]: "reg", "sym", "link" or "dir"
          Contents,   \* what a file or a link can hold
          Origins,    \* the origins packages can have
          NoOrigin,   \* the empty origin
          Systems,    \* the archives and the origins the packages may have, and
                      \* what a.fs may hold before the first call
          MaxCalls    \* bound on the number of calls

ASSUME NAssumption == N \in Nat
ASSUME KindAssumption == Kind \in [Paths -> {"reg", "sym", "link", "dir"}]
ASSUME OriginAssumption == NoOrigin \notin Origins
ASSUME ContentAssumption == {"absent", "partial"} \cap Contents = {}
ASSUME CallsAssumption == MaxCalls \in Nat \ {0}

Pkgs == 1..N
Archives == [Paths -> Contents \cup {"absent"}]

ASSUME SystemsAssumption ==
    \A s \in Systems : /\ s.payload \in [Pkgs -> Archives]
                       /\ s.origin \in [Pkgs -> Origins \cup {NoOrigin}]
                       /\ s.base \in Archives

\* A file that is not there, and one whose writing was cut short: its sum is
\* that of no file of any package.
Absent == "absent"
Partial == "partial"
Data == Contents \cup {Absent, Partial}

\* The pointers packageInfo has returned, and nil.
NoOwner == <<0, 0>>
Pointers == Pkgs \X (1..MaxCalls)

VARIABLES
    payload,    \* payload[p]: the archive of package p, Absent for no entry
    origin,     \* origin[p]
    replaces,   \* replaces[p]: the packages p replaces
    fs,         \* what a.fs holds
    base,       \* the paths it held before the first call
    owner,      \* a.installedFiles
    phase,      \* "next", "files", "record", "ok", "failed"
    k,          \* the package at hand
    todo,       \* its entries not yet taken
    infos,      \* the packages this call has taken up
    allFiles,   \* allFiles[p]: the headers installPackage returned for p
    idb,        \* idb[p]: the non-directories listed for p
    recorded,   \* the packages in /lib/apk/db/installed
    call,       \* which call this is
    err         \* why the last call failed: "none", "io", "conflict", "foreign"

given == <<payload, origin, replaces, base>>
vars == <<given, fs, owner, phase, k, todo, infos, allFiles, idb, recorded,
          call, err>>

TypeOK ==
    /\ payload \in [Pkgs -> Archives]
    /\ origin \in [Pkgs -> Origins \cup {NoOrigin}]
    /\ replaces \in [Pkgs -> SUBSET Pkgs]
    /\ fs \in [Paths -> Data]
    /\ base \subseteq Paths
    /\ owner \in [Paths -> Pointers \cup {NoOwner}]
    /\ phase \in {"next", "files", "record", "ok", "failed"}
    /\ k \in 1..(N + 1)
    /\ todo \subseteq Paths
    /\ infos \subseteq Pkgs
    /\ allFiles \in [Pkgs -> SUBSET Paths]
    /\ idb \in [Pkgs -> SUBSET Paths]
    /\ recorded \subseteq Pkgs
    /\ call \in 1..MaxCalls
    /\ err \in {"none", "io", "conflict", "foreign"}

Entries(p) == {f \in Paths : payload[p][f] # Absent}

Init ==
    /\ \E s \in Systems : payload = s.payload /\ origin = s.origin /\ fs = s.base
    \* Of packages that share no path nobody asks.
    /\ replaces \in {r \in [Pkgs -> SUBSET Pkgs] : \A p \in Pkgs :
                        r[p] \subseteq {q \in Pkgs \ {p} : Entries(p) \cap Entries(q) # {}}}
    /\ base = {f \in Paths : fs[f] # Absent}
    /\ owner = [f \in Paths |-> NoOwner]
    /\ phase = "next"
    /\ k = 1
    /\ todo = {}
    /\ infos = {}
    /\ allFiles = [p \in Pkgs |-> {}]
    /\ idb = [p \in Pkgs |-> {}]
    /\ recorded = {}
    /\ call = 1
    /\ err = "none"

-----------------------------------------------------------------------------
(* The loop over the packages. *)

SkipInstalled ==
    /\ phase = "next"
    /\ k \in recorded
    /\ k' = k + 1
    /\ UNCHANGED <<given, fs, owner, phase, todo, infos, allFiles, idb,
                   recorded, call, err>>

StartPackage ==
    /\ phase = "next"
    /\ k \in Pkgs \ recorded
    /\ phase' = "files"
    /\ todo' = Entries(k)
    /\ infos' = infos \cup {k}
    /\ UNCHANGED <<given, fs, owner, k, allFiles, idb, recorded, call, err>>

\* files = append(files, *header)
List(f) == allFiles' = [allFiles EXCEPT ![k] = @ \cup {f}]

FinishPackage ==
    /\ phase = "files"
    /\ todo = {}
    /\ phase' = "next"
    /\ k' = k + 1
    /\ UNCHANGED <<given, fs, owner, todo, infos, allFiles, idb, recorded,
                   call, err>>

\* installPackage fails behind the files, in the scripts or the triggers.
FinishFail ==
    /\ phase = "files"
    /\ todo = {}
    /\ phase' = "failed"
    /\ err' = "io"
    /\ UNCHANGED <<given, fs, owner, k, todo, infos, allFiles, idb, recorded,
                   call>>

-----------------------------------------------------------------------------
(* installRegularFile on entry f of the package at hand. *)

\* Entry f is the next one of the archive.
Entry(f, kind) == phase = "files" /\ f \in todo /\ Kind[f] = kind

\* The entry is dealt with.
Done(f) ==
    /\ todo' = todo \ {f}
    /\ UNCHANGED <<given, phase, k, infos, idb, recorded, call, err>>

\* The entry makes the call fail with error e; what is done stays done.
Fail(e) ==
    /\ phase' = "failed"
    /\ err' = e
    /\ UNCHANGED <<given, k, todo, infos, allFiles, idb, recorded, call>>

\* Not taking the file over in a.installedFiles.
WrittenUnowned(f) ==
    /\ fs' = [fs EXCEPT ![f] = payload[k][f]]
    /\ UNCHANGED owner

\* writeOneFile creates the file: installRegularFile returns true.
Written(f) ==
    /\ fs' = [fs EXCEPT ![f] = payload[k][f]]
    /\ owner' = [owner EXCEPT ![f] = <<k, call>>]

\* The file f exists, with other content than the package's.
Differs(f) == fs[f] # Absent /\ fs[f] # payload[k][f]

WriteNew(f) ==
    /\ Entry(f, "reg")
    /\ fs[f] = Absent
    /\ Written(f)
    /\ List(f)
    /\ Done(f)

\* Opening, copying or SetXattr fails: nothing, a part, or all of the file is
\* there, and a.installedFiles does not know of it.
WriteNewFail(f) ==
    /\ Entry(f, "reg")
    /\ fs[f] = Absent
    /\ \E d \in {Absent, Partial, payload[k][f]} : fs' = [fs EXCEPT ![f] = d]
    /\ Fail("io")
    /\ UNCHANGED owner

\* Without an origin the error of writeOneFile is final.
RefuseNoOrigin(f) ==
    /\ Entry(f, "reg")
    /\ fs[f] # Absent
    /\ origin[k] = NoOrigin
    /\ Fail("conflict")
    /\ UNCHANGED <<fs, owner>>

\* Taking the identical file over from whoever wrote it.
KeepIdenticalOwned(f) ==
    /\ Entry(f, "reg")
    /\ origin[k] # NoOrigin
    /\ fs[f] = payload[k][f]
    /\ owner' = [owner EXCEPT ![f] = <<k, call>>]
    /\ List(f)
    /\ Done(f)
    /\ UNCHANGED fs

\* Identical files: the first one that wrote it keeps it.
KeepIdentical(f) ==
    /\ Entry(f, "reg")
    /\ origin[k] # NoOrigin
    /\ fs[f] = payload[k][f]
    /\ List(f)
    /\ Done(f)
    /\ UNCHANGED <<fs, owner>>

\* No package of this APK wrote the file: "this should never happen".
RefuseForeign(f) ==
    /\ Entry(f, "reg")
    /\ origin[k] # NoOrigin
    /\ Differs(f)
    /\ owner[f] = NoOwner
    /\ Fail("foreign")
    /\ UNCHANGED <<fs, owner>>

\* The package that wrote the file at f, when one did.
Holder(f) == owner[f][1]

\* The existing file's package replaces this one: its file stays.
KeepReplacing(f) ==
    /\ Entry(f, "reg")
    /\ origin[k] # NoOrigin
    /\ Differs(f)
    /\ owner[f] # NoOwner
    /\ k \in replaces[Holder(f)]
    /\ List(f)
    /\ Done(f)
    /\ UNCHANGED <<fs, owner>>

\* Overwriting is for packages of one origin and for the one that replaces;
\* here without asking whether the other one replaces this one.
MayOverwriteFirst(f) ==
    /\ Entry(f, "reg")
    /\ origin[k] # NoOrigin
    /\ Differs(f)
    /\ owner[f] # NoOwner
    /\ origin[Holder(f)] = origin[k] \/ Holder(f) \in replaces[k]

\* Overwriting without asking for the origin.
MayOverwriteAny(f) ==
    /\ Entry(f, "reg")
    /\ origin[k] # NoOrigin
    /\ Differs(f)
    /\ owner[f] # NoOwner
    /\ k \notin replaces[Holder(f)]

MayOverwrite(f) ==
    /\ Entry(f, "reg")
    /\ origin[k] # NoOrigin
    /\ Differs(f)
    /\ owner[f] # NoOwner
    /\ k \notin replaces[Holder(f)]
    /\ origin[Holder(f)] = origin[k] \/ Holder(f) \in replaces[k]

Overwrite(f) ==
    /\ MayOverwrite(f)
    /\ Written(f)
    /\ List(f)
    /\ Done(f)

\* The old file is removed before the new one is created and written; when
\* only SetXattr fails, the new file is there under its old owner.
OverwriteFail(f) ==
    /\ MayOverwrite(f)
    /\ \E d \in {fs[f], Absent, Partial, payload[k][f]} : fs' = [fs EXCEPT ![f] = d]
    /\ Fail("io")
    /\ UNCHANGED owner

RefuseConflict(f) ==
    /\ Entry(f, "reg")
    /\ origin[k] # NoOrigin
    /\ Differs(f)
    /\ owner[f] # NoOwner
    /\ k \notin replaces[Holder(f)]
    /\ origin[Holder(f)] # origin[k]
    /\ Holder(f) \notin replaces[k]
    /\ Fail("conflict")
    /\ UNCHANGED <<fs, owner>>

-----------------------------------------------------------------------------
(* The other kinds of entries; a.installedFiles knows nothing of them. *)

\* The same symbolic link is there: continue, without appending the header.
SkipSymlink(f) ==
    /\ Entry(f, "sym")
    /\ fs[f] = payload[k][f]
    /\ Done(f)
    /\ UNCHANGED <<fs, owner, allFiles>>

\* MkdirAll accepts a directory that is there.
KeepDir(f) ==
    /\ Entry(f, "dir")
    /\ fs[f] # Absent
    /\ List(f)
    /\ Done(f)
    /\ UNCHANGED <<fs, owner>>

\* Symlink, Link or MkdirAll creates the entry.
CreateOther(f) ==
    /\ Entry(f, "sym") \/ Entry(f, "link") \/ Entry(f, "dir")
    /\ fs[f] = Absent
    /\ fs' = [fs EXCEPT ![f] = payload[k][f]]
    /\ List(f)
    /\ Done(f)
    /\ UNCHANGED owner

\* Symlink and Link refuse a name that exists.
RefuseExisting(f) ==
    /\ \/ Entry(f, "sym") /\ Differs(f)
       \/ Entry(f, "link") /\ fs[f] # Absent
    /\ Fail("conflict")
    /\ UNCHANGED <<fs, owner>>

\* The archive, the sum of an existing file or a link cannot be read, a
\* directory not be made: nothing changes.
EntryFail(f) ==
    /\ phase = "files"
    /\ f \in todo
    /\ Fail("io")
    /\ UNCHANGED <<fs, owner>>

-----------------------------------------------------------------------------
(* The record loop and the calls. *)

StartRecord ==
    /\ phase = "next"
    /\ k = N + 1
    /\ phase' = "record"
    /\ k' = 1
    /\ UNCHANGED <<given, fs, owner, todo, infos, allFiles, idb, recorded,
                   call, err>>

\* infos[i] is nil: the package was installed before this call.
RecordSkip ==
    /\ phase = "record"
    /\ k \in Pkgs \ infos
    /\ k' = k + 1
    /\ UNCHANGED <<given, fs, owner, phase, todo, infos, allFiles, idb,
                   recorded, call, err>>

\* Listing every header installPackage returned.
KeptAll == {f \in allFiles[k] : Kind[f] # "dir"}

\* Removing every header that has an owner, this package or another.
KeptUnowned == {f \in allFiles[k] : Kind[f] # "dir" /\ owner[f] = NoOwner}

\* The headers slices.DeleteFunc leaves: those without an owner in
\* a.installedFiles and those this very *Package owns.
Kept == {f \in allFiles[k] : Kind[f] # "dir" /\ owner[f] \in {NoOwner, <<k, call>>}}

\* Advancing in the body of the loop and in its head.
RecordPackageTwice ==
    /\ phase = "record"
    /\ k \in infos
    /\ idb' = [idb EXCEPT ![k] = Kept]
    /\ recorded' = recorded \cup {k}
    /\ k' = k + 2
    /\ UNCHANGED <<given, fs, owner, phase, todo, infos, allFiles, call, err>>

RecordPackage ==
    /\ phase = "record"
    /\ k \in infos
    /\ idb' = [idb EXCEPT ![k] = Kept]
    /\ recorded' = recorded \cup {k}
    /\ k' = k + 1
    /\ UNCHANGED <<given, fs, owner, phase, todo, infos, allFiles, call, err>>

RecordFail ==
    /\ phase = "record"
    /\ k \in infos
    /\ phase' = "failed"
    /\ err' = "io"
    /\ UNCHANGED <<given, fs, owner, k, todo, infos, allFiles, idb, recorded,
                   call>>

RecordDone ==
    /\ phase = "record"
    /\ k = N + 1
    /\ phase' = "ok"
    /\ UNCHANGED <<given, fs, owner, k, todo, infos, allFiles, idb, recorded,
                   call, err>>

\* A retry of a call that failed, on the same APK or on a new one, whose
\* a.installedFiles is empty.
Retry ==
    /\ phase = "failed"
    /\ call < MaxCalls
    /\ call' = call + 1
    /\ phase' = "next"
    /\ k' = 1
    /\ todo' = {}
    /\ infos' = {}
    /\ allFiles' = [p \in Pkgs |-> {}]
    /\ err' = "none"
    /\ \/ UNCHANGED owner
       \/ owner' = [f \in Paths |-> NoOwner]
    /\ UNCHANGED <<given, fs, idb, recorded>>

InstallEntry(f) ==
    \/ WriteNew(f) \/ WriteNewFail(f) \/ RefuseNoOrigin(f) \/ KeepIdentical(f)
    \/ RefuseForeign(f) \/ KeepReplacing(f) \/ Overwrite(f) \/ OverwriteFail(f)
    \/ RefuseConflict(f)
    \/ SkipSymlink(f) \/ KeepDir(f) \/ CreateOther(f) \/ RefuseExisting(f)
    \/ EntryFail(f)

Next ==
    \/ SkipInstalled \/ StartPackage \/ FinishPackage \/ FinishFail
    \/ \E f \in Paths : InstallEntry(f)
    \/ StartRecord \/ RecordSkip \/ RecordPackage \/ RecordFail \/ RecordDone
    \/ Retry

Spec == Init /\ [][Next]_vars

-----------------------------------------------------------------------------
(* Properties. *)

\* Only "files that were overwritten by another package" are removed from a
\* package's list (implementation.go:684): when a call succeeds, every file
\* of every package of the list is listed for some package.
EveryFileListed ==
    phase = "ok" =>
        \A p \in Pkgs : \A f \in Entries(p) :
            Kind[f] # "dir" => \E q \in Pkgs : f \in idb[q]

\* Whatever the packages share, overwrite or replace, the first call lists
\* every file for exactly one package when it succeeds: the deletion from
\* allFiles undoes the listing of what installRegularFile did not write, and
\* nothing else.  A file the base system had may be listed more often, and a
\* symbolic link it had is listed by nobody.
ListedExactlyOnce ==
    call = 1 /\ phase = "ok" =>
        \A p \in Pkgs : \A f \in Entries(p) :
            LET listing == {q \in Pkgs : f \in idb[q]}
            IN  Kind[f] # "dir" =>
                    /\ f \notin base \/ Kind[f] # "sym" => listing # {}
                    /\ f \notin base => \E q \in Pkgs : listing = {q}

\* The checksum listed for a file is that of the file on the filesystem,
\* whatever later packages, failures and retries do to the path.
ListedMatches ==
    \A p \in Pkgs : \A f \in idb[p] : fs[f] = payload[p][f]

\* No third package ships f.
OnlyIn(f, p, q) == \A r \in Pkgs \ {p, q} : f \notin Entries(r)

\* If p replaces q, and q does not replace p, then p's file is there after a
\* success, whichever of the two comes first in the list.
ReplacesWins ==
    phase = "ok" =>
        \A p, q \in Pkgs : \A f \in Entries(p) \cap Entries(q) :
            (/\ Kind[f] = "reg"
             /\ q \in replaces[p]
             /\ p \notin replaces[q]
             /\ OnlyIn(f, p, q)) => fs[f] = payload[p][f]

\* Two packages of different origins that do not replace each other and ship
\* different files under one path are never both installed with success, not
\* even by retrying.
ConflictReported ==
    phase = "ok" =>
        \A p, q \in Pkgs : \A f \in Entries(p) \cap Entries(q) :
            (/\ Kind[f] = "reg"
             /\ p # q
             /\ OnlyIn(f, p, q)
             /\ payload[p][f] # payload[q][f]) =>
                \/ origin[p] = origin[q]
                \/ p \in replaces[q]
                \/ q \in replaces[p]

\* What the base system had on the filesystem before the first call is never
\* changed or removed by a package.
BaseUntouched == [][\A f \in base : fs'[f] = fs[f]]_vars

\* "found existing file we did not install (this should never happen)"
\* (install.go:132): it does not, in a first call on an empty filesystem.  A
\* file that was cut short and a base system are how it can.
NeverForeign == call = 1 /\ base = {} => err # "foreign"

-----------------------------------------------------------------------------
(* The inductive invariant, for any number of packages, paths and calls. *)

\* Package q has had its say on f in this call.
Handled(q, f) == q \in infos /\ f \in Entries(q) /\ ~(q = k /\ f \in todo)

\* ... or in an earlier one.
Settled(q, f) == Handled(q, f) \/ q \in recorded

\* Where the two loops are: the packages before the one at hand are behind
\* them, recorded is a prefix of the list.
LoopInv ==
    /\ todo # {} => k \in infos /\ todo \subseteq Entries(k) /\ phase \in {"files", "failed"}
    /\ phase \in {"next", "files"} =>
          /\ infos \cap recorded = {}
          /\ \A q \in Pkgs : q < k => q \in infos \cup recorded
          /\ call = 1 => recorded = {}
    /\ phase = "next" => \A q \in infos : q < k
    /\ phase = "files" => k \in infos /\ \A q \in infos : q <= k
    /\ phase = "record" =>
          /\ Pkgs \subseteq infos \cup recorded
          /\ \A q \in Pkgs : q < k => q \in recorded
    /\ phase = "ok" => recorded = Pkgs
    /\ \A q \in recorded : \A p \in Pkgs : p < q => p \in recorded
    /\ call = 1 => recorded \subseteq infos
    /\ \A p \in Pkgs : p \notin replaces[p]

\* What a.installedFiles, allFiles and the database can name.
ListInv ==
    /\ \A f \in Paths : owner[f] # NoOwner =>
          Kind[f] = "reg" /\ f \in Entries(Holder(f)) /\ owner[f][2] <= call
    /\ \A f \in Paths : \A p \in Pkgs : owner[f] = <<p, call>> => Handled(p, f)
    /\ \A p \in Pkgs : \A f \in allFiles[p] : Handled(p, f)
    /\ \A p \in Pkgs : \A f \in Paths :
          Kind[f] = "reg" /\ Handled(p, f) => f \in allFiles[p]
    /\ \A p \in Pkgs : \A f \in idb[p] : p \in recorded /\ f \in Entries(p)

\* A file of the base system has no owner and stays.
BaseInv == \A f \in base : fs[f] # Absent /\ owner[f] = NoOwner

\* The file is its owner's, and who came later had the same one or was
\* replaced; a file without an owner is that of everybody who has listed it.
OwnerInv ==
    /\ \A f \in Paths : \A p \in Pkgs : owner[f] = <<p, call>> =>
          /\ phase # "failed" => fs[f] = payload[p][f]
          /\ \A q \in Pkgs : p < q /\ Handled(q, f) =>
                payload[q][f] = payload[p][f] \/ q \in replaces[p]
    /\ \A p \in Pkgs : \A f \in allFiles[p] :
          Kind[f] # "dir" /\ owner[f] = NoOwner => fs[f] = payload[p][f]

\* A listed file is there, and no package that is still to come may touch it.
RecordInv ==
    \A p \in Pkgs : \A f \in idb[p] :
       /\ fs[f] = payload[p][f]
       /\ \/ owner[f] = NoOwner
          \/ \A q \in Pkgs \ recorded : f \in Entries(q) =>
                payload[q][f] = fs[f] \/ q \in replaces[Holder(f)]

\* Two packages of which only one replaces the other: once that one has had
\* its say its file is there, and the one before it in the list owns the path.
ReplaceInv ==
    \A p, q \in Pkgs : \A f \in Entries(p) \cap Entries(q) :
       (/\ Kind[f] = "reg"
        /\ q \in replaces[p]
        /\ p \notin replaces[q]
        /\ OnlyIn(f, p, q)) =>
           /\ Settled(p, f) => fs[f] = payload[p][f]
           /\ p < q => owner[f] = NoOwner \/ Holder(f) = p

\* Two packages that may not overwrite each other: the second one never gets
\* past the path.
ConflictInv ==
    \A p, q \in Pkgs : \A f \in Entries(p) \cap Entries(q) :
       (/\ Kind[f] = "reg"
        /\ p < q
        /\ OnlyIn(f, p, q)
        /\ payload[p][f] # payload[q][f]
        /\ origin[p] # origin[q]
        /\ p \notin replaces[q]
        /\ q \notin replaces[p]) =>
           /\ Settled(p, f) => fs[f] = payload[p][f]
           /\ owner[f] = NoOwner \/ Holder(f) = p
           /\ ~Settled(q, f)

\* The first call: a file that is not the base system's has an owner, a link
\* is on one list, and the database has what the deletion left.
FirstCallInv ==
    call = 1 =>
       /\ \A f \in Paths : phase # "failed" /\ Kind[f] = "reg" /\ f \notin base
             /\ fs[f] # Absent => owner[f] # NoOwner
       /\ phase # "failed" => \A f \in Paths, q \in Pkgs : Handled(q, f) => fs[f] # Absent
       /\ \A f \in Paths : Kind[f] \in {"sym", "link"} /\ f \notin base =>
             /\ \A p, q \in Pkgs : f \in allFiles[p] /\ f \in allFiles[q] => p = q
             /\ fs[f] # Absent => \E p \in Pkgs : f \in allFiles[p]
             /\ \A p \in Pkgs : f \in allFiles[p] => fs[f] # Absent
       /\ \A f \in base : Kind[f] = "link" => \A q \in Pkgs : ~Handled(q, f)
       /\ \A p \in recorded : idb[p] = {f \in allFiles[p] :
             Kind[f] # "dir" /\ owner[f] \in {NoOwner, <<p, call>>}}
       /\ err = "foreign" => base # {}

FilesInv ==
    /\ TypeOK /\ LoopInv /\ ListInv /\ BaseInv /\ OwnerInv /\ RecordInv
    /\ ReplaceInv /\ ConflictInv /\ FirstCallInv
=============================================================================
