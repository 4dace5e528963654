------------------------------- MODULE DirFS -------------------------------
(***************************************************************************)
(* The filesystem over a directory on disk (pkg/fs/rwosfs.go): every path  *)
(* is in memory, the contents are on disk; and on a disk that does not     *)
(* tell upper from lower case only one spelling of a path is there, the    *)
(* one caseMap names, and the others have their contents in memory.        *)
(*                                                                         *)
(* The disk is a tree too, keyed by the folded path, and behaves as the    *)
(* operating system does: unlike memFS it keeps a directory that is not    *)
(* empty, does not follow a link that is to be linked, and follows an      *)
(* absolute link from the host's root, out of the base directory.  It may  *)
(* refuse any call for a reason of its own, or break off a write; what is  *)
(* outside the base directory is not modelled, and any call that ends      *)
(* there may succeed or fail.                                              *)
(***************************************************************************)
EXTENDS MemFS

CONSTANTS Fold,      \* [Names -> Names], the spelling a disk without case has
          Bases,     \* the trees that may be on disk before
          MaxOps,    \* bound on the calls
          MaxFaults  \* bound on the calls the disk fails for a reason of its own

ASSUME FoldAssumption == /\ Fold \in [Names -> Names]
                         /\ \A n \in Names : Fold[Fold[n]] = Fold[n]
ASSUME OpsAssumption == MaxOps \in Nat /\ MaxFaults \in Nat

\* A name keeps its spelling in a link, or gets the one the disk knows it by.
FoldText(w) == [k \in DOMAIN w |-> IF w[k] \in Names THEN Fold[w[k]] ELSE w[k]]
ASSUME FoldTextAssumption == \A w \in Texts : FoldText(w) \in Texts

\* A file has one name before, and there are no devices: the walk makes two
\* files of a hard link and a file of a device, so that memory and disk would
\* differ from the start.
OneName(t) == \A p, q \in Paths : KindAt(t, p) = "file" /\ t.entry[p] = t.entry[q] => p = q
ASSUME BasesAssumption ==
    \A t \in Bases : IsTree(t) /\ OneName(t) /\ \A p \in Paths : KindAt(t, p) # "dev"

VARIABLES
    caseSensitive, \* whether the disk tells the cases apart
    mayMknod,      \* whether mknod succeeds for this user
    mem,           \* overrides
    disk,          \* the directory
    caseMap,       \* folded path to the spelling on disk, or Unclaimed
    ops,
    faults,
    expect,        \* what was written last under a path, or <<>> (history)
    plain,         \* every spelling of a path can still be told from the others (history)
    diverged       \* a call of a kind that lets memory and disk part (history)

vars == <<caseSensitive, mayMknod, mem, disk, caseMap, ops, faults, expect, plain, diverged>>

Unclaimed == <<>>
NoteOp == ops < MaxOps /\ ops' = ops + 1
system == <<caseSensitive, mayMknod>>

\* The disk's own spelling of a path.
DiskName(n) == IF caseSensitive THEN n ELSE Fold[n]
DiskPath(p) == [k \in DOMAIN p |-> DiskName(p[k])]

\* The target of a link as the disk takes it: an absolute one begins at the
\* root of the host, which is not the base directory.
DiskText(w) ==
    IF w[1] = Root THEN HostRoot
    ELSE IF caseSensitive THEN w ELSE FoldText(w)

\* What the disk does with a call: what was asked; nothing, and an error; or,
\* for a write, it opens the file, empties it and then fails.
Answers == {"done", "refused", "torn"}

\* On disk a path leads out of the base directory, and the one it is in does.
Outside(q) == Above(getNode(disk, q))
ParentOutside(p) == Above(Follow(disk, DirOf(DiskPath(p))))

\* A call that ends outside the base directory may fail there at any time.
Answered(how, asked, outside) ==
    \/ how = "done" /\ UNCHANGED faults
    \/ how # "done" /\ asked /\ outside /\ UNCHANGED faults
    \/ how # "done" /\ asked /\ ~outside /\ faults < MaxFaults /\ faults' = faults + 1

----------------------------------------------------------------------------
(* Which spelling is on disk                                               *)

key(p) == [k \in DOMAIN p |-> Fold[p[k]]]

caseSensitiveOnDisk(p) ==
    caseSensitive \/ caseMap[key(p)] \in {Unclaimed, p}

\* createOnDisk claims the path, whatever becomes of the call.
createOnDisk(p) == caseSensitiveOnDisk(p)
ClaimedNever(p) == caseMap
Claimed(p) ==
    IF ~caseSensitive /\ caseMap[key(p)] = Unclaimed
    THEN [caseMap EXCEPT ![key(p)] = p] ELSE caseMap

\* removeOnDisk does not know the path with a leading slash.
removeOnDiskMapped(p, slash) == ~slash /\ caseMap[key(p)] = p
removeOnDisk(p, slash) == caseSensitive \/ (~slash /\ caseMap[key(p)] = p)
ReleasedAlways(p, slash) ==
    IF ~caseSensitive THEN [caseMap EXCEPT ![key(p)] = Unclaimed] ELSE caseMap
Released(p, slash) ==
    IF ~caseSensitive /\ removeOnDisk(p, slash)
    THEN [caseMap EXCEPT ![key(p)] = Unclaimed] ELSE caseMap

----------------------------------------------------------------------------
(* DirFS                                                                   *)

\* What the walk puts into memory: not the symbolic links.
Walked(t) ==
    [entry |-> [p \in Paths |-> IF KindAt(t, p) = "link" THEN Nothing ELSE t.entry[p]],
     data |-> NewMemFS.data]

Init ==
    /\ caseSensitive \in BOOLEAN
    /\ mayMknod \in BOOLEAN
    /\ disk \in Bases
    /\ \/ caseSensitive
       \/ \A p \in Paths : KindAt(disk, p) # "none" => key(p) = p /\ KindAt(disk, p) # "link"
    /\ mem = Walked(disk)
    /\ caseMap = [p \in Paths |-> Unclaimed]
    /\ ops = 0
    /\ faults = 0
    /\ expect = [p \in Paths |-> <<>>]
    /\ diverged = \E p \in Paths : KindAt(disk, p) = "link"
    /\ plain = ((caseSensitive /\ ~diverged) \/ disk = NewMemFS)

----------------------------------------------------------------------------
(* Files                                                                   *)

\* Devices are not written to.
NotADevice(p) == Leads(mem, p) => KindAt(mem, getNode(mem, p)) # "dev"

\* A file of the disk is opened for writing, here or outside, and written to.
Opens(q, create, how) ==
    how # "refused" /\ (Outside(q) \/ OpenWorks(disk, q, create))
Written(q, d, how) ==
    IF Outside(q) THEN disk ELSE Write(disk, q, IF how = "torn" THEN Empty ELSE d)

\* The disk first; memory gets the contents only if they are not on disk.  A
\* write that is broken off leaves a file on disk that memory may not know.
WriteFile(p, d, how) ==
    /\ NoteOp
    /\ NotADevice(p)
    /\ LET here == createOnDisk(p)
           q == DiskPath(p)
           opened == here /\ Opens(q, TRUE, how)
           onDisk == here => opened /\ how = "done"
           inMem == OpenWorks(mem, p, TRUE)
       IN  /\ Answered(how, here, Outside(q))
           /\ disk' = IF opened THEN Written(q, d, how) ELSE disk
           /\ mem' = IF onDisk /\ inMem THEN Write(mem, p, IF here THEN Empty ELSE d)
                     ELSE mem
           /\ expect' = [expect EXCEPT ![p] = IF onDisk /\ inMem THEN <<d>> ELSE <<>>]
           /\ diverged' = (\/ diverged
                           \/ here /\ Outside(q)
                           \/ opened /\ how = "torn" /\ ~OpenWorks(mem, p, FALSE))
    /\ caseMap' = Claimed(p)
    /\ UNCHANGED <<system, plain>>

\* Create, and OpenFile with O_CREATE and O_TRUNC, and what is then written to
\* the file: memory first, then the disk.  If the disk refuses, memory keeps
\* the file it may just have made.
Create(p, d, how) ==
    /\ NoteOp
    /\ NotADevice(p)
    /\ LET inMem == OpenWorks(mem, p, TRUE)
           here == inMem /\ createOnDisk(p)
           q == DiskPath(p)
           opened == here /\ Opens(q, TRUE, how)
       IN  /\ Answered(how, here, Outside(q))
           /\ mem' = IF inMem THEN Write(mem, p, IF here THEN Empty ELSE d) ELSE mem
           /\ disk' = IF opened THEN Written(q, d, how) ELSE disk
           /\ caseMap' = IF inMem THEN Claimed(p) ELSE caseMap
           /\ expect' = [expect EXCEPT ![p] = IF inMem /\ (here => opened) /\ how = "done"
                                              THEN <<d>> ELSE <<>>]
           /\ diverged' = (\/ diverged
                           \/ here /\ Outside(q)
                           \/ here /\ how = "refused" /\ ~OpenWorks(mem, p, FALSE))
    /\ UNCHANGED <<system, plain>>

\* OpenFile of an existing file for writing.
OpenFile(p, d, how) ==
    /\ NoteOp
    /\ NotADevice(p)
    /\ LET here == caseSensitiveOnDisk(p)
           q == DiskPath(p)
           opened == IF here THEN Opens(q, FALSE, how) ELSE OpenWorks(mem, p, FALSE)
       IN  /\ Answered(how, here, Outside(q))
           /\ disk' = IF here /\ opened THEN Written(q, d, how) ELSE disk
           /\ mem' = IF ~here /\ opened THEN Write(mem, p, d) ELSE mem
           /\ expect' = IF opened
                        THEN [expect EXCEPT ![p] = IF how = "done" THEN <<d>> ELSE <<>>]
                        ELSE expect
    /\ UNCHANGED <<system, caseMap, plain, diverged>>

\* dirFS.ReadFile and open.
Reads(p) ==
    IF caseSensitiveOnDisk(p) THEN ReadFile(disk, DiskPath(p)) ELSE ReadFile(mem, p)

----------------------------------------------------------------------------
(* Directories, links, devices                                             *)

\* On disk first if the spelling belongs there, then in memory if that worked.
DiskThenMem(p, how, outside, diskWorks, diskTree, memWorks, memTree) ==
    LET done == how = "done" /\ (outside \/ diskWorks)
    IN  /\ NoteOp
        /\ how # "torn"
        /\ Answered(how, createOnDisk(p), outside)
        /\ disk' = IF createOnDisk(p) /\ done /\ ~outside THEN diskTree ELSE disk
        /\ mem' = IF (createOnDisk(p) => done) /\ memWorks THEN memTree ELSE mem
        /\ caseMap' = Claimed(p)
        /\ UNCHANGED <<system, expect>>

\* Mkdir and MkdirAll; only MkdirAll follows a link.
MakeDir(p, how) ==
    /\ Len(p) = 1
    /\ \/ DiskThenMem(p, how, FALSE,
                      Vacant(disk, DiskPath(p)), Put(disk, DiskPath(p), Dir),
                      Vacant(mem, p), Put(mem, p, Dir))
       \/ DiskThenMem(p, how, Outside(DiskPath(p)),
                      MkdirAllWorks(disk, DiskPath(p)), MkdirAll(disk, DiskPath(p)),
                      MkdirAllWorks(mem, p), MkdirAll(mem, p))
    /\ UNCHANGED <<plain, diverged>>

\* From the root a target has at most two names.
MakeSymlink(w, p, how) ==
    /\ Len(Join(DirOf(p), w)) <= 2
    /\ DiskThenMem(p, how, ParentOutside(p),
                   Vacant(disk, DiskPath(p)), Put(disk, DiskPath(p), SymlinkTo(DiskText(w))),
                   Vacant(mem, p), Put(mem, p, SymlinkTo(w)))
    /\ plain' = FALSE
    /\ diverged' = (diverged \/ ParentOutside(p))

\* os.Link takes the old name as it is, memFS what it leads to.  No directory
\* is linked.  If the old name is outside, a file not known here is linked.
MakeLink(old, p, how) ==
    LET from == DiskPath(old)
        node == IF ParentOutside(old) THEN Reg(Unused(disk)) ELSE disk.entry[Real(disk, from)]
        diskWorks == /\ Vacant(disk, DiskPath(p))
                     /\ \/ ParentOutside(old)
                        \/ /\ HasParent(disk, from)
                           /\ KindAt(disk, Real(disk, from)) \notin {"none", "dir"}
    IN  /\ Found(mem, old) => KindAt(mem, getNode(mem, old)) # "dir"
        /\ DiskThenMem(p, how, ParentOutside(p), diskWorks, Put(disk, DiskPath(p), node),
                       LinkWorks(mem, old, p), Link(mem, old, p))
        /\ plain' = FALSE
        /\ diverged' = (\/ diverged \/ ParentOutside(p) \/ ParentOutside(old)
                        \/ diskWorks /\ KindAt(disk, Real(disk, from)) = "link")

\* If the device is not made, for want of the right, because something is there
\* or for a reason of the disk's own ("torn"), an empty file is written in its
\* place.
MakeDevice(p, how) ==
    LET q == DiskPath(p)
        here == caseSensitiveOnDisk(p)
        node == mayMknod /\ Vacant(disk, q) /\ how = "done"
        done == here => node \/ Opens(q, TRUE, how)
    IN  /\ NoteOp
        /\ NotADevice(p)
        /\ Answered(how, here, Outside(q))
        /\ disk' = IF ~(here /\ done) THEN disk
                   ELSE IF node THEN Put(disk, q, Dev) ELSE Written(q, Empty, how)
        /\ mem' = IF done /\ Vacant(mem, p) THEN Put(mem, p, Dev) ELSE mem
        /\ plain' = FALSE
        /\ diverged' = (diverged \/ ~Vacant(disk, q))
        /\ UNCHANGED <<system, caseMap, expect>>

\* os.Remove refuses a directory that is not empty.
DiskRemoves(q) ==
    RemoveWorks(disk, q) /\ \A u \in Under(disk, q) \ {Real(disk, q)} :
                               KindAt(disk, u) = "none"

\* No other spelling of the path was written to.
OnlySpelling(p) == \A q \in Paths : key(q) = key(p) /\ q # p => expect[q] = <<>>

\* Memory first; the spelling is released whatever the disk then does.
RemovePath(p, slash, how) ==
    /\ NoteOp
    /\ how # "torn"
    /\ LET works == RemoveWorks(mem, p)
           there == works /\ removeOnDisk(p, slash)
           gone == how = "done" /\ ~ParentOutside(p) /\ DiskRemoves(DiskPath(p))
       IN  /\ Answered(how, there, ParentOutside(p))
           /\ mem' = IF works THEN Remove(mem, p) ELSE mem
           /\ disk' = IF there /\ gone THEN Remove(disk, DiskPath(p)) ELSE disk
           /\ caseMap' = IF works THEN Released(p, slash) ELSE caseMap
           /\ expect' = IF works THEN [q \in Paths |-> IF q \in Under(mem, p) THEN <<>>
                                                       ELSE expect[q]]
                        ELSE expect
           /\ diverged' = (diverged \/ (there /\ ~gone))
           /\ plain' = (plain /\ (caseSensitive \/ ~there \/ (gone /\ OnlySpelling(p))))
    /\ UNCHANGED system

----------------------------------------------------------------------------

Next ==
    \E p \in Paths, how \in Answers :
       \/ \E d \in Contents : WriteFile(p, d, how) \/ Create(p, d, how) \/ OpenFile(p, d, how)
       \/ MakeDir(p, how)
       \/ \E w \in Texts : MakeSymlink(w, p, how)
       \/ \E old \in Paths : MakeLink(old, p, how)
       \/ MakeDevice(p, how)
       \/ \E slash \in BOOLEAN : RemovePath(p, slash, how)

Spec == Init /\ [][Next]_vars

----------------------------------------------------------------------------
(* Properties                                                              *)

TypeOK ==
    /\ {caseSensitive, mayMknod, plain, diverged} \subseteq BOOLEAN
    /\ IsTree(mem) /\ IsTree(disk)
    /\ caseMap \in [Paths -> Paths \cup {Unclaimed}]
    /\ \A p \in Paths : caseMap[p] # Unclaimed => key(caseMap[p]) = p
    /\ ops \in 0..MaxOps
    /\ faults \in 0..MaxFaults
    /\ expect \in [Paths -> {<<>>} \cup {<<d>> : d \in Contents}]

\* "If the underlying filesystem is case-sensitive, then all files are mapped
\* both on disk and in memory": after any calls, also failed ones and ones the
\* disk refused or broke off, both have the same paths, of the same kinds, and
\* the same ones are hard links of one file.  The exceptions are these calls:
\* one whose path leads out of the base directory on disk, through a link that
\* is absolute or goes up too far; a disk that breaks off WriteFile, or refuses
\* Create, of a file that was not there, or refuses Remove, for a directory
\* that is not empty or for any reason; a device made over something; a link
\* that is hard-linked; and there were links before.
Mirrored ==
    caseSensitive /\ ~diverged =>
       /\ \A p \in Paths :
             \/ KindAt(mem, p) = KindAt(disk, p)
             \/ KindAt(mem, p) = "dev" /\ KindAt(disk, p) = "file"
       /\ \A p, q \in Paths : KindAt(mem, p) = "file" /\ KindAt(mem, q) = "file" =>
             (mem.entry[p] = mem.entry[q] <=> disk.entry[p] = disk.entry[q])

\* "We can only have one variant of each file on disk, but multiple in memory":
\* as long as there are no links and devices, every spelling of a path reads
\* back what was written under it last, whatever was written under the other
\* ones, removed, refused or broken off, unless that write failed or the path
\* was removed.  Not so on a disk without case that had files before, or that
\* refused to remove one: they are not in caseMap, and the first other spelling
\* takes over the file.  Nor if the spelling on disk is removed while another
\* one has contents: the claim goes with it, and the other one, whose contents
\* are in memory, is from then on looked for on disk.
ReadsBack ==
    plain => \A p \in Paths : expect[p] # <<>> => Reads(p) = expect[p]

\* ReadDir: "either way, memory always should be >= disk".
MemoryCoversDisk ==
    caseSensitive =>
       \A p \in Paths : KindAt(disk, p) # "none" => KindAt(mem, p) # "none"

----------------------------------------------------------------------------
(* The inductive invariant                                                 *)

\* Memory and disk have links at the same places, and the disk's is the same or
\* leads out of the base directory: a path that does not leads to the same place.
MirrorInv ==
    /\ Mirrored
    /\ caseSensitive /\ ~diverged =>
          \A p \in Paths : KindAt(mem, p) = "link" =>
             disk.entry[p] \in {mem.entry[p], SymlinkTo(HostRoot)}

\* Where the contents of a spelling are.
Home(p) == IF caseSensitiveOnDisk(p) THEN disk ELSE mem
PathAtHome(p) == IF caseSensitiveOnDisk(p) THEN DiskPath(p) ELSE p

\* As long as there are no links no file has two names, what is on a disk
\* without case is claimed, and what was written under a spelling is at its
\* home, of which no other spelling is.
ReadInv ==
    plain =>
       /\ OneName(mem) /\ OneName(disk)
       /\ \A p \in Paths : KindAt(mem, p) # "link" /\ KindAt(disk, p) # "link"
       /\ ~caseSensitive =>
             \A p \in Paths : /\ KindAt(disk, p) # "none" => caseMap[p] # Unclaimed
                              /\ expect[p] # <<>> => caseMap[key(p)] # Unclaimed
       /\ \A p \in Paths : expect[p] # <<>> =>
             /\ KindAt(Home(p), PathAtHome(p)) = "file"
             /\ expect[p] = <<Home(p).data[Home(p).entry[PathAtHome(p)][2]]>>

DirInv == TypeOK /\ MirrorInv /\ ReadInv
=============================================================================
