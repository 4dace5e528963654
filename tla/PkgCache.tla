------------------------------ MODULE PkgCache ------------------------------
(***************************************************************************)
(* The package cache on disk, for one signed package and several operating *)
(* system processes that share the cache directory: expandPackage,         *)
(* cachedPackage and cachePackage (pkg/apk/implementation.go) and          *)
(* PackageData (pkg/expandapk/expandapk.go).  Inside one process           *)
(* globalApkCache lets only one goroutine at a package.                    *)
(*                                                                         *)
(* The files <ctl>.ctl.tar.gz, <ctl>.sig.tar.gz and <dat>.dat.tar.gz only  *)
(* ever appear by a rename of a complete temporary file, so they are there *)
(* or not.  <dat>.dat.tar may also be created in place by PackageData:     *)
(* it is a reference to an inode, and the inode has content.               *)
(***************************************************************************)
EXTENDS Naturals

CONSTANTS Procs,         \* the operating system processes
          MaxAttempts,   \* bound on the installs each one makes
          OldCache       \* whether the cache may be one without the .tar file

ASSUME AttemptsAssumption == MaxAttempts \in Nat
ASSUME OldCacheAssumption == OldCache \in BOOLEAN

\* ExpandApk's temporary .tar file, and the one PackageData creates.
Inodes == Procs \X (0..MaxAttempts) \X {"expand", "create"}
NoInode == <<"none">>

VARIABLES
    ctl, sig, dat,  \* which of the renamed files are in the cache
    tar,            \* the inode the .tar path names, or NoInode
    data,           \* data[i]: "none", "part" or "all" of the tar file
    pc,             \* pc[p]: where process p is
    attempt,        \* attempt[p]: which install of its own p is at
    signed,         \* signed[p]: exp.Signed
    fd,             \* fd[p]: the inode p has open, for writing or as TarFS
    got,            \* got[p]: what p's installed files come from: "none",
                    \* "short" or "whole"
    late,           \* late[p]: p's attempt began behind a finished rename of dat
    crashed         \* whether some process has crashed or failed to write

files == <<ctl, sig, dat, tar, data>>
history == <<late, crashed>>
vars == <<files, pc, attempt, signed, fd, got, history>>

TypeOK ==
    /\ ctl \in BOOLEAN /\ sig \in BOOLEAN /\ dat \in BOOLEAN
    /\ tar \in Inodes \cup {NoInode}
    /\ data \in [Inodes -> {"none", "part", "all"}]
    /\ pc \in [Procs -> {"idle", "sig", "dat", "open", "create", "copy", "reopen",
                         "index", "fetch", "rename_ctl", "rename_sig",
                         "rename_dat", "rename_tar", "have"}]
    /\ attempt \in [Procs -> 0..MaxAttempts]
    /\ signed \in [Procs -> BOOLEAN]
    /\ fd \in [Procs -> Inodes \cup {NoInode}]
    /\ got \in [Procs -> {"none", "short", "whole"}]
    /\ late \in [Procs -> BOOLEAN]
    /\ crashed \in BOOLEAN
    /\ \A p \in Procs : pc[p] \in {"copy", "index", "have"} => fd[p] # NoInode

Init ==
    /\ \E old \in {FALSE, OldCache} : ctl = old /\ sig = old /\ dat = old
    /\ tar = NoInode
    /\ data = [i \in Inodes |-> "none"]
    /\ pc = [p \in Procs |-> "idle"]
    /\ attempt = [p \in Procs |-> 0]
    /\ signed = [p \in Procs |-> FALSE]
    /\ fd = [p \in Procs |-> NoInode]
    /\ got = [p \in Procs |-> "none"]
    /\ late = [p \in Procs |-> FALSE]
    /\ crashed = FALSE

Goto(p, l) == pc' = [pc EXCEPT ![p] = l]

\* Process p is at a.
At(p, a) == pc[p] = a

-----------------------------------------------------------------------------
(* cachedPackage *)

\* os.Stat of the control file, which is then read.
StatCtl(p) ==
    /\ At(p, "idle")
    /\ attempt[p] < MaxAttempts
    /\ attempt' = [attempt EXCEPT ![p] = @ + 1]
    /\ Goto(p, IF ctl THEN "sig" ELSE "fetch")
    /\ signed' = [signed EXCEPT ![p] = FALSE]
    /\ got' = [got EXCEPT ![p] = "none"]
    /\ fd' = [fd EXCEPT ![p] = NoInode]
    /\ late' = [late EXCEPT ![p] = dat]
    /\ UNCHANGED <<files, crashed>>

\* A missing signature file is not an error: the package is unsigned.
StatSig(p) ==
    /\ At(p, "sig")
    /\ signed' = [signed EXCEPT ![p] = sig]
    /\ Goto(p, "dat")
    /\ UNCHANGED <<files, attempt, fd, got, history>>

StatDat(p) ==
    /\ At(p, "dat")
    /\ Goto(p, IF dat THEN "open" ELSE "fetch")
    /\ UNCHANGED <<files, attempt, signed, fd, got, history>>

-----------------------------------------------------------------------------
(* PackageData, and tarfs.New on the file it returns *)

OpenTar(p) ==
    /\ At(p, "open")
    /\ fd' = [fd EXCEPT ![p] = tar]
    /\ Goto(p, IF tar = NoInode THEN "create" ELSE "index")
    /\ UNCHANGED <<files, attempt, signed, got, history>>

\* Creating the file and dropping the handle.
CreateTarUnopened(p) ==
    /\ At(p, "create")
    /\ LET i == IF tar = NoInode THEN <<p, attempt[p], "create">> ELSE tar
       IN  tar' = i /\ data' = [data EXCEPT ![i] = "part"]
    /\ Goto(p, "copy")
    /\ UNCHANGED <<ctl, sig, dat, attempt, signed, fd, got, history>>

\* os.Create(a.TarFile): a file that has come to exist since is truncated.
CreateTar(p) ==
    /\ At(p, "create")
    /\ LET i == IF tar = NoInode THEN <<p, attempt[p], "create">> ELSE tar
       IN  /\ tar' = i
           /\ data' = [data EXCEPT ![i] = "part"]
           /\ fd' = [fd EXCEPT ![p] = i]
    /\ Goto(p, "copy")
    /\ UNCHANGED <<ctl, sig, dat, attempt, signed, got, history>>

\* Returning once the file is created, as if the copy went on behind.
CopyTarNever(p) ==
    /\ At(p, "copy")
    /\ Goto(p, "reopen")
    /\ UNCHANGED <<files, attempt, signed, fd, got, history>>

\* io.CopyBuffer to its end, and Close.
CopyTar(p) ==
    /\ At(p, "copy")
    /\ data' = [data EXCEPT ![fd[p]] = "all"]
    /\ Goto(p, "reopen")
    /\ UNCHANGED <<ctl, sig, dat, tar, attempt, signed, fd, got, history>>

\* The copy fails: cachedPackage has an error, which is a cache miss; the
\* file stays.
CopyTarFail(p) ==
    /\ At(p, "copy")
    /\ Goto(p, "fetch")
    /\ crashed' = TRUE
    /\ UNCHANGED <<files, attempt, signed, fd, got, late>>

ReopenTar(p) ==
    /\ At(p, "reopen")
    /\ fd' = [fd EXCEPT ![p] = tar]
    /\ Goto(p, "index")
    /\ UNCHANGED <<files, attempt, signed, got, history>>

\* tarfs.New reads the headers up to the end of the file: a file cut at the
\* border of an entry, an empty one for a start, is taken for a short archive.
IndexTar(p) ==
    /\ At(p, "index")
    /\ got' = [got EXCEPT ![p] = IF data[fd[p]] = "all" THEN "whole" ELSE "short"]
    /\ Goto(p, "have")
    /\ UNCHANGED <<files, attempt, signed, fd, history>>

\* A file cut inside an entry is an error: a cache miss.
IndexTarFail(p) ==
    /\ At(p, "index")
    /\ data[fd[p]] # "all"
    /\ Goto(p, "fetch")
    /\ UNCHANGED <<files, attempt, signed, fd, got, history>>

-----------------------------------------------------------------------------
(* FetchPackage and ExpandApk into a temporary directory, then cachePackage *)

Expand(p) ==
    /\ At(p, "fetch")
    /\ LET i == <<p, attempt[p], "expand">>
       IN  /\ data' = [data EXCEPT ![i] = "all"]
           /\ fd' = [fd EXCEPT ![p] = i]
    /\ signed' = [signed EXCEPT ![p] = TRUE]
    /\ got' = [got EXCEPT ![p] = "whole"]
    /\ Goto(p, "rename_ctl")
    /\ UNCHANGED <<ctl, sig, dat, tar, attempt, history>>

RenameCtl(p) ==
    /\ At(p, "rename_ctl")
    /\ ctl' = TRUE
    /\ Goto(p, "rename_sig")
    /\ UNCHANGED <<sig, dat, tar, data, attempt, signed, fd, got, history>>

\* The data file before the signature file.
RenameSigSwapped(p) ==
    /\ At(p, "rename_sig")
    /\ dat' = TRUE
    /\ Goto(p, "rename_dat")
    /\ UNCHANGED <<ctl, sig, tar, data, attempt, signed, fd, got, history>>

RenameSig(p) ==
    /\ At(p, "rename_sig")
    /\ sig' = TRUE
    /\ Goto(p, "rename_dat")
    /\ UNCHANGED <<ctl, dat, tar, data, attempt, signed, fd, got, history>>

RenameDat(p) ==
    /\ At(p, "rename_dat")
    /\ dat' = TRUE
    /\ Goto(p, "rename_tar")
    /\ UNCHANGED <<ctl, sig, tar, data, attempt, signed, fd, got, history>>

RenameTar(p) ==
    /\ At(p, "rename_tar")
    /\ tar' = <<p, attempt[p], "expand">>
    /\ Goto(p, "have")
    /\ UNCHANGED <<ctl, sig, dat, data, attempt, signed, fd, got, history>>

-----------------------------------------------------------------------------
\* installPackage reads the files, through TarFS or by opening a.TarFile
\* again; the install is over.
Install(p) ==
    /\ At(p, "have")
    /\ \E i \in {fd[p], tar} :
          got' = [got EXCEPT ![p] = IF data[i] = "all" THEN @ ELSE "short"]
    /\ Goto(p, "idle")
    /\ UNCHANGED <<files, attempt, signed, fd, history>>

\* The process crashes, or one of its calls fails and with it the install.
Crash(p) ==
    /\ pc[p] # "idle"
    /\ Goto(p, "idle")
    /\ got' = [got EXCEPT ![p] = "none"]
    /\ crashed' = TRUE
    /\ UNCHANGED <<files, attempt, signed, fd, late>>

Step(p) ==
    \/ StatCtl(p) \/ StatSig(p) \/ StatDat(p)
    \/ OpenTar(p) \/ CreateTar(p) \/ CopyTar(p) \/ CopyTarFail(p) \/ ReopenTar(p)
    \/ IndexTar(p) \/ IndexTarFail(p)
    \/ Expand(p) \/ RenameCtl(p) \/ RenameSig(p) \/ RenameDat(p) \/ RenameTar(p)
    \/ Install(p) \/ Crash(p)

Next == \E p \in Procs : Step(p)

Spec == Init /\ [][Next]_vars

\* Copying a file ends; nothing else is assumed.
FairSpec == Spec /\ \A p \in Procs : WF_vars(CopyTar(p))

-----------------------------------------------------------------------------
(* Properties. *)

Cached(p) == pc[p] \in {"have", "idle"} /\ got[p] # "none"

\* Who starts when the data file is there gets a hit that knows of the
\* signature (a cached package is not turned into an unsigned one by a crash).
SettledSigned == \A p \in Procs : Cached(p) /\ late[p] => signed[p]

\* The state of what the .tar path names.
TarIs(d) == tar # NoInode /\ data[tar] = d

\* A .tar file that is not whole becomes whole, unless a process crashes: the
\* one that truncated it goes on writing it.
PartialHeals == TarIs("part") ~> TarIs("all") \/ crashed

\* "The now-cached apk can be used in subsequent calls" (README.md:87): what
\* is installed from the cache is the whole package, if nothing has crashed.
CachedWhole == ~crashed => \A p \in Procs : Cached(p) => got[p] = "whole"

-----------------------------------------------------------------------------
(* The inductive invariant, for any number of processes and installs. *)

\* A file is open where it is read or written, and once the .tar path names a
\* file it goes on naming one.
OpenInv ==
    \A p \in Procs :
       /\ pc[p] \in {"rename_ctl", "rename_sig", "rename_dat", "rename_tar"} => fd[p] # NoInode
       /\ pc[p] \in {"copy", "reopen", "index", "have"} => tar # NoInode

\* The signature file is there before the data file.
OrderInv ==
    /\ dat => sig
    /\ \A p \in Procs : /\ pc[p] \in {"rename_dat", "rename_tar"} => sig
                        /\ late[p] => dat

\* Behind the stat of the signature file, whoever came late knows of it; who
\* has expanded the package itself knows of it anyway.
SignedInv ==
    \A p \in Procs :
       /\ late[p] /\ pc[p] \in {"dat", "open", "create", "copy", "reopen", "index", "have"}
             => signed[p]
       /\ pc[p] \in {"rename_ctl", "rename_sig", "rename_dat", "rename_tar"} => signed[p]
       /\ Cached(p) /\ late[p] => signed[p]

CacheInv == TypeOK /\ OpenInv /\ OrderInv /\ SignedInv
=============================================================================
