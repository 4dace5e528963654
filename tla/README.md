# A TLA+ verification of go-apk

go-apk (`github.com/chainguard-dev/go-apk`) installs Alpine packages into a
filesystem without the `apk` tool: it resolves `/etc/apk/world` against
repository indexes, fetches and expands the packages, writes their files, and
keeps apk's database under `/lib/apk/db`.  This directory models the parts of
it where order, concurrency, failure and retries decide whether the result is
right, checks them with TLC on small instances and proves the main results
with TLAPS for every instance.

## 1. The system: inventory

| Component | State | Operations | Interacts with |
|---|---|---|---|
| Install pipeline (`implementation.go`: `FixateWorld`, `InstallPackages`, `installPackage`) | promises `done[i]`, `expanded[i]`, `infos[i]`, `allFiles[i]`, an errgroup and its context | spawn, fetch, install in order, record; cancel; call again | every other one |
| File installation (`install.go`) | the filesystem `a.fs`, `a.installedFiles` (path to owning `*Package`) | write, keep, overwrite or refuse an entry | record loop |
| Installed database (`installed.go`) | `/lib/apk/db/installed`, `scripts.tar`, `triggers` | append a record, scripts, triggers; look a package up | pipeline |
| Package cache (`cachePackage`, `cachedPackage`, `expandapk.PackageData`) | four files per package in a directory that processes share | stat, rename, create in place, index | `tarfs`, other processes |
| Once caches (`apkCache`, `etagCache`, `indexCache`) | process-wide maps of `sync.Once`, results and modification times | get | transport, pipeline |
| Etag cache (`cache.go`) | cached files named by etag, in a directory that outlives the process | HEAD, stat, GET, temporary file, rename; newest entry when offline | once caches |
| Range-retry transport (`transport.go`) | `progress`, the current body | read, reset with a Range request | `net/http` |
| Resolver (`repo.go`, `version.go`) | disqualified packages, `dependenciesMap`, the maps of the recursion | constrain, choose, disqualify, recurse, `install_if` | indexes, pipeline |
| Filesystems (`pkg/fs`) | in-memory tree; disk, overlay and case map | the `FullFS` operations | file installation |
| Formats and helpers (`apkindex.go`, `package.go`, `passwd`, `tarball`, `signature`, `releases.go`, options) | none that outlives a call | parse, print, sign | |

What is hard in it, and what makes each component correct:

* **Pipeline.**  One installer and one fetcher per package share slots of one
  errgroup.  Packages must be installed in list order although fetches end in
  any order; the database is written only when everything else is done; a
  failure or cancellation anywhere ends the call, with the error that caused
  it; a repeated call completes what is missing and repeats nothing that is
  recorded.
* **Files.**  Packages overlap.  Who wins a path follows from origins and
  `replaces`; the database must list every file, once, with the checksum of
  what is there, also when calls fail in the middle and are repeated.
* **Package cache.**  Processes crash between renames and run against each
  other; a hit must be a complete package.
* **Range retry.**  A connection may break with bytes in the caller's buffer;
  the caller must still see every byte once and in order.
* **Once caches and etag cache.**  The first caller works for all others; a
  failed or cancelled one decides for all of them.  The server may publish
  between HEAD and GET, and a process may be killed between the temporary file
  and the rename; local indexes change while they are read.  A file must be
  what its name says, callers must not see two versions, nobody may hang.
* **Resolver.**  Greedy, with no way back: choosing a package disqualifies
  others, constraints of dependencies are met late, indexes have cycles and
  virtual packages, and candidates come in the order of a Go map.  It must end,
  honour the world, put dependencies first, and be deterministic.
* **Filesystems.**  `dirFS` keeps a tree in memory and one on disk, and on a
  disk without case several spellings of which one is on disk; each call
  changes both, the disk may refuse its half or stop in the middle, and the two
  resolve links by different rules.
* **Installed database.**  Two append-only files, of which one is overwritten
  at its end; a write that stops leaves a torn record that the next call
  continues.

`PROJECT.json` has the whole list: `components`, the `hazards` with the lines
where they bite and the properties that watch them, the `map` from every
definition to the lines it models, and for every property a mutant of the code
that it catches.

## 2. Modules

| Module | What it is |
|---|---|
| `InstallPackages` | the concurrent pipeline: caller, installer, fetchers, errgroup, contexts, repeated calls |
| `SeqInstall` | the abstract specification: the same installation with no goroutines |
| `InstallPackagesProofs` | the theorems about the pipeline |
| `InstallFiles`, `InstallFilesProofs` | ownership of paths and what the database lists, over several calls, and the theorems |
| `PkgCache`, `PkgCacheProofs` | the cache directory shared by processes that crash, and the theorems |
| `RangeRetry`, `RangeRetryProofs` | the reader that resumes downloads, and its theorems |
| `Version` | version numbers, their order and constraints, as operators |
| `Resolver`, `ResolverProofs` | `GetPackagesWithDependencies` and `FixateWorld`, over `Version`, and the theorems |
| `EtagCache` | the cached transport and its directory |
| `IndexCache`, `IndexCacheProofs` | the once caches of a process, composed with `EtagCache`, and the theorems about both |
| `MemFS` | the in-memory tree, as operators |
| `DirFS`, `DirFSProofs` | memory, disk and case map, over two trees of `MemFS`, and the theorems about both |
| `InstalledDB`, `InstalledDBProofs` | the text of the database and the blocks of `scripts.tar`, and the theorems about both |
| `MC*` | instances for TLC |

### InstallPackages

The calling goroutine is `mpc`, `next` (goroutines started) and `rec` (the
record loop); the installer is `ipc` and the index `k`; fetcher `i` is
`fetch[i]`.  `done`, `expanded`, `infos` and `closed` are the indices for
which the slices of the code are filled, the channel is closed, or
`expanded.Close()` has run.  The errgroup is external and modelled from its
use: `g.Go` blocks while `Limit` goroutines are active, the first error is kept
and cancels `gctx`, `g.Wait` returns when all have.  Of the filesystem the
model keeps, for each package, its records in the database, whether its files
are there, and how often its scripts and triggers were appended.  Every step
that can fail has an action for it: a fetch fails with an error, or with a
cancellation once `gctx` is cancelled; `installPackage` fails behind part of
its work, and closes the package on that way out too.  `CallAgain` is a retry
with a new context on the same filesystem.

Two simplifications bound what the results say.  The APK has no cache
directory, so `expandPackage` works for this call alone; with one,
`globalApkCache` may hand out an error of an earlier call (then a cancellation
can be reported to a caller who did not cancel, and a fetch is not given up
when the context of a second waiter ends): that is the scheme `apk` of
`IndexCache`.  A record is appended by one write that happens or fails as a
whole; writes that stop in the middle are in `InstalledDB`.

`SeqInstall` is what a caller may rely on: process the packages in order, then
record the fresh ones, fail anywhere.  The refinement maps the installer's
index to the position and forgets the fetchers.

### InstallFiles

An archive is a function from paths to content; its entries are taken in any
order, which covers every archive.  One action per outcome of
`installRegularFile`: written, kept because identical, kept because the owner
replaces this package, overwritten, or refused for one of three reasons;
failures leave nothing, a part or all of a file.  `a.installedFiles` is
`owner`; since ownership is compared by pointer and `packageInfo` allocates a
`Package` in each call, a pointer is a package together with a call.  Symbolic
links, hard links and directories follow their branches of the `switch`.
Packages are installed one after the other, which is what `InstallPackages`
justifies.  A path has the same kind in every package.
`lazilyInstallAPKFiles` leaves these decisions to a `WriteHeaderer` that is
not part of the repository.

### PkgCache

The control, signature and data files only appear by renames, so they are
there or not; the `.tar` path names an inode, because `PackageData` creates it
in place and `cachePackage` renames another one over it while both may be
open.  A process looks the package up, indexes the tar, or fetches, expands
and renames in the code's order, then reads the files.  It may crash at every
step; `crashed` remembers that something did.

### RangeRetry

The resource is the bytes `1..Size`; `delivered` is what the caller was given.
`Read` is split at its calls: a read of the body yields bytes, the end, or
breaks behind some bytes that are in the buffer but not counted; a reset gets a
body that continues (a 206, or a 200 with as much discarded), none, or fails.
Errors are not sticky in the code, so the caller may read again.

### Version and Resolver

A version is the groups that `versionRegex` cuts it into; matching the
expression is left out.  `ParseVersion` fails on a text that does not match
and on a number that `strconv.Atoi` refuses (`MaxInt`).  The recursion of
`getPackageDependencies` is the variable `stack`, one frame per call with its
own list of dependencies, so that what the calls share (`dq`, `existing`,
`existingOrigins`) changes between the steps as in the code.  A universe is
the packages of all indexes, the world, and what is installed.  One step is
one choice, one descent, one return, one name visited for `install_if`, or
one constraint.  What Go leaves open, the order in which providers of a name
come from a map, is taken as the order of the indexes, and
`ChoiceOrderIndependent` says that it makes no difference; the order in which
`range` visits names for `install_if` is a choice of the model.  Ties between
dependencies are broken by their texts, whose order is the constant `Text`.
The loops that build a list from a list (`Select`, `AppendNew`,
`AppendInstallIf`) are recursive functions over the length.

### EtagCache and IndexCache

Each version of the resource is its own etag.  The cache directory is a
set of files, each with the time of its last write by a clock that every write
advances, because the offline lookup takes the newest entry whatever its name.  `RoundTrip` is split at its requests and file
operations: HEAD, stat, GET and temporary file, copy, rename.  A request fails
when the context of the caller *inside* the once is cancelled, or by itself.
`IndexCache` adds what is above the transport, for one URL of one scheme: a
key goes to the transport directly, a remote index and a package are inside a
once of their own, a local index is behind a mutex and compared by
modification time.  Local files are written in two steps, so that one can be
read in the middle of a write; a modification time may stand still (`coarse`).
A process that is killed is followed by another, online or offline, over the
same directory.

### MemFS and DirFS

A tree has paths of one or two names, files with numbers that hard links
share, directories, devices and symbolic links.  A link holds the text of its
target: names below its own directory, names behind one `..`, or names behind
the root.  `Hop` goes from one link to where it points, `Follow` does so
`MaxLinks` times; `Real` resolves all but the last name of a path, as `openFile`
and the operations that make or remove an entry do, and `getNode` all of it.
The code joins a target to the directory as it was spelled and not as it was
resolved.  Here that is no difference: a directory has one name, so either is
below the root, and a target has at most two names from the root on.

`DirFS` is the memory, the disk and `caseMap`; the disk is another tree with
the operating system's rules, and is external.  It folds names if it has no
case, keeps a directory that is not empty, hard-links a symbolic link itself,
and follows an absolute link from the host's root, which is not the base
directory: `DiskText` makes such a link one that leads out (`HostRoot`).  What
is out there is not modelled; a call that ends there may succeed or fail, and
changes nothing here.  Inside, the disk may fail any call for a reason of its
own, `MaxFaults` times: it refuses the call, or (`"torn"`) it opens and empties
the file of a write and stops; any other part of the contents would be as
wrong, so one stands for all.

Every action is a whole call: which half is tried first, what the other does
if it fails, and the claim `createOnDisk` makes either way.  Three histories
are for the properties: `expect` is what was written last under a path,
`plain` is that the spellings can be told apart, and `diverged` that there was
a call that takes effect in one half and not in the other.  Not among the
calls: writing to a device, and hard links to directories.

### InstalledDB

A record is the lines `AddInstalledPackage` writes, in the order of
`sortTarHeaders`; a write stops behind any line or inside one, and the next
append continues the torn line.  `ParseInstalled` is the state machine of the
code over these lines, with the lines it cannot read.  An archive may have any
tree of headers, one for a path; the root has none, because `sortTarHeaders`
would take it for a child of itself and descend for ever (`IsArchive`).
`scripts.tar` is a
sequence of blocks; `updateScriptsTar` seeks two blocks back from the end,
whatever they are, and its error from `tw.Close` is not looked at.

## 3. What TLC checks

| Run | Shows | Distinct states |
|---|---|---|
| `install` | the safety properties of the pipeline, the refinement of `SeqInstall`, and that a call returns | 88 thousand |
| `files` | three packages on one path, and two packages with a path of every kind over base systems, failures, a retry on the same or a new APK: the winner, the listing, the conflicts | 1.5 million |
| `files_lost` | *violated*: `EveryFileListed` on a retry (`implementation.go:684`) | |
| `pkgcache` | crashes and interleavings of two processes: a hit of a process that began behind the rename of the data is signed, a partial file heals | 64 thousand |
| `pkgcache_short` | *violated*: `CachedWhole` without any crash (`README.md:87`) | |
| `range_retry` | the bytes delivered, the end of the file, and that `Read` returns | 448 |
| `resolver` | three families of indexes: the resolver ends, honours the world, puts dependencies first, and does not depend on map order | 17 thousand |
| `resolver_deps` | *violated*: `DepsSatisfied` (`repo.go:190`) | |
| `caches` | two callers, changing versions, failures, cancellations and killed processes: files are what their etags say, one answer for all, fresh local indexes, every call returns | 211 thousand |
| `dirfs` | four calls on two spellings, links to anywhere, a disk that fails one call: memory and disk stay in step, every spelling reads back | 40 thousand |
| `dirfs_memory` | *violated*: `MemoryCoversDisk` (`rwosfs.go:386`) | |
| `installed_db` | 64 archives, writes that stop anywhere: records, retries and scripts survive | 499 thousand |

The properties, by what would break them:

* `RecordedComplete`, `RecordedUntouched`, `SuccessRecordsAll`: the filesystem
  and the database against the list, over failures and repeated calls.
  `TypeOK`, `RecordedOnce` and `GivenOrder`, and `TypeOK` of `RangeRetry`, are
  not run because they are proved.
* `PipelineInv`, `ReaderInv`, `FilesInv`, `CacheInv`, `IndexInv`,
  `ResolverInv` and `DirInv`: the inductive invariants of section 5, types
  included where they are not named apart.  A run checks each on the small
  instance, so what the proofs rest on is known to be satisfiable there.  The
  two of `InstalledDB` are proved and not run: `ScriptInv` ranges over an
  infinite set of blocks, and `installed_db` passes with `DatabaseInv`
  added to it.
* `NeverStuck`: whenever the caller is blocked somebody in the group can go
  on.  `CancelReturns`: after a cancellation or a failure the call returns,
  without assuming that any fetch ends of itself.  `AlwaysReturns`: if fetches
  do end, so does the call.
* `RootCauseReported`: the cancellation the installer sees never hides the
  failure behind it.
* `ListedExactlyOnce`, `ListedMatches`, `ReplacesWins`, `ConflictReported`,
  `BaseUntouched`, `NeverForeign`: the database against the filesystem, and
  the filesystem against origins and `replaces`.  A first call that succeeds
  lists a file that the base system did not have exactly once, and one that it
  had at least once unless it is a symbolic link.  `NeverForeign` looks at the
  first call.  A second call has the list of the first: that another list
  overwrites a file of an installed package, which the TODO at
  `implementation.go:676` is about, is not covered.
* `SettledSigned`, `PartialHeals`: the package cache.  `SettledSigned` is about
  a process that began to look the package up when the data file had been
  renamed into place (`late`); one that began before can miss the signature,
  find the data, and take the package for an unsigned one.
* `Prefix`, `EOFAtEnd`, `ReadReturns`: the reader.
* `DependenciesFirst`, `WorldHonoured`, `ChoiceOrderIndependent`: the result of
  the resolver.  `Advances` says that every step makes a tuple of what is left
  to do smaller in the lexicographic order, `DepthBounded` bounds that tuple,
  and TLC finds no deadlock but the end: together, the resolver terminates.
  The exceptions each of them makes (cycles, `install_if`, versions that do
  not parse) are in its comment, and each is needed.
* `NamedByEtag`: an entry named by an etag is whole and is that version.
  `OneAnswer`: the callers of a process agree, error or not.  `LocalFresh`: a
  local index is not older than the file was when it was asked for.
  `CallsReturn`: also behind a cancelled first caller.  That callers with
  different keys or options share one answer is not seen by any of them: the
  model does not tell such callers apart.
* `Mirrored`: two copies of one tree.  Its comment lists the calls behind which
  it promises nothing: each of them can take effect in one half alone.
  `ReadsBack`: the spellings of one path, through removals and failed writes.
* `RecordsKept`, `RetryRecords`, `ScriptsKept`: what was complete before a torn
  write is there after it, and a retry completes what was torn.

### Bounds

* `install`: three packages, so that one is behind and one ahead of the
  installer while the third fails; two jobs, so that two fetchers and the
  installer compete for the slots and the third fetcher waits for one; two
  calls, so that the second meets what a failed one left.
* `files`: three packages pass one path along, with two contents, two origins
  and none, and every relation `replaces` (not only sensible ones).  Paths do
  not influence each other in this code, so one regular file is enough there.
  The second family has one path of every kind, two packages and a base
  system, with a symbolic link among others.  Contents, and origins, can be exchanged for each other, so the
  first package that has one has the first.  Two calls: the second meets
  whatever the failed first one left.
* `pkgcache`: two processes with two installs each, on an empty cache or on
  one written before the `.tar` files existed.
* `range_retry`: five bytes and a buffer of three give full, short and empty
  reads at every position; the two resets are the code's own.
* `resolver`: four names with up to two versions each.  One family varies
  dependencies with version conflicts, `!name` and cycles; one varies virtual
  packages with and without versions, priorities, origins and a tagged index;
  one `install_if` and texts that do not parse.  `MaxInt` is 9, so that a
  number can be too large.  The order of versions is checked over a sample by
  the assumption `VersionOrder` of `MCResolver`: total, antisymmetric,
  transitive, and in agreement with the operators of constraints.
* `caches`: two callers, one inside the once and one waiting; three versions,
  so that HEAD, GET and a later process each meet another one; one failure
  besides the cancellations; two killed processes, so that one leaves a
  temporary file, the next a cached one, and a third goes offline; three
  changes of a local file, one of them in the middle of a write.
* `dirfs`: two names that fold to one, paths of one and two
  names; five targets, of a link in the same directory, above it, below it, and
  from the root on, so that links can lead up, down, out, to each other and
  round in a circle; four calls, of which the disk fails one besides those that
  end outside; three trees to start from (empty, a directory with a file, a
  symbolic link); and two contents, to tell an old one from a new one, which are
  symmetric.  Three links are followed where the code follows 40 in a
  nest and the kernel 40 in all: more than are passed on a path of the model, unless
  they go round in a circle.  The constraint `MCClaims` leaves out what comes
  behind a state from which on the properties claim nothing: `diverged` and the
  end of `plain` are for ever.  `dirfs_memory` has three calls on an empty tree
  and no failures of the disk.
* `installed_db`: every subset of six headers (nested and top-level files,
  directories with and without parents, with and without standard modes)
  followed by a plain package, two scripts and one, and two writes that stop
  in any calls.

The runs other than `resolver` and `resolver_deps` are bounded in calls or
operations, and the behaviours end when the caller has none left, so the
absence of deadlock is not asked of TLC there; `NeverStuck` and the liveness
properties ask it where it matters.  The `resolver` run does ask it: only the
end of the call stutters.

### Fairness

* `InstallPackages!FairSpec`: goroutines that can go on do (the Go scheduler),
  file operations end, and a fetch ends once its context is cancelled
  (`net/http` aborts the request, and the expansion reads from it).  A fetch
  under a live context is not assumed to end: the default client has no
  timeout.  `AlwaysReturns` has that as a hypothesis.  The caller is never
  assumed to cancel or to call.
* `PkgCache!FairSpec`: a process that copies goes on copying.
* `RangeRetry!FairSpec`: a read of the connection and a request end, if with
  an error.
* `IndexCache!Spec`: a caller that can go on does, so a request ends with an
  answer or an error, also under a live context: the default client has no
  timeout, and `CallsReturn` says nothing of a server that never answers.
  `StatLocal` is strongly fair, because `sync.Mutex` hands itself to a goroutine
  that has waited too long.  Nobody is assumed to cancel, to publish or to ask
  again.

## 4. Findings

* `files_lost`: a call writes a package's file and fails later; a retry on the
  same APK finds the identical file, keeps the old pointer in
  `a.installedFiles` and, because the pointer is not this call's, deletes the
  file from the list.  The file is installed and no package lists it.  A new
  APK object starts with an empty map, so there the file is kept in the list.
* `pkgcache_short`: between the last two renames of `cachePackage` a second
  process sees the data file without the `.tar` file and starts to create it;
  meanwhile the rename puts a complete file there, which `os.Create` then
  truncates.  Who opens it during the copy gets a short archive, and `tarfs`
  takes one that ends between two entries for complete.  A crash during the
  copy makes that permanent.
* `resolver_deps`: `a` needs `b` and `c`, and the newest `c` needs `b=1`.  `b=2`
  is chosen before `c` is looked at; `b=1` is then put on the list, but of two
  packages of one name the first stays.  The result is `b=2`, `c=2`, `a`, and
  no error.  `disqualify` has a TODO about it (`repo.go:373`).
* `dirfs_memory`: `os.Link` of a symbolic link makes the link, `memFS.Link`
  follows it and fails if it leads nowhere: the new name is on disk and
  `ReadDir` does not list it.  A new file whose first write the disk breaks off
  ends like that too.

What the models had to follow, and no run is about:

* on a disk without case `a` and then `A` are written, so that `A` has its
  contents in memory.  `a` is removed, and with it the entry of the map
  (`rwosfs.go:591`); `A` is now looked for on disk (556), where it never was, and
  cannot be read although `ReadDir` lists it.  The comment at 184 says "Any
  other variant is in memory."  `ReadsBack` has the case as an exception;
* `Symlink("/a", "A")` and then `WriteFile("A")`: memory resolves the link inside
  its tree (`memfs.go:96`, 265) and makes `a`, the disk writes to `/a` of the host
  (`rwosfs.go:418`) or fails there, and nothing is in the base directory.  The
  comment at `rwosfs.go:180` says "all files are mapped both on disk and in
  memory".  `Mirrored` has the case as an exception;
* expanded packages that are skipped, or come behind a failure, are not closed
  (`implementation.go:627`, against `expandapk.go:326`);
* a base file identical in two packages is listed by both, and a symbolic link
  of the base system that a package ships too is listed by nobody;
* the walk of `DirFS` skips existing symbolic links (an inverted test at
  `rwosfs.go:144`) and does not put existing files into `caseMap`;
  `removeOnDisk` does not know a path with a leading slash; the fallback of
  `Mknod` truncates what is there;
* a torn line of one character makes the database unreadable for every later
  call; `sortTarHeaders` drops top-level files and top-level directories
  without children; `ParseInstalled` copies a header before it reads its
  permissions, which are lost;
* `install_if` does not ask whether a package is disqualified; conflicts are
  compared with installed names as whole texts, version included;
* offline, a temporary file that a crash left behind is the newest entry and
  is served; an index is then refused by its parser, a key is not.

## 5. What is proved

`InstallPackagesProofs`, for every `N`, `Jobs > 0` and `MaxRuns` in `Nat`
(`NAssumption`, `JobsAssumption`, `MaxRunsAssumption`): all safety properties
of the pipeline and `ImplementsSeqInstall`.

The argument is one inductive invariant, `TypeOK /\ PipelineInv`:

* `SpawnInv`: goroutines start one after the other, the installer first;
* `PromiseInv`: a closed promise has its assignment behind it, and a fetcher
  that is gone has kept its promise or left an error;
* `ErrorInv`: why `gctx` is cancelled while the group runs;
* `JoinInv`: behind `g.Wait` nobody is left, and without an error the
  installer is at the end of the list;
* `InstallerInv`: what is behind the installer is complete, what it works on
  is promised;
* `DatabaseInv`: a package of this call is recorded exactly when the record
  loop has passed it, any other one behind the installer is recorded.

None of the properties is inductive alone: that a success records everything
needs that the installer ended (`JoinInv`), that it took every package
(`InstallerInv`), and that skipped ones were recorded before (`DatabaseInv`).
`NeverStuck` rests on the cardinality of the active goroutines: if no fetcher
is active only the installer is, so with `Jobs + 1 >= 2` slots `g.Go` is not
blocked, and in `g.Wait` every fetcher has kept its promise or cancelled the
group.  The action properties use that only the installer's current package is
touched (`TouchedIsAtHand`).  The refinement has one step for each action:
fetchers, slots and the parts of `installPackage` stutter.

`RangeRetryProofs`, for every `Size` and `BufSize > 0`: `ReaderInv`, `Prefix`
and `EOFAtEnd`.  The invariant says that a live body stands where the caller
does, and that before a reset the bytes of the broken read are in the buffer
and not in the count, so that they are either read again or delivered with the
error.

`InstallFilesProofs`, for every number of packages, paths, contents, origins
and calls, and every base system (`NAssumption`, `KindAssumption`,
`OriginAssumption`, `ContentAssumption`, `CallsAssumption`,
`SystemsAssumption`): all six invariants of `InstallFiles` and
`BaseUntouched`.  `FilesInv` has, besides the types,

* `LoopInv`: how far the two loops have come, and that what is recorded is a
  beginning of the list;
* `ListInv`: the owner and the lists name paths that were handled;
* `OwnerInv`: the file is its owner's, and who came later had the same one or
  was replaced by the owner;
* `RecordInv`: a listed file is there, and no package still to come may touch
  it (`ListedMatches` alone is not inductive, because a retry can install more
  packages over it);
* `ReplaceInv`, `ConflictInv`, `BaseInv`, `FirstCallInv`: what a path looks
  like between the steps at which `ReplacesWins`, `ConflictReported`,
  `BaseUntouched` and `ListedExactlyOnce` look at it.

`PkgCacheProofs`, for any number of processes and installs
(`AttemptsAssumption`, `OldCacheAssumption`): `SettledSigned`, under every
interleaving and every crash.  `CacheInv` says that the signature file is there
before the data file (`OrderInv`), that a process that has seen the one knows
of the other (`SignedInv`), and that files are open where they are used.

`IndexCacheProofs`, for any number of callers, versions, failures, kills and
local writes (`BoundsAssumption`, `CallersAssumption`, `WritesAssumption`,
`FreeAssumption`): `NamedByEtag`, `OneAnswer` and `LocalFresh`.  `IndexInv` has
the invariant of the transport (`OnceInv`: one caller is inside, and what it
stored is on disk; `DirInv`: while a body is saved its temporary file is the
newest entry; `AnswerInv`) and the one of the process above it (`SchemeInv`,
`ResultInv`, `LocalInv`).  That offline callers agree needs `DirInv`: the
newest entry is unique.

`InstalledDBProofs`, for any number of packages, scripts and writes that stop
(`PackagesAssumption`): `ScriptsKept`.  `ScriptInv` says that the archive holds
the blocks of what was added before a write stopped, and at least two blocks
behind them, so that seeking two blocks back from the end never reaches a
script that was complete.  The length of what a reader gets is the value of a
recursive function; that it is at least the number of complete scripts is
proved by induction.

The installed database, for every list of packages and every archive
(`PackagesAssumption`: finitely many headers, one for a path, none for the
root): `RecordsKept` and `RetryRecords`, from `DatabaseInv`.

* `sortTarHeaders` is a recursive function of families of siblings.  That it
  lists exactly the headers of `Kept`, each once, and each file behind its own
  directory with no other directory between (`Placed`), is proved by induction
  over the depth, from the families that have no children up
  (`SortedChildren`).
* `ParseFrom` of two texts one after the other is the one from where the other
  ends (`ParseConcat`); with `Placed` the directory `ParseInstalled` remembers is
  the one the next file sits in (`BodyParse`), so a record is read as it was
  written (`RecordParse`).
* `RecordInv`: until a write stops short no record is open, so the next one
  starts afresh; from then on packages that were read are only added to.
* `RetryInv`: `RetryRecords` is about the end of a call, and needs what every
  step before it knows: the packages in the database are the first of the list,
  a call is to record the rest, and the open record is the next package's, with
  its name complete.  So what a retry writes continues the record of the same
  package, and the blank line at its end closes one record of it.

`ResolverProofs`, for every set of indexes, every world, every order of texts
and every `MaxInt` (`NamesAssumption`: finitely many names;
`UniversesAssumption`: entries are well-formed, and two dependencies of a
package are two texts; `MaxIntAssumption`): `DepthBounded`, `WorldHonoured`,
`DependenciesFirst` and `Advances`.

* `DepthBounded`: the calls on the stack are for packages of different names
  (`CallsInv`), so their number is bounded by a pigeonhole argument.
* `WorldHonoured`: what the constraints of the world disqualify in the first
  step stays disqualified, so nothing of it is picked (`PickedInv`), except by
  `install_if`, which does not ask.  So the package at the bottom of the stack
  meets its constraint, and when its name is on the list already the package
  in its place was not disqualified either (`HonouredInv`).
* `DependenciesFirst`: a call has something on its list for every dependency it
  is done with, except for the one it waits for, and each call was made for a
  dependency of the call below (`OrderInv`).  So when a call returns its
  package may follow its list; joining lists, and leaving out names that are
  there already, keeps an order (`Ordered`).  A package that is put on the list
  without a call, because its name is on the stack, is on a cycle: a set that
  has what the name brings in, and is closed under bringing in, has every call
  above it, by induction along the stack.
* `Advances`: every action makes the tuple smaller at its first difference.
  `Descend` takes an open dependency from the innermost call; `Return` leaves a
  proper prefix; the `install_if` loop adds a new name or takes one from
  `visit`.

`DirFSProofs`, for every finite set of names and every folding of them, all
contents, all targets of links of the form above, every bound on the links
followed, every tree to start from, any number of calls and any number of calls
that the disk fails (`NamesAssumption`, `TextsAssumption`, `LinksAssumption`,
`FoldAssumption`, `FoldTextAssumption`, `OpsAssumption`, `BasesAssumption`):
`Mirrored` and `ReadsBack`.  `BasesAssumption` excludes hard links and devices
before the start: the walk of `DirFS` makes two files of a hard link and a file
of a device, so memory would differ from the disk before any call.  `DirInv`
has

* the types: an entry is below a directory, and files have numbers.  That a new
  file finds a free number is a pigeonhole argument (`UnusedExists`): there are
  as many numbers as paths, and the path to be filled has none;
* `MirrorInv`: besides the same kinds, links at the same places, of which the
  disk's is the same or leads out of the base directory.  `Mirrored` alone is
  not inductive, since a call through a link could then end at two places.
  A hop on disk is the same as in memory or leads out, and what is out stays
  out (`HopMirrors`, `AboveStays`); so, along the hops, a route that does not
  leave the disk's tree leads to the same place in both (`FollowMirrors`), and
  each call that stays inside changes both trees at that place (`InStep`).  A
  call that leaves is one that `diverged` records;
* `ReadInv`: no file has two names, everything on a disk without case is
  claimed, and what was written is at its home, the disk for the spelling that
  has the claim and the memory for the others.  One lemma, `ReadStep`, says
  which changes of the two trees and of the claims keep that, and every call is
  shown to make only such; a removal releases a claim, and does so harmlessly
  if no other spelling was written.

What the recursive functions of the models compute is proved in three steps
that all of these share.  The function exists (`RecursionExists`, so that the
`CHOOSE` behind its definition has a witness), it satisfies its equation, and a
property of all its values follows with `UpToInduction`, whose induction
hypothesis is membership in a set and not an operator.  Both rest on the
well-foundedness of the natural numbers (`LeastNumber`).

## 6. What is only model-checked, and what is left out

Stays with TLC:

* liveness (`CancelReturns`, `AlwaysReturns`, `PartialHeals`, `ReadReturns`,
  `CallsReturn`), which is out of the prover's reach.  That the resolver comes
  to an end is proved only as `Advances` and `DepthBounded`; that some step is
  always possible is TLC's check for deadlock;
* `ChoiceOrderIndependent`, which compares the texts of versions: two texts can
  stand for one version (`1.0` and `1.0-r0`), and then the order of the map
  does choose the text.  Such a pair does not meet in the instances, and to
  exclude it is not an assumption the code makes.

Left out:

* text formats (`APKINDEX`, `.PKGINFO`, passwd and group files, the regular
  expressions), bytes of checksums, signatures, tracing and logging;
* modes, owners, timestamps and extended attributes in the filesystems, and
  open files with positions; paths deeper than two names; links to the root
  itself, with `..` in the middle, or absolute ones that name the base
  directory by its path on the host; slash-led paths that climb above the root,
  where `filepath.Join` stays; conflicts of kind in
  `InstallFiles` (a directory where a file is), which panic in `memFS` when a
  link is made under a file;
* `lazilyInstallAPKFiles`, which leaves the decisions to a `WriteHeaderer` that
  is not part of the repository;
* `InitDB` and `InitKeyring`, a list of writes, of which only the state they
  leave is used (the list cannot be repeated: the mode of `/tmp` is compared
  without its sticky bit); the tarball writer and the read-only apk
  filesystem, which are conversions; `CalculateWorld`, which has the same
  fetchers and no installer;
* the branch of the cached transport without etags, a file lookup in front of a
  request; the argument `compare` of `comparePackages`, nil in every call.

`PROJECT.json` has the status of every component.

## 7. Plan

1. The pipeline, files, package cache, reader, and the proofs of section 5:
   done.
2. The once caches over the etag cache, the resolver with versions, the
   directory filesystem over the in-memory one, and the database as text:
   modelled and checked.
3. The proofs of `InstallFiles`, `PkgCache`, the caches, `scripts.tar` and the
   installed database, the resolver and the directory filesystem: done.
