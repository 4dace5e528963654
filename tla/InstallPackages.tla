-------------------------- MODULE InstallPackages --------------------------
(***************************************************************************)
(* InstallPackages of type APK, pkg/apk/implementation.go: an errgroup     *)
(* limited to GOMAXPROCS+1 goroutines has one installer, taking packages   *)
(* strictly in list order, and one fetcher per package, which expands the  *)
(* package and closes its promise done[i].  When the group has ended       *)
(* without an error, the calling goroutine appends the new packages to     *)
(* /lib/apk/db/installed.                                                  *)
(*                                                                         *)
(* The caller may cancel its context at any time and may call again with   *)
(* the same list on the same filesystem, which is what a retry after a     *)
(* failure is.  Package names in the list are pairwise distinct, as        *)
(* GetPackagesWithDependencies returns them.                               *)
(*                                                                         *)
(* expandPackage is that of an APK without a cache directory, where every  *)
(* call fetches and expands into a temporary directory of its own; with    *)
(* one, the process-wide globalApkCache sits in between and keeps results, *)
(* errors too, beyond the call.  A record is appended to the database by   *)
(* one write, which happens or fails as a whole.                           *)
(***************************************************************************)
EXTENDS Naturals, FiniteSets

CONSTANTS N,        \* len(allpkgs)
          Jobs,     \* runtime.GOMAXPROCS(0)
          MaxRuns   \* bound on how often the caller calls InstallPackages

ASSUME NAssumption == N \in Nat
ASSUME JobsAssumption == Jobs \in Nat \ {0}
ASSUME MaxRunsAssumption == MaxRuns \in Nat

Pkgs == 1..N

VARIABLES
    mpc,        \* calling goroutine: "spawn", "wait", "record", "ok", "failed"
    next,       \* goroutines started so far: the installer is the first
    fetch,      \* fetch[i]: "off", "running", "stored", "exited"
    expanded,   \* the i with expanded[i] assigned
    done,       \* the i with done[i] closed
    ipc,        \* installer: "off", "select", "check", "files", "scripts",
                \* "triggers", "exited"
    k,          \* the index the installer's loop is at
    gctxDone,   \* gctx is cancelled
    ctxDone,    \* the caller's own ctx is cancelled
    gerr,       \* g.err: "none", "cancelled" (a context error) or "error"
    infos,      \* the i with infos[i] # nil
    closed,     \* the i whose expanded[i] was closed, its temporary files gone
    rec,        \* index the record loop has passed
    idb,        \* idb[i]: number of records of package i in .../installed
    files,      \* files[i]: the package's files on a.fs: "none", "part", "all"
    scripts,    \* scripts[i]: times i's scripts were appended to scripts.tar
    triggers,   \* triggers[i]: times i's triggers were appended
    run         \* which call of InstallPackages this is

callVars == <<mpc, next, rec, run>>
fetchVars == <<fetch, expanded, done>>
instVars == <<ipc, k, infos, closed>>
errVars == <<gctxDone, ctxDone, gerr>>
fsVars == <<idb, files, scripts, triggers>>
vars == <<callVars, fetchVars, instVars, errVars, fsVars>>

TypeOK ==
    /\ mpc \in {"spawn", "wait", "record", "ok", "failed"}
    /\ next \in 0..(N + 1)
    /\ fetch \in [Pkgs -> {"off", "running", "stored", "exited"}]
    /\ expanded \subseteq Pkgs
    /\ done \subseteq Pkgs
    /\ ipc \in {"off", "select", "check", "files", "scripts", "triggers", "exited"}
    /\ k \in 1..(N + 1)
    /\ gctxDone \in BOOLEAN
    /\ ctxDone \in BOOLEAN
    /\ gerr \in {"none", "cancelled", "error"}
    /\ infos \subseteq Pkgs
    /\ closed \subseteq Pkgs
    /\ rec \in 0..N
    /\ idb \in [Pkgs -> Nat]
    /\ files \in [Pkgs -> {"none", "part", "all"}]
    /\ scripts \in [Pkgs -> Nat]
    /\ triggers \in [Pkgs -> Nat]
    /\ run \in Nat

\* The state a call of InstallPackages starts in, on whatever a.fs holds.
FreshCall ==
    /\ mpc = "spawn"
    /\ next = 0
    /\ fetch = [i \in Pkgs |-> "off"]
    /\ expanded = {}
    /\ done = {}
    /\ ipc = "off"
    /\ k = 1
    /\ gctxDone = FALSE
    /\ ctxDone = FALSE
    /\ gerr = "none"
    /\ infos = {}
    /\ closed = {}
    /\ rec = 0

\* Some of the packages may have been installed by earlier, finished work.
Init ==
    /\ FreshCall
    /\ run = 1
    /\ idb \in [Pkgs -> {0, 1}]
    /\ files = [i \in Pkgs |-> IF idb[i] = 1 THEN "all" ELSE "none"]
    /\ scripts = idb
    /\ triggers = idb

-----------------------------------------------------------------------------
(* The errgroup, golang.org/x/sync/errgroup, as the code uses it. *)

\* g.SetLimit(jobs + 1)
Limit == Jobs + 1

\* The goroutines of the group that hold a slot; 0 is the installer.
Active == {i \in 0..N : IF i = 0 THEN ipc \notin {"off", "exited"}
                                 ELSE fetch[i] \in {"running", "stored"}}

\* g.Go blocks until there is a slot.
SlotFree == Cardinality(Active) < Limit

\* A function of the group returned the error e: the first one is kept and
\* cancels gctx.
GroupError(e) ==
    /\ gerr' = IF gerr = "none" THEN e ELSE gerr
    /\ gctxDone' = TRUE
    /\ UNCHANGED ctxDone

\* The errors a step under gctx can end with.
Errors == {"error"} \cup (IF gctxDone THEN {"cancelled"} ELSE {})

-----------------------------------------------------------------------------
(* The calling goroutine. *)

SpawnInstaller ==
    /\ mpc = "spawn"
    /\ next = 0
    /\ SlotFree
    /\ next' = 1
    /\ ipc' = "select"
    /\ UNCHANGED <<mpc, rec, run, fetchVars, k, infos, closed, errVars, fsVars>>

SpawnFetcher ==
    /\ mpc = "spawn"
    /\ next \in Pkgs
    /\ SlotFree
    /\ fetch' = [fetch EXCEPT ![next] = "running"]
    /\ next' = next + 1
    /\ UNCHANGED <<mpc, rec, run, expanded, done, instVars, errVars, fsVars>>

StartWait ==
    /\ mpc = "spawn"
    /\ next = N + 1
    /\ mpc' = "wait"
    /\ UNCHANGED <<next, rec, run, fetchVars, instVars, errVars, fsVars>>

\* g.Wait() returns when every goroutine has.
Joined == Active = {}

\* Going on to the database although the group ended with an error.
AfterWaitUnasked == "record"

\* if err := g.Wait(); err != nil
AfterWait == IF gerr = "none" THEN "record" ELSE "failed"

\* g.Wait() also cancels gctx.
WaitReturn ==
    /\ mpc = "wait"
    /\ Joined
    /\ mpc' = AfterWait
    /\ gctxDone' = TRUE
    /\ UNCHANGED <<next, rec, run, fetchVars, instVars, ctxDone, gerr, fsVars>>

\* One turn of the loop over allFiles: infos[i] = nil for a skipped package.
RecordSkip ==
    /\ mpc = "record"
    /\ rec < N
    /\ rec + 1 \notin infos
    /\ rec' = rec + 1
    /\ UNCHANGED <<mpc, next, run, fetchVars, instVars, errVars, fsVars>>

RecordPackage ==
    /\ mpc = "record"
    /\ rec < N
    /\ rec + 1 \in infos
    /\ idb' = [idb EXCEPT ![rec + 1] = @ + 1]
    /\ rec' = rec + 1
    /\ UNCHANGED <<mpc, next, run, fetchVars, instVars, errVars,
                   files, scripts, triggers>>

\* AddInstalledPackage fails: what is recorded before stays recorded.
RecordFail ==
    /\ mpc = "record"
    /\ rec < N
    /\ rec + 1 \in infos
    /\ mpc' = "failed"
    /\ UNCHANGED <<next, rec, run, fetchVars, instVars, errVars, fsVars>>

RecordDone ==
    /\ mpc = "record"
    /\ rec = N
    /\ mpc' = "ok"
    /\ UNCHANGED <<next, rec, run, fetchVars, instVars, errVars, fsVars>>

Returned == mpc \in {"ok", "failed"}

\* The caller cancels the context it passed.
CancelCtx ==
    /\ mpc \in {"spawn", "wait"}
    /\ ~ctxDone
    /\ ctxDone' = TRUE
    /\ gctxDone' = TRUE
    /\ UNCHANGED <<callVars, fetchVars, instVars, gerr, fsVars>>

\* The caller calls again, with a new context, on the same filesystem.
CallAgain ==
    /\ Returned
    /\ run < MaxRuns
    /\ run' = run + 1
    /\ mpc' = "spawn"
    /\ next' = 0
    /\ fetch' = [i \in Pkgs |-> "off"]
    /\ expanded' = {}
    /\ done' = {}
    /\ closed' = {}
    /\ ipc' = "off"
    /\ k' = 1
    /\ gctxDone' = FALSE
    /\ ctxDone' = FALSE
    /\ gerr' = "none"
    /\ infos' = {}
    /\ rec' = 0
    /\ UNCHANGED fsVars

-----------------------------------------------------------------------------
(* The fetchers: exp, err := a.expandPackage(gctx, pkg). *)

\* Promising the package before expanded[i] is assigned.
StorePromised(i) == done' = done \cup {i} /\ UNCHANGED expanded

\* expanded[i] = exp
Store(i) == expanded' = expanded \cup {i} /\ UNCHANGED done

FetchStore(i) ==
    /\ fetch[i] = "running"
    /\ fetch' = [fetch EXCEPT ![i] = "stored"]
    /\ Store(i)
    /\ UNCHANGED <<callVars, instVars, errVars, fsVars>>

\* A path that forgets close().
PromiseForgotten(i) == UNCHANGED <<expanded, done>>

\* close(done[i])
Promise(i) == done' = done \cup {i} /\ UNCHANGED expanded

\* return nil
FetchReturn(i) ==
    /\ fetch[i] = "stored"
    /\ Promise(i)
    /\ fetch' = [fetch EXCEPT ![i] = "exited"]
    /\ UNCHANGED <<callVars, instVars, errVars, fsVars>>

\* The fetch or the expansion fails, or gctx aborts it.
FetchFail(i) ==
    /\ fetch[i] = "running"
    /\ fetch' = [fetch EXCEPT ![i] = "exited"]
    /\ \E e \in Errors : GroupError(e)
    /\ UNCHANGED <<expanded, done, callVars, instVars, fsVars>>

-----------------------------------------------------------------------------
(* The installer goroutine, the loop over done. *)

\* case <-ch: ch is the channel of this index.
SelectReady ==
    /\ ipc = "select"
    /\ k \in done
    /\ ipc' = "check"
    /\ UNCHANGED <<k, infos, closed, callVars, fetchVars, errVars, fsVars>>

\* No case for gctx.Done(): the installer waits for the promise only.
GroupDoneUnheard == FALSE

\* A default case: the installer gives up when the promise is not kept yet.
GroupDoneUnasked == TRUE

\* <-gctx.Done()
GroupDone == gctxDone

\* case <-gctx.Done(): return gctx.Err().  When both cases are ready, select
\* takes either.
SelectCancelled ==
    /\ ipc = "select"
    /\ k \in Pkgs
    /\ GroupDone
    /\ ipc' = "exited"
    /\ GroupError("cancelled")
    /\ UNCHANGED <<k, infos, closed, callVars, fetchVars, fsVars>>

\* Installing without asking.
IsInstalledUnasked == FALSE

\* a.isInstalledPackage(pkg.PackageName())
IsInstalled == idb[k] > 0

\* if isInstalled: continue
CheckInstalled ==
    /\ ipc = "check"
    /\ IsInstalled
    /\ ipc' = "select"
    /\ k' = k + 1
    /\ UNCHANGED <<infos, closed, callVars, fetchVars, errVars, fsVars>>

\* Otherwise infos[i] = packageInfo(expanded[i]).
CheckNew ==
    /\ ipc = "check"
    /\ ~IsInstalled
    /\ infos' = infos \cup {k}
    /\ ipc' = "files"
    /\ UNCHANGED <<k, closed, callVars, fetchVars, errVars, fsVars>>

\* GetInstalled or packageInfo fails.
CheckFail ==
    /\ ipc = "check"
    /\ ipc' = "exited"
    /\ GroupError("error")
    /\ UNCHANGED <<k, infos, closed, callVars, fetchVars, fsVars>>

\* defer expanded.Close(): on every way out of installPackage.
Close == closed' = closed \cup {k}

\* installPackage, first part: the files of the package are on a.fs.
InstallFiles ==
    /\ ipc = "files"
    /\ files' = [files EXCEPT ![k] = "all"]
    /\ ipc' = "scripts"
    /\ UNCHANGED <<k, infos, closed, callVars, fetchVars, errVars, idb, scripts, triggers>>

\* Some of the files may have been written; the ones of an earlier call stay.
InstallFilesFail ==
    /\ ipc = "files"
    /\ \E f \in {files[k]} \cup (IF files[k] = "none" THEN {"part"} ELSE {}) :
          files' = [files EXCEPT ![k] = f]
    /\ ipc' = "exited"
    /\ GroupError("error")
    /\ Close
    /\ UNCHANGED <<k, infos, callVars, fetchVars, idb, scripts, triggers>>

\* updateScriptsTar
InstallScripts ==
    /\ ipc = "scripts"
    /\ scripts' = [scripts EXCEPT ![k] = @ + 1]
    /\ ipc' = "triggers"
    /\ UNCHANGED <<k, infos, closed, callVars, fetchVars, errVars, idb, files, triggers>>

\* The tar writer is closed on the error path too: the append may be there.
InstallScriptsFail ==
    /\ ipc = "scripts"
    /\ \E d \in {0, 1} : scripts' = [scripts EXCEPT ![k] = @ + d]
    /\ ipc' = "exited"
    /\ GroupError("error")
    /\ Close
    /\ UNCHANGED <<k, infos, callVars, fetchVars, idb, files, triggers>>

\* Returning without updateTriggers.
UpdateTriggersForgotten == UNCHANGED triggers

UpdateTriggers == triggers' = [triggers EXCEPT ![k] = @ + 1]

\* updateTriggers; the loop goes on to the next package.
InstallTriggers ==
    /\ ipc = "triggers"
    /\ UpdateTriggers
    /\ ipc' = "select"
    /\ k' = k + 1
    /\ Close
    /\ UNCHANGED <<infos, callVars, fetchVars, errVars, idb, files, scripts>>

InstallTriggersFail ==
    /\ ipc = "triggers"
    /\ \E d \in {0, 1} : triggers' = [triggers EXCEPT ![k] = @ + d]
    /\ ipc' = "exited"
    /\ GroupError("error")
    /\ Close
    /\ UNCHANGED <<k, infos, callVars, fetchVars, idb, files, scripts>>

\* Off by one: the loop ends before the last package.
LoopEndShort == k >= N

\* The loop over done has ended.
LoopEnd == k = N + 1

\* return nil
InstallerReturn ==
    /\ ipc = "select"
    /\ LoopEnd
    /\ ipc' = "exited"
    /\ UNCHANGED <<k, infos, closed, callVars, fetchVars, errVars, fsVars>>

-----------------------------------------------------------------------------
CallerStep ==
    \/ SpawnInstaller \/ SpawnFetcher \/ StartWait \/ WaitReturn
    \/ RecordSkip \/ RecordPackage \/ RecordFail \/ RecordDone

FetcherStep(i) == FetchStore(i) \/ FetchReturn(i) \/ FetchFail(i)

InstallerStep ==
    \/ SelectReady \/ SelectCancelled
    \/ CheckInstalled \/ CheckNew \/ CheckFail
    \/ InstallFiles \/ InstallFilesFail
    \/ InstallScripts \/ InstallScriptsFail
    \/ InstallTriggers \/ InstallTriggersFail
    \/ InstallerReturn

Next ==
    \/ CallerStep
    \/ InstallerStep
    \/ \E i \in Pkgs : FetcherStep(i)
    \/ CancelCtx
    \/ CallAgain

Spec == Init /\ [][Next]_vars

(***************************************************************************)
(* Fairness.  The scheduler runs every goroutine that can go on, file      *)
(* operations end, and net/http gives a request up when its context ends:  *)
(* so a fetcher ends once gctx is cancelled.  A fetch under a live context *)
(* need not end (the default client has no timeout), and FairSpec does not *)
(* assume it.  The caller's own actions, CancelCtx and CallAgain, are      *)
(* never assumed.                                                          *)
(***************************************************************************)
FairSpec ==
    /\ Spec
    /\ WF_vars(CallerStep)
    /\ WF_vars(InstallerStep)
    /\ \A i \in Pkgs : WF_vars(FetchReturn(i)) /\ WF_vars(gctxDone /\ FetcherStep(i))

-----------------------------------------------------------------------------
(* Properties. *)

\* Everything installPackage does for package i has been done.
Complete(i) == files[i] = "all" /\ scripts[i] > 0 /\ triggers[i] > 0

\* installPackage is at work on package i in this step.
Touched(i) ==
    \/ files'[i] # files[i]
    \/ scripts'[i] # scripts[i]
    \/ triggers'[i] # triggers[i]

\* "we must install in the given order exactly" (implementation.go:612):
\* no step puts anything of package i on the filesystem before every earlier
\* package of the list is there completely.
GivenOrder == [][\A i \in Pkgs : Touched(i) => \A j \in 1..(i - 1) : Complete(j)]_vars

\* A package in /lib/apk/db/installed has its files, its scripts and its
\* triggers on the filesystem, whatever failed in this or an earlier call.
RecordedComplete == \A i \in Pkgs : idb[i] > 0 => Complete(i)

\* No sequence of calls, failures of the record loop in the middle included,
\* records a package twice.
RecordedOnce == \A i \in Pkgs : idb[i] <= 1

\* A package that is recorded is never installed again: nothing of it is
\* written a second time by a later call (the isInstalledPackage check).
RecordedUntouched == [][\A i \in Pkgs : idb[i] > 0 => ~Touched(i)]_vars

\* The database is written only when no goroutine is left, none has failed
\* and the whole list is on the filesystem.
RecordedLast ==
    [][idb' # idb => Active = {} /\ gerr = "none" /\ \A i \in Pkgs : Complete(i)]_vars

\* InstallPackages does not return while a goroutine it started still works
\* on the filesystem or on a temporary file.
ReturnsQuiescent == Returned => Active = {}

\* The installer reads expanded[k] only after the fetcher has assigned it.
ExpandedBeforeUse ==
    ipc \in {"check", "files", "scripts", "triggers"} => k \in expanded

\* Success means that every package of the list is recorded.
SuccessRecordsAll == mpc = "ok" => \A i \in Pkgs : idb[i] = 1

\* The error that is reported is a cancellation only if the caller cancelled:
\* the installer's gctx.Err() never hides the failure that cancelled gctx.
RootCauseReported == gerr = "cancelled" => ctxDone

\* Nobody waits on everybody: while the caller is blocked, in g.Go for a slot
\* or in g.Wait, some goroutine of the group can take a step.
Blocked ==
    \/ mpc = "spawn" /\ next <= N /\ ~SlotFree
    \/ mpc = "wait" /\ Active # {}

InstallerCanStep ==
    /\ ipc \notin {"off", "exited"}
    /\ ipc = "select" => LoopEnd \/ k \in done \/ GroupDone

NeverStuck ==
    Blocked => \/ \E i \in Pkgs : fetch[i] \in {"running", "stored"}
               \/ InstallerCanStep

\* Once the group is cancelled, by the caller or by a failure, the call
\* returns: no fetch has to end of its own accord for that.
CancelReturns == gctxDone ~> Returned

\* If every fetch ends, with a package or an error, the call returns.
AlwaysReturns ==
    (\A i \in Pkgs : WF_vars(FetcherStep(i))) => (mpc = "spawn" ~> Returned)

-----------------------------------------------------------------------------
(***************************************************************************)
(* The inductive invariant behind the proofs, in InstallPackagesProofs.    *)
(***************************************************************************)

\* The goroutines are started one after the other, the installer first; the
\* caller waits only behind the last.
SpawnInv ==
    /\ ipc = "off" <=> next = 0
    /\ \A i \in Pkgs : fetch[i] = "off" <=> i >= next
    /\ mpc # "spawn" => next = N + 1

\* A promise is kept behind the assignment it promises, and a fetcher that is
\* gone has kept it or has cancelled the group.
PromiseInv ==
    /\ done \subseteq expanded
    /\ \A i \in Pkgs : fetch[i] = "stored" => i \in expanded
    /\ \A i \in Pkgs : fetch[i] = "exited" => i \in done \/ gerr # "none"

\* Why gctx is cancelled, before g.Wait cancels it in any case.
ErrorInv ==
    /\ gerr # "none" => gctxDone
    /\ gctxDone /\ mpc \in {"spawn", "wait"} => ctxDone \/ gerr # "none"
    /\ gerr = "cancelled" => ctxDone

\* Behind g.Wait there is no goroutine left, and behind it without an error
\* the installer has come to the end of the list.
JoinInv ==
    /\ mpc \in {"record", "ok", "failed"} =>
           ipc = "exited" /\ \A i \in Pkgs : fetch[i] = "exited"
    /\ ipc = "exited" /\ gerr = "none" => k = N + 1
    /\ mpc \in {"record", "ok"} => gerr = "none"

\* Where the installer is: what is behind it is complete, what it works on is
\* promised and not recorded.
InstallerInv ==
    /\ ipc \in {"check", "files", "scripts", "triggers"} => k \in done
    /\ ipc \in {"files", "scripts", "triggers"} => k \in infos
    /\ ipc \in {"scripts", "triggers"} => files[k] = "all"
    /\ ipc = "triggers" => scripts[k] > 0
    /\ \A i \in infos :
           i < k \/ (i = k /\ ipc \in {"files", "scripts", "triggers", "exited"})
    /\ \A i \in Pkgs : i < k => Complete(i)

\* The database against the list: a package of this call enters it when the
\* record loop passes, every other one behind the installer is in it.
DatabaseInv ==
    /\ mpc \in {"spawn", "wait"} => rec = 0
    /\ mpc = "ok" => rec = N
    /\ \A i \in infos : idb[i] = IF i <= rec THEN 1 ELSE 0
    /\ \A i \in Pkgs : i < k /\ i \notin infos => idb[i] = 1
    /\ \A i \in Pkgs : idb[i] <= 1
    /\ \A i \in Pkgs : idb[i] > 0 => Complete(i)

\* The invariant of the pipeline that each step of each goroutine preserves.
PipelineInv ==
    SpawnInv /\ PromiseInv /\ ErrorInv /\ JoinInv /\ InstallerInv /\ DatabaseInv

-----------------------------------------------------------------------------
\* The concurrent pipeline implements the sequential promise.
Sequential == INSTANCE SeqInstall WITH
    phase <- IF mpc \in {"spawn", "wait"} THEN "install" ELSE mpc,
    pos <- k - 1,
    fresh <- {i \in infos : i < k}

\* Every step of the goroutines is a step of the sequential installation, or
\* none: fetching concurrently is invisible to the caller.
ImplementsSeqInstall == Sequential!Spec
=============================================================================
