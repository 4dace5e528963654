----------------------------- MODULE IndexCache -----------------------------
(***************************************************************************)
(* What one process remembers of indexes and packages: globalIndexCache    *)
(* (pkg/apk/index.go) for a remote and for a local index, globalApkCache   *)
(* (pkg/apk/implementation.go), and the requests for keys, which go to the *)
(* cached transport directly.  The remote index is fetched through the     *)
(* transport of EtagCache.                                                 *)
(*                                                                         *)
(* A behaviour is about one URL of one scheme.  The versions of a local    *)
(* file are numbered too; the odd ones are states in the middle of a       *)
(* write, which cannot be parsed.                                          *)
(***************************************************************************)
EXTENDS EtagCache

CONSTANT MaxWrites      \* bound on the versions of the local file

ASSUME WritesAssumption == MaxWrites \in Nat

Absent == <<"absent">>               \* (nil, nil): there is no such index
Index(v) == <<"index", v>>
NoTime == -1
Free == "free"

ASSUME FreeAssumption == Free \notin Callers

VARIABLES
    scheme,     \* "key", "remote", "local" or "apk"
    once,       \* onces[u] of the index or of the package cache
    result,     \* indexes[u], or apkCache.resps[u]
    returned,   \* what get returned to every caller
    local,      \* the local file: its version, its modification time
    coarse,     \* a change left the modification time as it was (history)
    lock,       \* the caller that has the mutex, or Free
    modtime,    \* modtimes[u]
    mod,        \* the modification time the caller with the mutex has seen
    basis,      \* the version of the file that result is from (history)
    floor       \* the version of the local file when get was called (history)

files == <<local, coarse>>
memory == <<once, result, returned, lock, modtime, mod, basis, floor>>
vars == <<etagVars, scheme, files, memory>>

Init ==
    /\ EtagInit
    /\ scheme \in {"key", "remote", "local", "apk"}
    /\ scheme \in {"local", "apk"} => etags
    /\ once = New
    /\ result = NotYet
    /\ returned = [c \in Callers |-> NotYet]
    /\ local = [version |-> 0, time |-> 0, there |-> TRUE]
    /\ coarse = FALSE
    /\ lock = Free
    /\ modtime = NoTime
    /\ mod = NoTime
    /\ basis = 0
    /\ floor = [c \in Callers |-> 0]

Return(c, r) ==
    /\ returned' = [returned EXCEPT ![c] = r]
    /\ Go(c, "returned")

\* What stays as it is when only the caller's place changes.
rest == <<network, offline, etagOnce, resp, initial, final, answer, cancelled, disk,
          crashes>>

----------------------------------------------------------------------------
(* Once for a URL                                                          *)

\* A key is asked for directly, a remote index and a package inside a once.
\* Another caller waits for it, whatever becomes of its own context.
GetKey(c) ==
    /\ scheme = "key"
    /\ pc[c] = "idle"
    /\ Go(c, "request")
    /\ UNCHANGED <<rest, scheme, files, memory>>

GetRemote(c) ==
    /\ scheme = "remote"
    /\ pc[c] = "idle"
    /\ once = New
    /\ once' = c
    /\ Go(c, "request")
    /\ UNCHANGED <<rest, scheme, files, result, returned, lock, modtime, mod, basis, floor>>

\* getRepositoryIndex behind the request: the body is read, its signature
\* checked, the index parsed.  Only a whole one gets through.
ParseIndex(c) ==
    /\ scheme = "remote"
    /\ once = c
    /\ pc[c] = "answered"
    /\ result' = IF answer[c] # Failed /\ answer[c][3] THEN Index(answer[c][2])
                 ELSE Failed
    /\ once' = Over
    /\ Go(c, "idle")
    /\ UNCHANGED <<rest, scheme, files, returned, lock, modtime, mod, basis, floor>>

\* expandPackage: the package is fetched and expanded.
GetApk(c) ==
    /\ scheme = "apk"
    /\ pc[c] = "idle"
    /\ once = New
    /\ once' = c
    /\ Go(c, "expand")
    /\ UNCHANGED <<rest, scheme, files, result, returned, lock, modtime, mod, basis, floor>>

ExpandPackage(c) ==
    /\ pc[c] = "expand"
    /\ \/ Works(c) /\ result' = Index(current)
       \/ Breaks(c) /\ result' = Failed
    /\ once' = Over
    /\ Go(c, "idle")
    /\ UNCHANGED <<current, etags, offline, etagOnce, resp, initial, final, answer,
                   cancelled, disk, crashes, scheme, files, returned, lock, modtime,
                   mod, basis, floor>>

\* Not waiting for the function of the once to return.
FinishedBegun == once # New

Finished == once = Over

LoadResult(c) ==
    /\ scheme \in {"remote", "apk"}
    /\ pc[c] = "idle"
    /\ Finished
    /\ Return(c, result)
    /\ UNCHANGED <<rest, scheme, files, once, result, lock, modtime, mod, basis, floor>>

----------------------------------------------------------------------------
(* A local index                                                           *)

\* Somebody starts or ends a write of the file, or removes it.
WriteLocal ==
    /\ scheme = "local"
    /\ local.version < MaxWrites
    /\ \E tick \in {0, 1} :
          /\ local' = [version |-> local.version + 1, time |-> local.time + tick,
                       there |-> TRUE]
          /\ coarse' = (coarse \/ tick = 0)
    /\ UNCHANGED <<etagVars, scheme, memory>>

RemoveLocal ==
    /\ scheme = "local"
    /\ local.there
    /\ local' = [local EXCEPT !.there = FALSE]
    /\ UNCHANGED <<etagVars, scheme, coarse, memory>>

GetLocal(c) ==
    /\ scheme = "local"
    /\ pc[c] = "idle"
    /\ Go(c, "lock")
    /\ floor' = [floor EXCEPT ![c] = local.version]
    /\ UNCHANGED <<rest, scheme, files, once, result, returned, lock, modtime, mod, basis>>

\* Only asking whether the file was read before.
ChangedUnseen == modtime = NoTime

\* "If this is the first time or it has changed since the last time."
Changed == local.time > modtime

\* The mutex is taken, the file looked at.  Any error of the stat is no index.
StatLocal(c) ==
    /\ pc[c] = "lock"
    /\ lock = Free
    /\ IF ~local.there
       THEN Return(c, Absent) /\ UNCHANGED <<lock, mod>>
       ELSE /\ mod' = local.time
            /\ lock' = c
            /\ Go(c, IF Changed THEN "read" ELSE "unlock")
            /\ UNCHANGED returned
    /\ UNCHANGED <<rest, scheme, files, once, result, modtime, basis, floor>>

\* The file is read and parsed.
ReadLocal(c) ==
    /\ pc[c] = "read"
    /\ result' = CASE ~local.there -> Absent
                   [] local.there /\ local.version % 2 = 1 -> Failed
                   [] OTHER -> Index(local.version)
    /\ modtime' = mod
    /\ basis' = local.version
    /\ Go(c, "unlock")
    /\ UNCHANGED <<rest, scheme, files, once, returned, lock, mod, floor>>

\* Forgetting the deferred Unlock.
UnlockedNever == lock

Unlocked == Free

ReturnLocal(c) ==
    /\ pc[c] = "unlock"
    /\ lock' = Unlocked
    /\ mod' = NoTime
    /\ Return(c, result)
    /\ floor' = [floor EXCEPT ![c] = 0]
    /\ UNCHANGED <<rest, scheme, files, once, result, modtime, basis>>

----------------------------------------------------------------------------

\* The caller asks again.
Again(c) ==
    /\ scheme = "local"
    /\ pc[c] = "returned"
    /\ Go(c, "idle")
    /\ returned' = [returned EXCEPT ![c] = NotYet]
    /\ UNCHANGED <<rest, scheme, files, once, result, lock, modtime, mod, basis, floor>>

Restart ==
    /\ Crash
    /\ once' = New
    /\ result' = NotYet
    /\ returned' = [c \in Callers |-> NotYet]
    /\ lock' = Free
    /\ modtime' = NoTime
    /\ UNCHANGED <<scheme, files, mod, basis, floor>>

\* A step of the call of c.
Step(c) ==
    \/ RoundTrip(c) /\ UNCHANGED <<scheme, files, memory>>
    \/ GetKey(c) \/ GetRemote(c) \/ ParseIndex(c) \/ GetApk(c) \/ ExpandPackage(c)
    \/ LoadResult(c) \/ GetLocal(c) \/ StatLocal(c) \/ ReadLocal(c) \/ ReturnLocal(c)

\* Reading a local file is not cancelled, and a killed process leaves nothing
\* of it behind.
Around ==
    /\ scheme # "local"
    /\ \/ Publish /\ UNCHANGED <<scheme, files, memory>>
       \/ \E c \in Callers : Cancel(c) /\ UNCHANGED <<scheme, files, memory>>
       \/ Restart

Next == \/ \E c \in Callers : Step(c) \/ Again(c)
        \/ WriteLocal \/ RemoveLocal \/ Around

\* A request ends, by an answer or by an error, and sync.Mutex does not let a
\* waiting goroutine starve.
Spec == /\ Init /\ [][Next]_vars
        /\ \A c \in Callers : WF_vars(Step(c)) /\ SF_vars(StatLocal(c))

----------------------------------------------------------------------------
(* Properties                                                              *)

Done(c) == pc[c] = "returned" \/ (scheme = "key" /\ pc[c] = "answered")

Places == {"idle", "request", "head", "stat", "get", "copy", "rename", "load",
           "answered", "expand", "lock", "read", "unlock", "returned"}

Results == {NotYet, Failed, Absent} \cup {Index(v) : v \in 0..(MaxVersion + MaxWrites)}

TypeOK ==
    /\ EtagTypeOK
    /\ scheme \in {"key", "remote", "local", "apk"}
    /\ pc \in [Callers -> Places]
    /\ once \in Callers \cup {New, Over}
    /\ result \in Results
    /\ returned \in [Callers -> Results]
    /\ local \in [version : 0..MaxWrites, time : Nat, there : BOOLEAN]
    /\ coarse \in BOOLEAN
    /\ lock \in Callers \cup {Free}
    /\ modtime \in Nat \cup {NoTime} /\ mod \in Nat \cup {NoTime}
    /\ basis \in Nat
    /\ floor \in [Callers -> Nat]

\* "We don't want remote indexes to change while we're running": whatever the
\* server publishes meanwhile and whoever asks, the callers of one process all
\* get the same index, package or key, or all the same error.  Without etags
\* this does not hold for keys.
OneAnswer ==
    \A c, d \in Callers :
       Done(c) /\ Done(d) =>
          CASE scheme \in {"remote", "apk"} -> returned[c] = returned[d]
            [] scheme = "key" -> answer[c] = answer[d] \/ ~(etags \/ offline)
            [] OTHER -> TRUE

\* "We do expect local indexes to change": the index get is about to return is
\* not older than the file was when get was called, if the modification time
\* moves with every change; also if the file changes between the stat and the
\* read, and if it was read in the middle of a write.
LocalFresh ==
    \A c \in Callers : pc[c] = "unlock" /\ ~coarse => basis >= floor[c]

\* Every call returns, whoever of the callers is cancelled, although the others
\* wait inside the once of the first one.
CallsReturn == \A c \in Callers : []<>Done(c)

----------------------------------------------------------------------------
(* The inductive invariant                                                 *)

\* Which calls a scheme makes.
SchemeInv ==
    \A c \in Callers :
       /\ pc[c] \in {"request", "head", "stat", "get", "copy", "rename", "load", "answered"}
             => scheme \in {"key", "remote"}
       /\ pc[c] = "expand" => scheme = "apk"
       /\ pc[c] \in {"lock", "read", "unlock"} => scheme = "local"
       /\ pc[c] = "returned" => scheme # "key"

\* One caller works for the others; they have its result when it is done.
ResultInv ==
    /\ \A c \in Callers :
          /\ scheme \in {"remote", "apk"} /\ pc[c] \notin {"idle", "returned"} => once = c
          /\ scheme \in {"remote", "apk"} /\ pc[c] = "returned" =>
                once = Over /\ returned[c] = result
          /\ pc[c] = "returned" => returned[c] # NotYet
    /\ once = Over => result # NotYet

\* The mutex, the modification times and the versions they stand for.
LocalInv ==
    /\ \A c \in Callers :
          /\ pc[c] \in {"read", "unlock"} => lock = c
          /\ pc[c] = "read" => mod # NoTime
          /\ pc[c] = "unlock" => modtime # NoTime
          /\ floor[c] <= local.version
    /\ scheme = "local" /\ modtime # NoTime => result # NotYet
    /\ modtime <= local.time /\ mod <= local.time
    /\ basis <= local.version
    /\ ~coarse => local.time = local.version /\ modtime <= basis

IndexInv == TypeOK /\ EtagInv /\ SchemeInv /\ ResultInv /\ LocalInv /\ LocalFresh
=============================================================================
