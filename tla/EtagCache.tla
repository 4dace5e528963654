----------------------------- MODULE EtagCache -----------------------------
(***************************************************************************)
(* The HTTP transport with a cache directory (pkg/apk/cache.go) for one    *)
(* URL that is cached by its etag, an index or a key: cacheTransport, the  *)
(* globalEtagCache behind it, and the cache directory, which outlives the  *)
(* process.                                                                *)
(*                                                                         *)
(* Versions of the resource are numbers, and each is its own etag.  What a *)
(* request brings is Failed or a version that is whole or not; a status    *)
(* other than 200 is an error to every caller of the transport and is      *)
(* Failed as well.                                                         *)
(***************************************************************************)
EXTENDS Integers

CONSTANTS Callers,      \* goroutines that ask for the resource
          MaxVersion,   \* bound on the versions of the resource
          MaxFaults,    \* bound on requests that fail by themselves
          MaxCrashes    \* bound on the processes that are killed

ASSUME BoundsAssumption == /\ MaxVersion \in Nat \ {0}
                           /\ {MaxFaults, MaxCrashes} \subseteq Nat

Versions == 1..MaxVersion
Tmp == 0                             \* the name of a *.tmp file
NotYet == <<>>
Failed == <<"failed">>
File(e) == <<"file", e>>
Body(v, whole) == <<"body", v, whole>>
Answers == {NotYet, Failed} \cup {Body(v, w) : v \in Versions, w \in BOOLEAN}

New == "new"                         \* the states of a sync.Once besides a
Over == "over"                       \* caller that runs its function

ASSUME CallersAssumption == Callers \cap {New, Over} = {}

VARIABLES
    current,    \* the version the server has
    etags,      \* whether it sends etags
    dir,        \* the files of the cache directory
    clock,      \* the time of the last write to one of them
    offline,    \* whether this process may use the network
    etagOnce,   \* etagCache.etags[url]
    resp,       \* etagCache.resps[url]: NotYet, Failed, or the etag of a file
    initial,    \* the etag of the HEAD
    final,      \* the etag of the GET
    pc, answer, \* of every caller: where it is, what RoundTrip returned
    cancelled,  \* the callers whose context is done
    faults, crashes

network == <<current, etags, faults>>
process == <<offline, etagOnce, resp, initial, final, pc, answer, cancelled>>
disk == <<dir, clock>>
etagVars == <<network, process, disk, crashes>>

StartProcess(mode) ==
    /\ offline' = mode
    /\ etagOnce' = New
    /\ resp' = NotYet
    /\ UNCHANGED <<initial, final>>
    /\ pc' = [c \in Callers |-> "idle"]
    /\ answer' = [c \in Callers |-> NotYet]
    /\ cancelled' = {}

EtagInit ==
    /\ current = 1
    /\ etags \in BOOLEAN
    /\ dir = {} /\ clock = 0
    /\ offline = FALSE
    /\ etagOnce = New
    /\ resp = NotYet
    /\ initial = 1 /\ final = 1
    /\ pc = [c \in Callers |-> "idle"]
    /\ answer = [c \in Callers |-> NotYet]
    /\ cancelled = {}
    /\ faults = 0 /\ crashes = 0

----------------------------------------------------------------------------
(* The network                                                             *)

Publish ==
    /\ current < MaxVersion
    /\ current' = current + 1
    /\ UNCHANGED <<etags, faults, process, disk, crashes>>

Cancel(c) ==
    /\ c \notin cancelled
    /\ pc[c] \notin {"answered", "returned"}
    /\ cancelled' = cancelled \cup {c}
    /\ UNCHANGED <<network, offline, etagOnce, resp, initial, final, pc, answer,
                   disk, crashes>>

\* A request of caller c, or the reading of its body, succeeds or does not.
Works(c) == c \notin cancelled /\ UNCHANGED faults

Breaks(c) ==
    \/ c \in cancelled /\ UNCHANGED faults
    \/ /\ c \notin cancelled /\ faults < MaxFaults
       /\ faults' = faults + 1

----------------------------------------------------------------------------
(* The cache directory                                                     *)

\* A file: its name, the version it is of, whether it is the whole of it, and
\* its modification time.
CacheFiles == [name : Versions \cup {Tmp}, version : Versions, whole : BOOLEAN, time : Nat]

Saved(e) == \E f \in dir : f.name = e
Contents(d, e) == CHOOSE f \in d : f.name = e

----------------------------------------------------------------------------
(* RoundTrip                                                               *)

Go(c, where) == pc' = [pc EXCEPT ![c] = where]

Answer(c, a) ==
    /\ answer' = [answer EXCEPT ![c] = a]
    /\ Go(c, "answered")

\* The file of directory d that was written last.
Newest(d) == CHOOSE e \in d : \A f \in d : f.time <= e.time

\* Offline it is the answer, whatever it is.
OfflineAnswer == IF dir = {} THEN Failed ELSE Body(Newest(dir).version, Newest(dir).whole)

Offline(c) ==
    /\ pc[c] = "request"
    /\ offline
    /\ Answer(c, OfflineAnswer)
    /\ UNCHANGED <<network, offline, etagOnce, resp, initial, final, cancelled,
                   disk, crashes>>

\* Running the function again for every caller.
MustRunAgain == etagOnce \in {New, Over}

MustRun == etagOnce = New

\* The first caller runs the function of the once, the others wait for it.
DoOnce(c) ==
    /\ pc[c] = "request"
    /\ ~offline
    /\ \/ MustRun /\ etagOnce' = c /\ Go(c, "head")
       \/ etagOnce = Over /\ UNCHANGED etagOnce /\ Go(c, "load")
    /\ UNCHANGED <<network, offline, resp, initial, final, answer, cancelled, disk,
                   crashes>>

\* The function stores r, or nothing, and returns.
Store(c, r) ==
    /\ resp' = r
    /\ etagOnce' = Over
    /\ Go(c, "load")

HeadRequest(c) ==
    /\ pc[c] = "head"
    /\ \/ Breaks(c) /\ Store(c, Failed) /\ UNCHANGED initial
       \/ Works(c) /\ ~etags /\ Store(c, NotYet) /\ UNCHANGED initial
       \/ /\ Works(c) /\ etags
          /\ initial' = current
          /\ Go(c, "stat")
          /\ UNCHANGED <<etagOnce, resp>>
    /\ UNCHANGED <<current, etags, offline, final, answer, cancelled, disk, crashes>>

StatEtagFile(c) ==
    /\ pc[c] = "stat"
    /\ IF Saved(initial) THEN Store(c, File(initial))
       ELSE Go(c, "get") /\ UNCHANGED <<etagOnce, resp>>
    /\ UNCHANGED <<network, offline, initial, final, answer, cancelled, disk, crashes>>

\* Naming the file by the etag of the HEAD.
CacheFileInitial == initial

\* The name for what the GET brought: its own etag.
CacheFile == final

\* retrieveAndSaveFile: the GET, and the temporary file for its body.
GetRequest(c) ==
    /\ pc[c] = "get"
    /\ \/ Breaks(c) /\ Store(c, Failed) /\ UNCHANGED <<final, disk>>
       \/ /\ Works(c)
          /\ final' = current
          /\ clock' = clock + 1
          /\ dir' = dir \cup {[name |-> Tmp, version |-> current, whole |-> FALSE,
                              time |-> clock']}
          /\ Go(c, "copy")
          /\ UNCHANGED <<etagOnce, resp>>
    /\ UNCHANGED <<current, etags, offline, initial, answer, cancelled, crashes>>

\* io.Copy to the file created last; it stays behind if the body breaks off.
Copy(c) ==
    /\ pc[c] = "copy"
    /\ \/ Breaks(c) /\ Store(c, Failed) /\ UNCHANGED dir
       \/ /\ Works(c)
          /\ dir' = (dir \ {Newest(dir)}) \cup {[Newest(dir) EXCEPT !.whole = TRUE]}
          /\ Go(c, "rename")
          /\ UNCHANGED <<etagOnce, resp>>
    /\ UNCHANGED <<current, etags, offline, initial, final, answer, cancelled, clock, crashes>>

\* os.Rename keeps the time of the last write, and replaces.
Rename(c) ==
    /\ pc[c] = "rename"
    /\ dir' = {e \in dir \ {Newest(dir)} : e.name # CacheFile}
                 \cup {[Newest(dir) EXCEPT !.name = CacheFile]}
    /\ Store(c, File(CacheFile))
    /\ UNCHANGED <<network, offline, initial, final, answer, cancelled, clock, crashes>>

\* What was stored: the error, or the file, which is opened.
StoredAnswer ==
    IF resp = Failed THEN Failed
    ELSE LET f == Contents(dir, resp[2]) IN Body(f.version, f.whole)

\* If nothing was stored, a request of one's own.
Load(c) ==
    /\ pc[c] = "load"
    /\ \/ resp # NotYet /\ Answer(c, StoredAnswer) /\ UNCHANGED faults
       \/ resp = NotYet /\ Works(c) /\ Answer(c, Body(current, TRUE))
       \/ resp = NotYet /\ Breaks(c) /\ Answer(c, Failed)
    /\ UNCHANGED <<current, etags, offline, etagOnce, resp, initial, final,
                   cancelled, disk, crashes>>

RoundTrip(c) ==
    \/ Offline(c) \/ DoOnce(c) \/ HeadRequest(c) \/ StatEtagFile(c) \/ GetRequest(c)
    \/ Copy(c) \/ Rename(c) \/ Load(c)

----------------------------------------------------------------------------

\* The process is killed, and another one started over the same directory.
Crash ==
    /\ crashes < MaxCrashes
    /\ crashes' = crashes + 1
    /\ \E mode \in BOOLEAN : StartProcess(mode)
    /\ UNCHANGED <<network, disk>>

EtagTypeOK ==
    /\ current \in Versions /\ etags \in BOOLEAN
    /\ dir \subseteq CacheFiles /\ clock \in Nat
    /\ offline \in BOOLEAN
    /\ etagOnce \in Callers \cup {New, Over}
    /\ resp \in {NotYet, Failed} \cup {File(e) : e \in Versions}
    /\ {initial, final} \subseteq Versions
    /\ answer \in [Callers -> Answers]
    /\ cancelled \subseteq Callers
    /\ faults \in 0..MaxFaults /\ crashes \in 0..MaxCrashes

\* "We simulate content-based addressing with the etag values": an entry of the
\* cache that bears an etag is the whole of the version with that etag, also if
\* the server moved on between the HEAD and the GET, if a body broke off, and if
\* a process was killed anywhere.
NamedByEtag ==
    \A e \in dir : e.name # Tmp => e.version = e.name /\ e.whole

----------------------------------------------------------------------------
(* The inductive invariant                                                 *)

\* One caller is inside the function of the once; what it stored is there for
\* the others when it is over, and an etag names a file that is there.
OnceInv ==
    /\ \A c \in Callers :
          /\ pc[c] \in {"head", "stat", "get", "copy", "rename"} =>
                etagOnce = c /\ ~offline
          /\ pc[c] = "load" => etagOnce = Over /\ ~offline
    /\ resp # NotYet => etagOnce = Over
    /\ etagOnce = Over /\ etags => resp # NotYet
    /\ resp \notin {NotYet, Failed} => Saved(resp[2])

\* No two files were written at the same time, and while a body is saved its
\* temporary file is the last one.
DirInv ==
    /\ \A e \in dir : e.time <= clock
    /\ \A e, f \in dir : e.time = f.time => e = f
    /\ dir # {} => \E e \in dir : e.time = clock
    /\ \A c \in Callers : pc[c] \in {"copy", "rename"} =>
          \E e \in dir : /\ e.time = clock
                         /\ e.name = Tmp
                         /\ e.version = final
                         /\ pc[c] = "rename" => e.whole

\* Whoever has an answer has the one that everybody gets.
AnswerInv ==
    \A c \in Callers : pc[c] = "answered" =>
       /\ answer[c] # NotYet
       /\ offline => answer[c] = OfflineAnswer
       /\ ~offline => etagOnce = Over
       /\ ~offline /\ etags => answer[c] = StoredAnswer

EtagInv == EtagTypeOK /\ OnceInv /\ DirInv /\ NamedByEtag /\ AnswerInv
=============================================================================
