-------------------------- MODULE IndexCacheProofs --------------------------
(***************************************************************************)
(* Proofs about EtagCache and IndexCache, for every number of callers, of  *)
(* versions the server publishes, of failed requests, of killed processes  *)
(* and of writes to a local index.                                         *)
(***************************************************************************)
EXTENDS IndexCache, TLAPS

-----------------------------------------------------------------------------
(* The cache directory. *)

\* The file written last is the one with the time of the clock.
LEMMA NewestIs ==
    ASSUME EtagTypeOK, DirInv, NEW e \in dir, e.time = clock
    PROVE  Newest(dir) = e
  <1>1. \A f \in dir : f.time \in Nat /\ f.time <= clock
    BY DEF EtagTypeOK, CacheFiles, DirInv
  <1>2. \E n \in dir : \A f \in dir : f.time <= n.time
    BY <1>1
  <1>3. Newest(dir) \in dir /\ \A f \in dir : f.time <= Newest(dir).time
    BY <1>2 DEF Newest
  <1>4. Newest(dir).time = e.time
    BY <1>1, <1>3
  <1> QED
    BY <1>3, <1>4 DEF DirInv

\* The answers depend on the directory and on what is stored.
LEMMA AnswersStay ==
    ASSUME UNCHANGED dir
    PROVE  OfflineAnswer' = OfflineAnswer /\ (UNCHANGED resp => StoredAnswer' = StoredAnswer)
  BY DEF OfflineAnswer, StoredAnswer

\* An answer is one.
LEMMA AnswerType ==
    ASSUME EtagInv
    PROVE  /\ OfflineAnswer \in Answers /\ OfflineAnswer # NotYet
           /\ resp # NotYet => StoredAnswer \in Answers /\ StoredAnswer # NotYet
  <1>1. ASSUME NEW e \in dir PROVE Body(e.version, e.whole) \in Answers
    <2>1. e.version \in Versions /\ e.whole \in BOOLEAN
      BY DEF EtagInv, EtagTypeOK, CacheFiles
    <2> QED
      BY <2>1 DEF Answers
  <1>2. \A e : Body(e.version, e.whole) # NotYet
    BY DEF Body, NotYet
  <1>3. dir # {} => Newest(dir) \in dir
    BY NewestIs DEF EtagInv, DirInv
  <1>4. resp \notin {NotYet, Failed} => Contents(dir, resp[2]) \in dir
    BY DEF EtagInv, OnceInv, Saved, Contents
  <1>5. Failed \in Answers /\ Failed # NotYet
    BY DEF Answers, Failed, NotYet
  <1> QED
    BY <1>1, <1>2, <1>3, <1>4, <1>5 DEF OfflineAnswer, StoredAnswer

-----------------------------------------------------------------------------
(* The steps. *)

\* The steps outside of the transport.
Moves(c) ==
    \/ GetKey(c) \/ GetRemote(c) \/ ParseIndex(c) \/ GetApk(c) \/ ExpandPackage(c)
    \/ LoadResult(c) \/ GetLocal(c) \/ StatLocal(c) \/ ReadLocal(c) \/ ReturnLocal(c)
    \/ Again(c)

\* Every step is one of these.
LEMMA NextCases ==
    ASSUME [Next]_vars
    PROVE  \/ \E c \in Callers : Moves(c)
           \/ \E c \in Callers : RoundTrip(c) /\ UNCHANGED <<scheme, files, memory>>
           \/ WriteLocal \/ RemoveLocal
           \/ scheme # "local" /\ Publish /\ UNCHANGED <<scheme, files, memory>>
           \/ \E c \in Callers : /\ scheme # "local"
                                 /\ Cancel(c) /\ UNCHANGED <<scheme, files, memory>>
           \/ scheme # "local" /\ Restart
           \/ UNCHANGED vars
  BY DEF Next, Step, Around, Moves

\* They move the caller, and the transport does not notice.
LEMMA Moving ==
    ASSUME TypeOK, NEW c \in Callers, Moves(c)
    PROVE  /\ UNCHANGED <<current, etags, offline, etagOnce, resp, initial, final,
                          answer, cancelled, disk, crashes>>
           /\ faults' \in 0..MaxFaults
           /\ \E l \in {"idle", "request", "expand", "lock", "read", "unlock", "returned"} :
                 pc' = [pc EXCEPT ![c] = l]
  <1> USE BoundsAssumption DEF TypeOK, EtagTypeOK, rest, network, Go, Return
  <1>1. CASE GetKey(c) \/ GetRemote(c) \/ GetApk(c) \/ GetLocal(c)
    BY <1>1 DEF GetKey, GetRemote, GetApk, GetLocal
  <1>2. CASE ParseIndex(c) \/ LoadResult(c) \/ Again(c)
    BY <1>2 DEF ParseIndex, LoadResult, Again
  <1>3. CASE ExpandPackage(c)
    BY <1>3 DEF ExpandPackage, Works, Breaks
  <1>4. CASE StatLocal(c)
    BY <1>4 DEF StatLocal
  <1>5. CASE ReadLocal(c) \/ ReturnLocal(c)
    BY <1>5 DEF ReadLocal, ReturnLocal
  <1> QED
    BY <1>1, <1>2, <1>3, <1>4, <1>5 DEF Moves

\* The transport's invariant does not depend on where else a caller is.
LEMMA EtagMoves ==
    ASSUME TypeOK, EtagInv, NEW c \in Callers, Moves(c)
    PROVE  EtagInv'
  <1>1. PICK l \in {"idle", "request", "expand", "lock", "read", "unlock", "returned"} :
           pc' = [pc EXCEPT ![c] = l]
    BY Moving
  <1>2. /\ UNCHANGED <<current, etags, offline, etagOnce, resp, initial, final,
                       answer, cancelled, dir, clock, crashes>>
        /\ faults' \in 0..MaxFaults
    BY Moving DEF disk
  <1>3. \A d \in Callers : pc'[d] = pc[d] \/ pc'[d] = l
    BY <1>1 DEF TypeOK
  <1>4. EtagTypeOK'
    BY <1>2 DEF EtagInv, EtagTypeOK
  <1>5. OnceInv'
    BY <1>2, <1>3 DEF EtagInv, OnceInv, Saved
  <1>6. DirInv' /\ NamedByEtag'
    BY <1>2, <1>3 DEF EtagInv, DirInv, NamedByEtag
  <1>7. AnswerInv'
    BY <1>2, <1>3, AnswersStay DEF EtagInv, AnswerInv
  <1> QED
    BY <1>4, <1>5, <1>6, <1>7 DEF EtagInv

\* Nor on what the server and the contexts do.
LEMMA EtagOutside ==
    ASSUME TypeOK, EtagInv, Publish \/ (\E c \in Callers : Cancel(c)) \/ UNCHANGED etagVars
    PROVE  EtagInv'
  <1>1. /\ UNCHANGED <<etags, offline, etagOnce, resp, initial, final, pc, answer, dir, clock,
                       crashes>>
        /\ faults' = faults
    BY DEF Publish, Cancel, etagVars, network, process, disk
  <1>2. current' \in Versions /\ cancelled' \subseteq Callers
    BY BoundsAssumption DEF EtagInv, EtagTypeOK, Publish, Cancel, etagVars, network, process,
       Versions
  <1>3. EtagTypeOK'
    BY <1>1, <1>2 DEF EtagInv, EtagTypeOK
  <1>4. OnceInv'
    BY <1>1 DEF EtagInv, OnceInv, Saved
  <1>5. DirInv' /\ NamedByEtag'
    BY <1>1 DEF EtagInv, DirInv, NamedByEtag
  <1>6. AnswerInv'
    BY <1>1, AnswersStay DEF EtagInv, AnswerInv
  <1> QED
    BY <1>3, <1>4, <1>5, <1>6 DEF EtagInv

\* A new process finds the directory as it is, and knows nothing else.
LEMMA EtagCrash ==
    ASSUME TypeOK, EtagInv, Crash
    PROVE  EtagInv'
  <1>1. PICK mode \in BOOLEAN : StartProcess(mode)
    BY DEF Crash
  <1>2. /\ UNCHANGED <<current, etags, faults, initial, final, dir, clock>>
        /\ etagOnce' = New /\ resp' = NotYet /\ cancelled' = {}
        /\ \A c \in Callers : pc'[c] = "idle"
    BY <1>1 DEF Crash, StartProcess, network, disk
  <1>3. EtagTypeOK'
    <2>1. offline' \in BOOLEAN
      BY <1>1 DEF StartProcess
    <2>2. answer' \in [Callers -> Answers]
      BY <1>1 DEF StartProcess, Answers
    <2>3. crashes' \in 0..MaxCrashes
      BY BoundsAssumption DEF Crash, EtagInv, EtagTypeOK
    <2> QED
      BY <1>2, <2>1, <2>2, <2>3 DEF EtagInv, EtagTypeOK
  <1>4. OnceInv'
    BY <1>2 DEF OnceInv, New, Over
  <1>5. DirInv' /\ NamedByEtag'
    BY <1>2 DEF EtagInv, DirInv, NamedByEtag
  <1>6. AnswerInv'
    BY <1>2 DEF AnswerInv
  <1> QED
    BY <1>3, <1>4, <1>5, <1>6 DEF EtagInv

\* Only one caller is inside the function of the once, and while it is nobody
\* has an answer.
LEMMA AloneInside ==
    ASSUME EtagInv, NEW c \in Callers, pc[c] \in {"head", "stat", "get", "copy", "rename"}
    PROVE  /\ ~offline /\ etagOnce = c /\ etagOnce \notin {New, Over} /\ resp = NotYet
           /\ \A d \in Callers : d # c =>
                 pc[d] \notin {"head", "stat", "get", "copy", "rename"}
           /\ \A d \in Callers : pc[d] \notin {"load", "answered"}
  BY CallersAssumption DEF EtagInv, OnceInv, AnswerInv

\* Storing the result of the function: what else the step does to the directory
\* keeps its invariant.
LEMMA Storing ==
    ASSUME TypeOK, EtagInv, NEW c \in Callers,
           pc[c] \in {"head", "stat", "get", "copy", "rename"}, NEW r, Store(c, r),
           UNCHANGED <<etags, offline, answer>>,
           r = NotYet => ~etags, r \notin {NotYet, Failed} => Saved(r[2])',
           EtagTypeOK', NamedByEtag',
           \A e \in dir' : e.time <= clock', \A e, f \in dir' : e.time = f.time => e = f,
           dir' # {} => \E e \in dir' : e.time = clock'
    PROVE  EtagInv'
  <1>1. \A d \in Callers : d # c => pc'[d] = pc[d]
    BY DEF Store, Go, TypeOK
  <1>2. pc'[c] = "load" /\ resp' = r /\ etagOnce' = Over
    BY DEF Store, Go, TypeOK
  <1>3. OnceInv'
    BY <1>1, <1>2, AloneInside DEF OnceInv
  <1>4. DirInv'
    BY <1>1, <1>2, AloneInside DEF DirInv
  <1>5. AnswerInv'
    BY <1>1, <1>2, AloneInside DEF AnswerInv
  <1> QED
    BY <1>3, <1>4, <1>5 DEF EtagInv

\* An answer is given: offline, or behind the once.
LEMMA Answering ==
    ASSUME TypeOK, EtagInv, NEW c \in Callers, NEW a \in Answers, Answer(c, a),
           a # NotYet, offline => a = OfflineAnswer, ~offline => etagOnce = Over,
           ~offline /\ etags => a = StoredAnswer,
           UNCHANGED <<current, etags, offline, etagOnce, resp, initial, final, cancelled,
                       dir, clock, crashes>>,
           faults' \in 0..MaxFaults
    PROVE  EtagInv'
  <1>1. \A d \in Callers : d # c => pc'[d] = pc[d] /\ answer'[d] = answer[d]
    BY DEF Answer, Go, TypeOK, EtagTypeOK
  <1>2. pc'[c] = "answered" /\ answer'[c] = a
    BY DEF Answer, Go, TypeOK, EtagTypeOK
  <1>3. EtagTypeOK'
    BY DEF EtagInv, EtagTypeOK, Answer
  <1>4. OnceInv'
    BY <1>1, <1>2 DEF EtagInv, OnceInv, Saved
  <1>5. DirInv' /\ NamedByEtag'
    BY <1>1, <1>2 DEF EtagInv, DirInv, NamedByEtag
  <1>6. AnswerInv'
    BY <1>1, <1>2, AnswersStay DEF EtagInv, AnswerInv
  <1> QED
    BY <1>3, <1>4, <1>5, <1>6 DEF EtagInv

\* A step inside the function that only moves its caller on.
LEMMA Inside ==
    ASSUME TypeOK, EtagInv, NEW c \in Callers,
           pc[c] \in {"head", "stat", "get", "copy", "rename"},
           NEW l \in {"stat", "get", "copy", "rename"}, Go(c, l),
           UNCHANGED <<etags, offline, etagOnce, resp, answer>>,
           EtagTypeOK', NamedByEtag',
           \A e \in dir' : e.time <= clock', \A e, f \in dir' : e.time = f.time => e = f,
           dir' # {} => \E e \in dir' : e.time = clock',
           l \in {"copy", "rename"} =>
              \E e \in dir' : e.time = clock' /\ e.name = Tmp /\ e.version = final'
                             /\ (l = "rename" => e.whole)
    PROVE  EtagInv'
  <1>1. \A d \in Callers : d # c => pc'[d] = pc[d]
    BY DEF Go, TypeOK
  <1>2. pc'[c] = l
    BY DEF Go, TypeOK
  <1>3. OnceInv'
    BY <1>1, <1>2, AloneInside DEF OnceInv, Over
  <1>4. DirInv'
    BY <1>1, <1>2, AloneInside DEF DirInv
  <1>5. AnswerInv'
    BY <1>1, <1>2, AloneInside DEF AnswerInv
  <1> QED
    BY <1>3, <1>4, <1>5 DEF EtagInv

\* The once is entered or passed.
LEMMA EtagDoOnce ==
    ASSUME TypeOK, EtagInv, NEW c \in Callers, DoOnce(c)
    PROVE  EtagInv'
  <1>1. /\ UNCHANGED <<current, etags, faults, offline, resp, initial, final, answer,
                       cancelled, dir, clock, crashes>>
        /\ ~offline /\ pc[c] = "request"
        /\ \/ etagOnce = New /\ etagOnce' = c /\ Go(c, "head")
           \/ etagOnce = Over /\ etagOnce' = Over /\ Go(c, "load")
    BY DEF DoOnce, MustRun, network, disk
  <1>2. \A d \in Callers : d # c => pc'[d] = pc[d]
    BY <1>1 DEF Go, TypeOK
  <1>3. \/ etagOnce = New /\ etagOnce' = c /\ pc'[c] = "head"
        \/ etagOnce = Over /\ etagOnce' = Over /\ pc'[c] = "load"
    BY <1>1 DEF Go, TypeOK
  <1>4. EtagTypeOK'
    BY <1>1, <1>3 DEF EtagInv, EtagTypeOK
  <1>5. New # Over /\ New \notin Callers /\ Over \notin Callers
    BY CallersAssumption DEF New, Over
  <1>6. OnceInv'
    BY <1>1, <1>2, <1>3, <1>5 DEF EtagInv, OnceInv, Saved
  <1>7. DirInv' /\ NamedByEtag'
    BY <1>1, <1>2, <1>3 DEF EtagInv, DirInv, NamedByEtag
  <1>8. AnswerInv'
    BY <1>1, <1>2, <1>3, <1>5, AnswersStay DEF EtagInv, AnswerInv
  <1> QED
    BY <1>4, <1>6, <1>7, <1>8 DEF EtagInv

\* Requests that work or break keep the count of faults.
LEMMA FaultsType ==
    ASSUME EtagTypeOK, NEW c \in Callers, Works(c) \/ Breaks(c)
    PROVE  faults' \in 0..MaxFaults
  BY BoundsAssumption DEF EtagTypeOK, Works, Breaks

\* The HEAD, and the look into the directory behind it.
LEMMA EtagHead ==
    ASSUME TypeOK, EtagInv, NEW c \in Callers, HeadRequest(c) \/ StatEtagFile(c)
    PROVE  EtagInv'
  <1>0. EtagTypeOK /\ DirInv /\ NamedByEtag
    BY DEF EtagInv
  <1>1. /\ UNCHANGED <<current, etags, offline, final, answer, cancelled, dir, clock, crashes>>
        /\ pc[c] \in {"head", "stat", "get", "copy", "rename"}
    BY DEF HeadRequest, StatEtagFile, network, disk
  <1>2. faults' \in 0..MaxFaults
    BY <1>0, FaultsType DEF HeadRequest, StatEtagFile, network, EtagTypeOK
  <1>3. /\ NamedByEtag'
        /\ \A e \in dir' : e.time <= clock'
        /\ \A e, f \in dir' : e.time = f.time => e = f
        /\ dir' # {} => \E e \in dir' : e.time = clock'
    BY <1>0, <1>1 DEF DirInv, NamedByEtag
  <1>4. initial' \in Versions
    BY <1>0 DEF HeadRequest, StatEtagFile, EtagTypeOK
  <1>5. ASSUME NEW r \in {NotYet, Failed} \cup {File(e) : e \in Versions}, Store(c, r),
               r = NotYet => ~etags, r \notin {NotYet, Failed} => Saved(r[2])
        PROVE  EtagInv'
    <2>1. EtagTypeOK'
      BY <1>0, <1>1, <1>2, <1>4, <1>5 DEF EtagTypeOK, Store
    <2>2. r \notin {NotYet, Failed} => Saved(r[2])'
      BY <1>1, <1>5 DEF Saved
    <2> QED
      BY <1>1, <1>3, <1>5, <2>1, <2>2, Storing
  <1>6. ASSUME NEW l \in {"stat", "get"}, Go(c, l), UNCHANGED <<etagOnce, resp>>
        PROVE  EtagInv'
    <2>1. EtagTypeOK'
      BY <1>0, <1>1, <1>2, <1>4, <1>6 DEF EtagTypeOK
    <2> QED
      BY <1>1, <1>3, <1>6, <2>1, Inside
  <1>7. CASE HeadRequest(c)
    <2>1. \/ Store(c, Failed)
          \/ ~etags /\ Store(c, NotYet)
          \/ Go(c, "stat") /\ UNCHANGED <<etagOnce, resp>>
      BY <1>7 DEF HeadRequest
    <2>2. Failed # NotYet
      BY DEF Failed, NotYet
    <2> QED
      BY <1>5, <1>6, <2>1, <2>2
  <1>8. CASE StatEtagFile(c)
    <2>1. CASE Saved(initial)
      <3>1. Store(c, File(initial)) /\ initial \in Versions
        BY <1>0, <1>8, <2>1 DEF StatEtagFile, EtagTypeOK
      <3>2. File(initial)[2] = initial /\ File(initial) # NotYet
        BY DEF File, NotYet
      <3> QED
        BY <1>5, <2>1, <3>1, <3>2
    <2>2. CASE ~Saved(initial)
      BY <1>6, <1>8, <2>2 DEF StatEtagFile
    <2> QED
      BY <2>1, <2>2
  <1> QED
    BY <1>7, <1>8

\* The GET: a temporary file, the last one.
LEMMA EtagGet ==
    ASSUME TypeOK, EtagInv, NEW c \in Callers, GetRequest(c)
    PROVE  EtagInv'
  <1>0. EtagTypeOK /\ DirInv /\ NamedByEtag
    BY DEF EtagInv
  <1>1. /\ UNCHANGED <<current, etags, offline, initial, answer, cancelled, crashes>>
        /\ pc[c] \in {"head", "stat", "get", "copy", "rename"}
        /\ faults' \in 0..MaxFaults
    BY <1>0, FaultsType DEF GetRequest
  <1>2. CASE Store(c, Failed) /\ UNCHANGED <<final, disk>>
    <2>1. EtagTypeOK'
      BY <1>0, <1>1, <1>2 DEF EtagTypeOK, Store, disk
    <2>2. /\ NamedByEtag'
          /\ \A e \in dir' : e.time <= clock'
          /\ \A e, f \in dir' : e.time = f.time => e = f
          /\ dir' # {} => \E e \in dir' : e.time = clock'
      BY <1>0, <1>2 DEF DirInv, NamedByEtag, disk
    <2>3. Failed # NotYet
      BY DEF Failed, NotYet
    <2> QED
      BY <1>1, <1>2, <2>1, <2>2, <2>3, Storing
  <1>3. CASE /\ final' = current /\ clock' = clock + 1
             /\ dir' = dir \cup {[name |-> Tmp, version |-> current, whole |-> FALSE,
                                  time |-> clock']}
             /\ Go(c, "copy")
             /\ UNCHANGED <<etagOnce, resp>>
    <2> DEFINE tmp == [name |-> Tmp, version |-> current, whole |-> FALSE, time |-> clock + 1]
    <2>1. dir' = dir \cup {tmp} /\ tmp \in CacheFiles
      BY <1>0, <1>3 DEF EtagTypeOK, CacheFiles
    <2>2. tmp.name = Tmp /\ tmp.version = final' /\ tmp.time = clock'
      BY <1>3
    <2> HIDE DEF tmp
    <2>3. EtagTypeOK'
      BY <1>0, <1>1, <1>3, <2>1 DEF EtagTypeOK
    <2>4. NamedByEtag'
      BY <1>0, <2>1, <2>2 DEF NamedByEtag
    <2>5. \A e \in dir : e.time \in Nat /\ e.time < clock'
      BY <1>0, <1>3 DEF EtagTypeOK, CacheFiles, DirInv
    <2>6. /\ \A e \in dir' : e.time <= clock'
          /\ \A e, f \in dir' : e.time = f.time => e = f
          /\ tmp \in dir'
      BY <1>0, <1>3, <2>1, <2>2, <2>5 DEF DirInv, EtagTypeOK
    <2> QED
      BY <1>1, <1>3, <2>2, <2>3, <2>4, <2>6, Inside
  <1> QED
    BY <1>2, <1>3 DEF GetRequest

\* The body is saved, or breaks off.
LEMMA EtagCopy ==
    ASSUME TypeOK, EtagInv, NEW c \in Callers, Copy(c)
    PROVE  EtagInv'
  <1>0. EtagTypeOK /\ DirInv /\ NamedByEtag
    BY DEF EtagInv
  <1>1. /\ UNCHANGED <<current, etags, offline, initial, final, answer, cancelled, clock,
                       crashes>>
        /\ pc[c] = "copy"
        /\ faults' \in 0..MaxFaults
    BY <1>0, FaultsType DEF Copy
  <1>2. CASE Store(c, Failed) /\ UNCHANGED dir
    <2>1. EtagTypeOK'
      BY <1>0, <1>1, <1>2 DEF EtagTypeOK, Store
    <2>2. /\ NamedByEtag'
          /\ \A e \in dir' : e.time <= clock'
          /\ \A e, f \in dir' : e.time = f.time => e = f
          /\ dir' # {} => \E e \in dir' : e.time = clock'
      BY <1>0, <1>1, <1>2 DEF DirInv, NamedByEtag
    <2>3. Failed # NotYet
      BY DEF Failed, NotYet
    <2> QED
      BY <1>1, <1>2, <2>1, <2>2, <2>3, Storing
  <1>3. CASE /\ dir' = (dir \ {Newest(dir)}) \cup {[Newest(dir) EXCEPT !.whole = TRUE]}
             /\ Go(c, "rename")
             /\ UNCHANGED <<etagOnce, resp>>
    <2>1. PICK t \in dir : t.time = clock /\ t.name = Tmp /\ t.version = final
      BY <1>0, <1>1 DEF DirInv
    <2>2. Newest(dir) = t
      BY <1>0, <2>1, NewestIs
    <2> DEFINE n == [t EXCEPT !.whole = TRUE]
    <2>3. t \in CacheFiles
      BY <1>0, <2>1 DEF EtagTypeOK
    <2>4. n \in CacheFiles /\ n.time = clock /\ n.name = Tmp /\ n.version = final /\ n.whole
      BY <2>1, <2>3 DEF CacheFiles
    <2>5. dir' = (dir \ {t}) \cup {n}
      BY <1>3, <2>2
    <2> HIDE DEF n
    <2>6. EtagTypeOK'
      BY <1>0, <1>1, <1>3, <2>4, <2>5 DEF EtagTypeOK
    <2>7. NamedByEtag'
      BY <1>0, <2>4, <2>5 DEF NamedByEtag
    <2>8. /\ \A e \in dir' : e.time <= clock'
          /\ \A e, f \in dir' : e.time = f.time => e = f
          /\ n \in dir'
      BY <1>0, <1>1, <2>1, <2>4, <2>5 DEF DirInv, EtagTypeOK
    <2> QED
      BY <1>1, <1>3, <2>4, <2>6, <2>7, <2>8, Inside
  <1> QED
    BY <1>2, <1>3 DEF Copy

\* The whole file gets the name of its etag.
LEMMA EtagRename ==
    ASSUME TypeOK, EtagInv, NEW c \in Callers, Rename(c)
    PROVE  EtagInv'
  <1>0. EtagTypeOK /\ DirInv /\ NamedByEtag
    BY DEF EtagInv
  <1>1. /\ UNCHANGED <<current, etags, faults, offline, initial, final, answer, cancelled,
                       clock, crashes>>
        /\ pc[c] = "rename" /\ Store(c, File(final))
        /\ dir' = {e \in dir \ {Newest(dir)} : e.name # final}
                     \cup {[Newest(dir) EXCEPT !.name = final]}
    BY DEF Rename, CacheFile, network
  <1>2. PICK t \in dir : t.time = clock /\ t.version = final /\ t.whole
    BY <1>0, <1>1 DEF DirInv
  <1>3. Newest(dir) = t
    BY <1>0, <1>2, NewestIs
  <1> DEFINE n == [t EXCEPT !.name = final]
  <1>4. t \in CacheFiles /\ final \in Versions
    BY <1>0, <1>2 DEF EtagTypeOK
  <1>5. n \in CacheFiles /\ n.time = clock /\ n.name = final /\ n.version = final /\ n.whole
    BY <1>2, <1>4 DEF CacheFiles
  <1>6. dir' = {e \in dir \ {t} : e.name # final} \cup {n}
    BY <1>1, <1>3
  <1> HIDE DEF n
  <1>7. EtagTypeOK'
    BY <1>0, <1>1, <1>4, <1>5, <1>6 DEF EtagTypeOK, Store
  <1>8. NamedByEtag'
    BY <1>0, <1>5, <1>6 DEF NamedByEtag
  <1>9. /\ \A e \in dir' : e.time <= clock'
        /\ \A e, f \in dir' : e.time = f.time => e = f
        /\ n \in dir'
    BY <1>0, <1>1, <1>2, <1>5, <1>6 DEF DirInv, EtagTypeOK
  <1>10. File(final)[2] = final /\ File(final) # NotYet
    BY DEF File, NotYet
  <1>11. \E e \in dir' : e.name = final'
    BY <1>1, <1>5, <1>9
  <1>12. Saved(File(final)[2])'
    BY <1>1, <1>11 DEF File, Saved
  <1> QED
    BY <1>1, <1>5, <1>7, <1>8, <1>9, <1>10, <1>12, Storing

\* An answer from the directory, from what is stored, or from the server.
LEMMA EtagAnswer ==
    ASSUME TypeOK, EtagInv, NEW c \in Callers, Offline(c) \/ Load(c)
    PROVE  EtagInv'
  <1>0. EtagTypeOK /\ OnceInv
    BY DEF EtagInv
  <1>1. /\ UNCHANGED <<current, etags, offline, etagOnce, resp, initial, final, cancelled,
                       dir, clock, crashes>>
        /\ faults' \in 0..MaxFaults
    BY <1>0, FaultsType DEF Offline, Load, network, disk, EtagTypeOK
  <1>2. CASE Offline(c)
    <2>1. offline /\ Answer(c, OfflineAnswer)
      BY <1>2 DEF Offline
    <2> QED
      BY <1>1, <2>1, AnswerType, Answering
  <1>3. CASE Load(c)
    <2>1. ~offline /\ etagOnce = Over
      BY <1>0, <1>3 DEF Load, OnceInv
    <2>2. CASE resp # NotYet
      <3>1. Answer(c, StoredAnswer)
        BY <1>3, <2>2 DEF Load
      <3> QED
        BY <1>1, <2>1, <2>2, <3>1, AnswerType, Answering
    <2>3. CASE resp = NotYet
      <3>1. ~etags
        BY <1>0, <2>1, <2>3 DEF OnceInv
      <3>2. \E a \in {Body(current, TRUE), Failed} : Answer(c, a)
        BY <1>3, <2>3 DEF Load
      <3>3. \A a \in {Body(current, TRUE), Failed} : a \in Answers /\ a # NotYet
        <4>1. Body(current, TRUE) \in Answers /\ Failed \in Answers
          <5>1. \A v \in Versions, w \in BOOLEAN : Body(v, w) \in Answers
            BY DEF Answers
          <5>2. current \in Versions /\ TRUE \in BOOLEAN
            BY <1>0 DEF EtagTypeOK
          <5>3. Body(current, TRUE) \in Answers
            BY <5>1, <5>2, Zenon
          <5>4. Failed \in Answers
            BY DEF Answers
          <5> QED
            BY <5>3, <5>4
        <4>2. Body(current, TRUE) # NotYet /\ Failed # NotYet
          BY DEF Body, Failed, NotYet
        <4> QED
          BY <4>1, <4>2
      <3> QED
        BY <1>1, <2>1, <3>1, <3>2, <3>3, Answering
    <2> QED
      BY <2>2, <2>3
  <1> QED
    BY <1>2, <1>3

\* No step of the process, of the server or of a crash breaks it.
LEMMA EtagStep == IndexInv /\ [Next]_vars => EtagInv'
  <1> SUFFICES ASSUME TypeOK, EtagInv, [Next]_vars PROVE EtagInv'
    BY DEF IndexInv
  <1>1. ASSUME NEW c \in Callers, RoundTrip(c) PROVE EtagInv'
    BY <1>1, EtagAnswer, EtagDoOnce, EtagHead, EtagGet, EtagCopy, EtagRename DEF RoundTrip
  <1>2. CASE WriteLocal \/ RemoveLocal \/ UNCHANGED vars
    BY <1>2, EtagOutside DEF WriteLocal, RemoveLocal, vars
  <1>3. CASE Restart
    BY <1>3, EtagCrash DEF Restart
  <1> QED
    BY <1>1, <1>2, <1>3, NextCases, EtagMoves, EtagOutside

-----------------------------------------------------------------------------
(* What the process remembers. *)

\* The transport moves the caller through the request.
LEMMA Transport ==
    ASSUME TypeOK, NEW c \in Callers, RoundTrip(c)
    PROVE  /\ pc[c] \in {"request", "head", "stat", "get", "copy", "rename", "load"}
           /\ \E l \in {"head", "stat", "get", "copy", "rename", "load", "answered"} :
                 pc' = [pc EXCEPT ![c] = l]
  BY DEF RoundTrip, Offline, DoOnce, HeadRequest, StatEtagFile, GetRequest, Copy, Rename,
     Load, Answer, Store, Go

\* Where a step leaves the memory as it is, what is said of it stays true.
LEMMA MemoryStays ==
    ASSUME IndexInv, EtagInv', UNCHANGED <<scheme, files, memory>>,
           \/ UNCHANGED pc
           \/ \E c \in Callers : RoundTrip(c)
    PROVE  TypeOK' /\ SchemeInv' /\ ResultInv' /\ LocalInv' /\ LocalFresh'
  <1>0. TypeOK /\ SchemeInv /\ ResultInv /\ LocalInv /\ LocalFresh /\ EtagTypeOK' /\ AnswerInv'
    BY DEF IndexInv, EtagInv
  <1>1. UNCHANGED <<scheme, local, coarse, once, result, returned, lock, modtime, mod, basis,
                    floor>>
    BY DEF files, memory
  <1>2. /\ pc' \in [Callers -> Places]
        /\ \A d \in Callers :
              \/ pc'[d] = pc[d]
              \/ /\ pc[d] \in {"request", "head", "stat", "get", "copy", "rename", "load"}
                 /\ pc'[d] \in {"head", "stat", "get", "copy", "rename", "load", "answered"}
    <2>1. CASE UNCHANGED pc
      BY <1>0, <2>1 DEF TypeOK
    <2>2. ASSUME NEW c \in Callers, RoundTrip(c)
          PROVE  /\ pc' \in [Callers -> Places]
                 /\ \A d \in Callers :
                    \/ pc'[d] = pc[d]
                    \/ /\ pc[d] \in {"request", "head", "stat", "get", "copy", "rename", "load"}
                       /\ pc'[d] \in {"head", "stat", "get", "copy", "rename", "load",
                                      "answered"}
      BY <1>0, <2>2, Transport DEF TypeOK, Places
    <2> QED
      BY <2>1, <2>2
  <1>3. TypeOK'
    BY <1>0, <1>1, <1>2 DEF TypeOK
  <1>4. SchemeInv'
    BY <1>0, <1>1, <1>2 DEF SchemeInv
  <1>5. ResultInv'
    BY <1>0, <1>1, <1>2 DEF ResultInv, Done, AnswerInv, SchemeInv
  <1>6. LocalInv' /\ LocalFresh'
    BY <1>0, <1>1, <1>2 DEF LocalInv, LocalFresh
  <1> QED
    BY <1>3, <1>4, <1>5, <1>6

\* A new process remembers nothing.
LEMMA MemoryRestart ==
    ASSUME IndexInv, EtagInv', scheme # "local", Restart
    PROVE  TypeOK' /\ SchemeInv' /\ ResultInv' /\ LocalInv' /\ LocalFresh'
  <1>0. TypeOK /\ LocalInv /\ EtagTypeOK'
    BY DEF IndexInv, EtagInv
  <1>1. /\ pc' = [c \in Callers |-> "idle"]
        /\ once' = New /\ result' = NotYet /\ returned' = [c \in Callers |-> NotYet]
        /\ lock' = Free /\ modtime' = NoTime
        /\ UNCHANGED <<scheme, local, coarse, mod, basis, floor>>
    BY DEF Restart, Crash, StartProcess, files
  <1>2. TypeOK'
    BY <1>0, <1>1 DEF TypeOK, Places, Results
  <1>3. SchemeInv' /\ ResultInv' /\ LocalFresh'
    BY <1>1 DEF SchemeInv, ResultInv, LocalFresh, Done, New, Over
  <1>4. LocalInv'
    BY <1>0, <1>1 DEF LocalInv, TypeOK, NoTime
  <1> QED
    BY <1>2, <1>3, <1>4

\* The local file changes under the process.
LEMMA MemoryFile ==
    ASSUME IndexInv, EtagInv', WriteLocal \/ RemoveLocal
    PROVE  TypeOK' /\ SchemeInv' /\ ResultInv' /\ LocalInv' /\ LocalFresh'
  <1>0. TypeOK /\ SchemeInv /\ ResultInv /\ LocalInv /\ LocalFresh /\ EtagTypeOK'
    BY DEF IndexInv, EtagInv
  <1>1. UNCHANGED <<pc, answer, scheme, once, result, returned, lock, modtime, mod, basis, floor>>
    BY DEF WriteLocal, RemoveLocal, etagVars, process, memory
  <1>2. /\ local' \in [version : 0..MaxWrites, time : Nat, there : BOOLEAN]
        /\ local'.version >= local.version /\ local'.time >= local.time
    <2>1. CASE WriteLocal
      <3>1. PICK tick \in {0, 1} :
               local' = [version |-> local.version + 1, time |-> local.time + tick,
                         there |-> TRUE]
        BY <2>1 DEF WriteLocal
      <3>2. local.version + 1 \in 0..MaxWrites /\ local.time + tick \in Nat
        BY <1>0, <2>1, WritesAssumption DEF WriteLocal, TypeOK
      <3> QED
        BY <1>0, <3>1, <3>2, WritesAssumption DEF TypeOK
    <2>2. CASE RemoveLocal
      <3>1. local' = [version |-> local.version, time |-> local.time, there |-> FALSE]
        BY <1>0, <2>2 DEF RemoveLocal, TypeOK
      <3>2. local.version \in 0..MaxWrites /\ local.time \in Nat
        BY <1>0 DEF TypeOK
      <3> QED
        BY <3>1, <3>2, WritesAssumption
    <2> QED
      BY <2>1, <2>2
  <1>3. coarse' \in BOOLEAN /\ (coarse => coarse')
    BY <1>0, Zenon DEF TypeOK, WriteLocal, RemoveLocal
  <1>4. ~coarse' => local'.time = local'.version
    <2>1. CASE WriteLocal
      <3>1. PICK tick \in {0, 1} :
               /\ local' = [version |-> local.version + 1, time |-> local.time + tick,
                            there |-> TRUE]
               /\ coarse' = (coarse \/ tick = 0)
        BY <2>1 DEF WriteLocal
      <3>2. ~coarse' => ~coarse /\ tick = 1
        BY <3>1
      <3> QED
        BY <1>0, <3>1, <3>2 DEF LocalInv
    <2>2. CASE RemoveLocal
      BY <1>0, <2>2 DEF RemoveLocal, TypeOK, LocalInv
    <2> QED
      BY <2>1, <2>2
  <1>5. TypeOK'
    BY <1>0, <1>1, <1>2, <1>3 DEF TypeOK
  <1>6. SchemeInv' /\ ResultInv' /\ LocalFresh'
    BY <1>0, <1>1, <1>3 DEF SchemeInv, ResultInv, LocalFresh, Done
  <1>7. LocalInv'
    BY <1>0, <1>1, <1>2, <1>3, <1>4, WritesAssumption DEF LocalInv, TypeOK, NoTime
  <1> QED
    BY <1>5, <1>6, <1>7

\* While nobody has finished nobody has returned, and who begins is alone.
LEMMA OnceAlone ==
    ASSUME IndexInv, scheme \in {"remote", "apk"}
    PROVE  /\ once = New => \A d \in Callers : pc[d] = "idle"
           /\ \A c \in Callers : once = c => \A d \in Callers \ {c} : pc[d] = "idle"
  BY CallersAssumption DEF IndexInv, ResultInv, New, Over

\* A call begins.
LEMMA MemoryBegin ==
    ASSUME IndexInv, EtagInv', NEW c \in Callers,
           GetKey(c) \/ GetRemote(c) \/ GetApk(c) \/ GetLocal(c)
    PROVE  TypeOK' /\ SchemeInv' /\ ResultInv' /\ LocalInv' /\ LocalFresh'
  <1>0. TypeOK /\ SchemeInv /\ ResultInv /\ LocalInv /\ LocalFresh /\ EtagTypeOK'
    BY DEF IndexInv, EtagInv
  <1>1. /\ UNCHANGED <<scheme, local, coarse, result, returned, lock, modtime, mod, basis>>
        /\ pc[c] = "idle" /\ \A d \in Callers : d # c => pc'[d] = pc[d]
        /\ \/ scheme = "key" /\ pc'[c] = "request" /\ UNCHANGED <<once, floor>>
           \/ scheme = "remote" /\ pc'[c] = "request" /\ once = New /\ once' = c /\ floor' = floor
           \/ scheme = "apk" /\ pc'[c] = "expand" /\ once = New /\ once' = c /\ floor' = floor
           \/ /\ scheme = "local" /\ pc'[c] = "lock" /\ UNCHANGED once
              /\ floor' = [floor EXCEPT ![c] = local.version]
    BY <1>0 DEF TypeOK, GetKey, GetRemote, GetApk, GetLocal, Go, files, memory
  <1>2. TypeOK'
    <2>1. pc' \in [Callers -> Places]
      BY <1>0 DEF TypeOK, Places, GetKey, GetRemote, GetApk, GetLocal, Go
    <2>2. floor' \in [Callers -> Nat] /\ once' \in Callers \cup {New, Over}
      BY <1>0, <1>1, WritesAssumption DEF TypeOK
    <2> QED
      BY <1>0, <1>1, <2>1, <2>2 DEF TypeOK
  <1>3. SchemeInv' /\ LocalFresh'
    BY <1>0, <1>1 DEF TypeOK, SchemeInv, LocalFresh
  <1>4. ResultInv'
    <2>1. CASE scheme \in {"remote", "apk"}
      BY <1>0, <1>1, <2>1, OnceAlone, CallersAssumption DEF ResultInv, New, Over
    <2>2. CASE scheme \in {"key", "local"}
      BY <1>0, <1>1, <2>2 DEF ResultInv
    <2> QED
      BY <1>0, <2>1, <2>2 DEF TypeOK
  <1>5. LocalInv'
    BY <1>0, <1>1 DEF TypeOK, LocalInv
  <1> QED
    BY <1>2, <1>3, <1>4, <1>5

\* The one caller has its result.
LEMMA MemoryResult ==
    ASSUME IndexInv, EtagInv', NEW c \in Callers, ParseIndex(c) \/ ExpandPackage(c)
    PROVE  TypeOK' /\ SchemeInv' /\ ResultInv' /\ LocalInv' /\ LocalFresh'
  <1>0. TypeOK /\ SchemeInv /\ ResultInv /\ LocalInv /\ LocalFresh /\ EtagTypeOK'
    BY DEF IndexInv, EtagInv
  <1>1. /\ UNCHANGED <<scheme, local, coarse, returned, lock, modtime, mod, basis, floor>>
        /\ scheme \in {"remote", "apk"} /\ pc[c] \in {"answered", "expand"}
        /\ \A d \in Callers : d # c => pc'[d] = pc[d]
        /\ pc'[c] = "idle" /\ once' = Over
    BY <1>0 DEF TypeOK, ParseIndex, ExpandPackage, SchemeInv, Go, files
  <1>2. result' \in Results /\ result' # NotYet
    <2>1. \A v \in Versions : Index(v) \in Results
      BY BoundsAssumption, WritesAssumption DEF Versions, Results
    <2>2. \A v : Index(v) # NotYet
      BY DEF Index, NotYet
    <2>3. Failed \in Results /\ Failed # NotYet
      BY DEF Results, Failed, NotYet
    <2>4. CASE ExpandPackage(c)
      <3>1. current \in Versions
        BY <1>0 DEF TypeOK, EtagTypeOK
      <3> QED
        BY <2>1, <2>2, <2>3, <2>4, <3>1 DEF ExpandPackage
    <2>5. CASE ParseIndex(c)
      <3>1. answer[c] \in Answers /\ answer[c] # NotYet
        BY <1>0, <2>5 DEF ParseIndex, TypeOK, EtagTypeOK, IndexInv, EtagInv, AnswerInv
      <3>2. answer[c] # Failed => answer[c][2] \in Versions
        BY <3>1 DEF Answers, Body
      <3> QED
        BY <2>1, <2>2, <2>3, <2>5, <3>2 DEF ParseIndex
    <2> QED
      BY <2>4, <2>5
  <1>3. TypeOK'
    <2>1. pc' \in [Callers -> Places]
      BY <1>0 DEF TypeOK, Places, ParseIndex, ExpandPackage, Go
    <2> QED
      BY <1>0, <1>1, <1>2, <2>1 DEF TypeOK
  <1>4. SchemeInv' /\ LocalFresh' /\ LocalInv'
    BY <1>0, <1>1, <1>2 DEF TypeOK, SchemeInv, LocalFresh, LocalInv
  <1>5. once = c
    BY <1>0, <1>1 DEF ResultInv
  <1>6. ResultInv'
    BY <1>1, <1>2, <1>5, OnceAlone DEF ResultInv
  <1> QED
    BY <1>3, <1>4, <1>6

\* The others load it.
LEMMA MemoryLoad ==
    ASSUME IndexInv, EtagInv', NEW c \in Callers, LoadResult(c)
    PROVE  TypeOK' /\ SchemeInv' /\ ResultInv' /\ LocalInv' /\ LocalFresh'
  <1>0. TypeOK /\ SchemeInv /\ ResultInv /\ LocalInv /\ LocalFresh /\ EtagTypeOK'
    BY DEF IndexInv, EtagInv
  <1>1. /\ UNCHANGED <<scheme, local, coarse, once, result, lock, modtime, mod, basis, floor>>
        /\ scheme \in {"remote", "apk"} /\ once = Over /\ pc[c] = "idle"
        /\ \A d \in Callers : d # c => pc'[d] = pc[d] /\ returned'[d] = returned[d]
        /\ pc'[c] = "returned" /\ returned'[c] = result
    BY <1>0 DEF TypeOK, LoadResult, Finished, Return, Go, files
  <1>2. pc' \in [Callers -> Places] /\ returned' \in [Callers -> Results]
    BY <1>0 DEF TypeOK, Places, LoadResult, Return, Go
  <1>3. TypeOK'
    BY <1>0, <1>1, <1>2 DEF TypeOK
  <1>4. SchemeInv' /\ LocalFresh' /\ LocalInv'
    BY <1>0, <1>1 DEF TypeOK, SchemeInv, LocalFresh, LocalInv
  <1>5. ResultInv'
    BY <1>0, <1>1 DEF ResultInv
  <1> QED
    BY <1>3, <1>4, <1>5

\* The local file is looked at under the mutex.
LEMMA MemoryStat ==
    ASSUME IndexInv, EtagInv', NEW c \in Callers, StatLocal(c)
    PROVE  TypeOK' /\ SchemeInv' /\ ResultInv' /\ LocalInv' /\ LocalFresh'
  <1>0. TypeOK /\ SchemeInv /\ ResultInv /\ LocalInv /\ LocalFresh /\ EtagTypeOK'
    BY DEF IndexInv, EtagInv
  <1>1. /\ UNCHANGED <<scheme, local, coarse, once, result, modtime, basis, floor>>
        /\ scheme = "local" /\ lock = Free /\ pc[c] = "lock"
        /\ \A d \in Callers : d # c => pc'[d] = pc[d] /\ returned'[d] = returned[d]
        /\ \/ /\ pc'[c] = "returned" /\ returned'[c] = Absent /\ UNCHANGED <<lock, mod>>
           \/ /\ mod' = local.time /\ lock' = c
              /\ \/ pc'[c] = "read"
                 \/ pc'[c] = "unlock" /\ ~(local.time > modtime)
    BY <1>0 DEF TypeOK, SchemeInv, StatLocal, Changed, Return, Go, files
  <1>2. \A d \in Callers : pc[d] \notin {"read", "unlock"}
    BY <1>0, <1>1, FreeAssumption DEF LocalInv
  <1>3. /\ pc' \in [Callers -> Places] /\ returned' \in [Callers -> Results]
        /\ mod' \in Nat \cup {NoTime} /\ lock' \in Callers \cup {Free}
    BY <1>0, <1>1 DEF TypeOK, Places, Results, StatLocal, Return, Go
  <1>4. TypeOK'
    BY <1>0, <1>1, <1>3 DEF TypeOK
  <1>5. SchemeInv'
    BY <1>0, <1>1 DEF SchemeInv
  <1>6. Absent # NotYet
    BY DEF Absent, NotYet
  <1>7. ResultInv'
    BY <1>0, <1>1, <1>6 DEF ResultInv
  <1>8. LocalInv'
    BY <1>0, <1>1, <1>2 DEF TypeOK, LocalInv, NoTime
  <1>9. LocalFresh'
    <2>1. SUFFICES ASSUME pc'[c] = "unlock", ~coarse PROVE basis >= floor[c]
      BY <1>1, <1>2 DEF LocalFresh
    <2>2. local.time <= modtime
      BY <1>0, <1>1, <2>1 DEF TypeOK, NoTime
    <2> QED
      BY <1>0, <2>1, <2>2 DEF TypeOK, LocalInv, NoTime
  <1> QED
    BY <1>4, <1>5, <1>7, <1>8, <1>9

\* It is read under the mutex.
LEMMA MemoryRead ==
    ASSUME IndexInv, EtagInv', NEW c \in Callers, ReadLocal(c)
    PROVE  TypeOK' /\ SchemeInv' /\ ResultInv' /\ LocalInv' /\ LocalFresh'
  <1>0. TypeOK /\ SchemeInv /\ ResultInv /\ LocalInv /\ LocalFresh /\ EtagTypeOK'
    BY DEF IndexInv, EtagInv
  <1>1. /\ UNCHANGED <<scheme, local, coarse, once, returned, lock, mod, floor>>
        /\ scheme = "local" /\ lock = c /\ pc[c] = "read"
        /\ \A d \in Callers : d # c => pc'[d] = pc[d]
        /\ pc'[c] = "unlock" /\ modtime' = mod /\ basis' = local.version
        /\ result' \in {Absent, Failed, Index(local.version)}
    BY <1>0 DEF TypeOK, SchemeInv, LocalInv, ReadLocal, Go, files
  <1>2. \A d \in Callers : d # c => pc[d] \notin {"read", "unlock"}
    BY <1>0, <1>1 DEF LocalInv
  <1>3. result' \in Results /\ result' # NotYet
    <2>1. Index(local.version) \in Results
      BY <1>0, BoundsAssumption, WritesAssumption DEF TypeOK, Results
    <2>2. Absent \in Results /\ Failed \in Results
      BY DEF Results
    <2>3. Absent # NotYet /\ Failed # NotYet /\ Index(local.version) # NotYet
      BY DEF Absent, Failed, Index, NotYet
    <2> QED
      BY <1>1, <2>1, <2>2, <2>3
  <1>4. TypeOK'
    <2>1. pc' \in [Callers -> Places]
      BY <1>0 DEF TypeOK, Places, ReadLocal, Go
    <2> QED
      BY <1>0, <1>1, <1>3, <2>1, WritesAssumption DEF TypeOK
  <1>5. SchemeInv'
    BY <1>0, <1>1 DEF SchemeInv
  <1>6. ResultInv'
    BY <1>0, <1>1, <1>3 DEF ResultInv
  <1>7. LocalInv'
    BY <1>0, <1>1, <1>2, <1>3, WritesAssumption DEF TypeOK, LocalInv, NoTime
  <1>8. LocalFresh'
    BY <1>0, <1>1, <1>2, WritesAssumption DEF TypeOK, LocalInv, LocalFresh
  <1> QED
    BY <1>4, <1>5, <1>6, <1>7, <1>8

\* The mutex is given back; the caller may ask again.
LEMMA MemoryReturn ==
    ASSUME IndexInv, EtagInv', NEW c \in Callers, ReturnLocal(c) \/ Again(c)
    PROVE  TypeOK' /\ SchemeInv' /\ ResultInv' /\ LocalInv' /\ LocalFresh'
  <1>0. TypeOK /\ SchemeInv /\ ResultInv /\ LocalInv /\ LocalFresh /\ EtagTypeOK'
    BY DEF IndexInv, EtagInv
  <1>1. CASE ReturnLocal(c)
    <2>1. /\ UNCHANGED <<scheme, local, coarse, once, result, modtime, basis>>
          /\ scheme = "local" /\ lock = c /\ pc[c] = "unlock"
          /\ \A d \in Callers : d # c => /\ pc'[d] = pc[d] /\ returned'[d] = returned[d]
                                         /\ floor'[d] = floor[d]
          /\ pc'[c] = "returned" /\ returned'[c] = result /\ floor'[c] = 0
          /\ lock' = Free /\ mod' = NoTime
      BY <1>0, <1>1 DEF TypeOK, SchemeInv, LocalInv, ReturnLocal, Unlocked, Return, Go, files
    <2>2. \A d \in Callers : d # c => pc[d] \notin {"read", "unlock"}
      BY <1>0, <2>1 DEF LocalInv
    <2>3. result # NotYet
      BY <1>0, <2>1 DEF LocalInv
    <2>4. TypeOK'
      <3>1. /\ pc' \in [Callers -> Places] /\ returned' \in [Callers -> Results]
            /\ floor' \in [Callers -> Nat]
        BY <1>0, <1>1 DEF TypeOK, Places, ReturnLocal, Return, Go
      <3> QED
        BY <1>0, <2>1, <3>1 DEF TypeOK
    <2>5. SchemeInv' /\ LocalFresh'
      BY <1>0, <2>1, <2>2 DEF SchemeInv, LocalFresh
    <2>6. ResultInv'
      BY <1>0, <2>1, <2>3 DEF ResultInv
    <2>7. LocalInv'
      BY <1>0, <2>1, <2>2, WritesAssumption DEF TypeOK, LocalInv, NoTime
    <2> QED
      BY <2>4, <2>5, <2>6, <2>7
  <1>2. CASE Again(c)
    <2>1. /\ UNCHANGED <<scheme, local, coarse, once, result, lock, modtime, mod, basis, floor>>
          /\ scheme = "local"
          /\ \A d \in Callers : d # c => pc'[d] = pc[d] /\ returned'[d] = returned[d]
          /\ pc'[c] = "idle"
      BY <1>0, <1>2 DEF TypeOK, Again, Go, files
    <2>2. pc' \in [Callers -> Places] /\ returned' \in [Callers -> Results]
      BY <1>0, <1>2 DEF TypeOK, Places, Results, Again, Go
    <2>3. TypeOK'
      BY <1>0, <2>1, <2>2 DEF TypeOK
    <2>4. SchemeInv' /\ LocalFresh' /\ ResultInv' /\ LocalInv'
      BY <1>0, <2>1 DEF SchemeInv, LocalFresh, ResultInv, LocalInv
    <2> QED
      BY <2>3, <2>4
  <1> QED
    BY <1>1, <1>2

-----------------------------------------------------------------------------
(* The theorems. *)

\* An empty directory, and a process that has just begun.
LEMMA IndexInit == Init => IndexInv
  <1> SUFFICES ASSUME Init PROVE IndexInv
    OBVIOUS
  <1> USE BoundsAssumption, WritesAssumption
  <1>1. EtagTypeOK
    <2>1. 1 \in Versions /\ {initial, final} \subseteq Versions /\ current \in Versions
      BY DEF Init, EtagInit, Versions
    <2>2. answer \in [Callers -> Answers]
      BY DEF Init, EtagInit, Answers
    <2>3. offline \in BOOLEAN /\ etags \in BOOLEAN
      BY Zenon DEF Init, EtagInit
    <2>4. /\ dir \subseteq CacheFiles /\ clock \in Nat /\ cancelled \subseteq Callers
          /\ faults \in 0..MaxFaults /\ crashes \in 0..MaxCrashes
          /\ etagOnce \in Callers \cup {New, Over} /\ resp = NotYet
      BY DEF Init, EtagInit
    <2> QED
      BY <2>1, <2>2, <2>3, <2>4 DEF EtagTypeOK
  <1>2. TypeOK
    <2>1. /\ pc \in [Callers -> Places] /\ returned \in [Callers -> Results]
          /\ result \in Results
      BY DEF Init, EtagInit, Places, Results
    <2>2. local \in [version : 0..MaxWrites, time : Nat, there : BOOLEAN]
      BY DEF Init
    <2>3. coarse \in BOOLEAN
      BY Zenon DEF Init
    <2>4. /\ scheme \in {"key", "remote", "local", "apk"} /\ once = New /\ lock = Free
          /\ modtime = NoTime /\ mod = NoTime /\ basis \in Nat /\ floor \in [Callers -> Nat]
      BY DEF Init
    <2> QED
      BY <1>1, <2>1, <2>2, <2>3, <2>4 DEF TypeOK
  <1>3. EtagInv
    BY <1>1 DEF Init, EtagInit, EtagInv, OnceInv, DirInv, NamedByEtag, AnswerInv, New, Over
  <1>4. SchemeInv /\ ResultInv /\ LocalInv /\ LocalFresh
    BY DEF Init, EtagInit, SchemeInv, ResultInv, LocalInv, LocalFresh, New, Over, NoTime
  <1> QED
    BY <1>2, <1>3, <1>4 DEF IndexInv

\* IndexInv is inductive.
LEMMA IndexStep == IndexInv /\ [Next]_vars => IndexInv'
  <1> SUFFICES ASSUME IndexInv, [Next]_vars PROVE IndexInv'
    OBVIOUS
  <1>1. EtagInv'
    BY EtagStep
  <1>2. ASSUME NEW c \in Callers, Moves(c)
        PROVE  TypeOK' /\ SchemeInv' /\ ResultInv' /\ LocalInv' /\ LocalFresh'
    BY <1>1, <1>2, MemoryBegin, MemoryResult, MemoryLoad, MemoryStat, MemoryRead,
       MemoryReturn DEF Moves
  <1>3. CASE \/ \E c \in Callers : RoundTrip(c) /\ UNCHANGED <<scheme, files, memory>>
             \/ Publish /\ UNCHANGED <<scheme, files, memory>>
             \/ \E c \in Callers : Cancel(c) /\ UNCHANGED <<scheme, files, memory>>
             \/ UNCHANGED vars
    <2>1. UNCHANGED <<scheme, files, memory>>
      BY <1>3 DEF vars
    <2>2. UNCHANGED pc \/ \E c \in Callers : RoundTrip(c)
      BY <1>3 DEF Publish, Cancel, vars, etagVars, process
    <2> QED
      BY <1>1, <2>1, <2>2, MemoryStays DEF IndexInv
  <1> QED
    BY <1>1, <1>2, <1>3, NextCases, MemoryRestart, MemoryFile DEF IndexInv

\* The invariant of the caches, under every interleaving of the callers, every
\* crash and every fault.
THEOREM IndexInvariance == Spec => []IndexInv
  BY IndexInit, IndexStep, PTL DEF Spec

\* A file that bears an etag is the whole of that version, whatever the server
\* published between the HEAD and the GET and wherever a process was killed.
THEOREM EtagNamesContent == Spec => []NamedByEtag
  <1>1. IndexInv => NamedByEtag
    BY DEF IndexInv, EtagInv
  <1> QED
    BY <1>1, IndexInvariance, PTL

\* All callers of one process get one index, one package, one key, one error.
THEOREM OneAnswerForAll == Spec => []OneAnswer
  <1>1. IndexInv => OneAnswer
    <2> SUFFICES ASSUME IndexInv, NEW c \in Callers, NEW d \in Callers, Done(c), Done(d)
                 PROVE  CASE scheme \in {"remote", "apk"} -> returned[c] = returned[d]
                          [] scheme = "key" -> answer[c] = answer[d] \/ ~(etags \/ offline)
                          [] OTHER -> TRUE
      BY DEF OneAnswer
    <2>1. scheme \in {"remote", "apk"} => returned[c] = result /\ returned[d] = result
      BY DEF IndexInv, ResultInv, Done
    <2>2. scheme = "key" => pc[c] = "answered" /\ pc[d] = "answered"
      BY DEF IndexInv, SchemeInv, Done
    <2>3. scheme = "key" /\ (etags \/ offline) => answer[c] = answer[d]
      BY <2>2 DEF IndexInv, EtagInv, AnswerInv
    <2> QED
      BY <2>1, <2>3
  <1> QED
    BY <1>1, IndexInvariance, PTL

\* A local index is never older than the file was when it was asked for.
THEOREM LocalIsFresh == Spec => []LocalFresh
  <1>1. IndexInv => LocalFresh
    BY DEF IndexInv
  <1> QED
    BY <1>1, IndexInvariance, PTL
=============================================================================
