------------------------ MODULE InstallPackagesProofs ------------------------
(***************************************************************************)
(* Proofs about InstallPackages, for every length of the list, every       *)
(* number of processors and any number of calls.                           *)
(*                                                                         *)
(* PipelineInv is the inductive invariant: TypeIsInvariant and             *)
(* PipelineIsInvariant establish it action by action, the safety           *)
(* properties and the refinement of SeqInstall follow from it.             *)
(***************************************************************************)
EXTENDS InstallPackages, FiniteSetTheorems, TLAPS

-----------------------------------------------------------------------------
(* The goroutines of the group. *)

\* Who is active, spelled out: the installer is 0, a fetcher is its package.
LEMMA ActiveMembers ==
    /\ 0 \in Active <=> ipc \notin {"off", "exited"}
    /\ \A i \in Pkgs : i \in Active <=> fetch[i] \in {"running", "stored"}
  BY NAssumption DEF Active, Pkgs

\* The group is empty exactly when no goroutine is between start and end.
LEMMA ActiveEmpty ==
    Active = {} <=> /\ ipc \in {"off", "exited"}
                    /\ \A i \in Pkgs : fetch[i] \notin {"running", "stored"}
  BY NAssumption DEF Active, Pkgs

-----------------------------------------------------------------------------
(* Types. *)

\* The initial states have the types the code declares.
LEMMA TypeInit == Init => TypeOK
  <1> SUFFICES ASSUME Init PROVE TypeOK
    OBVIOUS
  <1>1. idb \in [Pkgs -> Nat]
    BY DEF Init
  <1>2. files \in [Pkgs -> {"none", "part", "all"}]
    BY DEF Init
  <1>3. next \in 0..(N + 1) /\ k \in 1..(N + 1) /\ rec \in 0..N
    BY NAssumption DEF Init, FreshCall
  <1> QED
    BY <1>1, <1>2, <1>3 DEF Init, FreshCall, TypeOK

\* The installer is at a package of the list whenever it is past the select.
LEMMA InRange ==
    TypeOK /\ PipelineInv /\ ipc \in {"check", "files", "scripts", "triggers"}
        => k \in Pkgs /\ k + 1 \in 1..(N + 1)
  <1> SUFFICES ASSUME TypeOK, PipelineInv,
                      ipc \in {"check", "files", "scripts", "triggers"}
               PROVE  k \in Pkgs /\ k + 1 \in 1..(N + 1)
    OBVIOUS
  <1>1. k \in Pkgs
    BY DEF TypeOK, PipelineInv, InstallerInv
  <1> QED
    BY <1>1, NAssumption DEF Pkgs

\* Counting one more append for a package.
LEMMA Bump ==
    ASSUME NEW f \in [Pkgs -> Nat], NEW j \in Pkgs, NEW d \in Nat
    PROVE  [f EXCEPT ![j] = @ + d] \in [Pkgs -> Nat]
  OBVIOUS

\* Every step of the calling goroutine, the fetchers, the installer and the
\* caller keeps the indices of the slices in range and the types.
LEMMA TypeStep == TypeOK /\ PipelineInv /\ [Next]_vars => TypeOK'
  <1> SUFFICES ASSUME TypeOK, PipelineInv, [Next]_vars
               PROVE  TypeOK'
    OBVIOUS
  <1> USE NAssumption DEF TypeOK
  <1>1. CASE SpawnInstaller
    BY <1>1 DEF SpawnInstaller, callVars, fetchVars, instVars, errVars, fsVars
  <1>2. CASE SpawnFetcher
    <2>1. next' \in 0..(N + 1)
      BY <1>2 DEF SpawnFetcher, Pkgs
    <2>2. fetch' \in [Pkgs -> {"off", "running", "stored", "exited"}]
      BY <1>2 DEF SpawnFetcher
    <2> QED
      BY <1>2, <2>1, <2>2 DEF SpawnFetcher, callVars, fetchVars, instVars, errVars, fsVars
  <1>3. CASE StartWait
    BY <1>3 DEF StartWait, callVars, fetchVars, instVars, errVars, fsVars
  <1>4. CASE WaitReturn
    BY <1>4 DEF WaitReturn, AfterWait, callVars, fetchVars, instVars, errVars, fsVars
  <1>5. CASE RecordSkip
    BY <1>5 DEF RecordSkip, callVars, fetchVars, instVars, errVars, fsVars
  <1>6. CASE RecordPackage
    BY <1>6 DEF RecordPackage, callVars, fetchVars, instVars, errVars, fsVars
  <1>7. CASE RecordFail
    BY <1>7 DEF RecordFail, callVars, fetchVars, instVars, errVars, fsVars
  <1>8. CASE RecordDone
    BY <1>8 DEF RecordDone, callVars, fetchVars, instVars, errVars, fsVars
  <1>9. CASE SelectReady
    BY <1>9 DEF SelectReady, callVars, fetchVars, instVars, errVars, fsVars
  <1>10. CASE SelectCancelled
    BY <1>10 DEF SelectCancelled, GroupError, callVars, fetchVars, instVars, errVars, fsVars
  <1>11. CASE CheckInstalled
    BY <1>11, InRange DEF CheckInstalled, callVars, fetchVars, instVars, errVars, fsVars
  <1>12. CASE CheckNew
    BY <1>12, InRange DEF CheckNew, callVars, fetchVars, instVars, errVars, fsVars
  <1>13. CASE CheckFail
    BY <1>13 DEF CheckFail, GroupError, callVars, fetchVars, instVars, errVars, fsVars
  <1>14. CASE InstallFiles
    BY <1>14, InRange DEF InstallFiles, callVars, fetchVars, instVars, errVars, fsVars
  <1>15. CASE InstallFilesFail
    BY <1>15, InRange DEF InstallFilesFail, GroupError, Close, callVars, fetchVars, instVars, errVars, fsVars
  <1>16. CASE InstallScripts
    <2>1. k \in Pkgs /\ k' \in 1..(N + 1)
      BY <1>16, InRange DEF InstallScripts
    <2>2. scripts' \in [Pkgs -> Nat]
      BY <1>16, <2>1, Bump DEF InstallScripts
    <2> QED
      BY <1>16, <2>1, <2>2 DEF InstallScripts, callVars, fetchVars, instVars, errVars, fsVars
  <1>17. CASE InstallScriptsFail
    <2>1. k \in Pkgs /\ k' \in 1..(N + 1)
      BY <1>17, InRange DEF InstallScriptsFail
    <2>2. scripts' \in [Pkgs -> Nat]
      BY <1>17, <2>1, Bump DEF InstallScriptsFail
    <2> QED
      BY <1>17, <2>1, <2>2 DEF InstallScriptsFail, GroupError, Close, callVars, fetchVars, instVars, errVars, fsVars
  <1>18. CASE InstallTriggers
    <2>1. k \in Pkgs /\ k' \in 1..(N + 1)
      BY <1>18, InRange DEF InstallTriggers
    <2>2. triggers' \in [Pkgs -> Nat]
      BY <1>18, <2>1, Bump DEF InstallTriggers, UpdateTriggers
    <2> QED
      BY <1>18, <2>1, <2>2 DEF InstallTriggers, Close, callVars, fetchVars, instVars, errVars, fsVars
  <1>19. CASE InstallTriggersFail
    <2>1. k \in Pkgs /\ k' \in 1..(N + 1)
      BY <1>19, InRange DEF InstallTriggersFail
    <2>2. triggers' \in [Pkgs -> Nat]
      BY <1>19, <2>1, Bump DEF InstallTriggersFail
    <2> QED
      BY <1>19, <2>1, <2>2 DEF InstallTriggersFail, GroupError, Close, callVars, fetchVars, instVars, errVars, fsVars
  <1>20. CASE InstallerReturn
    BY <1>20 DEF InstallerReturn, callVars, fetchVars, instVars, errVars, fsVars
  <1>21. ASSUME NEW i \in Pkgs, FetcherStep(i) PROVE TypeOK'
    <2>1. CASE FetchStore(i)
      BY <2>1 DEF FetchStore, Store, callVars, fetchVars, instVars, errVars, fsVars
    <2>2. CASE FetchReturn(i)
      BY <2>2 DEF FetchReturn, Promise, callVars, fetchVars, instVars, errVars, fsVars
    <2>3. CASE FetchFail(i)
      BY <2>3 DEF FetchFail, GroupError, Errors, callVars, fetchVars, instVars, errVars, fsVars
    <2> QED
      BY <1>21, <2>1, <2>2, <2>3 DEF FetcherStep
  <1>22. CASE CancelCtx
    BY <1>22 DEF CancelCtx, callVars, fetchVars, instVars, errVars, fsVars
  <1>23. CASE CallAgain
    <2>1. fetch' \in [Pkgs -> {"off", "running", "stored", "exited"}]
      BY <1>23 DEF CallAgain
    <2>2. run' \in Nat
      BY <1>23 DEF CallAgain
    <2>3. (next \in 0..(N + 1) /\ k \in 1..(N + 1) /\ rec \in 0..N)'
      BY <1>23 DEF CallAgain
    <2> QED
      BY <1>23, <2>1, <2>2, <2>3 DEF CallAgain, fsVars
  <1>24. CASE UNCHANGED vars
    BY <1>24 DEF vars, callVars, fetchVars, instVars, errVars, fsVars
  <1> QED
    BY <1>1, <1>2, <1>3, <1>4, <1>5, <1>6, <1>7, <1>8, <1>9, <1>10,
       <1>11, <1>12, <1>13, <1>14, <1>15, <1>16, <1>17, <1>18, <1>19,
       <1>20, <1>21, <1>22, <1>23, <1>24
    DEF Next, CallerStep, InstallerStep

-----------------------------------------------------------------------------
(* The inductive invariant. *)

\* A fresh call on a filesystem with whole packages only.
LEMMA PipelineInit == Init => PipelineInv
  BY NAssumption DEF Init, FreshCall, PipelineInv, SpawnInv, PromiseInv, ErrorInv,
     JoinInv, InstallerInv, DatabaseInv, Complete, Pkgs

\* Every step of every goroutine preserves the invariant.
LEMMA PipelineStep == TypeOK /\ PipelineInv /\ [Next]_vars => PipelineInv'
  <1> SUFFICES ASSUME TypeOK, PipelineInv, [Next]_vars
               PROVE  PipelineInv'
    OBVIOUS
  <1> USE NAssumption DEF TypeOK, Pkgs, PipelineInv, SpawnInv, PromiseInv, ErrorInv,
          JoinInv, InstallerInv, DatabaseInv, Complete
  <1>1. CASE SpawnInstaller
    BY <1>1 DEF SpawnInstaller, callVars, fetchVars, instVars, errVars, fsVars
  <1>2. CASE SpawnFetcher
    BY <1>2 DEF SpawnFetcher, callVars, fetchVars, instVars, errVars, fsVars
  <1>3. CASE StartWait
    BY <1>3 DEF StartWait, callVars, fetchVars, instVars, errVars, fsVars
  <1>4. CASE WaitReturn
    <2>1. ipc = "exited" /\ \A i \in Pkgs : fetch[i] = "exited"
      BY <1>4, ActiveEmpty DEF WaitReturn, Joined
    <2> USE DEF WaitReturn, AfterWait, callVars, fetchVars, instVars, errVars, fsVars
    <2>2. SpawnInv' /\ PromiseInv' /\ ErrorInv'
      BY <1>4
    <2>3. JoinInv'
      BY <1>4, <2>1
    <2>4. InstallerInv' /\ DatabaseInv'
      BY <1>4
    <2> QED
      BY <2>2, <2>3, <2>4
  <1>5. CASE RecordSkip
    <2> USE DEF RecordSkip, callVars, fetchVars, instVars, errVars, fsVars
    <2>1. SpawnInv' /\ PromiseInv' /\ ErrorInv' /\ JoinInv' /\ InstallerInv'
      BY <1>5
    <2>2. \A i \in infos : i <= rec' <=> i <= rec
      BY <1>5
    <2>3. DatabaseInv'
      BY <1>5, <2>2
    <2> QED
      BY <2>1, <2>3
  <1>6. CASE RecordPackage
    <2> USE DEF RecordPackage, callVars, fetchVars, instVars, errVars, fsVars
    <2>1. SpawnInv' /\ PromiseInv' /\ ErrorInv'
      BY <1>6
    <2>2. JoinInv'
      BY <1>6
    <2>3. rec + 1 \in Pkgs /\ idb[rec + 1] = 0
      BY <1>6
    <2>4. \A i \in Pkgs : Complete(i)' <=> Complete(i)
      BY <1>6
    <2>5. InstallerInv'
      BY <1>6, <2>4
    <2>6. \A i \in Pkgs : idb'[i] = IF i = rec + 1 THEN 1 ELSE idb[i]
      BY <1>6, <2>3
    <2>7. \A i \in infos : i # rec + 1 => (i <= rec' <=> i <= rec)
      BY <1>6
    <2>8. JoinInv /\ rec + 1 < k /\ infos' = infos /\ k' = k
      BY <1>6
    <2>9. DatabaseInv'
      BY <1>6, <2>3, <2>4, <2>6, <2>7, <2>8
    <2> QED
      BY <2>1, <2>2, <2>5, <2>9
  <1>7. CASE RecordFail
    BY <1>7 DEF RecordFail, callVars, fetchVars, instVars, errVars, fsVars
  <1>8. CASE RecordDone
    BY <1>8 DEF RecordDone, callVars, fetchVars, instVars, errVars, fsVars
  <1>9. CASE SelectReady
    BY <1>9 DEF SelectReady, callVars, fetchVars, instVars, errVars, fsVars
  <1>10. CASE SelectCancelled
    BY <1>10 DEF SelectCancelled, GroupDone, GroupError, callVars, fetchVars, instVars, errVars, fsVars
  <1>11. CASE CheckInstalled
    BY <1>11 DEF CheckInstalled, IsInstalled, callVars, fetchVars, instVars, errVars, fsVars
  <1>12. CASE CheckNew
    BY <1>12 DEF CheckNew, IsInstalled, callVars, fetchVars, instVars, errVars, fsVars
  <1>13. CASE CheckFail
    BY <1>13 DEF CheckFail, GroupError, callVars, fetchVars, instVars, errVars, fsVars
  <1>14. CASE InstallFiles
    BY <1>14 DEF InstallFiles, callVars, fetchVars, instVars, errVars, fsVars
  <1>15. CASE InstallFilesFail
    BY <1>15 DEF InstallFilesFail, GroupError, Close, callVars, fetchVars, instVars, errVars, fsVars
  <1>16. CASE InstallScripts
    BY <1>16 DEF InstallScripts, callVars, fetchVars, instVars, errVars, fsVars
  <1>17. CASE InstallScriptsFail
    BY <1>17 DEF InstallScriptsFail, GroupError, Close, callVars, fetchVars, instVars, errVars, fsVars
  <1>18. CASE InstallTriggers
    BY <1>18 DEF InstallTriggers, UpdateTriggers, Close, callVars, fetchVars, instVars, errVars, fsVars
  <1>19. CASE InstallTriggersFail
    BY <1>19 DEF InstallTriggersFail, GroupError, Close, callVars, fetchVars, instVars, errVars, fsVars
  <1>20. CASE InstallerReturn
    BY <1>20 DEF InstallerReturn, LoopEnd, callVars, fetchVars, instVars, errVars, fsVars
  <1>21. ASSUME NEW i \in Pkgs, FetcherStep(i) PROVE PipelineInv'
    <2>1. CASE FetchStore(i)
      BY <2>1 DEF FetchStore, Store, callVars, fetchVars, instVars, errVars, fsVars
    <2>2. CASE FetchReturn(i)
      BY <2>2 DEF FetchReturn, Promise, callVars, fetchVars, instVars, errVars, fsVars
    <2>3. CASE FetchFail(i)
      BY <2>3 DEF FetchFail, GroupError, Errors, callVars, fetchVars, instVars, errVars, fsVars
    <2> QED
      BY <1>21, <2>1, <2>2, <2>3 DEF FetcherStep
  <1>22. CASE CancelCtx
    BY <1>22 DEF CancelCtx, callVars, fetchVars, instVars, errVars, fsVars
  <1>23. CASE CallAgain
    BY <1>23 DEF CallAgain, Returned, fsVars
  <1>24. CASE UNCHANGED vars
    BY <1>24 DEF vars, callVars, fetchVars, instVars, errVars, fsVars
  <1> QED
    BY <1>1, <1>2, <1>3, <1>4, <1>5, <1>6, <1>7, <1>8, <1>9, <1>10,
       <1>11, <1>12, <1>13, <1>14, <1>15, <1>16, <1>17, <1>18, <1>19,
       <1>20, <1>21, <1>22, <1>23, <1>24
    DEF Next, CallerStep, InstallerStep

\* The invariant of the pipeline holds in every reachable state.
THEOREM PipelineIsInvariant == Spec => [](TypeOK /\ PipelineInv)
  BY TypeInit, TypeStep, PipelineInit, PipelineStep, PTL DEF Spec

\* Type correctness; the index of the installer stays within the list because
\* it works on promised packages only.
THEOREM TypeIsInvariant == Spec => []TypeOK
  BY PipelineIsInvariant, PTL

-----------------------------------------------------------------------------
(* Safety. *)

\* A recorded package has its files, its scripts and its triggers on the
\* filesystem, in every state of every call.
THEOREM RecordedCompleteHolds == Spec => []RecordedComplete
  <1>1. PipelineInv => RecordedComplete
    BY DEF PipelineInv, DatabaseInv, RecordedComplete
  <1> QED
    BY <1>1, PipelineIsInvariant, PTL

\* No sequence of calls records a package twice.
THEOREM RecordedOnceHolds == Spec => []RecordedOnce
  <1>1. PipelineInv => RecordedOnce
    BY DEF PipelineInv, DatabaseInv, RecordedOnce
  <1> QED
    BY <1>1, PipelineIsInvariant, PTL

\* InstallPackages returns only when all its goroutines have.
THEOREM ReturnsQuiescentHolds == Spec => []ReturnsQuiescent
  <1>1. PipelineInv => ReturnsQuiescent
    BY ActiveEmpty DEF PipelineInv, JoinInv, ReturnsQuiescent, Returned
  <1> QED
    BY <1>1, PipelineIsInvariant, PTL

\* The installer never reads an expanded[k] that is not assigned.
THEOREM ExpandedBeforeUseHolds == Spec => []ExpandedBeforeUse
  <1>1. PipelineInv => ExpandedBeforeUse
    BY DEF PipelineInv, InstallerInv, PromiseInv, ExpandedBeforeUse
  <1> QED
    BY <1>1, PipelineIsInvariant, PTL

\* A call that returns nil has every package of the list recorded.
THEOREM SuccessRecordsAllHolds == Spec => []SuccessRecordsAll
  <1>1. TypeOK /\ PipelineInv => SuccessRecordsAll
    <2> SUFFICES ASSUME TypeOK, PipelineInv, mpc = "ok", NEW i \in Pkgs
                 PROVE  idb[i] = 1
      BY DEF SuccessRecordsAll
    <2>1. k = N + 1 /\ rec = N
      BY DEF PipelineInv, JoinInv, DatabaseInv
    <2>2. i < k /\ i <= rec
      BY <2>1, NAssumption DEF Pkgs
    <2> QED
      BY <2>2 DEF PipelineInv, DatabaseInv
  <1> QED
    BY <1>1, PipelineIsInvariant, PTL

\* A cancellation is reported only to a caller that cancelled.
THEOREM RootCauseReportedHolds == Spec => []RootCauseReported
  <1>1. PipelineInv => RootCauseReported
    BY DEF PipelineInv, ErrorInv, RootCauseReported
  <1> QED
    BY <1>1, PipelineIsInvariant, PTL

\* While the caller is blocked, in g.Go or in g.Wait, a goroutine of the
\* group can go on: the slot of the installer leaves one for a fetcher, and
\* an installer that waits for a promise has a fetcher or an error behind it.
THEOREM NeverStuckHolds == Spec => []NeverStuck
  <1>1. TypeOK /\ PipelineInv => NeverStuck
    <2> SUFFICES ASSUME TypeOK, PipelineInv, Blocked,
                        \A i \in Pkgs : fetch[i] \notin {"running", "stored"}
                 PROVE  InstallerCanStep
      BY DEF NeverStuck
    <2>1. Active \subseteq {0}
      BY ActiveMembers DEF Active, Pkgs
    <2>2. Cardinality(Active) <= 1
      <3>1. IsFiniteSet({0}) /\ Cardinality({0}) = 1
        BY FS_Singleton
      <3>2. Cardinality(Active) <= Cardinality({0})
        BY <2>1, <3>1, FS_Subset
      <3> QED
        BY <3>1, <3>2
    <2>3. SlotFree
      <3>1. Cardinality(Active) \in Nat
        BY <2>1, FS_Singleton, FS_Subset, FS_CardinalityType
      <3> QED
        BY <2>2, <3>1, JobsAssumption DEF SlotFree, Limit
    <2>4. mpc = "wait" /\ Active # {}
      BY <2>3 DEF Blocked
    <2>5. ipc \notin {"off", "exited"}
      BY <2>1, <2>4, ActiveMembers
    <2>6. \A i \in Pkgs : fetch[i] = "exited"
      BY <2>4, NAssumption DEF PipelineInv, SpawnInv, TypeOK, Pkgs
    <2>7. ASSUME ipc = "select", k # N + 1
          PROVE  k \in done \/ gctxDone
      <3>1. k \in Pkgs
        BY <2>7, NAssumption DEF TypeOK, Pkgs
      <3> QED
        BY <2>6, <3>1 DEF PipelineInv, PromiseInv, ErrorInv
    <2> QED
      BY <2>5, <2>7 DEF InstallerCanStep, LoopEnd, GroupDone
  <1> QED
    BY <1>1, PipelineIsInvariant, PTL

-----------------------------------------------------------------------------
(* What a step may never do. *)

\* Whatever is put on the filesystem belongs to the package the installer is
\* at, and that package is not recorded.
LEMMA TouchedIsAtHand ==
    ASSUME TypeOK, PipelineInv, [Next]_vars, NEW i \in Pkgs, Touched(i)
    PROVE  i = k /\ idb[i] = 0
  <1>1. UNCHANGED <<files, scripts, triggers>> => FALSE
    BY DEF Touched
  <1>2. i = k /\ ipc \in {"files", "scripts", "triggers"}
    <2>1. CASE InstallFiles \/ InstallFilesFail
      BY <2>1 DEF InstallFiles, InstallFilesFail, Touched, TypeOK
    <2>2. CASE InstallScripts \/ InstallScriptsFail
      BY <2>2 DEF InstallScripts, InstallScriptsFail, Touched, TypeOK
    <2>3. CASE InstallTriggers \/ InstallTriggersFail
      BY <2>3 DEF InstallTriggers, InstallTriggersFail, UpdateTriggers, Touched, TypeOK
    <2>4. CASE CallerStep
      BY <1>1, <2>4 DEF CallerStep, SpawnInstaller, SpawnFetcher, StartWait,
         WaitReturn, RecordSkip, RecordPackage, RecordFail, RecordDone, fsVars
    <2>5. CASE \E j \in Pkgs : FetcherStep(j)
      BY <1>1, <2>5 DEF FetcherStep, FetchStore, FetchReturn, FetchFail, fsVars
    <2>6. CASE CancelCtx \/ CallAgain \/ UNCHANGED vars
      BY <1>1, <2>6 DEF CancelCtx, CallAgain, vars, fsVars
    <2>7. CASE SelectReady \/ SelectCancelled \/ CheckInstalled \/ CheckNew
               \/ CheckFail \/ InstallerReturn
      BY <1>1, <2>7 DEF SelectReady, SelectCancelled, CheckInstalled, CheckNew,
         CheckFail, InstallerReturn, fsVars
    <2> QED
      BY <2>1, <2>2, <2>3, <2>4, <2>5, <2>6, <2>7 DEF Next, InstallerStep
  <1>3. k \in infos /\ rec = 0
    BY <1>2 DEF PipelineInv, InstallerInv, JoinInv, DatabaseInv, TypeOK
  <1>4. idb[k] = 0
    <2>1. ~(k <= 0)
      BY NAssumption DEF TypeOK
    <2> QED
      BY <1>3, <2>1 DEF PipelineInv, DatabaseInv
  <1> QED
    BY <1>2, <1>4

\* The packages are installed in the given order exactly.
THEOREM GivenOrderHolds == Spec => GivenOrder
  <1>1. TypeOK /\ PipelineInv /\ [Next]_vars
            => [\A i \in Pkgs : Touched(i) => \A j \in 1..(i - 1) : Complete(j)]_vars
    <2> SUFFICES ASSUME TypeOK, PipelineInv, [Next]_vars,
                        NEW i \in Pkgs, Touched(i), NEW j \in 1..(i - 1)
                 PROVE  Complete(j)
      OBVIOUS
    <2>1. i = k
      BY TouchedIsAtHand
    <2>2. j \in Pkgs /\ j < k
      BY <2>1, NAssumption DEF Pkgs
    <2> QED
      BY <2>2 DEF PipelineInv, InstallerInv
  <1> QED
    BY <1>1, PipelineIsInvariant, PTL DEF Spec, GivenOrder

\* A recorded package is never installed again.
THEOREM RecordedUntouchedHolds == Spec => RecordedUntouched
  <1>1. TypeOK /\ PipelineInv /\ [Next]_vars
            => [\A i \in Pkgs : idb[i] > 0 => ~Touched(i)]_vars
    BY TouchedIsAtHand
  <1> QED
    BY <1>1, PipelineIsInvariant, PTL DEF Spec, RecordedUntouched

\* The database is written last: behind every goroutine and without an error.
THEOREM RecordedLastHolds == Spec => RecordedLast
  <1>1. TypeOK /\ PipelineInv /\ [Next]_vars
            => [idb' # idb => /\ Active = {}
                              /\ gerr = "none"
                              /\ \A i \in Pkgs : Complete(i)]_vars
    <2> SUFFICES ASSUME TypeOK, PipelineInv, [Next]_vars, idb' # idb
                 PROVE  /\ Active = {}
                        /\ gerr = "none"
                        /\ \A i \in Pkgs : Complete(i)
      OBVIOUS
    <2>1. mpc = "record"
      BY DEF Next, vars, fsVars, CallerStep, SpawnInstaller, SpawnFetcher, StartWait,
         WaitReturn, RecordSkip, RecordPackage, RecordFail, RecordDone,
         InstallerStep, SelectReady, SelectCancelled, CheckInstalled, CheckNew,
         CheckFail, InstallFiles, InstallFilesFail, InstallScripts,
         InstallScriptsFail, InstallTriggers, InstallTriggersFail, InstallerReturn,
         FetcherStep, FetchStore, FetchReturn, FetchFail, CancelCtx, CallAgain
    <2>2. Active = {} /\ gerr = "none"
      BY <2>1, ActiveEmpty DEF PipelineInv, JoinInv
    <2>3. k = N + 1
      BY <2>1 DEF PipelineInv, JoinInv
    <2>4. \A i \in Pkgs : i < k
      BY <2>3, NAssumption DEF Pkgs
    <2> QED
      BY <2>2, <2>4 DEF PipelineInv, InstallerInv
  <1> QED
    BY <1>1, PipelineIsInvariant, PTL DEF Spec, RecordedLast

-----------------------------------------------------------------------------
(* Refinement: fetching concurrently is invisible. *)

\* A fresh call is a fresh call of the sequential installation.
LEMMA SequentialInit == Init => Sequential!Init
  BY NAssumption DEF Init, FreshCall, Pkgs, Sequential!Init, Sequential!Pkgs

\* The sequential state depends on the position of the installer, the progress
\* of the record loop and the database only.
LEMMA SequentialStutter ==
    ASSUME UNCHANGED <<mpc, k, infos, rec, idb, run>>
    PROVE  UNCHANGED Sequential!vars
  BY DEF Sequential!vars

\* Every step of a goroutine is a step of the sequential installation or none.
LEMMA SequentialStep ==
    TypeOK /\ PipelineInv /\ [Next]_vars => [Sequential!Next]_(Sequential!vars)
  <1> SUFFICES ASSUME TypeOK, PipelineInv, [Next]_vars
               PROVE  [Sequential!Next]_(Sequential!vars)
    OBVIOUS
  <1> DEFINE fresh == {i \in infos : i < k}
  <1>1. CASE SpawnInstaller \/ SpawnFetcher
    BY <1>1, SequentialStutter DEF SpawnInstaller, SpawnFetcher, instVars, fsVars
  <1>2. CASE StartWait
    BY <1>2 DEF StartWait, instVars, fsVars, Sequential!vars
  <1>3. CASE WaitReturn
    <2>1. CASE gerr = "none"
      <3>1. k - 1 = N
        <4>1. ipc = "exited"
          BY <1>3, ActiveEmpty, NAssumption
          DEF WaitReturn, Joined, PipelineInv, SpawnInv
        <4> QED
          BY <2>1, <4>1, NAssumption DEF PipelineInv, JoinInv
      <3>2. Sequential!StartRecord
        BY <1>3, <2>1, <3>1 DEF WaitReturn, AfterWait, instVars, fsVars,
           Sequential!StartRecord
      <3> QED
        BY <3>2 DEF Sequential!Next
    <2>2. CASE gerr # "none"
      <3>1. Sequential!Fail
        BY <1>3, <2>2 DEF WaitReturn, AfterWait, instVars, fsVars, Sequential!Fail
      <3> QED
        BY <3>1 DEF Sequential!Next
    <2> QED
      BY <2>1, <2>2
  <1>4. CASE RecordSkip
    <2>1. Sequential!Record
      BY <1>4 DEF RecordSkip, instVars, fsVars, Sequential!Record
    <2> QED
      BY <2>1 DEF Sequential!Next
  <1>5. CASE RecordPackage
    <2>1. rec + 1 \in fresh
      <3>1. k = N + 1
        BY <1>5 DEF RecordPackage, PipelineInv, JoinInv
      <3> QED
        BY <1>5, <3>1, NAssumption DEF RecordPackage, TypeOK
    <2>2. Sequential!Record
      BY <1>5, <2>1 DEF RecordPackage, instVars, Sequential!Record
    <2> QED
      BY <2>2 DEF Sequential!Next
  <1>6. CASE RecordFail
    <2>1. Sequential!Fail
      BY <1>6 DEF RecordFail, instVars, fsVars, Sequential!Fail
    <2> QED
      BY <2>1 DEF Sequential!Next
  <1>7. CASE RecordDone
    <2>1. Sequential!Succeed
      BY <1>7 DEF RecordDone, instVars, fsVars, Sequential!Succeed
    <2> QED
      BY <2>1 DEF Sequential!Next
  <1>8. CASE SelectReady \/ SelectCancelled \/ CheckFail \/ InstallFiles
             \/ InstallFilesFail \/ InstallScripts \/ InstallScriptsFail
             \/ InstallTriggersFail \/ InstallerReturn
    BY <1>8, SequentialStutter DEF SelectReady, SelectCancelled, CheckFail,
       InstallFiles, InstallFilesFail, InstallScripts, InstallScriptsFail,
       InstallTriggersFail, InstallerReturn, callVars, fsVars
  <1>9. CASE CheckNew
    <2>1. fresh' = fresh
      BY <1>9 DEF CheckNew, TypeOK
    <2> QED
      BY <1>9, <2>1 DEF CheckNew, callVars, fsVars, Sequential!vars
  <1>10. CASE CheckInstalled
    <2>1. k \in Pkgs /\ k \notin infos
      BY <1>10, InRange DEF CheckInstalled, PipelineInv, InstallerInv, TypeOK
    <2>2. fresh' = fresh
      <3>1. \A i \in infos : i < k + 1 <=> i < k
        BY <2>1 DEF TypeOK, Pkgs
      <3> QED
        BY <1>10, <3>1 DEF CheckInstalled
    <2>3. Sequential!Process
      BY <1>10, <2>1, <2>2, NAssumption DEF CheckInstalled, IsInstalled, callVars,
         fsVars, TypeOK, Pkgs, PipelineInv, JoinInv, Sequential!Process
    <2> QED
      BY <2>3 DEF Sequential!Next
  <1>11. CASE InstallTriggers
    <2>1. k \in Pkgs /\ k \in infos /\ mpc \in {"spawn", "wait"}
      BY <1>11, InRange DEF InstallTriggers, PipelineInv, InstallerInv, JoinInv, TypeOK
    <2>2. fresh' = fresh \cup {k}
      <3>1. \A i \in infos : i < k + 1 <=> i < k \/ i = k
        BY <2>1 DEF TypeOK, Pkgs
      <3> QED
        BY <1>11, <2>1, <3>1 DEF InstallTriggers
    <2>3. idb[k] = 0
      BY <2>1, NAssumption DEF PipelineInv, DatabaseInv, Pkgs
    <2>4. Sequential!Process
      BY <1>11, <2>1, <2>2, <2>3, NAssumption DEF InstallTriggers, callVars,
         TypeOK, Pkgs, Sequential!Process
    <2> QED
      BY <2>4 DEF Sequential!Next
  <1>12. CASE \E i \in Pkgs : FetcherStep(i)
    BY <1>12, SequentialStutter DEF FetcherStep, FetchStore, FetchReturn, FetchFail,
       callVars, instVars, fsVars
  <1>13. CASE CancelCtx
    BY <1>13, SequentialStutter DEF CancelCtx, callVars, instVars, fsVars
  <1>14. CASE CallAgain
    <2>1. fresh' = {}
      BY <1>14 DEF CallAgain
    <2>2. Sequential!CallAgain
      BY <1>14, <2>1 DEF CallAgain, Returned, fsVars, Sequential!CallAgain
    <2> QED
      BY <2>2 DEF Sequential!Next
  <1>15. CASE UNCHANGED vars
    BY <1>15, SequentialStutter DEF vars, callVars, instVars, fsVars
  <1> QED
    BY <1>1, <1>2, <1>3, <1>4, <1>5, <1>6, <1>7, <1>8, <1>9, <1>10, <1>11, <1>12,
       <1>13, <1>14, <1>15
    DEF Next, CallerStep, InstallerStep

\* The pipeline implements the sequential installation of SeqInstall.
THEOREM ImplementsSeqInstallHolds == Spec => ImplementsSeqInstall
  BY SequentialInit, SequentialStep, PipelineIsInvariant, PTL
  DEF Spec, ImplementsSeqInstall, Sequential!Spec
=============================================================================
