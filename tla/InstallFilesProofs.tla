------------------------- MODULE InstallFilesProofs -------------------------
(***************************************************************************)
(* Proofs about InstallFiles, for every list of packages, every set of     *)
(* paths, every archive, base system and relation replaces, and any number *)
(* of calls.                                                               *)
(*                                                                         *)
(* FilesInv is the inductive invariant.  Its parts are proved one by one,  *)
(* each from all of them in the state before; the properties follow.       *)
(***************************************************************************)
EXTENDS InstallFiles, TLAPS

\* The actions that are not about an entry of an archive.
Loops == SkipInstalled \/ StartPackage \/ FinishPackage \/ FinishFail

Records == StartRecord \/ RecordSkip \/ RecordFail \/ RecordDone

\* The actions on an entry that end the call.
EntryFails(f) ==
    \/ WriteNewFail(f) \/ RefuseNoOrigin(f) \/ RefuseForeign(f) \/ OverwriteFail(f)
    \/ RefuseConflict(f) \/ RefuseExisting(f) \/ EntryFail(f)

\* The actions on a regular file that leave it, and those that write it.
Keeps(f) == KeepIdentical(f) \/ KeepReplacing(f)
Writes(f) == WriteNew(f) \/ Overwrite(f)

\* The actions on other entries.
Others(f) == SkipSymlink(f) \/ KeepDir(f) \/ CreateOther(f)

\* Every step is one of these.
LEMMA NextCases ==
    ASSUME [Next]_vars
    PROVE  \/ Loops \/ Records \/ RecordPackage \/ Retry
           \/ \E f \in Paths : EntryFails(f) \/ Keeps(f) \/ Writes(f) \/ Others(f)
           \/ UNCHANGED vars
  BY DEF Next, InstallEntry, Loops, Records, EntryFails, Keeps, Writes, Others

-----------------------------------------------------------------------------
(* Types. *)

\* A pointer is not nil, and names a package.
LEMMA PointerType ==
    ASSUME NEW p \in Pkgs, NEW c \in 1..MaxCalls
    PROVE  <<p, c>> \in Pointers /\ <<p, c>> # NoOwner
  BY NAssumption, CallsAssumption DEF Pointers, NoOwner, Pkgs

\* The initial states have the types the code declares.
LEMMA TypeInit == Init => TypeOK
  <1> SUFFICES ASSUME Init PROVE TypeOK
    OBVIOUS
  <1>1. PICK s \in Systems : payload = s.payload /\ origin = s.origin /\ fs = s.base
    BY DEF Init
  <1>2. /\ payload \in [Pkgs -> Archives]
        /\ origin \in [Pkgs -> Origins \cup {NoOrigin}]
        /\ fs \in [Paths -> Data]
    BY <1>1, SystemsAssumption DEF Archives, Data, Absent
  <1>3. replaces \in [Pkgs -> SUBSET Pkgs]
    BY DEF Init
  <1>4. k \in 1..(N + 1) /\ call \in 1..MaxCalls
    BY NAssumption, CallsAssumption DEF Init
  <1> QED
    BY <1>2, <1>3, <1>4 DEF Init, TypeOK

\* The package at hand is one of the list.
LEMMA AtHand ==
    ASSUME TypeOK, LoopInv, NEW f \in Paths, phase = "files", f \in todo
    PROVE  k \in Pkgs /\ k \in infos /\ k \notin recorded /\ f \in Entries(k)
           /\ payload[k][f] # Absent
  BY DEF TypeOK, LoopInv, Entries

\* What an entry that ends the call leaves: at most f itself is touched, and
\* only if it was missing or the package may overwrite it.
LEMMA Failing ==
    ASSUME TypeOK, LoopInv, NEW f \in Paths, EntryFails(f)
    PROVE  /\ phase = "files" /\ f \in todo /\ phase' = "failed"
           /\ UNCHANGED <<given, owner, k, todo, infos, allFiles, idb, recorded, call>>
           /\ \A p \in Pkgs : Entries(p)' = Entries(p)
           /\ \A p \in Pkgs, g \in Paths : Handled(p, g)' <=> Handled(p, g)
           /\ \/ fs' = fs
              \/ /\ Kind[f] = "reg"
                 /\ fs[f] = Absent \/ MayOverwrite(f)
                 /\ \E d \in Data : fs' = [fs EXCEPT ![f] = d]
           /\ err' \in {"io", "conflict", "foreign"}
           /\ err' = "foreign" => Kind[f] = "reg" /\ fs[f] # Absent /\ owner[f] = NoOwner
  <1>1. k \in Pkgs /\ payload[k][f] \in Data /\ fs[f] \in Data /\ Absent \in Data
        /\ Partial \in Data
    BY AtHand DEF EntryFails, WriteNewFail, RefuseNoOrigin, RefuseForeign, OverwriteFail,
       RefuseConflict, RefuseExisting, EntryFail, MayOverwrite, Entry, TypeOK, Data,
       Archives, Absent, Partial
  <1>2. /\ phase = "files" /\ f \in todo /\ phase' = "failed"
        /\ UNCHANGED <<given, owner, k, todo, infos, allFiles, idb, recorded, call>>
        /\ err' \in {"io", "conflict", "foreign"}
    BY DEF EntryFails, WriteNewFail, RefuseNoOrigin, RefuseForeign, OverwriteFail,
       RefuseConflict, RefuseExisting, EntryFail, MayOverwrite, Entry, Fail
  <1>3. \/ fs' = fs
        \/ /\ Kind[f] = "reg"
           /\ fs[f] = Absent \/ MayOverwrite(f)
           /\ \E d \in Data : fs' = [fs EXCEPT ![f] = d]
    <2>1. CASE WriteNewFail(f)
      BY <2>1, <1>1 DEF WriteNewFail, Entry
    <2>2. CASE OverwriteFail(f)
      BY <2>2, <1>1 DEF OverwriteFail, MayOverwrite, Entry
    <2> QED
      BY <2>1, <2>2 DEF EntryFails, RefuseNoOrigin, RefuseForeign, RefuseConflict,
         RefuseExisting, EntryFail
  <1>4. err' = "foreign" => Kind[f] = "reg" /\ fs[f] # Absent /\ owner[f] = NoOwner
    BY DEF EntryFails, WriteNewFail, RefuseNoOrigin, RefuseForeign, OverwriteFail,
       RefuseConflict, RefuseExisting, EntryFail, Entry, Fail, Differs
  <1> QED
    BY <1>2, <1>3, <1>4 DEF Handled, Entries, given

\* What an entry that is dealt with leaves: the package at hand has had its say
\* on f, nobody else on anything.
LEMMA Dealing ==
    ASSUME TypeOK, LoopInv, NEW f \in Paths, Keeps(f) \/ Writes(f) \/ Others(f)
    PROVE  /\ phase = "files" /\ f \in todo /\ todo' = todo \ {f}
           /\ UNCHANGED <<given, phase, k, infos, idb, recorded, call, err>>
           /\ \A p \in Pkgs : Entries(p)' = Entries(p)
           /\ \A p \in Pkgs, g \in Paths :
                 Handled(p, g)' <=> Handled(p, g) \/ (p = k /\ g = f)
           /\ ~Handled(k, f)
           /\ allFiles' = allFiles \/ List(f)
  <1>1. /\ phase = "files" /\ f \in todo /\ todo' = todo \ {f}
        /\ UNCHANGED <<given, phase, k, infos, idb, recorded, call, err>>
        /\ allFiles' = allFiles \/ List(f)
    BY DEF Keeps, Writes, Others, KeepIdentical, KeepReplacing, WriteNew, Overwrite,
       MayOverwrite, SkipSymlink, KeepDir, CreateOther, Entry, Done
  <1>2. k \in infos /\ f \in Entries(k)
    BY <1>1, AtHand
  <1> QED
    BY <1>1, <1>2 DEF Handled, Entries, given

\* The steps that are not about files or the database.
LEMMA Quiet ==
    ASSUME TypeOK, LoopInv, Loops \/ Records \/ UNCHANGED vars
    PROVE  /\ UNCHANGED <<given, fs, owner, allFiles, idb, recorded, call>>
           /\ \A p \in Pkgs : Entries(p)' = Entries(p)
           /\ \A p \in Pkgs, g \in Paths : Handled(p, g)' <=> Handled(p, g)
           /\ phase' # "failed" => phase # "failed"
           /\ err' = "foreign" => err = "foreign"
  <1> USE NAssumption DEF TypeOK, LoopInv, Handled, Entries, given, Pkgs
  <1>1. CASE SkipInstalled
    BY <1>1 DEF SkipInstalled
  <1>2. CASE StartPackage
    BY <1>2 DEF StartPackage
  <1>3. CASE FinishPackage
    BY <1>3 DEF FinishPackage
  <1>4. CASE FinishFail
    BY <1>4 DEF FinishFail
  <1>5. CASE StartRecord
    BY <1>5 DEF StartRecord
  <1>6. CASE RecordSkip
    BY <1>6 DEF RecordSkip
  <1>7. CASE RecordFail
    BY <1>7 DEF RecordFail
  <1>8. CASE RecordDone
    BY <1>8 DEF RecordDone
  <1>9. CASE UNCHANGED vars
    BY <1>9 DEF vars
  <1> QED
    BY <1>1, <1>2, <1>3, <1>4, <1>5, <1>6, <1>7, <1>8, <1>9 DEF Loops, Records

\* Every step keeps the types.
LEMMA TypeStep == TypeOK /\ LoopInv /\ [Next]_vars => TypeOK'
  <1> SUFFICES ASSUME TypeOK, LoopInv, [Next]_vars PROVE TypeOK'
    OBVIOUS
  <1> USE NAssumption, CallsAssumption DEF given
  <1>1. CASE Loops
    <2>1. k' \in 1..(N + 1)
      BY <1>1 DEF TypeOK, LoopInv, Loops, SkipInstalled, StartPackage, FinishPackage,
         FinishFail, Pkgs
    <2>2. infos' \subseteq Pkgs /\ todo' \subseteq Paths
      BY <1>1 DEF TypeOK, Loops, SkipInstalled, StartPackage, FinishPackage, FinishFail,
         Entries
    <2>3. phase' \in {"next", "files", "failed"} /\ err' \in {err, "io"}
      BY <1>1 DEF Loops, SkipInstalled, StartPackage, FinishPackage, FinishFail
    <2> QED
      BY <1>1, <2>1, <2>2, <2>3, Quiet DEF TypeOK
  <1>2. CASE Records
    <2>1. k' \in 1..(N + 1)
      BY <1>2 DEF TypeOK, Records, StartRecord, RecordSkip, RecordFail, RecordDone, Pkgs
    <2>2. phase' \in {"record", "ok", "failed"} /\ err' \in {err, "io"}
          /\ UNCHANGED <<infos, todo>>
      BY <1>2 DEF Records, StartRecord, RecordSkip, RecordFail, RecordDone
    <2> QED
      BY <1>2, <2>1, <2>2, Quiet DEF TypeOK
  <1>3. CASE RecordPackage
    <2>1. k \in Pkgs /\ k + 1 \in 1..(N + 1)
      BY <1>3 DEF TypeOK, RecordPackage, Pkgs
    <2>2. Kept \in SUBSET Paths
      BY <2>1 DEF TypeOK, Kept
    <2>3. idb' \in [Pkgs -> SUBSET Paths]
      BY <1>3, <2>1, <2>2 DEF TypeOK, RecordPackage
    <2> QED
      BY <1>3, <2>1, <2>3 DEF TypeOK, RecordPackage
  <1>4. CASE Retry
    BY <1>4 DEF TypeOK, Retry
  <1>5. ASSUME NEW f \in Paths, EntryFails(f) PROVE TypeOK'
    <2>1. fs' \in [Paths -> Data]
      BY <1>5, Failing DEF TypeOK
    <2> QED
      BY <1>5, <2>1, Failing DEF TypeOK
  <1>6. ASSUME NEW f \in Paths, Keeps(f) \/ Writes(f) \/ Others(f) PROVE TypeOK'
    <2>1. k \in Pkgs
      BY <1>6, Dealing, AtHand
    <2>2. allFiles' \in [Pkgs -> SUBSET Paths]
      BY <1>6, <2>1, Dealing DEF TypeOK, List
    <2>3. payload[k][f] \in Data
      BY <2>1 DEF TypeOK, Data, Archives, Absent
    <2>4. fs' \in [Paths -> Data]
      BY <1>6, <2>3 DEF TypeOK, Keeps, Writes, Others, KeepIdentical, KeepReplacing,
         WriteNew, Overwrite, Written, SkipSymlink, KeepDir, CreateOther
    <2>5. owner' \in [Paths -> Pointers \cup {NoOwner}]
      BY <1>6, <2>1, PointerType DEF TypeOK, Keeps, Writes, Others, KeepIdentical,
         KeepReplacing, WriteNew, Overwrite, Written, SkipSymlink, KeepDir, CreateOther
    <2> QED
      BY <1>6, <2>2, <2>4, <2>5, Dealing DEF TypeOK
  <1>7. CASE UNCHANGED vars
    BY <1>7 DEF TypeOK, vars
  <1> QED
    BY <1>1, <1>2, <1>3, <1>4, <1>5, <1>6, <1>7, NextCases
-----------------------------------------------------------------------------
(* The parts of the invariant. *)

\* Nothing is owned, listed or recorded before the first call.
LEMMA FilesInit == Init => FilesInv
  <1> SUFFICES ASSUME Init PROVE FilesInv
    OBVIOUS
  <1>1. TypeOK
    BY TypeInit
  <1>2. \A p \in Pkgs, f \in Paths : ~Settled(p, f)
    BY DEF Init, Settled, Handled
  <1>3. LoopInv
    BY NAssumption DEF Init, LoopInv, Pkgs
  <1>4. ListInv /\ OwnerInv /\ RecordInv
    <2>1. \A f \in Paths : owner[f] = NoOwner /\ \A p \in Pkgs : owner[f] # <<p, call>>
      BY <1>1, PointerType DEF Init, TypeOK
    <2>2. \A p \in Pkgs : allFiles[p] = {} /\ idb[p] = {}
      BY DEF Init
    <2>3. \A p \in Pkgs, f \in Paths : ~Handled(p, f)
      BY <1>2 DEF Settled
    <2>4. ListInv
      BY <2>1, <2>2, <2>3 DEF ListInv
    <2>5. OwnerInv
      BY <2>1, <2>2, <2>3 DEF OwnerInv
    <2>6. RecordInv
      BY <2>2 DEF RecordInv
    <2> QED
      BY <2>4, <2>5, <2>6
  <1>5. BaseInv
    BY DEF Init, BaseInv
  <1>6. ReplaceInv /\ ConflictInv
    BY <1>2 DEF Init, ReplaceInv, ConflictInv, Entries
  <1>7. FirstCallInv
    BY <1>2 DEF Init, FirstCallInv, Settled
  <1> QED
    BY <1>1, <1>3, <1>4, <1>5, <1>6, <1>7 DEF FilesInv

\* The loops pass every package.
LEMMA LoopStep == TypeOK /\ LoopInv /\ [Next]_vars => LoopInv'
  <1> SUFFICES ASSUME TypeOK, LoopInv, [Next]_vars PROVE LoopInv'
    OBVIOUS
  <1> USE NAssumption DEF given
  <1>1. CASE SkipInstalled
    BY <1>1 DEF SkipInstalled, TypeOK, LoopInv, Pkgs, Entries
  <1>2. CASE StartPackage
    BY <1>2 DEF StartPackage, TypeOK, LoopInv, Pkgs, Entries
  <1>3. CASE FinishPackage
    BY <1>3 DEF FinishPackage, TypeOK, LoopInv, Pkgs, Entries
  <1>4. CASE FinishFail
    BY <1>4 DEF FinishFail, TypeOK, LoopInv, Pkgs, Entries
  <1>5. CASE StartRecord
    BY <1>5 DEF StartRecord, TypeOK, LoopInv, Pkgs, Entries
  <1>6. CASE RecordSkip
    BY <1>6 DEF RecordSkip, TypeOK, LoopInv, Pkgs, Entries
  <1>7. CASE RecordFail
    BY <1>7 DEF RecordFail, TypeOK, LoopInv, Pkgs, Entries
  <1>8. CASE RecordDone
    <2>1. recorded = Pkgs
      <3>1. \A q \in Pkgs : q < k
        BY <1>8 DEF RecordDone, Pkgs
      <3>2. \A q \in Pkgs : q \in recorded
        BY <1>8, <3>1 DEF RecordDone, LoopInv
      <3>3. recorded \subseteq Pkgs
        BY DEF TypeOK
      <3> QED
        BY <3>2, <3>3
    <2> QED
      BY <1>8, <2>1 DEF RecordDone, LoopInv, Entries
  <1>9. CASE RecordPackage
    BY <1>9 DEF RecordPackage, TypeOK, LoopInv, Pkgs, Entries
  <1>10. CASE Retry
    BY <1>10, CallsAssumption DEF Retry, TypeOK, LoopInv, Pkgs, Entries
  <1>11. ASSUME NEW f \in Paths, EntryFails(f) PROVE LoopInv'
    BY <1>11, Failing DEF TypeOK, LoopInv
  <1>12. ASSUME NEW f \in Paths, Keeps(f) \/ Writes(f) \/ Others(f) PROVE LoopInv'
    BY <1>12, Dealing DEF TypeOK, LoopInv
  <1>13. CASE UNCHANGED vars
    BY <1>13 DEF vars, LoopInv, Entries, Pkgs
  <1> QED
    BY <1>1, <1>2, <1>3, <1>4, <1>5, <1>6, <1>7, <1>8, <1>9, <1>10, <1>11, <1>12, <1>13,
       NextCases DEF Loops, Records

\* Recording a package changes the database alone.
LEMMA Recording ==
    ASSUME TypeOK, LoopInv, RecordPackage
    PROVE  /\ k \in Pkgs /\ k \in infos /\ todo = {} /\ phase = "record"
           /\ UNCHANGED <<given, fs, owner, phase, infos, todo, allFiles, call, err>>
           /\ recorded' = recorded \cup {k}
           /\ \A p \in Pkgs : idb'[p] = IF p = k THEN Kept ELSE idb[p]
           /\ \A p \in Pkgs : Entries(p)' = Entries(p)
           /\ \A p \in Pkgs, g \in Paths : Handled(p, g)' <=> Handled(p, g)
  BY DEF RecordPackage, TypeOK, LoopInv, Handled, Entries, given

\* A call starts with no package handled and no pointer of its own.
LEMMA Retrying ==
    ASSUME TypeOK, ListInv, Retry
    PROVE  /\ UNCHANGED <<given, fs, idb, recorded>>
           /\ \A p \in Pkgs : Entries(p)' = Entries(p)
           /\ \A p \in Pkgs, g \in Paths : ~Handled(p, g)'
           /\ \A p \in Pkgs : allFiles'[p] = {}
           /\ call' # 1 /\ err' = "none"
           /\ \A f \in Paths : owner'[f] \in {owner[f], NoOwner}
           /\ \A f \in Paths, p \in Pkgs : owner'[f] # <<p, call'>>
  <1> USE CallsAssumption
  <1>1. /\ UNCHANGED <<given, fs, idb, recorded>>
        /\ \A p \in Pkgs : Entries(p)' = Entries(p)
        /\ \A p \in Pkgs, g \in Paths : ~Handled(p, g)'
        /\ \A p \in Pkgs : allFiles'[p] = {}
        /\ call' = call + 1 /\ call \in Nat /\ call > 0 /\ err' = "none"
        /\ \A f \in Paths : owner'[f] \in {owner[f], NoOwner}
    BY DEF Retry, TypeOK, Handled, Entries, given
  <1>2. ASSUME NEW f \in Paths, NEW p \in Pkgs PROVE owner'[f] # <<p, call'>>
    <2>1. owner[f] # NoOwner => owner[f][2] <= call
      BY DEF ListInv
    <2>2. <<p, call + 1>> # NoOwner /\ <<p, call + 1>>[2] = call + 1
      BY <1>1 DEF NoOwner
    <2>3. CASE owner'[f] = NoOwner
      BY <1>1, <2>2, <2>3
    <2>4. CASE owner'[f] = owner[f] /\ owner[f] # NoOwner
      BY <1>1, <2>1, <2>2, <2>4, CallsAssumption DEF TypeOK, Pointers
    <2> QED
      BY <1>1, <2>3, <2>4
  <1> QED
    BY <1>1, <1>2

-----------------------------------------------------------------------------
(* Owners and lists. *)

\* What the lists and the map name has been handled, and stays so.
LEMMA ListStep == TypeOK /\ FilesInv /\ [Next]_vars => ListInv'
  <1> SUFFICES ASSUME TypeOK, FilesInv, [Next]_vars PROVE ListInv'
    OBVIOUS
  <1>0. LoopInv /\ ListInv
    BY DEF FilesInv
  <1>1. CASE Loops \/ Records \/ UNCHANGED vars
    BY <1>0, <1>1, Quiet DEF ListInv, Holder, Entries, TypeOK, given
  <1>2. CASE RecordPackage
    <2>1. \A f \in Kept : Handled(k, f)
      BY <1>0, <1>2, Recording DEF Kept, ListInv
    <2>2. \A f \in Kept : f \in Entries(k)
      BY <2>1 DEF Handled
    <2> QED
      BY <1>0, <1>2, <2>2, Recording DEF ListInv, Holder, Entries, TypeOK, given
  <1>3. CASE Retry
    <2>1. call' = call + 1 /\ call \in Nat
      BY <1>3, CallsAssumption DEF Retry, TypeOK
    <2>2. ASSUME NEW f \in Paths, owner'[f] # NoOwner
          PROVE  Kind[f] = "reg" /\ f \in Entries(owner[f][1]) /\ owner'[f] = owner[f]
                 /\ owner'[f][2] <= call'
      <3>1. owner'[f] = owner[f] /\ owner[f] \in Pointers
        BY <1>0, <1>3, <2>2, Retrying DEF TypeOK
      <3>2. owner[f][1] \in Pkgs /\ owner[f][2] \in Nat
        BY <3>1, CallsAssumption DEF Pointers
      <3>3. Kind[f] = "reg" /\ f \in Entries(owner[f][1]) /\ owner[f][2] <= call
        BY <1>0, <2>2, <3>1 DEF ListInv, Holder
      <3> QED
        BY <1>0, <1>3, <2>1, <3>1, <3>2, <3>3, Retrying
    <2> QED
      BY <1>0, <1>3, <2>2, Retrying DEF ListInv, Holder, Entries, TypeOK, given
  <1>4. ASSUME NEW f \in Paths, EntryFails(f) PROVE ListInv'
    BY <1>0, <1>4, Failing DEF ListInv, Holder, Entries, TypeOK, given
  <1>5. ASSUME NEW f \in Paths, Keeps(f) \/ Writes(f) \/ Others(f) PROVE ListInv'
    <2>1. k \in Pkgs /\ f \in Entries(k)
      BY <1>0, <1>5, Dealing, AtHand
    <2>2. \A g \in Paths : owner'[g] = owner[g] \/ (g = f /\ owner'[g] = <<k, call>>
                                                   /\ Kind[g] = "reg")
      BY <1>5 DEF TypeOK, Keeps, Writes, Others, KeepIdentical, KeepReplacing,
         WriteNew, Overwrite, MayOverwrite, Written, SkipSymlink, KeepDir, CreateOther, Entry
    <2>3. \A p \in Pkgs : allFiles'[p] \ {f} = allFiles[p] \ {f}
      BY <1>0, <1>5, Dealing DEF TypeOK, List
    <2>4. \A p \in Pkgs : f \in allFiles'[p] => f \in allFiles[p] \/ p = k
      BY <1>0, <1>5, Dealing DEF TypeOK, List
    <2>5. Kind[f] = "reg" => f \in allFiles'[k]
      BY <1>5, <2>1 DEF TypeOK, Keeps, Writes, Others, KeepIdentical, KeepReplacing,
         WriteNew, Overwrite, MayOverwrite, SkipSymlink, KeepDir, CreateOther, Entry, List
    <2>6. \A p \in Pkgs : f \in allFiles[p] => f \in allFiles'[p]
      BY <1>0, <1>5, Dealing DEF TypeOK, List
    <2> QED
      BY <1>0, <1>5, <2>1, <2>2, <2>3, <2>4, <2>5, <2>6, Dealing
      DEF ListInv, Holder, Entries, TypeOK, given
  <1> QED
    BY <1>1, <1>2, <1>3, <1>4, <1>5, NextCases

-----------------------------------------------------------------------------
(* What the steps on an entry do to the file and to its owner. *)

\* A regular file that is kept is the package's own, or that of one which
\* replaces the package.
LEMMA Keeping ==
    ASSUME TypeOK, LoopInv, NEW f \in Paths, Keeps(f)
    PROVE  /\ Kind[f] = "reg" /\ UNCHANGED <<fs, owner>>
           /\ fs[f] # Absent
           /\ \/ fs[f] = payload[k][f]
              \/ owner[f] # NoOwner /\ k \in replaces[Holder(f)]
           /\ allFiles'[k] = allFiles[k] \cup {f}
           /\ \A p \in Pkgs : p # k => allFiles'[p] = allFiles[p]
  <1>1. Entry(f, "reg")
    BY DEF Keeps, KeepIdentical, KeepReplacing
  <1>2. k \in Pkgs /\ payload[k][f] # Absent
    BY <1>1, AtHand DEF Entry
  <1> QED
    BY <1>1, <1>2 DEF Keeps, KeepIdentical, KeepReplacing, Entry, Differs, List, TypeOK

\* A regular file that is written was missing, or the package may overwrite it.
LEMMA Writing ==
    ASSUME TypeOK, LoopInv, NEW f \in Paths, Writes(f)
    PROVE  /\ Kind[f] = "reg"
           /\ fs[f] = Absent \/ MayOverwrite(f)
           /\ fs'[f] = payload[k][f] /\ \A g \in Paths : g # f => fs'[g] = fs[g]
           /\ owner'[f] = <<k, call>> /\ \A g \in Paths : g # f => owner'[g] = owner[g]
           /\ allFiles'[k] = allFiles[k] \cup {f}
           /\ \A p \in Pkgs : p # k => allFiles'[p] = allFiles[p]
  <1>1. Entry(f, "reg")
    BY DEF Writes, WriteNew, Overwrite, MayOverwrite
  <1>2. k \in Pkgs
    BY <1>1, AtHand DEF Entry
  <1> QED
    BY <1>1, <1>2 DEF Writes, WriteNew, Overwrite, Written, Entry, List, TypeOK

\* An entry of another kind is there, or it is created.
LEMMA Making ==
    ASSUME TypeOK, LoopInv, NEW f \in Paths, Others(f)
    PROVE  /\ Kind[f] # "reg" /\ UNCHANGED owner
           /\ \A g \in Paths : g # f => fs'[g] = fs[g]
           /\ fs'[f] # Absent
           /\ \/ fs' = fs /\ fs[f] # Absent /\ Kind[f] = "dir"
              \/ fs' = fs /\ Kind[f] = "sym" /\ allFiles' = allFiles
              \/ fs[f] = Absent /\ fs'[f] = payload[k][f] /\ f \in allFiles'[k]
           /\ allFiles'[k] \subseteq allFiles[k] \cup {f}
           /\ allFiles[k] \subseteq allFiles'[k]
           /\ \A p \in Pkgs : p # k => allFiles'[p] = allFiles[p]
  <1>1. phase = "files" /\ f \in todo /\ Kind[f] # "reg"
    BY DEF Others, SkipSymlink, KeepDir, CreateOther, Entry
  <1>2. k \in Pkgs /\ payload[k][f] # Absent
    BY <1>1, AtHand
  <1>3. CASE SkipSymlink(f)
    BY <1>1, <1>2, <1>3 DEF SkipSymlink, Entry, TypeOK
  <1>4. CASE KeepDir(f)
    BY <1>1, <1>2, <1>4 DEF KeepDir, Entry, List, TypeOK
  <1>5. CASE CreateOther(f)
    BY <1>1, <1>2, <1>5 DEF CreateOther, List, TypeOK
  <1> QED
    BY <1>3, <1>4, <1>5 DEF Others

\* No step touches a file of the base system.
LEMMA BaseStep == TypeOK /\ FilesInv /\ [Next]_vars =>
                     BaseInv' /\ base' = base /\ \A f \in base : fs'[f] = fs[f]
  <1> SUFFICES ASSUME TypeOK, FilesInv, [Next]_vars
               PROVE  BaseInv' /\ base' = base /\ \A f \in base : fs'[f] = fs[f]
    OBVIOUS
  <1>0. LoopInv /\ ListInv /\ BaseInv /\ base \subseteq Paths
    BY DEF FilesInv, TypeOK
  <1> SUFFICES /\ base' = base
               /\ \A g \in base : fs'[g] = fs[g] /\ owner'[g] = NoOwner
    BY <1>0 DEF BaseInv
  <1>1. CASE Loops \/ Records \/ UNCHANGED vars
    BY <1>0, <1>1, Quiet DEF BaseInv, given
  <1>2. CASE RecordPackage
    BY <1>0, <1>2, Recording DEF BaseInv, given
  <1>3. CASE Retry
    BY <1>0, <1>3, Retrying DEF BaseInv, given
  <1>4. ASSUME NEW f \in Paths, EntryFails(f)
        PROVE  base' = base /\ \A g \in base : fs'[g] = fs[g] /\ owner'[g] = NoOwner
    <2>1. f \in base => fs' = fs
      BY <1>0, <1>4, Failing DEF BaseInv, MayOverwrite
    <2>2. \A g \in Paths : g # f => fs'[g] = fs[g]
      BY <1>0, <1>4, Failing DEF TypeOK
    <2> QED
      BY <1>0, <1>4, <2>1, <2>2, Failing DEF BaseInv, given
  <1>5. ASSUME NEW f \in Paths, Keeps(f)
        PROVE  base' = base /\ \A g \in base : fs'[g] = fs[g] /\ owner'[g] = NoOwner
    BY <1>0, <1>5, Dealing, Keeping DEF BaseInv, given
  <1>6. ASSUME NEW f \in Paths, Writes(f)
        PROVE  base' = base /\ \A g \in base : fs'[g] = fs[g] /\ owner'[g] = NoOwner
    <2>1. f \notin base
      BY <1>0, <1>6, Writing DEF BaseInv, MayOverwrite
    <2> QED
      BY <1>0, <1>6, <2>1, Dealing, Writing DEF BaseInv, given
  <1>7. ASSUME NEW f \in Paths, Others(f)
        PROVE  base' = base /\ \A g \in base : fs'[g] = fs[g] /\ owner'[g] = NoOwner
    <2>1. f \in base => fs' = fs
      BY <1>0, <1>7, Making DEF BaseInv
    <2> QED
      BY <1>0, <1>7, <2>1, Dealing, Making DEF BaseInv, given
  <1> QED
    BY <1>1, <1>2, <1>3, <1>4, <1>5, <1>6, <1>7, NextCases

\* An owner's file is its own, and a file without an owner everybody's.
LEMMA OwnerStep == TypeOK /\ FilesInv /\ [Next]_vars => OwnerInv'
  <1> SUFFICES ASSUME TypeOK, FilesInv, [Next]_vars PROVE OwnerInv'
    OBVIOUS
  <1>0. LoopInv /\ ListInv /\ OwnerInv
    BY DEF FilesInv
  <1>1. CASE Loops \/ Records \/ UNCHANGED vars
    BY <1>0, <1>1, Quiet DEF OwnerInv, given, TypeOK
  <1>2. CASE RecordPackage
    BY <1>0, <1>2, Recording DEF OwnerInv, given, TypeOK
  <1>3. CASE Retry
    BY <1>0, <1>3, Retrying DEF OwnerInv
  <1>4. ASSUME NEW f \in Paths, EntryFails(f) PROVE OwnerInv'
    <2>1. \A g \in Paths : g # f => fs'[g] = fs[g]
      BY <1>0, <1>4, Failing DEF TypeOK
    <2>2. \A p \in Pkgs : f \in allFiles[p] /\ Kind[f] # "dir" /\ owner[f] = NoOwner
             => fs' = fs
      <3>1. \A p \in Pkgs : f \in allFiles[p] => payload[p][f] # Absent
        BY <1>0 DEF ListInv, Handled, Entries
      <3> QED
        BY <1>0, <1>4, <3>1, Failing DEF OwnerInv, MayOverwrite
    <2> QED
      BY <1>0, <1>4, <2>1, <2>2, Failing DEF OwnerInv, given, TypeOK
  <1>5. ASSUME NEW f \in Paths, Keeps(f) PROVE OwnerInv'
    <2>1. k \in Pkgs /\ phase = "files"
      BY <1>0, <1>5, Dealing, AtHand
    <2>2. \A p \in Pkgs : owner[f] = <<p, call>> =>
             payload[k][f] = payload[p][f] \/ k \in replaces[p]
      BY <1>0, <1>5, <2>1, Keeping DEF OwnerInv, Holder
    <2>3. owner[f] = NoOwner => fs[f] = payload[k][f]
      BY <1>0, <1>5, Keeping
    <2> QED
      BY <1>0, <1>5, <2>1, <2>2, <2>3, Keeping, Dealing DEF OwnerInv, given, TypeOK
  <1>6. ASSUME NEW f \in Paths, Writes(f) PROVE OwnerInv'
    <2>1. k \in Pkgs /\ phase = "files" /\ \A q \in infos : q <= k
      BY <1>0, <1>6, Dealing, AtHand DEF LoopInv
    <2>2. \A q \in Pkgs : k < q => ~Handled(q, f)'
      BY <1>0, <1>6, <2>1, Dealing, NAssumption DEF Handled, Pkgs
    <2>3. <<k, call>> # NoOwner
      BY <2>1, PointerType DEF TypeOK
    <2>4. owner'[f] = <<k, call>> /\ owner'[f] # NoOwner /\ call' = call
      BY <1>0, <1>6, <2>3, Writing, Dealing
    <2>5. \A p \in Pkgs : owner'[f] = <<p, call'>> => p = k
      BY <2>4
    <2>6. ASSUME NEW g \in Paths, NEW p \in Pkgs, owner'[g] = <<p, call'>>
          PROVE  /\ fs'[g] = payload'[p][g]
                 /\ \A q \in Pkgs : p < q /\ Handled(q, g)' =>
                       payload'[q][g] = payload'[p][g] \/ q \in replaces'[p]
      <3>1. CASE g = f
        BY <1>0, <1>6, <2>2, <2>5, <2>6, <3>1, Writing, Dealing DEF given
      <3>2. CASE g # f
        BY <1>0, <1>6, <2>1, <2>6, <3>2, Writing, Dealing DEF OwnerInv, given
      <3> QED
        BY <3>1, <3>2
    <2>7. ASSUME NEW p \in Pkgs, NEW g \in allFiles'[p], Kind[g] # "dir", owner'[g] = NoOwner
          PROVE  fs'[g] = payload'[p][g]
      <3>1. g # f /\ g \in allFiles[p]
        BY <1>0, <1>6, <2>1, <2>4, <2>7, Writing
      <3> QED
        BY <1>0, <1>6, <2>7, <3>1, Writing, Dealing DEF OwnerInv, given, TypeOK
    <2> QED
      BY <2>6, <2>7 DEF OwnerInv
  <1>7. ASSUME NEW f \in Paths, Others(f) PROVE OwnerInv'
    <2>1. k \in Pkgs /\ phase = "files"
      BY <1>0, <1>7, Dealing, AtHand
    <2>2. owner[f] = NoOwner
      BY <1>0, <1>7, Making DEF ListInv
    <2>3. \A p \in Pkgs : <<p, call>> # NoOwner
      BY PointerType DEF TypeOK
    <2>4. \A p \in Pkgs : f \in allFiles'[p] /\ Kind[f] # "dir" => fs'[f] = payload[p][f]
      <3>1. \A p \in Pkgs : f \in allFiles[p] => payload[p][f] # Absent
        BY <1>0 DEF ListInv, Handled, Entries
      <3> QED
        BY <1>0, <1>7, <2>1, <2>2, <3>1, Making DEF OwnerInv
    <2>5. ASSUME NEW g \in Paths, NEW p \in Pkgs, owner'[g] = <<p, call'>>
          PROVE  /\ fs'[g] = payload'[p][g]
                 /\ \A q \in Pkgs : p < q /\ Handled(q, g)' =>
                       payload'[q][g] = payload'[p][g] \/ q \in replaces'[p]
      <3>1. g # f
        BY <1>0, <1>7, <2>2, <2>3, <2>5, Making, Dealing
      <3> QED
        BY <1>0, <1>7, <2>1, <2>5, <3>1, Making, Dealing DEF OwnerInv, given
    <2>6. ASSUME NEW p \in Pkgs, NEW g \in allFiles'[p], Kind[g] # "dir", owner'[g] = NoOwner
          PROVE  fs'[g] = payload'[p][g]
      <3>1. CASE g = f
        BY <1>0, <1>7, <2>4, <2>6, <3>1, Dealing DEF given
      <3>2. CASE g # f
        <4>1. g \in allFiles[p] /\ g \in Paths
          BY <1>0, <1>7, <2>1, <2>6, <3>2, Making DEF TypeOK
        <4> QED
          BY <1>0, <1>7, <2>6, <3>2, <4>1, Making, Dealing DEF OwnerInv, given
      <3> QED
        BY <3>1, <3>2
    <2> QED
      BY <2>5, <2>6 DEF OwnerInv
  <1> QED
    BY <1>1, <1>2, <1>3, <1>4, <1>5, <1>6, <1>7, NextCases

\* A path that a record lists is never written again.
LEMMA RecordedStays ==
    ASSUME TypeOK, FilesInv, NEW f \in Paths, phase = "files", f \in todo,
           NEW p \in Pkgs, f \in idb[p]
    PROVE  fs[f] # Absent /\ ~MayOverwrite(f)
  <1>1. k \in Pkgs /\ k \notin recorded /\ f \in Entries(k)
    BY AtHand DEF FilesInv
  <1>2. payload[p][f] # Absent /\ fs[f] = payload[p][f]
    BY DEF FilesInv, ListInv, RecordInv, Entries
  <1>3. owner[f] = NoOwner \/ payload[k][f] = fs[f] \/ k \in replaces[Holder(f)]
    BY <1>1 DEF FilesInv, RecordInv
  <1> QED
    BY <1>2, <1>3 DEF MayOverwrite, Differs

\* What is listed stays as it is listed.
LEMMA RecordStep == TypeOK /\ FilesInv /\ [Next]_vars => RecordInv'
  <1> SUFFICES ASSUME TypeOK, FilesInv, [Next]_vars PROVE RecordInv'
    OBVIOUS
  <1>0. LoopInv /\ ListInv /\ OwnerInv /\ RecordInv
    BY DEF FilesInv
  <1>1. CASE Loops \/ Records \/ UNCHANGED vars
    BY <1>0, <1>1, Quiet DEF RecordInv, given, Holder, TypeOK
  <1>2. CASE RecordPackage
    <2>1. ASSUME NEW p \in Pkgs, p # k, NEW f \in idb'[p]
          PROVE  /\ fs'[f] = payload'[p][f]
                 /\ \/ owner'[f] = NoOwner
                    \/ \A q \in Pkgs \ recorded' : f \in Entries(q)' =>
                          payload'[q][f] = fs'[f] \/ q \in replaces'[Holder(f)']
      BY <1>0, <1>2, <2>1, Recording DEF RecordInv, given, Holder, TypeOK
    <2>2. ASSUME NEW f \in Kept
          PROVE  /\ fs[f] = payload[k][f]
                 /\ \/ owner[f] = NoOwner
                    \/ \A q \in Pkgs \ recorded' : f \in Entries(q) =>
                          payload[q][f] = fs[f] \/ q \in replaces[Holder(f)]
      <3>1. k \in Pkgs /\ f \in Paths /\ f \in allFiles[k] /\ Kind[f] # "dir"
        BY <1>0, <1>2, Recording DEF Kept, TypeOK
      <3>2. CASE owner[f] = NoOwner
        BY <1>0, <3>1, <3>2 DEF OwnerInv
      <3>3. CASE owner[f] = <<k, call>>
        <4>1. fs[f] = payload[k][f] /\ Holder(f) = k
          BY <1>0, <1>2, <3>1, <3>3, Recording DEF OwnerInv, Holder
        <4>2. ASSUME NEW q \in Pkgs \ recorded', f \in Entries(q)
              PROVE  payload[q][f] = fs[f] \/ q \in replaces[k]
          <5>1. q \notin recorded /\ q # k
            BY <1>0, <1>2, <4>2, Recording
          <5>2. q \in infos /\ ~(q < k)
            BY <1>0, <1>2, <5>1, Recording DEF LoopInv
          <5>3. k < q
            BY <3>1, <5>1, <5>2, NAssumption DEF Pkgs
          <5>4. Handled(q, f)
            BY <1>0, <1>2, <4>2, <5>2, Recording DEF Handled
          <5> QED
            BY <1>0, <3>1, <3>3, <4>1, <5>3, <5>4 DEF OwnerInv
        <4> QED
          BY <4>1, <4>2
      <3> QED
        BY <3>2, <3>3 DEF Kept
    <2>3. idb'[k] = Kept
      BY <1>0, <1>2, Recording
    <2> QED
      BY <1>0, <1>2, <2>1, <2>2, <2>3, Recording DEF RecordInv, given, Holder
  <1>3. CASE Retry
    BY <1>0, <1>3, Retrying DEF RecordInv, given, Holder, TypeOK
  <1>4. ASSUME NEW f \in Paths, EntryFails(f) PROVE RecordInv'
    <2>1. \A p \in Pkgs : f \in idb[p] => fs' = fs
      BY <1>0, <1>4, Failing, RecordedStays
    <2>2. \A g \in Paths : g # f => fs'[g] = fs[g]
      BY <1>0, <1>4, Failing DEF TypeOK
    <2> QED
      BY <1>0, <1>4, <2>1, <2>2, Failing DEF RecordInv, given, Holder, TypeOK
  <1>5. ASSUME NEW f \in Paths, Keeps(f) PROVE RecordInv'
    BY <1>0, <1>5, Keeping, Dealing DEF RecordInv, given, Holder, TypeOK
  <1>6. ASSUME NEW f \in Paths, Writes(f) PROVE RecordInv'
    <2>1. \A p \in Pkgs : f \notin idb[p]
      BY <1>0, <1>6, Writing, Dealing, RecordedStays
    <2> QED
      BY <1>0, <1>6, <2>1, Writing, Dealing DEF RecordInv, given, Holder, TypeOK
  <1>7. ASSUME NEW f \in Paths, Others(f) PROVE RecordInv'
    <2>1. \A p \in Pkgs : f \in idb[p] => fs' = fs
      BY <1>0, <1>7, Making, Dealing, RecordedStays
    <2> QED
      BY <1>0, <1>7, <2>1, Making, Dealing DEF RecordInv, given, Holder, TypeOK
  <1> QED
    BY <1>1, <1>2, <1>3, <1>4, <1>5, <1>6, <1>7, NextCases

-----------------------------------------------------------------------------
(* Two packages that ship the same path. *)

\* p replaces q, not the other way round, and no third package ships f.
Replacing(p, q, f) ==
    /\ f \in Entries(p) /\ f \in Entries(q)
    /\ Kind[f] = "reg"
    /\ q \in replaces[p]
    /\ p \notin replaces[q]
    /\ OnlyIn(f, p, q)

\* p comes before q, and neither may overwrite the other's f.
Conflicting(p, q, f) ==
    /\ f \in Entries(p) /\ f \in Entries(q)
    /\ Kind[f] = "reg"
    /\ p < q
    /\ OnlyIn(f, p, q)
    /\ payload[p][f] # payload[q][f]
    /\ origin[p] # origin[q]
    /\ p \notin replaces[q]
    /\ q \notin replaces[p]

\* The packages do not change.
LEMMA GivenStays ==
    ASSUME UNCHANGED given, NEW p \in Pkgs, NEW q \in Pkgs, NEW f \in Paths
    PROVE  /\ Replacing(p, q, f)' <=> Replacing(p, q, f)
           /\ Conflicting(p, q, f)' <=> Conflicting(p, q, f)
  BY DEF given, Replacing, Conflicting, OnlyIn, Entries

\* Only dealing with an entry settles a path.
LEMMA SettledStays ==
    ASSUME TypeOK, FilesInv,
           \/ Loops \/ Records \/ UNCHANGED vars \/ RecordPackage \/ Retry
           \/ \E f \in Paths : EntryFails(f),
           NEW p \in Pkgs, NEW g \in Paths, g \in Entries(p), Settled(p, g)'
    PROVE  Settled(p, g)
  <1>0. LoopInv /\ ListInv
    BY DEF FilesInv
  <1>1. CASE Loops \/ Records \/ UNCHANGED vars
    BY <1>0, <1>1, Quiet DEF Settled
  <1>2. CASE RecordPackage
    <2>1. Handled(k, g) \/ p # k
      BY <1>0, <1>2, Recording DEF Handled
    <2> QED
      BY <1>0, <1>2, <2>1, Recording DEF Settled
  <1>3. CASE Retry
    BY <1>0, <1>3, Retrying DEF Settled
  <1>4. CASE \E f \in Paths : EntryFails(f)
    BY <1>0, <1>4, Failing DEF Settled
  <1> QED
    BY <1>1, <1>2, <1>3, <1>4

\* While files are installed every package before the one at hand is settled.
LEMMA EarlierSettled ==
    ASSUME TypeOK, FilesInv, phase = "files", NEW p \in Pkgs, p < k,
           NEW f \in Entries(p)
    PROVE  Settled(p, f)
  BY NAssumption DEF FilesInv, LoopInv, TypeOK, Settled, Handled, Pkgs

\* A later package is not.
LEMMA LaterUnsettled ==
    ASSUME TypeOK, FilesInv, phase = "files", NEW p \in Pkgs, k < p, NEW f \in Paths
    PROVE  ~Settled(p, f)
  <1>1. k \in Pkgs /\ k \in infos /\ k \notin recorded /\ \A q \in infos : q <= k
    BY DEF FilesInv, LoopInv, TypeOK
  <1>2. p \notin infos
    BY <1>1, NAssumption DEF Pkgs
  <1>3. p \notin recorded
    BY <1>1 DEF FilesInv, LoopInv
  <1> QED
    BY <1>2, <1>3 DEF Settled, Handled

\* Who owns a path ships it.
LEMMA HolderShips ==
    ASSUME TypeOK, FilesInv, NEW f \in Paths, owner[f] # NoOwner
    PROVE  Holder(f) \in Pkgs /\ f \in Entries(Holder(f))
  BY DEF FilesInv, ListInv, Holder, TypeOK, Pointers

\* The file of the package that replaces is not overwritten.
LEMMA ReplacerStays ==
    ASSUME TypeOK, FilesInv, NEW f \in Paths, phase = "files", f \in todo,
           NEW p \in Pkgs, NEW q \in Pkgs, Replacing(p, q, f), Settled(p, f)
    PROVE  fs[f] # Absent /\ ~MayOverwrite(f)
  <1>1. k \in Pkgs /\ f \in Entries(k)
    BY AtHand DEF FilesInv
  <1>2. fs[f] = payload[p][f] /\ payload[p][f] # Absent
    BY DEF FilesInv, ReplaceInv, Replacing, Entries
  <1>3. SUFFICES ASSUME MayOverwrite(f) PROVE FALSE
    BY <1>2
  <1>4. k \in {p, q} /\ k # p
    BY <1>1, <1>2, <1>3 DEF Replacing, OnlyIn, MayOverwrite, Differs
  <1>5. owner[f] # NoOwner /\ Holder(f) \in {p, q} /\ Holder(f) # p
    BY <1>3, <1>4, HolderShips DEF Replacing, OnlyIn, MayOverwrite
  <1>6. ~(p < q)
    BY <1>5 DEF FilesInv, ReplaceInv, Replacing
  <1>7. ~(q < p)
    BY <1>4, LaterUnsettled
  <1> QED
    BY <1>4, <1>6, <1>7, NAssumption DEF Pkgs

\* The file of the package that replaces the other stays.
LEMMA ReplaceStep == TypeOK /\ FilesInv /\ [Next]_vars => ReplaceInv'
  <1> SUFFICES ASSUME TypeOK, FilesInv, [Next]_vars,
                      NEW p \in Pkgs, NEW q \in Pkgs, NEW f \in Paths, Replacing(p, q, f)'
               PROVE  /\ Settled(p, f)' => fs'[f] = payload'[p][f]
                      /\ p < q => owner'[f] = NoOwner \/ Holder(f)' = p
    BY DEF ReplaceInv, Replacing, Entries
  <1>0. LoopInv /\ ListInv
    BY DEF FilesInv
  <1>a. Replacing(p, q, f) =>
           /\ f \in Entries(p) /\ f \in Entries(q)
           /\ Settled(p, f) => fs[f] = payload[p][f]
           /\ p < q => owner[f] = NoOwner \/ Holder(f) = p
    BY DEF FilesInv, ReplaceInv, Replacing
  <1>1. CASE Loops \/ Records \/ UNCHANGED vars
    BY <1>0, <1>1, <1>a, Quiet, GivenStays, SettledStays DEF Holder, given
  <1>2. CASE RecordPackage
    BY <1>0, <1>2, <1>a, Recording, GivenStays, SettledStays DEF Holder, given
  <1>3. CASE Retry
    BY <1>0, <1>3, <1>a, Retrying, GivenStays, SettledStays DEF Holder, given
  <1>4. ASSUME NEW g \in Paths, EntryFails(g)
        PROVE  /\ Settled(p, f)' => fs'[f] = payload'[p][f]
               /\ p < q => owner'[f] = NoOwner \/ Holder(f)' = p
    <2>1. Replacing(p, q, f)
      BY <1>0, <1>4, Failing, GivenStays
    <2>2. g = f /\ Settled(p, f) => fs' = fs
      BY <1>0, <1>4, <2>1, Failing, ReplacerStays
    <2>3. g # f => fs'[f] = fs[f]
      BY <1>0, <1>4, Failing DEF TypeOK
    <2>4. Settled(p, f)' => Settled(p, f)
      BY <1>4, <1>a, <2>1, SettledStays
    <2> QED
      BY <1>0, <1>4, <1>a, <2>1, <2>2, <2>3, <2>4, Failing DEF Holder, given
  <1>5. ASSUME NEW g \in Paths, Keeps(g) \/ Writes(g) \/ Others(g)
        PROVE  /\ Settled(p, f)' => fs'[f] = payload'[p][f]
               /\ p < q => owner'[f] = NoOwner \/ Holder(f)' = p
    <2>1. Replacing(p, q, f) /\ k \in Pkgs /\ f \in Entries(p) /\ f \in Entries(q)
          /\ phase = "files" /\ g \in todo /\ g \in Entries(k) /\ UNCHANGED given
      BY <1>0, <1>5, <1>a, Dealing, AtHand, GivenStays
    <2>2. Settled(p, f)' <=> Settled(p, f) \/ (p = k /\ f = g)
      BY <1>0, <1>5, <2>1, Dealing DEF Settled
    <2>3. CASE g # f
      <3>1. fs'[f] = fs[f] /\ owner'[f] = owner[f]
        BY <1>0, <1>5, <2>3, Keeping, Writing, Making
      <3> QED
        BY <1>a, <2>1, <2>2, <2>3, <3>1 DEF Holder, given
    <2>4. CASE g = f
      <3>1. k \in {p, q} /\ Kind[g] = "reg"
        BY <2>1, <2>4 DEF Replacing, OnlyIn
      <3>2. CASE Keeps(g)
        <4>1. owner[f] # NoOwner => Holder(f) \in {p, q}
          BY <2>1, HolderShips DEF Replacing, OnlyIn
        <4>2. p = k => fs[f] = payload[p][f]
          <5>1. p \notin replaces[p] /\ p \notin replaces[q]
            BY <1>0, <2>1 DEF LoopInv, Replacing
          <5> QED
            BY <1>0, <2>4, <3>2, <4>1, <5>1, Keeping
        <4> QED
          BY <1>0, <1>a, <2>1, <2>2, <2>4, <3>2, <4>2, Keeping DEF Holder, given
      <3>3. CASE Writes(g)
        <4>1. ~Settled(p, f)
          BY <1>0, <2>1, <2>4, <3>3, Writing, ReplacerStays
        <4>2. p < q => k = p
          BY <2>1, <3>1, <4>1, EarlierSettled
        <4>3. owner'[f] = <<k, call>> /\ fs'[f] = payload[k][f]
          BY <1>0, <2>4, <3>3, Writing
        <4> QED
          BY <2>1, <2>2, <4>1, <4>2, <4>3 DEF Holder, given
      <3> QED
        BY <1>0, <1>5, <3>1, <3>2, <3>3, Making
    <2> QED
      BY <2>3, <2>4
  <1> QED
    BY <1>1, <1>2, <1>3, <1>4, <1>5, NextCases

\* The file of the first of two packages in conflict is not overwritten.
LEMMA ConflictStays ==
    ASSUME TypeOK, FilesInv, NEW f \in Paths, phase = "files", f \in todo,
           NEW p \in Pkgs, NEW q \in Pkgs, Conflicting(p, q, f), Settled(p, f)
    PROVE  fs[f] # Absent /\ ~MayOverwrite(f)
  <1>1. k \in Pkgs /\ f \in Entries(k)
    BY AtHand DEF FilesInv
  <1>2. fs[f] = payload[p][f] /\ payload[p][f] # Absent
    BY DEF FilesInv, ConflictInv, Conflicting, Entries
  <1>3. SUFFICES ASSUME MayOverwrite(f) PROVE FALSE
    BY <1>2
  <1>4. k = q
    BY <1>1, <1>2, <1>3 DEF Conflicting, OnlyIn, MayOverwrite, Differs
  <1>5. Holder(f) = p
    BY <1>3 DEF FilesInv, ConflictInv, Conflicting, MayOverwrite
  <1> QED
    BY <1>3, <1>4, <1>5 DEF Conflicting, MayOverwrite

\* The second of two packages in conflict never gets past the path.
LEMMA ConflictStep == TypeOK /\ FilesInv /\ [Next]_vars => ConflictInv'
  <1> SUFFICES ASSUME TypeOK, FilesInv, [Next]_vars,
                      NEW p \in Pkgs, NEW q \in Pkgs, NEW f \in Paths, Conflicting(p, q, f)'
               PROVE  /\ Settled(p, f)' => fs'[f] = payload'[p][f]
                      /\ owner'[f] = NoOwner \/ Holder(f)' = p
                      /\ ~Settled(q, f)'
    BY DEF ConflictInv, Conflicting, Entries
  <1>0. LoopInv /\ ListInv
    BY DEF FilesInv
  <1>a. Conflicting(p, q, f) =>
           /\ f \in Entries(p) /\ f \in Entries(q)
           /\ Settled(p, f) => fs[f] = payload[p][f]
           /\ owner[f] = NoOwner \/ Holder(f) = p
           /\ ~Settled(q, f)
    BY DEF FilesInv, ConflictInv, Conflicting
  <1>1. CASE Loops \/ Records \/ UNCHANGED vars
    BY <1>0, <1>1, <1>a, Quiet, GivenStays, SettledStays DEF Holder, given
  <1>2. CASE RecordPackage
    BY <1>0, <1>2, <1>a, Recording, GivenStays, SettledStays DEF Holder, given
  <1>3. CASE Retry
    BY <1>0, <1>3, <1>a, Retrying, GivenStays, SettledStays DEF Holder, given
  <1>4. ASSUME NEW g \in Paths, EntryFails(g)
        PROVE  /\ Settled(p, f)' => fs'[f] = payload'[p][f]
               /\ owner'[f] = NoOwner \/ Holder(f)' = p
               /\ ~Settled(q, f)'
    <2>1. Conflicting(p, q, f)
      BY <1>0, <1>4, Failing, GivenStays
    <2>2. g = f /\ Settled(p, f) => fs' = fs
      BY <1>0, <1>4, <2>1, Failing, ConflictStays
    <2>3. g # f => fs'[f] = fs[f]
      BY <1>0, <1>4, Failing DEF TypeOK
    <2>4. (Settled(p, f)' => Settled(p, f)) /\ (Settled(q, f)' => Settled(q, f))
      BY <1>4, <1>a, <2>1, SettledStays
    <2> QED
      BY <1>0, <1>4, <1>a, <2>1, <2>2, <2>3, <2>4, Failing DEF Holder, given
  <1>5. ASSUME NEW g \in Paths, Keeps(g) \/ Writes(g) \/ Others(g)
        PROVE  /\ Settled(p, f)' => fs'[f] = payload'[p][f]
               /\ owner'[f] = NoOwner \/ Holder(f)' = p
               /\ ~Settled(q, f)'
    <2>1. Conflicting(p, q, f) /\ k \in Pkgs /\ f \in Entries(p) /\ f \in Entries(q)
          /\ phase = "files" /\ g \in todo /\ g \in Entries(k) /\ UNCHANGED given
      BY <1>0, <1>5, <1>a, Dealing, AtHand, GivenStays
    <2>2. /\ Settled(p, f)' <=> Settled(p, f) \/ (p = k /\ f = g)
          /\ Settled(q, f)' <=> Settled(q, f) \/ (q = k /\ f = g)
      BY <1>0, <1>5, <2>1, Dealing DEF Settled
    <2>3. CASE g # f
      <3>1. fs'[f] = fs[f] /\ owner'[f] = owner[f]
        BY <1>0, <1>5, <2>3, Keeping, Writing, Making
      <3> QED
        BY <1>a, <2>1, <2>2, <2>3, <3>1 DEF Holder, given
    <2>4. CASE g = f
      <3>1. k \in {p, q} /\ Kind[g] = "reg"
        BY <2>1, <2>4 DEF Conflicting, OnlyIn
      <3>2. k = q => Settled(p, f)
        BY <2>1, EarlierSettled DEF Conflicting
      <3>3. CASE Keeps(g)
        <4>1. k # q
          BY <1>0, <1>a, <2>1, <2>4, <3>2, <3>3, Keeping DEF Conflicting
        <4>2. fs[f] = payload[p][f]
          BY <1>0, <1>a, <2>1, <2>4, <3>1, <3>3, <4>1, Keeping DEF LoopInv
        <4> QED
          BY <1>0, <1>a, <2>1, <2>2, <2>4, <3>3, <4>1, <4>2, Keeping DEF Holder, given
      <3>4. CASE Writes(g)
        <4>1. ~Settled(p, f)
          BY <1>0, <2>1, <2>4, <3>4, Writing, ConflictStays
        <4>2. k = p /\ k # q
          BY <3>1, <3>2, <4>1
        <4>3. owner'[f] = <<k, call>> /\ fs'[f] = payload[k][f]
          BY <1>0, <2>4, <3>4, Writing
        <4> QED
          BY <1>a, <2>1, <2>2, <4>1, <4>2, <4>3 DEF Holder, given
      <3> QED
        BY <1>0, <1>5, <3>1, <3>3, <3>4, Making
    <2> QED
      BY <2>3, <2>4
  <1> QED
    BY <1>1, <1>2, <1>3, <1>4, <1>5, NextCases

-----------------------------------------------------------------------------
(* The first call. *)

\* In the first call every file gets an owner or a list.
LEMMA FirstCallStep == TypeOK /\ FilesInv /\ [Next]_vars => FirstCallInv'
  <1> SUFFICES ASSUME TypeOK, FilesInv, [Next]_vars, call' = 1 PROVE FirstCallInv'
    BY DEF FirstCallInv
  <1>0. LoopInv /\ ListInv /\ BaseInv /\ FirstCallInv
    BY DEF FilesInv
  <1>1. CASE Loops \/ Records \/ UNCHANGED vars
    BY <1>0, <1>1, Quiet DEF FirstCallInv, given, TypeOK
  <1>2. CASE RecordPackage
    <2>1. call = 1 /\ UNCHANGED <<fs, owner, phase, allFiles, base, err, call>>
      BY <1>0, <1>2, Recording DEF given
    <2>2. \A p \in Pkgs, g \in Paths : Handled(p, g)' <=> Handled(p, g)
      BY <1>0, <1>2, Recording
    <2>3. ASSUME NEW p \in recorded'
          PROVE  idb'[p] = {f \in allFiles[p] :
                               Kind[f] # "dir" /\ owner[f] \in {NoOwner, <<p, call>>}}
      <3>1. CASE p = k
        BY <1>0, <1>2, <3>1, Recording DEF Kept
      <3>2. CASE p # k
        <4>1. p \in recorded /\ p \in Pkgs /\ idb'[p] = idb[p]
          BY <1>0, <1>2, <2>3, <3>2, Recording DEF TypeOK
        <4> QED
          BY <1>0, <2>1, <4>1 DEF FirstCallInv
      <3> QED
        BY <3>1, <3>2
    <2> QED
      BY <1>0, <2>1, <2>2, <2>3 DEF FirstCallInv, TypeOK
  <1>3. CASE Retry
    BY <1>0, <1>3, Retrying
  <1>4. ASSUME NEW f \in Paths, EntryFails(f) PROVE FirstCallInv'
    <2>1. call = 1 /\ phase = "files"
      BY <1>0, <1>4, Failing
    <2>2. \A g \in Paths : Kind[g] # "reg" => fs'[g] = fs[g]
      BY <1>0, <1>4, Failing DEF TypeOK
    <2>3. err' = "foreign" => base # {}
      BY <1>0, <1>4, <2>1, Failing DEF FirstCallInv
    <2> QED
      BY <1>0, <1>4, <2>1, <2>2, <2>3, Failing DEF FirstCallInv, given, TypeOK
  <1>5. ASSUME NEW f \in Paths, Keeps(f) \/ Writes(f) \/ Others(f) PROVE FirstCallInv'
    <2>1. call = 1 /\ phase = "files" /\ k \in Pkgs /\ payload[k][f] # Absent
          /\ recorded' = {} /\ base' = base /\ UNCHANGED <<err, call, phase>>
      BY <1>0, <1>5, Dealing, AtHand DEF LoopInv, given
    <2>2. \A g \in Paths : g # f => fs'[g] = fs[g] /\ owner'[g] = owner[g]
      BY <1>0, <1>5, Keeping, Writing, Making
    <2>3. \A p \in Pkgs, g \in Paths : g # f => (g \in allFiles'[p] <=> g \in allFiles[p])
      BY <1>0, <1>5, Dealing DEF TypeOK, List
    <2>4. fs'[f] # Absent
      BY <1>0, <1>5, <2>1, Keeping, Writing, Making
    <2>5. Kind[f] = "reg" /\ f \notin base => owner'[f] # NoOwner
      <3>1. <<k, call>> # NoOwner
        BY <2>1, PointerType DEF TypeOK
      <3>2. CASE Writes(f)
        BY <1>0, <3>1, <3>2, Writing
      <3>3. CASE Keeps(f)
        BY <1>0, <2>1, <3>3, Keeping DEF FirstCallInv
      <3> QED
        BY <1>0, <1>5, <3>2, <3>3, Making
    <2>6. Kind[f] \in {"sym", "link"} /\ f \notin base =>
             /\ \A p, q \in Pkgs : f \in allFiles'[p] /\ f \in allFiles'[q] => p = q
             /\ \E p \in Pkgs : f \in allFiles'[p]
      <3>1. SUFFICES ASSUME Kind[f] \in {"sym", "link"}, f \notin base
                     PROVE  /\ \A p, q \in Pkgs : f \in allFiles'[p] /\ f \in allFiles'[q] => p = q
                            /\ \E p \in Pkgs : f \in allFiles'[p]
        OBVIOUS
      <3>2. Others(f)
        BY <1>0, <1>5, <3>1, Keeping, Writing
      <3>3. CASE fs[f] = Absent
        <4>1. \A p \in Pkgs : f \notin allFiles[p]
          BY <1>0, <2>1, <3>1, <3>3 DEF FirstCallInv
        <4> QED
          BY <1>0, <2>1, <2>4, <3>2, <3>3, <4>1, Making
      <3>4. CASE fs[f] # Absent
        <4>1. allFiles' = allFiles
          BY <1>0, <3>1, <3>2, <3>4, Making
        <4> QED
          BY <1>0, <2>1, <3>1, <3>4, <4>1 DEF FirstCallInv
      <3> QED
        BY <3>3, <3>4
    <2>7. Kind[f] = "link" => f \notin base
      BY <1>0, <1>5, Keeping, Writing, Making DEF BaseInv
    <2>8. \A p \in Pkgs, g \in Paths : Handled(p, g)' <=> Handled(p, g) \/ (p = k /\ g = f)
      BY <1>0, <1>5, Dealing
    <2>9. /\ \A g \in Paths : phase' # "failed" /\ Kind[g] = "reg" /\ g \notin base'
                /\ fs'[g] # Absent => owner'[g] # NoOwner
          /\ \A g \in Paths, q \in Pkgs : Handled(q, g)' => fs'[g] # Absent
      BY <1>0, <2>1, <2>2, <2>4, <2>5, <2>8 DEF FirstCallInv
    <2>10. \A g \in Paths : Kind[g] \in {"sym", "link"} /\ g \notin base' =>
              /\ \A p, q \in Pkgs : g \in allFiles'[p] /\ g \in allFiles'[q] => p = q
              /\ fs'[g] # Absent => \E p \in Pkgs : g \in allFiles'[p]
              /\ \A p \in Pkgs : g \in allFiles'[p] => fs'[g] # Absent
      BY <1>0, <2>1, <2>2, <2>3, <2>4, <2>6 DEF FirstCallInv
    <2>11. \A g \in base' : Kind[g] = "link" => \A q \in Pkgs : ~Handled(q, g)'
      BY <1>0, <2>1, <2>7, <2>8 DEF FirstCallInv, TypeOK
    <2>12. err' = "foreign" => base' # {}
      BY <1>0, <2>1 DEF FirstCallInv
    <2> QED
      BY <2>1, <2>9, <2>10, <2>11, <2>12 DEF FirstCallInv
  <1> QED
    BY <1>1, <1>2, <1>3, <1>4, <1>5, NextCases

-----------------------------------------------------------------------------
(* The theorems. *)

\* FilesInv, the types included, holds in every reachable state.
THEOREM FilesInvariance == Spec => []FilesInv
  <1>1. Init => FilesInv
    BY FilesInit
  <1>2. FilesInv /\ [Next]_vars => FilesInv'
    <2> SUFFICES ASSUME FilesInv, [Next]_vars PROVE FilesInv'
      OBVIOUS
    <2>0. TypeOK
      BY DEF FilesInv
    <2>1. TypeOK' /\ LoopInv'
      BY <2>0, TypeStep, LoopStep DEF FilesInv
    <2>2. ListInv' /\ BaseInv' /\ OwnerInv' /\ RecordInv'
      BY <2>0, ListStep, BaseStep, OwnerStep, RecordStep
    <2>3. ReplaceInv' /\ ConflictInv' /\ FirstCallInv'
      BY <2>0, ReplaceStep, ConflictStep, FirstCallStep
    <2> QED
      BY <2>1, <2>2, <2>3 DEF FilesInv
  <1> QED
    BY <1>1, <1>2, PTL DEF Spec

\* a.installedFiles, the lists and the database name packages and paths only.
THEOREM TypeCorrect == Spec => []TypeOK
  <1>1. FilesInv => TypeOK
    BY DEF FilesInv
  <1> QED
    BY <1>1, FilesInvariance, PTL

\* Whatever fails, is retried or overwritten, the checksum in the database is
\* that of the file that is there.
THEOREM ListedFilesMatch == Spec => []ListedMatches
  <1>1. FilesInv => ListedMatches
    BY DEF FilesInv, RecordInv, ListedMatches
  <1> QED
    BY <1>1, FilesInvariance, TypeCorrect, PTL

\* replaces decides, whichever package comes first in the list.
THEOREM ReplacerWins == Spec => []ReplacesWins
  <1>1. TypeOK /\ FilesInv => ReplacesWins
    BY DEF FilesInv, LoopInv, ReplaceInv, ReplacesWins, Settled, TypeOK
  <1> QED
    BY <1>1, FilesInvariance, TypeCorrect, PTL

\* A conflict between two packages is an error, however often the call is retried.
THEOREM ConflictsAreErrors == Spec => []ConflictReported
  <1>1. TypeOK /\ FilesInv => ConflictReported
    <2> SUFFICES ASSUME TypeOK, FilesInv, phase = "ok", NEW p \in Pkgs, NEW q \in Pkgs,
                        NEW f \in Entries(p) \cap Entries(q),
                        Kind[f] = "reg", p # q, OnlyIn(f, p, q),
                        payload[p][f] # payload[q][f]
                 PROVE  origin[p] = origin[q] \/ p \in replaces[q] \/ q \in replaces[p]
      BY DEF ConflictReported
    <2>1. Settled(p, f) /\ Settled(q, f)
      BY DEF FilesInv, LoopInv, Settled
    <2>2. OnlyIn(f, q, p)
      BY DEF OnlyIn
    <2>3. p < q \/ q < p
      BY NAssumption DEF Pkgs
    <2> QED
      BY <2>1, <2>2, <2>3 DEF FilesInv, ConflictInv
  <1> QED
    BY <1>1, FilesInvariance, TypeCorrect, PTL

\* "This should never happen" does not, in a first call on an empty filesystem.
THEOREM NoForeignFile == Spec => []NeverForeign
  <1>1. FilesInv => NeverForeign
    BY DEF FilesInv, FirstCallInv, NeverForeign
  <1> QED
    BY <1>1, FilesInvariance, TypeCorrect, PTL

\* No step of any call changes or removes a file of the base system.
THEOREM BaseIsUntouched == Spec => BaseUntouched
  <1>1. TypeOK /\ FilesInv /\ [Next]_vars => [\A f \in base : fs'[f] = fs[f]]_vars
    BY BaseStep
  <1> QED
    BY <1>1, FilesInvariance, TypeCorrect, PTL DEF Spec, BaseUntouched

\* After a first call that succeeds every file is listed, and by one package.
THEOREM EveryFileListedOnce == Spec => []ListedExactlyOnce
  <1>1. TypeOK /\ FilesInv => ListedExactlyOnce
    <2> SUFFICES ASSUME TypeOK, FilesInv, call = 1, phase = "ok",
                        NEW p \in Pkgs, NEW f \in Entries(p), Kind[f] # "dir"
                 PROVE  LET listing == {q \in Pkgs : f \in idb[q]}
                        IN  /\ f \notin base \/ Kind[f] # "sym" => listing # {}
                            /\ f \notin base => \E q \in Pkgs : listing = {q}
      BY DEF ListedExactlyOnce
    <2> DEFINE listing == {q \in Pkgs : f \in idb[q]}
    <2>0. LoopInv /\ ListInv /\ BaseInv /\ FirstCallInv /\ f \in Paths
      BY DEF FilesInv, Entries
    <2>1. recorded = Pkgs /\ infos = Pkgs /\ todo = {}
      BY <2>0 DEF LoopInv, TypeOK
    <2>2. Handled(p, f)
      BY <2>1 DEF Handled
    <2>3. fs[f] # Absent
      BY <2>0, <2>2 DEF FirstCallInv
    <2>4. \A q \in Pkgs : q \in listing <=>
             f \in allFiles[q] /\ owner[f] \in {NoOwner, <<q, call>>}
      BY <2>0, <2>1 DEF FirstCallInv
    <2>5. CASE Kind[f] = "reg" /\ f \notin base
      <3>1. owner[f] # NoOwner
        BY <2>0, <2>3, <2>5 DEF FirstCallInv
      <3>2. PICK h \in Pkgs, c \in 1..MaxCalls : owner[f] = <<h, c>>
        BY <2>0, <3>1 DEF TypeOK, Pointers
      <3>3. owner[f][1] = h /\ owner[f][2] = c
        BY <3>2
      <3>4. f \in Entries(h) /\ c <= call
        BY <2>0, <3>1, <3>3 DEF ListInv, Holder
      <3>5. c = call
        BY <3>4, CallsAssumption
      <3>6. f \in allFiles[h]
        BY <2>0, <2>1, <2>5, <3>4 DEF ListInv, Handled
      <3>7. \A q \in Pkgs : q \in listing <=> q = h
        BY <2>4, <3>1, <3>2, <3>5, <3>6
      <3> HIDE DEF listing
      <3>8. listing \subseteq Pkgs
        BY DEF listing
      <3>9. listing = {h}
        BY <3>7, <3>8
      <3> QED
        BY <3>9 DEF listing
    <2>6. CASE Kind[f] = "reg" /\ f \in base
      <3>1. owner[f] = NoOwner /\ f \in allFiles[p]
        BY <2>0, <2>2, <2>6 DEF BaseInv, ListInv
      <3> QED
        BY <2>4, <2>6, <3>1
    <2>7. CASE Kind[f] \in {"sym", "link"} /\ f \notin base
      <3>1. owner[f] = NoOwner
        BY <2>0, <2>7 DEF ListInv
      <3>2. PICK h \in Pkgs : f \in allFiles[h]
        BY <2>0, <2>3, <2>7 DEF FirstCallInv
      <3>3. \A q \in Pkgs : q \in listing <=> q = h
        BY <2>0, <2>4, <2>7, <3>1, <3>2 DEF FirstCallInv
      <3> HIDE DEF listing
      <3>4. listing \subseteq Pkgs
        BY DEF listing
      <3>5. listing = {h}
        BY <3>3, <3>4
      <3> QED
        BY <3>5 DEF listing
    <2>8. CASE Kind[f] = "link" /\ f \in base
      BY <2>0, <2>2, <2>8 DEF FirstCallInv
    <2> QED
      BY <2>0, <2>5, <2>6, <2>7, <2>8, KindAssumption
  <1> QED
    BY <1>1, FilesInvariance, TypeCorrect, PTL
=============================================================================
