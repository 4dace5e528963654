--------------------------- MODULE PkgCacheProofs ---------------------------
(***************************************************************************)
(* Proofs about PkgCache, for every number of processes that share the     *)
(* cache directory and every number of installs, with processes that crash *)
(* anywhere.                                                               *)
(***************************************************************************)
EXTENDS PkgCache, TLAPS

\* The inodes of an attempt are inodes, and none of them is NoInode.
LEMMA InodeType ==
    ASSUME NEW p \in Procs, NEW a \in 0..MaxAttempts, NEW t \in {"expand", "create"}
    PROVE  <<p, a, t>> \in Inodes /\ <<p, a, t>> # NoInode
  BY DEF Inodes, NoInode

\* An empty cache, or one an older version has filled.
LEMMA CacheInit == Init => CacheInv
  <1> SUFFICES ASSUME Init PROVE CacheInv
    OBVIOUS
  <1>1. TypeOK
    <2>1. PICK old \in {FALSE, OldCache} : ctl = old /\ sig = old /\ dat = old
      BY DEF Init
    <2>2. old \in BOOLEAN
      BY OldCacheAssumption
    <2>3. ctl \in BOOLEAN /\ sig \in BOOLEAN /\ dat \in BOOLEAN
      BY <2>1, <2>2
    <2>4. /\ signed \in [Procs -> BOOLEAN] /\ late \in [Procs -> BOOLEAN]
          /\ crashed \in BOOLEAN
      BY Zenon DEF Init
    <2>5. /\ tar \in Inodes \cup {NoInode}
          /\ data \in [Inodes -> {"none", "part", "all"}]
          /\ attempt \in [Procs -> 0..MaxAttempts]
          /\ fd \in [Procs -> Inodes \cup {NoInode}]
          /\ got \in [Procs -> {"none", "short", "whole"}]
      BY AttemptsAssumption DEF Init
    <2> QED
      BY <2>3, <2>4, <2>5 DEF Init, TypeOK
  <1> QED
    BY <1>1 DEF Init, CacheInv, OpenInv, OrderInv, SignedInv, Cached

\* Every variable keeps its type.
LEMMA TypeStep ==
    ASSUME CacheInv, NEW p \in Procs, Step(p)
    PROVE  TypeOK'
  <1> USE AttemptsAssumption DEF files, history
  <1>0. TypeOK /\ OpenInv
    BY DEF CacheInv
  <1>1. CASE StatCtl(p)
    <2>1. late' \in [Procs -> BOOLEAN] /\ signed' \in [Procs -> BOOLEAN]
      BY <1>0, <1>1, Zenon DEF TypeOK, StatCtl
    <2> QED
      BY <1>0, <1>1, <2>1 DEF TypeOK, StatCtl, Goto, At
  <1>2. CASE StatSig(p)
    <2>1. signed' \in [Procs -> BOOLEAN]
      BY <1>0, <1>2, Zenon DEF TypeOK, StatSig
    <2> QED
      BY <1>0, <1>2, <2>1 DEF TypeOK, StatSig, Goto, At
  <1>11. CASE StatDat(p)
    BY <1>0, <1>11 DEF TypeOK, StatDat, Goto, At
  <1>12. CASE OpenTar(p)
    BY <1>0, <1>12 DEF TypeOK, OpenTar, Goto, At
  <1>3. CASE CreateTar(p)
    <2>1. <<p, attempt[p], "create">> \in Inodes /\ <<p, attempt[p], "create">> # NoInode
      BY <1>0, InodeType DEF TypeOK
    <2> QED
      BY <1>0, <1>3, <2>1 DEF TypeOK, CreateTar, Goto, At
  <1>4. CASE CopyTar(p) \/ CopyTarFail(p)
    BY <1>0, <1>4 DEF TypeOK, CopyTar, CopyTarFail, Goto, At
  <1>5. CASE ReopenTar(p) \/ IndexTar(p) \/ IndexTarFail(p)
    BY <1>0, <1>5 DEF TypeOK, OpenInv, ReopenTar, IndexTar, IndexTarFail, Goto, At
  <1>6. CASE Expand(p)
    <2>1. <<p, attempt[p], "expand">> \in Inodes /\ <<p, attempt[p], "expand">> # NoInode
      BY <1>0, InodeType DEF TypeOK
    <2> QED
      BY <1>0, <1>6, <2>1 DEF TypeOK, Expand, Goto, At
  <1>7. CASE RenameCtl(p) \/ RenameSig(p) \/ RenameDat(p)
    BY <1>0, <1>7 DEF TypeOK, RenameCtl, RenameSig, RenameDat, Goto, At
  <1>8. CASE RenameTar(p)
    <2>1. <<p, attempt[p], "expand">> \in Inodes
      BY <1>0, InodeType DEF TypeOK
    <2> QED
      BY <1>0, <1>8, <2>1 DEF TypeOK, OpenInv, RenameTar, Goto, At
  <1>9. CASE Install(p)
    BY <1>0, <1>9 DEF TypeOK, Install, Goto, At
  <1>10. CASE Crash(p)
    BY <1>0, <1>10 DEF TypeOK, Crash, Goto
  <1> QED
    BY <1>1, <1>2, <1>3, <1>4, <1>5, <1>6, <1>7, <1>8, <1>9, <1>10, <1>11, <1>12 DEF Step

\* What is read or written is open.
LEMMA OpenStep ==
    ASSUME CacheInv, NEW p \in Procs, Step(p)
    PROVE  OpenInv'
  <1> USE DEF files, history
  <1>0. TypeOK /\ OpenInv
    BY DEF CacheInv
  <1>a. \A t \in {"expand", "create"} : <<p, attempt[p], t>> # NoInode
    BY <1>0, InodeType DEF TypeOK
  <1>1. CASE StatCtl(p) \/ StatSig(p) \/ StatDat(p)
    BY <1>0, <1>1 DEF TypeOK, OpenInv, StatCtl, StatSig, StatDat, Goto, At
  <1>2. CASE OpenTar(p) \/ CopyTar(p) \/ CopyTarFail(p)
    BY <1>0, <1>2 DEF TypeOK, OpenInv, OpenTar, CopyTar, CopyTarFail, Goto, At
  <1>3. CASE CreateTar(p)
    BY <1>0, <1>3, <1>a DEF TypeOK, OpenInv, CreateTar, Goto, At
  <1>5. CASE ReopenTar(p) \/ IndexTar(p) \/ IndexTarFail(p)
    BY <1>0, <1>5 DEF TypeOK, OpenInv, ReopenTar, IndexTar, IndexTarFail, Goto, At
  <1>6. CASE Expand(p)
    BY <1>0, <1>6, <1>a DEF TypeOK, OpenInv, Expand, Goto, At
  <1>7. CASE RenameCtl(p) \/ RenameSig(p) \/ RenameDat(p)
    BY <1>0, <1>7 DEF TypeOK, OpenInv, RenameCtl, RenameSig, RenameDat, Goto, At
  <1>8. CASE RenameTar(p)
    BY <1>0, <1>8, <1>a DEF TypeOK, OpenInv, RenameTar, Goto, At
  <1>9. CASE Install(p) \/ Crash(p)
    BY <1>0, <1>9 DEF TypeOK, OpenInv, Install, Crash, Goto, At
  <1> QED
    BY <1>1, <1>2, <1>3, <1>5, <1>6, <1>7, <1>8, <1>9 DEF Step

\* The order of the renames, whoever makes them, and what a reader that comes
\* behind them finds.
LEMMA SignedStep ==
    ASSUME CacheInv, NEW p \in Procs, Step(p)
    PROVE  OrderInv' /\ SignedInv'
  <1> USE DEF files, history
  <1>0. TypeOK /\ OrderInv /\ SignedInv
    BY DEF CacheInv
  <1>1. CASE StatCtl(p)
    BY <1>0, <1>1 DEF TypeOK, OrderInv, SignedInv, Cached, StatCtl, Goto, At
  <1>2. CASE StatSig(p)
    <2>1. late[p] => signed'[p]
      BY <1>0, <1>2 DEF TypeOK, OrderInv, StatSig
    <2>2. \A q \in Procs : q # p => signed'[q] = signed[q] /\ pc'[q] = pc[q]
      BY <1>0, <1>2 DEF TypeOK, StatSig, Goto
    <2>3. pc'[p] = "dat" /\ UNCHANGED <<dat, sig, late, got>>
      BY <1>0, <1>2 DEF TypeOK, StatSig, Goto
    <2> QED
      BY <1>0, <2>1, <2>2, <2>3 DEF OrderInv, SignedInv, Cached
  <1>10. CASE StatDat(p)
    BY <1>0, <1>10 DEF TypeOK, OrderInv, SignedInv, Cached, StatDat, Goto, At
  <1>3. CASE OpenTar(p) \/ CreateTar(p) \/ CopyTar(p) \/ CopyTarFail(p)
    BY <1>0, <1>3 DEF TypeOK, OrderInv, SignedInv, Cached, OpenTar, CreateTar, CopyTar,
       CopyTarFail, Goto, At
  <1>4. CASE ReopenTar(p) \/ IndexTar(p) \/ IndexTarFail(p)
    BY <1>0, <1>4 DEF TypeOK, OrderInv, SignedInv, Cached, ReopenTar, IndexTar,
       IndexTarFail, Goto, At
  <1>5. CASE Expand(p) \/ RenameCtl(p)
    BY <1>0, <1>5 DEF TypeOK, OrderInv, SignedInv, Cached, Expand, RenameCtl, Goto, At
  <1>6. CASE RenameSig(p) \/ RenameDat(p)
    BY <1>0, <1>6 DEF TypeOK, OrderInv, SignedInv, Cached, RenameSig, RenameDat, Goto, At
  <1>7. CASE RenameTar(p)
    BY <1>0, <1>7 DEF TypeOK, OrderInv, SignedInv, Cached, RenameTar, Goto, At
  <1>8. CASE Install(p)
    BY <1>0, <1>8 DEF TypeOK, OrderInv, SignedInv, Cached, Install, Goto, At
  <1>9. CASE Crash(p)
    BY <1>0, <1>9 DEF TypeOK, OrderInv, SignedInv, Cached, Crash, Goto
  <1> QED
    BY <1>1, <1>2, <1>3, <1>4, <1>5, <1>6, <1>7, <1>8, <1>9, <1>10 DEF Step

-----------------------------------------------------------------------------
(* The theorems. *)

\* CacheInv is inductive: it survives every interleaving and every crash.
THEOREM CacheInvariance == Spec => []CacheInv
  <1>1. CacheInv /\ [Next]_vars => CacheInv'
    <2> SUFFICES ASSUME CacheInv, [Next]_vars PROVE CacheInv'
      OBVIOUS
    <2>1. ASSUME NEW p \in Procs, Step(p) PROVE CacheInv'
      BY <2>1, TypeStep, OpenStep, SignedStep DEF CacheInv
    <2>2. CASE UNCHANGED vars
      BY <2>2 DEF vars, files, history, CacheInv, TypeOK, OpenInv, OrderInv, SignedInv, Cached
    <2> QED
      BY <2>1, <2>2 DEF Next
  <1> QED
    BY <1>1, CacheInit, PTL DEF Spec

\* A hit of an install that began behind the rename of the data file is signed,
\* for any number of processes: the signature is renamed before the data and
\* looked for before it.
THEOREM SettledIsSigned == Spec => []SettledSigned
  <1>1. CacheInv => SettledSigned
    BY DEF CacheInv, SignedInv, SettledSigned
  <1> QED
    BY <1>1, CacheInvariance, PTL
=============================================================================
