------------------------- MODULE InstalledDBProofs -------------------------
(***************************************************************************)
(* scripts.tar and the installed database for every number of packages,    *)
(* scripts and failed writes, and all archives the packages may have: what *)
(* updateScriptsTar and AddInstalledPackage added stays readable, and a    *)
(* call that is repeated repairs what stopped short                        *)
(* (pkg/apk/installed.go).                                                 *)
(***************************************************************************)
EXTENDS InstalledDB, SequenceTheorems, FiniteSetTheorems, WellFoundedInduction, TLAPS

-----------------------------------------------------------------------------
(* What a reader of an archive gets. *)

\* Of the numbers that are no header, or the end, one is the smallest.
LEMMA CountExists ==
    ASSUME NEW blocks, Len(blocks) \in Nat
    PROVE  \E n \in 0..(Len(blocks) \div 2) :
              /\ \A j \in 1..n : HeaderAt(blocks, j)
              /\ n = Len(blocks) \div 2 \/ ~HeaderAt(blocks, n + 1)
  <1> DEFINE half == Len(blocks) \div 2
             ends == {n \in 0..half : n = half \/ ~HeaderAt(blocks, n + 1)}
  <1>1. half \in Nat
    OBVIOUS
  <1> HIDE DEF half
  <1>2. half \in ends /\ ends \subseteq Nat
    BY <1>1
  <1>3. PICK n \in ends : \A m \in ends : ~(<<m, n>> \in OpToRel(<, Nat))
    BY <1>2, WFMin, NatLessThanWellFounded
  <1>4. \A m \in ends : ~(m < n)
    BY <1>2, <1>3 DEF OpToRel
  <1>5. ASSUME NEW j \in 1..n PROVE HeaderAt(blocks, j)
    <2>1. j - 1 \in 0..half /\ j - 1 < n /\ j - 1 # half
      BY <1>1, <1>5
    <2>2. j - 1 \notin ends
      BY <1>4, <2>1
    <2>3. HeaderAt(blocks, (j - 1) + 1)
      BY <2>1, <2>2
    <2> QED
      BY <2>3
  <1> QED
    BY <1>5 DEF half

\* ... and no other one is.
LEMMA CountUnique ==
    ASSUME NEW blocks, Len(blocks) \in Nat,
           NEW n \in 0..(Len(blocks) \div 2), \A j \in 1..n : HeaderAt(blocks, j),
           n = Len(blocks) \div 2 \/ ~HeaderAt(blocks, n + 1)
    PROVE  CountScripts(blocks) = n
  <1> DEFINE P(m) == /\ \A j \in 1..m : HeaderAt(blocks, j)
                     /\ m = Len(blocks) \div 2 \/ ~HeaderAt(blocks, m + 1)
             c == CountScripts(blocks)
  <1>1. c \in 0..(Len(blocks) \div 2) /\ P(c)
    BY DEF CountScripts
  <1> HIDE DEF c
  <1>2. ~(n < c)
    <2> SUFFICES ASSUME n < c PROVE FALSE
      OBVIOUS
    <2>1. n + 1 \in 1..c
      BY <1>1
    <2> QED
      BY <1>1, <2>1
  <1>3. ~(c < n)
    <2> SUFFICES ASSUME c < n PROVE FALSE
      OBVIOUS
    <2>1. c + 1 \in 1..n
      BY <1>1
    <2> QED
      BY <1>1, <2>1
  <1> QED
    BY <1>1, <1>2, <1>3 DEF c

\* The first n entries of an archive that begins with n headers.
LEMMA ReadAtLeast ==
    ASSUME NEW blocks, Len(blocks) \in Nat,
           NEW n \in 0..(Len(blocks) \div 2), \A j \in 1..n : HeaderAt(blocks, j)
    PROVE  /\ CountScripts(blocks) \in Nat
           /\ CountScripts(blocks) >= n
  <1> DEFINE c == CountScripts(blocks)
  <1>1. /\ c \in 0..(Len(blocks) \div 2)
        /\ c = Len(blocks) \div 2 \/ ~HeaderAt(blocks, c + 1)
    BY CountExists DEF CountScripts
  <1> HIDE DEF c
  <1>2. ~(c < n)
    <2> SUFFICES ASSUME c < n PROVE FALSE
      OBVIOUS
    <2>1. c + 1 \in 1..n
      BY <1>1
    <2> QED
      BY <1>1, <2>1
  <1> QED
    BY <1>1, <1>2 DEF c

\* Writing over an archive keeps what is before, and what is written is there.
LEMMA OverwriteProperties ==
    ASSUME NEW S, NEW blocks \in Seq(S), NEW new \in Seq(S), NEW from \in 0..Len(blocks)
    PROVE  LET after == Overwrite(blocks, from, new)
           IN  /\ after \in Seq(S)
               /\ Len(after) >= Len(blocks)
               /\ Len(after) >= from + Len(new)
               /\ from + Len(new) >= Len(blocks) => Len(after) = from + Len(new)
               /\ \A b \in 1..from : after[b] = blocks[b]
               /\ \A b \in 1..Len(new) : after[from + b] = new[b]
  <1> DEFINE after == Overwrite(blocks, from, new)
             m == IF from + Len(new) > Len(blocks) THEN from + Len(new) ELSE Len(blocks)
  <1>1. m \in Nat /\ m >= Len(blocks) /\ m >= from + Len(new)
    OBVIOUS
  <1>2. after = [b \in 1..m |-> IF b > from /\ b <= from + Len(new)
                                THEN new[b - from] ELSE blocks[b]]
    BY DEF Overwrite
  <1>3. \A b \in 1..m : ~(b > from /\ b <= from + Len(new)) => b \in 1..Len(blocks)
    OBVIOUS
  <1>3a. from + Len(new) >= Len(blocks) => m = from + Len(new)
    OBVIOUS
  <1> HIDE DEF m, after
  <1>4. after \in [1..m -> S]
    <2> SUFFICES ASSUME NEW b \in 1..m
                 PROVE (IF b > from /\ b <= from + Len(new) THEN new[b - from] ELSE blocks[b]) \in S
      BY <1>2
    <2>1. CASE b > from /\ b <= from + Len(new)
      <3>1. b - from \in 1..Len(new)
        BY <1>1, <2>1
      <3> QED
        BY <2>1, <3>1, ElementOfSeq
    <2>2. CASE ~(b > from /\ b <= from + Len(new))
      BY <1>3, <2>2, ElementOfSeq
    <2> QED
      BY <2>1, <2>2
  <1>5. after \in Seq(S) /\ Len(after) = m
    BY <1>1, <1>4
  <1>6. ASSUME NEW b \in 1..from PROVE after[b] = blocks[b]
    BY <1>1, <1>2
  <1>7. ASSUME NEW b \in 1..Len(new) PROVE after[from + b] = new[b]
    <2>1. from + b \in 1..m /\ from + b > from /\ from + b <= from + Len(new)
      BY <1>1
    <2>2. (from + b) - from = b
      OBVIOUS
    <2> QED
      BY <1>2, <2>1, <2>2
  <1> QED
    BY <1>1, <1>3a, <1>5, <1>6, <1>7 DEF after

\* The blocks of a package are its scripts and what is in them.
LEMMA ScriptBlocksProperties ==
    ASSUME NEW i \in Pkgs
    PROVE  /\ ScriptBlocks(i) \in Seq(Blocks)
           /\ Len(ScriptBlocks(i)) = 2 * Scripts[i]
           /\ Scripts[i] \in Nat
           /\ \A j \in 1..Scripts[i] : HeaderAt(ScriptBlocks(i), j)
  <1> DEFINE s == Scripts[i]
             e(b) == IF b % 2 = 1 THEN Script(i, (b + 1) \div 2) ELSE Data(i, b \div 2)
  <1>1. s \in Nat
    BY PackagesAssumption
  <1> HIDE DEF s
  <1>2. \A b \in 1..(2 * s) : e(b) \in Blocks
    <2> SUFFICES ASSUME NEW b \in 1..(2 * s) PROVE e(b) \in Blocks
      OBVIOUS
    <2>1. (b + 1) \div 2 \in Nat /\ b \div 2 \in Nat
      BY <1>1
    <2> QED
      BY <2>1 DEF Blocks
  <1>3. ScriptBlocks(i) = [b \in 1..(2 * s) |-> e(b)]
    BY DEF ScriptBlocks, s
  <1>4. ScriptBlocks(i) \in [1..(2 * s) -> Blocks]
    <2> HIDE DEF e
    <2> QED
      BY <1>2, <1>3
  <1>5. ScriptBlocks(i) \in Seq(Blocks) /\ Len(ScriptBlocks(i)) = 2 * s
    BY <1>1, <1>4
  <1>6. ASSUME NEW j \in 1..s PROVE HeaderAt(ScriptBlocks(i), j)
    <2>1. 2 * j - 1 \in 1..(2 * s) /\ (2 * j - 1) % 2 = 1
      BY <1>1
    <2>2. ScriptBlocks(i)[2 * j - 1] = Script(i, ((2 * j - 1) + 1) \div 2)
      BY <1>3, <2>1
    <2> QED
      BY <2>2 DEF HeaderAt, Script
  <1> QED
    BY <1>1, <1>5, <1>6 DEF s

LEMMA ReadScriptBlocks ==
    ASSUME NEW i \in Pkgs
    PROVE  /\ CountScripts(ScriptBlocks(i)) = Scripts[i]
           /\ ReadScripts(ScriptBlocks(i)) \in Seq(Blocks \X Blocks)
           /\ Len(ReadScripts(ScriptBlocks(i))) = Scripts[i]
           /\ \A j \in 1..Scripts[i] :
                 ReadScripts(ScriptBlocks(i))[j]
                    = <<ScriptBlocks(i)[2 * j - 1], ScriptBlocks(i)[2 * j]>>
  <1> DEFINE blocks == ScriptBlocks(i)
             s == Scripts[i]
  <1>1. /\ blocks \in Seq(Blocks) /\ Len(blocks) = 2 * s /\ s \in Nat
        /\ \A j \in 1..s : HeaderAt(blocks, j)
    BY ScriptBlocksProperties
  <1> HIDE DEF blocks, s
  <1>2. Len(blocks) \in Nat /\ Len(blocks) \div 2 = s
    BY <1>1
  <1>3. CountScripts(blocks) = s
    BY <1>1, <1>2, CountUnique
  <1>4. ReadScripts(blocks) = [j \in 1..s |-> <<blocks[2 * j - 1], blocks[2 * j]>>]
    BY <1>3 DEF ReadScripts
  <1>5. \A j \in 1..s : <<blocks[2 * j - 1], blocks[2 * j]>> \in Blocks \X Blocks
    <2> SUFFICES ASSUME NEW j \in 1..s
                 PROVE blocks[2 * j - 1] \in Blocks /\ blocks[2 * j] \in Blocks
      OBVIOUS
    <2>1. 2 * j - 1 \in 1..Len(blocks) /\ 2 * j \in 1..Len(blocks)
      BY <1>1
    <2> QED
      BY <1>1, <2>1, ElementOfSeq
  <1>6. ReadScripts(blocks) \in [1..s -> Blocks \X Blocks]
    BY <1>4, <1>5
  <1>7. ReadScripts(blocks) \in Seq(Blocks \X Blocks) /\ Len(ReadScripts(blocks)) = s
    BY <1>1, <1>6
  <1>8. \A j \in 1..s : ReadScripts(blocks)[j] = <<blocks[2 * j - 1], blocks[2 * j]>>
    BY <1>4
  <1> QED
    BY <1>3, <1>7, <1>8 DEF blocks, s

-----------------------------------------------------------------------------
(* The invariant. *)

LEMMA ScriptInit == Init => ScriptInv
  <1> SUFFICES ASSUME Init PROVE ScriptInv
    OBVIOUS
  <1>1. scripts \in Seq(Blocks) /\ Len(scripts) = 2 /\ scripts[1] = Zero
    BY DEF Init, Blocks
  <1>2. intact \in Seq(Blocks \X Blocks) /\ Len(intact) = 0 /\ DOMAIN intact = {}
    BY DEF Init
  <1> QED
    BY <1>1, <1>2 DEF ScriptInv

\* A write behind the seek leaves the blocks of the intact scripts alone.
LEMMA WriteBehind ==
    ASSUME ScriptInv, NEW new \in Seq(Blocks),
           scripts' = Overwrite(scripts, SeekEnd, new)
    PROVE  /\ SeekEnd = Len(scripts) - 2
           /\ scripts' \in Seq(Blocks)
           /\ Len(scripts') >= Len(scripts)
           /\ Len(new) >= 2 => Len(scripts') = SeekEnd + Len(new)
           /\ \A b \in 1..(2 * Len(intact)) : scripts'[b] = scripts[b]
           /\ \A b \in 1..Len(new) : scripts'[SeekEnd + b] = new[b]
  <1>1. /\ scripts \in Seq(Blocks) /\ Len(scripts) \in Nat /\ Len(intact) \in Nat
        /\ Len(scripts) >= 2 * Len(intact) + 2 /\ Len(new) \in Nat
    BY LenProperties DEF ScriptInv
  <1>2. SeekEnd = Len(scripts) - 2 /\ SeekEnd \in 0..Len(scripts)
    BY <1>1 DEF SeekEnd
  <1> DEFINE from == SeekEnd
  <1> HIDE DEF from
  <1>3. /\ scripts' \in Seq(Blocks)
        /\ Len(scripts') >= Len(scripts)
        /\ from + Len(new) >= Len(scripts) => Len(scripts') = from + Len(new)
        /\ \A b \in 1..from : scripts'[b] = scripts[b]
        /\ \A b \in 1..Len(new) : scripts'[from + b] = new[b]
    <2>1. from \in 0..Len(scripts) /\ scripts' = Overwrite(scripts, from, new)
      BY <1>2 DEF from
    <2>2. LET after == Overwrite(scripts, from, new)
          IN  /\ after \in Seq(Blocks)
              /\ Len(after) >= Len(scripts)
              /\ Len(after) >= from + Len(new)
              /\ from + Len(new) >= Len(scripts) => Len(after) = from + Len(new)
              /\ \A b \in 1..from : after[b] = scripts[b]
              /\ \A b \in 1..Len(new) : after[from + b] = new[b]
      BY <1>1, <2>1, OverwriteProperties
    <2> QED
      BY <2>1, <2>2
  <1> QED
    BY <1>1, <1>2, <1>3 DEF from

\* Whatever is written there, once a write has stopped short no more is asked.
LEMMA TornStep ==
    ASSUME ScriptInv, NEW new \in Seq(Blocks),
           scripts' = Overwrite(scripts, SeekEnd, new),
           intact' = intact, "scripts" \in torn'
    PROVE  ScriptInv'
  <1>1. /\ intact \in Seq(Blocks \X Blocks) /\ Len(intact) \in Nat
        /\ DOMAIN intact = 1..Len(intact)
        /\ Len(scripts) \in Nat /\ Len(scripts) >= 2 * Len(intact) + 2
    BY LenProperties DEF ScriptInv
  <1>2. /\ scripts' \in Seq(Blocks) /\ Len(scripts') >= Len(scripts)
        /\ \A b \in 1..(2 * Len(intact)) : scripts'[b] = scripts[b]
    BY WriteBehind
  <1>3. Len(scripts') \in Nat
    BY <1>2, LenProperties
  <1>4. ASSUME NEW j \in DOMAIN intact
        PROVE  HeaderAt(scripts', j) /\ intact[j] = <<scripts'[2 * j - 1], scripts'[2 * j]>>
    <2>1. 2 * j - 1 \in 1..(2 * Len(intact)) /\ 2 * j \in 1..(2 * Len(intact))
      BY <1>1
    <2> QED
      BY <1>2, <2>1 DEF ScriptInv, HeaderAt
  <1> QED
    BY <1>1, <1>2, <1>3, <1>4 DEF ScriptInv, HeaderAt

\* Before that the scripts of the package follow those before them.
LEMMA WholeStep ==
    ASSUME ScriptInv, NEW i \in Pkgs, "scripts" \notin torn, torn' = torn,
           scripts' = Overwrite(scripts, SeekEnd, ScriptBlocks(i) \o <<Zero, Zero>>),
           intact' = intact \o ReadScripts(ScriptBlocks(i))
    PROVE  ScriptInv'
  <1> DEFINE blocks == ScriptBlocks(i)
             s == Scripts[i]
             read == ReadScripts(ScriptBlocks(i))
             n == Len(intact)
             new == blocks \o <<Zero, Zero>>
  <1>1. /\ intact \in Seq(Blocks \X Blocks) /\ n \in Nat /\ DOMAIN intact = 1..n
        /\ Len(scripts) = 2 * n + 2
    BY LenProperties DEF ScriptInv
  <1>2. /\ blocks \in Seq(Blocks) /\ Len(blocks) = 2 * s /\ s \in Nat
        /\ \A j \in 1..s : HeaderAt(blocks, j)
    BY ScriptBlocksProperties
  <1>3. /\ read \in Seq(Blocks \X Blocks) /\ Len(read) = s
        /\ \A j \in 1..s : read[j] = <<blocks[2 * j - 1], blocks[2 * j]>>
    BY ReadScriptBlocks
  <1> HIDE DEF blocks, s, read
  <1>4. <<Zero, Zero>> \in Seq(Blocks) /\ Len(<<Zero, Zero>>) = 2
    BY DEF Blocks
  <1>5. /\ new \in Seq(Blocks) /\ Len(new) = 2 * s + 2
        /\ \A b \in 1..(2 * s) : new[b] = blocks[b]
        /\ new[2 * s + 1] = Zero
    <2> DEFINE z == <<Zero, Zero>>
    <2>1. z \in Seq(Blocks) /\ Len(z) = 2 /\ z[1] = Zero
      BY <1>4
    <2> HIDE DEF z
    <2>2. /\ blocks \o z \in Seq(Blocks) /\ Len(blocks \o z) = Len(blocks) + Len(z)
          /\ \A b \in 1..(Len(blocks) + Len(z)) : (blocks \o z)[b] =
                IF b <= Len(blocks) THEN blocks[b] ELSE z[b - Len(blocks)]
      BY <1>2, <2>1, ConcatProperties
    <2>3. 2 * s + 1 \in 1..(2 * s + 2) /\ (2 * s + 1) - 2 * s = 1
      BY <1>2
    <2>4. new = blocks \o z
      BY DEF z
    <2> HIDE DEF new
    <2>5. new \in Seq(Blocks) /\ Len(new) = 2 * s + 2
      BY <1>2, <2>1, <2>2, <2>4
    <2>6. \A b \in 1..(2 * s) : new[b] = blocks[b]
      BY <1>2, <2>1, <2>2, <2>4
    <2>7. new[2 * s + 1] = Zero
      BY <1>2, <2>1, <2>2, <2>3, <2>4
    <2> QED
      BY <2>5, <2>6, <2>7
  <1>6. scripts' = Overwrite(scripts, SeekEnd, new) /\ intact' = intact \o read
    BY DEF blocks, read
  <1> HIDE DEF new, n
  <1>7. /\ scripts' \in Seq(Blocks) /\ Len(scripts') = 2 * n + 2 * s + 2
        /\ \A b \in 1..(2 * n) : scripts'[b] = scripts[b]
        /\ \A b \in 1..(2 * s + 2) : scripts'[2 * n + b] = new[b]
    <2>1. /\ SeekEnd = Len(scripts) - 2
          /\ scripts' \in Seq(Blocks)
          /\ Len(new) >= 2 => Len(scripts') = SeekEnd + Len(new)
          /\ \A b \in 1..(2 * Len(intact)) : scripts'[b] = scripts[b]
          /\ \A b \in 1..Len(new) : scripts'[SeekEnd + b] = new[b]
      BY <1>5, <1>6, WriteBehind
    <2>2. SeekEnd = 2 * n /\ Len(new) >= 2
      BY <1>1, <1>2, <1>5, <2>1
    <2>3. Len(scripts') = 2 * n + 2 * s + 2
      BY <1>1, <1>2, <1>5, <2>1, <2>2
    <2>4. \A b \in 1..(2 * n) : scripts'[b] = scripts[b]
      BY <2>1 DEF n
    <2>5. \A b \in 1..(2 * s + 2) : scripts'[2 * n + b] = new[b]
      BY <1>5, <2>1, <2>2
    <2> QED
      BY <2>1, <2>3, <2>4, <2>5
  <1>8. /\ intact' \in Seq(Blocks \X Blocks) /\ Len(intact') = n + s
        /\ DOMAIN intact' = 1..(n + s)
        /\ \A j \in 1..(n + s) : intact'[j] = IF j <= n THEN intact[j] ELSE read[j - n]
    <2>1. /\ intact \o read \in Seq(Blocks \X Blocks) /\ Len(intact \o read) = n + s
          /\ \A j \in 1..(n + s) : (intact \o read)[j] = IF j <= n THEN intact[j] ELSE read[j - n]
      BY <1>1, <1>3, ConcatProperties DEF n
    <2> QED
      BY <1>6, <2>1, LenProperties
  <1>9. ASSUME NEW j \in 1..(n + s)
        PROVE  HeaderAt(scripts', j) /\ intact'[j] = <<scripts'[2 * j - 1], scripts'[2 * j]>>
    <2>1. CASE j <= n
      <3>1. /\ j \in DOMAIN intact
            /\ 2 * j - 1 \in 1..(2 * n) /\ 2 * j \in 1..(2 * n)
        BY <1>1, <2>1
      <3> QED
        BY <1>7, <1>8, <2>1, <3>1 DEF ScriptInv, HeaderAt
    <2>2. CASE ~(j <= n)
      <3> DEFINE m == j - n
      <3>1. /\ m \in 1..s
            /\ 2 * m - 1 \in 1..(2 * s) /\ 2 * m \in 1..(2 * s)
            /\ 2 * m - 1 \in 1..(2 * s + 2) /\ 2 * m \in 1..(2 * s + 2)
            /\ 2 * j - 1 = 2 * n + (2 * m - 1) /\ 2 * j = 2 * n + 2 * m
        BY <1>1, <1>2, <2>2
      <3>2. intact'[j] = read[m]
        BY <1>8, <2>2
      <3> HIDE DEF m
      <3>3. /\ scripts'[2 * j - 1] = blocks[2 * m - 1]
            /\ scripts'[2 * j] = blocks[2 * m]
        BY <1>5, <1>7, <3>1
      <3>4. HeaderAt(blocks, m) /\ read[m] = <<blocks[2 * m - 1], blocks[2 * m]>>
        BY <1>2, <1>3, <3>1
      <3> QED
        BY <3>2, <3>3, <3>4 DEF HeaderAt
    <2> QED
      BY <2>1, <2>2
  <1>10. scripts'[2 * Len(intact') + 1] = Zero
    <2>1. 2 * Len(intact') + 1 = 2 * n + (2 * s + 1) /\ 2 * s + 1 \in 1..(2 * s + 2)
      BY <1>1, <1>2, <1>8
    <2> QED
      BY <1>5, <1>7, <2>1
  <1>11. Len(scripts') = 2 * Len(intact') + 2
    BY <1>1, <1>2, <1>7, <1>8
  <1>12. Len(scripts') >= 2 * Len(intact') + 2
    BY <1>1, <1>2, <1>8, <1>11
  <1> QED
    BY <1>7, <1>8, <1>9, <1>10, <1>11, <1>12 DEF ScriptInv, HeaderAt

\* Every step of an installation leaves the invariant.
LEMMA ScriptStep == ScriptInv /\ [Next]_vars => ScriptInv'
  <1> SUFFICES ASSUME ScriptInv, [Next]_vars PROVE ScriptInv'
    OBVIOUS
  <1>0. <<Zero, Zero>> \in Seq(Blocks) /\ <<>> \in Seq(Blocks)
    BY DEF Blocks
  <1>1. ASSUME updateScriptsTar PROVE ScriptInv'
    <2>1. /\ at.i \in Pkgs /\ torn' = torn
          /\ scripts' = Overwrite(scripts, SeekEnd, ScriptBlocks(at.i) \o <<Zero, Zero>>)
          /\ intact' = IF "scripts" \in torn THEN intact
                       ELSE intact \o ReadScripts(ScriptBlocks(at.i))
      BY <1>1 DEF updateScriptsTar
    <2>2. ScriptBlocks(at.i) \o <<Zero, Zero>> \in Seq(Blocks)
      BY <1>0, <2>1, ScriptBlocksProperties, ConcatProperties
    <2>3. CASE "scripts" \in torn
      BY <2>1, <2>2, <2>3, TornStep
    <2>4. CASE "scripts" \notin torn
      BY <2>1, <2>4, WholeStep
    <2> QED
      BY <2>3, <2>4
  <1>2. ASSUME updateScriptsTarFail PROVE ScriptInv'
    <2>1. /\ at.i \in Pkgs /\ "scripts" \in torn' /\ intact' = intact
          /\ \E n \in 0..(2 * Scripts[at.i]), closed \in BOOLEAN :
                scripts' = Overwrite(scripts, SeekEnd,
                              SubSeq(ScriptBlocks(at.i), 1, n)
                                 \o (IF closed THEN <<Zero, Zero>> ELSE <<>>))
      BY <1>2 DEF updateScriptsTarFail
    <2>2. PICK n \in 0..(2 * Scripts[at.i]), closed \in BOOLEAN :
             scripts' = Overwrite(scripts, SeekEnd,
                           SubSeq(ScriptBlocks(at.i), 1, n)
                              \o (IF closed THEN <<Zero, Zero>> ELSE <<>>))
      BY <2>1
    <2> DEFINE blocks == ScriptBlocks(at.i)
    <2>3. blocks \in Seq(Blocks) /\ Len(blocks) = 2 * Scripts[at.i] /\ Scripts[at.i] \in Nat
      BY <2>1, ScriptBlocksProperties
    <2> HIDE DEF blocks
    <2>4. SubSeq(blocks, 1, n) \in Seq(Blocks)
      <3>1. \A b \in 1..n : b \in 1..Len(blocks)
        BY <2>3
      <3>2. \A b \in 1..n : blocks[b] \in Blocks
        BY <2>3, <3>1, ElementOfSeq
      <3> QED
        BY <2>3, <3>2, SubSeqProperties
    <2>5. (IF closed THEN <<Zero, Zero>> ELSE <<>>) \in Seq(Blocks)
      BY <1>0
    <2>6. SubSeq(blocks, 1, n) \o (IF closed THEN <<Zero, Zero>> ELSE <<>>) \in Seq(Blocks)
      BY <2>4, <2>5, ConcatProperties
    <2> QED
      BY <2>1, <2>2, <2>6, TornStep DEF blocks
  <1>3. ASSUME updateScriptsTarUnended PROVE ScriptInv'
    <2>1. /\ at.i \in Pkgs /\ "scripts" \in torn' /\ intact' = intact
          /\ \E n \in 0..1 : scripts' = Overwrite(scripts, SeekEnd,
                                ScriptBlocks(at.i) \o SubSeq(<<Zero, Zero>>, 1, n))
      BY <1>3 DEF updateScriptsTarUnended
    <2>2. PICK n \in 0..1 : scripts' = Overwrite(scripts, SeekEnd,
                               ScriptBlocks(at.i) \o SubSeq(<<Zero, Zero>>, 1, n))
      BY <2>1
    <2>3. SubSeq(<<Zero, Zero>>, 1, n) \in Seq(Blocks)
      <3> DEFINE z == <<Zero, Zero>>
      <3>1. \A b \in 1..n : z[b] \in Blocks
        BY DEF Blocks
      <3> HIDE DEF z
      <3>2. SubSeq(z, 1, n) \in Seq(Blocks)
        BY <3>1, SubSeqProperties
      <3> QED
        BY <3>2 DEF z
    <2>4. ScriptBlocks(at.i) \o SubSeq(<<Zero, Zero>>, 1, n) \in Seq(Blocks)
      BY <2>1, <2>3, ScriptBlocksProperties, ConcatProperties
    <2> QED
      BY <2>1, <2>2, <2>4, TornStep
  <1>4. ASSUME UNCHANGED <<scripts, intact>>, torn' \cap {"scripts"} = torn \cap {"scripts"}
        PROVE  ScriptInv'
    <2>1. "scripts" \in torn' <=> "scripts" \in torn
      BY <1>4
    <2> QED
      BY <1>4, <2>1 DEF ScriptInv
  <1>5. ASSUME SkipInstalled \/ CheckFail \/ StartRecord \/ RecordSkip \/ AddInstalledPackage
                  \/ RecordDone \/ CallAgain \/ UNCHANGED vars
        PROVE  ScriptInv'
    BY <1>4, <1>5 DEF SkipInstalled, CheckFail, StartRecord, RecordSkip,
                      AddInstalledPackage, RecordDone, CallAgain, vars, history
  <1>6. ASSUME AddInstalledPackageFail PROVE ScriptInv'
    <2>1. UNCHANGED <<scripts, intact>>
      BY <1>6 DEF AddInstalledPackageFail
    <2>2. \/ torn' = torn \cup {"db"}
          \/ \E n : torn' = torn \cup {"db"} \cup (IF n = 0 THEN {"name"} ELSE {})
      BY <1>6 DEF AddInstalledPackageFail
    <2>3. torn' \cap {"scripts"} = torn \cap {"scripts"}
      BY <2>2
    <2> QED
      BY <1>4, <2>1, <2>3
  <1> QED
    BY <1>1, <1>2, <1>3, <1>5, <1>6 DEF Next

-----------------------------------------------------------------------------
(* The theorems. *)

\* In every reachable state the archive holds the blocks of what was added
\* before a write stopped short, and room for an end behind them.
THEOREM ScriptInvariance == Spec => []ScriptInv
  <1> QED
    BY ScriptInit, ScriptStep, PTL DEF Spec

\* updateScriptsTar, which seeks back over the end of the archive whatever is
\* there, takes no script from a reader; until a write stops short the reader
\* gets exactly what was added.
THEOREM ScriptsAreKept == Spec => []ScriptsKept
  <1>1. ASSUME ScriptInv PROVE ScriptsKept
    <2> DEFINE n == Len(intact)
               c == CountScripts(scripts)
               read == ReadScripts(scripts)
    <2>1. /\ intact \in Seq(Blocks \X Blocks) /\ n \in Nat /\ DOMAIN intact = 1..n
          /\ scripts \in Seq(Blocks) /\ Len(scripts) \in Nat
          /\ Len(scripts) >= 2 * n + 2
      BY <1>1, LenProperties DEF ScriptInv
    <2>2. /\ \A j \in 1..n : HeaderAt(scripts, j)
          /\ \A j \in 1..n : intact[j] = <<scripts[2 * j - 1], scripts[2 * j]>>
      BY <1>1, <2>1 DEF ScriptInv
    <2>3. n \in 0..(Len(scripts) \div 2)
      BY <2>1
    <2>4. c \in Nat /\ c >= n
      BY <2>1, <2>2, <2>3, ReadAtLeast
    <2>5. read = [j \in 1..c |-> <<scripts[2 * j - 1], scripts[2 * j]>>]
      BY DEF ReadScripts
    <2>6. "scripts" \in torn \/ c = n
      <3> SUFFICES ASSUME "scripts" \notin torn PROVE c = n
        OBVIOUS
      <3>1. scripts[2 * n + 1] = Zero /\ 2 * (n + 1) - 1 = 2 * n + 1
        BY <1>1, <2>1 DEF ScriptInv
      <3>2. ~HeaderAt(scripts, n + 1)
        BY <3>1 DEF HeaderAt, Zero
      <3> QED
        BY <2>1, <2>2, <2>3, <3>2, CountUnique
    <2> HIDE DEF c, read
    <2>7. Len(read) = c /\ \A j \in 1..n : read[j] = intact[j]
      BY <2>1, <2>2, <2>4, <2>5
    <2>8. SubSeq(read, 1, n) = intact
      <3>1. \A j \in 1..n : read[j] \in Blocks \X Blocks
        BY <2>1, <2>7, ElementOfSeq
      <3>2. /\ SubSeq(read, 1, n) \in Seq(Blocks \X Blocks)
            /\ Len(SubSeq(read, 1, n)) = n
            /\ \A j \in 1..n : SubSeq(read, 1, n)[j] = read[j]
        BY <2>1, <3>1, SubSeqProperties
      <3> QED
        BY <2>1, <2>7, <3>2, SeqEqual
    <2>9. IsPrefix(intact, read)
      BY <2>1, <2>4, <2>7, <2>8, SubSeqFull DEF IsPrefix
    <2>10. "scripts" \in torn \/ intact = read
      <3> SUFFICES ASSUME c = n PROVE intact = read
        BY <2>6
      <3> QED
        BY <2>1, <2>2, <2>5
    <2> QED
      BY <2>9, <2>10 DEF ScriptsKept, read
  <1> QED
    BY <1>1, ScriptInvariance, PTL

-----------------------------------------------------------------------------
(* Recursive functions. *)

\* Every nonempty set of numbers has a least element.
LEMMA LeastNumber ==
    ASSUME NEW T, T \subseteq Nat, T # {}
    PROVE  \E n \in T : \A m \in T : n <= m
  <1>1. PICK n \in T : \A m \in T : ~(<<m, n>> \in OpToRel(<, Nat))
    BY WFMin, NatLessThanWellFounded
  <1>2. \A m \in T : ~(m < n)
    BY <1>1 DEF OpToRel
  <1>3. \A m \in T : n <= m
    BY <1>2
  <1> QED
    BY <1>3

\* Induction, with a set for the property.
LEMMA UpToInduction ==
    ASSUME NEW n \in Nat, NEW T, 0 \in T,
           \A k \in 1..n : k - 1 \in T => k \in T
    PROVE  0..n \subseteq T
  <1> SUFFICES ASSUME NEW j \in 0..n, j \notin T PROVE FALSE
    OBVIOUS
  <1> DEFINE out == {k \in 0..n : k \notin T}
  <1>1. out \subseteq Nat /\ out # {}
    OBVIOUS
  <1>2. PICK k \in out : \A m \in out : k <= m
    BY <1>1, LeastNumber
  <1>3. k \in 1..n /\ k - 1 \in 0..n
    BY <1>2
  <1>4. k - 1 \in T
    BY <1>2, <1>3
  <1> QED
    BY <1>2, <1>3, <1>4

IsStep(g, n, U) == \A k \in 1..n, u \in U : g[<<k, u>>] \in U
IsRecursion(f, g, e, n, U) ==
    /\ f \in [0..n -> U]
    /\ f[0] = e
    /\ \A k \in 1..n : f[k] = g[<<k, f[k - 1]>>]

\* A function with f[0] = e and f[k] = g[k, f[k - 1]] exists.
LEMMA RecursionExists ==
    ASSUME NEW n \in Nat, NEW U, NEW e \in U, NEW g, IsStep(g, n, U)
    PROVE  \E f : IsRecursion(f, g, e, n, U)
  <1> USE DEF IsStep
  <1> DEFINE Upto(f, m) == /\ f[0] = e
                           /\ \A k \in 1..m : f[k] = g[<<k, f[k - 1]>>]
             T == {m \in 0..n : \E f \in [0..m -> U] : Upto(f, m)}
  <1>1. 0 \in T
    <2> DEFINE f == [k \in 0..0 |-> e]
    <2>1. f \in [0..0 -> U] /\ Upto(f, 0) /\ 0 \in 0..n
      OBVIOUS
    <2> HIDE DEF f, Upto
    <2> QED
      BY <2>1
  <1>2. ASSUME NEW k \in 1..n, k - 1 \in T PROVE k \in T
    <2>1. PICK f \in [0..(k - 1) -> U] : Upto(f, k - 1)
      BY <1>2
    <2> DEFINE h == [j \in 0..k |-> IF j = k THEN g[<<k, f[k - 1]>>] ELSE f[j]]
    <2>2. f[k - 1] \in U
      BY <2>1
    <2>3. h \in [0..k -> U]
      <3> SUFFICES ASSUME NEW j \in 0..k
                   PROVE (IF j = k THEN g[<<k, f[k - 1]>>] ELSE f[j]) \in U
        OBVIOUS
      <3>1. CASE j = k
        BY <2>2, <3>1
      <3>2. CASE j # k
        BY <3>2
      <3> QED
        BY <3>1, <3>2
    <2>4. h[0] = e
      BY <2>1
    <2>5. ASSUME NEW j \in 1..k PROVE h[j] = g[<<j, h[j - 1]>>]
      <3>1. h[j - 1] = f[j - 1]
        OBVIOUS
      <3>2. CASE j = k
        <4>1. h[j] = g[<<j, f[j - 1]>>]
          BY <3>2
        <4> QED
          BY <3>1, <4>1
      <3>3. CASE j # k
        <4>1. j \in 1..(k - 1) /\ h[j] = f[j]
          BY <3>3
        <4> QED
          BY <2>1, <3>1, <4>1
      <3> QED
        BY <3>2, <3>3
    <2> HIDE DEF h
    <2> QED
      BY <2>3, <2>4, <2>5
  <1> HIDE DEF T
  <1>3. n \in T
    BY <1>1, <1>2, UpToInduction
  <1> QED
    BY <1>3 DEF T, IsRecursion

-----------------------------------------------------------------------------
(* Sequences that are joined. *)

IsJoining(f, ss, n, X) ==
    /\ f \in [0..n -> Seq(X)]
    /\ f[0] = <<>>
    /\ \A k \in 1..n : f[k] = f[k - 1] \o ss[k]
    /\ f[n] = FlattenSeq(ss)

\* FlattenSeq joins the sequences one after the other.
LEMMA FlattenSteps ==
    ASSUME NEW X, NEW n \in Nat, NEW ss \in [1..n -> Seq(X)]
    PROVE  \E f : IsJoining(f, ss, n, X)
  <1> DEFINE U == Seq(X)
             g == [z \in (1..n) \X U |-> z[2] \o ss[z[1]]]
             Rec(f) == f = [i \in 1..n |-> IF i = 1 THEN ss[i] ELSE f[i - 1] \o ss[i]]
             flatten == CHOOSE f : Rec(f)
  <1>1. <<>> \in U
    OBVIOUS
  <1>2. \A k \in 1..n, u \in U : u \o ss[k] \in U
    BY ConcatProperties
  <1>3. \A k \in 1..n, u \in U : g[<<k, u>>] = u \o ss[k]
    OBVIOUS
  <1>4. ss \in Seq(U) /\ Len(ss) = n
    OBVIOUS
  <1> HIDE DEF g
  <1>5. PICK f : IsRecursion(f, g, <<>>, n, U)
    <2>1. IsStep(g, n, U)
      BY <1>2, <1>3 DEF IsStep
    <2> QED
      BY <1>1, <2>1, RecursionExists
  <1>6. /\ f \in [0..n -> U] /\ f[0] = <<>>
        /\ \A k \in 1..n : f[k] = f[k - 1] \o ss[k]
    <2>1. f \in [0..n -> U] /\ f[0] = <<>> /\ \A k \in 1..n : f[k] = g[<<k, f[k - 1]>>]
      BY <1>5 DEF IsRecursion
    <2>2. ASSUME NEW k \in 1..n PROVE f[k] = f[k - 1] \o ss[k]
      <3>1. f[k - 1] \in U
        BY <2>1
      <3> QED
        BY <1>3, <2>1, <3>1
    <2> QED
      BY <2>1, <2>2
  <1>7. n # 0 => f[1] = ss[1]
    <2> SUFFICES ASSUME n # 0 PROVE f[1] = ss[1]
      OBVIOUS
    <2>1. 1 \in 1..n /\ 1 - 1 = 0
      OBVIOUS
    <2>2. f[1] = f[0] \o ss[1]
      BY <1>6, <2>1
    <2>3. ss[1] \in Seq(X)
      BY <2>1
    <2> QED
      BY <1>6, <2>2, <2>3, ConcatEmptySeq
  <1>8. CASE n = 0
    <2>1. FlattenSeq(ss) = ss /\ ss = <<>>
      BY <1>4, <1>8 DEF FlattenSeq
    <2> QED
      BY <1>6, <1>8, <2>1 DEF IsJoining
  <1>9. CASE n # 0
    <2> DEFINE h == [i \in 1..n |-> f[i]]
    <2>1. Rec(h)
      <3>1. ASSUME NEW i \in 1..n
            PROVE  f[i] = IF i = 1 THEN ss[i] ELSE h[i - 1] \o ss[i]
        <4>1. f[i] = f[i - 1] \o ss[i]
          BY <1>6
        <4>2. CASE i = 1
          BY <1>9, <1>7, <4>2
        <4>3. CASE i # 1
          <5>1. i - 1 \in 1..n
            BY <4>3
          <5>2. h[i - 1] = f[i - 1]
            BY <5>1
          <5> QED
            BY <4>1, <4>3, <5>2
        <4> QED
          BY <4>2, <4>3
      <3> QED
        BY <3>1
    <2> HIDE DEF h
    <2>2. Rec(flatten)
      BY <2>1
    <2>3. FlattenSeq(ss) = flatten[n]
      BY <1>4, <1>9 DEF FlattenSeq
    <2> HIDE DEF flatten
    <2>4. \A i \in 1..n : flatten[i] = IF i = 1 THEN ss[i] ELSE flatten[i - 1] \o ss[i]
      BY <2>2
    <2> DEFINE T == {k \in 0..n : k = 0 \/ flatten[k] = f[k]}
    <2>5. 0 \in T
      OBVIOUS
    <2>6. ASSUME NEW k \in 1..n, k - 1 \in T PROVE k \in T
      <3>1. f[k] = f[k - 1] \o ss[k]
        BY <1>6
      <3>2. CASE k = 1
        <4>1. flatten[k] = ss[k]
          BY <2>4, <3>2
        <4>2. f[k] = ss[k]
          BY <1>9, <1>7, <3>2
        <4> QED
          BY <4>1, <4>2
      <3>3. CASE k # 1
        <4>1. flatten[k] = flatten[k - 1] \o ss[k]
          BY <2>4, <3>3
        <4>2. flatten[k - 1] = f[k - 1]
          BY <2>6, <3>3
        <4>3. flatten[k] = f[k]
          BY <3>1, <4>1, <4>2
        <4> QED
          BY <4>3
      <3> QED
        BY <3>2, <3>3
    <2> HIDE DEF T
    <2>7. 0..n \subseteq T
      BY <2>5, <2>6, UpToInduction
    <2>8. flatten[n] = f[n]
      BY <1>9, <2>7 DEF T
    <2> QED
      BY <1>6, <2>3, <2>8 DEF IsJoining
  <1> QED
    BY <1>8, <1>9

-----------------------------------------------------------------------------
(* sortTarHeaders. *)

\* A sequence of all members of a set, each of them once.
IsListing(s, S) == s \in Seq(S) /\ IsInjective(s) /\ Range(s) = S

\* Headers that have different names are sorted by ByName: every one has its
\* place behind those that are smaller.
LEMMA ByNameListing ==
    ASSUME NEW hs, IsFiniteSet(hs),
           \A h \in hs : Basename(h.path) \in Nat,
           \A g, h \in hs : Basename(g.path) = Basename(h.path) => g = h
    PROVE  IsListing(ByName(hs), hs)
  <1> DEFINE B(h) == Basename(h.path)
             n == Cardinality(hs)
             Less(h) == {g \in hs : B(g) < B(h)}
             rank == [h \in hs |-> 1 + Cardinality(Less(h))]
             s == [k \in 1..n |-> CHOOSE h \in hs : rank[h] = k]
             Ascends(t) == \A j, k \in DOMAIN t : j < k => B(t[j]) < B(t[k])
  <1>1. n \in Nat /\ IsFiniteSet(1..n) /\ Cardinality(1..n) = n
    BY FS_CardinalityType, FS_Interval
  <1>2. \A h \in hs : B(h) \in Nat
    OBVIOUS
  <1>3. \A g, h \in hs : B(g) = B(h) => g = h
    OBVIOUS
  <1> HIDE DEF B
  <1>4. ASSUME NEW h \in hs
        PROVE  IsFiniteSet(Less(h)) /\ Cardinality(Less(h)) \in 0..(n - 1)
    <2>1. Less(h) \in SUBSET (hs \ {h})
      BY <1>2
    <2>2. IsFiniteSet(hs \ {h}) /\ Cardinality(hs \ {h}) = n - 1
      BY FS_RemoveElement
    <2>3. IsFiniteSet(Less(h)) /\ Cardinality(Less(h)) <= n - 1
      BY <2>1, <2>2, FS_Subset
    <2>4. Cardinality(Less(h)) \in Nat
      BY <2>3, FS_CardinalityType
    <2> QED
      BY <1>1, <2>3, <2>4
  <1>5. ASSUME NEW g \in hs, NEW h \in hs, B(g) < B(h)
        PROVE  Cardinality(Less(g)) < Cardinality(Less(h))
    <2>1. Less(g) \in SUBSET Less(h) /\ g \in Less(h) /\ g \notin Less(g)
      BY <1>2, <1>5
    <2>2. /\ Cardinality(Less(g)) <= Cardinality(Less(h))
          /\ Cardinality(Less(h)) = Cardinality(Less(g)) => Less(h) = Less(g)
      BY <1>4, <2>1, FS_Subset
    <2>3. Cardinality(Less(g)) \in Nat /\ Cardinality(Less(h)) \in Nat
      BY <1>4, FS_CardinalityType
    <2>4. Less(h) # Less(g)
      BY <2>1
    <2> HIDE DEF Less
    <2> QED
      BY <2>2, <2>3, <2>4
  <1> HIDE DEF n, Less
  <1>6. rank \in [hs -> 1..n]
    BY <1>1, <1>4
  <1>7. ASSUME NEW g \in hs, NEW h \in hs, B(g) < B(h) PROVE rank[g] < rank[h]
    BY <1>1, <1>4, <1>5, <1>7
  <1> HIDE DEF rank
  <1>8. rank \in Injection(hs, 1..n)
    <2>1. ASSUME NEW g \in hs, NEW h \in hs, rank[g] = rank[h] PROVE g = h
      <3>1. rank[g] \in Nat /\ rank[h] \in Nat
        BY <1>6
      <3>2. ~(B(g) < B(h)) /\ ~(B(h) < B(g))
        BY <1>7, <2>1, <3>1
      <3>3. B(g) = B(h)
        BY <1>2, <3>2
      <3> QED
        BY <1>3, <3>3
    <2> QED
      BY <1>6, <2>1 DEF Injection, IsInjective
  <1>9. rank \in Surjection(hs, 1..n)
    BY <1>1, <1>8, FS_Injection DEF n
  <1>10. \A k \in 1..n : s[k] \in hs /\ rank[s[k]] = k
    <2>1. \A k \in 1..n : \E h \in hs : rank[h] = k
      BY <1>9 DEF Surjection
    <2> QED
      BY <2>1
  <1>11. s \in [1..n -> hs]
    BY <1>10
  <1>12. DOMAIN s = 1..n
    OBVIOUS
  <1> HIDE DEF s
  <1>13. Ascends(s)
    <2> SUFFICES ASSUME NEW j \in 1..n, NEW k \in 1..n, j < k PROVE B(s[j]) < B(s[k])
      BY <1>12
    <2>1. s[j] \in hs /\ s[k] \in hs /\ rank[s[j]] = j /\ rank[s[k]] = k
      BY <1>10
    <2>2. B(s[j]) # B(s[k])
      BY <1>3, <2>1
    <2>3. ~(B(s[k]) < B(s[j]))
      BY <1>7, <2>1
    <2> QED
      BY <1>2, <2>1, <2>2, <2>3
  <1>14. s \in SetToSeqs(hs)
    <2>1. \A i, j \in 1..n : i # j => s[i] # s[j]
      BY <1>10
    <2> QED
      BY <1>11, <2>1 DEF SetToSeqs, n
  <1> DEFINE b == ByName(hs)
  <1>15. b \in SetToSeqs(hs)
    <2>1. b = CHOOSE t \in SetToSeqs(hs) : Ascends(t)
      BY DEF ByName, B
    <2> HIDE DEF b, Ascends
    <2> QED
      BY <1>13, <1>14, <2>1
  <1> HIDE DEF b
  <1>16. b \in [1..n -> hs] /\ \A i, j \in 1..n : i # j => b[i] # b[j]
    BY <1>15 DEF SetToSeqs, n
  <1>17. b \in Injection(1..n, hs)
    BY <1>16 DEF Injection, IsInjective
  <1>18. b \in Surjection(1..n, hs)
    BY <1>1, <1>17, FS_Injection DEF n
  <1>19. b \in Seq(hs) /\ IsInjective(b) /\ Range(b) = hs
    <2>1. b \in Seq(hs)
      BY <1>1, <1>16
    <2>2. IsInjective(b)
      BY <1>17 DEF Injection
    <2>3. Range(b) = hs
      BY <1>16, <1>18 DEF Range, Surjection
    <2> QED
      BY <2>1, <2>2, <2>3
  <1> QED
    BY <1>19 DEF IsListing, b

\* Two listings without a common member are one listing when joined.
LEMMA ConcatListing ==
    ASSUME NEW S, NEW T, NEW a, NEW b, IsListing(a, S), IsListing(b, T), S \cap T = {}
    PROVE  IsListing(a \o b, S \cup T)
  <1> DEFINE X == S \cup T
             c == a \o b
  <1>1. a \in Seq(S) /\ IsInjective(a) /\ Range(a) = S
    BY DEF IsListing
  <1>2. b \in Seq(T) /\ IsInjective(b) /\ Range(b) = T
    BY DEF IsListing
  <1>3. a \in Seq(X) /\ b \in Seq(X)
    BY <1>1, <1>2, SeqMonotonic
  <1>4. Len(a) \in Nat /\ Len(b) \in Nat /\ DOMAIN a = 1..Len(a) /\ DOMAIN b = 1..Len(b)
    BY <1>3, LenProperties
  <1>5. /\ c \in Seq(X) /\ Len(c) = Len(a) + Len(b)
        /\ \A i \in 1..(Len(a) + Len(b)) :
              c[i] = IF i <= Len(a) THEN a[i] ELSE b[i - Len(a)]
    BY <1>3, ConcatProperties
  <1>6. Range(c) = S \cup T
    BY <1>1, <1>2, <1>3, RangeConcatenation
  <1>7. DOMAIN c = 1..(Len(a) + Len(b))
    BY <1>5, LenProperties
  <1> HIDE DEF c
  <1>8. \A i \in 1..Len(a) : a[i] \in S
    BY <1>1, ElementOfSeq
  <1>9. \A i \in 1..Len(b) : b[i] \in T
    BY <1>2, ElementOfSeq
  <1>10. \A i \in 1..Len(a), j \in 1..Len(a) : a[i] = a[j] => i = j
    BY <1>1, <1>4 DEF IsInjective
  <1>11. \A i \in 1..Len(b), j \in 1..Len(b) : b[i] = b[j] => i = j
    BY <1>2, <1>4 DEF IsInjective
  <1>12. ASSUME NEW i \in 1..(Len(a) + Len(b)), NEW j \in 1..(Len(a) + Len(b)), c[i] = c[j]
         PROVE  i = j
    <2>1. CASE i <= Len(a) /\ j <= Len(a)
      <3>1. i \in 1..Len(a) /\ j \in 1..Len(a) /\ c[i] = a[i] /\ c[j] = a[j]
        BY <1>4, <1>5, <2>1
      <3> QED
        BY <1>10, <1>12, <3>1
    <2>2. CASE ~(i <= Len(a)) /\ ~(j <= Len(a))
      <3>1. /\ i - Len(a) \in 1..Len(b) /\ j - Len(a) \in 1..Len(b)
            /\ c[i] = b[i - Len(a)] /\ c[j] = b[j - Len(a)]
        BY <1>4, <1>5, <2>2
      <3>2. i - Len(a) = j - Len(a)
        BY <1>11, <1>12, <3>1
      <3> QED
        BY <1>4, <3>2
    <2>3. CASE i <= Len(a) /\ ~(j <= Len(a))
      <3>1. /\ i \in 1..Len(a) /\ j - Len(a) \in 1..Len(b)
            /\ c[i] = a[i] /\ c[j] = b[j - Len(a)]
        BY <1>4, <1>5, <2>3
      <3>2. a[i] \in S /\ b[j - Len(a)] \in T
        BY <1>8, <1>9, <3>1
      <3> QED
        BY <1>12, <3>1, <3>2
    <2>4. CASE ~(i <= Len(a)) /\ j <= Len(a)
      <3>1. /\ j \in 1..Len(a) /\ i - Len(a) \in 1..Len(b)
            /\ c[j] = a[j] /\ c[i] = b[i - Len(a)]
        BY <1>4, <1>5, <2>4
      <3>2. a[j] \in S /\ b[i - Len(a)] \in T
        BY <1>8, <1>9, <3>1
      <3> QED
        BY <1>12, <3>1, <3>2
    <2> QED
      BY <2>1, <2>2, <2>3, <2>4
  <1>13. IsInjective(c)
    BY <1>7, <1>12 DEF IsInjective
  <1> QED
    BY <1>5, <1>6, <1>13 DEF IsListing, c

\* "The last directory entry before a file must be the parent in which it sits",
\* where d is the directory before the list.
Placed(L, d) ==
    \A k \in 1..Len(L) : ~L[k].dir =>
       \/ Dirname(L[k].path) = d /\ \A j \in 1..(k - 1) : ~L[j].dir
       \/ \E j \in 1..(k - 1) : /\ L[j].dir /\ L[j].path = Dirname(L[k].path)
                                /\ \A m \in (j + 1)..(k - 1) : ~L[m].dir

\* A directory and what is placed in it come behind a list.
LEMMA JoinPlaced ==
    ASSUME NEW X, NEW a \in Seq(X), NEW c \in Seq(X), NEW x \in X, x.dir,
           NEW d, Placed(a, d), Placed(c, x.path)
    PROVE  Placed(a \o (<<x>> \o c), d)
  <1> DEFINE b == a \o (<<x>> \o c)
             l == Len(a)
  <1>1. l \in Nat /\ Len(c) \in Nat
    BY LenProperties
  <1>2. /\ <<x>> \o c \in Seq(X) /\ Len(<<x>> \o c) = Len(c) + 1
        /\ (<<x>> \o c)[1] = x
        /\ \A i \in 1..Len(c) : (<<x>> \o c)[i + 1] = c[i]
    <2>1. <<x>> \in Seq(X) /\ Len(<<x>>) = 1 /\ <<x>>[1] = x
      OBVIOUS
    <2>2. /\ <<x>> \o c \in Seq(X) /\ Len(<<x>> \o c) = 1 + Len(c)
          /\ \A i \in 1..(1 + Len(c)) :
                (<<x>> \o c)[i] = IF i <= 1 THEN <<x>>[i] ELSE c[i - 1]
      BY <2>1, ConcatProperties
    <2>3. ASSUME NEW i \in 1..Len(c) PROVE (<<x>> \o c)[i + 1] = c[i]
      <3>1. i + 1 \in 1..(1 + Len(c)) /\ ~(i + 1 <= 1) /\ (i + 1) - 1 = i
        BY <1>1
      <3> QED
        BY <2>2, <3>1
    <2>4. (<<x>> \o c)[1] = x
      BY <1>1, <2>1, <2>2
    <2> QED
      BY <1>1, <2>2, <2>3, <2>4
  <1>3. /\ Len(b) = l + 1 + Len(c)
        /\ \A i \in 1..l : b[i] = a[i]
        /\ b[l + 1] = x
        /\ \A i \in 1..Len(c) : b[l + 1 + i] = c[i]
    <2>1. /\ Len(b) = l + (Len(c) + 1)
          /\ \A i \in 1..(l + (Len(c) + 1)) :
                b[i] = IF i <= l THEN a[i] ELSE (<<x>> \o c)[i - l]
      BY <1>2, ConcatProperties
    <2>2. ASSUME NEW i \in 1..Len(c) PROVE b[l + 1 + i] = c[i]
      <3>1. /\ l + 1 + i \in 1..(l + (Len(c) + 1)) /\ ~(l + 1 + i <= l)
            /\ (l + 1 + i) - l = i + 1
        BY <1>1
      <3>2. b[l + 1 + i] = (<<x>> \o c)[i + 1]
        BY <2>1, <3>1
      <3> QED
        BY <1>2, <3>2
    <2>3. b[l + 1] = x
      <3>1. l + 1 \in 1..(l + (Len(c) + 1)) /\ ~(l + 1 <= l) /\ (l + 1) - l = 1
        BY <1>1
      <3>2. b[l + 1] = (<<x>> \o c)[1]
        BY <2>1, <3>1
      <3> QED
        BY <1>2, <3>2
    <2>4. \A i \in 1..l : b[i] = a[i]
      BY <1>1, <2>1
    <2> QED
      BY <1>1, <2>1, <2>2, <2>3, <2>4
  <1> HIDE DEF b, l
  <1> SUFFICES ASSUME NEW k \in 1..Len(b), ~b[k].dir
               PROVE  \/ Dirname(b[k].path) = d /\ \A j \in 1..(k - 1) : ~b[j].dir
                      \/ \E j \in 1..(k - 1) : /\ b[j].dir /\ b[j].path = Dirname(b[k].path)
                                               /\ \A m \in (j + 1)..(k - 1) : ~b[m].dir
    BY DEF Placed, b
  <1>4. CASE k <= l
    <2>1. k \in 1..l /\ b[k] = a[k]
      BY <1>1, <1>3, <1>4
    <2>2. \A j \in 1..(k - 1) : b[j] = a[j]
      BY <1>1, <1>3, <1>4
    <2>3. \/ Dirname(a[k].path) = d /\ \A j \in 1..(k - 1) : ~a[j].dir
          \/ \E j \in 1..(k - 1) : /\ a[j].dir /\ a[j].path = Dirname(a[k].path)
                                   /\ \A m \in (j + 1)..(k - 1) : ~a[m].dir
      BY <2>1 DEF Placed, l
    <2>4. CASE Dirname(a[k].path) = d /\ \A j \in 1..(k - 1) : ~a[j].dir
      BY <2>1, <2>2, <2>4
    <2>5. CASE \E j \in 1..(k - 1) : /\ a[j].dir /\ a[j].path = Dirname(a[k].path)
                                     /\ \A m \in (j + 1)..(k - 1) : ~a[m].dir
      <3>1. PICK j \in 1..(k - 1) : /\ a[j].dir /\ a[j].path = Dirname(a[k].path)
                                    /\ \A m \in (j + 1)..(k - 1) : ~a[m].dir
        BY <2>5
      <3>2. \A m \in (j + 1)..(k - 1) : m \in 1..(k - 1)
        OBVIOUS
      <3>3. b[j].dir /\ b[j].path = Dirname(b[k].path)
        BY <2>1, <2>2, <3>1
      <3>4. \A m \in (j + 1)..(k - 1) : ~b[m].dir
        BY <2>2, <3>1, <3>2
      <3> QED
        BY <3>3, <3>4
    <2> QED
      BY <2>3, <2>4, <2>5
  <1>5. CASE k > l
    <2>1. k # l + 1
      BY <1>3
    <2> DEFINE i == k - (l + 1)
    <2>2. i \in 1..Len(c) /\ k = l + 1 + i
      BY <1>1, <1>3, <1>5, <2>1
    <2> HIDE DEF i
    <2>3. b[k] = c[i]
      BY <1>3, <2>2
    <2>4. \A j \in 1..(i - 1) : j \in 1..Len(c) /\ b[l + 1 + j] = c[j]
      BY <1>1, <1>3, <2>2
    <2>5. \/ Dirname(c[i].path) = x.path /\ \A j \in 1..(i - 1) : ~c[j].dir
          \/ \E j \in 1..(i - 1) : /\ c[j].dir /\ c[j].path = Dirname(c[i].path)
                                   /\ \A m \in (j + 1)..(i - 1) : ~c[m].dir
      BY <2>2, <2>3 DEF Placed
    <2>6. CASE Dirname(c[i].path) = x.path /\ \A j \in 1..(i - 1) : ~c[j].dir
      <3>1. l + 1 \in 1..(k - 1) /\ b[l + 1].dir /\ b[l + 1].path = Dirname(b[k].path)
        BY <1>1, <1>3, <2>2, <2>3, <2>6
      <3>2. ASSUME NEW m \in (l + 1 + 1)..(k - 1) PROVE ~b[m].dir
        <4>1. m - (l + 1) \in 1..(i - 1) /\ m = l + 1 + (m - (l + 1))
          BY <1>1, <2>2
        <4>2. b[m] = c[m - (l + 1)]
          BY <2>4, <4>1
        <4> QED
          BY <2>6, <4>1, <4>2
      <3> QED
        BY <3>1, <3>2
    <2>7. CASE \E j \in 1..(i - 1) : /\ c[j].dir /\ c[j].path = Dirname(c[i].path)
                                     /\ \A m \in (j + 1)..(i - 1) : ~c[m].dir
      <3>1. PICK j \in 1..(i - 1) : /\ c[j].dir /\ c[j].path = Dirname(c[i].path)
                                    /\ \A m \in (j + 1)..(i - 1) : ~c[m].dir
        BY <2>7
      <3>2. l + 1 + j \in 1..(k - 1)
        BY <1>1, <2>2
      <3>3. b[l + 1 + j].dir /\ b[l + 1 + j].path = Dirname(b[k].path)
        BY <2>3, <2>4, <3>1
      <3>4. ASSUME NEW m \in (l + 1 + j + 1)..(k - 1) PROVE ~b[m].dir
        <4>1. /\ m - (l + 1) \in (j + 1)..(i - 1) /\ m - (l + 1) \in 1..(i - 1)
              /\ m = l + 1 + (m - (l + 1))
          BY <1>1, <2>2
        <4>2. b[m] = c[m - (l + 1)]
          BY <2>4, <4>1
        <4> QED
          BY <3>1, <4>1, <4>2
      <3> QED
        BY <3>2, <3>3, <3>4
    <2> QED
      BY <2>5, <2>6, <2>7
  <1> QED
    BY <1>1, <1>3, <1>4, <1>5

\* The beginnings of a path.
LEMMA Beginnings ==
    ASSUME NEW p \in Seq(Nat), NEW n \in 0..Len(p)
    PROVE  /\ SubSeq(p, 1, n) \in Seq(Nat) /\ Len(SubSeq(p, 1, n)) = n
           /\ \A m \in 0..n : SubSeq(SubSeq(p, 1, n), 1, m) = SubSeq(p, 1, m)
           /\ n = Len(p) => SubSeq(p, 1, n) = p
  <1> DEFINE q == SubSeq(p, 1, n)
  <1>1. Len(p) \in Nat /\ n \in Nat /\ \A i \in 1..Len(p) : p[i] \in Nat
    BY LenProperties
  <1>2. /\ q \in Seq(Nat) /\ Len(q) = n
        /\ \A i \in 1..n : q[i] = p[i]
    <2>1. \A i \in 1..n : p[i] \in Nat
      BY <1>1
    <2>2. /\ q \in Seq(Nat) /\ Len(q) = IF 1 <= n THEN n - 1 + 1 ELSE 0
          /\ \A i \in 1..(n - 1 + 1) : q[i] = p[1 + i - 1]
      BY <1>1, <2>1, SubSeqProperties
    <2> HIDE DEF q
    <2>3. ASSUME NEW i \in 1..n PROVE q[i] = p[i]
      <3>1. i \in 1..(n - 1 + 1) /\ 1 + i - 1 = i
        BY <1>1
      <3> QED
        BY <2>2, <3>1
    <2> QED
      BY <1>1, <2>2, <2>3
  <1> HIDE DEF q
  <1>3. ASSUME NEW m \in 0..n PROVE SubSeq(q, 1, m) = SubSeq(p, 1, m)
    <2>1. m \in Nat /\ \A i \in 1..m : i \in 1..n /\ i \in 1..Len(p)
      BY <1>1
    <2>2. \A i \in 1..m : q[i] \in Nat /\ p[i] \in Nat /\ q[i] = p[i]
      BY <1>1, <1>2, <2>1
    <2>3. /\ SubSeq(q, 1, m) \in Seq(Nat) /\ Len(SubSeq(q, 1, m)) = IF 1 <= m THEN m - 1 + 1 ELSE 0
          /\ \A i \in 1..(m - 1 + 1) : SubSeq(q, 1, m)[i] = q[1 + i - 1]
      BY <2>1, <2>2, SubSeqProperties
    <2>4. /\ SubSeq(p, 1, m) \in Seq(Nat) /\ Len(SubSeq(p, 1, m)) = IF 1 <= m THEN m - 1 + 1 ELSE 0
          /\ \A i \in 1..(m - 1 + 1) : SubSeq(p, 1, m)[i] = p[1 + i - 1]
      BY <2>1, <2>2, SubSeqProperties
    <2>5. Len(SubSeq(q, 1, m)) = m /\ Len(SubSeq(p, 1, m)) = m
      BY <2>1, <2>3, <2>4
    <2>6. ASSUME NEW i \in 1..m PROVE SubSeq(q, 1, m)[i] = SubSeq(p, 1, m)[i]
      <3>1. i \in 1..(m - 1 + 1) /\ 1 + i - 1 = i
        BY <2>1
      <3> QED
        BY <2>2, <2>3, <2>4, <3>1
    <2> QED
      BY <2>3, <2>4, <2>5, <2>6, SeqEqual
  <1>4. n = Len(p) => q = p
    BY SubSeqFull DEF q
  <1> QED
    BY <1>2, <1>3, <1>4 DEF q

\* A path is its directory and its name.
LEMMA HeaderPaths ==
    ASSUME NEW hs, IsArchive(hs), NEW h \in hs
    PROVE  /\ h.path \in Seq(Nat) /\ Len(h.path) \in Nat /\ Len(h.path) >= 1
           /\ h.dir \in BOOLEAN /\ h.std \in BOOLEAN
           /\ Dirname(h.path) \in Seq(Nat) /\ Len(Dirname(h.path)) = Len(h.path) - 1
           /\ Basename(h.path) \in Nat
           /\ h.path = Dirname(h.path) \o <<Basename(h.path)>>
  <1>1. h \in Headers
    BY DEF IsArchive
  <1>2. /\ h.path \in Seq(Nat) /\ h.path # <<>>
        /\ h.dir \in BOOLEAN /\ h.std \in BOOLEAN
    BY <1>1 DEF Headers
  <1>3. Len(h.path) \in Nat \ {0}
    BY <1>2, EmptySeq
  <1>4. Len(h.path) - 1 \in 0..Len(h.path)
    BY <1>3
  <1>5. Dirname(h.path) \in Seq(Nat) /\ Len(Dirname(h.path)) = Len(h.path) - 1
    BY <1>2, <1>4, Beginnings DEF Dirname
  <1>6. Len(h.path) \in 1..Len(h.path)
    BY <1>3
  <1>7. Basename(h.path) \in Nat
    BY <1>2, <1>6, ElementOfSeq DEF Basename
  <1>8. h.path = Dirname(h.path) \o <<Basename(h.path)>>
    <2>1. 1 \in 1..Len(h.path)
      BY <1>3
    <2>2. SubSeq(h.path, 1, Len(h.path))
             = SubSeq(h.path, 1, Len(h.path) - 1) \o <<h.path[Len(h.path)]>>
      BY <1>2, <1>6, <2>1, SubSeqRecursiveSecond
    <2>3. SubSeq(h.path, 1, Len(h.path)) = h.path
      BY <1>2, SubSeqFull
    <2> QED
      BY <2>2, <2>3 DEF Dirname, Basename
  <1> QED
    BY <1>2, <1>3, <1>5, <1>7, <1>8

\* What is under some headers in an unbroken line of directories, and these.
IsUnder(h, g, hs) ==
    /\ Len(g.path) <= Len(h.path) /\ SubSeq(h.path, 1, Len(g.path)) = g.path
    /\ \A n \in Len(g.path)..(Len(h.path) - 1) :
          \E d \in hs : d.dir /\ d.path = SubSeq(h.path, 1, n)

Below(hs, s) == {h \in hs : \E g \in s : IsUnder(h, g, hs)}

\* A child's path begins with its directory's.
LEMMA ChildPaths ==
    ASSUME NEW hs, IsArchive(hs), NEW x \in hs, NEW g \in Children(hs, x.path)
    PROVE  /\ g \in hs /\ Len(g.path) = Len(x.path) + 1
           /\ SubSeq(g.path, 1, Len(x.path)) = x.path
  <1>1. g \in hs /\ Dirname(g.path) = x.path
    BY DEF Children
  <1>2. Len(g.path) \in Nat /\ Len(x.path) = Len(g.path) - 1
    BY <1>1, HeaderPaths
  <1> QED
    BY <1>1, <1>2 DEF Dirname

\* What is in a directory is longer than its path, and begins with it.
LEMMA BelowLonger ==
    ASSUME NEW hs, IsArchive(hs), NEW x \in hs, NEW h \in Below(hs, Children(hs, x.path))
    PROVE  Len(x.path) < Len(h.path) /\ SubSeq(h.path, 1, Len(x.path)) = x.path
  <1>1. PICK g \in Children(hs, x.path) : IsUnder(h, g, hs)
    BY DEF Below
  <1>2. g \in hs /\ Len(g.path) = Len(x.path) + 1 /\ SubSeq(g.path, 1, Len(x.path)) = x.path
    BY ChildPaths
  <1>3. h \in hs
    BY DEF Below
  <1>4. /\ h.path \in Seq(Nat) /\ Len(h.path) \in Nat
        /\ Len(x.path) \in Nat /\ Len(g.path) \in Nat
    BY <1>2, <1>3, HeaderPaths
  <1>5. Len(g.path) <= Len(h.path) /\ SubSeq(h.path, 1, Len(g.path)) = g.path
    BY <1>1 DEF IsUnder
  <1>6. Len(g.path) \in 0..Len(h.path) /\ Len(x.path) \in 0..Len(g.path)
    BY <1>2, <1>4, <1>5
  <1>7. SubSeq(SubSeq(h.path, 1, Len(g.path)), 1, Len(x.path)) = SubSeq(h.path, 1, Len(x.path))
    BY <1>4, <1>6, Beginnings
  <1> QED
    BY <1>2, <1>4, <1>5, <1>7

\* One step down.
LEMMA BelowStep ==
    ASSUME NEW hs, IsArchive(hs), NEW s, s \subseteq hs, NEW h
    PROVE  h \in Below(hs, s) <=>
              h \in s \/ \E x \in s : x.dir /\ h \in Below(hs, Children(hs, x.path))
  <1>1. ASSUME h \in s PROVE h \in Below(hs, s)
    <2>1. h \in hs
      BY <1>1
    <2>2. h.path \in Seq(Nat) /\ Len(h.path) \in Nat
      BY <2>1, HeaderPaths
    <2>3. IsUnder(h, h, hs)
      BY <2>2, SubSeqFull DEF IsUnder
    <2> QED
      BY <1>1, <2>1, <2>3 DEF Below
  <1>2. ASSUME NEW x \in s, x.dir, h \in Below(hs, Children(hs, x.path))
        PROVE  h \in Below(hs, s)
    <2>1. x \in hs /\ h \in hs
      BY <1>2 DEF Below
    <2>2. Len(x.path) < Len(h.path) /\ SubSeq(h.path, 1, Len(x.path)) = x.path
      BY <1>2, <2>1, BelowLonger
    <2>3. PICK g \in Children(hs, x.path) : IsUnder(h, g, hs)
      BY <1>2 DEF Below
    <2>4. g \in hs /\ Len(g.path) = Len(x.path) + 1
      BY <2>1, ChildPaths
    <2>5. Len(x.path) \in Nat /\ Len(h.path) \in Nat
      BY <2>1, HeaderPaths
    <2>6. ASSUME NEW n \in Len(x.path)..(Len(h.path) - 1)
          PROVE  \E d \in hs : d.dir /\ d.path = SubSeq(h.path, 1, n)
      <3>1. CASE n = Len(x.path)
        BY <1>2, <2>1, <2>2, <3>1
      <3>2. CASE n # Len(x.path)
        <4>1. n \in Len(g.path)..(Len(h.path) - 1)
          BY <2>4, <2>5, <3>2
        <4> QED
          BY <2>3, <4>1 DEF IsUnder
      <3> QED
        BY <3>1, <3>2
    <2>7. IsUnder(h, x, hs)
      BY <2>2, <2>5, <2>6 DEF IsUnder
    <2> QED
      BY <2>1, <2>7 DEF Below
  <1>3. ASSUME h \in Below(hs, s), h \notin s
        PROVE  \E x \in s : x.dir /\ h \in Below(hs, Children(hs, x.path))
    <2>1. PICK x \in s : IsUnder(h, x, hs)
      BY <1>3 DEF Below
    <2>2. h \in hs /\ x \in hs
      BY <1>3 DEF Below
    <2>3. /\ Len(x.path) <= Len(h.path) /\ SubSeq(h.path, 1, Len(x.path)) = x.path
          /\ \A n \in Len(x.path)..(Len(h.path) - 1) :
                \E d \in hs : d.dir /\ d.path = SubSeq(h.path, 1, n)
      BY <2>1 DEF IsUnder
    <2>4. h.path \in Seq(Nat) /\ Len(h.path) \in Nat /\ Len(x.path) \in Nat
      BY <2>2, HeaderPaths
    <2>5. \A u, v \in hs : u.path = v.path => u = v
      BY DEF IsArchive
    <2>6. Len(x.path) < Len(h.path)
      <3>1. ASSUME Len(x.path) = Len(h.path) PROVE FALSE
        <4>1. h.path = x.path
          BY <2>3, <2>4, <3>1, SubSeqFull
        <4> QED
          BY <1>3, <2>2, <2>5, <4>1
      <3> QED
        BY <2>3, <2>4, <3>1
    <2> DEFINE l == Len(x.path)
    <2>7. x.dir
      <3>1. l \in l..(Len(h.path) - 1)
        BY <2>4, <2>6
      <3>2. PICK d \in hs : d.dir /\ d.path = SubSeq(h.path, 1, l)
        BY <2>3, <3>1
      <3>3. d = x
        BY <2>2, <2>3, <2>5, <3>2
      <3> QED
        BY <3>2, <3>3
    <2>8. \E g \in hs : g.path = SubSeq(h.path, 1, l + 1)
      <3>1. CASE l + 1 = Len(h.path)
        BY <2>2, <2>4, <3>1, SubSeqFull
      <3>2. CASE l + 1 # Len(h.path)
        <4>1. l + 1 \in l..(Len(h.path) - 1)
          BY <2>4, <2>6, <3>2
        <4> QED
          BY <2>3, <4>1
      <3> QED
        BY <3>1, <3>2
    <2>9. PICK g \in hs : g.path = SubSeq(h.path, 1, l + 1)
      BY <2>8
    <2>10. l + 1 \in 0..Len(h.path) /\ l \in 0..(l + 1)
      BY <2>4, <2>6
    <2>11. Len(g.path) = l + 1 /\ SubSeq(g.path, 1, l) = SubSeq(h.path, 1, l)
      BY <2>4, <2>9, <2>10, Beginnings
    <2>12. Dirname(g.path) = x.path
      <3>1. Len(g.path) - 1 = l
        BY <2>4, <2>11
      <3> QED
        BY <2>3, <2>11, <3>1 DEF Dirname
    <2>13. IsUnder(h, g, hs)
      <3>1. Len(g.path) <= Len(h.path) /\ SubSeq(h.path, 1, Len(g.path)) = g.path
        BY <2>4, <2>6, <2>9, <2>11
      <3>2. \A n \in Len(g.path)..(Len(h.path) - 1) : n \in l..(Len(h.path) - 1)
        BY <2>4, <2>11
      <3> QED
        BY <2>3, <3>1, <3>2 DEF IsUnder
    <2>14. h \in Below(hs, Children(hs, x.path))
      BY <2>2, <2>9, <2>12, <2>13 DEF Below, Children
    <2> QED
      BY <2>7, <2>14
  <1> QED
    BY <1>1, <1>2, <1>3

\* No path is longer than some number.
LEMMA DepthExists ==
    ASSUME NEW hs, IsArchive(hs)
    PROVE  \E D \in Nat : \A h \in hs : Len(h.path) <= D
  <1>1. IsFiniteSet(hs)
    BY DEF IsArchive
  <1>2. PICK n \in Nat : ExistsBijection(1..n, hs)
    BY <1>1, FS_NatBijection
  <1>3. PICK f \in [1..n -> hs] : \A h \in hs : \E k \in 1..n : f[k] = h
    BY <1>2 DEF ExistsBijection, Bijection, Surjection
  <1>4. \A k \in 1..n : Len(f[k].path) \in Nat
    BY <1>3, HeaderPaths
  <1> DEFINE T == {k \in 0..n : \E D \in Nat : \A j \in 1..k : Len(f[j].path) <= D}
  <1>5. 0 \in T
    OBVIOUS
  <1>6. ASSUME NEW k \in 1..n, k - 1 \in T PROVE k \in T
    <2>1. PICK D \in Nat : \A j \in 1..(k - 1) : Len(f[j].path) <= D
      BY <1>6
    <2> DEFINE l == Len(f[k].path)
               E == IF l <= D THEN D ELSE l
    <2>2. l \in Nat
      BY <1>4
    <2>3. E \in Nat /\ D <= E /\ l <= E
      BY <2>2
    <2>4. ASSUME NEW j \in 1..k PROVE Len(f[j].path) <= E
      <3>1. CASE j = k
        BY <2>3, <3>1
      <3>2. CASE j # k
        <4>1. j \in 1..(k - 1) /\ j \in 1..n
          BY <3>2
        <4>2. Len(f[j].path) <= D /\ Len(f[j].path) \in Nat
          BY <1>4, <2>1, <4>1
        <4> HIDE DEF E
        <4> QED
          BY <2>3, <4>2
      <3> QED
        BY <3>1, <3>2
    <2> HIDE DEF E
    <2> QED
      BY <2>3, <2>4
  <1> HIDE DEF T
  <1>7. n \in T
    BY <1>5, <1>6, UpToInduction
  <1>8. PICK D \in Nat : \A j \in 1..n : Len(f[j].path) <= D
    BY <1>7 DEF T
  <1> QED
    BY <1>3, <1>8

\* What sortChildrenTarHeaders makes of some siblings if f is what it makes of
\* the children of each of them.
Listed(hs, f, s) ==
    LET dirs == ByName({h \in s : h.dir})
    IN  ByName({h \in s : ~h.dir})
           \o FlattenSeq([k \in DOMAIN dirs |->
                           <<dirs[k]>> \o f[Children(hs, dirs[k].path)]])

\* Siblings have names of their own, so that they can be sorted by them.
LEMMA SiblingsSorted ==
    ASSUME NEW hs, IsArchive(hs), NEW d, NEW t, t \subseteq Children(hs, d)
    PROVE  IsListing(ByName(t), t)
  <1>1. t \subseteq hs /\ \A h \in t : Dirname(h.path) = d
    BY DEF Children
  <1>2. IsFiniteSet(t)
    BY <1>1, FS_Subset DEF IsArchive
  <1>3. \A h \in t : Basename(h.path) \in Nat /\ h.path = d \o <<Basename(h.path)>>
    BY <1>1, HeaderPaths
  <1>4. ASSUME NEW g \in t, NEW h \in t, Basename(g.path) = Basename(h.path) PROVE g = h
    <2>1. g.path = h.path
      BY <1>3, <1>4
    <2> QED
      BY <1>1, <2>1 DEF IsArchive
  <1> QED
    BY <1>2, <1>3, <1>4, ByNameListing

\* The list of a family depends on the lists of its directories alone.
LEMMA ListedSame ==
    ASSUME NEW hs, IsArchive(hs), NEW d, NEW s, s \subseteq Children(hs, d), NEW f, NEW g,
           \A x \in s : f[Children(hs, x.path)] = g[Children(hs, x.path)]
    PROVE  Listed(hs, f, s) = Listed(hs, g, s)
  <1> DEFINE dirs == ByName({h \in s : h.dir})
             ss(u) == [k \in DOMAIN dirs |-> <<dirs[k]>> \o u[Children(hs, dirs[k].path)]]
  <1>1. IsListing(dirs, {h \in s : h.dir})
    <2>1. {h \in s : h.dir} \subseteq Children(hs, d)
      OBVIOUS
    <2> QED
      BY <2>1, SiblingsSorted
  <1>2. \A k \in DOMAIN dirs : dirs[k] \in s
    BY <1>1, LenProperties, ElementOfSeq DEF IsListing
  <1> HIDE DEF dirs
  <1>3. ss(f) = ss(g)
    BY <1>2
  <1> QED
    BY <1>3 DEF Listed, dirs

\* A header and what is under it.
Branch(hs, x) == {x} \cup Below(hs, Children(hs, x.path))

\* Everything in a branch is under its header.
LEMMA BranchPaths ==
    ASSUME NEW hs, IsArchive(hs), NEW x \in hs, NEW y \in Branch(hs, x)
    PROVE  /\ y \in hs /\ SubSeq(y.path, 1, Len(x.path)) = x.path
           /\ y # x => Len(x.path) < Len(y.path)
  <1>1. CASE y = x
    BY <1>1, HeaderPaths, SubSeqFull
  <1>2. CASE y \in Below(hs, Children(hs, x.path))
    BY <1>2, BelowLonger DEF Below
  <1> QED
    BY <1>1, <1>2 DEF Branch

\* The branches of two siblings share nothing.
LEMMA SiblingsApart ==
    ASSUME NEW hs, IsArchive(hs), NEW d, NEW x \in Children(hs, d), NEW z \in Children(hs, d),
           x # z
    PROVE  Branch(hs, x) \cap Branch(hs, z) = {} /\ z \notin Branch(hs, x)
  <1>1. x \in hs /\ z \in hs /\ Dirname(x.path) = d /\ Dirname(z.path) = d
    BY DEF Children
  <1>2. /\ Len(x.path) \in Nat /\ Len(z.path) \in Nat
        /\ Len(d) = Len(x.path) - 1 /\ Len(d) = Len(z.path) - 1
    BY <1>1, HeaderPaths
  <1>3. Len(x.path) = Len(z.path)
    BY <1>2
  <1>4. ASSUME NEW y \in Branch(hs, x), y \in Branch(hs, z) PROVE FALSE
    <2>1. SubSeq(y.path, 1, Len(x.path)) = x.path /\ SubSeq(y.path, 1, Len(z.path)) = z.path
      BY <1>1, <1>4, BranchPaths
    <2>2. x.path = z.path
      BY <1>3, <2>1
    <2> QED
      BY <1>1, <2>2 DEF IsArchive
  <1>5. z \in Branch(hs, z)
    BY DEF Branch
  <1> QED
    BY <1>4, <1>5

\* If what is under each directory is listed in its place, so are the siblings
\* with all that is under them.
LEMMA ListedGood ==
    ASSUME NEW hs, IsArchive(hs), NEW d, NEW s, s \subseteq Children(hs, d), NEW f,
           \A x \in s : LET c == Children(hs, x.path)
                        IN  IsListing(f[c], Below(hs, c)) /\ Placed(f[c], x.path)
    PROVE  IsListing(Listed(hs, f, s), Below(hs, s)) /\ Placed(Listed(hs, f, s), d)
  <1> DEFINE F == {h \in s : ~h.dir}
             G == {h \in s : h.dir}
             a == ByName(F)
             dirs == ByName(G)
             n == Len(dirs)
             c(k) == f[Children(hs, dirs[k].path)]
             ss == [k \in 1..n |-> <<dirs[k]>> \o c(k)]
             Acc(k) == F \cup UNION {Branch(hs, dirs[i]) : i \in 1..k}
  <1>1. IsListing(a, F) /\ IsListing(dirs, G)
    <2>1. F \subseteq Children(hs, d) /\ G \subseteq Children(hs, d)
      OBVIOUS
    <2> QED
      BY <2>1, SiblingsSorted
  <1>2. s \subseteq hs
    BY DEF Children
  <1>3. /\ a \in Seq(F) /\ Range(a) = F
        /\ dirs \in Seq(G) /\ Range(dirs) = G /\ IsInjective(dirs)
    BY <1>1 DEF IsListing
  <1> HIDE DEF a, dirs
  <1>4. n \in Nat /\ DOMAIN dirs = 1..n /\ Len(a) \in Nat /\ DOMAIN a = 1..Len(a)
    BY <1>3, LenProperties
  <1>5. \A k \in 1..n : dirs[k] \in G
    BY <1>3, ElementOfSeq
  <1>6. \A k \in 1..Len(a) : a[k] \in F
    BY <1>3, ElementOfSeq
  <1>7. a \in Seq(hs)
    <2>1. F \subseteq hs
      BY <1>2
    <2> QED
      BY <1>3, <2>1, SeqMonotonic
  <1>8. \A k \in 1..n : /\ IsListing(c(k), Below(hs, Children(hs, dirs[k].path)))
                        /\ Placed(c(k), dirs[k].path)
    BY <1>5
  <1> HIDE DEF n, F, G
  <1>9. \A k \in 1..n : dirs[k] \in s /\ dirs[k] \in hs /\ dirs[k].dir
    BY <1>2, <1>5 DEF G
  <1>10. \A k \in 1..n : c(k) \in Seq(hs)
    <2>1. \A k \in 1..n : c(k) \in Seq(Below(hs, Children(hs, dirs[k].path)))
      BY <1>8 DEF IsListing
    <2>2. \A t : Below(hs, t) \subseteq hs
      BY DEF Below
    <2> QED
      BY <2>1, <2>2, SeqMonotonic
  <1> HIDE DEF c
  <1>11. ss \in [1..n -> Seq(hs)]
    <2>1. ASSUME NEW k \in 1..n PROVE <<dirs[k]>> \o c(k) \in Seq(hs)
      <3>1. <<dirs[k]>> \in Seq(hs)
        BY <1>9
      <3> QED
        BY <1>10, <3>1, ConcatProperties
    <2> QED
      BY <2>1
  <1>12. \A k \in 1..n : ss[k] = <<dirs[k]>> \o c(k)
    OBVIOUS
  <1>13. Listed(hs, f, s) = a \o FlattenSeq(ss)
    BY <1>4 DEF Listed, a, dirs, F, G, c
  <1> HIDE DEF ss
  <1>14. PICK j : IsJoining(j, ss, n, hs)
    BY <1>4, <1>11, FlattenSteps
  <1>15. /\ j \in [0..n -> Seq(hs)] /\ j[0] = <<>>
         /\ \A k \in 1..n : j[k] = j[k - 1] \o ss[k]
         /\ j[n] = FlattenSeq(ss)
    BY <1>14 DEF IsJoining
  <1> DEFINE T == {k \in 0..n : IsListing(a \o j[k], Acc(k)) /\ Placed(a \o j[k], d)}
  <1>16. 0 \in T
    <2>1. a \o j[0] = a
      BY <1>7, <1>15, ConcatEmptySeq
    <2>2. Acc(0) = F
      OBVIOUS
    <2>3. Placed(a, d)
      <3>1. \A k \in 1..Len(a) : ~a[k].dir /\ Dirname(a[k].path) = d
        BY <1>6 DEF F, Children
      <3>2. \A k \in 1..Len(a) : \A i \in 1..(k - 1) : i \in 1..Len(a)
        BY <1>4
      <3> QED
        BY <3>1, <3>2 DEF Placed
    <2>4. 0 \in 0..n
      BY <1>4
    <2> QED
      BY <1>1, <2>1, <2>2, <2>3, <2>4 DEF a, F
  <1>17. ASSUME NEW k \in 1..n, k - 1 \in T PROVE k \in T
    <2> DEFINE x == dirs[k]
               b == a \o j[k - 1]
               C == Below(hs, Children(hs, x.path))
    <2>1. IsListing(b, Acc(k - 1)) /\ Placed(b, d)
      BY <1>17
    <2>2. k - 1 \in 0..n /\ k \in 0..n /\ j[k - 1] \in Seq(hs) /\ ss[k] \in Seq(hs)
      <3>1. k - 1 \in 0..n /\ k \in 0..n
        BY <1>4
      <3>2. j[k - 1] \in Seq(hs)
        BY <1>15, <3>1
      <3>3. ss[k] \in Seq(hs)
        BY <1>11
      <3> QED
        BY <3>1, <3>2, <3>3
    <2>3. b \in Seq(hs)
      BY <1>7, <2>2, ConcatProperties
    <2>4. a \o j[k] = b \o ss[k]
      <3>1. j[k] = j[k - 1] \o ss[k]
        BY <1>15
      <3>2. \A u, v \in Seq(hs) : (a \o u) \o v = a \o (u \o v)
        BY <1>7, ConcatAssociative
      <3>3. (a \o j[k - 1]) \o ss[k] = a \o (j[k - 1] \o ss[k])
        BY <2>2, <3>2
      <3> QED
        BY <3>1, <3>3
    <2>5. x \in s /\ x \in hs /\ x.dir /\ x \in Children(hs, d)
      BY <1>9
    <2>6. IsListing(c(k), C) /\ Placed(c(k), x.path)
      BY <1>8
    <2>7. IsListing(<<x>>, {x})
      <3>1. <<x>> \in Seq({x}) /\ DOMAIN <<x>> = {1} /\ <<x>>[1] = x
        OBVIOUS
      <3> QED
        BY <3>1 DEF IsListing, IsInjective, Range
    <2>8. {x} \cap C = {}
      <3> SUFFICES ASSUME x \in C PROVE FALSE
        OBVIOUS
      <3>1. Len(x.path) < Len(x.path)
        BY <2>5, BelowLonger
      <3>2. Len(x.path) \in Nat
        BY <2>5, HeaderPaths
      <3> QED
        BY <3>1, <3>2
    <2> HIDE DEF C
    <2>9. IsListing(ss[k], Branch(hs, x))
      <3>1. ss[k] = <<x>> \o c(k)
        BY <1>12
      <3>2. IsListing(<<x>> \o c(k), {x} \cup C)
        BY <2>6, <2>7, <2>8, ConcatListing
      <3>3. Branch(hs, x) = {x} \cup C
        BY DEF Branch, C
      <3> QED
        BY <3>1, <3>2, <3>3
    <2>10. Acc(k - 1) \cap Branch(hs, x) = {}
      <3>1. ASSUME NEW y \in F, y \in Branch(hs, x) PROVE FALSE
        <4>1. y \in Children(hs, d) /\ y # x
          BY <2>5, <3>1 DEF F
        <4> QED
          BY <2>5, <3>1, <4>1, SiblingsApart
      <3>2. ASSUME NEW i \in 1..(k - 1) PROVE Branch(hs, dirs[i]) \cap Branch(hs, x) = {}
        <4>1. i \in 1..n /\ i # k
          BY <1>4
        <4>2. dirs[i] # x
          BY <1>3, <1>4, <4>1 DEF IsInjective
        <4>3. dirs[i] \in Children(hs, d)
          BY <1>9, <4>1
        <4> QED
          BY <2>5, <4>2, <4>3, SiblingsApart
      <3> QED
        BY <3>1, <3>2
    <2>11. Acc(k) = Acc(k - 1) \cup Branch(hs, x)
      <3>1. \A i : i \in 1..k <=> i \in 1..(k - 1) \/ i = k
        BY <1>4
      <3> QED
        BY <3>1
    <2> HIDE DEF Acc, b, x
    <2>12. IsListing(a \o j[k], Acc(k))
      BY <2>1, <2>4, <2>9, <2>10, <2>11, ConcatListing
    <2>13. Placed(a \o j[k], d)
      <3>1. ss[k] = <<x>> \o c(k) /\ c(k) \in Seq(hs)
        BY <1>10, <1>12 DEF x
      <3>2. Placed(b \o (<<x>> \o c(k)), d)
        BY <2>1, <2>3, <2>5, <2>6, <3>1, JoinPlaced
      <3> QED
        BY <2>4, <3>1, <3>2
    <2> QED
      BY <2>2, <2>12, <2>13
  <1>18. n \in T
    <2> HIDE DEF T
    <2> QED
      BY <1>4, <1>16, <1>17, UpToInduction
  <1>19. Acc(n) = Below(hs, s)
    <2>1. G = {dirs[i] : i \in 1..n}
      BY <1>3, <1>4 DEF Range
    <2>2. s = F \cup G
      BY DEF F, G
    <2>3. ASSUME NEW y PROVE y \in Acc(n) <=> y \in Below(hs, s)
      <3>1. y \in Acc(n) <=> y \in F \/ \E x \in G : y \in Branch(hs, x)
        BY <2>1
      <3>2. y \in Acc(n) <=> y \in s \/ \E x \in G : y \in Below(hs, Children(hs, x.path))
        BY <2>2, <3>1 DEF Branch
      <3>3. \A x : x \in G <=> x \in s /\ x.dir
        BY DEF G
      <3> QED
        BY <1>2, <3>2, <3>3, BelowStep
    <2> QED
      BY <2>3
  <1> QED
    BY <1>13, <1>15, <1>18, <1>19

\* A family has one parent.
LEMMA FamilyParents ==
    ASSUME NEW hs, NEW top, top \subseteq Children(hs, <<>>), NEW s \in Families(hs, top)
    PROVE  \E d : s \subseteq Children(hs, d)
  <1>1. CASE s = top
    BY <1>1
  <1>2. CASE s \in {Children(hs, h.path) : h \in hs}
    BY <1>2
  <1> QED
    BY <1>1, <1>2 DEF Families

\* The families whose paths are longer than D - n.
Level(hs, top, D, n) == {s \in Families(hs, top) : \A h \in s : Len(h.path) > D - n}

\* The children of a header are a level deeper.
LEMMA LevelDown ==
    ASSUME NEW hs, IsArchive(hs), NEW top, NEW D \in Nat, NEW n \in Nat,
           NEW s \in Level(hs, top, D, n), s \subseteq hs, NEW x \in s
    PROVE  Children(hs, x.path) \in Level(hs, top, D, n - 1)
  <1>1. x \in hs /\ Len(x.path) > D - n /\ Len(x.path) \in Nat
    BY HeaderPaths DEF Level
  <1>2. Children(hs, x.path) \in Families(hs, top)
    BY <1>1 DEF Families
  <1>3. ASSUME NEW h \in Children(hs, x.path) PROVE Len(h.path) > D - (n - 1)
    <2>1. Len(h.path) = Len(x.path) + 1
      BY <1>1, ChildPaths
    <2> QED
      BY <1>1, <2>1
  <1> QED
    BY <1>2, <1>3 DEF Level

\* Below the longest path there is nothing, and every family has a level.
LEMMA LevelEnds ==
    ASSUME NEW hs, IsArchive(hs), NEW top, top \subseteq Children(hs, <<>>),
           NEW D \in Nat, \A h \in hs : Len(h.path) <= D
    PROVE  /\ Level(hs, top, D, 0) \subseteq {{}}
           /\ Level(hs, top, D, D) = Families(hs, top)
           /\ \A s \in Families(hs, top) : s \subseteq hs
  <1>1. \A s \in Families(hs, top) : s \subseteq hs
    BY DEF Families, Children
  <1>2. \A h \in hs : Len(h.path) \in Nat /\ Len(h.path) >= 1
    BY HeaderPaths
  <1>3. ASSUME NEW s \in Level(hs, top, D, 0) PROVE s = {}
    <2> SUFFICES ASSUME NEW h \in s PROVE FALSE
      OBVIOUS
    <2>1. h \in hs /\ Len(h.path) > D - 0
      BY <1>1 DEF Level
    <2> QED
      BY <1>2, <2>1
  <1>4. ASSUME NEW s \in Families(hs, top) PROVE s \in Level(hs, top, D, D)
    BY <1>1, <1>2 DEF Level
  <1> QED
    BY <1>1, <1>3, <1>4 DEF Level

\* The recursion of sortChildrenTarHeaders ends: a function on all families is
\* built from those with the longest paths up.
LEMMA UnderExists ==
    ASSUME NEW hs, IsArchive(hs), NEW top, top \subseteq Children(hs, <<>>)
    PROVE  \E f : f = [s \in Families(hs, top) |-> Listed(hs, f, s)]
  <1>1. PICK D \in Nat : \A h \in hs : Len(h.path) <= D
    BY DepthExists
  <1> DEFINE F(n) == Level(hs, top, D, n)
             T == {n \in 0..D : \E f : f = [s \in F(n) |-> Listed(hs, f, s)]}
  <1>2. F(0) \subseteq {{}} /\ F(D) = Families(hs, top) /\ \A n : \A s \in F(n) : s \subseteq hs
    BY <1>1, LevelEnds DEF Level
  <1>3. 0 \in T
    <2> DEFINE f == [s \in F(0) |-> Listed(hs, <<>>, s)]
    <2>1. ASSUME NEW s \in F(0) PROVE Listed(hs, <<>>, s) = Listed(hs, f, s)
      <3>1. s = {} /\ s \subseteq Children(hs, <<>>)
        BY <1>2
      <3>2. \A x \in s : <<>>[Children(hs, x.path)] = f[Children(hs, x.path)]
        BY <3>1
      <3> HIDE DEF f
      <3> QED
        BY <3>1, <3>2, ListedSame
    <2>2. f = [s \in F(0) |-> Listed(hs, f, s)]
      BY <2>1
    <2> HIDE DEF f
    <2> QED
      BY <2>2
  <1>4. ASSUME NEW n \in 1..D, n - 1 \in T PROVE n \in T
    <2>1. PICK f : f = [s \in F(n - 1) |-> Listed(hs, f, s)]
      BY <1>4
    <2> DEFINE g == [s \in F(n) |-> Listed(hs, f, s)]
    <2>2. ASSUME NEW s \in F(n) PROVE Listed(hs, f, s) = Listed(hs, g, s)
      <3>1. s \in Families(hs, top) /\ s \subseteq hs
        BY <1>2 DEF Level
      <3>2. PICK d : s \subseteq Children(hs, d)
        BY <3>1, FamilyParents
      <3>3. ASSUME NEW x \in s PROVE f[Children(hs, x.path)] = g[Children(hs, x.path)]
        <4> DEFINE c == Children(hs, x.path)
        <4>1. c \in F(n - 1)
          BY <3>1, LevelDown
        <4>2. c \in F(n)
          <5>1. c \in Families(hs, top) /\ \A h \in c : Len(h.path) > D - (n - 1)
            BY <4>1 DEF Level
          <5>2. \A h \in c : Len(h.path) \in Nat
            BY HeaderPaths DEF Children
          <5>3. \A h \in c : Len(h.path) > D - n
            BY <5>1, <5>2
          <5> QED
            BY <5>1, <5>3 DEF Level
        <4> HIDE DEF c
        <4>3. g[c] = Listed(hs, f, c)
          BY <4>2
        <4>4. f[c] = Listed(hs, f, c)
          BY <2>1, <4>1
        <4> QED
          BY <4>3, <4>4 DEF c
      <3> HIDE DEF g
      <3> QED
        BY <3>2, <3>3, ListedSame
    <2>3. g = [s \in F(n) |-> Listed(hs, g, s)]
      BY <2>2
    <2> HIDE DEF g
    <2> QED
      BY <2>3
  <1> HIDE DEF T
  <1>5. D \in T
    BY <1>3, <1>4, UpToInduction
  <1> QED
    BY <1>2, <1>5 DEF T

\* sortChildrenTarHeaders lists what is under the siblings, each header once and
\* every file behind its directory.
LEMMA SortedChildren ==
    ASSUME NEW hs, IsArchive(hs), NEW top, top \subseteq Children(hs, <<>>)
    PROVE  /\ IsListing(sortChildrenTarHeaders(hs, top), Below(hs, top))
           /\ Placed(sortChildrenTarHeaders(hs, top), <<>>)
  <1> DEFINE Rec(f) == f = [s \in Families(hs, top) |-> Listed(hs, f, s)]
             under == CHOOSE f : Rec(f)
             Good(s) == /\ IsListing(under[s], Below(hs, s))
                        /\ \A d : s \subseteq Children(hs, d) => Placed(under[s], d)
  <1>1. Rec(under)
    BY UnderExists
  <1>2. sortChildrenTarHeaders(hs, top) = under[top]
    BY DEF sortChildrenTarHeaders, Listed
  <1> HIDE DEF under
  <1>3. \A s \in Families(hs, top) : under[s] = Listed(hs, under, s)
    BY <1>1
  <1>4. PICK D \in Nat : \A h \in hs : Len(h.path) <= D
    BY DepthExists
  <1> DEFINE F(n) == Level(hs, top, D, n)
             T == {n \in 0..D : \A s \in F(n) : Good(s)}
  <1>5. F(0) \subseteq {{}} /\ F(D) = Families(hs, top) /\ \A n : \A s \in F(n) : s \subseteq hs
    BY <1>4, LevelEnds DEF Level
  <1>6. ASSUME NEW s \in Families(hs, top), \A x \in s : Good(Children(hs, x.path))
        PROVE  Good(s)
    <2>1. ASSUME NEW d, s \subseteq Children(hs, d)
          PROVE  IsListing(under[s], Below(hs, s)) /\ Placed(under[s], d)
      <3>1. ASSUME NEW x \in s
            PROVE  LET c == Children(hs, x.path)
                   IN  IsListing(under[c], Below(hs, c)) /\ Placed(under[c], x.path)
        BY <1>6
      <3> QED
        BY <1>3, <2>1, <3>1, ListedGood
    <2>2. \E d : s \subseteq Children(hs, d)
      BY FamilyParents
    <2> QED
      BY <2>1, <2>2
  <1>7. 0 \in T
    <2>1. ASSUME NEW s \in F(0) PROVE Good(s)
      <3>1. s = {} /\ s \in Families(hs, top)
        BY <1>5 DEF Level
      <3> HIDE DEF Good
      <3> QED
        BY <1>6, <3>1
    <2> HIDE DEF Good
    <2> QED
      BY <2>1
  <1>8. ASSUME NEW n \in 1..D, n - 1 \in T PROVE n \in T
    <2>1. ASSUME NEW s \in F(n) PROVE Good(s)
      <3>1. s \in Families(hs, top) /\ s \subseteq hs
        BY <1>5 DEF Level
      <3>2. \A x \in s : Children(hs, x.path) \in F(n - 1)
        BY <3>1, LevelDown
      <3> HIDE DEF Good, F
      <3>3. \A x \in s : Good(Children(hs, x.path))
        BY <1>8, <3>2
      <3> QED
        BY <1>6, <3>1, <3>3
    <2> HIDE DEF Good
    <2> QED
      BY <2>1
  <1> HIDE DEF T
  <1>9. D \in T
    BY <1>7, <1>8, UpToInduction
  <1>10. Good(top)
    <2>1. top \in F(D)
      BY <1>5 DEF Families
    <2> HIDE DEF Good
    <2> QED
      BY <1>9, <2>1 DEF T
  <1> QED
    BY <1>2, <1>10

\* ... and sortTarHeaders what Kept says.
LEMMA SortedHeaders ==
    ASSUME NEW hs, IsArchive(hs)
    PROVE  /\ IsListing(sortTarHeaders(hs), {h \in hs : h.path \in Kept(hs)})
           /\ Placed(sortTarHeaders(hs), <<>>)
  <1> DEFINE top == {h \in Children(hs, <<>>) : Children(hs, h.path) # {}}
             Unbroken(g) == \A n \in 1..(Len(g.path) - 1) :
                               \E d \in hs : d.dir /\ d.path = SubSeq(g.path, 1, n)
             Keeps(g) == Unbroken(g) /\ (Len(g.path) = 1 => Children(hs, g.path) # {})
  <1>1. \A u, v \in hs : u.path = v.path => u = v
    BY DEF IsArchive
  <1>2. ASSUME NEW h \in hs PROVE h.path \in Kept(hs) <=> Keeps(h)
    BY <1>1 DEF Kept
  <1>3. ASSUME NEW g \in hs PROVE g \in Children(hs, <<>>) <=> Len(g.path) = 1
    <2>1. /\ Len(g.path) \in Nat /\ Dirname(g.path) \in Seq(Nat)
          /\ Len(Dirname(g.path)) = Len(g.path) - 1
      BY HeaderPaths
    <2>2. Dirname(g.path) = <<>> <=> Len(Dirname(g.path)) = 0
      BY <2>1, EmptySeq
    <2> QED
      BY <2>1, <2>2 DEF Children
  <1>4. ASSUME NEW h \in hs, h \in Below(hs, top) PROVE Keeps(h)
    <2>1. PICK g \in top : IsUnder(h, g, hs)
      BY <1>4 DEF Below
    <2>2. g \in hs /\ Len(g.path) = 1 /\ Children(hs, g.path) # {}
      BY <1>3, <2>1 DEF Children
    <2>3. Unbroken(h)
      BY <2>1, <2>2 DEF IsUnder
    <2>4. ASSUME Len(h.path) = 1 PROVE h = g
      <3>1. h.path \in Seq(Nat) /\ SubSeq(h.path, 1, 1) = g.path
        BY <2>1, <2>2, HeaderPaths DEF IsUnder
      <3>2. h.path = g.path
        BY <2>4, <3>1, SubSeqFull
      <3> QED
        BY <1>1, <2>2, <3>2
    <2> QED
      BY <2>2, <2>3, <2>4
  <1>5. ASSUME NEW h \in hs, Keeps(h) PROVE h \in Below(hs, top)
    <2>1. h.path \in Seq(Nat) /\ Len(h.path) \in Nat /\ Len(h.path) >= 1
      BY HeaderPaths
    <2>2. top \subseteq hs
      BY DEF Children
    <2>3. CASE Len(h.path) = 1
      <3>1. h \in top
        BY <1>3, <1>5, <2>3
      <3> HIDE DEF top
      <3> QED
        BY <2>2, <3>1, BelowStep
    <2>4. CASE Len(h.path) # 1
      <3>1. 1 \in 1..(Len(h.path) - 1)
        <4>1. PICK l \in Nat : l = Len(h.path)
          BY <2>1
        <4>2. l >= 1 /\ l # 1
          BY <2>1, <2>4, <4>1
        <4>3. 1 \in 1..(l - 1)
          BY <4>2
        <4> QED
          BY <4>1, <4>3
      <3>2. PICK d \in hs : d.dir /\ d.path = SubSeq(h.path, 1, 1)
        BY <1>5, <3>1
      <3>3. Len(d.path) = 1
        BY <2>1, <3>2, Beginnings
      <3>4. IsUnder(h, d, hs)
        BY <1>5, <2>1, <3>2, <3>3 DEF IsUnder
      <3>5. h \in Below(hs, {d})
        BY <3>4 DEF Below
      <3>6. h # d
        BY <2>4, <3>3
      <3>7. h \in Below(hs, Children(hs, d.path))
        <4>1. {d} \subseteq hs /\ h \notin {d}
          BY <3>6
        <4>2. \E x \in {d} : x.dir /\ h \in Below(hs, Children(hs, x.path))
          BY <3>5, <4>1, BelowStep
        <4> QED
          BY <4>2
      <3>8. Children(hs, d.path) # {}
        BY <3>7 DEF Below
      <3>9. d \in top
        BY <1>3, <3>3, <3>8
      <3> QED
        BY <3>4, <3>9 DEF Below
    <2> QED
      BY <2>3, <2>4
  <1>6. Below(hs, top) = {h \in hs : h.path \in Kept(hs)}
    <2>1. \A h \in Below(hs, top) : h \in hs
      BY DEF Below
    <2> HIDE DEF Keeps, top
    <2> QED
      BY <1>2, <1>4, <1>5, <2>1
  <1>7. top \subseteq Children(hs, <<>>)
    OBVIOUS
  <1>8. sortTarHeaders(hs) = sortChildrenTarHeaders(hs, top)
    BY DEF sortTarHeaders
  <1> HIDE DEF top
  <1> QED
    BY <1>6, <1>7, <1>8, SortedChildren

-----------------------------------------------------------------------------
(* ParseInstalled. *)

PackageType == [name : Seq(Nat), list : Seq(Seq(Nat))]
States == [packages : Seq(PackageType), pkg : PackageType,
           lastDir : Seq(Nat), failed : BOOLEAN]

\* What a line does, one field after the other.
LEMMA ParseLineFields ==
    ASSUME NEW s \in States, NEW l \in Lines
    PROVE  LET t == ParseLine(s, l)
           IN  /\ t \in States
               /\ t.failed <=> s.failed \/ Unreadable(l)
               /\ t.failed => t.packages = s.packages
               /\ ~t.failed /\ l = Blank =>
                     /\ t.pkg = NoPackage /\ t.lastDir = <<>>
                     /\ t.packages = IF s.pkg.name = <<>> THEN s.packages
                                     ELSE Append(s.packages, s.pkg)
               /\ ~t.failed /\ l # Blank =>
                     /\ t.packages = s.packages
                     /\ t.pkg.name = IF l.token = "P" THEN l.val ELSE s.pkg.name
                     /\ t.pkg.list = IF l.token = "F" THEN Append(s.pkg.list, l.val)
                                     ELSE IF l.token = "R" THEN Append(s.pkg.list, FileAt(s, l))
                                     ELSE s.pkg.list
                     /\ t.lastDir = IF l.token = "F" THEN l.val ELSE s.lastDir
  <1> DEFINE t == ParseLine(s, l)
  <1>1. /\ s.packages \in Seq(PackageType) /\ s.pkg \in PackageType
        /\ s.lastDir \in Seq(Nat) /\ s.failed \in BOOLEAN
        /\ s.pkg.name \in Seq(Nat) /\ s.pkg.list \in Seq(Seq(Nat))
    BY DEF States, PackageType
  <1>2. l.token \in Tokens /\ l.val \in Seq(Nat) /\ l = [token |-> l.token, val |-> l.val]
    BY DEF Lines
  <1>3. FileAt(s, l) \in Seq(Nat)
    BY <1>1, <1>2, ConcatProperties DEF FileAt
  <1>4. NewParse \in States
    BY DEF NewParse, NoPackage, States, PackageType
  <1>5. CASE s.failed \/ Unreadable(l)
    <2>1. t = [s EXCEPT !.failed = TRUE]
      BY <1>5 DEF ParseLine
    <2>2. t \in States /\ t.failed = TRUE /\ t.packages = s.packages
      BY <2>1 DEF States
    <2> QED
      BY <1>5, <2>2
  <1>6. CASE ~(s.failed \/ Unreadable(l)) /\ l = Blank
    <2>1. t = [NewParse EXCEPT !.packages = IF s.pkg.name = <<>> THEN s.packages
                                            ELSE Append(s.packages, s.pkg)]
      <3>1. l.token = "blank"
        BY <1>6 DEF Blank, Line
      <3> QED
        BY <1>6, <3>1 DEF ParseLine
    <2>2. (IF s.pkg.name = <<>> THEN s.packages ELSE Append(s.packages, s.pkg))
             \in Seq(PackageType)
      BY <1>1
    <2>3. /\ t \in States /\ t.failed = FALSE /\ t.pkg = NoPackage /\ t.lastDir = <<>>
          /\ t.packages = IF s.pkg.name = <<>> THEN s.packages ELSE Append(s.packages, s.pkg)
      BY <1>4, <2>1, <2>2 DEF States, NewParse
    <2> QED
      BY <1>6, <2>3
  <1>7. CASE ~(s.failed \/ Unreadable(l)) /\ l # Blank /\ l.token = "P"
    <2>1. t = [s EXCEPT !.pkg.name = l.val]
      BY <1>7 DEF ParseLine
    <2>2. /\ t = [s EXCEPT !.pkg = [s.pkg EXCEPT !.name = l.val]]
          /\ [s.pkg EXCEPT !.name = l.val] \in PackageType
      BY <1>1, <1>2, <2>1 DEF PackageType, States
    <2>3. /\ t \in States /\ t.failed = s.failed /\ t.packages = s.packages
          /\ t.lastDir = s.lastDir /\ t.pkg = [s.pkg EXCEPT !.name = l.val]
      BY <2>2 DEF States
    <2>4. t.pkg.name = l.val /\ t.pkg.list = s.pkg.list
      BY <1>1, <2>3 DEF PackageType
    <2> QED
      BY <1>7, <2>3, <2>4
  <1>8. CASE ~(s.failed \/ Unreadable(l)) /\ l # Blank /\ l.token = "F"
    <2>1. t = [s EXCEPT !.pkg.list = Append(@, l.val), !.lastDir = l.val]
      BY <1>8 DEF ParseLine
    <2>2. /\ t = [[s EXCEPT !.pkg = [s.pkg EXCEPT !.list = Append(s.pkg.list, l.val)]]
                     EXCEPT !.lastDir = l.val]
          /\ [s.pkg EXCEPT !.list = Append(s.pkg.list, l.val)] \in PackageType
      <3>1. Append(s.pkg.list, l.val) \in Seq(Seq(Nat))
        BY <1>1, <1>2, AppendProperties
      <3>2. [s.pkg EXCEPT !.list = Append(s.pkg.list, l.val)] \in PackageType
        BY <1>1, <3>1 DEF PackageType
      <3>3. t = [[s EXCEPT !.pkg = [s.pkg EXCEPT !.list = Append(s.pkg.list, l.val)]]
                    EXCEPT !.lastDir = l.val]
        BY <2>1
      <3> QED
        BY <3>2, <3>3
    <2>3. /\ t \in States /\ t.failed = s.failed /\ t.packages = s.packages
          /\ t.lastDir = l.val /\ t.pkg = [s.pkg EXCEPT !.list = Append(s.pkg.list, l.val)]
      BY <1>2, <2>2 DEF States
    <2>4. t.pkg.name = s.pkg.name /\ t.pkg.list = Append(s.pkg.list, l.val)
      BY <1>1, <2>3 DEF PackageType
    <2> QED
      BY <1>8, <2>3, <2>4
  <1>9. CASE ~(s.failed \/ Unreadable(l)) /\ l # Blank /\ l.token = "R"
    <2>1. t = [s EXCEPT !.pkg.list = Append(@, FileAt(s, l))]
      BY <1>9 DEF ParseLine
    <2>2. /\ t = [s EXCEPT !.pkg = [s.pkg EXCEPT !.list = Append(s.pkg.list, FileAt(s, l))]]
          /\ [s.pkg EXCEPT !.list = Append(s.pkg.list, FileAt(s, l))] \in PackageType
      <3>1. Append(s.pkg.list, FileAt(s, l)) \in Seq(Seq(Nat))
        BY <1>1, <1>3, AppendProperties
      <3>2. [s.pkg EXCEPT !.list = Append(s.pkg.list, FileAt(s, l))] \in PackageType
        BY <1>1, <3>1 DEF PackageType
      <3>3. t = [s EXCEPT !.pkg = [s.pkg EXCEPT !.list = Append(s.pkg.list, FileAt(s, l))]]
        BY <2>1
      <3> QED
        BY <3>2, <3>3
    <2>3. /\ t \in States /\ t.failed = s.failed /\ t.packages = s.packages
          /\ t.lastDir = s.lastDir
          /\ t.pkg = [s.pkg EXCEPT !.list = Append(s.pkg.list, FileAt(s, l))]
      BY <2>2 DEF States
    <2>4. t.pkg.name = s.pkg.name /\ t.pkg.list = Append(s.pkg.list, FileAt(s, l))
      BY <1>1, <2>3 DEF PackageType
    <2> QED
      BY <1>9, <2>3, <2>4
  <1>10. CASE ~(s.failed \/ Unreadable(l)) /\ l # Blank /\ l.token \notin {"P", "F", "R"}
    <2>1. t = s
      BY <1>10 DEF ParseLine
    <2> QED
      BY <1>10, <2>1
  <1> QED
    BY <1>5, <1>6, <1>7, <1>8, <1>9, <1>10

IsParse(f, s, ls) ==
    /\ f \in [0..Len(ls) -> States]
    /\ f[0] = s
    /\ \A k \in 1..Len(ls) : f[k] = ParseLine(f[k - 1], ls[k])

\* The recursion of ParseInstalled is one.
LEMMA ParseExists ==
    ASSUME NEW s \in States, NEW ls \in Seq(Lines)
    PROVE  \E f : IsParse(f, s, ls)
  <1> DEFINE n == Len(ls)
             g == [z \in (1..n) \X States |-> ParseLine(z[2], ls[z[1]])]
  <1>1. n \in Nat /\ \A k \in 1..n : ls[k] \in Lines
    BY LenProperties, ElementOfSeq
  <1>2. \A k \in 1..n, u \in States : ParseLine(u, ls[k]) \in States
    BY <1>1, ParseLineFields
  <1>3. \A k \in 1..n, u \in States : g[<<k, u>>] = ParseLine(u, ls[k])
    OBVIOUS
  <1> HIDE DEF n, g
  <1>4. IsStep(g, n, States)
    BY <1>2, <1>3 DEF IsStep
  <1>5. PICK f : IsRecursion(f, g, s, n, States)
    BY <1>1, <1>4, RecursionExists
  <1>6. f \in [0..n -> States] /\ f[0] = s /\ \A k \in 1..n : f[k] = g[<<k, f[k - 1]>>]
    BY <1>5 DEF IsRecursion
  <1>7. ASSUME NEW k \in 1..n PROVE f[k] = ParseLine(f[k - 1], ls[k])
    <2>1. k - 1 \in 0..n
      BY <1>1
    <2>2. f[k - 1] \in States
      BY <1>6, <2>1
    <2> QED
      BY <1>3, <1>6, <2>2
  <1> QED
    BY <1>6, <1>7 DEF IsParse, n

\* ParseFrom is the last of the states it runs through.
LEMMA ParseValue ==
    ASSUME NEW s \in States, NEW ls \in Seq(Lines), NEW f, IsParse(f, s, ls)
    PROVE  ParseFrom(s, ls) = f[Len(ls)] /\ ParseFrom(s, ls) \in States
  <1> DEFINE n == Len(ls)
             Rec(g) == g = [k \in 0..n |-> IF k = 0 THEN s ELSE ParseLine(g[k - 1], ls[k])]
             after == CHOOSE g : Rec(g)
  <1>1. n \in Nat
    BY LenProperties
  <1>2. f \in [0..n -> States] /\ f[0] = s /\ \A k \in 1..n : f[k] = ParseLine(f[k - 1], ls[k])
    BY DEF IsParse
  <1>3. ParseFrom(s, ls) = after[n]
    BY DEF ParseFrom
  <1> HIDE DEF n
  <1>4. Rec(f)
    <2>1. \A k \in 0..n : k # 0 => k \in 1..n
      BY <1>1
    <2>2. \A k \in 0..n : f[k] = IF k = 0 THEN s ELSE ParseLine(f[k - 1], ls[k])
      BY <1>2, <2>1
    <2> QED
      BY <1>2, <2>2
  <1>5. Rec(after)
    BY <1>4
  <1> HIDE DEF after
  <1> DEFINE T == {k \in 0..n : after[k] = f[k]}
  <1>6. 0 \in T
    BY <1>1, <1>2, <1>5
  <1>7. ASSUME NEW k \in 1..n, k - 1 \in T PROVE k \in T
    <2>1. k \in 0..n /\ k # 0
      BY <1>1
    <2>2. after[k] = ParseLine(after[k - 1], ls[k])
      BY <1>5, <2>1
    <2>3. after[k - 1] = f[k - 1]
      BY <1>7
    <2>4. f[k] = ParseLine(f[k - 1], ls[k])
      BY <1>2
    <2> QED
      BY <2>1, <2>2, <2>3, <2>4
  <1> HIDE DEF T
  <1>8. n \in T
    <2>1. 0..n \subseteq T
      BY <1>1, <1>6, <1>7, UpToInduction
    <2> QED
      BY <1>1, <2>1
  <1>9. after[n] = f[n] /\ f[n] \in States
    BY <1>1, <1>2, <1>8 DEF T
  <1> QED
    BY <1>3, <1>9 DEF n

\* Nothing is read from no lines.
LEMMA ParseEmpty ==
    ASSUME NEW s \in States
    PROVE  ParseFrom(s, <<>>) = s
  <1>1. <<>> \in Seq(Lines) /\ Len(<<>>) = 0
    OBVIOUS
  <1>2. PICK f : IsParse(f, s, <<>>)
    BY <1>1, ParseExists
  <1>3. f[0] = s
    BY <1>2 DEF IsParse
  <1>4. ParseFrom(s, <<>>) = f[Len(<<>>)]
    BY <1>1, <1>2, ParseValue
  <1> QED
    BY <1>1, <1>3, <1>4

\* What comes behind is parsed from where the first part ends.
LEMMA ParseConcat ==
    ASSUME NEW s \in States, NEW a \in Seq(Lines), NEW b \in Seq(Lines)
    PROVE  ParseFrom(s, a \o b) = ParseFrom(ParseFrom(s, a), b)
  <1> DEFINE l == Len(a)
             n == Len(b)
             c == a \o b
  <1>1. l \in Nat /\ n \in Nat
    BY LenProperties
  <1>2. PICK f : IsParse(f, s, a)
    BY ParseExists
  <1>3. ParseFrom(s, a) = f[l] /\ f[l] \in States
    BY <1>2, ParseValue
  <1>4. PICK g : IsParse(g, f[l], b)
    BY <1>3, ParseExists
  <1>5. ParseFrom(f[l], b) = g[n]
    BY <1>3, <1>4, ParseValue
  <1>6. /\ c \in Seq(Lines) /\ Len(c) = l + n
        /\ \A i \in 1..(l + n) : c[i] = IF i <= l THEN a[i] ELSE b[i - l]
    BY ConcatProperties
  <1>7. f \in [0..l -> States] /\ f[0] = s /\ \A k \in 1..l : f[k] = ParseLine(f[k - 1], a[k])
    BY <1>2 DEF IsParse
  <1>8. g \in [0..n -> States] /\ g[0] = f[l] /\ \A k \in 1..n : g[k] = ParseLine(g[k - 1], b[k])
    BY <1>4 DEF IsParse
  <1> HIDE DEF l, n, c
  <1> DEFINE h == [k \in 0..(l + n) |-> IF k <= l THEN f[k] ELSE g[k - l]]
  <1>9. h \in [0..(l + n) -> States]
    <2>1. ASSUME NEW k \in 0..(l + n) PROVE (IF k <= l THEN f[k] ELSE g[k - l]) \in States
      <3>1. CASE k <= l
        <4>1. k \in 0..l
          BY <1>1, <3>1
        <4> QED
          BY <1>7, <3>1, <4>1
      <3>2. CASE ~(k <= l)
        <4>1. k - l \in 0..n
          BY <1>1, <3>2
        <4> QED
          BY <1>8, <3>2, <4>1
      <3> QED
        BY <3>1, <3>2
    <2> QED
      BY <2>1
  <1>10. h[0] = s
    BY <1>1, <1>7
  <1>11. ASSUME NEW k \in 1..(l + n) PROVE h[k] = ParseLine(h[k - 1], c[k])
    <2>1. k \in 0..(l + n) /\ k - 1 \in 0..(l + n)
      BY <1>1
    <2>2. CASE k <= l
      <3>1. k \in 1..l /\ k - 1 <= l
        BY <1>1, <2>2
      <3>2. h[k] = f[k] /\ h[k - 1] = f[k - 1]
        BY <2>1, <2>2, <3>1
      <3>3. c[k] = a[k]
        BY <1>6, <2>2
      <3> QED
        BY <1>7, <3>1, <3>2, <3>3
    <2>3. CASE ~(k <= l)
      <3>1. k - l \in 1..n /\ (k - 1) - l = (k - l) - 1
        BY <1>1, <2>3
      <3>2. h[k] = g[k - l]
        BY <2>1, <2>3
      <3>3. h[k - 1] = g[(k - l) - 1]
        <4>1. CASE k - 1 <= l
          <5>1. k - 1 = l /\ (k - l) - 1 = 0
            BY <1>1, <2>3, <4>1
          <5>2. h[k - 1] = f[k - 1]
            BY <2>1, <4>1
          <5> QED
            BY <1>8, <5>1, <5>2
        <4>2. CASE ~(k - 1 <= l)
          BY <2>1, <3>1, <4>2
        <4> QED
          BY <4>1, <4>2
      <3>4. c[k] = b[k - l]
        BY <1>6, <2>3
      <3> QED
        BY <1>8, <3>1, <3>2, <3>3, <3>4
    <2> QED
      BY <2>2, <2>3
  <1>12. h[l + n] = g[n]
    <2>1. l + n \in 0..(l + n)
      BY <1>1
    <2>2. CASE n = 0
      <3>1. l + n <= l /\ l + n = l
        BY <1>1, <2>2
      <3> QED
        BY <1>8, <2>1, <2>2, <3>1
    <2>3. CASE n # 0
      <3>1. ~(l + n <= l) /\ (l + n) - l = n
        BY <1>1, <2>3
      <3> QED
        BY <2>1, <3>1
    <2> QED
      BY <2>2, <2>3
  <1> HIDE DEF h
  <1>13. IsParse(h, s, c)
    BY <1>6, <1>9, <1>10, <1>11 DEF IsParse
  <1>14. ParseFrom(s, c) = h[l + n]
    BY <1>6, <1>13, ParseValue
  <1> QED
    BY <1>3, <1>5, <1>12, <1>14 DEF c

\* One line is read as ParseLine says.
LEMMA ParseOne ==
    ASSUME NEW s \in States, NEW l \in Lines
    PROVE  ParseFrom(s, <<l>>) = ParseLine(s, l)
  <1>1. <<l>> \in Seq(Lines) /\ Len(<<l>>) = 1 /\ <<l>>[1] = l /\ 1 \in 1..1 /\ 1 - 1 = 0
    OBVIOUS
  <1>2. PICK f : IsParse(f, s, <<l>>)
    BY <1>1, ParseExists
  <1>3. f[0] = s /\ f[1] = ParseLine(f[0], <<l>>[1])
    BY <1>1, <1>2 DEF IsParse
  <1> QED
    BY <1>1, <1>2, <1>3, ParseValue

\* What was parsed stays, and so does a failure.
LEMMA ParseGrows ==
    ASSUME NEW s \in States, NEW ls \in Seq(Lines)
    PROVE  LET r == ParseFrom(s, ls)
           IN  /\ r \in States
               /\ s.failed => r.failed
               /\ Len(s.packages) <= Len(r.packages)
               /\ \A k \in 1..Len(s.packages) : r.packages[k] = s.packages[k]
  <1> DEFINE n == Len(ls)
             l == Len(s.packages)
             Good(r) == /\ s.failed => r.failed
                        /\ l <= Len(r.packages)
                        /\ \A k \in 1..l : r.packages[k] = s.packages[k]
  <1>1. PICK f : IsParse(f, s, ls)
    BY ParseExists
  <1>2. ParseFrom(s, ls) = f[n] /\ f[n] \in States
    BY <1>1, ParseValue
  <1>3. f \in [0..n -> States] /\ f[0] = s /\ \A k \in 1..n : f[k] = ParseLine(f[k - 1], ls[k])
    BY <1>1 DEF IsParse
  <1>4. n \in Nat /\ l \in Nat /\ \A k \in 1..n : ls[k] \in Lines
    BY LenProperties, ElementOfSeq DEF States
  <1> HIDE DEF n
  <1> DEFINE T == {k \in 0..n : Good(f[k])}
  <1>5. 0 \in T
    BY <1>3, <1>4
  <1>6. ASSUME NEW k \in 1..n, k - 1 \in T PROVE k \in T
    <2> DEFINE u == f[k - 1]
               t == ParseLine(u, ls[k])
    <2>1. k - 1 \in 0..n /\ k \in 0..n
      BY <1>4
    <2>2. u \in States /\ ls[k] \in Lines /\ Good(u)
      BY <1>3, <1>4, <1>6, <2>1
    <2>3. f[k] = t
      BY <1>3
    <2> HIDE DEF u, t
    <2>4. u.packages \in Seq(PackageType) /\ u.pkg \in PackageType /\ Len(u.packages) \in Nat
      BY <2>2, LenProperties DEF States
    <2>5. /\ u.failed => t.failed
          /\ t.packages = u.packages \/ t.packages = Append(u.packages, u.pkg)
      BY <2>2, ParseLineFields DEF t
    <2>6. /\ Len(u.packages) <= Len(t.packages)
          /\ \A i \in 1..Len(u.packages) : t.packages[i] = u.packages[i]
      <3>1. CASE t.packages = u.packages
        BY <2>4, <3>1
      <3>2. CASE t.packages = Append(u.packages, u.pkg)
        BY <2>4, <3>2, AppendProperties
      <3> QED
        BY <2>5, <3>1, <3>2
    <2>7. Len(t.packages) \in Nat
      BY <2>2, ParseLineFields, LenProperties DEF t, States
    <2>8. Good(t)
      <3>1. s.failed => t.failed
        BY <2>2, <2>5
      <3>2. l <= Len(t.packages)
        BY <1>4, <2>2, <2>4, <2>6, <2>7
      <3>3. ASSUME NEW i \in 1..l PROVE t.packages[i] = s.packages[i]
        <4>1. i \in 1..Len(u.packages)
          BY <1>4, <2>2, <2>4
        <4> QED
          BY <2>2, <2>6, <4>1
      <3> QED
        BY <3>1, <3>2, <3>3
    <2> QED
      BY <2>1, <2>3, <2>8
  <1> HIDE DEF T, Good
  <1>7. n \in T
    <2>1. 0..n \subseteq T
      BY <1>4, <1>5, <1>6, UpToInduction
    <2> QED
      BY <1>4, <2>1
  <1> QED
    BY <1>2, <1>7 DEF T, Good

\* Lines that neither name a package nor end a record change neither.
LEMMA ParseInner ==
    ASSUME NEW s \in States, NEW ls \in Seq(Lines),
           \A k \in 1..Len(ls) : ls[k].token # "P" /\ ls[k].token # "blank"
    PROVE  LET r == ParseFrom(s, ls)
           IN  ~r.failed => r.packages = s.packages /\ r.pkg.name = s.pkg.name
  <1> DEFINE n == Len(ls)
             Good(r) == ~r.failed => r.packages = s.packages /\ r.pkg.name = s.pkg.name
  <1>1. PICK f : IsParse(f, s, ls)
    BY ParseExists
  <1>2. ParseFrom(s, ls) = f[n]
    BY <1>1, ParseValue
  <1>3. f \in [0..n -> States] /\ f[0] = s /\ \A k \in 1..n : f[k] = ParseLine(f[k - 1], ls[k])
    BY <1>1 DEF IsParse
  <1>4. n \in Nat /\ \A k \in 1..n : ls[k] \in Lines
    BY LenProperties, ElementOfSeq
  <1>5. \A k \in 1..n : ls[k].token # "P" /\ ls[k].token # "blank"
    OBVIOUS
  <1> HIDE DEF n
  <1> DEFINE T == {k \in 0..n : Good(f[k])}
  <1>6. 0 \in T
    BY <1>3, <1>4
  <1>7. ASSUME NEW k \in 1..n, k - 1 \in T PROVE k \in T
    <2> DEFINE u == f[k - 1]
               t == ParseLine(u, ls[k])
    <2>1. k - 1 \in 0..n /\ k \in 0..n
      BY <1>4
    <2>2. u \in States /\ ls[k] \in Lines /\ Good(u)
      BY <1>3, <1>4, <1>7, <2>1
    <2>3. f[k] = t
      BY <1>3
    <2>4. ls[k].token # "P" /\ ls[k] # Blank
      BY <1>5 DEF Blank, Line
    <2> HIDE DEF u, t
    <2>5. ~t.failed => ~u.failed /\ t.packages = u.packages /\ t.pkg.name = u.pkg.name
      BY <2>2, <2>4, ParseLineFields DEF t
    <2>6. Good(t)
      BY <2>2, <2>5
    <2> QED
      BY <2>1, <2>3, <2>6
  <1> HIDE DEF T, Good
  <1>8. n \in T
    <2>1. 0..n \subseteq T
      BY <1>4, <1>6, <1>7, UpToInduction
    <2> QED
      BY <1>4, <2>1
  <1> QED
    BY <1>2, <1>8 DEF T, Good

\* The lines between the name and the end of a record.
Inner == {l \in Lines : l.token # "P" /\ l.token # "blank" /\ ~Unreadable(l)}

\* What the lines of one header do.
LEMMA HeaderParse ==
    ASSUME NEW hs, IsArchive(hs), NEW h \in hs, NEW s \in States, ~s.failed
    PROVE  LET t == ParseFrom(s, FileLines(h))
           IN  /\ FileLines(h) \in Seq(Inner)
               /\ t \in States /\ ~t.failed
               /\ t.packages = s.packages /\ t.pkg.name = s.pkg.name
               /\ h.dir => t.lastDir = h.path /\ t.pkg.list = Append(s.pkg.list, h.path)
               /\ ~h.dir => t.lastDir = s.lastDir
               /\ ~h.dir /\ Dirname(h.path) = s.lastDir =>
                     t.pkg.list = Append(s.pkg.list, h.path)
  <1> DEFINE x == IF h.dir THEN Line("F", h.path) ELSE Line("R", <<Basename(h.path)>>)
             y == IF h.dir THEN Line("M", <<>>) ELSE Line("a", <<>>)
             more == IF h.std THEN <<>> ELSE <<y>>
             u == ParseLine(s, x)
             t == ParseFrom(u, more)
  <1>1. /\ h.path \in Seq(Nat) /\ Basename(h.path) \in Nat
        /\ Dirname(h.path) \in Seq(Nat)
        /\ h.path = Dirname(h.path) \o <<Basename(h.path)>>
    BY HeaderPaths
  <1>2. x \in Inner /\ y \in Inner
    <2>1. <<>> # Garbled
      BY DEF Garbled
    <2>2. <<Basename(h.path)>> \in Seq(Nat) /\ <<>> \in Seq(Nat)
      BY <1>1
    <2>3. x \in Lines /\ y \in Lines
      BY <1>1, <2>2 DEF Lines, Tokens, Line
    <2>4. ~Unreadable(x)
      BY DEF Unreadable, Line, Numbers
    <2>5. ~Unreadable(y)
      BY <2>1 DEF Unreadable, Line
    <2>6. x.token # "P" /\ x.token # "blank" /\ y.token # "P" /\ y.token # "blank"
      BY DEF Line
    <2> QED
      BY <2>3, <2>4, <2>5, <2>6 DEF Inner
  <1>3. x \in Lines /\ y \in Lines /\ ~Unreadable(x) /\ ~Unreadable(y)
    BY <1>2 DEF Inner
  <1>4. more \in Seq(Inner) /\ more \in Seq(Lines)
    BY <1>2, <1>3
  <1>5. FileLines(h) = <<x>> \o more
    BY DEF FileLines
  <1>6. x # Blank /\ y # Blank
    BY DEF Blank, Line
  <1>7. /\ x.token = IF h.dir THEN "F" ELSE "R"
        /\ x.val = IF h.dir THEN h.path ELSE <<Basename(h.path)>>
        /\ y.token \notin {"P", "F", "R"}
    BY DEF Line
  <1> HIDE DEF x, y
  <1>8. /\ u \in States /\ ~u.failed /\ u.packages = s.packages /\ u.pkg.name = s.pkg.name
        /\ u.pkg.list = IF h.dir THEN Append(s.pkg.list, h.path)
                        ELSE Append(s.pkg.list, FileAt(s, x))
        /\ u.lastDir = IF h.dir THEN h.path ELSE s.lastDir
    BY <1>3, <1>6, <1>7, ParseLineFields
  <1> HIDE DEF u
  <1>9. /\ t \in States /\ ~t.failed /\ t.packages = u.packages /\ t.pkg.name = u.pkg.name
        /\ t.pkg.list = u.pkg.list /\ t.lastDir = u.lastDir
    <2>1. CASE h.std
      BY <1>8, <2>1, ParseEmpty
    <2>2. CASE ~h.std
      <3>1. t = ParseLine(u, y)
        BY <1>3, <1>8, <2>2, ParseOne
      <3> QED
        BY <1>3, <1>6, <1>7, <1>8, <3>1, ParseLineFields
    <2> QED
      BY <2>1, <2>2
  <1>10. ParseFrom(s, FileLines(h)) = t
    <2>1. <<x>> \in Seq(Lines)
      BY <1>3
    <2>2. ParseFrom(s, <<x>>) = u
      BY <1>3, ParseOne DEF u
    <2>3. ParseFrom(s, <<x>> \o more) = ParseFrom(ParseFrom(s, <<x>>), more)
      BY <1>4, <2>1, ParseConcat
    <2> QED
      BY <1>5, <2>2, <2>3
  <1>11. FileLines(h) \in Seq(Inner)
    <2>1. <<x>> \in Seq(Inner)
      BY <1>2
    <2> QED
      BY <1>4, <1>5, <2>1, ConcatProperties
  <1>12. ASSUME ~h.dir, Dirname(h.path) = s.lastDir PROVE FileAt(s, x) = h.path
    <2>1. x.val = <<Basename(h.path)>>
      BY <1>7, <1>12
    <2>2. CASE s.lastDir = <<>>
      <3>1. <<Basename(h.path)>> \in Seq(Nat)
        BY <1>1
      <3>2. <<>> \o <<Basename(h.path)>> = <<Basename(h.path)>>
        BY <3>1, ConcatEmptySeq
      <3> QED
        BY <1>1, <1>12, <2>1, <2>2, <3>2 DEF FileAt
    <2>3. CASE s.lastDir # <<>>
      BY <1>1, <1>12, <2>1, <2>3 DEF FileAt
    <2> QED
      BY <2>2, <2>3
  <1> HIDE DEF t
  <1> QED
    BY <1>8, <1>9, <1>10, <1>11, <1>12

BodyLines(L) == FlattenSeq([k \in DOMAIN L |-> FileLines(L[k])])
PathsOf(L, n) == [k \in 1..n |-> L[k].path]

\* The directory that is open behind the first k headers.
OpenDir(L, k, d) ==
    \/ d = <<>> /\ \A j \in 1..k : ~L[j].dir
    \/ \E j \in 1..k : /\ L[j].dir /\ L[j].path = d
                       /\ \A m \in (j + 1)..k : ~L[m].dir

\* The open directory is the one a file sits in.
LEMMA OpenDirPlaced ==
    ASSUME NEW L, NEW k \in 1..Len(L), Len(L) \in Nat, ~L[k].dir, Placed(L, <<>>),
           NEW d, OpenDir(L, k - 1, d)
    PROVE  Dirname(L[k].path) = d
  <1>1. \/ Dirname(L[k].path) = <<>> /\ \A j \in 1..(k - 1) : ~L[j].dir
        \/ \E j \in 1..(k - 1) : /\ L[j].dir /\ L[j].path = Dirname(L[k].path)
                                 /\ \A m \in (j + 1)..(k - 1) : ~L[m].dir
    BY DEF Placed
  <1>2. CASE Dirname(L[k].path) = <<>> /\ \A j \in 1..(k - 1) : ~L[j].dir
    BY <1>2 DEF OpenDir
  <1>3. CASE \E j \in 1..(k - 1) : /\ L[j].dir /\ L[j].path = Dirname(L[k].path)
                                   /\ \A m \in (j + 1)..(k - 1) : ~L[m].dir
    <2>1. PICK j \in 1..(k - 1) : /\ L[j].dir /\ L[j].path = Dirname(L[k].path)
                                  /\ \A m \in (j + 1)..(k - 1) : ~L[m].dir
      BY <1>3
    <2>2. PICK i \in 1..(k - 1) : /\ L[i].dir /\ L[i].path = d
                                  /\ \A m \in (i + 1)..(k - 1) : ~L[m].dir
      BY <2>1 DEF OpenDir
    <2>3. ~(i < j)
      <3> SUFFICES ASSUME i < j PROVE FALSE
        OBVIOUS
      <3>1. j \in (i + 1)..(k - 1)
        OBVIOUS
      <3> QED
        BY <2>1, <2>2, <3>1
    <2>4. ~(j < i)
      <3> SUFFICES ASSUME j < i PROVE FALSE
        OBVIOUS
      <3>1. i \in (j + 1)..(k - 1)
        OBVIOUS
      <3> QED
        BY <2>1, <2>2, <3>1
    <2>5. i = j
      BY <2>3, <2>4
    <2> QED
      BY <2>1, <2>2, <2>5
  <1> QED
    BY <1>1, <1>2, <1>3

\* A directory is open until the next one.
LEMMA OpenDirStep ==
    ASSUME NEW L, NEW k \in Nat \ {0}, NEW d, NEW e, OpenDir(L, k - 1, d),
           L[k].dir => e = L[k].path, ~L[k].dir => e = d
    PROVE  OpenDir(L, k, e)
  <1>1. CASE L[k].dir
    <2>1. k \in 1..k /\ \A m \in (k + 1)..k : ~L[m].dir
      OBVIOUS
    <2> QED
      BY <1>1, <2>1 DEF OpenDir
  <1>2. CASE ~L[k].dir
    <2>1. \A m : m \in 1..k <=> m \in 1..(k - 1) \/ m = k
      OBVIOUS
    <2>2. CASE d = <<>> /\ \A j \in 1..(k - 1) : ~L[j].dir
      BY <1>2, <2>1, <2>2 DEF OpenDir
    <2>3. CASE \E j \in 1..(k - 1) : /\ L[j].dir /\ L[j].path = d
                                     /\ \A m \in (j + 1)..(k - 1) : ~L[m].dir
      <3>1. PICK j \in 1..(k - 1) : /\ L[j].dir /\ L[j].path = d
                                    /\ \A m \in (j + 1)..(k - 1) : ~L[m].dir
        BY <2>3
      <3>2. \A m \in (j + 1)..k : m \in (j + 1)..(k - 1) \/ m = k
        OBVIOUS
      <3>3. \A m \in (j + 1)..k : ~L[m].dir
        BY <1>2, <3>1, <3>2
      <3>4. j \in 1..k
        BY <2>1
      <3> QED
        BY <1>2, <3>1, <3>3, <3>4 DEF OpenDir
    <2> QED
      BY <2>2, <2>3 DEF OpenDir
  <1> QED
    BY <1>1, <1>2

\* The lines of headers in their places give back their paths.
LEMMA BodyParse ==
    ASSUME NEW hs, IsArchive(hs), NEW L \in Seq(hs), Placed(L, <<>>),
           NEW s \in States, ~s.failed, s.lastDir = <<>>, s.pkg.list = <<>>
    PROVE  LET r == ParseFrom(s, BodyLines(L))
           IN  /\ BodyLines(L) \in Seq(Inner)
               /\ r \in States /\ ~r.failed
               /\ r.packages = s.packages /\ r.pkg.name = s.pkg.name
               /\ r.pkg.list = PathsOf(L, Len(L))
  <1> DEFINE n == Len(L)
             ss == [k \in 1..n |-> FileLines(L[k])]
  <1>1. n \in Nat /\ DOMAIN L = 1..n /\ \A k \in 1..n : L[k] \in hs
    BY LenProperties, ElementOfSeq
  <1>2. BodyLines(L) = FlattenSeq(ss)
    BY <1>1 DEF BodyLines
  <1>3. ss \in [1..n -> Seq(Inner)]
    <2>1. \A k \in 1..n : FileLines(L[k]) \in Seq(Inner)
      BY <1>1, HeaderParse
    <2> QED
      BY <2>1
  <1>4. \A k \in 1..n : ss[k] = FileLines(L[k])
    OBVIOUS
  <1> HIDE DEF ss
  <1>5. PICK j : IsJoining(j, ss, n, Inner)
    BY <1>1, <1>3, FlattenSteps
  <1>6. /\ j \in [0..n -> Seq(Inner)] /\ j[0] = <<>>
        /\ \A k \in 1..n : j[k] = j[k - 1] \o ss[k]
        /\ j[n] = FlattenSeq(ss)
    BY <1>5 DEF IsJoining
  <1>7. \A ls \in Seq(Inner) : ls \in Seq(Lines)
    <2>1. Inner \subseteq Lines
      BY DEF Inner
    <2> QED
      BY <2>1, SeqMonotonic
  <1> DEFINE Good(k, r) == /\ r \in States /\ ~r.failed
                           /\ r.packages = s.packages /\ r.pkg.name = s.pkg.name
                           /\ r.pkg.list = PathsOf(L, k)
                           /\ OpenDir(L, k, r.lastDir)
             T == {k \in 0..n : Good(k, ParseFrom(s, j[k]))}
  <1>8. 0 \in T
    <2>1. ParseFrom(s, j[0]) = s
      BY <1>6, ParseEmpty
    <2>2. PathsOf(L, 0) = <<>>
      BY DEF PathsOf
    <2>3. OpenDir(L, 0, <<>>)
      BY DEF OpenDir
    <2>4. Good(0, s)
      BY <2>2, <2>3
    <2> QED
      BY <1>1, <2>1, <2>4
  <1>9. ASSUME NEW k \in 1..n, k - 1 \in T PROVE k \in T
    <2> DEFINE r == ParseFrom(s, j[k - 1])
               t == ParseFrom(r, FileLines(L[k]))
    <2>1. k - 1 \in 0..n /\ k \in 0..n
      BY <1>1
    <2>2. Good(k - 1, r)
      BY <1>9
    <2>3. j[k - 1] \in Seq(Lines) /\ ss[k] \in Seq(Lines) /\ j[k] = j[k - 1] \o ss[k]
      BY <1>3, <1>6, <1>7, <2>1
    <2>4. ParseFrom(s, j[k]) = t
      BY <1>4, <2>3, ParseConcat
    <2> HIDE DEF r
    <2>5. L[k] \in hs
      BY <1>1
    <2>6. /\ t \in States /\ ~t.failed
          /\ t.packages = r.packages /\ t.pkg.name = r.pkg.name
          /\ L[k].dir => t.lastDir = L[k].path /\ t.pkg.list = Append(r.pkg.list, L[k].path)
          /\ ~L[k].dir => t.lastDir = r.lastDir
          /\ ~L[k].dir /\ Dirname(L[k].path) = r.lastDir =>
                t.pkg.list = Append(r.pkg.list, L[k].path)
      BY <2>2, <2>5, HeaderParse
    <2> HIDE DEF t
    <2>7. ~L[k].dir => Dirname(L[k].path) = r.lastDir
      BY <1>1, <2>2, OpenDirPlaced
    <2>8. t.pkg.list = Append(PathsOf(L, k - 1), L[k].path)
      BY <2>2, <2>6, <2>7
    <2>9. Append(PathsOf(L, k - 1), L[k].path) = PathsOf(L, k)
      <3>1. \A i \in 1..k : L[i].path \in Seq(Nat)
        <4>1. \A i \in 1..k : i \in 1..n
          BY <1>1
        <4>2. \A i \in 1..k : L[i] \in hs
          BY <1>1, <4>1
        <4> QED
          BY <4>2, HeaderPaths
      <3>2. k - 1 \in Nat /\ k \in Nat
        BY <1>1
      <3>3. PathsOf(L, k - 1) \in Seq(Seq(Nat)) /\ Len(PathsOf(L, k - 1)) = k - 1
        BY <3>1, <3>2 DEF PathsOf
      <3>4. PathsOf(L, k) \in Seq(Seq(Nat)) /\ Len(PathsOf(L, k)) = k
        BY <3>1, <3>2 DEF PathsOf
      <3> DEFINE p == Append(PathsOf(L, k - 1), L[k].path)
      <3>5. L[k].path \in Seq(Nat)
        BY <1>1, HeaderPaths
      <3>6. /\ p \in Seq(Seq(Nat)) /\ Len(p) = (k - 1) + 1
            /\ \A i \in 1..(k - 1) : p[i] = PathsOf(L, k - 1)[i]
            /\ p[(k - 1) + 1] = L[k].path
        BY <3>3, <3>5, AppendProperties
      <3> HIDE DEF p
      <3>7. Len(p) = k /\ p[k] = L[k].path
        BY <3>2, <3>6
      <3>8. ASSUME NEW i \in 1..k PROVE p[i] = PathsOf(L, k)[i]
        <4>1. CASE i = k
          BY <3>7, <4>1 DEF PathsOf
        <4>2. CASE i # k
          <5>1. i \in 1..(k - 1)
            BY <4>2
          <5> QED
            BY <3>6, <5>1 DEF PathsOf
        <4> QED
          BY <4>1, <4>2
      <3> QED
        BY <3>4, <3>6, <3>7, <3>8, SeqEqual DEF p
    <2>10. OpenDir(L, k, t.lastDir)
      <3>1. k \in Nat \ {0}
        BY <1>1
      <3> QED
        BY <2>2, <2>6, <3>1, OpenDirStep
    <2>11. Good(k, t)
      BY <2>2, <2>6, <2>8, <2>9, <2>10
    <2> QED
      BY <2>1, <2>4, <2>11
  <1> HIDE DEF T, Good
  <1>10. n \in T
    <2>1. 0..n \subseteq T
      BY <1>1, <1>8, <1>9, UpToInduction
    <2> QED
      BY <1>1, <2>1
  <1>11. j[n] \in Seq(Inner)
    BY <1>1, <1>6
  <1> QED
    BY <1>2, <1>6, <1>10, <1>11 DEF T, Good

\* A record names its package first and ends in a blank line, with others only
\* between.
IsRecord(lines, i) ==
    /\ lines \in Seq(Lines) /\ Len(lines) >= 2
    /\ lines[1] = Line("P", <<i>>)
    /\ lines[Len(lines)] = Blank
    /\ \A k \in 2..(Len(lines) - 1) : lines[k] \in Inner

\* The lines that every record has can be read.
LEMMA LineTypes ==
    ASSUME NEW i \in Pkgs
    PROVE  /\ Line("P", <<i>>) \in Lines /\ ~Unreadable(Line("P", <<i>>))
           /\ Line("P", <<i>>) # Blank
           /\ Line("T", <<>>) \in Inner /\ Line("S", <<>>) \in Inner
           /\ Blank \in Lines /\ ~Unreadable(Blank)
  <1>1. <<i>> \in Seq(Nat) /\ <<>> \in Seq(Nat) /\ <<>> # Garbled
    BY PackagesAssumption DEF Pkgs, Garbled
  <1>2. Line("P", <<i>>) \in Lines /\ Blank \in Lines /\ Line("T", <<>>) \in Lines
        /\ Line("S", <<>>) \in Lines
    BY <1>1 DEF Lines, Tokens, Line, Blank
  <1>3. ~Unreadable(Line("P", <<i>>)) /\ ~Unreadable(Blank) /\ ~Unreadable(Line("T", <<>>))
    BY DEF Unreadable, Numbers, Line, Blank
  <1>4. ~Unreadable(Line("S", <<>>))
    BY <1>1 DEF Unreadable, Line
  <1>5. Line("P", <<i>>) # Blank
    BY DEF Line, Blank
  <1>6. /\ Line("T", <<>>).token # "P" /\ Line("T", <<>>).token # "blank"
        /\ Line("S", <<>>).token # "P" /\ Line("S", <<>>).token # "blank"
    BY DEF Line
  <1> QED
    BY <1>2, <1>3, <1>4, <1>5, <1>6 DEF Inner

\* A record is the package, its files as sortTarHeaders lists them, and the end.
LEMMA RecordParts ==
    ASSUME TextInv, NEW i \in Pkgs
    PROVE  LET L == sortTarHeaders(files[i])
           IN  /\ RecordLines(i) = (PackageToInstalled(i) \o BodyLines(L)) \o <<Blank>>
               /\ IsArchive(files[i])
               /\ L \in Seq(files[i]) /\ Placed(L, <<>>)
               /\ IsListing(L, {h \in files[i] : h.path \in Kept(files[i])})
               /\ BodyLines(L) \in Seq(Inner)
  <1> DEFINE hs == files[i]
             L == sortTarHeaders(hs)
  <1>1. IsArchive(hs)
    BY PackagesAssumption DEF TextInv
  <1>2. IsListing(L, {h \in hs : h.path \in Kept(hs)}) /\ Placed(L, <<>>)
    BY <1>1, SortedHeaders
  <1>3. L \in Seq(hs)
    <2>1. L \in Seq({h \in hs : h.path \in Kept(hs)})
      BY <1>2 DEF IsListing
    <2>2. {h \in hs : h.path \in Kept(hs)} \subseteq hs
      OBVIOUS
    <2> HIDE DEF L, hs
    <2> QED
      BY <2>1, <2>2, SeqMonotonic
  <1>4. NewParse \in States /\ ~NewParse.failed /\ NewParse.lastDir = <<>>
        /\ NewParse.pkg.list = <<>>
    BY DEF NewParse, NoPackage, States, PackageType
  <1>5. BodyLines(L) \in Seq(Inner)
    BY <1>1, <1>2, <1>3, <1>4, BodyParse
  <1>6. RecordLines(i) = (PackageToInstalled(i) \o BodyLines(L)) \o <<Blank>>
    BY DEF RecordLines, BodyLines
  <1> QED
    BY <1>1, <1>2, <1>3, <1>5, <1>6

\* AddInstalledPackage writes a record.
LEMMA RecordShape ==
    ASSUME TextInv, NEW i \in Pkgs
    PROVE  IsRecord(RecordLines(i), i)
  <1> DEFINE b == BodyLines(sortTarHeaders(files[i]))
             a == PackageToInstalled(i)
             lines == RecordLines(i)
             n == Len(b)
  <1>1. b \in Seq(Inner) /\ lines = (a \o b) \o <<Blank>>
    BY RecordParts
  <1> HIDE DEF b
  <1>2. b \in Seq(Lines) /\ n \in Nat /\ \A k \in 1..n : b[k] \in Inner
    <2>1. Inner \subseteq Lines
      BY DEF Inner
    <2> QED
      BY <1>1, <2>1, SeqMonotonic, LenProperties, ElementOfSeq
  <1>3. /\ a \in Seq(Lines) /\ Len(a) = 3
        /\ a[1] = Line("P", <<i>>) /\ a[2] \in Inner /\ a[3] \in Inner
        /\ <<Blank>> \in Seq(Lines) /\ Len(<<Blank>>) = 1 /\ <<Blank>>[1] = Blank
    <2>1. /\ Line("P", <<i>>) \in Lines /\ Line("T", <<>>) \in Inner
          /\ Line("S", <<>>) \in Inner /\ Blank \in Lines
      BY LineTypes
    <2>2. Line("T", <<>>) \in Lines /\ Line("S", <<>>) \in Lines
      BY <2>1 DEF Inner
    <2>3. a = <<Line("P", <<i>>), Line("T", <<>>), Line("S", <<>>)>>
      BY DEF PackageToInstalled
    <2> HIDE DEF a
    <2> QED
      BY <2>1, <2>2, <2>3
  <1> HIDE DEF a
  <1> DEFINE ab == a \o b
  <1>4. /\ ab \in Seq(Lines) /\ Len(ab) = 3 + n
        /\ \A k \in 1..(3 + n) : ab[k] = IF k <= 3 THEN a[k] ELSE b[k - 3]
    <2>1. /\ ab \in Seq(Lines) /\ Len(ab) = Len(a) + Len(b)
          /\ \A k \in 1..(Len(a) + Len(b)) :
                ab[k] = IF k <= Len(a) THEN a[k] ELSE b[k - Len(a)]
      BY <1>2, <1>3, ConcatProperties
    <2> HIDE DEF ab
    <2> QED
      BY <1>3, <2>1
  <1> HIDE DEF ab, n
  <1>5. /\ lines \in Seq(Lines) /\ Len(lines) = 3 + n + 1
        /\ \A k \in 1..(3 + n + 1) : lines[k] = IF k <= 3 + n THEN ab[k] ELSE <<Blank>>[k - (3 + n)]
    BY <1>1, <1>3, <1>4, ConcatProperties DEF ab
  <1> HIDE DEF lines
  <1>6. lines[1] = Line("P", <<i>>)
    <2>1. 1 \in 1..(3 + n) /\ 1 \in 1..(3 + n + 1) /\ 1 <= 3 + n
      BY <1>2
    <2> QED
      BY <1>3, <1>4, <1>5, <2>1
  <1>7. lines[3 + n + 1] = Blank
    <2>1. 3 + n + 1 \in 1..(3 + n + 1) /\ ~(3 + n + 1 <= 3 + n) /\ (3 + n + 1) - (3 + n) = 1
      BY <1>2
    <2> QED
      BY <1>3, <1>5, <2>1
  <1>8. ASSUME NEW k \in 2..(3 + n) PROVE lines[k] \in Inner
    <2>1. k \in 1..(3 + n) /\ k \in 1..(3 + n + 1) /\ k <= 3 + n
      BY <1>2
    <2>2. lines[k] = IF k <= 3 THEN a[k] ELSE b[k - 3]
      BY <1>4, <1>5, <2>1
    <2>3. CASE k <= 3
      <3>1. k = 2 \/ k = 3
        BY <1>2, <2>3
      <3> QED
        BY <1>3, <2>2, <2>3, <3>1
    <2>4. CASE ~(k <= 3)
      <3>1. k - 3 \in 1..n
        BY <1>2, <2>4
      <3> QED
        BY <1>2, <2>2, <2>4, <3>1 DEF n
    <2> QED
      BY <2>3, <2>4
  <1>9. Len(lines) >= 2 /\ Len(lines) - 1 = 3 + n
    BY <1>2, <1>5
  <1> QED
    BY <1>5, <1>6, <1>7, <1>8, <1>9 DEF IsRecord, lines

\* A header is listed once, so there are as many paths as headers.
LEMMA PathsRead ==
    ASSUME NEW i, IsArchive(files[i]), NEW L,
           IsListing(L, {h \in files[i] : h.path \in Kept(files[i])}),
           NEW e, e.name = <<i>>, e.list = PathsOf(L, Len(L))
    PROVE  ReadAs(e, i)
  <1> DEFINE hs == files[i]
             K == Kept(hs)
             n == Len(L)
             p == PathsOf(L, n)
             S == {h \in hs : h.path \in K}
  <1>1. \A u, v \in hs : u.path = v.path => u = v
    BY DEF IsArchive
  <1>2. \A x \in K : \E h \in hs : h.path = x
    BY DEF Kept
  <1>3. L \in Seq(S) /\ IsInjective(L) /\ Range(L) = S
    BY DEF IsListing
  <1> HIDE DEF hs, K
  <1>4. n \in Nat /\ DOMAIN L = 1..n /\ \A k \in 1..n : L[k] \in S
    BY <1>3, LenProperties, ElementOfSeq
  <1> HIDE DEF n
  <1>5. \A h \in S : \E k \in 1..n : L[k] = h
    BY <1>3, <1>4 DEF Range
  <1>6. p \in [1..n -> K] /\ \A k \in 1..n : p[k] = L[k].path
    BY <1>4 DEF PathsOf
  <1> HIDE DEF p
  <1>7. \A x \in K : \E k \in 1..n : p[k] = x
    <2> SUFFICES ASSUME NEW x \in K PROVE \E k \in 1..n : p[k] = x
      OBVIOUS
    <2>1. PICK h \in S : h.path = x
      BY <1>2
    <2>2. PICK k \in 1..n : L[k] = h
      BY <1>5
    <2> QED
      BY <1>6, <2>1, <2>2
  <1>8. ASSUME NEW j \in 1..n, NEW k \in 1..n, p[j] = p[k] PROVE j = k
    <2>1. L[j].path = L[k].path
      BY <1>6, <1>8
    <2>2. L[j] = L[k]
      BY <1>1, <1>4, <2>1
    <2> QED
      BY <1>3, <1>4, <2>2 DEF IsInjective
  <1>9. p \in Bijection(1..n, K)
    BY <1>6, <1>7, <1>8 DEF Bijection, Injection, Surjection, IsInjective
  <1>10. Cardinality(K) = n
    <2>1. ExistsBijection(1..n, K)
      BY <1>9 DEF ExistsBijection
    <2> QED
      BY <1>4, <2>1, FS_CountingElements
  <1>11. Len(p) = n
    BY <1>4, <1>6
  <1>12. ToSet(p) = K
    BY <1>6, <1>7 DEF ToSet
  <1> QED
    BY <1>10, <1>11, <1>12 DEF ReadAs, p, K, hs, n

NewState(packages) == [NewParse EXCEPT !.packages = packages]

\* A whole record, where none is open, is read as what was written.
LEMMA RecordParse ==
    ASSUME TextInv, NEW i \in Pkgs, NEW s \in States, s = NewState(s.packages)
    PROVE  \E e \in PackageType :
              /\ ReadAs(e, i)
              /\ ParseFrom(s, RecordLines(i)) = NewState(Append(s.packages, e))
  <1> DEFINE L == sortTarHeaders(files[i])
             b == BodyLines(L)
             p == Line("P", <<i>>)
             t == Line("T", <<>>)
             z == Line("S", <<>>)
             u1 == ParseLine(s, p)
             u2 == ParseLine(u1, t)
             u3 == ParseLine(u2, z)
             r == ParseFrom(u3, b)
             end == ParseLine(r, Blank)
  <1>1. ~s.failed /\ s.pkg = NoPackage /\ s.lastDir = <<>> /\ s.packages \in Seq(PackageType)
    BY DEF NewState, NewParse, States
  <1>2. /\ p \in Lines /\ ~Unreadable(p) /\ p # Blank
        /\ t \in Inner /\ z \in Inner /\ Blank \in Lines /\ ~Unreadable(Blank)
    BY LineTypes
  <1>3. /\ t \in Lines /\ ~Unreadable(t) /\ t # Blank
        /\ z \in Lines /\ ~Unreadable(z) /\ z # Blank
    BY <1>2 DEF Inner, Blank, Line
  <1>4. /\ p.token = "P" /\ p.val = <<i>>
        /\ t.token \notin {"P", "F", "R"} /\ z.token \notin {"P", "F", "R"}
    BY DEF Line
  <1>5. NoPackage.list = <<>> /\ NoPackage.name = <<>>
    BY DEF NoPackage
  <1> HIDE DEF p, t, z
  <1>6. /\ u1 \in States /\ ~u1.failed /\ u1.packages = s.packages /\ u1.pkg.name = <<i>>
        /\ u1.pkg.list = <<>> /\ u1.lastDir = <<>>
    BY <1>1, <1>2, <1>4, <1>5, ParseLineFields
  <1> HIDE DEF u1
  <1>7. /\ u2 \in States /\ ~u2.failed /\ u2.packages = s.packages /\ u2.pkg.name = <<i>>
        /\ u2.pkg.list = <<>> /\ u2.lastDir = <<>>
    BY <1>3, <1>4, <1>6, ParseLineFields
  <1> HIDE DEF u2
  <1>8. /\ u3 \in States /\ ~u3.failed /\ u3.packages = s.packages /\ u3.pkg.name = <<i>>
        /\ u3.pkg.list = <<>> /\ u3.lastDir = <<>>
    BY <1>3, <1>4, <1>7, ParseLineFields
  <1> HIDE DEF u3
  <1>9. /\ RecordLines(i) = (PackageToInstalled(i) \o b) \o <<Blank>>
        /\ IsArchive(files[i]) /\ L \in Seq(files[i]) /\ Placed(L, <<>>)
        /\ IsListing(L, {h \in files[i] : h.path \in Kept(files[i])})
        /\ b \in Seq(Inner)
    BY RecordParts
  <1> HIDE DEF L
  <1>10. /\ r \in States /\ ~r.failed /\ r.packages = s.packages /\ r.pkg.name = <<i>>
         /\ r.pkg.list = PathsOf(L, Len(L))
    BY <1>8, <1>9, BodyParse
  <1>11. b \in Seq(Lines)
    <2>1. Inner \subseteq Lines
      BY DEF Inner
    <2> QED
      BY <1>9, <2>1, SeqMonotonic
  <1> HIDE DEF b, r
  <1>12. ReadAs(r.pkg, i)
    BY <1>9, <1>10, PathsRead
  <1>13. /\ end \in States /\ ~end.failed /\ end.pkg = NoPackage /\ end.lastDir = <<>>
         /\ end.packages = Append(s.packages, r.pkg)
    <2>1. r.pkg.name # <<>>
      <3>1. <<i>> # <<>>
        OBVIOUS
      <3> QED
        BY <1>10, <3>1
    <2>2. /\ end \in States /\ ~end.failed
      BY <1>2, <1>10, ParseLineFields
    <2>3. /\ end.pkg = NoPackage /\ end.lastDir = <<>>
          /\ end.packages = IF r.pkg.name = <<>> THEN r.packages ELSE Append(r.packages, r.pkg)
      BY <1>2, <1>10, <2>2, ParseLineFields
    <2> HIDE DEF end
    <2> QED
      BY <1>10, <2>1, <2>2, <2>3
  <1> HIDE DEF end
  <1>14. end = NewState(Append(s.packages, r.pkg))
    <2>1. end = [packages |-> end.packages, pkg |-> end.pkg, lastDir |-> end.lastDir,
                 failed |-> end.failed]
      BY <1>13 DEF States
    <2>2. end.failed = FALSE
      BY <1>13 DEF States
    <2> QED
      BY <1>13, <2>1, <2>2 DEF NewState, NewParse
  <1>15. ParseFrom(s, PackageToInstalled(i)) = u3
    <2>1. PackageToInstalled(i) = (<<p>> \o <<t>>) \o <<z>>
      BY DEF PackageToInstalled, p, t, z
    <2>2. <<p>> \in Seq(Lines) /\ <<t>> \in Seq(Lines) /\ <<z>> \in Seq(Lines)
      BY <1>2, <1>3
    <2>3. <<p>> \o <<t>> \in Seq(Lines)
      BY <2>2, ConcatProperties
    <2>4. ParseFrom(s, <<p>>) = u1
      BY <1>2, ParseOne DEF u1
    <2>5. ParseFrom(s, <<p>> \o <<t>>) = u2
      <3>1. ParseFrom(u1, <<t>>) = u2
        BY <1>3, <1>6, ParseOne DEF u2
      <3> QED
        BY <2>2, <2>4, <3>1, ParseConcat
    <2>6. ParseFrom(u2, <<z>>) = u3
      BY <1>3, <1>7, ParseOne DEF u3
    <2>7. ParseFrom(s, (<<p>> \o <<t>>) \o <<z>>) = ParseFrom(ParseFrom(s, <<p>> \o <<t>>), <<z>>)
      BY <2>2, <2>3, ParseConcat
    <2> QED
      BY <2>1, <2>5, <2>6, <2>7
  <1>16. PackageToInstalled(i) \in Seq(Lines)
    <2>1. PackageToInstalled(i) = <<p, t, z>>
      BY DEF PackageToInstalled, p, t, z
    <2> QED
      BY <1>2, <1>3, <2>1
  <1>17. ParseFrom(s, PackageToInstalled(i) \o b) = r
    BY <1>11, <1>15, <1>16, ParseConcat DEF r
  <1>18. PackageToInstalled(i) \o b \in Seq(Lines) /\ <<Blank>> \in Seq(Lines)
    BY <1>2, <1>11, <1>16, ConcatProperties
  <1>19. ParseFrom(r, <<Blank>>) = end
    BY <1>2, <1>10, ParseOne DEF end
  <1>20. ParseFrom(s, RecordLines(i)) = end
    <2>1. ParseFrom(s, (PackageToInstalled(i) \o b) \o <<Blank>>)
             = ParseFrom(ParseFrom(s, PackageToInstalled(i) \o b), <<Blank>>)
      BY <1>18, ParseConcat
    <2> QED
      BY <1>9, <1>17, <1>19, <2>1
  <1>21. r.pkg \in PackageType
    BY <1>10 DEF States
  <1> QED
    BY <1>12, <1>14, <1>20, <1>21

-----------------------------------------------------------------------------
(* What is appended to the database. *)

\* ParseInstalled starts with nothing.
LEMMA NewParseType == NewParse \in States /\ NewParse.packages = <<>> /\ ~NewParse.failed
  BY DEF NewParse, NoPackage, States, PackageType

\* The complete lines can be parsed to their end, or to a failure.
LEMMA CompleteType ==
    ASSUME TextInv
    PROVE  /\ Complete \in States /\ Complete.packages \in Seq(PackageType)
           /\ Len(Complete.packages) \in Nat
  <1>1. Complete \in States
    BY NewParseType, ParseGrows DEF TextInv, Complete
  <1>2. Complete.packages \in Seq(PackageType)
    BY <1>1 DEF States
  <1> QED
    BY <1>1, <1>2, LenProperties

\* What a reader gets of an open line: nothing, or a failure.
LEMMA PartParse ==
    ASSUME TextInv
    PROVE  /\ ParseInstalled.packages = Complete.packages
           /\ Readable => ~Complete.failed
           /\ part = <<>> => ParseInstalled = Complete
  <1>1. db \in Seq(Lines) /\ Complete \in States
    BY CompleteType DEF TextInv
  <1>2. CASE part = <<>>
    <2>1. db \o part = db
      BY <1>1, <1>2, ConcatEmptySeq
    <2> QED
      BY <1>2, <2>1 DEF ParseInstalled, Complete, Readable
  <1>3. CASE part # <<>>
    <2>1. part \in Seq(Lines) /\ Len(part) = 1 /\ part[1].token # "blank"
      BY <1>3 DEF TextInv
    <2>2. part[1] \in Lines /\ part = <<part[1]>>
      BY <2>1
    <2>3. part[1] # Blank
      BY <2>1 DEF Blank, Line
    <2>4. ParseInstalled = ParseFrom(Complete, part)
      BY <1>1, <2>1, NewParseType, ParseConcat DEF ParseInstalled, Complete
    <2>5. ParseInstalled = ParseLine(Complete, part[1])
      BY <1>1, <2>2, <2>4, ParseOne
    <2>6. /\ ParseInstalled.packages = Complete.packages
          /\ ~ParseInstalled.failed => ~Complete.failed
      BY <1>1, <2>2, <2>3, <2>5, ParseLineFields
    <2> QED
      BY <1>3, <2>6 DEF Readable
  <1> QED
    BY <1>2, <1>3

\* A line that is continued stays a line of its kind.
LEMMA ContinuedLine ==
    ASSUME TextInv, part # <<>>
    PROVE  /\ part = <<part[1]>> /\ part[1] \in Lines
           /\ Continued(part[1]) \in Lines /\ Continued(part[1]).token = part[1].token
           /\ part[1].token # "blank"
  <1>1. part \in Seq(Lines) /\ Len(part) = 1 /\ part[1].token # "blank"
    BY DEF TextInv
  <1>2. part[1] \in Lines /\ part = <<part[1]>>
    BY <1>1
  <1>3. Garbled \in Seq(Nat)
    BY DEF Garbled
  <1> QED
    BY <1>1, <1>2, <1>3 DEF Continued, Line, Lines

\* The first n lines of a record, behind a line that is open.
Added(lines, n) ==
    IF part = <<>> \/ n = 0 THEN SubSeq(lines, 1, n)
    ELSE <<Continued(part[1])>> \o SubSeq(lines, 2, n)

\* What is appended is read from where the complete lines end.
LEMMA AppendedParse ==
    ASSUME TextInv, NEW i \in Pkgs, NEW lines, IsRecord(lines, i), NEW n \in 0..Len(lines)
    PROVE  /\ Added(lines, n) \in Seq(Lines)
           /\ Appended(lines, n) = db \o Added(lines, n)
           /\ Appended(lines, n) \in Seq(Lines)
           /\ ParseFrom(NewParse, Appended(lines, n)) = ParseFrom(Complete, Added(lines, n))
  <1>1. db \in Seq(Lines)
    BY DEF TextInv
  <1>2. lines \in Seq(Lines) /\ Len(lines) \in Nat /\ n \in Nat
        /\ \A k \in 1..n : lines[k] \in Lines
    <2>1. lines \in Seq(Lines)
      BY DEF IsRecord
    <2>2. Len(lines) \in Nat
      BY <2>1, LenProperties
    <2>3. \A k \in 1..n : k \in 1..Len(lines)
      BY <2>2
    <2> QED
      BY <2>1, <2>2, <2>3, ElementOfSeq
  <1>3. SubSeq(lines, 1, n) \in Seq(Lines) /\ SubSeq(lines, 2, n) \in Seq(Lines)
    <2>1. \A k \in 2..n : lines[k] \in Lines
      BY <1>2
    <2> QED
      BY <1>2, <2>1, SubSeqProperties
  <1>4. Added(lines, n) \in Seq(Lines) /\ Appended(lines, n) = db \o Added(lines, n)
    <2>1. CASE part = <<>> \/ n = 0
      BY <1>3, <2>1 DEF Added, Appended
    <2>2. CASE ~(part = <<>> \/ n = 0)
      <3> DEFINE c == Continued(part[1])
                 q == SubSeq(lines, 2, n)
      <3>1. c \in Lines
        BY <2>2, ContinuedLine
      <3>2. Added(lines, n) = <<c>> \o q /\ Appended(lines, n) = Append(db, c) \o q
        BY <2>2 DEF Added, Appended
      <3> HIDE DEF c, q
      <3>3. <<c>> \in Seq(Lines) /\ q \in Seq(Lines)
        BY <1>3, <3>1 DEF q
      <3>4. Append(db, c) = db \o <<c>>
        BY <1>1, <3>1, AppendIsConcat
      <3>5. (db \o <<c>>) \o q = db \o (<<c>> \o q)
        BY <1>1, <3>3, ConcatAssociative
      <3>6. <<c>> \o q \in Seq(Lines)
        BY <3>3, ConcatProperties
      <3> QED
        BY <3>2, <3>4, <3>5, <3>6
    <2> QED
      BY <2>1, <2>2
  <1>5. db \o Added(lines, n) \in Seq(Lines)
    BY <1>1, <1>4, ConcatProperties
  <1>6. ParseFrom(NewParse, db \o Added(lines, n)) = ParseFrom(Complete, Added(lines, n))
    BY <1>1, <1>4, NewParseType, ParseConcat DEF Complete
  <1> QED
    BY <1>4, <1>5, <1>6

\* A record that is begun, or continues the one that is open, is open until its
\* last line, and closed as a record of its package then.
LEMMA AppendedOpen ==
    ASSUME TextInv, NEW i \in Pkgs, NEW lines, IsRecord(lines, i),
           NEW n \in 1..Len(lines),
           part # <<>> => part[1].token # "P" /\ Complete.pkg.name = <<i>>,
           ~ParseFrom(Complete, Added(lines, n)).failed
    PROVE  LET st == ParseFrom(Complete, Added(lines, n))
           IN  /\ ~Complete.failed
               /\ n < Len(lines) => st.packages = Complete.packages /\ st.pkg.name = <<i>>
               /\ n = Len(lines) => \E e \in PackageType :
                     e.name = <<i>> /\ st.packages = Append(Complete.packages, e)
  <1> DEFINE C == Complete
             x == IF part = <<>> THEN lines[1] ELSE Continued(part[1])
             y == ParseLine(C, x)
             q(m) == SubSeq(lines, 2, m)
             st == ParseFrom(C, Added(lines, n))
             l == Len(lines)
  <1>1. C \in States /\ C.packages \in Seq(PackageType)
    BY CompleteType
  <1>2. /\ lines \in Seq(Lines) /\ l \in Nat /\ l >= 2
        /\ lines[1] = Line("P", <<i>>) /\ lines[l] = Blank
        /\ \A k \in 2..(l - 1) : lines[k] \in Inner
    <2>1. lines \in Seq(Lines)
      BY DEF IsRecord
    <2> QED
      BY <2>1, LenProperties DEF IsRecord
  <1>3. Line("P", <<i>>) \in Lines /\ Line("P", <<i>>) # Blank /\ Blank \in Lines
    BY LineTypes
  <1>4. x \in Lines /\ x # Blank
    <2>1. CASE part = <<>>
      BY <1>2, <1>3, <2>1
    <2>2. CASE part # <<>>
      <3>1. Continued(part[1]) \in Lines /\ Continued(part[1]).token # "blank"
        BY <2>2, ContinuedLine
      <3>2. Blank.token = "blank"
        BY DEF Blank, Line
      <3> QED
        BY <2>2, <3>1, <3>2
    <2> QED
      BY <2>1, <2>2
  <1>5. y \in States /\ (~y.failed => ~C.failed /\ y.packages = C.packages)
    BY <1>1, <1>4, ParseLineFields
  <1>6. ~y.failed => y.pkg.name = <<i>>
    <2>1. ~y.failed => y.pkg.name = IF x.token = "P" THEN x.val ELSE C.pkg.name
      BY <1>1, <1>4, ParseLineFields
    <2>2. CASE part = <<>>
      <3>1. x.token = "P" /\ x.val = <<i>>
        BY <1>2, <2>2 DEF Line
      <3> QED
        BY <2>1, <3>1
    <2>3. CASE part # <<>>
      <3>1. x.token # "P" /\ C.pkg.name = <<i>>
        BY <2>3, ContinuedLine
      <3> QED
        BY <2>1, <3>1
    <2> QED
      BY <2>2, <2>3
  <1>7. Added(lines, n) = <<x>> \o q(n)
    <2>1. n # 0 /\ 1 \in 1..l /\ n \in 1..l /\ 1 + 1 = 2
      BY <1>2
    <2>2. SubSeq(lines, 1, n) = <<lines[1]>> \o SubSeq(lines, 1 + 1, n)
      BY <1>2, <2>1, SubSeqRecursiveFirst
    <2> QED
      BY <2>1, <2>2 DEF Added
  <1> HIDE DEF x
  <1>8. ASSUME NEW m \in 1..l PROVE q(m) \in Seq(Lines)
    <2>1. \A k \in 2..m : k \in 1..l
      BY <1>2
    <2>2. \A k \in 2..m : lines[k] \in Lines
      BY <1>2, <2>1, ElementOfSeq
    <2>3. m \in Int /\ 2 \in Int
      BY <1>2
    <2> QED
      BY <2>2, <2>3, SubSeqProperties
  <1>9. st = ParseFrom(y, q(n))
    <2>1. <<x>> \in Seq(Lines) /\ q(n) \in Seq(Lines)
      BY <1>4, <1>8
    <2>2. ParseFrom(C, <<x>>) = y
      BY <1>1, <1>4, ParseOne
    <2> HIDE DEF y, C, q
    <2>3. ParseFrom(C, <<x>> \o q(n)) = ParseFrom(ParseFrom(C, <<x>>), q(n))
      BY <1>1, <2>1, ParseConcat
    <2> QED
      BY <1>7, <2>2, <2>3
  <1> HIDE DEF y
  <1>10. ASSUME NEW m \in 1..(l - 1), NEW w, w = ParseFrom(y, q(m)), ~w.failed
         PROVE  /\ w \in States /\ ~C.failed
                /\ w.packages = C.packages /\ w.pkg.name = <<i>>
    <2>1. m \in 1..l /\ m \in Int /\ 2 \in Int
      BY <1>2
    <2>2. q(m) \in Seq(Lines)
      BY <1>8, <2>1
    <2>3. /\ Len(q(m)) = IF 2 <= m THEN m - 2 + 1 ELSE 0
          /\ \A k \in 1..(m - 2 + 1) : q(m)[k] = lines[2 + k - 1]
      <3>1. \A k \in 2..m : lines[k] \in Lines
        <4>1. \A k \in 2..m : k \in 1..l
          BY <1>2, <2>1
        <4> QED
          BY <1>2, <4>1, ElementOfSeq
      <3> QED
        BY <2>1, <3>1, SubSeqProperties
    <2> DEFINE Q == q(m)
    <2> HIDE DEF q, C
    <2>4. \A k \in 1..Len(Q) : Q[k] \in Inner
      <3> SUFFICES ASSUME NEW k \in 1..Len(Q) PROVE Q[k] \in Inner
        OBVIOUS
      <3>1. k \in 1..(m - 2 + 1) /\ 2 + k - 1 \in 2..(l - 1)
        BY <1>2, <2>1, <2>3
      <3>2. Q[k] = lines[2 + k - 1]
        BY <2>3, <3>1
      <3> QED
        BY <1>2, <3>1, <3>2
    <2>5. \A k \in 1..Len(Q) : Q[k].token # "P" /\ Q[k].token # "blank"
      BY <2>4 DEF Inner
    <2>6. Q \in Seq(Lines)
      BY <2>2
    <2> HIDE DEF Q
    <2>7. w = ParseFrom(y, Q)
      BY <1>10 DEF Q
    <2>8. w \in States /\ ~y.failed
      BY <1>5, <1>10, <2>6, <2>7, ParseGrows
    <2>9. w.packages = y.packages /\ w.pkg.name = y.pkg.name
      BY <1>5, <1>10, <2>5, <2>6, <2>7, ParseInner
    <2> QED
      BY <1>5, <1>6, <2>8, <2>9
  <1>11. CASE n < l
    <2>1. n \in 1..(l - 1)
      BY <1>2, <1>11
    <2>2. ~C.failed /\ st.packages = C.packages /\ st.pkg.name = <<i>>
      BY <1>9, <1>10, <2>1
    <2> QED
      BY <1>2, <1>11, <2>2
  <1>12. CASE n = l
    <2> DEFINE w == ParseFrom(y, q(l - 1))
    <2>1. l - 1 \in 1..(l - 1) /\ l - 1 \in 1..l /\ l \in 2..l /\ 2 \in 1..l
      BY <1>2
    <2>2. q(l) = q(l - 1) \o <<lines[l]>>
      BY <1>2, <2>1, SubSeqRecursiveSecond
    <2>3. q(l - 1) \in Seq(Lines) /\ <<Blank>> \in Seq(Lines)
      BY <1>3, <1>8, <2>1
    <2>4. w \in States
      BY <1>5, <2>3, ParseGrows
    <2>5. st = ParseLine(w, Blank)
      <3>1. ParseFrom(w, <<Blank>>) = ParseLine(w, Blank)
        BY <1>3, <2>4, ParseOne
      <3>2. ParseFrom(y, q(l - 1) \o <<Blank>>) = ParseFrom(w, <<Blank>>)
        BY <1>5, <2>3, ParseConcat
      <3> QED
        BY <1>2, <1>9, <1>12, <2>2, <3>1, <3>2
    <2> HIDE DEF w
    <2>6. ~w.failed
      BY <1>3, <2>4, <2>5, ParseLineFields
    <2>7. ~C.failed /\ w.packages = C.packages /\ w.pkg.name = <<i>>
      BY <1>10, <2>1, <2>6 DEF w
    <2>8. st.packages = IF w.pkg.name = <<>> THEN w.packages ELSE Append(w.packages, w.pkg)
      BY <1>3, <2>4, <2>5, ParseLineFields
    <2>9. w.pkg.name # <<>>
      <3>1. <<i>> # <<>>
        OBVIOUS
      <3> QED
        BY <2>7, <3>1
    <2>10. st.packages = Append(C.packages, w.pkg) /\ w.pkg \in PackageType
      <3>1. w.pkg \in PackageType
        BY <2>4 DEF States
      <3> HIDE DEF st, C
      <3> QED
        BY <2>7, <2>8, <2>9, <3>1
    <2> HIDE DEF st, C
    <2>11. ~(n < l)
      BY <1>2, <1>12
    <2> QED
      BY <2>7, <2>10, <2>11 DEF st, C
  <1> QED
    BY <1>2, <1>11, <1>12

-----------------------------------------------------------------------------
(* The inductive invariant of the database. *)

\* The database InitDB leaves is empty.
LEMMA DatabaseInit == Init => DatabaseInv
  <1> SUFFICES ASSUME Init PROVE DatabaseInv
    OBVIOUS
  <1>1. N \in Nat
    BY PackagesAssumption
  <1>2. /\ files \in Systems /\ db = <<>> /\ part = <<>> /\ whole = <<>> /\ torn = {}
        /\ at = [phase |-> "install", i |-> 1] /\ infos = {}
    BY DEF Init
  <1>3. Complete = NewParse
    BY <1>2, NewParseType, ParseEmpty DEF Complete
  <1>4. Complete.packages = <<>> /\ ~Complete.failed /\ Complete \in States
    BY <1>3, NewParseType
  <1>5. Len(Complete.packages) = 0 /\ Len(whole) = 0 /\ DOMAIN whole = {}
    BY <1>2, <1>4
  <1>6. TextInv
    <2>1. <<>> \in Seq(Lines) /\ <<>> \in Seq(Pkgs)
      OBVIOUS
    <2> QED
      BY <1>1, <1>2, <2>1 DEF TextInv
  <1>7. NewParse = [NewParse EXCEPT !.packages = NewParse.packages]
    BY DEF NewParse
  <1>8. RecordInv
    BY <1>2, <1>3, <1>5, <1>7 DEF RecordInv
  <1>9. ToRecord(0)
    <2>1. (0 + 1)..(1 - 1) = {}
      OBVIOUS
    <2> QED
      BY <1>2, <2>1 DEF ToRecord
  <1>10. RetryInv
    BY <1>1, <1>2, <1>5, <1>9 DEF RetryInv
  <1> QED
    BY <1>6, <1>8, <1>10 DEF DatabaseInv

\* What a step leaves alone when it does not write to the database.
LEMMA RecordFrame ==
    ASSUME RecordInv, files' = files, db' = db, part' = part, whole' = whole,
           "db" \in torn' <=> "db" \in torn
    PROVE  RecordInv'
  <1>1. Complete' = Complete
    BY DEF Complete
  <1>2. \A k : ReadAs(Complete.packages[k], whole[k])' <=> ReadAs(Complete.packages[k], whole[k])
    BY <1>1 DEF ReadAs
  <1> QED
    BY <1>1, <1>2 DEF RecordInv

\* The same for what is to be recorded.
LEMMA RetryFrame ==
    ASSUME RetryInv, db' = db, part' = part,
           "name" \in torn' <=> "name" \in torn,
           LET m == Len(Complete.packages)
           IN  /\ ~Complete.failed /\ m <= N /\ ToRecord(m)
               /\ \A k \in 1..m : Complete.packages[k].name = <<k>>
               => ToRecord(m)'
    PROVE  RetryInv'
  <1>1. Complete' = Complete
    BY DEF Complete
  <1> DEFINE m == Len(Complete.packages)
             Names == \A k \in 1..m : Complete.packages[k].name = <<k>>
             Open == part # <<>> => part[1].token # "P" /\ Complete.pkg.name = <<m + 1>>
             C == Complete
  <1>2. "name" \notin torn /\ ~C.failed => m <= N /\ ToRecord(m) /\ Names /\ Open
    BY DEF RetryInv
  <1>3. m' = m /\ (Names' <=> Names) /\ (Open' <=> Open) /\ C' = C
    BY <1>1
  <1>4. ~C.failed /\ m <= N /\ ToRecord(m) /\ Names => ToRecord(m)'
    OBVIOUS
  <1>5. "name" \notin torn' /\ ~C'.failed => m' <= N /\ ToRecord(m)' /\ Names' /\ Open'
    <2> HIDE DEF m, Names, Open, C
    <2> QED
      BY <1>2, <1>3, <1>4
  <1> QED
    BY <1>5 DEF RetryInv

\* The loop of InstallPackages goes to the next package.
LEMMA NextPackage ==
    ASSUME TextInv, at.i \in Pkgs, at' = [at EXCEPT !.i = @ + 1]
    PROVE  /\ at'.phase = at.phase /\ at'.i = at.i + 1
           /\ at' \in [phase : {"install", "record", "failed", "unreadable", "done"},
                       i : 0..(N + 1)]
           /\ at'.i # 0
  <1> DEFINE Phases == {"install", "record", "failed", "unreadable", "done"}
  <1>1. N \in Nat /\ at.i \in 1..N /\ at \in [phase : Phases, i : 0..(N + 1)]
    BY PackagesAssumption DEF TextInv, Pkgs
  <1> HIDE DEF Phases
  <1>2. at'.phase = at.phase /\ at'.i = at.i + 1 /\ at' \in [phase : Phases, i : 0..(N + 1)]
    <2>1. at = [phase |-> at.phase, i |-> at.i] /\ at.phase \in Phases
      BY <1>1
    <2>2. at' = [phase |-> at.phase, i |-> at.i + 1]
      BY <2>1
    <2>3. at.i + 1 \in 0..(N + 1)
      BY <1>1
    <2> QED
      BY <2>1, <2>2, <2>3
  <1> QED
    BY <1>1, <1>2 DEF Phases

\* The packages that are installed are the first ones.
LEMMA InstalledFirst ==
    ASSUME TextInv, Readable, at.i \in Pkgs, NEW m, m = Len(Complete.packages), m <= N,
           \A k \in 1..m : Complete.packages[k].name = <<k>>
    PROVE  isInstalledPackage(at.i) <=> at.i <= m
  <1>1. /\ ParseInstalled.packages = Complete.packages
        /\ DOMAIN Complete.packages = 1..m /\ m \in Nat
    BY PartParse, CompleteType, LenProperties
  <1>2. N \in Nat /\ at.i \in Nat /\ at.i >= 1
    BY PackagesAssumption DEF Pkgs
  <1>3. \A k \in 1..m : Complete.packages[k].name = <<at.i>> <=> k = at.i
    <2> SUFFICES ASSUME NEW k \in 1..m PROVE Complete.packages[k].name = <<at.i>> <=> k = at.i
      OBVIOUS
    <2>1. <<k>> = <<at.i>> <=> k = at.i
      OBVIOUS
    <2> QED
      BY <2>1
  <1>4. isInstalledPackage(at.i) <=> \E k \in 1..m : k = at.i
    BY <1>1, <1>3 DEF isInstalledPackage
  <1> QED
    BY <1>1, <1>2, <1>4

\* The text is left alone where only the call moves on.
LEMMA TextFrame ==
    ASSUME TextInv, files' = files, db' = db, part' = part, whole' = whole,
           infos' \subseteq Pkgs,
           at' \in [phase : {"install", "record", "failed", "unreadable", "done"}, i : 0..(N + 1)],
           at'.phase \in {"install", "record"} => at'.i # 0
    PROVE  TextInv'
  BY DEF TextInv

\* The steps that do not write to the database keep its invariant.
LEMMA UnwrittenStep ==
    ASSUME DatabaseInv,
           \/ SkipInstalled \/ updateScriptsTar \/ updateScriptsTarFail
           \/ updateScriptsTarUnended \/ CheckFail
           \/ StartRecord \/ RecordSkip \/ RecordDone \/ CallAgain
    PROVE  DatabaseInv'
  <1> DEFINE Phases == {"install", "record", "failed", "unreadable", "done"}
             m == Len(Complete.packages)
             Given == /\ ~Complete.failed /\ m <= N /\ ToRecord(m)
                      /\ \A k \in 1..m : Complete.packages[k].name = <<k>>
             Typed == /\ at' \in [phase : Phases, i : 0..(N + 1)]
                      /\ at'.phase \in {"install", "record"} => at'.i # 0
                      /\ infos' \subseteq Pkgs
  <1>1. TextInv /\ RecordInv /\ RetryInv
    BY DEF DatabaseInv
  <1>2. N \in Nat /\ m \in Nat /\ infos \subseteq Pkgs
    BY <1>1, PackagesAssumption, CompleteType DEF TextInv
  <1>3. /\ files' = files /\ db' = db /\ part' = part /\ whole' = whole
        /\ "db" \in torn' <=> "db" \in torn
        /\ "name" \in torn' <=> "name" \in torn
    BY DEF SkipInstalled, updateScriptsTar, updateScriptsTarFail, updateScriptsTarUnended,
           CheckFail, StartRecord, RecordSkip, RecordDone, CallAgain, history
  <1>4. Given => (at.phase = "install" => infos = (m + 1)..(at.i - 1))
    BY DEF ToRecord
  <1>5. Given => (at.phase = "record" =>
          \E a \in 1..(N + 1) : infos = a..N /\ m = (IF at.i < a THEN a ELSE at.i) - 1)
    BY DEF ToRecord
  <1>6. ASSUME Readable, at.i \in Pkgs, Given PROVE isInstalledPackage(at.i) <=> at.i <= m
    BY <1>1, <1>6, InstalledFirst
  <1> HIDE DEF m, Given, Phases
  <1>7. Typed /\ (Given => ToRecord(m)')
    <2>1. CASE SkipInstalled
      <3>1. at.phase = "install" /\ at.i \in Pkgs /\ Readable /\ isInstalledPackage(at.i)
            /\ at' = [at EXCEPT !.i = @ + 1] /\ infos' = infos
        BY <2>1 DEF SkipInstalled
      <3>2. /\ at'.phase = "install" /\ at'.i = at.i + 1 /\ at'.i # 0
            /\ at' \in [phase : Phases, i : 0..(N + 1)]
        BY <1>1, <3>1, NextPackage DEF Phases
      <3>3. ASSUME Given PROVE infos' = (m + 1)..(at'.i - 1)
        <4>1. at.i <= m /\ infos = (m + 1)..(at.i - 1) /\ at.i \in 1..N
          BY <1>4, <1>6, <3>1, <3>3 DEF Pkgs
        <4>2. (m + 1)..(at.i - 1) = (m + 1)..(at.i + 1 - 1)
          BY <1>2, <4>1
        <4> QED
          BY <3>1, <3>2, <4>1, <4>2
      <3>4. Given => ToRecord(m)'
        BY <1>3, <3>2, <3>3 DEF ToRecord, m, Complete
      <3> QED
        BY <1>2, <3>1, <3>2, <3>4
    <2>2. CASE updateScriptsTar \/ updateScriptsTarUnended
      <3>1. at.phase = "install" /\ at.i \in Pkgs /\ Readable /\ ~isInstalledPackage(at.i)
            /\ at' = [at EXCEPT !.i = @ + 1] /\ infos' = infos \cup {at.i}
        BY <2>2 DEF updateScriptsTar, updateScriptsTarUnended
      <3>2. /\ at'.phase = "install" /\ at'.i = at.i + 1 /\ at'.i # 0
            /\ at' \in [phase : Phases, i : 0..(N + 1)]
        BY <1>1, <3>1, NextPackage DEF Phases
      <3>3. ASSUME Given PROVE infos' = (m + 1)..(at'.i - 1)
        <4>1. ~(at.i <= m) /\ infos = (m + 1)..(at.i - 1) /\ at.i \in 1..N
          BY <1>4, <1>6, <3>1, <3>3 DEF Pkgs
        <4>2. (m + 1)..(at.i - 1) \cup {at.i} = (m + 1)..(at.i + 1 - 1)
          BY <1>2, <4>1
        <4> QED
          BY <3>1, <3>2, <4>1, <4>2
      <3>4. Given => ToRecord(m)'
        BY <1>3, <3>2, <3>3 DEF ToRecord, m, Complete
      <3> QED
        BY <1>2, <3>1, <3>2, <3>4
    <2>3. CASE updateScriptsTarFail \/ CheckFail
      <3>1. /\ infos' = infos
            /\ at' = [phase |-> "failed", i |-> 0] \/ at' = [phase |-> "unreadable", i |-> 0]
        BY <2>3 DEF updateScriptsTarFail, CheckFail, Stopped
      <3>2. Typed
        BY <1>2, <3>1 DEF Phases
      <3>3. at'.phase # "install" /\ at'.phase # "record" /\ at'.phase # "done"
        BY <3>1
      <3> QED
        BY <3>2, <3>3 DEF ToRecord
    <2>4. CASE StartRecord
      <3>1. /\ at = [phase |-> "install", i |-> N + 1] /\ infos' = infos
            /\ at' = [phase |-> "record", i |-> 1]
        BY <2>4 DEF StartRecord
      <3>2. Typed
        BY <1>2, <3>1 DEF Phases
      <3>3. at'.phase = "record" /\ at'.i = 1 /\ at.phase = "install" /\ at.i = N + 1
        BY <3>1
      <3>4. ASSUME Given
            PROVE  \E a \in 1..(N + 1) : infos' = a..N /\ m = (IF at'.i < a THEN a ELSE at'.i) - 1
        <4>1. infos' = (m + 1)..N /\ m <= N
          BY <1>2, <1>4, <3>1, <3>3, <3>4 DEF Given
        <4>2. m + 1 \in 1..(N + 1) /\ m = (IF at'.i < m + 1 THEN m + 1 ELSE at'.i) - 1
          BY <1>2, <3>3, <4>1
        <4> QED
          BY <4>1, <4>2
      <3> QED
        BY <1>3, <3>2, <3>3, <3>4 DEF ToRecord, m, Complete
    <2>5. CASE RecordSkip
      <3>1. at.phase = "record" /\ at.i \in Pkgs /\ at.i \notin infos
            /\ at' = [at EXCEPT !.i = @ + 1] /\ infos' = infos
        BY <2>5 DEF RecordSkip
      <3>2. /\ at'.phase = "record" /\ at'.i = at.i + 1 /\ at'.i # 0
            /\ at' \in [phase : Phases, i : 0..(N + 1)]
        BY <1>1, <3>1, NextPackage DEF Phases
      <3>3. ASSUME Given
            PROVE  \E a \in 1..(N + 1) : infos' = a..N /\ m = (IF at'.i < a THEN a ELSE at'.i) - 1
        <4>1. PICK a \in 1..(N + 1) : infos = a..N /\ m = (IF at.i < a THEN a ELSE at.i) - 1
          BY <1>5, <3>1, <3>3
        <4>2. at.i \in 1..N /\ at.i \notin a..N
          BY <3>1, <4>1 DEF Pkgs
        <4>3. at.i < a
          BY <1>2, <4>2
        <4>4. m = (IF at'.i < a THEN a ELSE at'.i) - 1
          BY <1>2, <3>2, <4>1, <4>2, <4>3
        <4> QED
          BY <3>1, <4>1, <4>4
      <3>4. Given => ToRecord(m)'
        BY <1>3, <3>2, <3>3 DEF ToRecord, m, Complete
      <3> QED
        BY <1>2, <3>1, <3>2, <3>4
    <2>6. CASE RecordDone
      <3>1. /\ at = [phase |-> "record", i |-> N + 1] /\ infos' = infos
            /\ at' = [phase |-> "done", i |-> 0]
        BY <2>6 DEF RecordDone
      <3>2. Typed
        BY <1>2, <3>1 DEF Phases
      <3>3. at'.phase = "done" /\ at.phase = "record" /\ at.i = N + 1
        BY <3>1
      <3>4. ASSUME Given PROVE m = N
        <4>1. PICK a \in 1..(N + 1) : m = (IF at.i < a THEN a ELSE at.i) - 1
          BY <1>5, <3>3, <3>4
        <4> QED
          BY <1>2, <3>3, <4>1
      <3> QED
        BY <1>3, <3>2, <3>3, <3>4 DEF ToRecord, m, Complete
    <2>7. CASE CallAgain
      <3>1. infos' = {} /\ at' = [phase |-> "install", i |-> 1]
        BY <2>7 DEF CallAgain
      <3>2. Typed
        BY <1>2, <3>1 DEF Phases
      <3>3. at'.phase = "install" /\ at'.i = 1
        BY <3>1
      <3>4. infos' = (m + 1)..(at'.i - 1)
        BY <1>2, <3>1, <3>3
      <3> QED
        BY <1>3, <3>2, <3>3, <3>4 DEF ToRecord, m, Complete
    <2> QED
      BY <2>1, <2>2, <2>3, <2>4, <2>5, <2>6, <2>7
  <1>8. TextInv'
    BY <1>1, <1>3, <1>7, TextFrame DEF Phases
  <1>9. RecordInv'
    BY <1>1, <1>3, RecordFrame
  <1>10. RetryInv'
    BY <1>1, <1>3, <1>7, RetryFrame DEF Given, m
  <1> QED
    BY <1>8, <1>9, <1>10 DEF DatabaseInv

\* What is appended is read behind what was there.
LEMMA WrittenParse ==
    ASSUME TextInv, at.i \in Pkgs, NEW n \in 0..Len(RecordLines(at.i)),
           db' = Appended(RecordLines(at.i), n)
    PROVE  /\ IsRecord(RecordLines(at.i), at.i)
           /\ db' \in Seq(Lines)
           /\ Complete' = ParseFrom(Complete, Added(RecordLines(at.i), n))
           /\ Complete' \in States /\ Len(Complete'.packages) \in Nat
           /\ Complete.failed => Complete'.failed
           /\ Len(Complete.packages) <= Len(Complete'.packages)
           /\ \A k \in 1..Len(Complete.packages) : Complete'.packages[k] = Complete.packages[k]
           /\ n = 0 => Complete' = Complete
  <1> DEFINE lines == RecordLines(at.i)
  <1>1. IsRecord(lines, at.i)
    BY RecordShape
  <1>2. PICK a : a = Added(lines, n)
    OBVIOUS
  <1>3. a \in Seq(Lines) /\ db' \in Seq(Lines) /\ ParseFrom(NewParse, db') = ParseFrom(Complete, a)
    BY <1>1, <1>2, AppendedParse
  <1>4. Complete' = ParseFrom(NewParse, db')
    BY DEF Complete
  <1>5. PICK c : c = Complete'
    OBVIOUS
  <1>6. c = ParseFrom(Complete, a)
    BY <1>3, <1>4, <1>5
  <1>7. Complete \in States
    BY CompleteType
  <1>8. /\ c \in States
        /\ Complete.failed => c.failed
        /\ Len(Complete.packages) <= Len(c.packages)
        /\ \A k \in 1..Len(Complete.packages) : c.packages[k] = Complete.packages[k]
    BY <1>3, <1>6, <1>7, ParseGrows
  <1>9. Len(c.packages) \in Nat
    BY <1>8, LenProperties DEF States
  <1>10. n = 0 => c = Complete
    <2> SUFFICES ASSUME n = 0 PROVE c = Complete
      OBVIOUS
    <2>1. a = SubSeq(lines, 1, 0)
      BY <1>2 DEF Added
    <2>2. a = <<>>
      BY <2>1, SubSeqEmpty
    <2> QED
      BY <1>6, <1>7, <2>2, ParseEmpty
  <1> QED
    BY <1>1, <1>2, <1>3, <1>5, <1>6, <1>8, <1>9, <1>10

\* Records that were whole stay so when a write has stopped short.
LEMMA RecordGrows ==
    ASSUME TextInv, RecordInv, files' = files, whole' = whole, "db" \in torn',
           Complete.failed => Complete'.failed,
           Len(Complete'.packages) \in Nat,
           Len(Complete.packages) <= Len(Complete'.packages),
           \A k \in 1..Len(Complete.packages) : Complete'.packages[k] = Complete.packages[k]
    PROVE  RecordInv'
  <1>1. Len(Complete.packages) \in Nat /\ Len(whole) \in Nat /\ DOMAIN whole = 1..Len(whole)
    BY CompleteType, LenProperties DEF TextInv
  <1>2. ASSUME ~Complete'.failed
        PROVE  /\ Len(whole) <= Len(Complete'.packages)
               /\ \A k \in DOMAIN whole : ReadAs(Complete.packages[k], whole[k])'
    <2>1. /\ Len(whole) <= Len(Complete.packages)
          /\ \A k \in DOMAIN whole : ReadAs(Complete.packages[k], whole[k])
      BY <1>2 DEF RecordInv
    <2>2. ASSUME NEW k \in DOMAIN whole PROVE ReadAs(Complete.packages[k], whole[k])'
      <3>1. k \in 1..Len(Complete.packages)
        BY <1>1, <2>1
      <3>2. Complete'.packages[k] = Complete.packages[k]
        BY <3>1
      <3>3. ReadAs(Complete.packages[k], whole[k])
        BY <2>1
      <3> QED
        BY <3>2, <3>3 DEF ReadAs
    <2> QED
      BY <1>1, <2>1, <2>2
  <1> QED
    BY <1>2 DEF RecordInv

\* A record that is added to a database no write of which stopped short is read
\* as the next package.
LEMMA RecordAdded ==
    ASSUME TextInv, RecordInv, files' = files, whole' = Append(whole, at.i), torn' = torn,
           "db" \notin torn, at.i \in Pkgs, part' = <<>>,
           db' = Appended(RecordLines(at.i), Len(RecordLines(at.i)))
    PROVE  RecordInv'
  <1> DEFINE lines == RecordLines(at.i)
             n == Len(lines)
  <1>1. IsRecord(lines, at.i)
    BY RecordShape
  <1>2. lines \in Seq(Lines) /\ n \in Nat
    BY <1>1, LenProperties DEF IsRecord
  <1>3. n \in 0..n
    BY <1>2
  <1>4. /\ part = <<>> /\ Complete = NewState(Complete.packages)
        /\ Len(Complete.packages) = Len(whole)
    BY DEF RecordInv, NewState
  <1>5. Complete' = ParseFrom(Complete, Added(lines, n))
    BY <1>3, WrittenParse
  <1>6. Added(lines, n) = lines
    BY <1>2, <1>4, SubSeqFull DEF Added
  <1>7. Complete \in States /\ Complete.packages \in Seq(PackageType)
    BY CompleteType
  <1>8. PICK e \in PackageType :
           ReadAs(e, at.i) /\ ParseFrom(Complete, lines) = NewState(Append(Complete.packages, e))
    BY <1>4, <1>7, RecordParse
  <1>9. Complete' = NewState(Append(Complete.packages, e))
    BY <1>5, <1>6, <1>8
  <1>10. PICK c : c = Complete'
    OBVIOUS
  <1>11. PICK q : q = Append(Complete.packages, e)
    OBVIOUS
  <1>12. c = NewState(q) /\ c.packages = q /\ ~c.failed
    BY <1>9, <1>10, <1>11 DEF NewState, NewParse
  <1> DEFINE w == Len(whole)
  <1>13. whole \in Seq(Pkgs) /\ w \in Nat
    BY LenProperties DEF TextInv
  <1>14. /\ Len(q) = w + 1 /\ q[w + 1] = e
         /\ \A k \in 1..w : q[k] = Complete.packages[k]
    BY <1>4, <1>7, <1>11, AppendProperties
  <1>15. /\ Len(whole') = w + 1 /\ whole'[w + 1] = at.i /\ DOMAIN whole' = 1..(w + 1)
         /\ \A k \in 1..w : whole'[k] = whole[k]
    <2>1. whole' \in Seq(Pkgs)
      BY <1>13, AppendProperties
    <2> QED
      BY <1>13, <2>1, AppendProperties, LenProperties
  <1>16. \A k \in 1..w : ReadAs(Complete.packages[k], whole[k])
    <2>1. ~Complete.failed
      BY <1>4 DEF NewState, NewParse
    <2>2. DOMAIN whole = 1..w
      BY <1>13, LenProperties
    <2> QED
      BY <2>1, <2>2 DEF RecordInv
  <1> HIDE DEF w
  <1>17. ASSUME NEW k \in DOMAIN whole' PROVE ReadAs(Complete.packages[k], whole[k])'
    <2>1. k \in 1..(w + 1)
      BY <1>15
    <2>2. Complete'.packages[k] = q[k]
      BY <1>10, <1>12
    <2>3. CASE k = w + 1
      <3>1. Complete'.packages[k] = e /\ whole'[k] = at.i
        BY <1>14, <1>15, <2>2, <2>3
      <3> QED
        BY <1>8, <3>1 DEF ReadAs
    <2>4. CASE k \in 1..w
      <3>1. Complete'.packages[k] = Complete.packages[k] /\ whole'[k] = whole[k]
        BY <1>14, <1>15, <2>2, <2>4
      <3>2. ReadAs(Complete.packages[k], whole[k])
        BY <1>16, <2>4
      <3> QED
        BY <3>1, <3>2 DEF ReadAs
    <2> QED
      BY <1>13, <2>1, <2>3, <2>4
  <1>18. /\ Complete' = [NewParse EXCEPT !.packages = Complete'.packages]
         /\ Len(Complete'.packages) = Len(whole')
    BY <1>10, <1>12, <1>14, <1>15 DEF NewState
  <1>19. Len(whole') <= Len(Complete'.packages)
    BY <1>13, <1>15, <1>18
  <1> QED
    BY <1>17, <1>18, <1>19 DEF RecordInv

\* While a record is written, the package is the next one.
LEMMA NextRecord ==
    ASSUME TextInv, RetryInv, "name" \notin torn, ~Complete.failed,
           at.phase = "record", at.i \in infos
    PROVE  LET m == Len(Complete.packages)
           IN  /\ m = at.i - 1 /\ m <= N
               /\ \E a \in 1..(N + 1) : infos = a..N /\ a <= at.i
               /\ \A k \in 1..m : Complete.packages[k].name = <<k>>
               /\ part # <<>> => part[1].token # "P" /\ Complete.pkg.name = <<at.i>>
  <1> DEFINE m == Len(Complete.packages)
  <1>1. /\ m <= N /\ ToRecord(m)
        /\ \A k \in 1..m : Complete.packages[k].name = <<k>>
        /\ part # <<>> => part[1].token # "P" /\ Complete.pkg.name = <<m + 1>>
    BY DEF RetryInv
  <1>2. m \in Nat /\ N \in Nat /\ at.i \in 1..N
    BY CompleteType, PackagesAssumption DEF TextInv, Pkgs
  <1> HIDE DEF m
  <1>3. PICK a \in 1..(N + 1) : infos = a..N /\ m = (IF at.i < a THEN a ELSE at.i) - 1
    BY <1>1 DEF ToRecord
  <1>4. a <= at.i /\ m = at.i - 1 /\ m + 1 = at.i
    BY <1>2, <1>3
  <1> QED
    BY <1>1, <1>3, <1>4 DEF m

\* A record that is written whole keeps the invariant.
LEMMA AddStep ==
    ASSUME DatabaseInv, AddInstalledPackage
    PROVE  DatabaseInv'
  <1> DEFINE lines == RecordLines(at.i)
             n == Len(lines)
             m == Len(Complete.packages)
  <1>1. TextInv /\ RecordInv /\ RetryInv
    BY DEF DatabaseInv
  <1>2. /\ at.phase = "record" /\ at.i \in infos /\ db' = Appended(lines, n) /\ part' = <<>>
        /\ at' = [at EXCEPT !.i = @ + 1]
        /\ whole' = IF "db" \in torn THEN whole ELSE Append(whole, at.i)
        /\ files' = files /\ infos' = infos /\ torn' = torn
    BY DEF AddInstalledPackage
  <1>3. at.i \in Pkgs /\ infos \subseteq Pkgs /\ N \in Nat /\ at.i \in 1..N /\ m \in Nat
    BY <1>1, <1>2, PackagesAssumption, CompleteType DEF TextInv, Pkgs
  <1>4. IsRecord(lines, at.i)
    BY <1>1, <1>3, RecordShape
  <1>5. n \in Nat /\ n >= 2 /\ n \in 0..n /\ n \in 1..n
    <2>1. n \in Nat /\ n >= 2
      BY <1>4, LenProperties DEF IsRecord
    <2> QED
      BY <2>1
  <1>6. /\ db' \in Seq(Lines)
        /\ Complete' = ParseFrom(Complete, Added(lines, n))
        /\ Complete' \in States /\ Len(Complete'.packages) \in Nat
        /\ Complete.failed => Complete'.failed
        /\ Len(Complete.packages) <= Len(Complete'.packages)
        /\ \A k \in 1..Len(Complete.packages) : Complete'.packages[k] = Complete.packages[k]
    BY <1>1, <1>2, <1>3, <1>5, WrittenParse
  <1>7. /\ at'.phase = "record" /\ at'.i = at.i + 1 /\ at'.i # 0
        /\ at' \in [phase : {"install", "record", "failed", "unreadable", "done"}, i : 0..(N + 1)]
    BY <1>1, <1>2, <1>3, NextPackage
  <1>8. TextInv'
    <2>1. whole' \in Seq(Pkgs)
      BY <1>1, <1>2, <1>3, AppendProperties DEF TextInv
    <2> QED
      BY <1>1, <1>2, <1>3, <1>6, <1>7, <2>1 DEF TextInv
  <1>9. RecordInv'
    <2>1. CASE "db" \in torn
      BY <1>1, <1>2, <1>6, <2>1, RecordGrows
    <2>2. CASE "db" \notin torn
      BY <1>1, <1>2, <1>3, <2>2, RecordAdded
    <2> QED
      BY <2>1, <2>2
  <1>10. RetryInv'
    <2> SUFFICES ASSUME "name" \notin torn', ~Complete'.failed
                 PROVE  LET l == Len(Complete'.packages)
                        IN  /\ l <= N /\ ToRecord(Len(Complete.packages))'
                            /\ \A k \in 1..l : Complete'.packages[k].name = <<k>>
      BY <1>2 DEF RetryInv
    <2>1. "name" \notin torn /\ ~Complete.failed
      BY <1>2, <1>6
    <2>2. /\ m = at.i - 1
          /\ \E a \in 1..(N + 1) : infos = a..N /\ a <= at.i
          /\ \A k \in 1..m : Complete.packages[k].name = <<k>>
          /\ part # <<>> => part[1].token # "P" /\ Complete.pkg.name = <<at.i>>
      BY <1>1, <1>2, <2>1, NextRecord
    <2>3. PICK e \in PackageType :
             e.name = <<at.i>> /\ Complete'.packages = Append(Complete.packages, e)
      <3>1. TextInv /\ at.i \in Pkgs /\ IsRecord(lines, at.i) /\ n \in 1..Len(lines)
        BY <1>1, <1>3, <1>4, <1>5
      <3>2. ~ParseFrom(Complete, Added(lines, n)).failed
        BY <1>6
      <3>3. part # <<>> => part[1].token # "P" /\ Complete.pkg.name = <<at.i>>
        BY <2>2
      <3>4. n = Len(lines)
        OBVIOUS
      <3> HIDE DEF n, lines
      <3>5. n = Len(lines) => \E e \in PackageType :
               /\ e.name = <<at.i>>
               /\ ParseFrom(Complete, Added(lines, n)).packages = Append(Complete.packages, e)
        BY <3>1, <3>2, <3>3, AppendedOpen
      <3> QED
        BY <1>6, <3>4, <3>5
    <2>4. Complete.packages \in Seq(PackageType)
      BY <1>1, CompleteType
    <2>5. /\ Len(Complete'.packages) = m + 1 /\ Complete'.packages[m + 1] = e
          /\ \A k \in 1..m : Complete'.packages[k] = Complete.packages[k]
      BY <2>3, <2>4, AppendProperties
    <2> HIDE DEF m
    <2>6. Len(Complete'.packages) = at.i
      BY <1>3, <2>2, <2>5
    <2>7. ASSUME NEW k \in 1..at.i PROVE Complete'.packages[k].name = <<k>>
      <3>1. CASE k = m + 1
        <4>1. k = at.i
          BY <1>3, <2>2, <3>1
        <4> QED
          BY <2>3, <2>5, <3>1, <4>1
      <3>2. CASE k \in 1..m
        <4>1. Complete.packages[k].name = <<k>>
          BY <2>2, <3>2
        <4>2. Complete'.packages[k] = Complete.packages[k]
          BY <2>5, <3>2
        <4> QED
          BY <4>1, <4>2
      <3> QED
        BY <1>3, <2>2, <3>1, <3>2
    <2>8. \E a \in 1..(N + 1) : infos' = a..N /\ at.i = (IF at'.i < a THEN a ELSE at'.i) - 1
      <3>1. PICK a \in 1..(N + 1) : infos = a..N /\ a <= at.i
        BY <2>2
      <3>2. at.i = (IF at'.i < a THEN a ELSE at'.i) - 1
        BY <1>3, <1>7, <3>1
      <3> QED
        BY <1>2, <3>1, <3>2
    <2>9. ToRecord(Len(Complete.packages))'
      <3>1. at'.phase # "install" /\ at'.phase # "done"
        BY <1>7
      <3> QED
        BY <2>6, <2>8, <3>1 DEF ToRecord
    <2> QED
      BY <1>3, <2>6, <2>7, <2>9
  <1> QED
    BY <1>8, <1>9, <1>10 DEF DatabaseInv

\* What is left of a line.
LEMMA PartsType ==
    ASSUME NEW l \in Lines, l.token # "blank", NEW p \in Parts(l)
    PROVE  /\ p \in Lines /\ p.token # "blank"
           /\ p.token = "P" => l.token = "P"
  <1>1. Garbled \in Seq(Nat) /\ <<>> \in Seq(Nat) /\ l.token \in Tokens /\ "cut" \in Tokens
    BY DEF Garbled, Lines, Tokens
  <1>2. \/ p = Line("cut", <<>>) \/ p = Line(l.token, Garbled) \/ p = Line(l.token, <<>>)
    BY DEF Parts
  <1>3. ASSUME NEW t \in Tokens, NEW v \in Seq(Nat) PROVE Line(t, v) \in Lines /\ Line(t, v).token = t
    BY DEF Line, Lines
  <1>4. p \in Lines /\ (p.token = "cut" \/ p.token = l.token)
    BY <1>1, <1>2, <1>3
  <1> QED
    BY <1>4

\* The line a write stops in is not the end of the record.
LEMMA OpenLine ==
    ASSUME NEW i \in Pkgs, NEW lines, IsRecord(lines, i), NEW n \in 0..(Len(lines) - 1),
           lines[n + 1] # Blank, NEW p \in Parts(lines[n + 1])
    PROVE  /\ p \in Lines /\ p.token # "blank"
           /\ n > 0 => p.token # "P"
  <1> DEFINE l == Len(lines)
             x == lines[n + 1]
  <1>1. /\ lines \in Seq(Lines) /\ l \in Nat
        /\ lines[1] = Line("P", <<i>>) /\ lines[l] = Blank
        /\ \A k \in 2..(l - 1) : lines[k] \in Inner
    <2>1. lines \in Seq(Lines)
      BY DEF IsRecord
    <2> QED
      BY <2>1, LenProperties DEF IsRecord
  <1>2. n + 1 # l
    BY <1>1
  <1>3. CASE n = 0
    <2>1. x = Line("P", <<i>>)
      BY <1>1, <1>3
    <2>2. x \in Lines /\ x.token # "blank"
      <3>1. Line("P", <<i>>) \in Lines
        BY LineTypes
      <3>2. Line("P", <<i>>).token # "blank"
        BY DEF Line
      <3> QED
        BY <2>1, <3>1, <3>2
    <2> QED
      BY <1>3, <2>2, PartsType
  <1>4. CASE n > 0
    <2>1. n + 1 \in 2..(l - 1)
      BY <1>1, <1>2, <1>4
    <2>2. x \in Inner
      BY <1>1, <2>1
    <2>3. x \in Lines /\ x.token # "blank" /\ x.token # "P"
      BY <2>2 DEF Inner
    <2> QED
      BY <2>3, PartsType
  <1> QED
    BY <1>1, <1>3, <1>4

\* A record that stops short keeps it.
LEMMA AddFailStep ==
    ASSUME DatabaseInv, AddInstalledPackageFail
    PROVE  DatabaseInv'
  <1> DEFINE lines == RecordLines(at.i)
             l == Len(lines)
             m == Len(Complete.packages)
             Behind(n) == part' = IF n = 0 THEN part ELSE <<>>
             Within(n) == /\ n > 0 \/ part = <<>>
                          /\ lines[n + 1] # Blank
                          /\ \E p \in Parts(lines[n + 1]) : part' = <<p>>
                          /\ n = 0 => "name" \in torn'
             Again(n) == n = 0 /\ part # <<>> /\ part' = <<Continued(part[1])>>
  <1>1. TextInv /\ RecordInv /\ RetryInv
    BY DEF DatabaseInv
  <1>2. /\ at.phase = "record" /\ at.i \in infos /\ at' = Stopped
        /\ files' = files /\ infos' = infos /\ whole' = whole
        /\ "db" \in torn' /\ torn \subseteq torn'
    BY DEF AddInstalledPackageFail
  <1>3. PICK n \in 0..(l - 1) : db' = Appended(lines, n) /\ (Behind(n) \/ Within(n) \/ Again(n))
    <2>1. PICK n \in 0..(l - 1) :
              /\ db' = Appended(lines, n)
              /\ \/ /\ part' = IF n = 0 THEN part ELSE <<>>
                    /\ torn' = torn \cup {"db"}
                 \/ /\ n > 0 \/ part = <<>>
                    /\ lines[n + 1] # Blank
                    /\ \E p \in Parts(lines[n + 1]) : part' = <<p>>
                    /\ torn' = torn \cup {"db"} \cup (IF n = 0 THEN {"name"} ELSE {})
                 \/ /\ n = 0 /\ part # <<>>
                    /\ part' = <<Continued(part[1])>>
                    /\ torn' = torn \cup {"db"}
      BY DEF AddInstalledPackageFail
    <2> QED
      BY <2>1
  <1>4. at.i \in Pkgs /\ infos \subseteq Pkgs /\ N \in Nat /\ at.i \in 1..N /\ m \in Nat
    BY <1>1, <1>2, PackagesAssumption, CompleteType DEF TextInv, Pkgs
  <1>5. IsRecord(lines, at.i)
    BY <1>1, <1>4, RecordShape
  <1>6. l \in Nat /\ n \in Nat /\ n < l /\ n \in 0..l
    <2>1. l \in Nat
      BY <1>5, LenProperties DEF IsRecord
    <2> QED
      BY <1>3, <2>1
  <1>7. /\ db' \in Seq(Lines)
        /\ Complete' = ParseFrom(Complete, Added(lines, n))
        /\ Complete' \in States /\ Len(Complete'.packages) \in Nat
        /\ Complete.failed => Complete'.failed
        /\ Len(Complete.packages) <= Len(Complete'.packages)
        /\ \A k \in 1..Len(Complete.packages) : Complete'.packages[k] = Complete.packages[k]
        /\ n = 0 => Complete' = Complete
    BY <1>1, <1>3, <1>4, <1>6, WrittenParse
  <1> HIDE DEF lines, l
  <1>8. ASSUME Within(n)
        PROVE  part' \in Seq(Lines) /\ Len(part') = 1 /\ part'[1].token # "blank"
               /\ (n > 0 => part'[1].token # "P")
    <2>1. PICK p \in Parts(lines[n + 1]) : part' = <<p>>
      BY <1>8
    <2>2. lines[n + 1] # Blank
      BY <1>8
    <2>3. p \in Lines /\ p.token # "blank" /\ (n > 0 => p.token # "P")
      BY <1>3, <1>4, <1>5, <2>2, OpenLine DEF l
    <2> QED
      BY <2>1, <2>3
  <1>9. ASSUME Again(n)
        PROVE  part' \in Seq(Lines) /\ Len(part') = 1 /\ part'[1].token # "blank"
               /\ part'[1].token = part[1].token
    <2>1. /\ Continued(part[1]) \in Lines /\ Continued(part[1]).token = part[1].token
          /\ part[1].token # "blank"
      BY <1>1, <1>9, ContinuedLine
    <2>2. part' = <<Continued(part[1])>>
      BY <1>9
    <2> QED
      BY <2>1, <2>2
  <1>10. TextInv'
    <2>1. part' # <<>> => part' \in Seq(Lines) /\ Len(part') = 1 /\ part'[1].token # "blank"
      <3>1. CASE Behind(n)
        BY <1>1, <3>1 DEF TextInv
      <3> QED
        BY <1>3, <1>8, <1>9, <3>1
    <2>2. /\ at' \in [phase : {"install", "record", "failed", "unreadable", "done"},
                      i : 0..(N + 1)]
          /\ at'.phase \notin {"install", "record"}
      BY <1>2, <1>4 DEF Stopped
    <2> QED
      BY <1>1, <1>2, <1>7, <2>1, <2>2 DEF TextInv
  <1>11. RecordInv'
    BY <1>1, <1>2, <1>7, RecordGrows
  <1>12. RetryInv'
    <2> SUFFICES ASSUME "name" \notin torn', ~Complete'.failed
                 PROVE  LET r == Len(Complete'.packages)
                        IN  /\ r <= N /\ ToRecord(Len(Complete.packages))'
                            /\ \A k \in 1..r : Complete'.packages[k].name = <<k>>
                            /\ part' # <<>> => part'[1].token # "P" /\ Complete'.pkg.name = <<r + 1>>
      BY DEF RetryInv
    <2>1. "name" \notin torn /\ ~Complete.failed
      BY <1>2, <1>7
    <2>2. /\ m = at.i - 1 /\ m <= N
          /\ \A k \in 1..m : Complete.packages[k].name = <<k>>
          /\ part # <<>> => part[1].token # "P" /\ Complete.pkg.name = <<at.i>>
      BY <1>1, <1>2, <2>1, NextRecord
    <2>3. n > 0 => Complete'.packages = Complete.packages /\ Complete'.pkg.name = <<at.i>>
      <3> SUFFICES ASSUME n > 0
                   PROVE  Complete'.packages = Complete.packages /\ Complete'.pkg.name = <<at.i>>
        OBVIOUS
      <3>1. TextInv /\ at.i \in Pkgs /\ IsRecord(lines, at.i) /\ n \in 1..Len(lines)
        BY <1>1, <1>4, <1>5, <1>6 DEF l
      <3>2. ~ParseFrom(Complete, Added(lines, n)).failed
        BY <1>7
      <3>3. part # <<>> => part[1].token # "P" /\ Complete.pkg.name = <<at.i>>
        BY <2>2
      <3>4. n < Len(lines) =>
               /\ ParseFrom(Complete, Added(lines, n)).packages = Complete.packages
               /\ ParseFrom(Complete, Added(lines, n)).pkg.name = <<at.i>>
        BY <3>1, <3>2, <3>3, AppendedOpen
      <3> QED
        BY <1>6, <1>7, <3>4 DEF l
    <2>4. Complete'.packages = Complete.packages
      BY <1>6, <1>7, <2>3
    <2>5. ToRecord(Len(Complete.packages))'
      <3>1. at'.phase = "failed"
        BY <1>2 DEF Stopped
      <3> QED
        BY <3>1 DEF ToRecord
    <2>6. ASSUME part' # <<>> PROVE part'[1].token # "P" /\ Complete'.pkg.name = <<at.i>>
      <3>1. CASE Behind(n)
        <4>1. n = 0 /\ part' = part
          BY <2>6, <3>1
        <4> QED
          BY <1>7, <2>2, <2>6, <4>1
      <3>2. CASE Within(n)
        <4>1. n > 0
          BY <1>6, <3>2
        <4> QED
          BY <1>8, <2>3, <3>2, <4>1
      <3>3. CASE Again(n)
        BY <1>7, <1>9, <2>2, <3>3
      <3> QED
        BY <1>3, <3>1, <3>2, <3>3
    <2>7. at.i = m + 1
      BY <1>4, <2>2
    <2> QED
      BY <2>2, <2>4, <2>5, <2>6, <2>7
  <1> QED
    BY <1>10, <1>11, <1>12 DEF DatabaseInv

\* Every step keeps it.
LEMMA DatabaseStep == DatabaseInv /\ [Next]_vars => DatabaseInv'
  <1> SUFFICES ASSUME DatabaseInv, [Next]_vars PROVE DatabaseInv'
    OBVIOUS
  <1>1. CASE \/ SkipInstalled \/ updateScriptsTar \/ updateScriptsTarFail
             \/ updateScriptsTarUnended \/ CheckFail
             \/ StartRecord \/ RecordSkip \/ RecordDone \/ CallAgain
    BY <1>1, UnwrittenStep
  <1>2. CASE AddInstalledPackage
    BY <1>2, AddStep
  <1>3. CASE AddInstalledPackageFail
    BY <1>3, AddFailStep
  <1>4. CASE UNCHANGED vars
    <2>1. /\ files' = files /\ db' = db /\ part' = part /\ whole' = whole
          /\ at' = at /\ infos' = infos /\ torn' = torn
      BY <1>4 DEF vars
    <2>2. TextInv /\ RecordInv /\ RetryInv
      BY DEF DatabaseInv
    <2>3. TextInv'
      BY <2>1, <2>2 DEF TextInv
    <2>4. RecordInv'
      BY <2>1, <2>2, RecordFrame
    <2>5. ToRecord(Len(Complete.packages)) => ToRecord(Len(Complete.packages))'
      BY <2>1 DEF ToRecord, Complete
    <2>6. RetryInv'
      BY <2>1, <2>2, <2>5, RetryFrame
    <2> QED
      BY <2>3, <2>4, <2>6 DEF DatabaseInv
  <1> QED
    BY <1>1, <1>2, <1>3, <1>4 DEF Next

\* The inductive invariant of the database holds for every list of packages,
\* whatever their archives hold, and any number of writes that stop short.
THEOREM DatabaseInvariance == Spec => []DatabaseInv
  <1>1. Init => DatabaseInv
    BY DatabaseInit
  <1>2. DatabaseInv /\ [Next]_vars => DatabaseInv'
    BY DatabaseStep
  <1> QED
    BY <1>1, <1>2, PTL DEF Spec

\* What AddInstalledPackage has recorded, ParseInstalled gives back, whatever
\* archives the packages have: sortTarHeaders puts each file behind its own
\* directory, once, and no write that stops short later takes that back but by
\* making the whole database unreadable.
THEOREM RecordsAreKept == Spec => []RecordsKept
  <1>1. DatabaseInv => RecordsKept
    <2> SUFFICES ASSUME DatabaseInv PROVE RecordsKept
      OBVIOUS
    <2>1. TextInv /\ RecordInv
      BY DEF DatabaseInv
    <2>2. /\ ParseInstalled.packages = Complete.packages
          /\ Readable => ~Complete.failed
          /\ part = <<>> => ParseInstalled = Complete
      BY <2>1, PartParse
    <2>3. ~Readable => "db" \in torn
      <3> SUFFICES ASSUME "db" \notin torn PROVE Readable
        OBVIOUS
      <3>1. part = <<>> /\ Complete = NewState(Complete.packages)
        BY <2>1 DEF RecordInv, NewState
      <3>2. ~Complete.failed
        BY <3>1 DEF NewState, NewParse
      <3> QED
        BY <2>2, <3>1, <3>2 DEF Readable
    <2>4. ASSUME Readable
          PROVE  /\ Len(Complete.packages) >= Len(whole)
                 /\ \A k \in DOMAIN whole : ReadAs(Complete.packages[k], whole[k])
                 /\ "db" \in torn \/ Len(Complete.packages) = Len(whole)
      <3>1. Len(Complete.packages) \in Nat /\ Len(whole) \in Nat
        BY <2>1, CompleteType, LenProperties DEF TextInv
      <3> QED
        BY <2>1, <2>2, <2>4, <3>1 DEF RecordInv
    <2> QED
      BY <2>2, <2>3, <2>4 DEF RecordsKept
  <1> QED
    BY <1>1, DatabaseInvariance, PTL

\* A call that succeeds leaves every package in the database once, however many
\* calls before it stopped in the middle of a record, unless the database cannot
\* be read or one stopped within the line that names the package.
THEOREM RetriesRecord == Spec => []RetryRecords
  <1>1. DatabaseInv => RetryRecords
    <2> SUFFICES ASSUME DatabaseInv, at.phase = "done", Readable, "name" \notin torn,
                        NEW i \in Pkgs
                 PROVE  Cardinality({k \in DOMAIN ParseInstalled.packages :
                                        ParseInstalled.packages[k].name = <<i>>}) = 1
      BY DEF RetryRecords
    <2> DEFINE q == Complete.packages
    <2>1. TextInv /\ RetryInv
      BY DEF DatabaseInv
    <2>2. ParseInstalled.packages = q /\ ~Complete.failed
      BY <2>1, PartParse
    <2>3. Len(q) = N /\ \A k \in 1..Len(q) : q[k].name = <<k>>
      BY <2>1, <2>2 DEF RetryInv, ToRecord
    <2>4. DOMAIN q = 1..N
      BY <2>1, <2>3, CompleteType, LenProperties
    <2> HIDE DEF q
    <2>5. \A k \in 1..N : q[k].name = <<i>> <=> k = i
      <3> SUFFICES ASSUME NEW k \in 1..N PROVE q[k].name = <<i>> <=> k = i
        OBVIOUS
      <3>1. <<k>> = <<i>> <=> k = i
        OBVIOUS
      <3> QED
        BY <2>3, <3>1
    <2>6. {k \in DOMAIN q : q[k].name = <<i>>} = {i}
      BY <2>4, <2>5 DEF Pkgs
    <2>7. Cardinality({i}) = 1
      BY FS_Singleton
    <2> QED
      BY <2>2, <2>6, <2>7
  <1> QED
    BY <1>1, DatabaseInvariance, PTL
=============================================================================
