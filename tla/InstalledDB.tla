---------------------------- MODULE InstalledDB ----------------------------
(***************************************************************************)
(* The text of lib/apk/db/installed and the blocks of lib/apk/db/scripts.tar*)
(* (pkg/apk/installed.go): what AddInstalledPackage and updateScriptsTar   *)
(* append, what ParseInstalled and a tar reader get back, when a write may *)
(* stop anywhere and the installation is called again.                     *)
(*                                                                         *)
(* A path is a sequence of numbers, which sort as the names do.  Of a      *)
(* record the lines that differ in how they are read are kept: the name    *)
(* (P), a text (T), a number (S), directories (F, M) and files (R, a).     *)
(* The fields of a line that stopped short are beyond recognition, and     *)
(* what is appended next continues that line.                              *)
(***************************************************************************)
EXTENDS Integers, Sequences, FiniteSets, SequencesExt

CONSTANTS N,          \* packages to install, by number
          Systems,    \* [1..N -> sets of headers], the files of the packages
          Scripts,    \* [1..N -> Nat], the scripts of the packages
          MaxFaults   \* bound on writes that stop short

Header(path, dir, std) == [path |-> path, dir |-> dir, std |-> std]
Headers == [path : Seq(Nat) \ {<<>>}, dir : BOOLEAN, std : BOOLEAN]
Pkgs == 1..N

\* The headers of a package: one for a path, and none for the root, which
\* sortTarHeaders would take for a child of itself.
IsArchive(hs) ==
    /\ hs \subseteq Headers /\ IsFiniteSet(hs)
    /\ \A g, h \in hs : g.path = h.path => g = h

ASSUME PackagesAssumption ==
    /\ N \in Nat /\ MaxFaults \in Nat
    /\ Scripts \in [Pkgs -> Nat]
    /\ \A hss \in Systems : \A i \in Pkgs : IsArchive(hss[i])

VARIABLES
    files,    \* what each package has installed
    db,       \* the lines of the installed file that end in a newline
    part,     \* the line behind them that does not, or <<>>
    scripts,  \* the blocks of scripts.tar
    at,       \* where InstallPackages is: [phase, package]
    infos,    \* packages this call has installed, to be recorded
    faults,
    torn,     \* where writes have stopped short (history)
    whole,    \* packages recorded before one of the database did (history)
    intact    \* scripts added before one of scripts.tar did (history)

vars == <<files, db, part, scripts, at, infos, faults, torn, whole, intact>>
history == <<torn, whole, intact>>

----------------------------------------------------------------------------
(* sortTarHeaders                                                          *)

Dirname(p) == SubSeq(p, 1, Len(p) - 1)
Basename(p) == p[Len(p)]

ByName(hs) ==
    CHOOSE s \in SetToSeqs(hs) :
        \A j, k \in DOMAIN s : j < k => Basename(s[j].path) < Basename(s[k].path)

Children(hs, d) == {h \in hs : Dirname(h.path) = d}

\* The files among the siblings, then each directory with what is under it.
Families(hs, siblings) == {siblings} \cup {Children(hs, h.path) : h \in hs}
sortChildrenTarHeadersMixed(hs, siblings) ==
    LET under[s \in Families(hs, siblings)] ==
           FlattenSeq([k \in DOMAIN ByName(s) |->
              <<ByName(s)[k]>> \o (IF ByName(s)[k].dir
                                  THEN under[Children(hs, ByName(s)[k].path)] ELSE <<>>)])
    IN  under[siblings]
sortChildrenTarHeaders(hs, siblings) ==
    LET under[s \in Families(hs, siblings)] ==
           LET dirs == ByName({h \in s : h.dir})
           IN  ByName({h \in s : ~h.dir})
                  \o FlattenSeq([k \in DOMAIN dirs |->
                                  <<dirs[k]>> \o under[Children(hs, dirs[k].path)]])
    IN  under[siblings]

\* It starts from the top-level directories that have children.
sortTarHeaders(hs) ==
    sortChildrenTarHeaders(hs,
        {h \in Children(hs, <<>>) : Children(hs, h.path) # {}})

----------------------------------------------------------------------------
(* AddInstalledPackage                                                     *)

Line(token, val) == [token |-> token, val |-> val]
Blank == Line("blank", <<>>)
Garbled == <<0>>

PackageToInstalled(i) == <<Line("P", <<i>>), Line("T", <<>>), Line("S", <<>>)>>

FileLines(h) ==
    IF h.dir THEN <<Line("F", h.path)>> \o IF h.std THEN <<>> ELSE <<Line("M", <<>>)>>
    ELSE <<Line("R", <<Basename(h.path)>>)>> \o IF h.std THEN <<>> ELSE <<Line("a", <<>>)>>

RecordLines(i) ==
    LET sortedFiles == sortTarHeaders(files[i])
    IN  PackageToInstalled(i)
           \o FlattenSeq([k \in DOMAIN sortedFiles |-> FileLines(sortedFiles[k])])
           \o <<Blank>>

\* What is left of a line that stops short: its first character, a part of
\* its value, or of a number some digits.
Numbers == {"S", "M", "a"}
Parts(line) ==
    {Line("cut", <<>>), Line(line.token, Garbled)} \cup
       (IF line.token \in Numbers THEN {Line(line.token, <<>>)} ELSE {})

\* The line the next record continues: its own first line is lost in it.
Continued(p) == IF p.token = "cut" THEN p ELSE Line(p.token, Garbled)

\* The file with the first n lines of the record, and the text behind them.
Appended(lines, n) ==
    IF part = <<>> \/ n = 0 THEN db \o SubSeq(lines, 1, n)
    ELSE Append(db, Continued(part[1])) \o SubSeq(lines, 2, n)

----------------------------------------------------------------------------
(* ParseInstalled                                                          *)

NoPackage == [name |-> <<>>, list |-> <<>>]
NewParse == [packages |-> <<>>, pkg |-> NoPackage, lastDir |-> <<>>, failed |-> FALSE]

\* A line of one character is out of range, and a number must be one.  (The
\* files are copied before their permissions are read, so these change nothing.)
Unreadable(line) ==
    \/ line.token = "cut"
    \/ line.token \in Numbers /\ line.val = Garbled

FileAt(s, line) == IF s.lastDir = <<>> THEN line.val ELSE s.lastDir \o line.val

ParseLine(s, line) ==
    IF s.failed \/ Unreadable(line) THEN [s EXCEPT !.failed = TRUE]
    ELSE
    CASE line = Blank ->
            [NewParse EXCEPT !.packages = IF s.pkg.name = <<>> THEN s.packages
                                          ELSE Append(s.packages, s.pkg)]
      [] line.token = "P" -> [s EXCEPT !.pkg.name = line.val]
      [] line.token = "F" -> [s EXCEPT !.pkg.list = Append(@, line.val), !.lastDir = line.val]
      [] line.token = "R" -> [s EXCEPT !.pkg.list = Append(@, FileAt(s, line))]
      [] OTHER -> s

ParseFrom(s, lines) ==
    LET after[k \in 0..Len(lines)] ==
           IF k = 0 THEN s ELSE ParseLine(after[k - 1], lines[k])
    IN  after[Len(lines)]

ParseInstalled == ParseFrom(NewParse, db \o part)

Readable == ~ParseInstalled.failed
isInstalledPackageOpen(i) ==
    \/ ParseInstalled.pkg.name = <<i>>
    \/ \E k \in DOMAIN ParseInstalled.packages : ParseInstalled.packages[k].name = <<i>>
isInstalledPackage(i) == \E k \in DOMAIN ParseInstalled.packages :
                            ParseInstalled.packages[k].name = <<i>>

----------------------------------------------------------------------------
(* scripts.tar: a script is a header block and a block of data, the end of *)
(* the archive two blocks of zeros.                                        *)

Zero == <<"zero">>
Script(i, j) == <<"script", i, j>>
Data(i, j) == <<"data", i, j>>

ScriptBlocks(i) ==
    [b \in 1..(2 * Scripts[i]) |->
        IF b % 2 = 1 THEN Script(i, (b + 1) \div 2) ELSE Data(i, b \div 2)]

Overwrite(blocks, from, new) ==
    [k \in 1..(IF from + Len(new) > Len(blocks) THEN from + Len(new) ELSE Len(blocks)) |->
        IF k > from /\ k <= from + Len(new) THEN new[k - from] ELSE blocks[k]]

\* Two blocks back from the end, whatever they are, if there are two.
SeekEndAlways == Len(scripts)
SeekEnd == IF Len(scripts) >= 2 THEN Len(scripts) - 2 ELSE Len(scripts)

\* What a reader of the archive gets: up to the first zeros or a block that is
\* not a header, and no more than its own data behind each header.
HeaderAt(blocks, j) == blocks[2 * j - 1][1] = "script"
CountScripts(blocks) ==
    CHOOSE n \in 0..(Len(blocks) \div 2) :
        /\ \A j \in 1..n : HeaderAt(blocks, j)
        /\ n = Len(blocks) \div 2 \/ ~HeaderAt(blocks, n + 1)
ReadScripts(blocks) ==
    [j \in 1..CountScripts(blocks) |-> <<blocks[2 * j - 1], blocks[2 * j]>>]

----------------------------------------------------------------------------
(* InstallPackages over the two files                                      *)

\* What InitDB leaves.
Init ==
    /\ files \in Systems
    /\ db = <<>> /\ part = <<>>
    /\ scripts = <<Zero, Zero>>
    /\ at = [phase |-> "install", i |-> 1]
    /\ infos = {}
    /\ faults = 0
    /\ torn = {}
    /\ whole = <<>> /\ intact = <<>>

Stopped == [phase |-> "failed", i |-> 0]

\* The package is installed already; or its scripts are added.
SkipInstalled ==
    /\ at.phase = "install" /\ at.i \in Pkgs
    /\ Readable /\ isInstalledPackage(at.i)
    /\ at' = [at EXCEPT !.i = @ + 1]
    /\ UNCHANGED <<files, db, part, scripts, infos, faults, history>>

updateScriptsTar ==
    /\ at.phase = "install" /\ at.i \in Pkgs
    /\ Readable /\ ~isInstalledPackage(at.i)
    /\ scripts' = Overwrite(scripts, SeekEnd, ScriptBlocks(at.i) \o <<Zero, Zero>>)
    /\ infos' = infos \cup {at.i}
    /\ at' = [at EXCEPT !.i = @ + 1]
    /\ intact' = IF "scripts" \in torn THEN intact ELSE intact \o ReadScripts(ScriptBlocks(at.i))
    /\ UNCHANGED <<files, db, part, faults, torn, whole>>

\* The write stops behind n blocks.  tar.Writer.Close ends the archive only if
\* the last entry is complete and the file still takes it.
updateScriptsTarFail ==
    /\ at.phase = "install" /\ at.i \in Pkgs
    /\ Readable /\ ~isInstalledPackage(at.i)
    /\ faults < MaxFaults
    /\ \E n \in 0..(2 * Scripts[at.i]) : \E closed \in (IF n % 2 = 0 THEN BOOLEAN ELSE {FALSE}) :
          scripts' = Overwrite(scripts, SeekEnd,
                        SubSeq(ScriptBlocks(at.i), 1, n)
                           \o (IF closed THEN <<Zero, Zero>> ELSE <<>>))
    /\ faults' = faults + 1
    /\ torn' = torn \cup {"scripts"}
    /\ at' = Stopped
    /\ UNCHANGED <<files, db, part, infos, whole, intact>>

\* The error of tar.Writer.Close is not looked at: the end may be missing.
updateScriptsTarUnended ==
    /\ at.phase = "install" /\ at.i \in Pkgs
    /\ Readable /\ ~isInstalledPackage(at.i)
    /\ faults < MaxFaults
    /\ \E n \in 0..1 :
          scripts' = Overwrite(scripts, SeekEnd,
                               ScriptBlocks(at.i) \o SubSeq(<<Zero, Zero>>, 1, n))
    /\ infos' = infos \cup {at.i}
    /\ at' = [at EXCEPT !.i = @ + 1]
    /\ faults' = faults + 1
    /\ torn' = torn \cup {"scripts"}
    /\ UNCHANGED <<files, db, part, whole, intact>>

\* The database cannot be read: an error or a panic.
CheckFail ==
    /\ at.phase = "install" /\ at.i \in Pkgs
    /\ ~Readable
    /\ at' = [phase |-> "unreadable", i |-> 0]
    /\ UNCHANGED <<files, db, part, scripts, infos, faults, history>>

StartRecord ==
    /\ at = [phase |-> "install", i |-> N + 1]
    /\ at' = [phase |-> "record", i |-> 1]
    /\ UNCHANGED <<files, db, part, scripts, infos, faults, history>>

RecordSkip ==
    /\ at.phase = "record" /\ at.i \in Pkgs \ infos
    /\ at' = [at EXCEPT !.i = @ + 1]
    /\ UNCHANGED <<files, db, part, scripts, infos, faults, history>>

AddInstalledPackage ==
    /\ at.phase = "record" /\ at.i \in infos
    /\ db' = Appended(RecordLines(at.i), Len(RecordLines(at.i)))
    /\ part' = <<>>
    /\ at' = [at EXCEPT !.i = @ + 1]
    /\ whole' = IF "db" \in torn THEN whole ELSE Append(whole, at.i)
    /\ UNCHANGED <<files, scripts, infos, faults, torn, intact>>

\* The write stops behind n lines of the record, or within the next one.
AddInstalledPackageFail ==
    /\ at.phase = "record" /\ at.i \in infos
    /\ faults < MaxFaults
    /\ LET lines == RecordLines(at.i)
       IN  \E n \in 0..(Len(lines) - 1) :
              /\ db' = Appended(lines, n)
              /\ \/ /\ part' = IF n = 0 THEN part ELSE <<>>
                    /\ torn' = torn \cup {"db"}
                 \/ /\ n > 0 \/ part = <<>>
                    /\ lines[n + 1] # Blank
                    /\ \E p \in Parts(lines[n + 1]) : part' = <<p>>
                    /\ torn' = torn \cup {"db"} \cup (IF n = 0 THEN {"name"} ELSE {})
                 \/ /\ n = 0 /\ part # <<>>
                    /\ part' = <<Continued(part[1])>>
                    /\ torn' = torn \cup {"db"}
    /\ faults' = faults + 1
    /\ at' = Stopped
    /\ UNCHANGED <<files, scripts, infos, whole, intact>>

RecordDone ==
    /\ at = [phase |-> "record", i |-> N + 1]
    /\ at' = [phase |-> "done", i |-> 0]
    /\ UNCHANGED <<files, db, part, scripts, infos, faults, history>>

\* The caller calls again.
CallAgain ==
    /\ at = Stopped
    /\ at' = [phase |-> "install", i |-> 1]
    /\ infos' = {}
    /\ UNCHANGED <<files, db, part, scripts, faults, history>>

Next ==
    \/ SkipInstalled \/ updateScriptsTar \/ updateScriptsTarFail
    \/ updateScriptsTarUnended \/ CheckFail
    \/ StartRecord \/ RecordSkip \/ AddInstalledPackage \/ AddInstalledPackageFail
    \/ RecordDone \/ CallAgain

Spec == Init /\ [][Next]_vars

----------------------------------------------------------------------------
(* Properties                                                              *)

\* The files sortTarHeaders keeps: in an unbroken line of directories from the
\* top, but at the top only what has something in it.
Kept(hs) ==
    {h.path : h \in {g \in hs :
        /\ \A n \in 1..(Len(g.path) - 1) : \E d \in hs : d.dir /\ d.path = SubSeq(g.path, 1, n)
        /\ Len(g.path) = 1 => Children(hs, g.path) # {}}}

ReadAs(entry, i) ==
    /\ entry.name = <<i>>
    /\ ToSet(entry.list) = Kept(files[i])
    /\ Len(entry.list) = Cardinality(Kept(files[i]))

\* "The last directory entry before a file must be the parent in which it sits":
\* what AddInstalledPackage has recorded, ParseInstalled gives back in the same
\* order, every file once and under its own directory; and a write that stopped
\* short later, or what was appended behind it, takes nothing from that unless
\* the whole database can no longer be read.
RecordsKept ==
    /\ ~Readable => "db" \in torn
    /\ Readable =>
          LET got == ParseInstalled.packages
          IN  /\ Len(got) >= Len(whole)
              /\ \A k \in DOMAIN whole : ReadAs(got[k], whole[k])
              /\ "db" \in torn \/ Len(got) = Len(whole)

\* A retry repairs a record that stopped short: it is continued by a record of
\* the same package, so that behind a call that succeeds every package is in
\* the database once, unless it cannot be read, or the write had stopped within
\* the package's name.
RetryRecords ==
    at.phase = "done" /\ Readable /\ "name" \notin torn =>
       \A i \in Pkgs :
          Cardinality({k \in DOMAIN ParseInstalled.packages :
                          ParseInstalled.packages[k].name = <<i>>}) = 1

\* updateScriptsTar writes over the end of the archive: the scripts that were
\* there stay readable, in order, each with its own contents; also when a later
\* call fails in the middle and is repeated.
ScriptsKept ==
    /\ IsPrefix(intact, ReadScripts(scripts))
    /\ "scripts" \in torn \/ intact = ReadScripts(scripts)

----------------------------------------------------------------------------
(* The inductive invariant of scripts.tar                                  *)

Blocks == {Zero} \cup {Script(i, j) : i \in Pkgs, j \in Nat}
                 \cup {Data(i, j) : i \in Pkgs, j \in Nat}

\* The archive holds what was added before a write stopped short, and two more
\* blocks at least: it is from there on that it is written over.  Until then
\* these two are the end.
ScriptInv ==
    /\ scripts \in Seq(Blocks)
    /\ intact \in Seq(Blocks \X Blocks)
    /\ Len(scripts) >= 2 * Len(intact) + 2
    /\ \A j \in DOMAIN intact :
          /\ HeaderAt(scripts, j)
          /\ intact[j] = <<scripts[2 * j - 1], scripts[2 * j]>>
    /\ "scripts" \notin torn =>
          /\ Len(scripts) = 2 * Len(intact) + 2
          /\ scripts[2 * Len(intact) + 1] = Zero

----------------------------------------------------------------------------
(* The inductive invariant of the database                                 *)

Tokens == {"P", "T", "S", "F", "M", "R", "a", "cut", "blank"}
Lines == [token : Tokens, val : Seq(Nat)]

TextInv ==
    /\ files \in Systems
    /\ db \in Seq(Lines)
    /\ part # <<>> => part \in Seq(Lines) /\ Len(part) = 1 /\ part[1].token # "blank"
    /\ at \in [phase : {"install", "record", "failed", "unreadable", "done"}, i : 0..(N + 1)]
    /\ at.phase \in {"install", "record"} => at.i # 0
    /\ infos \subseteq Pkgs
    /\ whole \in Seq(Pkgs)

Complete == ParseFrom(NewParse, db)

\* The lines that are complete hold what was recorded before a write stopped
\* short, and until then nothing else: no record is open.
RecordInv ==
    /\ "db" \notin torn =>
          /\ part = <<>>
          /\ Complete = [NewParse EXCEPT !.packages = Complete.packages]
          /\ Len(Complete.packages) = Len(whole)
    /\ ~Complete.failed =>
          /\ Len(whole) <= Len(Complete.packages)
          /\ \A k \in DOMAIN whole : ReadAs(Complete.packages[k], whole[k])

\* What a call is at, and what it is to record, if the first m packages are.
ToRecord(m) ==
    /\ at.phase = "install" => infos = (m + 1)..(at.i - 1)
    /\ at.phase = "record" =>
          \E a \in 1..(N + 1) : infos = a..N /\ m = (IF at.i < a THEN a ELSE at.i) - 1
    /\ at.phase = "done" => m = N

\* The first packages of the list are recorded, in its order, and an open line
\* belongs to the record of the next one, whose name is complete.
RetryInv ==
    "name" \notin torn /\ ~Complete.failed =>
       LET m == Len(Complete.packages)
       IN  /\ m <= N /\ ToRecord(m)
           /\ \A k \in 1..m : Complete.packages[k].name = <<k>>
           /\ part # <<>> => part[1].token # "P" /\ Complete.pkg.name = <<m + 1>>

\* The packages recorded by whatever calls there were are the first ones of the
\* list, a call that is under way is to record the ones it found missing, and a
\* record that stopped short is one that the next call will continue.
DatabaseInv == TextInv /\ RecordInv /\ RetryInv
=============================================================================
