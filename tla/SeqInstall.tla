----------------------------- MODULE SeqInstall -----------------------------
(***************************************************************************)
(* What InstallPackages (pkg/apk/implementation.go) promises its caller,   *)
(* with the goroutines taken away: the packages of the list are installed  *)
(* one after the other in the given order, and only when the whole list is *)
(* on the filesystem is any of them recorded in /lib/apk/db/installed.     *)
(* InstallPackages.tla, the concurrent pipeline, implements this.          *)
(***************************************************************************)
EXTENDS Naturals

CONSTANTS N,        \* number of packages in the list
          MaxRuns   \* bound on how often the caller calls

Pkgs == 1..N

VARIABLES phase,    \* "install", "record", "ok" or "failed"
          pos,      \* packages of the list that are dealt with
          fresh,    \* the ones among them that this call installed
          rec,      \* packages of the list the record loop has passed
          idb,      \* idb[i]: how often package i is recorded
          run       \* which call this is

vars == <<phase, pos, fresh, rec, idb, run>>

Init ==
    /\ phase = "install"
    /\ pos = 0
    /\ fresh = {}
    /\ rec = 0
    /\ idb \in [Pkgs -> {0, 1}]
    /\ run = 1

\* The next package in order is installed unless it is recorded already.
Process ==
    /\ phase = "install"
    /\ pos < N
    /\ pos' = pos + 1
    /\ fresh' = IF idb[pos + 1] = 0 THEN fresh \cup {pos + 1} ELSE fresh
    /\ UNCHANGED <<phase, rec, idb, run>>

\* Recording starts only behind the last package.
StartRecord ==
    /\ phase = "install"
    /\ pos = N
    /\ phase' = "record"
    /\ UNCHANGED <<pos, fresh, rec, idb, run>>

\* The record loop passes one package: a fresh one enters the database.
Record ==
    /\ phase = "record"
    /\ rec < N
    /\ rec' = rec + 1
    /\ idb' = IF rec + 1 \in fresh
              THEN [idb EXCEPT ![rec + 1] = @ + 1] ELSE idb
    /\ UNCHANGED <<phase, pos, fresh, run>>

Succeed ==
    /\ phase = "record"
    /\ rec = N
    /\ phase' = "ok"
    /\ UNCHANGED <<pos, fresh, rec, idb, run>>

Fail ==
    /\ phase \in {"install", "record"}
    /\ phase' = "failed"
    /\ UNCHANGED <<pos, fresh, rec, idb, run>>

\* The caller calls again with the same list.
CallAgain ==
    /\ phase \in {"ok", "failed"}
    /\ run < MaxRuns
    /\ run' = run + 1
    /\ phase' = "install"
    /\ pos' = 0
    /\ fresh' = {}
    /\ rec' = 0
    /\ UNCHANGED idb

Next == Process \/ StartRecord \/ Record \/ Succeed \/ Fail \/ CallAgain

Spec == Init /\ [][Next]_vars
=============================================================================
