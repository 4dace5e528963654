----------------------------- MODULE RangeRetry -----------------------------
(***************************************************************************)
(* rangeRetryTransport, pkg/apk/transport.go: a response body that, when   *)
(* the connection breaks in the middle, asks for the rest with a Range     *)
(* request and goes on as if nothing had happened.                         *)
(*                                                                         *)
(* The resource is the bytes 1..Size.  A body is a connection and the      *)
(* number of bytes it has got out, so the next one it yields is at + 1.    *)
(* The server sends Content-Length or chunks: a body that ends early is an *)
(* error, not io.EOF.                                                      *)
(***************************************************************************)
EXTENDS Naturals, Sequences

CONSTANTS Size,     \* length of the resource
          BufSize   \* len(p), the buffer of the caller

ASSUME SizeAssumption == Size \in Nat
ASSUME BufSizeAssumption == BufSize \in Nat \ {0}

VARIABLES
    pc,         \* "start", "idle", "read", "reset", "eof", "errored", "failed"
    body,       \* r.body: "none", "live" or "dead" (closed, or broken)
    at,         \* the bytes the current body has yielded or discarded
    progress,   \* r.progress
    turn,       \* which turn of the loop in Read this is
    n,          \* what the last r.body.Read returned
    buf,        \* the byte the buffer p starts with, less one
    delivered   \* the bytes the caller has got from Read, in order

vars == <<pc, body, at, progress, turn, n, buf, delivered>>

TypeOK ==
    /\ pc \in {"start", "idle", "read", "reset", "eof", "errored", "failed"}
    /\ body \in {"none", "live", "dead"}
    /\ at \in 0..Size
    /\ progress \in 0..Size
    /\ turn \in 1..3
    /\ n \in 0..BufSize
    /\ buf \in 0..Size
    /\ delivered \in Seq(1..Size)

Init ==
    /\ pc = "start"
    /\ body = "none"
    /\ at = 0
    /\ progress = 0
    /\ turn = 1
    /\ n = 0
    /\ buf = 0
    /\ delivered = << >>

-----------------------------------------------------------------------------
(* reset: the new response is taken over. *)

\* A 200 taken as it comes, without discarding what was read before.
NewBodyUndiscarded ==
    /\ body' = "live"
    /\ at' \in {0, progress}

\* A 206 starts behind what was read; of a 200 that much is discarded.
NewBody ==
    /\ body' = "live"
    /\ at' = progress

\* RoundTrip: the first request.
RoundTrip ==
    /\ pc = "start"
    /\ NewBody
    /\ pc' = "idle"
    /\ UNCHANGED <<progress, turn, n, buf, delivered>>

\* client.Do fails or the status is neither 200 nor 206.
RoundTripFail ==
    /\ pc = "start"
    /\ pc' = "failed"
    /\ UNCHANGED <<body, at, progress, turn, n, buf, delivered>>

\* The deferred progress += n, and what the caller finds in its buffer.
Deliver(m, from) ==
    /\ progress' = progress + m
    /\ delivered' = delivered \o [j \in 1..m |-> from + j]

-----------------------------------------------------------------------------
(* Read *)

\* The caller reads, after an error too: errors are not sticky.
CallRead ==
    /\ pc \in {"idle", "errored"}
    /\ pc' = "read"
    /\ turn' = 1
    /\ n' = 0
    /\ UNCHANGED <<body, at, progress, buf, delivered>>

\* What r.body.Read can yield: up to the end of the buffer and the resource.
Chunks == {m \in 0..BufSize : at + m <= Size}

\* r.body.Read returns m > 0 bytes and no error.
ReadBytes(m) ==
    /\ pc = "read"
    /\ body = "live"
    /\ m > 0
    /\ n' = m
    /\ buf' = at
    /\ at' = at + m
    /\ Deliver(m, at)
    /\ pc' = "idle"
    /\ UNCHANGED <<body, turn>>

\* The last bytes, or none, with io.EOF.
ReadEOF(m) ==
    /\ pc = "read"
    /\ body = "live"
    /\ at + m = Size
    /\ n' = m
    /\ buf' = at
    /\ at' = at + m
    /\ Deliver(m, at)
    /\ pc' = "eof"
    /\ UNCHANGED <<body, turn>>

\* Counting the bytes of the broken read although they are read once more.
ReadBrokenCounted(m) ==
    /\ pc = "read"
    /\ body = "live"
    /\ n' = m
    /\ buf' = at
    /\ at' = at + m
    /\ body' = "dead"
    /\ turn < 3
    /\ pc' = "reset"
    /\ progress' = progress + m
    /\ UNCHANGED <<turn, delivered>>

\* The connection breaks behind m bytes, which are in the buffer; progress
\* does not count them yet, so the Range request asks for them again.
ReadBroken(m) ==
    /\ pc = "read"
    /\ body = "live"
    /\ n' = m
    /\ buf' = at
    /\ at' = at + m
    /\ body' = "dead"
    /\ \/ turn < 3 /\ pc' = "reset" /\ UNCHANGED <<progress, delivered>>
       \/ turn = 3 /\ pc' = "errored" /\ Deliver(m, at)
    /\ UNCHANGED turn

\* Reading from a body that is closed or broken.
ReadDead ==
    /\ pc = "read"
    /\ body = "dead"
    /\ n' = 0
    /\ pc' = IF turn < 3 THEN "reset" ELSE "errored"
    /\ UNCHANGED <<body, at, progress, turn, buf, delivered>>

\* Not counting the turns: reset as often as the connection breaks.
ResetOKUncounted ==
    /\ pc = "reset"
    /\ NewBody
    /\ pc' = "read"
    /\ UNCHANGED <<turn, progress, n, buf, delivered>>

\* The Range request succeeds: the next turn of the loop.
ResetOK ==
    /\ pc = "reset"
    /\ NewBody
    /\ turn' = turn + 1
    /\ pc' = "read"
    /\ UNCHANGED <<progress, n, buf, delivered>>

\* A response without a body: r.body stays the closed one.
ResetNoBody ==
    /\ pc = "reset"
    /\ turn' = turn + 1
    /\ pc' = "read"
    /\ UNCHANGED <<body, at, progress, n, buf, delivered>>

\* Asking anew from behind the bytes of the failed read, not from its start.
ResetFailForgotten ==
    /\ pc = "reset"
    /\ pc' = "errored"
    /\ progress' = progress + n
    /\ UNCHANGED <<body, at, turn, n, buf, delivered>>

\* client.Do fails, the status is unexpected, or a 200 ends before the bytes
\* to discard do: Read returns the n bytes of the last turn and the errors.
ResetFail ==
    /\ pc = "reset"
    /\ Deliver(n, buf)
    /\ pc' = "errored"
    /\ UNCHANGED <<body, at, turn, n, buf>>

ReadStep ==
    \/ \E m \in Chunks : ReadBytes(m) \/ ReadEOF(m) \/ ReadBroken(m)
    \/ ReadDead \/ ResetOK \/ ResetNoBody \/ ResetFail

Next == RoundTrip \/ RoundTripFail \/ CallRead \/ ReadStep

Spec == Init /\ [][Next]_vars

\* A read of a connection and a request end, if with an error: Read goes on.
FairSpec == Spec /\ WF_vars(ReadStep)

-----------------------------------------------------------------------------
(* Properties. *)

\* What the caller has got is the resource from its start, every byte once
\* and in order, however often the connection broke and however much a broken
\* read had put into the buffer.
Prefix == \A i \in 1..Len(delivered) : delivered[i] = i

\* io.EOF is reported only behind the last byte.
EOFAtEnd == pc = "eof" => Len(delivered) = Size

\* The inductive invariant behind Prefix: a body that can yield bytes stands
\* where the caller does, and before a reset the bytes of the broken read are
\* in the buffer but not in the count.
ReaderInv ==
    /\ Len(delivered) = progress
    /\ \A i \in 1..Len(delivered) : delivered[i] = i
    /\ body = "live" => at = progress
    /\ pc = "start" => progress = 0
    /\ pc = "reset" => /\ turn < 3
                       /\ body = "dead"
                       /\ progress + n <= Size
                       /\ n = 0 \/ buf = progress
    /\ pc = "eof" => progress = Size

\* "If Read() fails, we will reset() 2x" (transport.go:112): Read returns.
ReadReturns == pc = "read" ~> pc \in {"idle", "eof", "errored"}
=============================================================================
