-------------------------- MODULE RangeRetryProofs --------------------------
(***************************************************************************)
(* Proofs about RangeRetry, for a resource and a buffer of any length and  *)
(* any number of broken connections.                                       *)
(***************************************************************************)
EXTENDS RangeRetry, TLAPS

\* Appending m consecutive bytes to a prefix that ends at from gives a prefix.
LEMMA DeliverPrefix ==
    ASSUME NEW s \in Seq(1..Size), NEW m \in Nat, NEW from \in Nat,
           Len(s) = from, from + m <= Size,
           \A i \in 1..Len(s) : s[i] = i
    PROVE  LET t == s \o [j \in 1..m |-> from + j]
           IN  /\ t \in Seq(1..Size)
               /\ Len(t) = from + m
               /\ \A i \in 1..Len(t) : t[i] = i
  <1> DEFINE c == [j \in 1..m |-> from + j]
  <1>1. c \in Seq(1..Size) /\ Len(c) = m
    BY SizeAssumption
  <1>2. s \o c \in Seq(1..Size) /\ Len(s \o c) = from + m
    BY <1>1
  <1>3. \A i \in 1..Len(s \o c) : (s \o c)[i] = i
    BY <1>1, <1>2
  <1> QED
    BY <1>2, <1>3

\* The reader before the first request.
LEMMA ReaderInit == Init => TypeOK /\ ReaderInv
  BY SizeAssumption, BufSizeAssumption DEF Init, TypeOK, ReaderInv

\* Each step of RoundTrip, Read and reset preserves the invariant.
LEMMA ReaderStep == TypeOK /\ ReaderInv /\ [Next]_vars => (TypeOK /\ ReaderInv)'
  <1> SUFFICES ASSUME TypeOK, ReaderInv, [Next]_vars
               PROVE  (TypeOK /\ ReaderInv)'
    OBVIOUS
  <1> USE SizeAssumption, BufSizeAssumption DEF TypeOK, ReaderInv
  <1>1. CASE RoundTrip
    BY <1>1 DEF RoundTrip, NewBody
  <1>2. CASE RoundTripFail
    BY <1>2 DEF RoundTripFail
  <1>3. CASE CallRead
    BY <1>3 DEF CallRead
  <1>4. ASSUME NEW m \in Chunks, ReadBytes(m) PROVE (TypeOK /\ ReaderInv)'
    <2>1. m \in Nat /\ m <= BufSize /\ progress + m <= Size /\ at = progress
      BY <1>4 DEF Chunks, ReadBytes
    <2>2. /\ delivered' \in Seq(1..Size)
          /\ Len(delivered') = progress + m
          /\ \A i \in 1..Len(delivered') : delivered'[i] = i
      BY <1>4, <2>1, DeliverPrefix DEF ReadBytes, Deliver
    <2> QED
      BY <1>4, <2>1, <2>2 DEF ReadBytes, Deliver
  <1>5. ASSUME NEW m \in Chunks, ReadEOF(m) PROVE (TypeOK /\ ReaderInv)'
    <2>1. m \in Nat /\ m <= BufSize /\ progress + m = Size /\ at = progress
      BY <1>5 DEF Chunks, ReadEOF
    <2>2. /\ delivered' \in Seq(1..Size)
          /\ Len(delivered') = progress + m
          /\ \A i \in 1..Len(delivered') : delivered'[i] = i
      BY <1>5, <2>1, DeliverPrefix DEF ReadEOF, Deliver
    <2> QED
      BY <1>5, <2>1, <2>2 DEF ReadEOF, Deliver
  <1>6. ASSUME NEW m \in Chunks, ReadBroken(m) PROVE (TypeOK /\ ReaderInv)'
    <2>1. m \in Nat /\ m <= BufSize /\ progress + m <= Size /\ at = progress
      BY <1>6 DEF Chunks, ReadBroken
    <2>2. CASE turn < 3 /\ pc' = "reset" /\ UNCHANGED <<progress, delivered>>
      BY <1>6, <2>1, <2>2 DEF ReadBroken
    <2>3. CASE turn = 3 /\ pc' = "errored" /\ Deliver(m, at)
      <3>1. /\ delivered' \in Seq(1..Size)
            /\ Len(delivered') = progress + m
            /\ \A i \in 1..Len(delivered') : delivered'[i] = i
        BY <2>1, <2>3, DeliverPrefix DEF Deliver
      <3> QED
        BY <1>6, <2>1, <2>3, <3>1 DEF ReadBroken, Deliver
    <2> QED
      BY <1>6, <2>2, <2>3 DEF ReadBroken
  <1>7. CASE ReadDead
    BY <1>7 DEF ReadDead
  <1>8. CASE ResetOK
    BY <1>8 DEF ResetOK, NewBody
  <1>9. CASE ResetNoBody
    BY <1>9 DEF ResetNoBody
  <1>10. CASE ResetFail
    <2>1. CASE n = 0
      <3>1. delivered' = delivered
        <4>1. [j \in 1..0 |-> buf + j] = << >>
          OBVIOUS
        <4>2. delivered \o << >> = delivered
          OBVIOUS
        <4> QED
          BY <1>10, <2>1, <4>1, <4>2 DEF ResetFail, Deliver
      <3> QED
        BY <1>10, <2>1, <3>1 DEF ResetFail, Deliver
    <2>2. CASE n # 0
      <3>1. n \in Nat /\ progress + n <= Size /\ buf = progress
        BY <1>10, <2>2 DEF ResetFail
      <3>2. /\ delivered' \in Seq(1..Size)
            /\ Len(delivered') = progress + n
            /\ \A i \in 1..Len(delivered') : delivered'[i] = i
        BY <1>10, <3>1, DeliverPrefix DEF ResetFail, Deliver
      <3> QED
        BY <1>10, <3>1, <3>2 DEF ResetFail, Deliver
    <2> QED
      BY <2>1, <2>2
  <1>11. CASE UNCHANGED vars
    BY <1>11 DEF vars
  <1> QED
    BY <1>1, <1>2, <1>3, <1>4, <1>5, <1>6, <1>7, <1>8, <1>9, <1>10, <1>11
    DEF Next, ReadStep

\* The invariant of the reader holds in every reachable state.
THEOREM ReaderIsInvariant == Spec => [](TypeOK /\ ReaderInv)
  BY ReaderInit, ReaderStep, PTL DEF Spec

\* However often the connection breaks, Read delivers a prefix of the resource.
THEOREM PrefixHolds == Spec => []Prefix
  <1>1. ReaderInv => Prefix
    BY DEF ReaderInv, Prefix
  <1> QED
    BY <1>1, ReaderIsInvariant, PTL

\* io.EOF comes behind the last byte only.
THEOREM EOFAtEndHolds == Spec => []EOFAtEnd
  <1>1. ReaderInv => EOFAtEnd
    BY DEF ReaderInv, EOFAtEnd
  <1> QED
    BY <1>1, ReaderIsInvariant, PTL
=============================================================================
