----------------------------- MODULE BeerChannel -----------------------------
(***************************************************************************)
(* What a network stream's transport promises its caller (spec sections 4 *)
(* and 5), with the buffering left out: a send call either hands over its  *)
(* bytes, appended after those of the earlier successful sends, or fails   *)
(* the connection; a read of n bytes is asked for and then, atomically,    *)
(* answered with exactly the next n bytes of the server's stream, or the   *)
(* connection fails.  A read that was asked for is eventually answered or  *)
(* failed.  After a failure nothing more is sent or read.                  *)
(*                                                                         *)
(* BeerIo is shown to implement it in MCBeerIoCheck.                       *)
(***************************************************************************)
EXTENDS Integers, Sequences, SequencesExt

VARIABLES
    sent,       \* the bytes of the successful send calls, in order
    reads,      \* the bytes each answered read returned, one entry a call
    want,       \* the size of the read in progress, 0 when none is
    failed      \* the connection has failed

vars == <<sent, reads, want, failed>>

\* The server's stream: its n-th byte is n.
StreamFrom(from, n) == [i \in 1 .. n |-> from + i]

Init == sent = <<>> /\ reads = <<>> /\ want = 0 /\ failed = FALSE

\* A send call hands over a non-empty block of bytes.
Put ==
    /\ ~failed /\ want = 0
    /\ IsStrictPrefix(sent, sent')
    /\ UNCHANGED <<reads, want, failed>>

\* A read of n > 0 bytes is asked for.
Ask ==
    /\ ~failed /\ want = 0
    /\ want' > 0
    /\ UNCHANGED <<sent, reads, failed>>

\* The read in progress returns exactly the next want bytes.
Answer ==
    /\ want > 0
    /\ reads' = Append(reads,
                  StreamFrom(Len(FlattenSeq(reads)), want))
    /\ want' = 0
    /\ UNCHANGED <<sent, failed>>

\* A transport error fails the connection, and the read in progress.
Fail ==
    /\ ~failed
    /\ failed' = TRUE /\ want' = 0
    /\ UNCHANGED <<sent, reads>>

Next == Put \/ Ask \/ Answer \/ Fail

\* The read in progress ends, with its bytes or with a failure.
ReadEnds == want > 0 /\ (Answer \/ Fail)

Spec == Init /\ [][Next]_vars /\ WF_vars(ReadEnds)

====
