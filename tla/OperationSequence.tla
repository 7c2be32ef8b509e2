------------------------- MODULE OperationSequence -------------------------
(***************************************************************************)
(* Arithmetic of the drawing-operation numbers of internal/display.  The   *)
(* server counts operations in 32 bits; an operation header and a NACK     *)
(* carry only the low 16 bits, so a NACKed number is mapped back to the    *)
(* epoch nearest to the server's counter.                                  *)
(***************************************************************************)
EXTENDS Integers

CONSTANTS
    SeqMod,     \* operationSeqMod = maxNACKRange, 2^16 in the code
    OpenEnded,  \* nackOpenEnded, 0x00FFFFFF in the code
    MaxDirect   \* maxDirectResend, 512 in the code

ASSUME SeqModAssumption == SeqMod \in Nat \ {0} /\ SeqMod % 2 = 0
ASSUME OpenEndedAssumption == OpenEnded \in Nat /\ OpenEnded >= SeqMod
ASSUME MaxDirectAssumption == MaxDirect \in Nat

Lesser(a, b) == IF a <= b THEN a ELSE b

Half == SeqMod \div 2

\* The number of the current epoch with the low bits of wire.
Candidate(wire, current) == current - (current % SeqMod) + (wire % SeqMod)

ExtendInEpoch(wire, current) == Candidate(wire, current)

\* extendOperationSequence: the epoch of wire nearest to current.
Extend(wire, current) ==
    LET c == Candidate(wire, current)
    IN  IF c > current /\ c - current > Half
        THEN IF c >= SeqMod THEN c - SeqMod ELSE c
        ELSE IF current > c /\ current - c > Half THEN c + SeqMod ELSE c

\* A range the server answers at all; from > to is one range across the wrap.
ValidNACKRange(from, to) ==
    /\ from <= OpenEnded
    /\ to <= OpenEnded
    /\ \/ to = OpenEnded
       \/ to >= from /\ to - from + 1 <= SeqMod
       \/ to < from /\ from < SeqMod /\ SeqMod - from + to + 1 <= SeqMod

\* The server numbers of a valid wire range, seen from operation current.
ExtendFrom(r, current) == Extend(r.from, current)

ExtendTo(r, current) ==
    LET t == Extend(r.to, current)
    IN  IF r.to = OpenEnded THEN current
        ELSE IF t < ExtendFrom(r, current) /\ r.from < SeqMod /\ r.to < SeqMod
             THEN t + SeqMod
             ELSE t

\* A range too long to replay: the newest full frame replaces it.
ShouldReplaceResendWithSnapshot(from, to, current) ==
    /\ from <= to
    /\ from <= current
    /\ Lesser(to, current) - from + 1 > MaxDirect

(***************************************************************************)
(* The terminal (external): how it writes operations op..last into a NACK. *)
(* It keeps 16 bits; some firmware expands them with an epoch of its own.  *)
(***************************************************************************)
WireRange(op, last, epoch) ==
    LET from == (op % SeqMod) + epoch * SeqMod
    IN  [from |-> from,
         to   |-> IF epoch = 0 THEN last % SeqMod ELSE from + last - op]
=============================================================================
