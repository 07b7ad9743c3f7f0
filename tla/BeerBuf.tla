------------------------------- MODULE BeerBuf -------------------------------
(***************************************************************************)
(* The in-memory buffer stream of src/beer/beer_buf.c: an owned buffer     *)
(* made by beer_buf (grown by beer_buf_resize on every write) or a         *)
(* borrowed one set up by beer_buf_as, with write, writev, read and free.  *)
(*                                                                         *)
(* Bytes are numbers: the n-th byte ever written is n, so a byte's value   *)
(* says where it came from.  Junk is the value the caller's destination    *)
(* buffer holds before a read.  The heap is abstracted to the state of the *)
(* one region sb->data points at: "null", "live" or "freed"; a call that   *)
(* reallocs, frees or reads a freed region is undefined behaviour and is   *)
(* recorded in the ghost ub.                                               *)
(***************************************************************************)
EXTENDS Integers, Sequences, SequencesExt

CONSTANTS
    WriteSizes,     \* sizes of the caller's writes
    ReadSizes,      \* sizes of the caller's reads
    BorrowLen,      \* length of the region beer_buf_as is given, 0 for none
    MaxBytes,       \* bound on the bytes written
    AllocMayFail    \* whether realloc may fail

ASSUME WriteSizes \subseteq Nat \ {0} /\ ReadSizes \subseteq Nat \ {0}

Junk == 0

VARIABLES
    ptr,        \* what sb->data points at: "null", "live" or "freed"
    data,       \* sb->data[0 .. sb->size-1]
    rdoff,      \* sb->rdoff
    alloc,      \* sb->alloc
    as,         \* sb->as: 1 for a borrowed region
    nw,         \* ghost: bytes written so far (the next byte is nw + 1)
    out,        \* ghost: bytes the reads delivered to the caller
    ub,         \* ghost: undefined behaviour the calls have performed
    freed,      \* ghost: beer_buf_free has run
    invalid     \* ghost: a resize failed; the caller may only free (spec 4.1)

vars == <<ptr, data, rdoff, alloc, as, nw, out, ub, freed, invalid>>

-----------------------------------------------------------------------------

\* beer_buf: an owned, empty buffer with no region yet.
\* beer_buf_as: a borrowed region of BorrowLen bytes, ready to be read.
Init ==
    /\ \/ /\ ptr = "null" /\ data = <<>> /\ rdoff = 0 /\ alloc = 0 /\ as = 0
          /\ nw = 0
       \/ /\ BorrowLen > 0
          /\ ptr = "live" /\ data = [i \in 1 .. BorrowLen |-> i] /\ rdoff = 0
          /\ alloc = BorrowLen /\ as = 1
          /\ nw = BorrowLen
    /\ out = <<>> /\ ub = {} /\ freed = FALSE /\ invalid = FALSE

\* realloc(sb->data, size) and beer_mem_free(sb->data) on the region's
\* state: either on a freed region is undefined behaviour.
UbOf(op) == CASE ptr = "freed" /\ op = "realloc" -> {"use_after_free"}
              [] ptr = "freed" /\ op = "free"    -> {"double_free"}
              [] OTHER                           -> {}

\* Mutant of Writable: the "as == 1" test left out.
WritableAlways == TRUE

\* "if (BEER_SBUF_CAST(s)->as == 1) return -1;"
Writable == as = 0

\* beer_buf_write / beer_buf_writev of n bytes: refused on a borrowed
\* region; beer_buf_resize reallocs to exactly size + n (no doubling) and,
\* if that fails, frees the region and keeps the dangling sb->data; else
\* the bytes are appended and wrcnt counts the call.
BeerBufWrite(n) ==
    /\ ~freed /\ ~invalid /\ nw + n <= MaxBytes
    /\ Writable
    /\ \E ok \in IF AllocMayFail THEN BOOLEAN ELSE {TRUE} :
         IF ok
         THEN /\ ptr' = "live"
              /\ data' = data \o [i \in 1 .. n |-> nw + i]
              /\ alloc' = Len(data) + n
              /\ nw' = nw + n
              /\ ub' = ub \cup UbOf("realloc")
              /\ UNCHANGED <<rdoff, as, out, freed, invalid>>
         ELSE /\ ptr' = IF ptr = "null" THEN "null" ELSE "freed"
              /\ ub' = ub \cup UbOf("realloc") \cup UbOf("free")
              /\ invalid' = TRUE
              /\ UNCHANGED <<data, rdoff, alloc, as, nw, out, freed>>

\* Mutant of ReadSize: "if (size > avail) size = avail;" left out.
ReadSizeUnclamped(n) == n

\* The bytes a read of n copies: no more than are left after sb->rdoff.
ReadSize(n) == IF n > Len(data) - rdoff THEN Len(data) - rdoff ELSE n

\* beer_buf_read of up to n bytes into a caller buffer holding Junk: 0 with
\* no region or nothing left; otherwise size is cut to what is available
\* and memcpy(sb->data + sb->rdoff, buf, size) copies the caller's buffer
\* into the stream; the caller's buffer keeps its Junk.
BeerBufRead(n) ==
    /\ ~freed /\ ~invalid
    /\ ptr # "null" /\ rdoff < Len(data)
    /\ LET k == ReadSize(n) IN
       /\ data' = [i \in 1 .. Len(data) |->
                     IF rdoff < i /\ i <= rdoff + k THEN Junk ELSE data[i]]
       /\ out' = out \o [i \in 1 .. k |-> Junk]
       /\ rdoff' = rdoff + k
    /\ ub' = IF ptr = "freed" THEN ub \cup {"use_after_free"} ELSE ub
    /\ UNCHANGED <<ptr, alloc, as, nw, freed, invalid>>

\* beer_buf_free: an owned region is freed if sb->data is set.
BeerBufFree ==
    /\ ~freed
    /\ freed' = TRUE
    /\ IF as = 0 /\ ptr # "null"
       THEN /\ ptr' = "freed"
            /\ ub' = ub \cup UbOf("free")
       ELSE UNCHANGED <<ptr, ub>>
    /\ UNCHANGED <<data, rdoff, alloc, as, nw, out, invalid>>

Next ==
    \/ \E n \in WriteSizes : BeerBufWrite(n)
    \/ \E n \in ReadSizes : BeerBufRead(n)
    \/ BeerBufFree

Spec == Init /\ [][Next]_vars

-----------------------------------------------------------------------------
(* Properties *)

\* The buffer invariant of spec section 3: read cursor <= used length <=
\* capacity, through every write, failed write and read.
CursorWithinBuffer ==
    rdoff <= Len(data) /\ Len(data) <= alloc

\* A borrowed region is never reallocated or freed: beer_buf_write and
\* writev refuse it and beer_buf_free leaves it to its owner.
BorrowedNeverReleased ==
    as = 1 => ptr = "live" /\ alloc = BorrowLen

\* Reads drain the stream: the bytes beer_buf_read hands the caller are
\* the bytes written, in order (spec section 4.1, "read(dest,len) drains
\* from current read cursor").
ReadReturnsWritten ==
    out = [i \in 1 .. Len(out) |-> i]

\* No sequence of calls, the stream's own free included, reallocs, reads
\* or frees a region that was already freed.
NoUndefinedBehaviour ==
    ub = {}

====
