-------------------------- MODULE MCBeerObjectCheck --------------------------
(***************************************************************************)
(* The in-memory streams in one run: two instances of BeerObject and one   *)
(* of BeerBuf; conf, fixed in Init, says which one a behaviour follows,    *)
(* and the variables of the others stay at their initial values.          *)
(*   wide: all three header strategies, nesting within the initial frame   *)
(*         stack (8), counts on both sides of the 1-byte header limit      *)
(*         (FixMax = 1 stands for msgpuck's 15).                           *)
(*   deep: SIMPLE mode nested deeper than a frame stack of 2: the stack    *)
(*         grows, reaches its limit (4 stands for 128), and its            *)
(*         allocation may fail.                                            *)
(*   buf:  the buffer stream, owned or borrowed, writes and reads of 1..3  *)
(*         bytes, realloc that never fails.                                *)
(*   iter: the array and map iterators over empty, full, trailing and      *)
(*         truncated arrays and maps, a nil and an empty buffer, with      *)
(*         failing allocation and up to 5 calls of next and rewind.        *)
(*   ops:  the update-operation builder: four calls of every builder, with *)
(*         refused op characters and values, failing allocation, a reset,  *)
(*         closed once as beer_update expects.                             *)
(*   format: beer_request_set_key_format three times on one request, over  *)
(*         the formats below, with failing allocation.                     *)
(***************************************************************************)
EXTENDS Integers, Sequences, SequencesExt

VARIABLES buf, stack, stackAlloc, type, wrcnt, intent, written,
          ptr, data, rdoff, alloc, as, nw, out, ub, freed, invalid,
          it, steps, yields, ops, hdr, body, owrcnt, top, ssize, calls, conf,
          fbuf, fstack, fstackAlloc, ftype, fwrcnt, cap, blk, nextBlk, ffreed,
          obj, fmt, fpc, res, key, fmt0, last, fub, fcalls

Wide == INSTANCE BeerObject WITH
          Modes <- {"simple", "sparse", "packed"}, FixMax <- 1,
          StackInit <- 8, StackLimit <- 128, MaxCount <- 2, MaxCells <- 6,
          AllocMayFail <- FALSE

Deep == INSTANCE BeerObject WITH
          Modes <- {"simple"}, FixMax <- 1,
          StackInit <- 2, StackLimit <- 4, MaxCount <- 1, MaxCells <- 6,
          AllocMayFail <- TRUE

Buf == INSTANCE BeerBuf WITH
         WriteSizes <- {1, 2, 3}, ReadSizes <- {1, 2, 3}, BorrowLen <- 3,
         MaxBytes <- 9, AllocMayFail <- FALSE

Iter == INSTANCE BeerIter WITH
          Buffers <- { [type |-> "array", count |-> 0, sizes |-> <<>>],
                       [type |-> "array", count |-> 2, sizes |-> <<1, 2>>],
                       [type |-> "array", count |-> 2, sizes |-> <<2, 1, 1>>],
                       [type |-> "array", count |-> 3, sizes |-> <<1, 1>>],
                       [type |-> "map", count |-> 2, sizes |-> <<1, 2, 1, 1>>],
                       [type |-> "map", count |-> 1, sizes |-> <<1>>],
                       [type |-> "nil", count |-> 0, sizes |-> <<>>],
                       [type |-> "none", count |-> 0, sizes |-> <<>>] },
          MaxSteps <- 5, AllocMayFail <- TRUE

Upd == INSTANCE BeerUpdate WITH
         wrcnt <- owrcnt, Chars <- {"&", "+", "#"}, Vals <- {"arr", "bad"},
         MaxOps <- 4, AllocMayFail <- TRUE, Reclose <- FALSE

\* Every format of up to three tokens over the brackets and an integer,
\* and longer ones whose containers outgrow a 1-byte header (FixMax = 1
\* stands for 15), nested or side by side, or hold ignored characters.
FormatSet ==
    BoundedSeq({"[", "]", "{", "}", "%d"}, 3) \cup
    { <<"%s", "%%", "NIL", "x">>,
      <<"[", "%d", "%d", "]">>,
      <<"{", "%d", "%d", "}">>,
      <<"{", "[", "]", "%d", "}">>,
      <<"[", "[", "%d", "]", "}">>,
      <<"{", "%d", "%s", "%d", "NIL", "}">>,
      <<"[", "{", "%d", "%d", "%d", "%d", "}", "%d", "]">>,
      <<"[", "%d", "[", "%d", "%d", "]", "]">>,
      <<"[", "%d", "%d", "]", "[", "]">> }

Fmt == INSTANCE BeerFormat WITH
         buf <- fbuf, stack <- fstack, stackAlloc <- fstackAlloc, type <- ftype,
         wrcnt <- fwrcnt, freed <- ffreed, ub <- fub, calls <- fcalls,
         Formats <- FormatSet, FixMax <- 1, StackInit <- 8, StackLimit <- 128,
         AllocMayFail <- TRUE, MaxCalls <- 3

objVars == <<buf, stack, stackAlloc, type, wrcnt, intent, written>>
bufVars == <<ptr, data, rdoff, alloc, as, nw, out, ub, freed, invalid>>
iterVars == <<it, steps, yields>>
updVars == <<ops, hdr, body, owrcnt, top, ssize, calls>>
fmtVars == <<fbuf, fstack, fstackAlloc, ftype, fwrcnt, cap, blk, nextBlk,
             ffreed, obj, fmt, fpc, res, key, fmt0, last, fub, fcalls>>
allVars == <<objVars, bufVars, iterVars, updVars, fmtVars, conf>>

Init == /\ \/ conf = "wide" /\ Wide!Init
           \/ conf = "deep" /\ Deep!Init
           \/ conf = "buf" /\ Wide!Init
           \/ conf = "iter" /\ Wide!Init
           \/ conf = "ops" /\ Wide!Init
           \/ conf = "format" /\ Wide!Init
        /\ Buf!Init /\ Iter!Init /\ Upd!Init /\ Fmt!Init

Next == /\ UNCHANGED conf
        /\ CASE conf = "wide" -> Wide!Next /\ UNCHANGED <<bufVars, iterVars, updVars, fmtVars>>
            [] conf = "deep" -> Deep!Next /\ UNCHANGED <<bufVars, iterVars, updVars, fmtVars>>
            [] conf = "buf"  -> Buf!Next /\ UNCHANGED <<objVars, iterVars, updVars, fmtVars>>
            [] conf = "iter" -> Iter!Next /\ UNCHANGED <<objVars, bufVars, updVars, fmtVars>>
            [] conf = "ops"  -> Upd!Next /\ UNCHANGED <<objVars, bufVars, iterVars, fmtVars>>
            [] OTHER         -> Fmt!Next /\ UNCHANGED <<objVars, bufVars, iterVars, updVars>>

Spec == Init /\ [][Next]_allVars

\* The frame stack stays within its bounds and mirrors the open containers
\* in number, even when growing it is refused at the limit.
TypeOK == CASE conf = "wide" -> Wide!TypeOK
            [] conf = "deep" -> Deep!TypeOK
            [] OTHER         -> TRUE

\* Whenever no container is open, the bytes decode to exactly the values
\* added, whatever strategy, nesting and count (EncodesIntent of BeerObject).
EncodesIntent == CASE conf = "wide" -> Wide!EncodesIntent
                   [] conf = "deep" -> Deep!EncodesIntent
                   [] OTHER         -> TRUE

\* While the stack does not grow, each frame points at its container's
\* header and counts its values (FramesTrackContainers of BeerObject).
FramesTrackContainers == conf = "wide" => Wide!FramesTrackContainers

\* Owned or borrowed, the read cursor stays within the data and the data
\* within the allocation (CursorWithinBuffer of BeerBuf).
CursorWithinBuffer == conf = "buf" => Buf!CursorWithinBuffer

\* A region lent with beer_buf_as is never reallocated or freed by the
\* stream (BorrowedNeverReleased of BeerBuf).
BorrowedNeverReleased == conf = "buf" => Buf!BorrowedNeverReleased

\* beer_next walks an array or map exactly: the current element, key and
\* value are the container's cur-th, and a failed iterator has returned 1
\* count times since it was made or rewound (WalkFollowsContainer of
\* BeerIter).
WalkFollowsContainer == conf = "iter" => Iter!WalkFollowsContainer

\* A closed update container is one array whose header counts exactly the
\* operations written since it was opened or reset, each of the right
\* length (ClosedOpsWellFormed of BeerUpdate).
ClosedOpsWellFormed == conf = "ops" => Upd!ClosedOpsWellFormed

\* beer_request_set_key_format returning 0 for a format whose brackets pair
\* up leaves the key object holding exactly the values the format
\* describes (FormatBuildsValue of BeerFormat).
FormatBuildsValue == conf = "format" => Fmt!FormatBuildsValue

=============================================================================
