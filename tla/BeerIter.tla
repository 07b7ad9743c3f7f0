------------------------------ MODULE BeerIter ------------------------------
(***************************************************************************)
(* The msgpack array and map iterators of src/beer/beer_iter.c:            *)
(* beer_iter_array, beer_iter_map (and their _object forms), beer_next,    *)
(* beer_rewind and beer_iter_free, on one iterator the caller either       *)
(* passes in or has allocated (NULL).                                      *)
(*                                                                         *)
(* A buffer is abstracted to the shape the iterators see: the type of its  *)
(* first value, the count its header announces, and the byte sizes of the  *)
(* encoded values that follow the 1-byte header (as many as the buffer     *)
(* holds, which may be fewer than the header needs, or more).  Pointers    *)
(* into the buffer are byte offsets from its start; NULL is NullPtr.       *)
(***************************************************************************)
EXTENDS Integers, Sequences, SequencesExt

CONSTANTS
    Buffers,        \* the buffers the caller may iterate over
    MaxSteps,       \* bound on beer_next and beer_rewind calls
    AllocMayFail    \* whether beer_mem_alloc may fail

NullPtr == -1

\* Values the header announces: a map's count is of pairs.
Need(b) == IF b.type = "map" THEN 2 * b.count ELSE b.count

\* The buffer's length in bytes: nothing, or the header and the values.
BufSize(b) == IF b.type = "none" THEN 0
              ELSE 1 + FoldLeft(LAMBDA acc, s : acc + s, 0, b.sizes)

\* The offset at which the k-th value after the header starts.
Off(b, k) == 1 + FoldLeft(LAMBDA acc, s : acc + s, 0, SubSeq(b.sizes, 1, k - 1))

\* mp_check(&tmp, data + size): the first value is complete in the buffer.
MpCheck(b) == b.type # "none" /\ Need(b) <= Len(b.sizes)

\* mp_next from p: past the value that starts at p (a byte otherwise).
MpNext(b, p) ==
    IF \E k \in 1 .. Len(b.sizes) : Off(b, k) = p
    THEN p + b.sizes[CHOOSE k \in 1 .. Len(b.sizes) : Off(b, k) = p]
    ELSE p + 1

NoIter == [type |-> "none", status |-> "none", alloc |-> FALSE,
           buf |-> [type |-> "none", count |-> 0, sizes |-> <<>>],
           count |-> 0, cur |-> -1, first |-> NullPtr, elem |-> NullPtr,
           elemEnd |-> NullPtr, key |-> NullPtr, keyEnd |-> NullPtr,
           value |-> NullPtr, valueEnd |-> NullPtr]

VARIABLES
    it,         \* the struct beer_iter, NoIter before it is made or after free
    steps,      \* calls of beer_next and beer_rewind made
    yields      \* ghost: beer_next calls that returned 1 since the last rewind

vars == <<it, steps, yields>>

Init == it = NoIter /\ steps = 0 /\ yields = 0

-----------------------------------------------------------------------------

\* beer_iter_array / beer_iter_map (kind "array" or "map") on buffer b:
\* NULL unless mp_check passes and b starts with a value of that kind;
\* beer_iter_init allocates when the caller passes NULL (own), zeroes the
\* struct and sets status OK; the count is decoded from the header.
IterNew(kind, b, own) ==
    /\ it = NoIter
    /\ \E ok \in IF own /\ AllocMayFail THEN BOOLEAN ELSE {TRUE} :
         IF MpCheck(b) /\ BufSize(b) > 0 /\ b.type = kind /\ ok
         THEN it' = [NoIter EXCEPT !.type = kind, !.status = "ok",
                       !.alloc = own, !.buf = b, !.count = b.count,
                       !.first = 1]
         ELSE UNCHANGED it
    /\ yields' = 0
    /\ UNCHANGED steps

\* Mutant of ArrayNext: the end test "cur_index > elem_count".
ArrayNextPastEnd ==
    LET c == it.cur + 1
        e == IF c = 0 THEN it.first ELSE it.elemEnd
    IN IF c > it.count
       THEN it' = [it EXCEPT !.cur = c, !.status = "fail"] /\ UNCHANGED yields
       ELSE /\ it' = [it EXCEPT !.cur = c, !.elem = e,
                                !.elemEnd = MpNext(it.buf, e)]
            /\ yields' = yields + 1

\* beer_iter_array_next.
ArrayNext ==
    LET c == it.cur + 1
        e == IF c = 0 THEN it.first ELSE it.elemEnd
    IN IF c >= it.count
       THEN it' = [it EXCEPT !.cur = c, !.status = "fail"] /\ UNCHANGED yields
       ELSE /\ it' = [it EXCEPT !.cur = c, !.elem = e,
                                !.elemEnd = MpNext(it.buf, e)]
            /\ yields' = yields + 1

\* beer_iter_map_next: the key starts where the last value ended; the value
\* follows the key.
MapNext ==
    LET c == it.cur + 1
        k == IF c = 0 THEN it.first ELSE it.valueEnd
        v == MpNext(it.buf, k)
    IN IF c >= it.count
       THEN it' = [it EXCEPT !.cur = c, !.status = "fail"] /\ UNCHANGED yields
       ELSE /\ it' = [it EXCEPT !.cur = c, !.key = k, !.keyEnd = v,
                                !.value = v, !.valueEnd = MpNext(it.buf, v)]
            /\ yields' = yields + 1

\* beer_next: i->next(i).
IterNext ==
    /\ it # NoIter /\ steps < MaxSteps
    /\ IF it.type = "array" THEN ArrayNext ELSE MapNext
    /\ steps' = steps + 1

\* beer_rewind: status OK, then the array or map rewind: cur_index -1 and
\* the element pointers NULL.
Rewind ==
    /\ it # NoIter /\ steps < MaxSteps
    /\ it' = [it EXCEPT !.status = "ok", !.cur = -1, !.elem = NullPtr,
                        !.elemEnd = NullPtr, !.key = NullPtr,
                        !.keyEnd = NullPtr, !.value = NullPtr,
                        !.valueEnd = NullPtr]
    /\ yields' = 0
    /\ steps' = steps + 1

\* beer_iter_free: no free callback for these kinds; the struct is freed
\* if beer_iter_init allocated it.
IterFree ==
    /\ it # NoIter
    /\ it' = NoIter
    /\ UNCHANGED <<steps, yields>>

Next ==
    \/ \E kind \in {"array", "map"}, b \in Buffers, own \in BOOLEAN :
         IterNew(kind, b, own)
    \/ IterNext \/ Rewind \/ IterFree

Spec == Init /\ [][Next]_vars

-----------------------------------------------------------------------------
(* Properties *)

\* Every beer_next walks the container exactly: while the iterator is OK
\* its current element (or key and value) is the cur-th value of the
\* container and cur is below the count, and once it has failed it has
\* returned 1 exactly count times since it was made or rewound, so no
\* element is skipped, repeated, or read past the end.
WalkFollowsContainer ==
    LET b == it.buf
        c == it.cur
        Current == IF it.type = "array"
                   THEN it.elem = Off(b, c + 1) /\ it.elemEnd = Off(b, c + 2)
                   ELSE /\ it.key = Off(b, 2 * c + 1)
                        /\ it.value = Off(b, 2 * c + 2)
                        /\ it.valueEnd = Off(b, 2 * c + 3)
    IN /\ it.status = "ok" /\ c >= 0 => c < it.count /\ Current
       /\ it.status = "fail" => yields = it.count

====
