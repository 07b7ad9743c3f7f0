------------------------------ MODULE BeerObject ------------------------------
(***************************************************************************)
(* The msgpack object builder of src/beer/beer_object.c: a growable byte   *)
(* buffer (struct beer_stream_buf) plus a stack of open-container frames   *)
(* (struct beer_sbuf_object) and one of three header strategies.           *)
(*                                                                         *)
(* The buffer is a sequence of cells, one per byte.  A leaf value (nil,    *)
(* integer, string, ... whose encoding never changes after it is written)  *)
(* is one Leaf cell; an array or map header of width w is one Hdr cell     *)
(* followed by w-1 Pad cells (the count bytes).  Overwriting a header in   *)
(* place and memmove'ing the bytes after it are therefore modelled at      *)
(* byte granularity.                                                       *)
(*                                                                         *)
(* Two ghost variables record what the caller asked for: intent, the       *)
(* containers the caller has opened and not yet closed, and written, the   *)
(* complete top-level values.  The properties compare the bytes with them. *)
(***************************************************************************)
EXTENDS Integers, Sequences, SequencesExt

CONSTANTS
    Modes,        \* strategies the caller may select with beer_object_type
    FixMax,       \* largest count a 1-byte header holds (15 in msgpuck)
    StackInit,    \* initial frame-stack allocation (8 in beer_object)
    StackLimit,   \* allocation at which growing is refused (128)
    MaxCount,     \* largest count a caller declares up front in SIMPLE mode
    MaxCells,     \* bound on the buffer length
    AllocMayFail  \* whether beer_mem_alloc may return NULL

SIMPLE == "simple"
SPARSE == "sparse"
PACKED == "packed"

ASSUME Modes \subseteq {SIMPLE, SPARSE, PACKED}
ASSUME FixMax \in Nat /\ MaxCount \in Nat /\ MaxCells \in Nat
ASSUME StackInit \in Nat \ {0} /\ StackLimit \in Nat /\ StackInit <= StackLimit
ASSUME AllocMayFail \in BOOLEAN

VARIABLES
    buf,        \* sb->data[0 .. sb->size-1], one cell per byte
    stack,      \* sbo->stack[0 .. sbo->stack_size-1]
    stackAlloc, \* sbo->stack_alloc
    type,       \* sbo->type
    wrcnt,      \* s->wrcnt, incremented by every write/writev
    intent,     \* ghost: containers the caller has open
    written     \* ghost: complete top-level values the caller has added

vars == <<buf, stack, stackAlloc, type, wrcnt, intent, written>>

-----------------------------------------------------------------------------
(* Bytes and values *)

Leaf == [t |-> "leaf", k |-> "none", n |-> 0, w |-> 1]
Pad  == [t |-> "pad",  k |-> "none", n |-> 0, w |-> 1]
Hdr(k, n, w) == [t |-> "hdr", k |-> k, n |-> n, w |-> w]
Cells == {Leaf, Pad} \cup
         {Hdr(k, n, w) : k \in {"arr", "map"}, n \in 0..MaxCells, w \in {1, 3, 5}}

\* The bytes mp_encode_array/map (w = minimal) or mp_encode_array32/map32
\* (w = 5) write: a type byte and w-1 count bytes.
HeaderCells(k, n, w) == <<Hdr(k, n, w)>> \o [i \in 1 .. w - 1 |-> Pad]

\* mp_sizeof_array / mp_sizeof_map: fixarray, array16 or array32.
MinWidth(n) == IF n <= FixMax THEN 1 ELSE IF n <= 65535 THEN 3 ELSE 5

\* A header of width w can carry count n.
Fits(n, w) == \/ w = 1 /\ n <= FixMax
              \/ w = 3 /\ n <= 65535
              \/ w = 5

LeafVal == [k |-> "leaf", items |-> <<>>]

\* A frame: struct beer_sbo_stack.  type is MP_ARRAY, MP_MAP, or MP_NIL (0)
\* for a frame of zero-filled memory.
ZeroFrame == [offset |-> 0, size |-> 0, type |-> "nil"]

-----------------------------------------------------------------------------
(* mp_check: decoding the cells back into values *)

Bad      == [ok |-> FALSE, val |-> LeafVal, next |-> 0]
BadItems == [ok |-> FALSE, vals |-> <<>>, next |-> 0]

RECURSIVE DecodeAt(_, _), DecodeItems(_, _, _)

\* The value that starts at cell i of b, and the cell after it.
DecodeAt(b, i) ==
    IF i > Len(b) THEN Bad
    ELSE LET c == b[i] IN
         CASE c.t = "leaf" -> [ok |-> TRUE, val |-> LeafVal, next |-> i + 1]
           [] c.t = "hdr" /\ Fits(c.n, c.w) /\ i + c.w - 1 <= Len(b)
                          /\ \A j \in i + 1 .. i + c.w - 1 : b[j] = Pad ->
                LET r == DecodeItems(b, i + c.w, IF c.k = "map" THEN 2 * c.n ELSE c.n)
                IN IF r.ok
                   THEN [ok |-> TRUE, val |-> [k |-> c.k, items |-> r.vals], next |-> r.next]
                   ELSE Bad
           [] OTHER -> Bad

\* cnt consecutive values starting at cell i.
DecodeItems(b, i, cnt) ==
    IF cnt = 0 THEN [ok |-> TRUE, vals |-> <<>>, next |-> i]
    ELSE LET h == DecodeAt(b, i) IN
         IF ~h.ok THEN BadItems
         ELSE LET r == DecodeItems(b, h.next, cnt - 1) IN
              IF ~r.ok THEN BadItems
              ELSE [ok |-> TRUE, vals |-> <<h.val>> \o r.vals, next |-> r.next]

RECURSIVE DecodeFrom(_, _)
\* All values from cell i to the end of b.
DecodeFrom(b, i) ==
    IF i = Len(b) + 1 THEN [ok |-> TRUE, vals |-> <<>>]
    ELSE LET h == DecodeAt(b, i) IN
         IF ~h.ok THEN [ok |-> FALSE, vals |-> <<>>]
         ELSE LET r == DecodeFrom(b, h.next) IN
              [ok |-> r.ok, vals |-> <<h.val>> \o r.vals]

\* beer_object_verify: exactly one well-formed value of the given type
\* ("arr", "map" or "any"), no trailing bytes.
Verify(b, ty) ==
    /\ Len(b) > 0
    /\ ty = "any" \/ (b[1].t = "hdr" /\ b[1].k = ty)
    /\ LET h == DecodeAt(b, 1) IN h.ok /\ h.next = Len(b) + 1

-----------------------------------------------------------------------------
(* Helpers that model code *)

\* Mutant of BumpTop: counts the value in the outermost frame.
BumpBottom(st) == IF st = <<>> THEN st ELSE [st EXCEPT ![1].size = @ + 1]

\* "if (sbo->stack_size > 0) sbo->stack[sbo->stack_size - 1].size += 1;"
BumpTop(st) == IF st = <<>> THEN st ELSE [st EXCEPT ![Len(st)].size = @ + 1]

\* Mutant of OpenHeader: a SIMPLE map header carrying the item count
\* instead of the pair count.
OpenHeaderItems(k, declared) ==
    CASE type = SIMPLE -> LET n == IF k = "map" THEN 2 * declared ELSE declared
                          IN HeaderCells(k, n, MinWidth(n))
      [] type = SPARSE -> HeaderCells(k, 0, 5)
      [] type = PACKED -> HeaderCells(k, 0, 1)

\* The header written when a container is opened, per strategy.
OpenHeader(k, declared) ==
    CASE type = SIMPLE -> HeaderCells(k, declared, MinWidth(declared))
      [] type = SPARSE -> HeaderCells(k, 0, 5)
      [] type = PACKED -> HeaderCells(k, 0, 1)

\* Writing cells over the bytes after offset off, in place.
Overwrite(b, off, cs) ==
    [i \in 1 .. Len(b) |-> IF off < i /\ i <= off + Len(cs) THEN cs[i - off] ELSE b[i]]

\* Mutant of Repack: writes the wider header without moving the bytes
\* after the placeholder.
RepackInPlace(b, off, k, n) == Overwrite(b, off, HeaderCells(k, n, MinWidth(n)))

\* PACKED close: shift the bytes after the 1-byte placeholder by sz-1 and
\* write a header of the minimal width sz.
Repack(b, off, k, n) ==
    SubSeq(b, 1, off) \o HeaderCells(k, n, MinWidth(n)) \o SubSeq(b, off + 2, Len(b))

\* beer_sbuf_object_grow_stack: sbo->stack becomes a new zero-filled
\* array of twice the size (beer_mem_alloc is calloc); the old frames are
\* not copied into it.
GrowStack(st) == [i \in 1 .. Len(st) |-> ZeroFrame]

\* A frame's kind as the close code sees it: anything but MP_MAP is an array.
KindOf(ft) == IF ft = "map" THEN "map" ELSE "arr"

\* The caller's side: a value lands in the innermost open container, or at
\* top level.
AddToIntent(v) ==
    IF intent = <<>>
    THEN /\ written' = Append(written, v)
         /\ UNCHANGED intent
    ELSE /\ intent' = [intent EXCEPT ![Len(intent)].items = Append(@, v)]
         /\ UNCHANGED written

-----------------------------------------------------------------------------
(* Operations *)

\* beer_object(): SIMPLE, empty buffer, stack of StackInit frames.
Init ==
    /\ buf = <<>>
    /\ stack = <<>>
    /\ stackAlloc = StackInit
    /\ type = SIMPLE
    /\ wrcnt = 0
    /\ intent = <<>>
    /\ written = <<>>

\* beer_object_type: refused once anything has been written.
SetType(t) ==
    /\ wrcnt = 0
    /\ type' = t
    /\ UNCHANGED <<buf, stack, stackAlloc, wrcnt, intent, written>>

\* beer_object_add_nil/uint/int/str/bin/bool/float/double: count the value
\* in the enclosing frame, then write its bytes.
AddLeaf ==
    /\ Len(buf) < MaxCells
    /\ stack' = BumpTop(stack)
    /\ buf' = Append(buf, Leaf)
    /\ wrcnt' = wrcnt + 1
    /\ AddToIntent(LeafVal)
    /\ UNCHANGED <<stackAlloc, type>>

\* beer_object_add_array/map when the frame stack is full and cannot grow
\* (stack_alloc == 128, or beer_mem_alloc fails): -1, after the enclosing
\* frame has already counted the container.
OpenGrowFails(k) ==
    /\ Len(stack) = stackAlloc
    /\ stackAlloc = StackLimit \/ AllocMayFail
    /\ stack[Len(stack)].size < MaxCells   \* bound on the repeated failures
    /\ stack' = BumpTop(stack)
    /\ UNCHANGED <<buf, stackAlloc, type, wrcnt, intent, written>>

\* Mutant of OpenContainer: grows past the stack_alloc limit.
OpenContainerNoLimit(k, declared) ==
    LET full == Len(stack) = stackAlloc
        base == IF full THEN GrowStack(stack) ELSE BumpTop(stack)
        hdr  == OpenHeader(k, declared)
    IN /\ Len(buf) + Len(hdr) <= MaxCells
       /\ stack' = Append(base, [offset |-> Len(buf), size |-> 0, type |-> k])
       /\ stackAlloc' = IF full THEN 2 * stackAlloc ELSE stackAlloc
       /\ buf' = buf \o hdr
       /\ wrcnt' = wrcnt + 1
       /\ intent' = Append(intent, [k |-> k, declared |-> declared, items |-> <<>>])
       /\ UNCHANGED <<type, written>>

\* beer_object_add_array/map: count it in the enclosing frame, grow the
\* stack if full (beer_sbuf_object_grow_stack allocates a new zero-filled
\* array and does not copy the old frames into it), push a frame at the
\* current size, write the header.
OpenContainer(k, declared) ==
    LET full == Len(stack) = stackAlloc
        base == IF full THEN GrowStack(stack) ELSE BumpTop(stack)
        hdr  == OpenHeader(k, declared)
    IN /\ full => stackAlloc # StackLimit
       /\ Len(buf) + Len(hdr) <= MaxCells
       /\ stack' = Append(base, [offset |-> Len(buf), size |-> 0, type |-> k])
       /\ stackAlloc' = IF full THEN 2 * stackAlloc ELSE stackAlloc
       /\ buf' = buf \o hdr
       /\ wrcnt' = wrcnt + 1
       /\ intent' = Append(intent, [k |-> k, declared |-> declared, items |-> <<>>])
       /\ UNCHANGED <<type, written>>

\* beer_object_container_close.  The caller closes the container it opened
\* last; in SIMPLE mode it keeps its promise of the declared count.  A map
\* frame with an odd count is refused (-1, nothing changes).
Close ==
    LET top  == stack[Len(stack)]
        n    == IF top.type = "map" THEN top.size \div 2 ELSE top.size
        mine == intent[Len(intent)]
        done == [k |-> mine.k, items |-> mine.items]
    IN /\ stack # <<>>
       /\ type = SIMPLE =>
            Len(mine.items) = IF mine.k = "map" THEN 2 * mine.declared ELSE mine.declared
       /\ ~(top.type = "map" /\ top.size % 2 = 1)
       /\ stack' = Front(stack)
       /\ buf' = CASE type = SIMPLE -> buf
                   [] type = SPARSE -> Overwrite(buf, top.offset, HeaderCells(KindOf(top.type), n, 5))
                   [] type = PACKED -> Repack(buf, top.offset, KindOf(top.type), n)
       /\ IF Len(intent) = 1
          THEN /\ intent' = <<>>
               /\ written' = Append(written, done)
          ELSE /\ intent' = [Front(intent) EXCEPT ![Len(intent) - 1].items = Append(@, done)]
               /\ UNCHANGED written
       /\ UNCHANGED <<stackAlloc, type, wrcnt>>

\* beer_object_reset: empty buffer and stack, SIMPLE, wrcnt 0; the stack
\* allocation is kept.
Reset ==
    /\ buf' = <<>>
    /\ stack' = <<>>
    /\ type' = SIMPLE
    /\ wrcnt' = 0
    /\ intent' = <<>>
    /\ written' = <<>>
    /\ UNCHANGED stackAlloc

Kinds == {"arr", "map"}

\* The count a caller declares: meaningful in SIMPLE mode only.
Declared == IF type = SIMPLE THEN 0 .. MaxCount ELSE {0}

Next ==
    \/ \E t \in Modes : SetType(t)
    \/ AddLeaf
    \/ \E k \in Kinds : OpenGrowFails(k)
    \/ \E k \in Kinds, d \in Declared : OpenContainer(k, d)
    \/ Close
    \/ Reset

Spec == Init /\ [][Next]_vars

-----------------------------------------------------------------------------
(* Properties *)

TypeOK ==
    /\ buf \in Seq(Cells)
    /\ stack \in Seq([offset : 0 .. MaxCells, size : Nat,
                      type : {"arr", "map", "nil"}])
    /\ stackAlloc \in StackInit .. StackLimit
    /\ type \in {SIMPLE, SPARSE, PACKED}
    /\ wrcnt \in 0 .. MaxCells
    /\ Len(intent) = Len(stack)

\* Whenever no container is open, the buffer decodes (mp_check) to exactly
\* the values the caller added, in order: every header placeholder written
\* by add_array/add_map was later overwritten (SPARSE) or re-sized and the
\* following bytes shifted (PACKED) with the count of that container.
EncodesIntent ==
    intent = <<>> => DecodeFrom(buf, 1) = [ok |-> TRUE, vals |-> written]

\* Every frame on the stack still points at the header of the container it
\* stands for and counts exactly the values the caller put in it, however
\* many inner containers were closed (and memmove'd) after it was opened;
\* an open inner container is already counted by the frame around it.
FramesTrackContainers ==
    \A i \in 1 .. Len(stack) :
        /\ stack[i].offset < Len(buf)
        /\ buf[stack[i].offset + 1].t = "hdr"
        /\ buf[stack[i].offset + 1].k = stack[i].type
        /\ stack[i].size = Len(intent[i].items) + (IF i < Len(stack) THEN 1 ELSE 0)

=============================================================================
