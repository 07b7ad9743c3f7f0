------------------------------ MODULE BeerFormat ------------------------------
(***************************************************************************)
(* beer_request_set_key_format (beer_request.c) over its key object: the   *)
(* object is reset (or made by beer_object the first time), then           *)
(* beer_object_vformat walks the format and calls the object builder once  *)
(* per token, then beer_request_set_key keeps a pointer to the object's    *)
(* data and its length.  One loop iteration of beer_object_vformat is one  *)
(* step; the caller does nothing between them.                             *)
(*                                                                         *)
(* A format is a sequence of tokens: "[" "]" "{" "}", a value specifier    *)
(* ("%d" stands for the integer ones, "%s" for the others), "NIL", "%%"    *)
(* and "x" (any other character), both ignored.  The bytes are the cells   *)
(* of BeerObject.  Memory is what the failure paths touch: sb->alloc, the  *)
(* block sb->data points to (a number, 0 for NULL), and whether that block *)
(* was freed by beer_sbuf_object_resize on a failed realloc.              *)
(***************************************************************************)
EXTENDS Integers, Sequences, SequencesExt

CONSTANTS
    Formats,      \* the formats a caller passes
    FixMax,       \* largest count a 1-byte header holds (15 in msgpuck)
    StackInit,    \* initial frame-stack allocation (8)
    StackLimit,   \* allocation at which growing is refused (128)
    AllocMayFail, \* whether beer_mem_alloc / beer_mem_realloc may fail
    MaxCalls      \* bound on the caller's calls

VARIABLES
    buf, stack, stackAlloc, type, wrcnt,  \* the object, as in BeerObject
    cap,     \* sb->alloc
    blk,     \* the block sb->data points to (0: NULL)
    nextBlk, \* the number the next block gets
    freed,   \* sb->data was freed and not replaced
    obj,     \* req->key_object exists
    fmt,     \* the tokens vformat has still to read
    fpc,     \* "idle", or "run" while vformat is in its loop
    res,     \* vformat's result so far
    key,     \* req->key and key_end: [blk, len], or NoKey
    fmt0,    \* ghost: the format of the last call
    last,    \* ghost: [call, ret] of the last call that returned
    ub,      \* ghost: the undefined behaviour that ended the process
    calls

vars == <<buf, stack, stackAlloc, type, wrcnt, cap, blk, nextBlk, freed, obj,
          fmt, fpc, res, key, fmt0, last, ub, calls>>

O == INSTANCE BeerObject WITH Modes <- {"packed"}, MaxCount <- 0,
        MaxCells <- 0, intent <- <<>>, written <- <<>>

Openers == {"[", "{"}
Closers == {"]", "}"}
Values  == {"%d", "%s", "NIL"}
KindOfToken(t) == IF t \in {"{", "}"} THEN "map" ELSE "arr"

NoKey == [blk |-> -1, len |-> 0]

-----------------------------------------------------------------------------
(* The meaning of a format (beer_object.h): a reference definition. *)

RECURSIVE Parse(_, _)
\* The values of f from token i up to the first unmatched closer (or the
\* end), and the index of that closer.
Parse(f, i) ==
    IF i > Len(f) \/ f[i] \in Closers THEN [vals |-> <<>>, next |-> i]
    ELSE IF f[i] \in Openers
    THEN LET inner == Parse(f, i + 1)
             rest  == Parse(f, inner.next + 1)
         IN [vals |-> <<[k |-> KindOfToken(f[i]), items |-> inner.vals]>> \o rest.vals,
             next |-> rest.next]
    ELSE LET rest == Parse(f, i + 1)
         IN [vals |-> IF f[i] \in Values THEN <<O!LeafVal>> \o rest.vals ELSE rest.vals,
             next |-> rest.next]

FormatValue(f) == Parse(f, 1).vals

RECURSIVE Nest(_, _, _)
\* Tokens i.. close the containers open in st ([k, n] each) in order, with
\* an even number of items in every map.
Nest(f, i, st) ==
    LET bump == IF st = <<>> THEN st ELSE [st EXCEPT ![Len(st)].n = @ + 1] IN
    IF i > Len(f) THEN st = <<>>
    ELSE CASE f[i] \in Openers -> Nest(f, i + 1, Append(bump, [k |-> KindOfToken(f[i]), n |-> 0]))
           [] f[i] \in Closers -> /\ st # <<>>
                                  /\ st[Len(st)].k = KindOfToken(f[i])
                                  /\ st[Len(st)].k = "map" => st[Len(st)].n % 2 = 0
                                  /\ Nest(f, i + 1, Front(st))
           [] f[i] \in Values  -> Nest(f, i + 1, bump)
           [] OTHER            -> Nest(f, i + 1, st)

WellFormed(f) == Nest(f, 1, <<>>)

-----------------------------------------------------------------------------
(* Memory *)

Allocs == IF AllocMayFail THEN BOOLEAN ELSE {TRUE}

\* beer_sbuf_object_resize needs a realloc: sb->size + size > sb->alloc.
Grow(n) == Len(buf) + n > cap

\* The new allocation: twice the old one, or what is needed if more.
NewCap(n) == IF 2 * cap < Len(buf) + n THEN Len(buf) + n ELSE 2 * cap

(* beer_sbuf_object_resize(s, n): realloc when needed.  On success the     *)
(* block may move; on failure the block is freed (beer_mem_free, a no-op   *)
(* for NULL) but sb->data keeps pointing at it, and NULL is returned.      *)
(* Touching a freed block is undefined behaviour.  ok says whether the     *)
(* bytes may be written.                                                   *)
Resize(n, ok) ==
    CASE freed -> ub' = "use_after_free" /\ ~ok
                  /\ UNCHANGED <<cap, blk, nextBlk, freed>>
      [] ~Grow(n) -> ok /\ UNCHANGED <<cap, blk, nextBlk, freed, ub>>
      [] OTHER ->
           \E success \in Allocs, moved \in BOOLEAN :
             /\ ok = success
             /\ IF success
                THEN /\ cap' = NewCap(n)
                     /\ IF moved \/ blk = 0
                        THEN blk' = nextBlk /\ nextBlk' = nextBlk + 1
                        ELSE UNCHANGED <<blk, nextBlk>>
                     /\ UNCHANGED freed
                ELSE /\ freed' = (blk # 0)
                     /\ UNCHANGED <<cap, blk, nextBlk>>
             /\ UNCHANGED ub

-----------------------------------------------------------------------------
(* The loop of beer_object_vformat *)

Ret(c, r) == last' = [call |-> c, ret |-> r]

\* vformat returns -1; so does beer_request_set_key_format, before set_key.
Fail == fpc' = "idle" /\ fmt' = <<>> /\ Ret("set_key_format", -1)

\* The rest of the loop after a step that succeeded with rv.
Continue(rv) == fmt' = Tail(fmt) /\ res' = res + rv /\ UNCHANGED <<fpc, last>>

\* beer_buf_write of the cells cs after the builder has updated its frames
\* (st, in a stack of sa frames): resize, copy, size and wrcnt grow, the
\* length is returned.
Write(st, sa, cs) ==
    \E ok \in BOOLEAN :
        /\ Resize(Len(cs), ok)
        /\ stack' = st /\ stackAlloc' = sa
        /\ IF ok
           THEN /\ buf' = buf \o cs /\ wrcnt' = wrcnt + 1
                /\ Continue(Len(cs))
           ELSE /\ UNCHANGED <<buf, wrcnt, res>> /\ Fail
        /\ UNCHANGED type

\* A value specifier or NIL: beer_object_add_*, one leaf; "%%" and any
\* other character are skipped.
ValueStep ==
    LET t == Head(fmt) IN
    IF t \in Values THEN Write(O!BumpTop(stack), stackAlloc, <<O!Leaf>>)
    ELSE Continue(0) /\ UNCHANGED <<buf, stack, stackAlloc, type, wrcnt, cap,
                                    blk, nextBlk, freed, ub>>

(* "[" or "{": beer_object_add_array/map(s, 0): the enclosing frame counts *)
(* the container, the frame stack grows if full (a new calloc'ed array,    *)
(* the old frames not copied; -1 at the limit or if the allocation fails), *)
(* a frame is pushed at sb->size, a 1-byte header with count 0 written.    *)
OpenStep ==
    LET k    == KindOfToken(Head(fmt))
        full == Len(stack) = stackAlloc
        base == O!BumpTop(stack)
    IN \E grown \in IF full /\ stackAlloc < StackLimit THEN Allocs ELSE {~full} :
         IF full /\ ~grown
         THEN /\ stack' = base /\ Fail
              /\ UNCHANGED <<buf, stackAlloc, type, wrcnt, cap, blk, nextBlk, freed, res, ub>>
         ELSE Write(Append(IF full THEN O!GrowStack(base) ELSE base,
                           [offset |-> Len(buf), size |-> 0, type |-> k]),
                    IF full THEN 2 * stackAlloc ELSE stackAlloc,
                    O!HeaderCells(k, 0, 1))

\* A close that counts a map's items instead of its pairs.
CloseCountItems(top) == top.size

\* The count container_close writes for a frame: pairs for a map.
CloseCount(top) == IF top.type = "map" THEN top.size \div 2 ELSE top.size

(* "]" or "}": beer_object_container_close, PACKED: -1 with no frame or a  *)
(* map frame with an odd count; otherwise the frame is popped, and a count *)
(* that needs a wider header resizes by sz-1 (-1 if that fails), shifts    *)
(* the bytes after the placeholder and writes the header.  The closer's    *)
(* kind is not compared with the frame's.                                  *)
CloseStep ==
    LET top == stack[Len(stack)]
        n   == CloseCount(top)
        sz  == O!MinWidth(n)
    IN IF stack = <<>> \/ (top.type = "map" /\ top.size % 2 = 1)
       THEN /\ Fail
            /\ UNCHANGED <<buf, stack, stackAlloc, type, wrcnt, cap, blk, nextBlk, freed, res, ub>>
       ELSE \E ok \in BOOLEAN :
              /\ stack' = Front(stack)
              /\ IF sz > 1 THEN Resize(sz - 1, ok)
                 ELSE /\ ok = ~freed
                      /\ ub' = IF freed THEN "use_after_free" ELSE ub
                      /\ UNCHANGED <<cap, blk, nextBlk, freed>>
              /\ IF ok
                 THEN buf' = O!Repack(buf, top.offset, O!KindOf(top.type), n) /\ Continue(0)
                 ELSE UNCHANGED <<buf, res>> /\ Fail
              /\ UNCHANGED <<stackAlloc, type, wrcnt>>

\* One iteration of the loop, while no undefined behaviour has happened.
FormatStep ==
    /\ fpc = "run" /\ fmt # <<>> /\ ub = "none"
    /\ \/ Head(fmt) \in Openers /\ OpenStep
       \/ Head(fmt) \in Closers /\ CloseStep
       \/ Head(fmt) \notin Openers \cup Closers /\ ValueStep
    /\ UNCHANGED <<obj, key, fmt0, calls>>

\* The end of the format: vformat returns res, and set_key points req->key
\* at sb->data for sb->size bytes.
FormatEnd ==
    /\ fpc = "run" /\ fmt = <<>>
    /\ fpc' = "idle"
    /\ key' = [blk |-> blk, len |-> Len(buf)]
    /\ Ret("set_key_format", 0)
    /\ UNCHANGED <<buf, stack, stackAlloc, type, wrcnt, cap, blk, nextBlk,
                   freed, obj, fmt, res, fmt0, ub, calls>>

-----------------------------------------------------------------------------
(* The caller *)

Call == /\ fpc = "idle" /\ ub = "none" /\ obj # "gone" /\ calls < MaxCalls
        /\ calls' = calls + 1

(* What beer_object(NULL) meets: every allocation succeeds; beer_buf      *)
(* fails (and frees what it made); the beer_sbuf_object allocation fails,  *)
(* after sb->free was set, so beer_stream_free runs beer_sbuf_object_free  *)
(* on sb->subdata, still NULL; or the frame-stack allocation fails and the *)
(* object is freed.  Each failure returns NULL.                            *)
Creations == IF AllocMayFail THEN {"ok", "buf", "sbo", "stack"} ELSE {"ok"}

(* beer_request_set_key_format(req, f): beer_object_reset of the key       *)
(* object (size, stack and wrcnt to 0; sb->data and sb->alloc kept), or    *)
(* beer_object(NULL), -1 if it returns NULL; then vformat sets the type to *)
(* PACKED (wrcnt is 0) and enters its loop.                                *)
SetKeyFormat(f) ==
    /\ Call
    /\ \E made \in IF obj = "yes" THEN {"ok"} ELSE Creations :
         IF made # "ok"
         THEN /\ Ret("set_key_format", -1)
              /\ ub' = IF made = "sbo" THEN "null_deref" ELSE ub
              /\ UNCHANGED <<buf, stack, stackAlloc, type, wrcnt, cap, blk,
                             nextBlk, freed, obj, fmt, fpc, res, fmt0>>
         ELSE /\ UNCHANGED ub
              /\ obj' = "yes"
              /\ buf' = <<>> /\ stack' = <<>> /\ wrcnt' = 0
              /\ IF obj = "yes"
                 THEN UNCHANGED <<stackAlloc, cap, blk, freed>>
                 ELSE stackAlloc' = StackInit /\ cap' = 0 /\ blk' = 0 /\ freed' = FALSE
              /\ type' = "packed"
              /\ fmt' = f /\ fmt0' = f /\ fpc' = "run" /\ res' = 0
              /\ UNCHANGED <<nextBlk, last>>
    /\ UNCHANGED key

(* beer_request_free: beer_stream_free of the key object: beer_buf_free    *)
(* frees sb->data if not NULL (again, if the resize freed it), then the   *)
(* frame stack and the object.                                             *)
RequestFree ==
    /\ Call
    /\ obj' = "gone"
    /\ ub' = IF obj = "yes" /\ freed THEN "double_free" ELSE ub
    /\ Ret("free", 0)
    /\ UNCHANGED <<buf, stack, stackAlloc, type, wrcnt, cap, blk, nextBlk,
                   freed, fmt, fpc, res, key, fmt0>>

Init ==
    /\ buf = <<>> /\ stack = <<>> /\ stackAlloc = StackInit
    /\ type = "simple" /\ wrcnt = 0
    /\ cap = 0 /\ blk = 0 /\ nextBlk = 1 /\ freed = FALSE /\ obj = "no"
    /\ fmt = <<>> /\ fpc = "idle" /\ res = 0 /\ key = NoKey
    /\ fmt0 = <<>> /\ last = [call |-> "none", ret |-> 0]
    /\ ub = "none" /\ calls = 0

Next ==
    \/ \E f \in Formats : SetKeyFormat(f)
    \/ FormatStep
    \/ FormatEnd
    \/ RequestFree

Spec == Init /\ [][Next]_vars

-----------------------------------------------------------------------------
(* Properties *)

TypeOK ==
    /\ stack \in Seq([offset : Nat, size : Nat, type : {"arr", "map", "nil"}])
    /\ Len(stack) <= stackAlloc /\ stackAlloc \in StackInit .. StackLimit
    /\ cap >= Len(buf) \/ freed
    /\ fpc \in {"idle", "run"} /\ obj \in {"no", "yes", "gone"}

(* When beer_request_set_key_format returns 0 for a format whose brackets  *)
(* pair up (maps with whole pairs), the key object holds exactly the       *)
(* msgpack values the format describes: every PACKED header was re-sized   *)
(* and the bytes after it shifted, at every depth, on a reused object too. *)
FormatBuildsValue ==
    (fpc = "idle" /\ last = [call |-> "set_key_format", ret |-> 0] /\ WellFormed(fmt0))
        => O!DecodeFrom(buf, 1) = [ok |-> TRUE, vals |-> FormatValue(fmt0)]

(* req->key and key_end, once set, delimit the key object's current bytes: *)
(* the block sb->data points to, not freed, and sb->size long.  A request  *)
(* encodes the key from them.                                              *)
KeyIsCurrent ==
    (fpc = "idle" /\ key # NoKey) => key = [blk |-> blk, len |-> Len(buf)] /\ ~freed

\* No sequence of calls makes the library touch freed memory or free a
\* block twice.
NoUndefinedBehaviour == ub = "none"

====
