------------------------------ MODULE BeerUpdate ------------------------------
(***************************************************************************)
(* The update-operation builder of src/beer/beer_update.c: an object       *)
(* stream in SPARSE mode holding one array whose elements are update       *)
(* operations.  beer_update_container opens it, each beer_update_* call    *)
(* appends one operation with one writev, beer_update_container_close      *)
(* sets the array's count from the stream's wrcnt and patches the header,  *)
(* and beer_update_container_reset starts it again.                        *)
(*                                                                         *)
(* An operation is abstracted to its op character, the element count its   *)
(* array header announces, and the number of argument values that follow  *)
(* the op and field number.                                                *)
(***************************************************************************)
EXTENDS Integers, Sequences

CONSTANTS
    Chars,          \* op characters a caller may pass to bit and arith
    Vals,           \* value objects insert and assign are given
    MaxOps,         \* bound on the update calls
    AllocMayFail,   \* whether allocation and the stream's resize may fail
    Reclose         \* whether the caller may add to and close a closed container

VARIABLES
    ops,        \* the ops stream: "none", "live", "invalid" (a write failed), "gone"
    hdr,        \* the count in the array32 header at offset 0
    body,       \* the operations after the header
    wrcnt,      \* ops->wrcnt
    top,        \* stack[0].size
    ssize,      \* stack_size
    calls       \* update calls made

vars == <<ops, hdr, body, wrcnt, top, ssize, calls>>

Allocs == IF AllocMayFail THEN BOOLEAN ELSE {TRUE}

Init ==
    /\ ops = "none" /\ hdr = 0 /\ body = <<>>
    /\ wrcnt = 0 /\ top = 0 /\ ssize = 0 /\ calls = 0

-----------------------------------------------------------------------------

\* Mutant of UpdateOpLen: the splice taken for a 3-element operation.
UpdateOpLenFlat(op) ==
    IF op \in {"+", "-", "&", "^", "|", "#", "!", "="} \cup {":"} THEN 3 ELSE -1

\* beer_update_op_len: the element count of an operation's array.
UpdateOpLen(op) ==
    CASE op \in {"+", "-", "&", "^", "|", "#", "!", "="} -> 3
      [] op = ":"                                     -> 5
      [] OTHER                                        -> -1

\* The array header SPARSE mode writes for add_array(ops, 0) (array32 of
\* 0), after a fresh beer_object or beer_object_reset.  The write may fail
\* in the stream's resize, which frees the data.
OpenArray ==
    \E ok \in Allocs :
      IF ok
      THEN /\ ops' = "live" /\ hdr' = 0 /\ body' = <<>>
           /\ wrcnt' = 1 /\ top' = 0 /\ ssize' = 1
      ELSE /\ ops' = "gone"
           /\ UNCHANGED <<hdr, body, wrcnt, top, ssize>>

\* beer_update_container: beer_object(NULL) (NULL if it fails), SPARSE,
\* add_array(ops, 0); if that fails the stream is freed and NULL returned.
UpdateContainer ==
    /\ ops = "none"
    /\ \E ok \in Allocs :
         IF ok THEN OpenArray
         ELSE UNCHANGED <<ops, hdr, body, wrcnt, top, ssize>>
    /\ UNCHANGED calls

\* beer_update_op: one writev of the op's array header, op and field
\* number, and the opdata of args values.  The resize may fail: -1, and
\* the stream's data is freed.
UpdateOp(op, args) ==
    \E ok \in Allocs :
      IF ok
      THEN /\ body' = Append(body, [op |-> op, n |-> UpdateOpLen(op), args |-> args])
           /\ wrcnt' = wrcnt + 1
           /\ UNCHANGED ops
      ELSE /\ ops' = "invalid"
           /\ UNCHANGED <<body, wrcnt>>

\* The public builders: bit (&, ^, |), arith_int/float/double (+, -), each
\* refusing another op character; delete; insert and assign, refusing a
\* value that fails beer_object_verify(val, -1); splice, whose argument
\* buffer is allocated (-1 if that fails) and freed after the write.
UpdateCall ==
    /\ ops = "live" /\ calls < MaxOps
    /\ ssize = 1 \/ Reclose
    /\ \/ \E c \in Chars :
            IF c \in {"&", "^", "|"} THEN UpdateOp(c, 1) ELSE UNCHANGED <<ops, body, wrcnt>>
       \/ \E c \in Chars :
            IF c \in {"+", "-"} THEN UpdateOp(c, 1) ELSE UNCHANGED <<ops, body, wrcnt>>
       \/ UpdateOp("#", 1)
       \/ \E c \in {"!", "="}, v \in Vals :
            IF v = "arr" THEN UpdateOp(c, 1) ELSE UNCHANGED <<ops, body, wrcnt>>
       \/ \E ok \in Allocs :
            IF ok THEN UpdateOp(":", 3) ELSE UNCHANGED <<ops, body, wrcnt>>
    /\ calls' = calls + 1
    /\ UNCHANGED <<hdr, top, ssize>>

\* Mutant of CountFromWrcnt: the header's own write counted as an op.
CountFromWrcntAll(w) == w

\* "opob->stack->size = ops->wrcnt - 1".
CountFromWrcnt(w) == w - 1

\* beer_update_container_close: stack[0].size from wrcnt, then
\* beer_object_container_close, whose -1 (no open container) is dropped:
\* the call returns 0.  In SPARSE mode the close patches the array32 count.
UpdateContainerClose ==
    /\ ops = "live"
    /\ ssize = 1 \/ Reclose
    /\ top' = CountFromWrcnt(wrcnt)
    /\ IF ssize > 0
       THEN hdr' = top' /\ ssize' = 0
       ELSE UNCHANGED <<hdr, ssize>>
    /\ UNCHANGED <<ops, body, wrcnt, calls>>

\* beer_update_container_reset: beer_object_reset (wrcnt, size and stack
\* to 0), SPARSE, add_array(ops, 0); if that fails the stream is freed
\* and -1 returned.
UpdateContainerReset ==
    /\ ops = "live" /\ calls < MaxOps
    /\ OpenArray
    /\ calls' = calls + 1

\* beer_stream_free on the ops stream.
UpdateFree ==
    /\ ops \in {"live", "invalid"}
    /\ ops' = "gone"
    /\ UNCHANGED <<hdr, body, wrcnt, top, ssize, calls>>

Next ==
    \/ UpdateContainer \/ UpdateCall \/ UpdateContainerClose
    \/ UpdateContainerReset \/ UpdateFree

Spec == Init /\ [][Next]_vars

-----------------------------------------------------------------------------
(* Properties *)

\* A closed container is one well-formed msgpack array of operations: its
\* header counts exactly the operations written since it was opened or
\* reset (not the header's own write, not the calls that failed), and each
\* operation's array counts its op, field number and arguments.
ClosedOpsWellFormed ==
    ops = "live" /\ ssize = 0 =>
        /\ hdr = Len(body)
        /\ \A i \in 1 .. Len(body) : body[i].n = 2 + body[i].args

====
