------------------------------- MODULE BeerLog -------------------------------
(***************************************************************************)
(* The xlog/snapshot reader of src/beerrpl/beer_log.c: one beer_log_next   *)
(* call per step, over a file opened by beer_log_open.                     *)
(*                                                                         *)
(* The binary part of the file (after the text header, where beer_log_open *)
(* leaves l->offset) is a sequence of cells.  A cell is one byte of the    *)
(* file, abstracted to what the reader tells apart:                        *)
(*   m0..m3   the four bytes of the row marker 0xba0babed                  *)
(*   e0..e3   the four bytes of the EOF marker 0x10adab1e                  *)
(*   hdr(i)   the first byte of the header of record i, hp the others;     *)
(*            crc32c over a header read is right exactly when the cells    *)
(*            read are record i's intact header                            *)
(*   d(i)     a payload byte of record i; the data crc is right exactly    *)
(*            when the cells read are record i's intact payload            *)
(*   x        a byte that is none of these (garbage or a corrupted byte).  *)
(* The header is HdrW cells wide (sizeof(struct beer_log_header_v11) is    *)
(* 28); a record's payload is its len cells, at least one: it starts with *)
(* the row header that beer_log_process_xlog/_snapshot copy out.          *)
(*                                                                         *)
(* A file is a well-formed encoding of the records recs followed by the    *)
(* EOF marker, then damaged by at most one fault chosen in Init: none, a   *)
(* garbage byte between records ("gap"), one byte replaced ("corrupt"),    *)
(* the file cut short ("truncate"), or one record whose payload does not   *)
(* decode ("badpayload": beer_request / beer_tuple_set_as refuse it).      *)
(***************************************************************************)
EXTENDS Integers, Sequences, SequencesExt

CONSTANTS
    NRecs,          \* records written to the file
    Lens,           \* payload lengths (in cells) a record may have
    HdrW,           \* cells of a record header
    Faults,         \* the faults a file may carry
    AllocMayFail    \* whether beer_mem_alloc of the payload may fail

ASSUME NRecs \in Nat /\ Lens \subseteq Nat \ {0} /\ HdrW \in Nat \ {0}
ASSUME Faults \subseteq {"none", "gap", "corrupt", "truncate", "badpayload"}

Byte(b)     == [k |-> b, id |-> 0]
MarkerCells == <<Byte("m0"), Byte("m1"), Byte("m2"), Byte("m3")>>
EofCells    == <<Byte("e0"), Byte("e1"), Byte("e2"), Byte("e3")>>
X           == Byte("x")
HdrCell(i)  == [k |-> "hdr", id |-> i]
DataCell(i) == [k |-> "d", id |-> i]

\* A record as written: payload length and whether its payload decodes.
Rec == [len : Lens, ok : BOOLEAN]

HeaderOf(i)      == <<HdrCell(i)>> \o [j \in 1..HdrW-1 |-> Byte("hp")]
PayloadOf(rs, i) == [j \in 1..rs[i].len |-> DataCell(i)]
RowOf(rs, i)     == MarkerCells \o HeaderOf(i) \o PayloadOf(rs, i)

\* The rows of records 1..n, back to back.
RECURSIVE RowsUpTo(_, _)
RowsUpTo(rs, n) == IF n = 0 THEN <<>> ELSE RowsUpTo(rs, n-1) \o RowOf(rs, n)

Intact(rs) == RowsUpTo(rs, Len(rs)) \o EofCells

\* The positions where one row ends and the next (or the EOF marker) starts.
Boundaries(rs) == {Len(RowsUpTo(rs, n)) : n \in 0..Len(rs)}

\* The files a fault turns an intact encoding into.
Damaged(rs, f) ==
    LET s == Intact(rs) IN
    CASE f = "none"       -> {s}
      [] f = "gap"        -> {InsertAt(s, p+1, X) : p \in Boundaries(rs)}
      [] f = "corrupt"    -> {[s EXCEPT ![p] = X] : p \in 1..Len(s)}
      [] f = "truncate"   -> {SubSeq(s, 1, p) : p \in 0..Len(s)-1}
      [] f = "badpayload" -> {s}

RecsFor(f) ==
    IF f = "badpayload"
    THEN {rs \in [1..NRecs -> Rec] : \E i \in 1..NRecs : ~rs[i].ok}
    ELSE [1..NRecs -> [len : Lens, ok : {TRUE}]]

VARIABLES
    file,       \* the binary part of the file
    pos,        \* ftello(l->fd), in cells after the text header
    offset,     \* l->offset
    error,      \* l->error
    status,     \* what the last beer_log_next told its caller
    out,        \* ghost: the records beer_log_next returned, in order
    recs,       \* ghost: the records written to the file
    fault       \* ghost: the fault the file carries

vars == <<file, pos, offset, error, status, out, recs, fault>>

-----------------------------------------------------------------------------
(* beer_log_read and the helpers it returns through.  Each yields the      *)
(* outcome of one call as a record: rc is "row", "eof" (1) or "err" (-1).  *)

\* fread(n cells) at p: the cells, or FALSE with the file position at the
\* end of the file (a short fread consumes what it read).  fread(ptr, 0, 1,
\* fd) returns 0, so a read of no cells fails where it stands.
Fread(f, p, n) ==
    CASE n = 0           -> [ok |-> FALSE, cells |-> <<>>, pos |-> p]
      [] p + n <= Len(f) -> [ok |-> TRUE, cells |-> SubSeq(f, p+1, p+n), pos |-> p+n]
      [] OTHER           -> [ok |-> FALSE, cells |-> <<>>, pos |-> Len(f)]

\* beer_log_eof: only when the position is exactly l->offset + 4 are the
\* four bytes at l->offset read back and checked to be the EOF marker;
\* otherwise the call reports end of file.
BeerLogEof(f, p, off) ==
    IF p = off + 4
    THEN IF SubSeq(f, off+1, off+4) = EofCells
         THEN [rc |-> "eof", err |-> "EOK", pos |-> off+4, offset |-> off+4, id |-> 0]
         ELSE [rc |-> "err", err |-> "ECORRUPT", pos |-> off+4, offset |-> off, id |-> 0]
    ELSE [rc |-> "eof", err |-> "EOK", pos |-> p, offset |-> off, id |-> 0]

\* One turn of the resync loop: the byte read is shifted in at the top of
\* the marker word, so the word holds the last four bytes in file order.
ShiftBackwards(w, c) == <<c>> \o SubSeq(w, 1, 3)
ShiftIn(w, c) == Tail(w) \o <<c>>

\* The marker search: from word w with the file position at q, the
\* position just after the first row marker, or -1 when fgetc hits EOF.
RECURSIVE SeekMarker(_, _, _)
SeekMarker(f, q, w) ==
    IF w = MarkerCells THEN q
    ELSE IF q = Len(f) THEN -1
    ELSE SeekMarker(f, q+1, ShiftIn(w, f[q+1]))

\* The data crc check: crc32c over the payload read equals the header's
\* crc32_data exactly when the payload is the one written for record i.
DataCrcSkipped(rs, i, cells) == TRUE
DataCrcOk(rs, i, cells) == cells = PayloadOf(rs, i)

\* l->process: beer_log_process_xlog decodes the payload with beer_request,
\* beer_log_process_snapshot with beer_tuple_set_as; either refuses a
\* payload that does not decode.
Process(rs, i) == rs[i].ok

Row(p, off, e, i, d) ==
    [rc |-> "row", err |-> e, pos |-> p, offset |-> off, id |-> i, data |-> d]
Err(e, p, off)    == [rc |-> "err", err |-> e, pos |-> p, offset |-> off, id |-> 0]

\* beer_log_read followed by l->process (beer_log_next_to): alloc says
\* whether beer_mem_alloc of the payload succeeds.
BeerLogRead(f, rs, p, off, e, alloc) ==
    LET mk == Fread(f, p, 4)
        q  == IF mk.ok THEN SeekMarker(f, mk.pos, mk.cells) ELSE -1
        hd == Fread(f, q, HdrW)
        h  == hd.pos                     \* l->offset after the header
        i  == IF hd.ok /\ hd.cells[1] \in {HdrCell(j) : j \in DOMAIN rs}
              THEN hd.cells[1].id ELSE 0
        pl == Fread(f, h, IF i = 0 THEN 0 ELSE rs[i].len)
    IN  CASE ~mk.ok                       -> BeerLogEof(f, mk.pos, off)
          [] q = -1                       -> BeerLogEof(f, Len(f), off)
          [] ~hd.ok                       -> BeerLogEof(f, hd.pos, off)
          [] i = 0 \/ hd.cells # HeaderOf(i) -> Err("ECORRUPT", h, h)
          [] ~alloc                       -> Err("EMEMORY", h, h)
          [] ~pl.ok                       -> BeerLogEof(f, pl.pos, h)
          [] ~DataCrcOk(rs, i, pl.cells)  -> Err("ECORRUPT", pl.pos, h)
          [] ~Process(rs, i)              -> Err("ECORRUPT", pl.pos, h)
          [] OTHER                        -> Row(pl.pos, h, e, i, pl.cells)

AllocOutcomes == IF AllocMayFail THEN BOOLEAN ELSE {TRUE}

-----------------------------------------------------------------------------
\* A log just opened by beer_log_open: the position and l->offset are at
\* the end of the text header, the error is EOK.
Init ==
    /\ fault \in Faults
    /\ recs \in RecsFor(fault)
    /\ file \in Damaged(recs, fault)
    /\ pos = 0
    /\ offset = 0
    /\ error = "EOK"
    /\ status = "reading"
    /\ out = <<>>

\* beer_log_next, and what beer_xlog_request makes of it: a row, end of
\* file (NULL with error EOK) or an error (NULL otherwise).  The caller
\* stops at the first NULL.
BeerLogNext ==
    /\ status = "reading"
    /\ \E alloc \in AllocOutcomes :
        LET r == BeerLogRead(file, recs, pos, offset, error, alloc) IN
        /\ pos' = r.pos
        /\ offset' = r.offset
        /\ error' = IF r.rc = "err" THEN r.err ELSE error
        /\ status' = IF r.rc = "row" THEN "reading"
                     ELSE IF r.rc = "eof" /\ error' = "EOK" THEN "eof" ELSE "err"
        /\ out' = IF r.rc = "row" THEN Append(out, [id |-> r.id, data |-> r.data]) ELSE out
    /\ UNCHANGED <<file, recs, fault>>

Next == BeerLogNext

Spec == Init /\ [][Next]_vars

-----------------------------------------------------------------------------
\* The records returned, by number.
OutIds == [j \in 1..Len(out) |-> out[j].id]

\* The reader never hands out a record that was not written intact, twice
\* or out of order: whatever the damage, the rows beer_log_next returned
\* are written records, in strictly increasing order, each with exactly the
\* payload written for it, and each one that decodes.
\* (The marker resync of beer_log_read and the two crc checks are what
\* keep a damaged file from producing a wrong row.)
ReturnsOnlyWritten ==
    /\ \A j \in 1..Len(out) - 1 : out[j].id < out[j+1].id
    /\ \A j \in 1..Len(out) :
        recs[out[j].id].ok /\ out[j].data = PayloadOf(recs, out[j].id)

\* An intact file, or one with garbage between rows, is read in full: unless
\* an allocation fails, the caller sees every record in order and then end
\* of file with error EOK.  (The resync loop of beer_log_read skips the
\* garbage; beer_log_eof must accept the EOF marker at the end.)
ReadsAllRows ==
    status # "reading" /\ fault \in {"none", "gap"} /\ error # "EMEMORY"
        => OutIds = [j \in 1..NRecs |-> j] /\ status = "eof"

\* The reader says "end of file" (NULL with error EOK) only for a file
\* that was read in full and ends with the EOF marker: spec section 4.6
\* has beer_log_eof check the EOF marker where the last row ends and report
\* corruption otherwise.
CleanEndMeansComplete ==
    status = "eof" =>
        /\ OutIds = [j \in 1..NRecs |-> j]
        /\ Len(file) >= 4 /\ SubSeq(file, Len(file)-3, Len(file)) = EofCells

=============================================================================
