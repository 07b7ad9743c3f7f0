-------------------------------- MODULE BeerIo --------------------------------
(***************************************************************************)
(* The byte transport of a network stream, src/beer/beer_io.c: the send    *)
(* buffer (beer_io_send, beer_io_sendv, beer_io_flush over send_raw) and   *)
(* the receive buffer (beer_io_recv over recv_raw), with the iob reset of  *)
(* beer_close.                                                             *)
(*                                                                         *)
(* Bytes are numbers.  On the send side the caller's n-th byte is n; on    *)
(* the receive side the server's n-th byte is n, so a byte's value is its  *)
(* place in the stream and loss, duplication and reordering show.          *)
(*                                                                         *)
(* One beer_io_send(v) call is one step: the loop of send_raw (all = 1)    *)
(* either hands every byte to the kernel or, once the connection is gone,  *)
(* hands over some prefix and returns -1.  beer_io_recv is a loop whose    *)
(* recv_raw (all = 0) blocks for the server, so each turn of it is a step. *)
(***************************************************************************)
EXTENDS Integers, Sequences, SequencesExt

CONSTANTS
    SbufSizes,      \* the sbuf.size (opt send_buf) a stream may have; 0: none
    RbufSize,       \* rbuf.size (opt recv_buf), at least 1
    WriteSizes,     \* sizes of the caller's writes
    ReadSizes,      \* sizes of the caller's reads
    MaxSend,        \* bound on the bytes the caller writes
    StreamLen,      \* bytes the server sends
    LinkMayFail     \* whether the connection may break

ASSUME SbufSizes \subseteq Nat /\ RbufSize \in Nat \ {0} /\ StreamLen \in Nat
ASSUME WriteSizes \subseteq Nat \ {0} /\ ReadSizes \subseteq Nat \ {0}

VARIABLES
    ssize,      \* sbuf.size, fixed when the stream is set up
    link,       \* "up" or "down": send/recv on the socket succeed or fail
    sbuf,       \* sbuf.buf[0 .. sbuf.off-1]
    wire,       \* bytes the kernel accepted from send/writev
    nsent,      \* ghost: bytes the caller has passed to send/sendv so far
    accepted,   \* ghost: bytes of the calls that returned success, in order
    arrived,    \* bytes of the server's stream that reached the socket
    taken,      \* bytes recv() has taken off the socket
    rbuf,       \* [buf |-> rbuf.buf[0 .. rbuf.top-1], off |-> rbuf.off]
    rl,         \* the beer_io_recv call in progress (its locals)
    got,        \* ghost: each beer_io_recv call that returned: size asked, bytes
    asked,      \* ghost: bytes asked for by the beer_io_recv calls so far
    broken      \* ghost: a call returned -1 for a transport error

vars == <<ssize, link, sbuf, wire, nsent, accepted, arrived, taken, rbuf, rl, got, asked, broken>>

Idle == [pc |-> "idle", size |-> 0, left |-> 0, lv |-> 0, rv |-> 0, out |-> <<>>]

Bytes(from, n) == [i \in 1 .. n |-> from + i]

-----------------------------------------------------------------------------
(* The send side *)

\* Mutant of SendRawOutcomes: a short send() taken for the whole buffer.
SendRawOnce(bytes) ==
    IF link = "up" THEN {[ok |-> TRUE, sent |-> SubSeq(bytes, 1, k)] : k \in 1 .. Len(bytes)}
    ELSE {[ok |-> FALSE, sent |-> SubSeq(bytes, 1, k)] : k \in 0 .. Len(bytes) - 1}

\* beer_io_send_raw / beer_io_sendv_raw with all = 1: the loop over
\* send()/writev() (EINTR retried, a short write continued) ends with all
\* bytes sent, or, with the connection gone, a prefix sent and -1.
SendRawOutcomes(bytes) ==
    IF link = "up" THEN {[ok |-> TRUE, sent |-> bytes]}
    ELSE {[ok |-> FALSE, sent |-> SubSeq(bytes, 1, k)] : k \in 0 .. Len(bytes) - 1}

ErrOf(ok) == IF ok THEN "EOK" ELSE "ESYSTEM"

\* Mutant of FlushThenPut: the buffer is sent but sbuf.off is not reset.
FlushThenAppend(bytes) ==
    {[err |-> ErrOf(r.ok), sbuf |-> IF r.ok THEN sbuf \o bytes ELSE sbuf,
      wire |-> wire \o r.sent] : r \in SendRawOutcomes(sbuf)}

\* The bytes do not fit behind sbuf.off: send the buffer, and if that
\* worked reset sbuf.off and put the bytes at its start.
FlushThenPut(bytes) ==
    {[err |-> ErrOf(r.ok), sbuf |-> IF r.ok THEN bytes ELSE sbuf,
      wire |-> wire \o r.sent] : r \in SendRawOutcomes(sbuf)}

\* beer_io_send / beer_io_sendv: unbuffered, the bytes go straight out;
\* bigger than the buffer, EBIG; if they fit, sendv_put; otherwise
\* FlushThenPut.
Sendv(bytes) ==
    CASE ssize = 0 ->
            {[err |-> ErrOf(r.ok), sbuf |-> sbuf, wire |-> wire \o r.sent] :
                r \in SendRawOutcomes(bytes)}
      [] Len(bytes) > ssize ->
            {[err |-> "EBIG", sbuf |-> sbuf, wire |-> wire]}
      [] Len(sbuf) + Len(bytes) <= ssize ->
            {[err |-> "EOK", sbuf |-> sbuf \o bytes, wire |-> wire]}
      [] OTHER -> FlushThenPut(bytes)

\* beer_net_write / beer_net_writev: one call of n bytes.  A transport
\* failure breaks the stream; EBIG (nothing sent) does not.
Send(n) ==
    LET bytes == Bytes(nsent, n) IN
    /\ ~broken /\ rl.pc = "idle"
    /\ nsent + n <= MaxSend
    /\ nsent' = nsent + n
    /\ \E r \in Sendv(bytes) :
         /\ sbuf' = r.sbuf
         /\ wire' = r.wire
         /\ accepted' = IF r.err = "EOK" THEN accepted \o bytes ELSE accepted
         /\ broken' = (r.err = "ESYSTEM")
    /\ UNCHANGED <<ssize, link, arrived, taken, rbuf, rl, got, asked>>

\* beer_io_flush: nothing on an empty buffer; otherwise send it all and
\* reset sbuf.off, or -1 with sbuf.off left as it was.
Flush ==
    /\ ~broken /\ rl.pc = "idle"
    /\ sbuf # <<>>
    /\ \E r \in SendRawOutcomes(sbuf) :
         /\ wire' = wire \o r.sent
         /\ sbuf' = IF r.ok THEN <<>> ELSE sbuf
         /\ broken' = ~r.ok
    /\ UNCHANGED <<ssize, link, nsent, accepted, arrived, taken, rbuf, rl, got, asked>>

-----------------------------------------------------------------------------
(* The receive side: beer_io_recv *)

\* Mutant of Served: "rbuf.off + left < rbuf.top".
ServedStrict(off, left, top) == off + left < top

\* "(s->rbuf.off + left) <= s->rbuf.top": rbuf holds the rest of the request.
Served(off, left, top) == off + left <= top

\* Entry and each turn of "while (1)": the request is served from rbuf if
\* it holds enough; otherwise what rbuf holds is copied out, rbuf.off is
\* reset and recv_raw is next.
RecvCheck ==
    LET off == rbuf.off
        top == Len(rbuf.buf)
    IN /\ rl.pc = "check"
       /\ IF Served(off, rl.left, top)
          THEN /\ got' = Append(got, [n |-> rl.size, bytes |-> rl.out \o SubSeq(rbuf.buf, off + 1, off + rl.left)])
               /\ rbuf' = [rbuf EXCEPT !.off = off + rl.left]
               /\ rl' = Idle
          ELSE /\ rl' = [rl EXCEPT !.pc = "raw", !.lv = top - off,
                                   !.rv = rl.left - (top - off),
                                   !.out = @ \o SubSeq(rbuf.buf, off + 1, top)]
               /\ rbuf' = [rbuf EXCEPT !.off = 0]
               /\ UNCHANGED got
       /\ UNCHANGED <<ssize, link, sbuf, wire, nsent, accepted, arrived, taken, asked, broken>>

\* Mutant of NextLeft: "left -= lv" left out.
NextLeftKept(left, lv) == left

\* "left -= lv": what remains to be read after a turn that copied lv.
NextLeft(left, lv) == left - lv

\* Mutant of OffAfterRaw: "s->rbuf.off = rv" left out.
OffAfterRawZero(rv, k) == 0

\* rbuf.off after recv_raw filled k bytes: rv if the request ended in them.
OffAfterRaw(rv, k) == IF rv <= k THEN rv ELSE 0

\* recv_raw(rbuf.buf, rbuf.size, 0): blocks until the socket has bytes and
\* takes between one and rbuf.size of them (rbuf.top); if the remainder rv
\* of the request is among them it is copied out and rbuf.off = rv;
\* otherwise left -= lv and the loop goes round.  A closed or reset
\* socket gives -1 (rbuf.off is 0, rbuf.top keeps its old value).
RecvRaw ==
    /\ rl.pc = "raw"
    /\ \/ \E k \in 1 .. RbufSize :
            /\ taken + k <= arrived
            /\ taken' = taken + k
            /\ rbuf' = [buf |-> Bytes(taken, k), off |-> OffAfterRaw(rl.rv, k)]
            /\ IF rl.rv <= k
               THEN /\ got' = Append(got, [n |-> rl.size, bytes |-> rl.out \o Bytes(taken, rl.rv)])
                    /\ rl' = Idle
               ELSE /\ rl' = [rl EXCEPT !.pc = "check", !.left = NextLeft(rl.left, rl.lv)]
                    /\ UNCHANGED got
            /\ UNCHANGED broken
       \/ /\ link = "down" /\ taken = arrived
          /\ rl' = Idle
          /\ broken' = TRUE
          /\ UNCHANGED <<taken, rbuf, got>>
    /\ UNCHANGED <<ssize, link, sbuf, wire, nsent, accepted, arrived, asked>>

\* beer_net_read / the reply reader asks beer_io_recv for n bytes.
Recv(n) ==
    /\ ~broken /\ rl.pc = "idle"
    /\ asked + n <= StreamLen
    /\ asked' = asked + n
    /\ rl' = [Idle EXCEPT !.pc = "check", !.size = n, !.left = n]
    /\ UNCHANGED <<ssize, link, sbuf, wire, nsent, accepted, arrived, taken, rbuf, got, broken>>

-----------------------------------------------------------------------------
(* The rest of the world, and beer_close *)

\* The server's bytes reach the socket, in chunks.
ServerSend ==
    /\ link = "up" /\ arrived < StreamLen
    /\ \E a \in arrived + 1 .. StreamLen : arrived' = a
    /\ UNCHANGED <<ssize, link, sbuf, wire, nsent, accepted, taken, rbuf, rl, got, asked, broken>>

LinkFails ==
    /\ LinkMayFail /\ link = "up"
    /\ link' = "down"
    /\ UNCHANGED <<ssize, sbuf, wire, nsent, accepted, arrived, taken, rbuf, rl, got, asked, broken>>

\* beer_close (on a broken stream, as the caller must): beer_iob_clear on
\* both buffers, the socket closed.  The model ends the connection there.
Close ==
    /\ broken /\ rl.pc = "idle" /\ link = "down"
    /\ sbuf # <<>> \/ rbuf # [buf |-> <<>>, off |-> 0]
    /\ sbuf' = <<>>
    /\ rbuf' = [buf |-> <<>>, off |-> 0]
    /\ UNCHANGED <<ssize, link, wire, nsent, accepted, arrived, taken, rl, got, asked, broken>>

Init ==
    /\ ssize \in SbufSizes
    /\ link = "up"
    /\ sbuf = <<>> /\ wire = <<>> /\ nsent = 0 /\ accepted = <<>>
    /\ arrived = 0 /\ taken = 0
    /\ rbuf = [buf |-> <<>>, off |-> 0]
    /\ rl = Idle /\ got = <<>> /\ asked = 0
    /\ broken = FALSE

Next ==
    \/ \E n \in WriteSizes : Send(n)
    \/ Flush
    \/ \E n \in ReadSizes : Recv(n)
    \/ RecvCheck \/ RecvRaw
    \/ ServerSend \/ LinkFails \/ Close

Spec == Init /\ [][Next]_vars

-----------------------------------------------------------------------------
(* Properties *)

\* The bytes handed to the kernel, followed by what sbuf holds, are exactly
\* the bytes of the send/sendv calls that succeeded, in order: the
\* flush-on-full path of beer_io_sendv neither drops, repeats nor reorders
\* a request while the stream is healthy.
SendKeepsOrder ==
    ~broken => wire \o sbuf = accepted

\* The bytes the beer_io_recv calls returned, one after the other.
Returned == FlattenSeq([j \in 1 .. Len(got) |-> got[j].bytes])

\* Every beer_io_recv call returns exactly the number of bytes asked for,
\* and they are the server's next bytes: the rbuf bookkeeping (off, top,
\* lv, rv, left) over any chunking of the socket reads never loses,
\* repeats, reorders or over-reads a byte.
RecvReturnsStream ==
    /\ \A j \in 1 .. Len(got) : Len(got[j].bytes) = got[j].n
    /\ Returned = Bytes(0, Len(Returned))

\* A healthy stream whose last call was served holds in rbuf exactly the
\* bytes taken from the socket and not yet returned.
RbufHoldsUnread ==
    rl.pc = "idle" /\ ~broken =>
        Returned \o SubSeq(rbuf.buf, rbuf.off + 1, Len(rbuf.buf)) = Bytes(0, taken)

====
