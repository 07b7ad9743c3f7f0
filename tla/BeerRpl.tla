--------------------------------- MODULE BeerRpl ---------------------------------
(***************************************************************************)
(* The replication client of src/beerrpl/beer_rpl.c over the byte          *)
(* transport of BeerIo: beer_rpl, beer_rpl_attach, beer_rpl_open (beer_init,*)
(* beer_connect with its greeting read, the start lsn sent raw, the        *)
(* version read raw), beer_rpl_request (row header, row, body through      *)
(* beer_io_recv), beer_rpl_close and beer_rpl_free.                        *)
(*                                                                         *)
(* The server's stream is laid out as the greeting (G bytes), the version  *)
(* (V bytes) and then rows: a header of H bytes whose len field counts the *)
(* row header and the body, a row header of R bytes and a body of          *)
(* Bodies[i] bytes.  The server is request driven: after the greeting it   *)
(* sends nothing until the whole lsn has reached it.  The caller attaches  *)
(* a net stream without credentials, so beer_connect does not              *)
(* authenticate.                                                           *)
(***************************************************************************)
EXTENDS BeerIo

CONSTANTS
    G,          \* BEER_GREETING_SIZE
    V,          \* sizeof(version)
    L,          \* sizeof(lsn)
    H,          \* sizeof(sr->hdr)
    R,          \* sizeof(struct beer_log_row_v11)
    Bodies,     \* the body length of each row the server sends
    Versions,   \* versions the server may speak
    RplAllocMayFail  \* whether beer_mem_alloc / beer_schema_new may fail

RplVersion == 11   \* beer_rpl_version

\* The bytes of the rows whose body lengths are bs.
RowsBytes(bs) == FoldLeft(LAMBDA acc, b : acc + H + R + b, 0, bs)

ASSUME StreamLen = G + V + RowsBytes(Bodies)

VARIABLES
    rpc,        \* where the replication stream is
    sver,       \* the version the server speaks
    netOpen,    \* the net stream's socket is open (sn->fd >= 0)
    rlen,       \* hdr_iproto.len of the row being read
    row,        \* ghost: the header and row bytes of the row being read
    rows,       \* ghost: the rows beer_rpl_request returned
    rub         \* ghost: undefined behaviour performed

rplVars == <<rpc, sver, netOpen, rlen, row, rows, rub>>
ioVars == vars
allVars == <<ioVars, rplVars>>

-----------------------------------------------------------------------------
(* The server's stream *)

\* The byte after which row i starts.
RowStart(i) == G + V + RowsBytes(SubSeq(Bodies, 1, i - 1))

\* hdr.len of the header whose first byte is p: the row's R + body bytes;
\* bytes that are not a row header decode to any 32-bit value (here any
\* length up to the stream's).
HdrLens(p) ==
    IF \E i \in 1 .. Len(Bodies) : RowStart(i) + 1 = p
    THEN {R + Bodies[CHOOSE i \in 1 .. Len(Bodies) : RowStart(i) + 1 = p]}
    ELSE 0 .. StreamLen

\* Bytes arrive once the connection is up: the greeting at once, the rest
\* only after the whole lsn has been sent.
RplServerSend ==
    /\ link = "up" /\ netOpen
    /\ LET lim == IF Len(wire) >= L THEN StreamLen ELSE G
       IN /\ arrived < lim
          /\ \E a \in arrived + 1 .. lim : arrived' = a
    /\ UNCHANGED <<ssize, link, sbuf, wire, nsent, accepted, taken, rbuf, rl, got, asked, broken>>
    /\ UNCHANGED rplVars

-----------------------------------------------------------------------------
(* The replication stream *)

RplInit ==
    /\ rpc = "none" /\ sver \in Versions /\ netOpen = FALSE
    /\ rlen = 0 /\ row = <<>> /\ rows = <<>> /\ rub = FALSE

RplAllocs == IF RplAllocMayFail THEN BOOLEAN ELSE {TRUE}

\* beer_rpl(NULL): the stream and its data are allocated (NULL if either
\* fails, the stream freed again); beer_rpl_attach(s, net) follows.
RplNew ==
    /\ rpc = "none"
    /\ \E ok \in RplAllocs : rpc' = IF ok THEN "attached" ELSE "gone"
    /\ UNCHANGED <<ioVars, sver, netOpen, rlen, row, rows, rub>>

\* beer_rpl_open up to the greeting: beer_init(net) (schema, sbuf and rbuf
\* allocated; -1 if one fails), then beer_connect: beer_io_connect (-1 if
\* it fails) and s->read of the greeting, i.e. beer_io_recv of G bytes.
RplOpen ==
    /\ rpc = "attached"
    /\ \E initOk, connOk \in RplAllocs :
         IF initOk /\ connOk
         THEN /\ netOpen' = TRUE
              /\ Recv(G)
              /\ rpc' = "greeting"
         ELSE /\ rpc' = "failed"
              /\ UNCHANGED <<ioVars, netOpen>>
    /\ UNCHANGED <<sver, rlen, row, rows, rub>>

\* The greeting read returned: -1 fails beer_connect and the open; else
\* beer_io_send_raw(lsn, 8, all = 1), bypassing sbuf.
RplSendLsn ==
    LET bytes == Bytes(nsent, L) IN
    /\ rpc = "greeting" /\ rl.pc = "idle"
    /\ IF broken
       THEN rpc' = "failed" /\ UNCHANGED <<sbuf, wire, nsent, accepted, broken>>
       ELSE \E r \in SendRawOutcomes(bytes) :
              /\ wire' = wire \o r.sent
              /\ nsent' = nsent + L
              /\ accepted' = IF r.ok THEN accepted \o bytes ELSE accepted
              /\ broken' = ~r.ok
              /\ rpc' = IF r.ok THEN "version" ELSE "failed"
              /\ UNCHANGED sbuf
    /\ UNCHANGED <<ssize, link, arrived, taken, rbuf, rl, got, asked>>
    /\ UNCHANGED <<sver, netOpen, rlen, row, rows, rub>>

\* beer_io_recv_raw(version, 4, all = 1) straight from the socket, past
\* rbuf: it blocks until V bytes are there, or fails once the connection
\* is gone; then the version is compared with beer_rpl_version.
RplRecvVersion ==
    /\ rpc = "version"
    /\ \/ /\ taken + V <= arrived
          /\ taken' = taken + V
          /\ got' = Append(got, [n |-> V, bytes |-> Bytes(taken, V)])
          /\ asked' = asked + V
          /\ rpc' = IF sver = RplVersion THEN "ready" ELSE "failed"
          /\ UNCHANGED broken
       \/ /\ link = "down" /\ taken + V > arrived
          /\ broken' = TRUE
          /\ rpc' = "failed"
          /\ UNCHANGED <<taken, got, asked>>
    /\ UNCHANGED <<ssize, link, sbuf, wire, nsent, accepted, arrived, rbuf, rl>>
    /\ UNCHANGED <<sver, netOpen, rlen, row, rows, rub>>

\* beer_rpl_request: beer_io_recv of the xlog header.
RplRequest ==
    /\ rpc = "ready"
    /\ Recv(H)
    /\ rpc' = "hdr"
    /\ UNCHANGED <<sver, netOpen, rlen, row, rows, rub>>

\* Mutant of BodyLen: hdr.len taken as the body's length.
BodyLenWhole(len) == len

\* hdr_iproto.len = sr->hdr.len - sizeof(struct beer_log_row_v11), in
\* 32 bits: a len below R wraps to over 4e9, more than any stream holds
\* (StreamLen + 1 here), and the body read then never completes.
BodyLen(len) == IF len >= R THEN len - R ELSE StreamLen + 1

\* The header came back: -1 ends the request; else the row header is
\* read next.
RplGotHeader ==
    /\ rpc = "hdr" /\ rl.pc = "idle"
    /\ IF broken
       THEN rpc' = "failed" /\ UNCHANGED <<ioVars, rlen, row>>
       ELSE LET hb == got[Len(got)].bytes IN
            /\ \E len \in HdrLens(hb[1]) : rlen' = BodyLen(len)
            /\ row' = hb
            /\ Recv(R)
            /\ rpc' = "row"
    /\ UNCHANGED <<sver, netOpen, rows, rub>>

\* The row header came back: beer_request_from reads the body of
\* hdr_iproto.len bytes through beer_rpl_recv_cb -> beer_io_recv.
RplGotRow ==
    /\ rpc = "row" /\ rl.pc = "idle"
    /\ IF broken
       THEN rpc' = "failed" /\ UNCHANGED <<ioVars, row>>
       ELSE /\ row' = row \o got[Len(got)].bytes
            /\ Recv(rlen)
            /\ rpc' = "body"
    /\ UNCHANGED <<sver, netOpen, rlen, rows, rub>>

\* The body came back: the request is returned (0), or -1.
RplGotBody ==
    /\ rpc = "body" /\ rl.pc = "idle"
    /\ IF broken
       THEN rpc' = "failed" /\ UNCHANGED rows
       ELSE /\ rows' = Append(rows, [head |-> row, body |-> got[Len(got)].bytes])
            /\ rpc' = "ready"
    /\ row' = <<>>
    /\ UNCHANGED <<ioVars, sver, netOpen, rlen, rub>>

\* beer_rpl_close: if a net stream is attached, beer_close(s) is called on
\* the replication stream itself, so BEER_SNET_CAST reads the replication
\* stream's data as a net stream's: the iob clears and the close act on
\* that memory, and the net stream is left as it was.
RplClose ==
    /\ rpc \in {"attached", "ready", "failed"}
    /\ rub' = TRUE
    /\ rpc' = "closed"
    /\ UNCHANGED <<ioVars, sver, netOpen, rlen, row, rows>>

\* beer_rpl_free (beer_stream_free): the data is freed, the net stream is
\* detached and left to its owner.
RplFree ==
    /\ rpc \in {"attached", "ready", "failed", "closed"}
    /\ rpc' = "gone"
    /\ UNCHANGED <<ioVars, sver, netOpen, rlen, row, rows, rub>>

\* The steps of beer_io_recv inside the replication calls, and the link.
RplIo ==
    \/ (RecvCheck \/ RecvRaw \/ LinkFails) /\ UNCHANGED rplVars

RplNext ==
    \/ RplNew \/ RplOpen \/ RplSendLsn \/ RplRecvVersion
    \/ RplRequest \/ RplGotHeader \/ RplGotRow \/ RplGotBody
    \/ RplClose \/ RplFree
    \/ RplServerSend \/ RplIo

RplSpec == Init /\ RplInit /\ [][RplNext]_allVars

-----------------------------------------------------------------------------
(* Properties *)

\* The i-th row of the server's stream: its header and row header, and
\* its body.
ServerRow(i) == [head |-> Bytes(RowStart(i), H + R),
                 body |-> Bytes(RowStart(i) + H + R, Bodies[i])]

\* Every row beer_rpl_request returns is the server's next row, header and
\* body exactly: the greeting read through rbuf, the lsn and version that
\* go past the buffers, and the body length computed from hdr.len keep
\* the client at the server's row boundaries.
RowsFollowStream ==
    \A k \in 1 .. Len(rows) : k <= Len(Bodies) /\ rows[k] = ServerRow(k)

\* After beer_rpl_close the replication connection is closed: the net
\* stream's socket is no longer open (spec: close a connection).
RplCloseClosesNet == rpc = "closed" => ~netOpen

====
