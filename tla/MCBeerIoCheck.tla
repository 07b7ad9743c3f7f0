---------------------------- MODULE MCBeerIoCheck ----------------------------
(***************************************************************************)
(* The byte transport in one run, with the replication client composed on  *)
(* it; conf, fixed in Init, says which a behaviour follows.                *)
(*   streams: BeerIo alone: a send buffer of 3 bytes or none, a receive    *)
(*            buffer of 2, writes of 1, 2 and 4 bytes, reads of 1 and 3.   *)
(*   rpl:     BeerRpl over a receive buffer of 2: a greeting, a version    *)
(*            and two rows (bodies of 1 and 0 bytes) in 1-byte fields, a   *)
(*            server of the right or a wrong version, failing allocation.  *)
(*   connect: BeerConnect: a host name, an ipv6 literal or a unix path,    *)
(*            whole and fractional timeouts, one EINTR, failing system     *)
(*            calls, connects that complete at once, two calls.            *)
(***************************************************************************)
EXTENDS Integers, Sequences

VARIABLES ssize, link, sbuf, wire, nsent, accepted, arrived, taken, rbuf, rl,
          got, asked, broken, rpc, sver, netOpen, rlen, row, rows, rub, conf,
          opt, limit, fd, fds, connected, nonblock, sndbuf, rcvbuf, pc,
          elapsed, tmo, intr, result, calls

S == INSTANCE BeerIo WITH
       SbufSizes <- {0, 3}, RbufSize <- 2, WriteSizes <- {1, 2, 4},
       ReadSizes <- {1, 3}, MaxSend <- 5, StreamLen <- 5, LinkMayFail <- TRUE

Rp == INSTANCE BeerRpl WITH
        SbufSizes <- {3}, RbufSize <- 2, WriteSizes <- {}, ReadSizes <- {},
        MaxSend <- 1, StreamLen <- 7, LinkMayFail <- TRUE,
        G <- 1, V <- 1, L <- 1, H <- 1, R <- 1, Bodies <- <<1, 0>>,
        Versions <- {11, 10}, RplAllocMayFail <- TRUE

Cn == INSTANCE BeerConnect WITH
        Hints <- {"name", "ipv6", "unix"},
        Tmouts <- {[sec |-> 1, usec |-> 0], [sec |-> 1, usec |-> 1]},
        Micro <- 2, SendBufs <- {0, 5, 13}, BufMax <- 12, BufMin0 <- 4,
        Dflt <- 3, Limits <- {2, 6, 20}, FdZeroFree <- FALSE,
        ConnectNow <- TRUE, SysMayFail <- TRUE, MaxIntr <- 1, MaxCalls <- 2

ioVars == <<ssize, link, sbuf, wire, nsent, accepted, arrived, taken, rbuf, rl,
            got, asked, broken>>
rplVars == <<rpc, sver, netOpen, rlen, row, rows, rub>>
cnVars == <<opt, limit, fd, fds, connected, nonblock, sndbuf, rcvbuf, pc,
            elapsed, tmo, intr, result, calls>>
allVars == <<ioVars, rplVars, cnVars, conf>>

\* One start state of the instances a behaviour does not follow.
CnRest == Cn!Init /\ opt.hint = "unix" /\ opt.tmout.usec = 0 /\ opt.sendBuf = 0
                  /\ opt.recvBuf = 0 /\ limit = 20
IoRest == Rp!Init /\ Rp!RplInit /\ ssize = 3 /\ sver = 11

Init == \/ conf = "streams" /\ S!Init /\ Rp!RplInit /\ CnRest
        \/ conf = "rpl" /\ Rp!Init /\ Rp!RplInit /\ CnRest
        \/ conf = "connect" /\ Cn!Init /\ IoRest

Next == /\ UNCHANGED conf
        /\ CASE conf = "streams" -> S!Next /\ UNCHANGED <<rplVars, cnVars>>
             [] conf = "rpl"     -> Rp!RplNext /\ UNCHANGED cnVars
             [] OTHER            -> Cn!Next /\ UNCHANGED <<ioVars, rplVars>>

\* The loop of beer_io_recv runs on once called, recv() returns once the
\* socket has bytes or is closed, and a live server sends its stream.
\* Nothing is assumed of the caller or the link.
Fairness ==
    /\ WF_<<ioVars, rplVars>>(conf = "streams" /\ S!RecvCheck /\ UNCHANGED rplVars)
    /\ WF_<<ioVars, rplVars>>(conf = "streams" /\ S!RecvRaw /\ UNCHANGED rplVars)
    /\ WF_<<ioVars, rplVars>>(conf = "streams" /\ S!ServerSend /\ UNCHANGED rplVars)

Spec == Init /\ [][Next]_allVars /\ Fairness

\* The transport seen through BeerChannel: the successful sends, the bytes
\* each returned beer_io_recv call gave, the read in progress and the
\* broken stream.  Replication behaviours map to the initial channel.
Chan == INSTANCE BeerChannel WITH
          sent <- IF conf = "streams" THEN accepted ELSE <<>>,
          reads <- IF conf = "streams" THEN [j \in 1 .. Len(got) |-> got[j].bytes]
                   ELSE <<>>,
          want <- IF conf = "streams" /\ rl.pc # "idle" THEN rl.size ELSE 0,
          failed <- conf = "streams" /\ broken

\* Bytes leave in the order the successful send calls gave them, with the
\* lsn sent raw past sbuf (SendKeepsOrder of BeerIo).
SendKeepsOrder == IF conf = "streams" THEN S!SendKeepsOrder ELSE Rp!SendKeepsOrder

\* Every read returns exactly the server's next bytes, including the
\* version read raw past rbuf (RecvReturnsStream of BeerIo).
RecvReturnsStream == IF conf = "streams" THEN S!RecvReturnsStream ELSE Rp!RecvReturnsStream

\* rbuf holds exactly the bytes taken and not yet returned
\* (RbufHoldsUnread of BeerIo).
RbufHoldsUnread == IF conf = "streams" THEN S!RbufHoldsUnread ELSE Rp!RbufHoldsUnread

\* The sendv/flush path with sbuf and the beer_io_recv loop with rbuf
\* implement the unbuffered channel: each send call is one block after the
\* earlier ones, each read returns exactly the next bytes in one step of
\* the channel, a read that was asked for returns or fails, and nothing is
\* sent or read after a transport error.
ImplementsChannel == Chan!Spec

\* Each row beer_rpl_request returns is the server's next row
\* (RowsFollowStream of BeerRpl).
RowsFollowStream == conf = "rpl" => Rp!RowsFollowStream

\* beer_rpl_close leaves the net stream's socket closed (RplCloseClosesNet
\* of BeerRpl).
RplCloseClosesNet == conf = "rpl" => Rp!RplCloseClosesNet

\* Between calls the stream holds exactly the sockets it opened, and one
\* exactly when connected (SocketHeldIffOpen of BeerConnect).
SocketHeldIffOpen == conf = "connect" => Cn!SocketHeldIffOpen

\* The socket buffers are the largest sizes the kernel accepts
\* (SockBufIsLargestAccepted of BeerConnect).
SockBufIsLargestAccepted == conf = "connect" => Cn!SockBufIsLargestAccepted

====
