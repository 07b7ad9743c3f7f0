----------------------------- MODULE BeerConnect -----------------------------
(***************************************************************************)
(* beer_io_connect of src/beer/beer_io.c and beer_io_close: a socket for   *)
(* the URI's host hint, the socket options (with the binary search for the *)
(* largest send and receive buffer), the address, the non-blocking connect *)
(* and its select loop under the connect timeout, and the close.  The      *)
(* caller is beer_connect, which closes a connected stream first.          *)
(*                                                                         *)
(* Time is counted in units of 1/Micro second from start_connect; the      *)
(* process's open descriptors are fds; system calls that can fail do so as *)
(* a nondeterministic outcome when SysMayFail.  The options of s->opt and  *)
(* the kernel's buffer limit are fixed in Init.                            *)
(***************************************************************************)
EXTENDS Integers, FiniteSets

CONSTANTS
    Hints,          \* uri->host_hint values: "name", "ipv4", "ipv6", "unix"
    Tmouts,         \* opt.tmout_connect values, [sec, usec]
    Micro,          \* clock units a second (1000000 in the code)
    SendBufs,       \* opt.send_buf / opt.recv_buf values (0: default)
    BufMax,         \* 128 * 1024 * 1024 of beer_io_xbufmax, scaled
    BufMin0,        \* 16384, the search's lower end for a 0 option, scaled
    Dflt,           \* the kernel's default socket buffer size
    Limits,         \* the largest buffer size setsockopt accepts
    FdZeroFree,     \* whether descriptor 0 is closed in the process
    ConnectNow,     \* whether a non-blocking connect() may complete at once
    SysMayFail,     \* whether socket, fcntl, setsockopt, select... may fail
    MaxIntr,        \* bound on select returns with EINTR in one connect
    MaxCalls        \* bound on beer_io_connect calls

Sys == IF SysMayFail THEN BOOLEAN ELSE {TRUE}

\* The descriptors open before the stream makes any: stdin (unless closed),
\* stdout, stderr.
StdFds == IF FdZeroFree THEN {1, 2} ELSE {0, 1, 2}

\* socket() returns the lowest descriptor not open.
LowestFree(open) ==
    CHOOSE d \in 0 .. MaxCalls + 3 \ open :
        \A e \in 0 .. MaxCalls + 3 \ open : d <= e

\* The timeout select waits: the whole timeval.
Total(t) == t.sec * Micro + t.usec

VARIABLES
    opt,        \* s->opt: host hint, tmout_connect, send_buf, recv_buf
    limit,      \* the kernel's largest accepted SO_SNDBUF / SO_RCVBUF
    fd,         \* s->fd
    fds,        \* the process's open descriptors
    connected,  \* s->connected
    nonblock,   \* O_NONBLOCK on the socket
    sndbuf,     \* the socket's SO_SNDBUF
    rcvbuf,     \* the socket's SO_RCVBUF
    pc,         \* where beer_io_connect is: "idle", "opts", "addr", "select", "finish"
    elapsed,    \* time since start_connect
    tmo,        \* the timeval passed to the next select
    intr,       \* selects that returned EINTR in this call
    result,     \* the last beer_io_connect result
    calls       \* beer_io_connect calls made

vars == <<opt, limit, fd, fds, connected, nonblock, sndbuf, rcvbuf, pc,
          elapsed, tmo, intr, result, calls>>

Init ==
    /\ opt \in [hint : Hints, tmout : Tmouts, sendBuf : SendBufs, recvBuf : SendBufs]
    /\ limit \in Limits
    /\ fd = -1 /\ fds = StdFds /\ connected = FALSE /\ nonblock = FALSE
    /\ sndbuf = Dflt /\ rcvbuf = Dflt
    /\ pc = "idle" /\ elapsed = 0 /\ tmo = 0 /\ intr = 0
    /\ result = "none" /\ calls = 0

-----------------------------------------------------------------------------
(* beer_io_xbufmax: a binary search over [min, max] for the largest size   *)
(* setsockopt accepts; each accepted try is set on the socket, a refused   *)
(* one leaves it as it was.                                                *)

\* Mutant of XBufSearch: the loop "while (min < max)".
RECURSIVE XBufSearchStrict(_, _, _, _)
XBufSearchStrict(lo, hi, lim, cur) ==
    IF lo >= hi THEN cur
    ELSE LET avg == (lo + hi) \div 2 IN
         IF avg <= lim THEN XBufSearchStrict(avg + 1, hi, lim, avg)
         ELSE XBufSearchStrict(lo, avg - 1, lim, cur)

RECURSIVE XBufSearch(_, _, _, _)
XBufSearch(lo, hi, lim, cur) ==
    IF lo > hi THEN cur
    ELSE LET avg == (lo + hi) \div 2 IN
         IF avg <= lim THEN XBufSearch(avg + 1, hi, lim, avg)
         ELSE XBufSearch(lo, avg - 1, lim, cur)

XBufMax(want, lim, cur) ==
    XBufSearch(IF want = 0 THEN BufMin0 ELSE want, BufMax, lim, cur)

\* What the search is for: the largest accepted size not below the option
\* (nor above BufMax), or the size the socket had if there is none.
BufRef(want, lim, cur) ==
    LET ok == {v \in (IF want = 0 THEN BufMin0 ELSE want) .. BufMax : v <= lim}
    IN IF ok = {} THEN cur ELSE CHOOSE v \in ok : \A w \in ok : w <= v

-----------------------------------------------------------------------------

\* beer_io_close: the descriptor is closed only when it is above 0.
CloseEffect ==
    /\ fds' = IF fd > 0 THEN fds \ {fd} ELSE fds
    /\ fd' = IF fd > 0 THEN -1 ELSE fd
    /\ connected' = FALSE

\* beer_io_connect's "out:": beer_io_close and the error returned.
Fail(e) ==
    /\ CloseEffect
    /\ result' = e /\ pc' = "idle"

\* beer_io_htopf: the hints with a protocol family (any other gives -1).
KnownHint(h) == h \in {"name", "ipv4", "ipv6", "unix"}

\* beer_io_connect, up to the socket: socket(beer_io_htopf(hint)), which
\* fails for a hint htopf does not know (-1) or when the system refuses.
IoSocket ==
    /\ pc = "idle" /\ ~connected /\ calls < MaxCalls
    /\ calls' = calls + 1
    /\ \E ok \in Sys :
         IF ok /\ KnownHint(opt.hint)
         THEN /\ fd' = LowestFree(fds) /\ fds' = fds \cup {LowestFree(fds)}
              /\ nonblock' = FALSE /\ sndbuf' = Dflt /\ rcvbuf' = Dflt
              /\ pc' = "opts" /\ elapsed' = 0 /\ result' = "none"
         ELSE /\ fd' = -1 /\ result' = "ESYSTEM"
              /\ UNCHANGED <<fds, nonblock, sndbuf, rcvbuf, pc, elapsed>>
    /\ UNCHANGED <<opt, limit, connected, tmo, intr>>

\* Mutant of IoSetopts: an option failure returned without closing.
IoSetoptsNoClose ==
    /\ pc = "opts"
    /\ \E nodelay, sndto, rcvto \in Sys :
         IF opt.hint # "unix" /\ ~nodelay
         THEN result' = "ESYSTEM" /\ pc' = "idle"
              /\ UNCHANGED <<fd, fds, connected, sndbuf, rcvbuf>>
         ELSE /\ sndbuf' = XBufMax(opt.sendBuf, limit, sndbuf)
              /\ rcvbuf' = XBufMax(opt.recvBuf, limit, rcvbuf)
              /\ IF sndto /\ rcvto THEN pc' = "addr" /\ UNCHANGED <<fd, fds, connected, result>>
                 ELSE result' = "ESYSTEM" /\ pc' = "idle" /\ UNCHANGED <<fd, fds, connected>>
    /\ UNCHANGED <<opt, limit, nonblock, elapsed, tmo, intr, calls>>

\* beer_io_setopts: TCP_NODELAY (not for a unix socket), the two buffer
\* searches (whose result is not checked), SO_SNDTIMEO and SO_RCVTIMEO; a
\* failing setsockopt makes beer_io_connect close the socket.
IoSetopts ==
    /\ pc = "opts"
    /\ \E nodelay, sndto, rcvto \in Sys :
         IF opt.hint # "unix" /\ ~nodelay
         THEN Fail("ESYSTEM") /\ UNCHANGED <<sndbuf, rcvbuf>>
         ELSE /\ sndbuf' = XBufMax(opt.sendBuf, limit, sndbuf)
              /\ rcvbuf' = XBufMax(opt.recvBuf, limit, rcvbuf)
              /\ IF sndto /\ rcvto THEN pc' = "addr" /\ UNCHANGED <<fd, fds, connected, result>>
                 ELSE Fail("ESYSTEM")
    /\ UNCHANGED <<opt, limit, nonblock, elapsed, tmo, intr, calls>>

\* The end of beer_io_connect: s->connected set, EOK returned.
Connected == result' = "EOK" /\ connected' = TRUE /\ pc' = "idle"

\* beer_io_connect_unix: a blocking connect() on the path.
ConnectUnix(up) ==
    IF up THEN Connected /\ UNCHANGED <<fd, fds, nonblock, tmo>>
    ELSE Fail("ESYSTEM") /\ UNCHANGED <<nonblock, tmo>>

\* beer_io_connect_do: beer_io_nonblock(s, 1), then connect(), which
\* completes at once (EOK returned as is, the socket still non-blocking),
\* is in progress (the select loop starts after gettimeofday), or fails;
\* an ipv6 socket always refuses the AF_INET address it is given.
ConnectDo(fcntlOk, up, now, clockOk) ==
    IF ~fcntlOk THEN Fail("ESYSTEM") /\ UNCHANGED <<nonblock, tmo>>
    ELSE /\ nonblock' = TRUE
         /\ IF opt.hint = "ipv6" \/ ~up THEN Fail("ESYSTEM") /\ UNCHANGED tmo
            ELSE IF now THEN Connected /\ UNCHANGED <<fd, fds, tmo>>
            ELSE IF ~clockOk THEN Fail("ESYSTEM") /\ UNCHANGED tmo
            ELSE /\ pc' = "select" /\ tmo' = Total(opt.tmout)
                 /\ UNCHANGED <<fd, fds, connected, result>>

\* beer_io_connect_tcp: beer_io_resolve (getaddrinfo may fail), then the
\* connect.
ConnectTcp(resolved, fcntlOk, up, now, clockOk) ==
    IF ~resolved THEN Fail("ERESOLVE") /\ UNCHANGED <<nonblock, tmo>>
    ELSE ConnectDo(fcntlOk, up, now, clockOk)

\* beer_io_connect after the options: the connect for the hint; an error
\* goes to "out:".
IoConnectAddr ==
    /\ pc = "addr"
    /\ \E resolved, fcntlOk, clockOk, up \in Sys,
          now \in IF ConnectNow THEN BOOLEAN ELSE {FALSE} :
         IF opt.hint = "unix" THEN ConnectUnix(up)
         ELSE ConnectTcp(resolved, fcntlOk, up, now, clockOk)
    /\ intr' = 0
    /\ UNCHANGED <<opt, limit, sndbuf, rcvbuf, elapsed, calls>>

\* The timeout left after an EINTR, as the code computes it: the time
\* passed minus tmout_connect.tv_sec in microseconds.
LeftAfterIntr(passed, t) == passed - t.sec * Micro

\* One select on the socket: it reports the socket writable after d, times
\* out after tmo, returns EINTR after d (the time is read again and the
\* timeout recomputed; 0 or less ends the call with ETMOUT), or fails.
IoSelect ==
    /\ pc = "select"
    /\ \/ \E d \in 0 .. tmo :
            /\ elapsed' = elapsed + d /\ pc' = "finish"
            /\ UNCHANGED <<fd, fds, connected, result, tmo, intr>>
       \/ /\ elapsed' = elapsed + tmo
          /\ Fail("ETMOUT") /\ UNCHANGED <<tmo, intr>>
       \/ /\ intr < MaxIntr
          /\ \E d \in 0 .. tmo, clockOk \in Sys :
               LET left == LeftAfterIntr(elapsed + d, opt.tmout) IN
               /\ elapsed' = elapsed + d /\ intr' = intr + 1
               /\ IF ~clockOk THEN Fail("ESYSTEM") /\ UNCHANGED tmo
                  ELSE IF left <= 0 THEN Fail("ETMOUT") /\ UNCHANGED tmo
                  ELSE tmo' = left /\ UNCHANGED <<fd, fds, connected, result, pc>>
       \/ /\ SysMayFail /\ UNCHANGED <<elapsed, tmo, intr>>
          /\ Fail("ESYSTEM")
    /\ UNCHANGED <<opt, limit, nonblock, sndbuf, rcvbuf, calls>>

\* After the event: SO_ERROR must be 0 (the peer accepted), then the
\* socket is set blocking again.
IoFinish ==
    /\ pc = "finish"
    /\ \E accepted, fcntlOk \in Sys :
         IF accepted /\ fcntlOk
         THEN /\ nonblock' = FALSE /\ connected' = TRUE
              /\ result' = "EOK" /\ pc' = "idle"
              /\ UNCHANGED <<fd, fds>>
         ELSE Fail("ESYSTEM") /\ UNCHANGED nonblock
    /\ UNCHANGED <<opt, limit, sndbuf, rcvbuf, elapsed, tmo, intr, calls>>

\* beer_close (or beer_connect on a connected stream): beer_io_close.
IoClose ==
    /\ pc = "idle"
    /\ CloseEffect
    /\ UNCHANGED <<opt, limit, nonblock, sndbuf, rcvbuf, pc, elapsed, tmo,
                   intr, result, calls>>

Next ==
    \/ IoSocket \/ IoSetopts \/ IoConnectAddr \/ IoSelect \/ IoFinish
    \/ IoClose

Spec == Init /\ [][Next]_vars

-----------------------------------------------------------------------------
(* Properties *)

\* Between calls the stream holds exactly the sockets it opened: every
\* path out of beer_io_connect that fails after socket() closes it, and a
\* stream holds a descriptor exactly when it is connected, so beer_connect
\* never leaks one by opening the next.
SocketHeldIffOpen ==
    pc = "idle" =>
        /\ fds \ StdFds = IF fd >= 0 THEN {fd} ELSE {}
        /\ (fd >= 0) = connected

\* Once the options are set, each socket buffer is the largest size the
\* kernel accepts between the option (or 16384 for 0) and 128 MiB, or the
\* default when it accepts none: the binary search of beer_io_xbufmax
\* finds the bound.
SockBufIsLargestAccepted ==
    pc \in {"addr", "select", "finish"} \/ connected =>
        /\ sndbuf = BufRef(opt.sendBuf, limit, Dflt)
        /\ rcvbuf = BufRef(opt.recvBuf, limit, Dflt)

\* A connected socket is blocking again: beer_io_recv and the send path
\* rely on recv()/send() blocking (with SO_RCVTIMEO/SO_SNDTIMEO), not on
\* EAGAIN.
ConnectedSocketBlocks == connected => ~nonblock

\* beer_io_connect reports a timeout only once tmout_connect has passed
\* since it began connecting (spec section 6: the caller-configured
\* connect timeout), also when a signal interrupts the select.
TimeoutHonoured == result = "ETMOUT" => elapsed >= Total(opt.tmout)

\* No select waits past the connect timeout.
ConnectWaitBounded == pc = "select" => elapsed + tmo <= Total(opt.tmout)

====
