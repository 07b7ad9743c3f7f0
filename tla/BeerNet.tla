------------------------------- MODULE BeerNet -------------------------------
(***************************************************************************)
(* The network stream of src/beer/beer_net.c and its buffered transport    *)
(* (src/beer/beer_io.c, beer_iob.c), together with the server on the other *)
(* end of the socket and beer_reload_schema, which fills the schema cache  *)
(* of BeerSchema from two pipelined selects.                               *)
(*                                                                         *)
(* A request is [sync, op]: every encoder (beer_select, beer_insert,       *)
(* beer_call, beer_ping, ...) stamps s->reqid++ and makes exactly one      *)
(* writev, so the encoders differ only in op: "space" and "index" are the  *)
(* selects of beer_get_space/beer_get_index, "other" any other request.    *)
(* The send buffer (sbuf) holds up to SbufCap requests; the socket is two  *)
(* FIFO byte streams (TCP), wire to the server and inbox back, inbox       *)
(* standing also for the bytes already in rbuf.  The server parses the     *)
(* requests in order and answers them in any order (one fiber each).       *)
(*                                                                         *)
(* The caller follows the contract of the library: after a transport      *)
(* error it only closes or reconnects (broken), and unless UseUnconnected  *)
(* it issues requests only on a connected stream.                          *)
(***************************************************************************)
EXTENDS Integers, Sequences, SequencesExt, FiniteSets, BeerSchema

CONSTANTS
    SpaceIds,      \* space numbers the server may have
    SpaceName,     \* SpaceName[s]: the name of space s
    PK,            \* the name of a space's primary index
    InitSpaces,    \* spaces, each with its primary index, at start
    SbufCap,       \* requests the send buffer (opt send_buf) holds
    MaxReqs,       \* bound on the caller's requests per connection
    MaxSessions,   \* bound on successful connects
    MaxDDL,        \* bound on schema changes made by other clients
    DDLOps,        \* subset of {"create", "drop"} other clients perform
    ServerMayErr,  \* whether the server may answer with an error
    LinkMayFail,   \* whether the connection may break
    AllocMayFail,  \* whether beer_object() in beer_get_space/index may fail
    UseUnconnected \* whether the caller writes and reads before connecting

ASSUME SpaceIds \subseteq Nat /\ InitSpaces \subseteq SpaceIds
ASSUME SbufCap \in Nat \ {0} /\ MaxReqs \in Nat /\ MaxSessions \in Nat
ASSUME DDLOps \subseteq {"create", "drop"}

SpaceSync == 127   \* beer_stream_reqid(s, 127) before beer_get_space
IndexSync == 128   \* the next reqid, stamped on beer_get_index
Syncs == (0 .. MaxReqs) \cup {SpaceSync, IndexSync}
Ops == {"space", "index", "other"}
NoReply == [sync |-> -1, err |-> FALSE, data |-> <<>>]

VARIABLES
    connected,  \* sn->connected
    link,       \* "up" while the socket works, "down" once it broke
    reqid,      \* s->reqid
    wrcnt,      \* s->wrcnt: writes whose reply has not been read
    sbuf,       \* sn->sbuf: requests written but not yet sent
    wire,       \* requests sent, not yet parsed by the server
    working,    \* requests the server is executing (parsed, unanswered)
    inbox,      \* replies sent by the server, not yet read (socket + rbuf)
    catalog,    \* the server's schema: [spaces, idx] (spaces with a PK)
    cache,      \* sn->schema (BeerSchema)
    pc,         \* "idle", or where beer_reload_schema is
    sloaded,    \* reload: the sloaded counter
    bkp,        \* reload: the backed-up sync-128 reply, or NoReply
    result,     \* what the last reload returned: "none", "ok", "fail"
    broken,     \* a transport call failed on this connection
    sessions,   \* successful connects so far
    ddl,        \* schema changes so far
    written,    \* ghost: syncs written on this connection, in order
    answered,   \* ghost: syncs of the replies the caller read on this connection
    replied     \* ghost: data of the two replies the current reload used

netVars == <<connected, link, reqid, wrcnt, sbuf, wire, working, inbox>>
reloadVars == <<cache, pc, sloaded, bkp, result>>
vars == <<netVars, reloadVars, catalog, broken, sessions, ddl,
          written, answered, replied>>

-----------------------------------------------------------------------------
(* The server *)

\* The rows a select on _vspace or _vindex returns, in primary-key order.
SpaceRows(cat) == [i \in 1 .. Cardinality(cat.spaces) |->
    LET s == SetToSortSeq(cat.spaces, <)[i] IN [sp |-> s, name |-> SpaceName[s]]]
IndexRows(cat) == [i \in 1 .. Cardinality(cat.idx) |->
    [sp |-> SetToSortSeq(cat.idx, <)[i], name |-> PK]]

ReplyData(op, cat) ==
    CASE op = "space" -> SpaceRows(cat)
      [] op = "index" -> IndexRows(cat)
      [] OTHER        -> <<>>

-----------------------------------------------------------------------------
(* The transport: beer_io_sendv and beer_io_flush on a record            *)
(* [sbuf, wire, wrcnt, ok] so that reload can chain them.                *)

NetState == [sbuf |-> sbuf, wire |-> wire, wrcnt |-> wrcnt, ok |-> TRUE]

\* beer_io_send_raw of the whole buffer: fails once the socket is broken
\* or closed (fd -1).
CanSend == connected /\ link = "up"

\* The stream may be used: after a successful connect, or before any when
\* the caller does that.
Usable == ~broken /\ (connected \/ UseUnconnected)

Writev(st, req) ==
    IF Len(st.sbuf) < SbufCap
    THEN [st EXCEPT !.sbuf = Append(@, req), !.wrcnt = @ + 1, !.ok = TRUE]
    ELSE IF CanSend
         THEN [st EXCEPT !.wire = @ \o st.sbuf, !.sbuf = <<req>>,
                         !.wrcnt = @ + 1, !.ok = TRUE]
         ELSE [st EXCEPT !.ok = FALSE]

\* Mutant of FlushOut: the buffer is sent but sbuf.off is not reset.
FlushOutKeeps(st) ==
    IF st.sbuf = <<>> \/ ~CanSend THEN [st EXCEPT !.ok = CanSend]
    ELSE [st EXCEPT !.wire = @ \o st.sbuf, !.ok = TRUE]

\* beer_flush -> beer_io_flush: nothing to do on an empty buffer.
FlushOut(st) ==
    IF st.sbuf = <<>> THEN [st EXCEPT !.ok = TRUE]
    ELSE IF CanSend THEN [st EXCEPT !.wire = @ \o st.sbuf, !.sbuf = <<>>, !.ok = TRUE]
    ELSE [st EXCEPT !.ok = FALSE]

SetNet(st) == /\ sbuf' = st.sbuf
              /\ wire' = st.wire
              /\ wrcnt' = st.wrcnt

-----------------------------------------------------------------------------
(* The caller's operations on an idle stream *)

Init ==
    /\ connected = FALSE
    /\ link = "down"
    /\ reqid = 0
    /\ wrcnt = 0
    /\ sbuf = <<>>
    /\ wire = <<>>
    /\ working = <<>>
    /\ inbox = <<>>
    /\ catalog = [spaces |-> InitSpaces, idx |-> InitSpaces]
    /\ cache = EmptyCache
    /\ pc = "idle"
    /\ sloaded = 0
    /\ bkp = NoReply
    /\ result = "none"
    /\ broken = FALSE
    /\ sessions = 0
    /\ ddl = 0
    /\ written = <<>>
    /\ answered = {}
    /\ replied = [sp |-> <<>>, ix |-> <<>>]

\* Any request encoder: encode_header(..., s->reqid++) then s->writev.
Request ==
    LET st == Writev(NetState, [sync |-> reqid, op |-> "other"])
    IN /\ pc = "idle" /\ Usable
       /\ reqid < MaxReqs
       /\ reqid' = reqid + 1
       /\ SetNet(st)
       /\ written' = IF st.ok THEN Append(written, reqid) ELSE written
       /\ broken' = ~st.ok
       /\ UNCHANGED <<connected, link, working, inbox, catalog, reloadVars,
                      sessions, ddl, answered, replied>>

\* beer_flush.
Flush ==
    LET st == FlushOut(NetState)
    IN /\ pc = "idle" /\ Usable
       /\ sbuf # <<>>
       /\ SetNet(st)
       /\ broken' = ~st.ok
       /\ UNCHANGED <<connected, link, reqid, working, inbox, catalog,
                      reloadVars, sessions, ddl, written, answered, replied>>

\* s->read_reply = beer_net_reply: 1 when wrcnt is 0; otherwise wrcnt is
\* decremented and one frame is read (beer_io_recv), blocking until it is
\* there; -1 once the socket is broken or closed.
ReadReply ==
    /\ pc = "idle" /\ Usable
    /\ wrcnt > 0
    /\ wrcnt' = wrcnt - 1
    /\ \/ /\ inbox # <<>>
          /\ inbox' = Tail(inbox)
          /\ answered' = answered \cup {Head(inbox).sync}
          /\ UNCHANGED broken
       \/ /\ inbox = <<>>
          /\ ~CanSend
          /\ broken' = TRUE
          /\ UNCHANGED <<inbox, answered>>
    /\ UNCHANGED <<connected, link, reqid, sbuf, wire, working, catalog,
                   reloadVars, sessions, ddl, written, replied>>

\* Mutant of CloseEffect: the send buffer is not cleared.
CloseKeepsSbuf ==
    /\ UNCHANGED sbuf
    /\ inbox' = <<>> /\ wire' = <<>> /\ working' = <<>>
    /\ wrcnt' = 0 /\ reqid' = 0
    /\ written' = <<>> /\ answered' = {} /\ broken' = FALSE

\* beer_close: clear both buffers, close the socket, reset the counters.
CloseEffect ==
    /\ sbuf' = <<>>
    /\ inbox' = <<>>
    /\ wire' = <<>>
    /\ working' = <<>>
    /\ wrcnt' = 0
    /\ reqid' = 0
    /\ written' = <<>>
    /\ answered' = {}
    /\ broken' = FALSE

Close ==
    /\ pc = "idle"
    /\ CloseEffect
    /\ connected' = FALSE
    /\ link' = "down"
    /\ UNCHANGED <<catalog, reloadVars, sessions, ddl, replied>>

\* beer_connect: beer_close first if connected, then beer_io_connect, which
\* either gives a fresh socket or fails (and closes the fd).  The caller
\* has no credentials, so beer_authenticate is not called.
Connect ==
    /\ pc = "idle"
    /\ \/ /\ sessions < MaxSessions
          /\ connected' = TRUE
          /\ link' = "up"
          /\ sessions' = sessions + 1
       \/ /\ connected' = FALSE
          /\ link' = "down"
          /\ UNCHANGED sessions
    /\ IF connected
       THEN CloseEffect
       ELSE UNCHANGED <<sbuf, wire, working, inbox, wrcnt, reqid, written, answered>>
    \* the caller's contract: a failed connect is a transport error
    /\ broken' = ~connected'
    /\ UNCHANGED <<catalog, reloadVars, ddl, replied>>

-----------------------------------------------------------------------------
(* The server and the other clients *)

Errs == IF ServerMayErr THEN BOOLEAN ELSE {FALSE}

\* The server reads the next request off the socket.
ServerRecv ==
    /\ link = "up" /\ wire # <<>>
    /\ wire' = Tail(wire)
    /\ working' = Append(working, Head(wire))
    /\ UNCHANGED <<connected, link, reqid, wrcnt, sbuf, inbox, catalog,
                   reloadVars, broken, sessions, ddl, written, answered, replied>>

\* The server answers the i-th request it is executing: status 0 and the
\* rows of the catalog as it is now, or an error.
ServerReply(i) ==
    /\ link = "up"
    /\ \E e \in Errs :
         inbox' = Append(inbox, [sync |-> working[i].sync, err |-> e,
                                 data |-> IF e THEN <<>> ELSE ReplyData(working[i].op, catalog)])
    /\ working' = RemoveAt(working, i)
    /\ UNCHANGED <<connected, link, reqid, wrcnt, sbuf, wire, catalog,
                   reloadVars, broken, sessions, ddl, written, answered, replied>>

\* The connection breaks (reset, server restart): both directions stop;
\* replies already received stay readable.
LinkFails ==
    /\ LinkMayFail /\ link = "up"
    /\ link' = "down"
    /\ UNCHANGED <<connected, reqid, wrcnt, sbuf, wire, working, inbox, catalog,
                   reloadVars, broken, sessions, ddl, written, answered, replied>>

\* Other clients change the schema: create a space, then its primary
\* index; drop the index, then the space.  Each is its own transaction.
ChangeCatalog(cat) ==
    /\ ddl < MaxDDL
    /\ catalog' = cat
    /\ ddl' = ddl + 1
    /\ UNCHANGED <<netVars, reloadVars, broken, sessions, written, answered, replied>>

CreateSpace(s) == "create" \in DDLOps /\ s \notin catalog.spaces
                  /\ ChangeCatalog([catalog EXCEPT !.spaces = @ \cup {s}])
CreateIndex(s) == "create" \in DDLOps /\ s \in catalog.spaces \ catalog.idx
                  /\ ChangeCatalog([catalog EXCEPT !.idx = @ \cup {s}])
DropIndex(s)   == "drop" \in DDLOps /\ s \in catalog.idx
                  /\ ChangeCatalog([catalog EXCEPT !.idx = @ \ {s}])
DropSpace(s)   == "drop" \in DDLOps /\ s \in catalog.spaces \ catalog.idx
                  /\ ChangeCatalog([catalog EXCEPT !.spaces = @ \ {s}])

-----------------------------------------------------------------------------
(* beer_reload_schema *)

AllocOutcomes == IF AllocMayFail THEN BOOLEAN ELSE {TRUE}

\* Mutant of ReloadStart: the selects are written but not flushed.
ReloadStartNoFlush ==
    /\ pc = "idle" /\ ~broken
    /\ connected /\ wrcnt = 0
    /\ \E spOk, ixOk \in AllocOutcomes :
         LET st1 == IF spOk THEN Writev(NetState, [sync |-> SpaceSync, op |-> "space"])
                    ELSE NetState
             id2 == IF spOk THEN SpaceSync + 1 ELSE SpaceSync
             st2 == IF ixOk THEN Writev(st1, [sync |-> id2, op |-> "index"]) ELSE st1
         IN /\ SetNet(st2)
            /\ broken' = ~(st1.ok /\ st2.ok)
    /\ pc' = "read"
    /\ sloaded' = 0
    /\ bkp' = NoReply
    /\ replied' = [sp |-> <<>>, ix |-> <<>>]
    /\ UNCHANGED <<connected, link, reqid, working, inbox, catalog, cache, result,
                   sessions, ddl, written, answered>>

\* Refused unless connected with no reply outstanding.  reqid is set to
\* 127; beer_get_space and beer_get_index each build a key object (which
\* may fail before anything is encoded) and make one select, stamped with
\* reqid++; reqid is restored and the buffer flushed, results ignored.
ReloadStart ==
    /\ pc = "idle" /\ ~broken
    /\ connected /\ wrcnt = 0
    /\ \E spOk, ixOk \in AllocOutcomes :
         LET st1 == IF spOk THEN Writev(NetState, [sync |-> SpaceSync, op |-> "space"])
                    ELSE NetState
             id2 == IF spOk THEN SpaceSync + 1 ELSE SpaceSync
             st2 == IF ixOk THEN Writev(st1, [sync |-> id2, op |-> "index"]) ELSE st1
             st3 == FlushOut(st2)
         IN /\ SetNet(st3)
            /\ broken' = ~(st1.ok /\ st2.ok /\ st3.ok)
    /\ pc' = "read"
    /\ sloaded' = 0
    /\ bkp' = NoReply
    /\ replied' = [sp |-> <<>>, ix |-> <<>>]
    /\ UNCHANGED <<connected, link, reqid, working, inbox, catalog, cache, result,
                   sessions, ddl, written, answered>>

\* "goto error": the loop is left, -1 returned.
ReloadError ==
    /\ pc' = "idle"
    /\ result' = "fail"
    /\ bkp' = NoReply
    /\ UNCHANGED <<cache, sloaded, replied>>

\* Mutant of Dispatch: the sync-128 reply is decoded at once, without the
\* sloaded parity test and the backup.
DispatchNoBackup(r) ==
    CASE r.sync = SpaceSync /\ ~r.err ->
            /\ cache' = AddSpaces(cache, r.data)
            /\ sloaded' = sloaded + 1
            /\ replied' = [replied EXCEPT !.sp = r.data]
            /\ UNCHANGED <<pc, bkp, result>>
      [] r.sync = IndexSync /\ ~r.err ->
            /\ cache' = AddIndexes(cache, r.data).cache
            /\ sloaded' = sloaded + 2
            /\ replied' = [replied EXCEPT !.ix = r.data]
            /\ UNCHANGED <<pc, bkp, result>>
      [] OTHER -> ReloadError

\* One turn of "while (beer_next(&it))" and its switch on r->sync.
Dispatch(r) ==
    CASE r.sync = SpaceSync /\ ~r.err ->
            /\ cache' = AddSpaces(cache, r.data)
            /\ sloaded' = sloaded + 1
            /\ replied' = [replied EXCEPT !.sp = r.data]
            /\ UNCHANGED <<pc, bkp, result>>
      [] r.sync = IndexSync /\ ~r.err /\ sloaded % 2 = 0 ->
            /\ bkp' = r
            /\ UNCHANGED <<cache, pc, sloaded, result, replied>>
      [] r.sync = IndexSync /\ ~r.err /\ sloaded % 2 = 1 ->
            /\ cache' = AddIndexes(cache, r.data).cache
            /\ sloaded' = sloaded + 2
            /\ replied' = [replied EXCEPT !.ix = r.data]
            /\ UNCHANGED <<pc, bkp, result>>
      [] OTHER -> ReloadError

\* beer_iter_reply_next -> beer_net_reply: 1 (wrcnt is 0) ends the loop;
\* -1 also ends it, with the iterator's FAIL status never looked at.
ReloadRead ==
    /\ pc = "read"
    /\ \/ /\ wrcnt = 0
          /\ pc' = "finish"
          /\ UNCHANGED <<wrcnt, inbox, cache, sloaded, bkp, result, broken, replied>>
       \/ /\ wrcnt > 0 /\ inbox = <<>> /\ ~CanSend
          /\ wrcnt' = wrcnt - 1
          /\ broken' = TRUE
          /\ pc' = "finish"
          /\ UNCHANGED <<inbox, cache, sloaded, bkp, result, replied>>
       \/ /\ wrcnt > 0 /\ inbox # <<>>
          /\ wrcnt' = wrcnt - 1
          /\ inbox' = Tail(inbox)
          /\ Dispatch(Head(inbox))
          /\ UNCHANGED broken
    /\ UNCHANGED <<connected, link, reqid, sbuf, wire, working, catalog,
                   sessions, ddl, written, answered>>

\* After the loop: a backed-up sync-128 reply is decoded now; 0 only if
\* sloaded is 3.  The results of add_spaces/add_indexes are not checked.
ReloadFinish ==
    LET hasBkp == bkp # NoReply
        sl     == IF hasBkp THEN sloaded + 2 ELSE sloaded
    IN /\ pc = "finish"
       /\ cache' = IF hasBkp THEN AddIndexes(cache, bkp.data).cache ELSE cache
       /\ replied' = IF hasBkp THEN [replied EXCEPT !.ix = bkp.data] ELSE replied
       /\ sloaded' = sl
       /\ result' = IF sl = 3 THEN "ok" ELSE "fail"
       /\ pc' = "idle"
       /\ bkp' = NoReply
       /\ UNCHANGED <<netVars, catalog, broken, sessions, ddl, written, answered>>

-----------------------------------------------------------------------------

Next ==
    \/ Request \/ Flush \/ ReadReply \/ Close \/ Connect
    \/ ReloadStart \/ ReloadRead \/ ReloadFinish
    \/ ServerRecv \/ \E i \in 1 .. Len(working) : ServerReply(i)
    \/ LinkFails
    \/ \E s \in SpaceIds : \/ CreateSpace(s) \/ CreateIndex(s)
                           \/ DropIndex(s) \/ DropSpace(s)

\* The reload loop runs to its end once started; the server executes and
\* answers what it has read.  The caller and the other clients owe nothing.
Fairness ==
    /\ WF_vars(ReloadRead) /\ WF_vars(ReloadFinish)
    /\ WF_vars(ServerRecv) /\ WF_vars(\E i \in 1 .. Len(working) : ServerReply(i))

Spec == Init /\ [][Next]_vars /\ Fairness

-----------------------------------------------------------------------------
(* Properties *)

Req == [sync : Syncs, op : Ops]
Row == [sp : SpaceIds, name : Range(SpaceName) \cup {PK}]
Reply == [sync : Syncs \cup {-1}, err : BOOLEAN, data : Seq(Row)]

TypeOK ==
    /\ connected \in BOOLEAN /\ link \in {"up", "down"}
    /\ reqid \in 0 .. MaxReqs /\ wrcnt \in Nat
    /\ sbuf \in Seq(Req) /\ Len(sbuf) <= SbufCap
    /\ wire \in Seq(Req) /\ working \in Seq(Req) /\ inbox \in Seq(Reply)
    /\ pc \in {"idle", "read", "finish"}
    /\ bkp \in Reply /\ result \in {"none", "ok", "fail"}
    /\ catalog.idx \subseteq catalog.spaces

\* beer_net_reply trusts wrcnt: on a live connection it equals the number
\* of requests written whose reply the caller has not read yet, wherever
\* they are (send buffer, socket, server, receive side).  If it is less,
\* read_reply reports the end while a reply is still coming; if more, it
\* blocks forever.  Covers the flush-on-full path of beer_io_sendv and the
\* reload's own pipelined selects.
WrcntCountsPending ==
    connected /\ link = "up" /\ ~broken =>
        wrcnt = Len(sbuf) + Len(wire) + Len(working) + Len(inbox)

\* The syncs of everything on its way: requests in the send buffer, on the
\* socket and at the server, and replies on the way back.
InFlight == [i \in 1 .. Len(sbuf \o wire \o working) |-> (sbuf \o wire \o working)[i].sync]
            \o [i \in 1 .. Len(inbox) |-> inbox[i].sync]

\* Whenever the caller has the stream (no reload running, no transport
\* error seen), everything on its way belongs to a distinct request the caller wrote on this
\* connection and has not had answered, so the next read_reply returns an
\* answer to one of the caller's own requests: sync ids are not reused
\* within a connection, and nothing of an earlier connection or of
\* beer_reload_schema is left on the stream.
RepliesAnswerWritten ==
    pc = "idle" /\ ~broken =>
        /\ IsInjective(InFlight)
        /\ ToSet(InFlight) \subseteq ToSet(written) \ answered

\* The cache a pair of replies describes: each space of the _vspace reply
\* under its number and name, with exactly the indexes the _vindex reply
\* lists for it.
CacheOf(sp, ix) ==
    [byName |-> [n \in {t.name : t \in ToSet(sp)} |->
                    CHOOSE no \in SpaceIds : [sp |-> no, name |-> n] \in ToSet(sp)],
     byNo   |-> [no \in {t.sp : t \in ToSet(sp)} |->
                    {t.name : t \in {u \in ToSet(ix) : u.sp = no}}]]

\* When beer_reload_schema returns 0, the cache holds exactly what the two
\* system-space replies it read describe, whichever of them arrived first.
ReloadReflectsServer ==
    pc = "idle" /\ result = "ok" => cache = CacheOf(replied.sp, replied.ix)

\* When beer_reload_schema returns 0, every index the _vindex reply lists
\* for a space of the _vspace reply is in the cache: add_indexes stopping
\* at an index whose space it does not know (-1) fails the reload.
ReloadLoadsAllIndexes ==
    pc = "idle" /\ result = "ok" =>
        \A t \in ToSet(replied.ix) :
            t.sp \in {u.sp : u \in ToSet(replied.sp)} => Stoiid(cache, t.sp, t.name)

\* When beer_reload_schema returns 0, the cache knows no space, by name or
\* by number, that the _vspace reply it read does not list: a reload
\* replaces the cache rather than adding to what an earlier one left.
ReloadForgetsDropped ==
    pc = "idle" /\ result = "ok" =>
        /\ DOMAIN cache.byNo \subseteq {u.sp : u \in ToSet(replied.sp)}
        /\ DOMAIN cache.byName \subseteq {u.name : u \in ToSet(replied.sp)}

\* A started reload always returns (the read loop neither blocks forever
\* nor spins), whether the replies come in either order, with errors, or
\* the connection breaks.
ReloadTerminates == pc = "read" ~> pc = "idle"

=============================================================================
