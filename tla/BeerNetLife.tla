---------------------------- MODULE BeerNetLife ----------------------------
(***************************************************************************)
(* The life of a net stream as memory: beer_net (beer_net.c), beer_set     *)
(* (beer_opt_set in beer_opt.c), beer_connect with the beer_init it makes  *)
(* on the first call, beer_close, and beer_stream_free (beer_stream.c),    *)
(* which runs beer_net_free and beer_opt_free.                             *)
(*                                                                         *)
(* A block that beer_mem_alloc returns is a number; live holds those not   *)
(* yet given to beer_mem_free.  Each pointer field of the stream is an     *)
(* entry of ptr (0 is NULL); ptr.stream is the block of the struct         *)
(* beer_stream itself, 0 when the caller passed its own.  The first        *)
(* undefined behaviour the code performs is recorded in ub, and the        *)
(* process is over: no action is enabled afterwards.  The socket, the      *)
(* greeting and the reload are outcomes; BeerConnect and BeerNet model     *)
(* them.                                                                   *)
(***************************************************************************)
EXTENDS Naturals, FiniteSets, Sequences

CONSTANTS
    Dflt,          \* beer_opt_init's send_buf and recv_buf (16384)
    BufOpts,       \* the sizes a caller passes to BEER_OPT_SEND_BUF/RECV_BUF
    Uris,          \* URI strings: "plain", "login" (with user:password@), "bad"
    AllocMayFail,  \* whether beer_mem_alloc may return NULL
    MaxCalls       \* bound on the calls of one behaviour

Fields == {"stream", "data", "greeting", "uri", "uristr", "schema", "sbuf", "rbuf"}
Bufs == {"sbuf", "rbuf"}

VARIABLES
    live,       \* blocks allocated and not freed
    nextId,     \* the number the next allocation gets
    ptr,        \* [Fields -> block or 0]
    alloc,      \* s->alloc: the stream struct was allocated by beer_stream_init
    optBuf,     \* opt.send_buf / opt.recv_buf, as [sbuf, rbuf]
    size,       \* sbuf.size / rbuf.size, set by beer_iob_init
    uriSrc,     \* the string that opt->uri's host, service and login point into
    parsed,     \* the URI opt->uri holds: "empty" (never parsed), or one of Uris
    inited,     \* sn->inited
    connected,  \* sn->connected
    phase,      \* the caller's handle: "none" (no stream), "made", "gone" (freed)
    ub,         \* "none", or the undefined behaviour that ended the process
    calls

vars == <<live, nextId, ptr, alloc, optBuf, size, uriSrc, parsed, inited,
          connected, phase, ub, calls>>

Allocs == IF AllocMayFail THEN BOOLEAN ELSE {TRUE}

\* beer_mem_free of the pointers ps, in order: NULL is ignored, a block
\* that is not live (or freed earlier in ps) is a double free.
Frees(ps) == {ps[i] : i \in {j \in DOMAIN ps : ps[j] # 0}}
DoubleFree(ps) ==
    \E i \in DOMAIN ps :
        /\ ps[i] # 0
        /\ \/ ps[i] \notin live
           \/ \E j \in 1 .. i - 1 : ps[j] = ps[i]

Call == /\ phase = "made" /\ ub = "none" /\ calls < MaxCalls
        /\ calls' = calls + 1

Init ==
    /\ live = {} /\ nextId = 1
    /\ ptr = [f \in Fields |-> 0]
    /\ alloc = FALSE
    /\ optBuf = [b \in Bufs |-> 0] /\ size = [b \in Bufs |-> 0]
    /\ uriSrc = 0 /\ parsed = "empty"
    /\ inited = FALSE /\ connected = FALSE
    /\ phase = "none" /\ ub = "none" /\ calls = 0

-----------------------------------------------------------------------------
(* beer_net(s): beer_stream_init (an allocation when s is NULL), s->data,  *)
(* sn->greeting, then beer_opt_init, which sets the defaults and           *)
(* allocates opt->uri.  k is the number of allocations that succeed.  A    *)
(* failed s->data frees the stream (s->free is not set yet) and returns    *)
(* NULL.  A failed greeting or uri calls beer_stream_free, whose           *)
(* beer_net_free reaches beer_schema_free(sn->schema) with the schema      *)
(* still NULL.                                                             *)

\* beer_opt_init: the buffer sizes it sets (opt->uri is the last of the
\* allocations below).
OptInit == [b \in Bufs |-> Dflt]

NetAllocs(heap) ==
    IF heap THEN <<"stream", "data", "greeting", "uri">>
    ELSE <<"data", "greeting", "uri">>

BeerNet(heap) ==
    /\ phase = "none" /\ ub = "none" /\ calls < MaxCalls
    /\ calls' = calls + 1
    /\ LET as == NetAllocs(heap) IN
       \E k \in IF AllocMayFail THEN 0 .. Len(as) ELSE {Len(as)} :
         LET got == {nextId + i - 1 : i \in 1 .. k}
             new == [f \in Fields |->
                       IF \E i \in 1 .. k : as[i] = f
                       THEN nextId + (CHOOSE i \in 1 .. k : as[i] = f) - 1
                       ELSE 0]
         IN /\ nextId' = nextId + k
            /\ CASE k = Len(as) ->
                      /\ live' = live \cup got /\ ptr' = new
                      /\ alloc' = heap /\ phase' = "made"
                      /\ optBuf' = OptInit
                      /\ UNCHANGED ub
                 [] as[k + 1] \in {"stream", "data"} ->
                      UNCHANGED <<live, ptr, alloc, phase, optBuf, ub>>
                 [] OTHER ->
                      /\ live' = live \cup got /\ ptr' = new
                      /\ ub' = "null_deref"
                      /\ UNCHANGED <<alloc, phase, optBuf>>
    /\ UNCHANGED <<size, uriSrc, parsed, inited, connected>>

\* Mutant of SetUri: opt->uristr assigned only when the duplicate succeeds,
\* so after a failure it still holds the string just freed.
SetUriKeep(u) ==
    /\ Call
    /\ \E ok \in Allocs :
         /\ live' = (live \ {ptr.uristr}) \cup (IF ok THEN {nextId} ELSE {})
         /\ ptr' = IF ok THEN [ptr EXCEPT !.uristr = nextId] ELSE ptr
         /\ nextId' = IF ok THEN nextId + 1 ELSE nextId
         /\ IF ok THEN uriSrc' = nextId /\ parsed' = u
            ELSE UNCHANGED <<uriSrc, parsed>>
         /\ ub' = IF DoubleFree(<<ptr.uristr>>) THEN "double_free" ELSE ub
    /\ UNCHANGED <<alloc, optBuf, size, inited, connected, phase>>

(* beer_set(s, BEER_OPT_URI, u): the old uristr is freed, the new one      *)
(* duplicated (NULL on failure, with opt->uri still pointing into the old  *)
(* string) and parsed.                                                     *)
SetUri(u) ==
    /\ Call
    /\ \E ok \in Allocs :
         /\ live' = (live \ {ptr.uristr}) \cup (IF ok THEN {nextId} ELSE {})
         /\ ptr' = [ptr EXCEPT !.uristr = IF ok THEN nextId ELSE 0]
         /\ nextId' = IF ok THEN nextId + 1 ELSE nextId
         /\ IF ok THEN uriSrc' = nextId /\ parsed' = u
            ELSE UNCHANGED <<uriSrc, parsed>>
         /\ ub' = IF DoubleFree(<<ptr.uristr>>) THEN "double_free" ELSE ub
    /\ UNCHANGED <<alloc, optBuf, size, inited, connected, phase>>

\* beer_set(s, BEER_OPT_SEND_BUF / RECV_BUF, v): the option only.
SetBuf(b, v) ==
    /\ Call
    /\ optBuf' = [optBuf EXCEPT ![b] = v]
    /\ UNCHANGED <<live, nextId, ptr, alloc, size, uriSrc, parsed, inited,
                   connected, phase, ub>>

-----------------------------------------------------------------------------
(* beer_init: beer_schema_new (an allocation; sn->schema is NULL if it     *)
(* fails), then beer_iob_init for sbuf and rbuf, each setting its size and *)
(* allocating only for a size above 0.  The first failure returns -1       *)
(* without undoing the steps before it; a later call overwrites their      *)
(* pointers.  failAt is the step whose allocation fails ("none": none).    *)

InitStep == [schema |-> 1, sbuf |-> 2, rbuf |-> 3]

NeedsAlloc(f) == f = "schema" \/ optBuf[f] > 0

InitFails ==
    {"none"} \cup IF AllocMayFail THEN {f \in DOMAIN InitStep : NeedsAlloc(f)}
                  ELSE {}

\* The state beer_init leaves: pointers, sizes, heap, and whether it
\* returned 0.
InitResult(failAt) ==
    LET stop == IF failAt = "none" THEN 3 ELSE InitStep[failAt]
        reached == {f \in DOMAIN InitStep : InitStep[f] <= stop}
        got == {f \in reached : NeedsAlloc(f) /\ f # failAt}
        id(f) == nextId + Cardinality({g \in got : InitStep[g] < InitStep[f]})
    IN [ptr    |-> [f \in Fields |-> IF f \in reached
                                     THEN IF f \in got THEN id(f) ELSE 0
                                     ELSE ptr[f]],
        size   |-> [b \in Bufs |-> IF b \in reached THEN optBuf[b] ELSE size[b]],
        live   |-> live \cup {id(f) : f \in got},
        nextId |-> nextId + Cardinality(got),
        ok     |-> failAt = "none"]

(* beer_connect: beer_init unless inited (its result is not checked),      *)
(* beer_close when connected, beer_io_connect, which reads opt->uri, and   *)
(* the greeting.  For a URI with login and password, beer_authenticate     *)
(* sends the auth request, reads its reply and, if it succeeds, runs       *)
(* beer_reload_schema, whose replies go into sn->schema.  beer_io_connect  *)
(* sets connected before the greeting is read.  up: the socket connects;   *)
(* greet: the greeting arrives; auth: the server accepts the login and     *)
(* answers the reload.                                                     *)
BeerConnect ==
    /\ Call
    /\ \E failAt \in InitFails, up, greet, auth \in BOOLEAN :
         LET r == IF inited
                  THEN [ptr |-> ptr, size |-> size, live |-> live,
                        nextId |-> nextId, ok |-> TRUE]
                  ELSE InitResult(failAt)
             sock == up /\ parsed \in {"plain", "login"}
         IN /\ ptr' = r.ptr /\ size' = r.size /\ live' = r.live
            /\ nextId' = r.nextId
            /\ inited' = (inited \/ r.ok)
            /\ connected' = sock
            /\ ub' = CASE uriSrc # 0 /\ uriSrc \notin r.live -> "use_after_free"
                       [] sock /\ greet /\ parsed = "login" /\ auth
                            /\ r.ptr.schema = 0 -> "null_deref"
                       [] OTHER -> ub
    /\ UNCHANGED <<alloc, optBuf, uriSrc, parsed, phase>>

\* beer_close: the buffers cleared (not freed) and beer_io_close.
BeerClose ==
    /\ Call
    /\ connected' = FALSE
    /\ UNCHANGED <<live, nextId, ptr, alloc, optBuf, size, uriSrc, parsed,
                   inited, phase, ub>>

\* beer_opt_free: uristr when set, then uri.
OptFree == <<ptr.uristr, ptr.uri>>

\* The end of beer_stream_free: the struct itself when s->alloc.
StreamFreeSelf == IF alloc THEN ptr.stream ELSE 0

\* Mutant of BeerStreamFree: beer_net_free without beer_iob_free(&sn->rbuf).
BeerStreamFreeNoRbuf ==
    /\ Call
    /\ LET before == <<ptr.greeting, ptr.sbuf>> \o OptFree
           after == <<ptr.schema, ptr.data, StreamFreeSelf>>
       IN IF DoubleFree(before)
          THEN ub' = "double_free" /\ UNCHANGED <<live, ptr, phase, connected>>
          ELSE IF ptr.schema = 0
          THEN /\ ub' = "null_deref" /\ live' = live \ Frees(before)
               /\ connected' = FALSE /\ UNCHANGED <<ptr, phase>>
          ELSE /\ ub' = IF DoubleFree(before \o after) THEN "double_free" ELSE ub
               /\ live' = live \ Frees(before \o after)
               /\ ptr' = [ptr EXCEPT !.data = 0]
               /\ connected' = FALSE /\ phase' = "gone"
    /\ UNCHANGED <<nextId, alloc, optBuf, size, uriSrc, parsed, inited>>

(* beer_stream_free: s->free, that is beer_net_free: beer_io_close, the    *)
(* greeting, sbuf and rbuf (beer_iob_free: when buf is set), beer_opt_free *)
(* (uristr when set, then uri), beer_schema_free(sn->schema), which        *)
(* dereferences it, the schema block and s->data; then the stream itself   *)
(* when s->alloc.                                                          *)
BeerStreamFree ==
    /\ Call
    /\ LET before == <<ptr.greeting, ptr.sbuf, ptr.rbuf>> \o OptFree
           after == <<ptr.schema, ptr.data, StreamFreeSelf>>
       IN IF DoubleFree(before)
          THEN ub' = "double_free" /\ UNCHANGED <<live, ptr, phase, connected>>
          ELSE IF ptr.schema = 0
          THEN /\ ub' = "null_deref" /\ live' = live \ Frees(before)
               /\ connected' = FALSE /\ UNCHANGED <<ptr, phase>>
          ELSE /\ ub' = IF DoubleFree(before \o after) THEN "double_free" ELSE ub
               /\ live' = live \ Frees(before \o after)
               /\ ptr' = [ptr EXCEPT !.data = 0]
               /\ connected' = FALSE /\ phase' = "gone"
    /\ UNCHANGED <<nextId, alloc, optBuf, size, uriSrc, parsed, inited>>

Next ==
    \/ \E heap \in BOOLEAN : BeerNet(heap)
    \/ \E u \in Uris : SetUri(u)
    \/ \E b \in Bufs, v \in BufOpts : SetBuf(b, v)
    \/ BeerConnect \/ BeerClose \/ BeerStreamFree

Spec == Init /\ [][Next]_vars

-----------------------------------------------------------------------------
(* Properties *)

TypeOK ==
    /\ live \subseteq Nat /\ ptr \in [Fields -> Nat]
    /\ optBuf \in [Bufs -> BufOpts \cup {0, Dflt}] /\ size \in [Bufs -> BufOpts \cup {0, Dflt}]
    /\ parsed \in Uris \cup {"empty"}
    /\ phase \in {"none", "made", "gone"}
    /\ ub \in {"none", "null_deref", "use_after_free", "double_free"}

\* The allocator never gets a block twice: no sequence of beer_set,
\* beer_connect, beer_close and failing allocations makes beer_opt_set or
\* beer_net_free free a block that is already free.
NoDoubleFree == ub # "double_free"

\* After beer_stream_free returns, no block the stream's fields point to
\* is still allocated: beer_net_free and beer_opt_free release the
\* greeting, both buffers, the URI, the schema, the data and the stream.
StreamFreeReleasesAll ==
    phase = "gone" => \A f \in Fields : ptr[f] \notin live

\* The code never dereferences NULL: freeing a stream that has no schema
\* (never connected, or created by a beer_net that failed half-way) must
\* not call beer_schema_free(NULL).
NoNullDeref == ub # "null_deref"

\* beer_io_connect never reads a URI through a freed string: after a
\* beer_set(BEER_OPT_URI) whose duplicate fails, opt->uri still points
\* into the string that call freed.
NoUseAfterFree == ub # "use_after_free"

\* Every allocated block is reachable from the stream: beer_init called
\* again by beer_connect after a failed beer_init must not overwrite a live
\* schema or buffer.
NoLeak == ub = "none" => \A b \in live : \E f \in Fields : ptr[f] = b

====
