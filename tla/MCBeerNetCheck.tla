--------------------------- MODULE MCBeerNetCheck ---------------------------
(***************************************************************************)
(* Two instances of BeerNet over the same variables, checked in one run;   *)
(* conf, fixed in Init, says which one a behaviour follows.                *)
(*   pipeline: a fixed schema, up to 3 pipelined requests over a send      *)
(*             buffer of 2, two sessions, a link that may break.           *)
(*   faults:   server errors, failing key-object allocation and schema     *)
(*             changes by other clients (create and drop, two of them)     *)
(*             while one request and reloads run.                          *)
(*   requests: BeerRequest, the frames the encoders write into the stream: *)
(*             a 3-bit reqid (INT64_MAX is 3, UINT64_MAX is 7) starting at *)
(*             0 or just below either wrap point, six request types, four  *)
(*             calls, failing allocation and writes.                       *)
(*   life:     BeerNetLife, the stream's memory from beer_net to           *)
(*             beer_stream_free, every allocation able to fail, five calls. *)
(***************************************************************************)
EXTENDS Integers, Sequences, TLC

CONSTANTS s1, s2, pk

VARIABLES connected, link, reqid, wrcnt, sbuf, wire, working, inbox,
          catalog, cache, pc, sloaded, bkp, result, broken, sessions, ddl,
          written, answered, replied, conf,
          req, kobj, tobj, rqid, rwire, last, calls,
          live, nextId, ptr, alloc, optBuf, size, uriSrc, parsed, inited,
          lconnected, phase, ub, lcalls

Names == (1 :> s1) @@ (2 :> s2)

P == INSTANCE BeerNet WITH
       SpaceIds <- {1, 2}, SpaceName <- Names, PK <- pk, InitSpaces <- {1, 2},
       SbufCap <- 2, MaxReqs <- 3, MaxSessions <- 2, MaxDDL <- 0,
       DDLOps <- {}, ServerMayErr <- FALSE, LinkMayFail <- TRUE,
       AllocMayFail <- FALSE, UseUnconnected <- FALSE

F == INSTANCE BeerNet WITH
       SpaceIds <- {1, 2}, SpaceName <- Names, PK <- pk, InitSpaces <- {2},
       SbufCap <- 2, MaxReqs <- 1, MaxSessions <- 1, MaxDDL <- 2,
       DDLOps <- {"create", "drop"}, ServerMayErr <- TRUE, LinkMayFail <- TRUE,
       AllocMayFail <- TRUE, UseUnconnected <- FALSE

Rq == INSTANCE BeerRequest WITH
        reqid <- rqid, wire <- rwire, W <- 3, StartIds <- {0, 2, 6},
        Types <- {"SELECT", "UPDATE", "UPSERT", "INSERT", "CALL", "EVAL"},
        Nums <- {1}, MaxCalls <- 4, AllocMayFail <- TRUE, WriteMayFail <- TRUE

rqVars == <<req, kobj, tobj, rqid, rwire, last, calls>>

L == INSTANCE BeerNetLife WITH
       connected <- lconnected, calls <- lcalls, Dflt <- 2, BufOpts <- {0},
       Uris <- {"plain", "login", "bad"}, AllocMayFail <- TRUE, MaxCalls <- 5

lifeVars == <<live, nextId, ptr, alloc, optBuf, size, uriSrc, parsed, inited,
              lconnected, phase, ub, lcalls>>

netState == <<connected, link, reqid, wrcnt, sbuf, wire, working, inbox,
              catalog, cache, pc, sloaded, bkp, result, broken, sessions, ddl,
              written, answered, replied>>

allVars == <<connected, link, reqid, wrcnt, sbuf, wire, working, inbox,
             catalog, cache, pc, sloaded, bkp, result, broken, sessions, ddl,
             written, answered, replied, conf, rqVars, lifeVars>>

Init == /\ L!Init
        /\ \/ conf = "pipeline" /\ P!Init /\ Rq!Init /\ rqid = 0
           \/ conf = "faults" /\ F!Init /\ Rq!Init /\ rqid = 0
           \/ conf = "requests" /\ P!Init /\ Rq!Init
           \/ conf = "life" /\ P!Init /\ Rq!Init /\ rqid = 0

Next == /\ UNCHANGED conf
        /\ CASE conf = "pipeline" -> P!Next /\ UNCHANGED <<rqVars, lifeVars>>
             [] conf = "faults"   -> F!Next /\ UNCHANGED <<rqVars, lifeVars>>
             [] conf = "requests" -> Rq!Next /\ UNCHANGED <<netState, lifeVars>>
             [] OTHER             -> L!Next /\ UNCHANGED <<netState, rqVars>>

\* The fairly scheduled steps of BeerNet (the reload loop and the server),
\* of the instance the behaviour follows.
Fairness ==
    /\ WF_netState(conf = "pipeline" /\ P!ReloadRead)
    /\ WF_netState(conf = "pipeline" /\ P!ReloadFinish)
    /\ WF_netState(conf = "pipeline" /\ P!ServerRecv)
    /\ WF_netState(conf = "pipeline" /\ \E i \in 1 .. Len(working) : P!ServerReply(i))
    /\ WF_netState(conf = "faults" /\ F!ReloadRead)
    /\ WF_netState(conf = "faults" /\ F!ReloadFinish)
    /\ WF_netState(conf = "faults" /\ F!ServerRecv)
    /\ WF_netState(conf = "faults" /\ \E i \in 1 .. Len(working) : F!ServerReply(i))

Spec == Init /\ [][Next]_allVars /\ Fairness

\* The shape of the connection state (TypeOK of BeerNet): in particular
\* the send buffer never holds more requests than it has room for.
TypeOK == CASE conf = "pipeline" -> P!TypeOK
            [] conf = "faults"   -> F!TypeOK
            [] conf = "requests" -> Rq!TypeOK
            [] OTHER             -> L!TypeOK

\* wrcnt counts exactly the replies still due, in both configurations
\* (WrcntCountsPending of BeerNet).
WrcntCountsPending ==
    CASE conf = "pipeline" -> P!WrcntCountsPending
      [] conf = "faults"   -> F!WrcntCountsPending
      [] OTHER             -> TRUE

\* With a server that never answers with an error, every reply the caller
\* reads answers a request it wrote on this connection, in the order
\* written (RepliesAnswerWritten of BeerNet).
RepliesAnswerWritten == conf = "pipeline" => P!RepliesAnswerWritten

\* With a schema nobody changes, a reload that returns 0 leaves exactly the
\* server's schema in the cache (ReloadReflectsServer of BeerNet).
ReloadReflectsServer == conf = "pipeline" => P!ReloadReflectsServer

\* A reload that has sent its selects always returns (ReloadTerminates of
\* BeerNet).
ReloadTerminates == pc = "read" ~> pc = "idle"

\* beer_request_compile returns -1 exactly when it wrote no frame, and
\* otherwise the sync of the frame it wrote, across the reqid wrap points
\* (CompileResultTellsWrite of BeerRequest).
CompileResultTellsWrite == [][conf = "requests" => Rq!CompileTellsWrite]_allVars


\* No call sequence makes the library free a block twice, failing
\* allocations included (NoDoubleFree of BeerNetLife).
NoDoubleFree == conf = "life" => L!NoDoubleFree

\* beer_stream_free releases every block the stream points to
\* (StreamFreeReleasesAll of BeerNetLife).
StreamFreeReleasesAll == conf = "life" => L!StreamFreeReleasesAll

=============================================================================
