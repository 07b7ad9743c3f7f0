--------------------------- MODULE MCBeerLogCheck ---------------------------
(***************************************************************************)
(* The log checks in one run.  conf, fixed in Init, picks the instance     *)
(* whose steps a behaviour takes; the other instance stays in its initial  *)
(* state.  "reader": BeerLog, beer_log_next reading one damaged file byte  *)
(* by byte.  "stream": BeerLogStream, an xlog or snapshot stream opened,   *)
(* read, reopened, closed and freed over the files below.                  *)
(***************************************************************************)
EXTENDS BeerLog

\* The files a stream may be opened on: a path or stdin; the text header
\* intact, missing (fopen fails), empty, of another version, or without
\* the blank line; the magic of either log type; a binary part of rows,
\* corrupt records and an EOF marker that is intact, damaged or cut, with
\* and without a record before it.
LogFile(p, h, m, b, e) == [path |-> p, hdr |-> h, magic |-> m, body |-> b, eof |-> e]

StreamFiles ==
    { LogFile("path",  "ok",      "xlog", <<"corrupt", "row">>, "clean"),
      LogFile("path",  "ok",      "xlog", <<"row">>,            "clean"),
      LogFile("stdin", "ok",      "xlog", <<>>,                 "badmarker"),
      LogFile("path",  "ok",      "xlog", <<"row">>,            "badmarker"),
      LogFile("path",  "ok",      "snap", <<>>,                 "cut"),
      LogFile("path",  "ok",      "snap", <<"row">>,            "clean"),
      LogFile("path",  "missing", "xlog", <<>>,                 "clean"),
      LogFile("path",  "empty",   "xlog", <<>>,                 "clean"),
      LogFile("path",  "version", "snap", <<>>,                 "clean"),
      LogFile("path",  "noblank", "xlog", <<>>,                 "clean") }

VARIABLES conf, kind, phase, fd, openFiles, nextFd, cur, at, serror,
          fileErr, last, calls

streamVars == <<kind, phase, fd, openFiles, nextFd, cur, at, serror,
                fileErr, last, calls>>

allVars == <<conf, vars, streamVars>>

S == INSTANCE BeerLogStream WITH error <- serror, Files <- StreamFiles,
        Kinds <- {"xlog", "snap"}, MaxCalls <- 6

CheckInit == Init /\ S!Init /\ conf \in {"reader", "stream"}

CheckNext ==
    /\ UNCHANGED conf
    /\ CASE conf = "reader" -> Next /\ UNCHANGED streamVars
         [] OTHER           -> S!Next /\ UNCHANGED vars

CheckSpec == CheckInit /\ [][CheckNext]_allVars

StreamTypeOK == S!TypeOK

FailureMeansFileError == S!FailureMeansFileError
NoFileLeak == S!NoFileLeak
=============================================================================
