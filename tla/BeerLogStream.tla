---------------------------- MODULE BeerLogStream ----------------------------
(***************************************************************************)
(* The xlog and snapshot streams of src/beerrpl (beer_xlog.c and           *)
(* beer_snapshot.c, which differ only in the log type and in serving       *)
(* read_request or read_tuple) over beer_log_open and beer_log_close of    *)
(* beer_log.c: a stream is made, opened on a file, read, reopened on       *)
(* another file, closed and freed, in any order the caller chooses.        *)
(*                                                                         *)
(* A file is a record: how it is named (a path, or NULL for stdin), its    *)
(* text header (which beer_log_open reads), its magic, and its binary part *)
(* as the outcomes beer_log_next_to meets in order: a "row" that decodes,  *)
(* a "corrupt" record (a crc or decode failure, ECORRUPT), then the end: a *)
(* "clean" EOF marker, a "badmarker" (other bytes in its place) or a "cut" *)
(* one (fewer than four bytes left).  BeerLog models that reading byte     *)
(* by byte; here each outcome is one call.  l->fd is Null, Stdin, or the    *)
(* number of a FILE that fopen returned.                                   *)
(***************************************************************************)
EXTENDS Integers, Sequences, FiniteSets

CONSTANTS
    Files,         \* the files a caller may open
    Kinds,         \* "xlog" (beer_xlog), "snap" (beer_snapshot)
    AllocMayFail,  \* whether beer_mem_alloc may return NULL
    MaxCalls       \* bound on the calls of one behaviour

VARIABLES
    kind,       \* l->type, and which constructor made the stream
    phase,      \* the caller's handle: "none", "made", "gone" (freed)
    fd,         \* l->fd
    openFiles,  \* FILEs fopen returned that fclose has not closed
    nextFd,     \* the number the next fopen returns
    cur,        \* the file the stream was last opened on ("none" before)
    at,         \* the next outcome of cur's binary part
    error,      \* l->error
    fileErr,    \* ghost: a read error occurred since cur was opened
    last,       \* ghost: [call, ret] of the caller's last call
    calls

vars == <<kind, phase, fd, openFiles, nextFd, cur, at, error, fileErr, last,
          calls>>

\* The FILE pointers l->fd holds: NULL, stdin, or what fopen returned.
Null == 0
Stdin == -1

Allocs == IF AllocMayFail THEN BOOLEAN ELSE {TRUE}

Ret(c, r) == last' = [call |-> c, ret |-> r]

Call == /\ phase = "made" /\ calls < MaxCalls
        /\ calls' = calls + 1

Init ==
    /\ kind \in Kinds /\ phase = "none"
    /\ fd = Null /\ openFiles = {} /\ nextFd = 1
    /\ cur = "none" /\ at = 1
    /\ error = "EOK" /\ fileErr = FALSE
    /\ last = [call |-> "none", ret |-> 0]
    /\ calls = 0

-----------------------------------------------------------------------------
(* beer_xlog(s) / beer_snapshot(s): beer_stream_init (an allocation when   *)
(* s is NULL), then s->data, zeroed (l->fd NULL, l->error EOK); if that    *)
(* fails, the stream is freed when it was allocated here and NULL is       *)
(* returned.                                                               *)
Create(heap) ==
    /\ phase = "none" /\ calls < MaxCalls
    /\ calls' = calls + 1
    /\ \E okS, okD \in Allocs :
         LET ok == (okS \/ ~heap) /\ okD IN
         /\ phase' = IF ok THEN "made" ELSE "none"
         /\ Ret("create", IF ok THEN 0 ELSE -1)
    /\ UNCHANGED <<kind, fd, openFiles, nextFd, cur, at, error, fileErr>>

CloseEffect ==
    /\ openFiles' = IF fd \notin {Null, Stdin} THEN openFiles \ {fd} ELSE openFiles
    /\ fd' = Null

\* The header check of beer_log_open that a file fails first ("ok": none),
\* with the error it sets: fgets of the file type or of the version line
\* returning NULL, the magic of another log type, another version, no
\* blank line before the end of the file.
HeaderError(f) ==
    CASE f.hdr = "empty"        -> "ESYSTEM"
      [] f.magic # kind         -> "ETYPE"
      [] f.hdr = "version"      -> "EVERSION"
      [] f.hdr = "noblank"      -> "EFAIL"
      [] OTHER                  -> "EOK"

(* beer_xlog_open / beer_snapshot_open: beer_log_open.  l->fd is replaced  *)
(* by fopen's result (or stdin) whatever it held; fopen failing, or a      *)
(* header check failing, goes to beer_log_open_err: the error is set,      *)
(* beer_log_close runs, -1 is returned.  On success l->offset and the      *)
(* current value are reset; l->error is left as it was.                    *)
LogOpen(f) ==
    /\ Call
    /\ IF f.path = "path" /\ f.hdr = "missing"
       THEN /\ error' = "ESYSTEM" /\ fd' = Null
            /\ UNCHANGED <<openFiles, nextFd, cur, at, fileErr>>
            /\ Ret("open", -1)
       ELSE LET h == IF f.path = "stdin" THEN Stdin ELSE nextFd
                opened == IF f.path = "stdin" THEN openFiles ELSE openFiles \cup {h}
            IN /\ nextFd' = IF f.path = "stdin" THEN nextFd ELSE nextFd + 1
               /\ IF HeaderError(f) # "EOK"
                  THEN /\ error' = HeaderError(f) /\ fd' = Null
                       /\ openFiles' = opened \ {h}
                       /\ UNCHANGED <<cur, at, fileErr>>
                       /\ Ret("open", -1)
                  ELSE /\ fd' = h /\ openFiles' = opened
                       /\ cur' = f /\ at' = 1 /\ fileErr' = FALSE
                       /\ UNCHANGED error
                       /\ Ret("open", 0)
    /\ UNCHANGED <<kind, phase>>

\* What beer_xlog_request returns for the outcome o of beer_log_next_to
\* (err: the error it set, "none" if it set none), l->error being e after.
RequestRet(err, o, e) ==
    IF err # "none" THEN -1
    ELSE IF o = "row" THEN 0
    ELSE IF e = "EOK" THEN 1 ELSE -1

(* beer_log_eof at the end of f's binary part.  It reads the marker back  *)
(* only when ftello is l->offset + 4.  l->offset is the start of the       *)
(* binary part (beer_log_open) or the end of the last row header read, and *)
(* every record holds at least its row header, so the end lies there only *)
(* when no record precedes it and four bytes were read: then a marker that *)
(* is not the EOF marker is ECORRUPT.  Anywhere else, and for a cut marker, *)
(* the end is taken as the end.                                            *)
EndError(f) == IF f.eof = "badmarker" /\ f.body = <<>> THEN "ECORRUPT" ELSE "none"

(* beer_xlog_request / beer_snapshot_read_tuple: beer_log_next_to, then 1  *)
(* if it returned NULL with l->error EOK, 0 for a row, -1 otherwise.  A    *)
(* row whose payload allocation fails is skipped with EMEMORY; at the end  *)
(* of the file the error is EndError.  The caller reads only while the     *)
(* stream has a file (l->fd is not NULL).                                  *)
Request ==
    /\ Call
    /\ fd # Null
    /\ \E alloc \in Allocs :
         LET endOf == at > Len(cur.body)
             o == IF endOf THEN cur.eof ELSE cur.body[at]
             err == CASE endOf -> EndError(cur)
                      [] o = "row" /\ ~alloc -> "EMEMORY"
                      [] o = "corrupt" -> "ECORRUPT"
                      [] OTHER -> "none"
         IN /\ at' = IF endOf THEN at ELSE at + 1
            /\ error' = IF err = "none" THEN error ELSE err
            /\ fileErr' = (fileErr \/ err # "none")
            /\ Ret("request", RequestRet(err, o, error'))
    /\ UNCHANGED <<kind, phase, fd, openFiles, nextFd, cur>>

\* beer_xlog_close / beer_snapshot_close.
LogClose ==
    /\ Call
    /\ CloseEffect
    /\ Ret("close", 0)
    /\ UNCHANGED <<kind, phase, nextFd, cur, at, error, fileErr>>

\* beer_stream_free: s->free (beer_xlog_free: beer_log_close, s->data
\* freed), then the stream.
Free ==
    /\ Call
    /\ CloseEffect
    /\ phase' = "gone"
    /\ Ret("free", 0)
    /\ UNCHANGED <<kind, nextFd, cur, at, error, fileErr>>

Next ==
    \/ \E heap \in BOOLEAN : Create(heap)
    \/ \E f \in Files : LogOpen(f)
    \/ Request \/ LogClose \/ Free

Spec == Init /\ [][Next]_vars

-----------------------------------------------------------------------------
(* Properties *)

TypeOK ==
    /\ phase \in {"none", "made", "gone"}
    /\ fd \in {Null, Stdin} \cup (1 .. nextFd)
    /\ openFiles \subseteq 1 .. nextFd
    /\ error \in {"EOK", "ESYSTEM", "ETYPE", "EVERSION", "EFAIL", "EMEMORY", "ECORRUPT"}

FailureMeansFileError ==
    (last.call = "request" /\ last.ret = -1) => fileErr

(* Every FILE beer_log_open obtained from fopen is closed again, by        *)
(* beer_log_close or by an open that fails, before l->fd is pointed at     *)
(* another one: the only FILE open is the stream's own.                    *)
NoFileLeak == openFiles \subseteq {fd}

====
