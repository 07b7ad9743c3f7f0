------------------------------ MODULE BeerRequest ------------------------------
(***************************************************************************)
(* The request encoders of src/beer: the request descriptor of             *)
(* beer_request.c (constructors, setters, beer_request_writeout and        *)
(* beer_request_compile) and the direct encoders beer_select, beer_insert/ *)
(* beer_replace, beer_update, beer_upsert, beer_call/beer_call_16/         *)
(* beer_eval, beer_ping and beer_auth_raw, all writing into one stream.    *)
(*                                                                         *)
(* A frame on the wire is [sync, code, nd, body]: nd is the count written  *)
(* into the body map's header, body the sequence of <<field, value>>       *)
(* pairs that follow it.  Numbers the caller passes are small integers; a  *)
(* key, tuple or ops object is "arr" (one well-formed msgpack array) or    *)
(* "bad" (anything beer_object_verify refuses); a function name or         *)
(* expression is "name".  s->reqid, a uint64_t, is a W-bit counter, so     *)
(* that INT64_MAX and UINT64_MAX are reached: the wrap guard of            *)
(* beer_request_writeout is width-generic (it masks off the top bit).      *)
(***************************************************************************)
EXTENDS Integers, Sequences

CONSTANTS
    W,             \* bits of s->reqid (64 in the code)
    StartIds,      \* values s->reqid may have when the model starts
    Types,         \* request types the caller constructs descriptors of
    Nums,          \* numbers passed for space, index, offset, limit, ...
    MaxCalls,      \* bound on the caller's calls
    AllocMayFail,  \* whether beer_object()/beer_mem_alloc may fail
    WriteMayFail   \* whether s->writev may fail

ASSUME W \in 2 .. 8 /\ StartIds \subseteq 0 .. (2^W - 1)

UMax   == 2^W              \* UINT64_MAX + 1
IntMax == 2^(W - 1) - 1    \* INT64_MAX
UINT32_MAX == 99           \* the default limit of beer_request_init

\* Mutant of Int64: the sync handed back unconverted.
Int64Unconverted(u) == u

\* The int64_t a uint64_t is converted to (two's complement).
Int64(u) == IF u > IntMax THEN u - UMax ELSE u

\* enum beer_request_t: the IPROTO request codes.
Code == [SELECT |-> 1, INSERT |-> 2, REPLACE |-> 3, UPDATE |-> 4,
         DELETE |-> 5, CALL_16 |-> 6, AUTH |-> 7, EVAL |-> 8,
         UPSERT |-> 9, CALL |-> 10, PING |-> 64]
AllTypes == DOMAIN Code

\* is_call() of beer_proto_internal.h.
IsCall(tp) == tp \in {"CALL", "CALL_16"}

Null == "null"
NoSync == -1   \* the sync argument of beer_request_writeout is NULL
Objs == {"arr", "bad"}

VARIABLES
    req,      \* the descriptor, or NoReq before a constructor / after free
    kobj,     \* req->key_object: "none", or its content (Objs, or "junk")
    tobj,     \* req->tuple_object: likewise
    reqid,    \* s->reqid
    wire,     \* frames handed to s->writev, in order
    last,     \* ghost: [call, ret] of the caller's last call
    calls     \* calls made so far

vars == <<req, kobj, tobj, reqid, wire, last, calls>>

Frame(sync, tp, nd, body) == [sync |-> sync, code |-> Code[tp], nd |-> nd, body |-> body]

Call(name, ret) == /\ last' = [call |-> name, ret |-> ret]
                   /\ calls' = calls + 1

Writes == IF WriteMayFail THEN BOOLEAN ELSE {TRUE}
Allocs == IF AllocMayFail THEN BOOLEAN ELSE {TRUE}

\* s->writev of one frame: appended, or -1 with nothing on the wire.
Writev(f, ok) == wire' = IF ok THEN Append(wire, f) ELSE wire

-----------------------------------------------------------------------------
(* The descriptor of beer_request.c *)

\* The descriptor beer_request_init leaves: zeroed, limit UINT32_MAX.
Fresh(tp) == [type |-> tp, space |-> 0, index |-> 0, offset |-> 0,
              limit |-> UINT32_MAX, iterator |-> 0, index_base |-> 0,
              key |-> Null, tuple |-> Null]
NoReq == Fresh("none")

Init ==
    /\ req = NoReq /\ kobj = "none" /\ tobj = "none"
    /\ reqid \in StartIds
    /\ wire = <<>>
    /\ last = [call |-> "none", ret |-> 0]
    /\ calls = 0

\* BEER_REQUEST_CUSTOM(NM, CNM) -> beer_request_init: zeroed, limit
\* UINT32_MAX, the type set.  The caller passes NULL, so the descriptor is
\* allocated and NULL is returned if that fails.
RequestNew(tp) ==
    /\ calls < MaxCalls /\ req = NoReq
    /\ \E ok \in Allocs :
         /\ req' = IF ok THEN Fresh(tp) ELSE NoReq
         /\ Call("new", IF ok THEN 0 ELSE -1)
    /\ UNCHANGED <<kobj, tobj, reqid, wire>>

\* beer_request_free: the owned key and tuple objects are freed.
RequestFree ==
    /\ calls < MaxCalls /\ req # NoReq
    /\ req' = NoReq /\ kobj' = "none" /\ tobj' = "none"
    /\ Call("free", 0)
    /\ UNCHANGED <<reqid, wire>>

\* beer_request_set_space/_index/_offset/_limit/_iterator/_index_base:
\* store the number, return 0.
SetNumber(field) ==
    /\ calls < MaxCalls /\ req # NoReq
    /\ \E v \in Nums : req' = [req EXCEPT ![field] = v]
    /\ Call("set", 0)
    /\ UNCHANGED <<kobj, tobj, reqid, wire>>

NumFields == {"space", "index", "offset", "limit", "iterator", "index_base"}

\* beer_request_set_key / set_tuple: remember the caller's object, which is
\* not verified.  beer_request_set_ops: the tuple for UPDATE, the key for
\* UPSERT, -1 for any other type.
SetKey ==
    /\ calls < MaxCalls /\ req # NoReq
    /\ \E o \in Objs : req' = [req EXCEPT !.key = o]
    /\ Call("set_key", 0)
    /\ UNCHANGED <<kobj, tobj, reqid, wire>>

SetTuple ==
    /\ calls < MaxCalls /\ req # NoReq
    /\ \E o \in Objs : req' = [req EXCEPT !.tuple = o]
    /\ Call("set_tuple", 0)
    /\ UNCHANGED <<kobj, tobj, reqid, wire>>

SetOps ==
    /\ calls < MaxCalls /\ req # NoReq
    /\ \E o \in Objs :
         CASE req.type = "UPDATE" -> req' = [req EXCEPT !.tuple = o] /\ Call("set_ops", 0)
           [] req.type = "UPSERT" -> req' = [req EXCEPT !.key = o] /\ Call("set_ops", 0)
           [] OTHER               -> UNCHANGED req /\ Call("set_ops", -1)
    /\ UNCHANGED <<kobj, tobj, reqid, wire>>

\* beer_request_set_func/_funcz (a call type) and set_expr/_exprz (EVAL):
\* -1 for a type outside allowed or a NULL string, else the name becomes
\* the key.
SetName(allowed) ==
    /\ calls < MaxCalls /\ req # NoReq
    /\ \E s \in {"name", Null} :
         IF req.type \in allowed /\ s # Null
         THEN req' = [req EXCEPT !.key = s] /\ Call("set_name", 0)
         ELSE UNCHANGED req /\ Call("set_name", -1)
    /\ UNCHANGED <<kobj, tobj, reqid, wire>>

\* beer_request_set_key_format: reset the owned key object, or allocate
\* one (NULL: -1); beer_object_vformat into it (-1 on failure, leaving the
\* object half written and req->key where it was); then set_key on it.
SetKeyFormat ==
    /\ calls < MaxCalls /\ req # NoReq
    /\ \E allocOk \in IF kobj = "none" THEN Allocs ELSE {TRUE},
          fmtOk \in Allocs :
         CASE ~allocOk -> UNCHANGED <<req, kobj>> /\ Call("set_key_format", -1)
           [] ~fmtOk   -> kobj' = "junk" /\ UNCHANGED req /\ Call("set_key_format", -1)
           [] OTHER    -> /\ kobj' \in Objs
                          /\ req' = [req EXCEPT !.key = "kobj"]
                          /\ Call("set_key_format", 0)
    /\ UNCHANGED <<tobj, reqid, wire>>

\* beer_request_set_tuple_format: the same on the tuple object.
SetTupleFormat ==
    /\ calls < MaxCalls /\ req # NoReq
    /\ \E allocOk \in IF tobj = "none" THEN Allocs ELSE {TRUE},
          fmtOk \in Allocs :
         CASE ~allocOk -> UNCHANGED <<req, tobj>> /\ Call("set_tuple_format", -1)
           [] ~fmtOk   -> tobj' = "junk" /\ UNCHANGED req /\ Call("set_tuple_format", -1)
           [] OTHER    -> /\ tobj' \in Objs
                          /\ req' = [req EXCEPT !.tuple = "tobj"]
                          /\ Call("set_tuple_format", 0)
    /\ UNCHANGED <<kobj, reqid, wire>>

-----------------------------------------------------------------------------
(* beer_request_writeout and beer_request_compile *)

\* What req->key / req->tuple point at when the frame is written: the
\* caller's object, a name, or the descriptor's own object as it is now.
Deref(p) == CASE p = "kobj" -> kobj [] p = "tobj" -> tobj [] OTHER -> p

\* The field tag of the key pointer, per type (the switch of lines 267-287);
\* Null is its default: return -1.
KeyTag(tp) ==
    CASE tp = "EVAL"                            -> "expression"
      [] IsCall(tp)                             -> "function"
      [] tp \in {"SELECT", "UPDATE", "DELETE"}  -> "key"
      [] tp = "UPSERT"                          -> "ops"
      [] OTHER                                  -> Null

Opt(cond, fld, v) == IF cond THEN <<<<fld, v>>>> ELSE <<>>
One(cond) == IF cond THEN 1 ELSE 0

\* The body of the header map, field by field in the order written.
ReqBody(r) ==
    LET tp == r.type IN
       Opt(Code[tp] < Code["CALL_16"], "space", r.space)
    \o Opt(r.index # 0 /\ tp \in {"SELECT", "UPDATE", "DELETE"}, "index", r.index)
    \o Opt(tp = "SELECT", "limit", r.limit)
    \o Opt(r.offset # 0 /\ tp = "SELECT", "offset", r.offset)
    \o Opt(r.iterator # 0 /\ tp = "SELECT", "iterator", r.iterator)
    \o Opt(r.key # Null, KeyTag(tp), Deref(r.key))
    \o Opt(r.tuple # Null, "tuple", Deref(r.tuple))
    \o Opt(r.index_base # 0 /\ tp \in {"UPDATE", "UPSERT"}, "index_base", r.index_base)

\* nd, counted beside the fields ("nd += 1" in each branch).
ReqNd(r) ==
    LET tp == r.type IN
      One(Code[tp] < Code["CALL_16"])
    + One(r.index # 0 /\ tp \in {"SELECT", "UPDATE", "DELETE"})
    + One(tp = "SELECT")
    + One(r.offset # 0 /\ tp = "SELECT")
    + One(r.iterator # 0 /\ tp = "SELECT")
    + One(r.key # Null)
    + One(r.tuple # Null)
    + One(r.index_base # 0 /\ tp \in {"UPDATE", "UPSERT"})

\* Mutant of WrapGuard: the reset only at exactly INT64_MAX.
WrapGuardExact(syncIn) == IF syncIn = IntMax /\ reqid = IntMax THEN 0 ELSE reqid

\* Lines 219-222: when *sync is INT64_MAX and reqid with its top bit
\* masked off is INT64_MAX, reqid restarts at 0.
WrapGuard(syncIn) ==
    IF syncIn = IntMax /\ reqid % (IntMax + 1) = IntMax THEN 0 ELSE reqid

\* beer_request_writeout(s, req, sync): the sync stamped is the guarded
\* reqid, and reqid moves on before anything can fail; a key on a type
\* without a key tag returns -1 with nothing written; otherwise one writev.
\* It returns 0 or -1; compile returns the sync instead of 0.
Writeout(syncIn, name) ==
    LET id == WrapGuard(syncIn)
        f  == Frame(id, req.type, ReqNd(req), ReqBody(req))
    IN /\ calls < MaxCalls /\ req # NoReq
       /\ reqid' = (id + 1) % UMax
       /\ IF req.key # Null /\ KeyTag(req.type) = Null
          THEN UNCHANGED wire /\ Call(name, -1)
          ELSE \E ok \in Writes :
                 /\ Writev(f, ok)
                 /\ Call(name, IF ~ok THEN -1
                               ELSE IF name = "compile" THEN Int64(id) ELSE 0)
       /\ UNCHANGED <<req, kobj, tobj>>

\* beer_request_writeout with sync NULL, or with a caller's *sync other
\* than INT64_MAX (0 here): no wrap guard.
RequestWriteout == \E syncIn \in {NoSync, 0} : Writeout(syncIn, "writeout")

\* beer_request_compile: writeout with sync = INT64_MAX, returning it.
RequestCompile == Writeout(IntMax, "compile")

-----------------------------------------------------------------------------
(* The direct encoders: each verifies its object arguments (returning -1  *)
(* before anything else), stamps s->reqid++ without a wrap guard and      *)
(* makes one writev, whose result it returns (1 stands for the bytes).    *)

\* beer_object_verify(o, MP_ARRAY) == 0.
Verified(o) == o = "arr"

Encode(name, tp, nd, body, ok) ==
    /\ calls < MaxCalls
    /\ IF ~ok
       THEN UNCHANGED <<reqid, wire>> /\ Call(name, -1)
       ELSE /\ reqid' = (reqid + 1) % UMax
            /\ \E w \in Writes :
                 /\ Writev(Frame(reqid, tp, nd, body), w)
                 /\ Call(name, IF w THEN 1 ELSE -1)
    /\ UNCHANGED <<req, kobj, tobj>>

\* beer_select: a map of 6, every field present.
Select ==
    \E sp, ix, lim, off, it \in Nums, key \in Objs :
       Encode("select", "SELECT", 6,
              <<<<"space", sp>>, <<"index", ix>>, <<"limit", lim>>,
                <<"offset", off>>, <<"iterator", it>>, <<"key", key>>>>,
              Verified(key))

\* beer_store_base, for beer_insert and beer_replace.
StoreBase(op) ==
    \E sp \in Nums, tuple \in Objs :
       Encode("store", op, 2, <<<<"space", sp>>, <<"tuple", tuple>>>>, Verified(tuple))

\* beer_update: key and ops verified; the ops go under the tuple tag.
Update ==
    \E sp, ix \in Nums, key, ops \in Objs :
       Encode("update", "UPDATE", 4,
              <<<<"space", sp>>, <<"index", ix>>, <<"key", key>>, <<"tuple", ops>>>>,
              Verified(key) /\ Verified(ops))

\* beer_upsert: tuple and ops verified.
Upsert ==
    \E sp \in Nums, tuple, ops \in Objs :
       Encode("upsert", "UPSERT", 4,
              <<<<"space", sp>>, <<"tuple", tuple>>, <<"ops", ops>>>>,
              Verified(tuple) /\ Verified(ops))

\* beer_rpc_base, for beer_call, beer_call_16 and beer_eval: -1 for a NULL
\* or empty name, then the arguments are verified.
RpcBase(op) ==
    \E proc \in {"name", Null}, args \in Objs :
       Encode("rpc", op, 2,
              <<<<IF IsCall(op) THEN "function" ELSE "expression", proc>>,
                <<"tuple", args>>>>,
              proc # Null /\ Verified(args))

\* beer_ping: an empty map.
Ping == Encode("ping", "PING", 0, <<>>, TRUE)

\* beer_auth_raw: a NULL user or "guest" logs in as guest with an empty
\* tuple; anyone else sends ["chap-sha1", scramble].
AuthRaw ==
    \E user \in {Null, "guest", "user"} :
       LET guest == user \in {Null, "guest"} IN
       Encode("auth", "AUTH", 2,
              <<<<"username", IF guest THEN "guest" ELSE user>>,
                <<"tuple", IF guest THEN "empty" ELSE "scramble">>>>,
              TRUE)

-----------------------------------------------------------------------------

Next ==
    \/ \E tp \in Types : RequestNew(tp)
    \/ RequestFree
    \/ \E f \in NumFields : SetNumber(f)
    \/ SetKey \/ SetTuple \/ SetOps
    \/ SetName({t \in AllTypes : IsCall(t)}) \/ SetName({"EVAL"})
    \/ SetKeyFormat \/ SetTupleFormat
    \/ RequestWriteout \/ RequestCompile
    \/ Select \/ StoreBase("INSERT") \/ StoreBase("REPLACE")
    \/ Update \/ Upsert
    \/ RpcBase("CALL") \/ RpcBase("CALL_16") \/ RpcBase("EVAL")
    \/ Ping \/ AuthRaw

Spec == Init /\ [][Next]_vars

-----------------------------------------------------------------------------
(* Properties *)

Fields == {"space", "index", "limit", "offset", "iterator", "key", "tuple",
           "ops", "function", "expression", "index_base", "username"}

TypeOK ==
    /\ req = NoReq \/ (req.type \in Types /\ req.key \in Objs \cup {"name", "kobj", Null}
                      /\ req.tuple \in Objs \cup {"tobj", Null})
    /\ kobj \in Objs \cup {"none", "junk"} /\ tobj \in Objs \cup {"none", "junk"}
    /\ reqid \in 0 .. (UMax - 1)
    /\ \A i \in 1 .. Len(wire) :
         /\ wire[i].sync \in 0 .. (UMax - 1)
         /\ \A j \in 1 .. Len(wire[i].body) : wire[i].body[j][1] \in Fields
    /\ calls \in 0 .. MaxCalls
    /\ last.ret \in -(IntMax + 1) .. IntMax

\* The count in every frame's body-map header is the number of fields that
\* follow it, for the request path (nd counted beside the fields written,
\* branch by branch) and for the fixed maps of the direct encoders; a
\* count off by one makes the server read the next frame's bytes as this
\* one's fields.
HeaderCountsFields == \A i \in 1 .. Len(wire) : wire[i].nd = Len(wire[i].body)

\* beer_request_compile returns -1 exactly when it put no frame on the
\* wire, and otherwise the sync of the frame it wrote: after any mix of
\* encoders and any starting reqid, a successful compile never returns a
\* sync that reads as -1 (the wrap guard restarts reqid at INT64_MAX and
\* at UINT64_MAX), so a caller never drops a request that was sent.
CompileTellsWrite ==
    last'.call = "compile" =>
         IF last'.ret = -1
         THEN wire' = wire
         ELSE /\ Len(wire') = Len(wire) + 1
              /\ last'.ret = Int64(wire'[Len(wire')].sync)

CompileResultTellsWrite == [][CompileTellsWrite]_vars

\* Spec 4.4: every data request (select, insert, replace, update, delete,
\* upsert) names its space, and the request path builds "the identical
\* wire format via the same per-operation field-set rules" as the direct
\* encoders.
DataRequestsNameSpace ==
    \A i \in 1 .. Len(wire) :
       wire[i].code \in {Code[t] : t \in {"SELECT", "INSERT", "REPLACE", "UPDATE",
                                          "DELETE", "UPSERT"}}
          => \E j \in 1 .. Len(wire[i].body) : wire[i].body[j][1] = "space"

====
