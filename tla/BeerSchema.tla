------------------------------ MODULE BeerSchema ------------------------------
(***************************************************************************)
(* The schema cache of src/beer/beer_schema.c, as operators on a cache     *)
(* value.  The connection module (BeerNet) holds the cache in a variable   *)
(* and applies these operators when beer_reload_schema decodes a reply.    *)
(*                                                                         *)
(* The C cache is one hash (space_hash) holding, for each space, two keys  *)
(* that point at the same struct beer_schema_sval: its name and its        *)
(* number.  Each sval owns a second hash of its indexes.  Here:            *)
(*   byName : name   -> space number  (the sval the name key points at)    *)
(*   byNo   : number -> set of index names (the sval the number key points *)
(*            at, and its index hash)                                      *)
(* A re-added space replaces both keys with a fresh sval whose index hash  *)
(* is empty (mh_assoc_put replaces an existing key); a name key of an      *)
(* earlier sval under a different name is left behind.                     *)
(*                                                                         *)
(* A tuple of a system-space reply is abstracted to [sp, name]: for a      *)
(* _vspace row the space number and the space name (fields 0 and 2), for a *)
(* _vindex row the space number and the index name (fields 0 and 2).       *)
(* Index numbers are not modelled.                                         *)
(***************************************************************************)
EXTENDS Integers, Sequences, TLC

EmptyCache == [byName |-> <<>>, byNo |-> <<>>]

\* beer_schema_add_space: the tuple's number and name become the two keys
\* of a new sval with an empty index hash.
AddSpace(c, t) ==
    [byName |-> (t.name :> t.sp) @@ c.byName,
     byNo   |-> (t.sp :> {}) @@ c.byNo]

RECURSIVE AddSpacesFrom(_, _)
AddSpacesFrom(c, ts) ==
    IF ts = <<>> THEN c ELSE AddSpacesFrom(AddSpace(c, Head(ts)), Tail(ts))

\* beer_schema_add_spaces: every tuple of the reply's data array, in order.
\* (No modelled tuple fails add_space's type checks.)
AddSpaces(c, ts) == AddSpacesFrom(c, ts)

\* beer_schema_add_index: -1 when the index's space is not in the cache,
\* otherwise the index name joins the space's index hash.
AddIndex(c, t) ==
    IF t.sp \in DOMAIN c.byNo
    THEN [ok |-> TRUE,
          cache |-> [c EXCEPT !.byNo = [@ EXCEPT ![t.sp] = @ \cup {t.name}]]]
    ELSE [ok |-> FALSE, cache |-> c]

RECURSIVE AddIndexes(_, _)
\* beer_schema_add_indexes: the tuples in order, stopping with -1 at the
\* first one add_index refuses; the ones before it stay added.
AddIndexes(c, ts) ==
    IF ts = <<>> THEN [ok |-> TRUE, cache |-> c]
    ELSE LET r == AddIndex(c, Head(ts)) IN
         IF r.ok THEN AddIndexes(r.cache, Tail(ts)) ELSE r

\* beer_schema_stosid: the number of the space of that name, or -1.
Stosid(c, name) == IF name \in DOMAIN c.byName THEN c.byName[name] ELSE -1

\* beer_schema_stoiid: whether space sid has an index of that name (the
\* index number itself is not modelled).
Stoiid(c, sid, name) == sid \in DOMAIN c.byNo /\ name \in c.byNo[sid]

\* beer_schema_flush: every entry freed.
SchemaFlush(c) == EmptyCache

=============================================================================
