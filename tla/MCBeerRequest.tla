---------------------------- MODULE MCBeerRequest ----------------------------
(***************************************************************************)
(* BeerRequest for TLC: a 3-bit reqid (INT64_MAX is 3, UINT64_MAX is 7)    *)
(* starting at 0, just below INT64_MAX, or just below UINT64_MAX.          *)
(***************************************************************************)
EXTENDS BeerRequest

\* Starting values: a fresh stream, and a stream close to each wrap point
\* (reached in the code after that many requests).
MCStartIds == {0, IntMax - 1, UMax - 2}

\* Types whose key tags differ: select, update, upsert, insert (no tag),
\* call and eval.
MCTypes == {"SELECT", "UPDATE", "UPSERT", "INSERT", "CALL", "EVAL"}

====
