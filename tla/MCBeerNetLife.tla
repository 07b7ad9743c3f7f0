---------------------------- MODULE MCBeerNetLife ----------------------------
(***************************************************************************)
(* BeerNetLife for TLC: the default buffer size (16384) is 2, a caller     *)
(* may turn buffering off with 0, and every allocation may fail.           *)
(***************************************************************************)
EXTENDS BeerNetLife

MCUris == {"plain", "login", "bad"}

====
