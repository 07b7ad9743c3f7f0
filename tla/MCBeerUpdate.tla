----------------------------- MODULE MCBeerUpdate -----------------------------
(***************************************************************************)
(* The update-operation builder for the reproduction cfg in which the      *)
(* caller adds to a closed container and closes it again.                  *)
(***************************************************************************)
EXTENDS BeerUpdate

MCChars == {"&", "#"}

MCVals == {"arr"}

====
