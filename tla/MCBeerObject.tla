---------------------------- MODULE MCBeerObject ----------------------------
(* Model-checking instance of BeerObject.  The constants are given in the  *)
(* .cfg files; the scaled ones are explained in README.md.                 *)
EXTENDS BeerObject

\* Every strategy the caller can choose.
AllModes == {SIMPLE, SPARSE, PACKED}

\* Only the strategy whose close never reads the frame stack.
SimpleOnly == {SIMPLE}

\* Only the strategies whose close rewrites the header a frame points at.
RewritingModes == {SPARSE, PACKED}

=============================================================================
