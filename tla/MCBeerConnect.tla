---------------------------- MODULE MCBeerConnect ----------------------------
(***************************************************************************)
(* BeerConnect for TLC: a second is 2 clock units, buffer sizes scaled so  *)
(* that 128 MiB is 12 and 16384 is 4.                                      *)
(***************************************************************************)
EXTENDS BeerConnect

\* A whole-second timeout, and one with a half second more.
MCTmouts == {[sec |-> 1, usec |-> 0], [sec |-> 1, usec |-> 1]}

MCWholeTmout == {[sec |-> 1, usec |-> 0]}

====
