---------------------------- MODULE MCBeerFormat ----------------------------
(***************************************************************************)
(* Formats for BeerFormat: every format of up to three tokens over the      *)
(* brackets and an integer, and longer ones whose containers outgrow a     *)
(* 1-byte header (FixMax = 1 stands for 15), nested, or side by side.      *)
(***************************************************************************)
EXTENDS BeerFormat, SequencesExt

MCFormats ==
    BoundedSeq({"[", "]", "{", "}", "%d"}, 3) \cup
    { <<"%s", "%%", "NIL", "x">>,
      <<"[", "%d", "%d", "]">>,
      <<"{", "%d", "%d", "}">>,
      <<"{", "[", "]", "%d", "}">>,
      <<"[", "[", "%d", "]", "}">>,
      <<"{", "%d", "%s", "%d", "NIL", "}">>,
      <<"[", "{", "%d", "%d", "%d", "%d", "}", "%d", "]">>,
      <<"[", "%d", "[", "%d", "%d", "]", "]">>,
      <<"[", "%d", "%d", "]", "[", "]">> }

\* beer_object(NULL) whose beer_sbuf_object allocation succeeds: the other
\* allocations of the request may still fail, so a resize failure shows on
\* its own.
CreationsSboOk == IF AllocMayFail THEN {"ok", "buf", "stack"} ELSE {"ok"}
====
