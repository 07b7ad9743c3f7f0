------------------------------ MODULE MCBeerNet ------------------------------
EXTENDS BeerNet

CONSTANTS s1, s2, pk

MCSpaceIds == {1, 2}
MCSpaceName == (1 :> s1) @@ (2 :> s2)
NoDDL == {}
CreateOnly == {"create"}
DropOnly == {"drop"}
AllDDL == {"create", "drop"}
SecondOnly == {2}
=============================================================================
