------------------------------ MODULE MCPage --------------------------------
EXTENDS Page, TLC

CONSTANTS brand, login, skills, work, nowhere

Links   == {brand, login, skills, work, nowhere}
Tops    == (skills :> 100) @@ (work :> 30)
Early   == (skills :> 99)  @@ (work :> 30)
Resting == {0, 50, 51, 70}
=============================================================================
