------------------------------ MODULE MCHttpConn -------------------------------
EXTENDS HttpConn

Pages == {<<"get", "keep", "">>, <<"get", "other", "">>, <<"get10", "keep", "">>}
Forms == {<<"post", "form", "keep", "", "body">>}
Broken == {<<"bad", "">>, <<"junk">>}

OfAllKinds == Pages \cup Forms \cup Broken \cup {<<"rank", "keep", "">>}
================================================================================
