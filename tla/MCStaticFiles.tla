--------------------------- MODULE MCStaticFiles ---------------------------
EXTENDS StaticFiles

MCSize == <<2, 4>>
MCAccepts == {<<>>, <<"gzip", "br">>}
S(k, x, y) == [kind |-> k, a |-> x, b |-> y]
MCHeaders == {<<S("span", 1, 2)>>, <<S("from", 3, 0)>>, <<S("suffix", 3, 0)>>, <<S("span", 1, 0)>>,
              <<S("from", 1, 0), S("span", 0, 1)>>, <<S("from", 2, 0), S("suffix", 1, 0)>>, <<S("junk", 0, 0)>>}
=============================================================================
