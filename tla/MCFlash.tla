------------------------------ MODULE MCFlash ------------------------------
EXTENDS Flash

\* Writes within a page, over a page boundary, over a sector boundary and over a
\* whole sector, each with two contents that differ in every byte.
Ranges == {<<1, 2>>, <<2, 4>>, <<3, 5>>, <<6, 1>>}
MCWrites ==
    UNION {{[addr |-> r[1], len |-> r[2],
             buf |-> [k \in 0..r[2] - 1 |-> IF k % 2 = p THEN "x" ELSE "y"]] :
                p \in {0, 1}} : r \in Ranges}
=============================================================================
