------------------------------ MODULE MCUpload ------------------------------
EXTENDS Upload

CONSTANTS MaxPlain, MaxTail, MaxBoundary

Plain(r, n) == [i \in 1 .. n |-> 100 * r + i]
Bound(n)    == [i \in 1 .. n |-> -10 - i]

\* Bytes that look like the start of a delimiter at the end of a file.
Tails == BoundedSeq({CR, LF, DASH, -11}, MaxTail)

Post(kind, file, b, more) == [kind |-> kind, file |-> file, boundary |-> Bound(b), more |-> more]
None == Post("none", <<>>, 2, FALSE)

\* One upload of any file, or three requests with short ones.
OneRequest    == {[r \in Req |-> IF r = 1 THEN Post("file", Plain(1, n) \o t, b, m) ELSE None] :
                    n \in 0 .. MaxPlain, t \in Tails, b \in 2 .. MaxBoundary, m \in BOOLEAN}
ThreeRequests == {[r \in Req |-> Post(k[r], Plain(r, r), 2, FALSE)] :
                    k \in [Req -> {"file", "nobound", "refused"}]}

MCScenarios == OneRequest \cup ThreeRequests
=============================================================================
