--------------------------- MODULE MCConfigStore ---------------------------
EXTENDS ConfigStore, TLC

\* The camera is switched off for good when the bound on power-ons is reached.
Rest == ends = MaxCuts /\ UNCHANGED vars
MCNext == Next \/ Rest
MCSpec == Init /\ [][MCNext]_vars

\* No definition tells one thread that serves requests from another.
Threads == Permutations(Thread)
=============================================================================
