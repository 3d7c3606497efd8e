--------------------------- MODULE MCCheckNetwork --------------------------
EXTENDS CheckNetwork
=============================================================================
