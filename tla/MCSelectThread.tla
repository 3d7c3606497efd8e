--------------------------- MODULE MCSelectThread --------------------------
EXTENDS SelectThread
=============================================================================
