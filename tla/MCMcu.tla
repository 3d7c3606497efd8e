------------------------------- MODULE MCMcu -------------------------------
EXTENDS Mcu
=============================================================================
