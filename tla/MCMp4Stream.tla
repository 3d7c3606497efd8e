---------------------------- MODULE MCMp4Stream -----------------------------
EXTENDS Mp4Stream
=============================================================================
