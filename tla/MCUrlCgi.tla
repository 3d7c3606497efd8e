------------------------------ MODULE MCUrlCgi ------------------------------
EXTENDS UrlCgi
=============================================================================
