----------------------------- MODULE MCMsgQueue ----------------------------
EXTENDS MsgQueue
=============================================================================
