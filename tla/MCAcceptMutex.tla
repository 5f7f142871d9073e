---------------------------- MODULE MCAcceptMutex ----------------------------
EXTENDS AcceptMutex
=============================================================================
