------------------------------ MODULE MCShmtx ------------------------------
EXTENDS Shmtx
=============================================================================
