----------------------------- MODULE MCSession ------------------------------
EXTENDS Session

CONSTANTS i1
=============================================================================
