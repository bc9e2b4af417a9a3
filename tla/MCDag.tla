------------------------------- MODULE MCDag --------------------------------
EXTENDS Dag

CONSTANTS c1, c2, p1
=============================================================================
