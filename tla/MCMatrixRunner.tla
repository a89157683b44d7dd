-------------------------- MODULE MCMatrixRunner --------------------------
EXTENDS MatrixRunner
CONSTANTS t1, t2, t3
=============================================================================
