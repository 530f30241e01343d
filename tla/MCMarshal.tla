------------------------------ MODULE MCMarshal ------------------------------
EXTENDS Marshal
=============================================================================
