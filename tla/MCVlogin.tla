------------------------------ MODULE MCVlogin ------------------------------
EXTENDS Vlogin
=============================================================================
