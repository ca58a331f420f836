------------------------ MODULE MCPreflightAdmission ------------------------
EXTENDS PreflightAdmission, TLC
CONSTANTS b1, b2, b3
=============================================================================
