------------------------------ MODULE MCPanel -------------------------------
EXTENDS Panel
=============================================================================
