-------------------------- MODULE MCConfirmDialog ---------------------------
EXTENDS ConfirmDialog
=============================================================================
