--------------------------- MODULE MCInputDialog ----------------------------
EXTENDS InputDialog
=============================================================================
