--------------------------- MODULE MCSupplyReport ---------------------------
EXTENDS SupplyReport
=============================================================================
