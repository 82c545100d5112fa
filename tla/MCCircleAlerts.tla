--------------------------- MODULE MCCircleAlerts ---------------------------
EXTENDS CircleAlerts
=============================================================================
