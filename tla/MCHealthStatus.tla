--------------------------- MODULE MCHealthStatus ---------------------------
EXTENDS HealthStatus
=============================================================================
