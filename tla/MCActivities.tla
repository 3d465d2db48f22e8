---------------------------- MODULE MCActivities ----------------------------
EXTENDS Activities
=============================================================================
