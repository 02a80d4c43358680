------------------------- MODULE MCSafetyController -------------------------
EXTENDS SafetyController
=============================================================================
