-------------------------- MODULE MCEventDelivery --------------------------
EXTENDS EventDelivery
CONSTANTS p1
=============================================================================
