----------------------------- MODULE MCBroker -----------------------------
EXTENDS Broker

CONSTANTS a1, a2, a3, s1, s2, s3, s4
=============================================================================
