---------------------------- MODULE MCBrokerShadow ----------------------------
EXTENDS BrokerShadow
=============================================================================
