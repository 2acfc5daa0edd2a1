-------------------------- MODULE MCContextSwitch --------------------------
EXTENDS ContextSwitch
=============================================================================
