---------------------------- MODULE MCLegacyBackend ----------------------------
EXTENDS LegacyBackend
=============================================================================
