------------------------------ MODULE MCBleLink ------------------------------
EXTENDS BleLink
=============================================================================
