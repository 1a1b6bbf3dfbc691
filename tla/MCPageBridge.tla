------------------------------ MODULE MCPageBridge ------------------------------
EXTENDS PageBridge
MCPages == <<"Str3", "Str4">>
=============================================================================
