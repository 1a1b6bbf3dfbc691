------------------------------- MODULE MCTiWire -------------------------------
EXTENDS TiWire
CONSTANT Length
MCConversations == [1..Length -> [from : Ends, bit : Bit]]
=============================================================================
