------------------------------ MODULE MCTcpServers ------------------------------
EXTENDS TcpServers
=============================================================================
