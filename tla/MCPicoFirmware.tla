----------------------------- MODULE MCPicoFirmware -----------------------------
EXTENDS PicoFirmware
Request(name, arg) == [type |-> "request", name |-> name, arg |-> arg]
MCFrames ==
  { Request("LIST", 0), Request("NEW", 0), Request("SEND", ActiveChat), Request("SEND", 7),
    Request("OPEN", 0), Request("OPEN", 2), Request("UP", 0), Request("DOWN", 0),
    [type |-> "status", name |-> "OTHER", arg |-> 0] }
MCOpaque == {f \in MCFrames : f.name \in {"LIST", "OTHER"}}
MCSeed == <<3, 1>>
=============================================================================
