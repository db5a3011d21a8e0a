------------------------------- MODULE MCCore -------------------------------
(* Instances of CoreLifecycle for TLC.                                     *)
EXTENDS CoreLifecycle, TLC

\* The requests the clients send: the FFI's path start with a command server,
\* the tunnel service's raw start, and a raw start with a command server.
FFIRequest    == [source |-> "path", raw |-> FALSE, server |-> TRUE]
TunnelRequest == [source |-> "content", raw |-> TRUE, server |-> FALSE]
RawRequest    == [source |-> "content", raw |-> TRUE, server |-> TRUE]

MCRequests    == {FFIRequest, TunnelRequest, RawRequest}
TwoRequests   == {FFIRequest, TunnelRequest}
RacingOps     == {"Start", "StartService", "Restart", "Stop", "Reload"}
OneRequest    == {FFIRequest}
RacingFaults  == {"start"}
EngineOps     == AllOps \ {"StartService"}
NoFaults      == {}
EngineFaults  == AllFaults \ {"boxclose"}

Symmetry == Permutations(Callers) \cup Permutations(Instances) \cup Permutations(Servers)
=============================================================================
