------------------------------ MODULE MCGateway ------------------------------
(* Gateway with two clients: two attempts of a device, the attempts of two   *)
(* devices, or a device and a client that asks something else.               *)
EXTENDS Gateway

CONSTANTS c1, c2

Verifier == INSTANCE SignatureVerifier

Packet(device) ==
    LET hash == Verifier!Sha256Hex(device, 1, "warm")
    IN [deviceId |-> device, timestamp |-> 1, telemetryJson |-> "warm", hashHex |-> hash,
        pubKeyId |-> "key-1", signature |-> Verifier!Sign("key-1", hash), batchCode |-> ""]

MCClients == {c1, c2}
MCPackets == {Packet("node-1"), Packet("node-2")}
MCLoadedKeys == {"key-1"}
MCPurposes ==
    {[c \in MCClients |-> IF c = c1 THEN Packet("node-1") ELSE other] :
        other \in MCPackets \cup {None}}
==============================================================================
