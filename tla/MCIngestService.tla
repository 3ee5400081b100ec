--------------------------- MODULE MCIngestService ---------------------------
(* IngestService on a few packets: two good ones of two devices, and one for *)
(* each guard that a packet may fail.                                        *)
EXTENDS IngestService, TLC

CONSTANT GoodOnly   \* only the good packets?

Packet(device, time, json) ==
    LET hash == Verifier!Sha256Hex(device, time, json)
    IN [deviceId |-> device, timestamp |-> time, telemetryJson |-> json,
        hashHex |-> hash, pubKeyId |-> "key-1",
        signature |-> Verifier!Sign("key-1", hash), batchCode |-> ""]

Good == {Packet("node-1", 1, "warm"), Packet("node-2", 1, "cold")}
Base == Packet("node-1", 1, "warm")

Bad ==
    {Packet("", 1, "warm"), Packet("node-1", 0, "warm"), Packet("node-1", 1, ""),
     [Base EXCEPT !.hashHex = <<>>],
     [Base EXCEPT !.telemetryJson = "hot"],
     [Base EXCEPT !.signature = <<>>],
     [Base EXCEPT !.pubKeyId = "key-2", !.signature = Verifier!Sign("key-2", Base.hashHex)],
     [Base EXCEPT !.pubKeyId = ""]}

MCPackets    == IF GoodOnly THEN Good ELSE Good \cup Bad
MCLoadedKeys == {"key-1"}
CallerSymmetry == Permutations(Callers)

\* Where the bounds end: nothing is left to do, so any other state without a
\* successor is a deadlock.
Finished ==
    /\ requests = MaxRequests
    /\ \A c \in Callers : pc[c] = "idle"
    /\ UNCHANGED vars

MCSpec     == Init /\ [][Next \/ Finished]_vars
MCFairSpec == MCSpec /\ \A c \in Callers : WF_vars(Step(c))

==============================================================================
