------------------------- MODULE MCInMemoryRepository -------------------------
(* Two devices, a batch and no batch, two timestamps, two transactions.      *)
EXTENDS InMemoryRepository

MCPackets ==
    {[deviceId |-> "node-1", timestamp |-> 1, batchCode |-> "batch-1"],
     [deviceId |-> "node-1", timestamp |-> 2, batchCode |-> ""],
     [deviceId |-> "node-2", timestamp |-> 2, batchCode |-> "batch-1"]}

MCReceipts == [txHash : {"tx-1", "tx-2"}, blockHeight : {7}]

==============================================================================
