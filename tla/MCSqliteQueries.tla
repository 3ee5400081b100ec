--------------------------- MODULE MCSqliteQueries ---------------------------
(* One device and timestamps on both sides of 2^63, which is 4 here.         *)
EXTENDS SqliteQueries

MCPackets  == [deviceId : {"node-1"}, timestamp : {1, 3, 5}, batchCode : {""}]
MCReceipts == [txHash : {"tx-1", "tx-2"}, blockHeight : {7}]

==============================================================================
