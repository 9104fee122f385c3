--------------------------- MODULE MCAccountEvidence ---------------------------
(* Amounts for TLC: no sum of results cancels a transfer.                  *)
EXTENDS AccountEvidence

MCPnLs == {-1}
MCTransfers == {3, -2}
MCUpnls == {-1, 0}

================================================================================
