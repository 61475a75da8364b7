--------------------------- MODULE MCSeedAccounts ---------------------------
(* One message, which gets the same UID again when the mailbox is renumbered. *)
EXTENDS SeedAccounts, TLC

MCEpochs == {0, 1}
MCUidOf == [e \in MCEpochs |-> "m1" :> 1]
=============================================================================
