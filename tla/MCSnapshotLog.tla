--------------------------- MODULE MCSnapshotLog ---------------------------
(* One domain: its BIMI record, with two writers, and its TLS-RPT record.    *)
EXTENDS SnapshotLog, TLC

MCBimi == {"bimi"}
MCTls == {"tls"}
MCRecords == {"record"}
\* A record that comes and goes with the resolver, and one that is not there.
MCMayFind == "bimi" :> {"record", "error"} @@ "tls" :> {"absent", "error"}
=============================================================================
