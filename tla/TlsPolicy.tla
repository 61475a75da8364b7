------------------------------ MODULE TlsPolicy ------------------------------
(***************************************************************************)
(* The lookups of one domain's TLS policy (internal/tlspolicy) and the rows  *)
(* the enrichment run stores of them (snapshotTLSPolicy): the TLS-RPT        *)
(* record, the MTA-STS policy, and the TLSA records of every MX host, asked  *)
(* from each name server in turn, over TCP when UDP was cut.                 *)
(***************************************************************************)
EXTENDS Integers, Sequences, FiniteSets, SequencesExt

CONSTANTS
    Zones,      \* what a domain publishes: see ZoneFields
    Servers,    \* nameservers(), in order
    NoZone

ZoneFields ==
    {"rpt",     \* TXT of _smtp._tls: a sequence of "other", "rua", "norua"
     "sts",     \* _mta-sts has an STSv1 record
     "file",    \* the policy host: "none", "http" (not 200), "bad" or "good"
     "mx",      \* the MX hosts, in order
     "tlsa",    \* the TLSA records of each host
     "udp"}     \* how many of them a UDP answer holds

ASSUME TlsAssumption ==
    /\ \A z \in Zones : /\ DOMAIN z = ZoneFields
                       /\ z.rpt \in Seq({"other", "rua", "norua"})
                       /\ z.sts \in BOOLEAN /\ z.file \in {"none", "http", "bad", "good"}
                       /\ z.mx \in Seq(STRING)
    /\ NoZone \notin Zones

VARIABLES
    zone,       \* what the domain publishes
    tlsAt,      \* the lookup that is next
    hostsLeft,  \* MX hosts whose TLSA records are still to be asked
    serversLeft,\* name servers still to be asked for the first of them
    stsRecord,  \* MTASTSPolicy of the TXT lookup: "found", "absent", "failed"
    tlsRows     \* the rows handed to UpsertTLSSnapshot

tlsVars == <<zone, tlsAt, hostsLeft, serversLeft, stsRecord, tlsRows>>

TlsInit ==
    /\ zone = NoZone /\ tlsAt = "idle" /\ hostsLeft = <<>> /\ serversLeft = <<>>
    /\ stsRecord = "none" /\ tlsRows = {}

Row(kind, host, content, failed) ==
    [kind |-> kind, host |-> host, content |-> content, failed |-> failed]
Saved(row) == tlsRows' = tlsRows \cup {row}

BeginTls ==
    /\ tlsAt = "idle"
    /\ zone' \in Zones /\ tlsAt' = "tlsrpt"
    /\ UNCHANGED <<hostsLeft, serversLeft, stsRecord, tlsRows>>

\* ParseTLSRPTRecords: exactly one TLSRPTv1 record counts, and it needs a rua.
Rpt == {i \in 1 .. Len(zone.rpt) : zone.rpt[i] # "other"}

\* LookupTLSRPT: a name that does not exist is an empty answer, a failure is not.
LookupTLSRPT ==
    /\ tlsAt = "tlsrpt" /\ tlsAt' = "sts"
    /\ \/ LET records == {zone.rpt[i] : i \in Rpt}
          IN Saved(Row("tlsrpt", "", IF Cardinality(Rpt) = 1 THEN records ELSE {},
                       Cardinality(Rpt) > 1 \/ records = {"norua"}))
       \/ Saved(Row("tlsrpt", "", {}, TRUE))
    /\ UNCHANGED <<zone, hostsLeft, serversLeft, stsRecord>>

\* LookupMTASTS, the TXT record.
LookupSTSRecord ==
    /\ tlsAt = "sts" /\ tlsAt' = "file"
    /\ \/ stsRecord' = IF zone.sts THEN "found" ELSE "absent"
       \/ stsRecord' = "failed"
    /\ UNCHANGED <<zone, hostsLeft, serversLeft, tlsRows>>

\* fetchPolicy and parsePolicyFile.  A host that does not exist is no failure
\* unless the record was found.
FetchPolicy ==
    /\ tlsAt = "file" /\ tlsAt' = "mx"
    /\ \/ /\ zone.file \in {"good", "bad"}
          /\ Saved(Row("mtasts", "", {zone.file}, zone.file = "bad"))
       \/ /\ zone.file = "none"
          /\ Saved(Row("mtasts", "", {}, stsRecord = "found"))
       \/ Saved(Row("mtasts", "", {}, TRUE))
    /\ UNCHANGED <<zone, hostsLeft, serversLeft, stsRecord>>

\* LookupTLSAForDomain: no MX is no host; a failure ends the lookups.
LookupMX ==
    /\ tlsAt = "mx"
    /\ \/ /\ hostsLeft' = zone.mx
          /\ tlsAt' = IF zone.mx = <<>> THEN "done" ELSE "udp"
          /\ serversLeft' = Servers
       \/ tlsAt' = "mxfailed" /\ UNCHANGED <<hostsLeft, serversLeft>>
    /\ UNCHANGED <<zone, stsRecord, tlsRows>>

NextHost ==
    /\ hostsLeft' = Tail(hostsLeft) /\ serversLeft' = Servers
    /\ tlsAt' = IF Len(hostsLeft) = 1 THEN "done" ELSE "udp"

HostRow(records) == Saved(Row("tlsa", Head(hostsLeft), records, FALSE))

Fits == Cardinality(zone.tlsa[Head(hostsLeft)]) <= zone.udp

\* A plausible mistake: a truncated answer is taken as it is.
UdpAnswersCut ==
    /\ tlsAt = "udp" /\ serversLeft # <<>>
    /\ \E part \in SUBSET zone.tlsa[Head(hostsLeft)] :
          /\ Cardinality(part) <= zone.udp
          /\ HostRow(part) /\ NextHost
    /\ UNCHANGED <<zone, stsRecord>>

\* queryTLSA over UDP: an answer that is not truncated is the RRset.
UdpAnswers ==
    /\ tlsAt = "udp" /\ serversLeft # <<>>
    /\ IF Fits THEN HostRow(zone.tlsa[Head(hostsLeft)]) /\ NextHost
       ELSE tlsAt' = "tcp" /\ UNCHANGED <<hostsLeft, serversLeft, tlsRows>>
    /\ UNCHANGED <<zone, stsRecord>>

TcpAnswers ==
    /\ tlsAt = "tcp"
    /\ HostRow(zone.tlsa[Head(hostsLeft)]) /\ NextHost
    /\ UNCHANGED <<zone, stsRecord>>

\* The server cannot be reached, answers with an error code, with another id or
\* not in time, over UDP or TCP: the next one is asked.
ServerFails ==
    /\ tlsAt \in {"udp", "tcp"} /\ serversLeft # <<>>
    /\ serversLeft' = Tail(serversLeft) /\ tlsAt' = "udp"
    /\ UNCHANGED <<zone, hostsLeft, stsRecord, tlsRows>>

\* Every server has failed: the row carries the last error and no records.
HostFails ==
    /\ tlsAt = "udp" /\ serversLeft = <<>>
    /\ Saved(Row("tlsa", Head(hostsLeft), {}, TRUE)) /\ NextHost
    /\ UNCHANGED <<zone, stsRecord>>

TlsStep ==
    \/ LookupTLSRPT \/ LookupSTSRecord \/ FetchPolicy \/ LookupMX
    \/ UdpAnswers \/ TcpAnswers \/ ServerFails \/ HostFails

-----------------------------------------------------------------------------

\* A row stored without an error says what the domain publishes: the one TLS-RPT
\* record with its destination, the policy file, the whole TLSA RRset of the host,
\* however many servers failed and whether or not UDP cut the answer; and a finished
\* lookup has one row for each (TLSAResult.Presentation: only a real change may
\* register as drift, tlspolicy.go:104-106).
RowsTellTheZone ==
    /\ \A r \in tlsRows : ~r.failed =>
          CASE r.kind = "tlsrpt" ->
                   r.content = (IF \E i \in 1 .. Len(zone.rpt) : zone.rpt[i] = "rua" /\
                                     \A j \in 1 .. Len(zone.rpt) :
                                         j # i => zone.rpt[j] = "other"
                                THEN {"rua"} ELSE {})
            [] r.kind = "mtasts" ->
                   /\ r.content = (IF zone.file = "good" THEN {"good"} ELSE {})
                   /\ r.content = {} /\ stsRecord # "failed" => zone.file = "none" /\ ~zone.sts
            [] r.kind = "tlsa" -> r.content = zone.tlsa[r.host]
    /\ tlsAt \in {"done", "mxfailed"} =>
          /\ \A kind \in {"tlsrpt", "mtasts"} :
                Cardinality({r \in tlsRows : r.kind = kind}) = 1
          /\ tlsAt = "done" => \A host \in ToSet(zone.mx) :
                Cardinality({r \in tlsRows : r.kind = "tlsa" /\ r.host = host}) = 1
=============================================================================
