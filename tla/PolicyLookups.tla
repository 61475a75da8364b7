---------------------------- MODULE PolicyLookups ----------------------------
(***************************************************************************)
(* The lookups of the enrichment run and of the domain page: what a domain   *)
(* publishes for SPF, for BIMI with its documents, and for TLS.  They share  *)
(* no state, so a behaviour makes one of them.                               *)
(***************************************************************************)
EXTENDS SpfExpansion, BimiDiscovery, TlsPolicy, MarkCheck

CONSTANT LookupDomains  \* the domains looked up for BIMI, as labels

ASSUME LookupAssumption == LookupDomains \subseteq Seq(STRING) \ {<<>>} /\ NoDomain \notin LookupDomains

lookupVars == <<spfVars, walkVars, bimiVars, tlsVars, markVars>>

LookupsInit == SpfInit /\ BimiInit /\ TlsInit /\ MarkInit

ExceptSpf  == UNCHANGED <<walkVars, bimiVars, tlsVars, markVars>>
ExceptBimi == UNCHANGED <<spfVars, tlsVars, markVars>>
ExceptTls  == UNCHANGED <<spfVars, walkVars, bimiVars, markVars>>
ExceptMark == UNCHANGED <<spfVars, walkVars, bimiVars, tlsVars>>

NothingBegun == spfAt = "idle" /\ bimiAt = "idle" /\ tlsAt = "idle" /\ markAt = "idle"

BeginOne ==
    /\ NothingBegun
    /\ \/ (\E d \in Names : ResolveSpf(d)) /\ ExceptSpf
       \/ (\E d \in LookupDomains : BeginLookup(d)) /\ ExceptBimi
       \/ BeginTls /\ ExceptTls
       \/ (\E rec \in MarkRecords : BeginMarks(rec)) /\ ExceptMark

SpfRunning == spfAt # "idle" /\ SpfStep /\ ExceptSpf
BimiRunning == bimiAt # "idle" /\ LookupStep /\ ExceptBimi
TlsRunning == tlsAt # "idle" /\ TlsStep /\ ExceptTls
MarkRunning == markAt # "idle" /\ MarkStep /\ ExceptMark

LookupsNext == BeginOne \/ SpfRunning \/ BimiRunning \/ TlsRunning \/ MarkRunning

LookupsSpec == LookupsInit /\ [][LookupsNext]_lookupVars
=============================================================================
