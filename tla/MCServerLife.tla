---------------------------- MODULE MCServerLife ----------------------------
(***************************************************************************)
(* An instance of ServerLife for TLC.  d1 carries two BIMI assertions, d2     *)
(* none, and both the one selector, d2 earlier; d3 no longer parses; t1 is a  *)
(* TLS report with one policy.  All DMARC reports are of one domain.          *)
(***************************************************************************)
EXTENDS ServerLife, TLC

MCReports == {"d1", "d2", "d3"}
MCTlsReports == {"t1"}
MCReadable == {"d1", "d2", "t1"}
MCDomainOf == [r \in MCReports |-> "example"]
MCKeysOf == [r \in MCReports |-> IF r = "d3" THEN {} ELSE {<<"example", "s1">>}]
MCBeginOf == [d1 |-> 2, d2 |-> 1, d3 |-> 1]
MCAssertionsOf == [d1 |-> 2, d2 |-> 0, d3 |-> 1]
MCPoliciesOf == [t1 |-> 1]
=============================================================================
