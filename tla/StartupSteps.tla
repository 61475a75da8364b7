---------------------------- MODULE StartupSteps ----------------------------
(***************************************************************************)
(* The start of the process on a database of any earlier release:            *)
(* internal/database/db.go (Open, migrate) with the three backfills          *)
(* (backfill.go, backfill_tlsrpt.go, backfill_bimi.go), the seeding of the   *)
(* managed domains (labels.go), and what the serving process then does to    *)
(* the same tables.                                                          *)
(*                                                                          *)
(* Every step is a statement or a transaction of its own, and so is the      *)
(* app_meta flag that says it is done: the process may end between any two,  *)
(* and the next start goes through all of them again.                        *)
(***************************************************************************)
EXTENDS Integers, Sequences, FiniteSets, FiniteSetsExt

CONSTANTS
    Reports,        \* DMARC reports that may be stored
    TlsReports,     \* TLS reports that may be stored
    Readable,       \* the reports whose stored document still parses
    DomainOf,       \* the policy domain of a DMARC report
    KeysOf,         \* the (signing domain, selector) pairs in it
    BeginOf,        \* the start of its date range
    AssertionsOf,   \* how many BIMI assertions it carries
    PoliciesOf,     \* how many policy entries a TLS report carries
    Absent          \* no selectors row

Stored == Reports \cup TlsReports
Domains == {DomainOf[r] : r \in Reports}
Keys == UNION {KeysOf[r] : r \in Reports}

\* The app_meta keys, in the order of the releases that brought them.
Flags == <<"seed", "xml", "tlsrpt", "recheck", "bimi">>
Marks == {Flags[i] : i \in 1 .. 5}

\* The tables that gained columns, in the order migrate looks at them.
Altered == <<"reports", "ip_info", "accounts", "domain_checks", "tlsrpt_reports">>

ASSUME StartupAssumption ==
    /\ Reports \cap TlsReports = {} /\ Readable \subseteq Stored
    /\ IsFiniteSet(Reports)
    /\ BeginOf \in [Reports -> Nat \ {0}]
    /\ AssertionsOf \in [Reports -> Nat] /\ PoliciesOf \in [TlsReports -> Nat]
    /\ Absent \notin [first : Nat, last : Nat]

VARIABLES
    phase,      \* "down", a step of migrate, or "serving"
    part,       \* of a step: its flag is read, its work, its flag is set
    todo,       \* the rows the backfill in progress selected
    columns,    \* the tables that have their new columns
    meta,       \* app_meta: the flags that are set
    stored,     \* the reports in the tables
    extras,     \* the reports whose extension columns are filled
    hygiene,    \* the reports whose BIMI counters are written
    asserted,   \* bimi_assertions: rows of each report
    policies,   \* tlsrpt_policies: rows of each TLS report
    selectors,  \* the selector inventory
    managed,    \* managed_domains
    checks,     \* domain_checks: no row, due, or read with or without records
    removed     \* ghost: the domains the operator took off the list

tables == <<columns, meta, stored, extras, hygiene, asserted, policies, selectors, managed,
            checks, removed>>
startVars == <<phase, part, todo, tables>>

-----------------------------------------------------------------------------

\* A plausible mistake: the row an operator made for a selector nobody has used
\* yet keeps its zero first_seen.
UpsertedFromZero(sel, r) ==
    [k \in Keys |->
        IF k \notin KeysOf[r] THEN sel[k]
        ELSE IF sel[k] = Absent
             THEN [first |-> BeginOf[r], last |-> BeginOf[r]]
             ELSE [sel[k] EXCEPT !.first = IF BeginOf[r] < @ THEN BeginOf[r] ELSE @,
                                 !.last = IF BeginOf[r] > @ THEN BeginOf[r] ELSE @]]

\* upsertSelectors: every pair of the report is in the inventory, its range
\* widened; a zero first_seen is none.
UpsertSelectors(sel, r) ==
    [k \in Keys |->
        IF k \notin KeysOf[r] THEN sel[k]
        ELSE IF sel[k] = Absent
             THEN [first |-> BeginOf[r], last |-> BeginOf[r]]
             ELSE [sel[k] EXCEPT
                     !.first = IF @ = 0 \/ BeginOf[r] < @ THEN BeginOf[r] ELSE @,
                     !.last = IF BeginOf[r] > @ THEN BeginOf[r] ELSE @]]

\* The inventory over a set of reports, whatever the order they came in.
InventoryOf(rs) ==
    [k \in Keys |->
        LET begins == {BeginOf[r] : r \in {x \in rs : k \in KeysOf[x]}}
        IN IF begins = {} THEN Absent
           ELSE [first |-> Min(begins), last |-> Max(begins)]]

\* A database as one of the earlier releases left it, or a new file: the first n
\* flags are set, and what their steps fill is filled.
StartInit ==
    \E n \in 0 .. 5, old \in SUBSET Stored :
        LET done(f) == \E i \in 1 .. n : Flags[i] = f
            docs == old \cap Readable
        IN  /\ phase = "down" /\ part = "read" /\ todo = {}
            /\ columns = IF n = 0 THEN {} ELSE {Altered[i] : i \in 1 .. 5}
            /\ meta = {Flags[i] : i \in 1 .. n}
            /\ stored = old
            /\ extras = IF done("xml") THEN docs \cap Reports ELSE {}
            /\ hygiene = IF done("bimi") THEN docs \cap Reports ELSE {}
            /\ asserted = [r \in Reports |->
                              IF done("bimi") /\ r \in docs THEN AssertionsOf[r] ELSE 0]
            /\ policies = [t \in TlsReports |->
                              IF done("tlsrpt") /\ t \in docs THEN PoliciesOf[t] ELSE 0]
            /\ selectors = InventoryOf(IF done("xml") THEN docs \cap Reports ELSE {})
            /\ managed = IF done("seed") THEN {DomainOf[r] : r \in old \cap Reports} ELSE {}
            /\ checks \in [Domains -> IF done("recheck") THEN {"none", "due", "read"}
                                                         ELSE {"none", "blank"}]
            /\ removed = {}

-----------------------------------------------------------------------------
(* migrate                                                                 *)

\* Open, and the schema: CREATE TABLE IF NOT EXISTS for every table.
OpenDatabase ==
    /\ phase = "down"
    /\ phase' = "columns"
    /\ UNCHANGED <<part, todo, tables>>

\* ensureColumn over the tables, in order, skipping those that have theirs.
EnsureColumns ==
    /\ phase = "columns"
    /\ LET missing == {i \in 1 .. 5 : Altered[i] \notin columns}
       IN IF missing = {}
          THEN phase' = "seed" /\ UNCHANGED columns
          ELSE columns' = columns \cup {Altered[Min(missing)]} /\ UNCHANGED phase
    /\ UNCHANGED <<part, todo, meta, stored, extras, hygiene, asserted, policies, selectors, managed,
                   checks, removed>>

\* The phase after the step a flag stands for.
PhaseAfter(f) ==
    LET i == CHOOSE i \in 1 .. 5 : Flags[i] = f
    IN IF i = 5 THEN "serving" ELSE Flags[i + 1]

\* The flag is set: the step is passed over.
StepDone(f) ==
    /\ phase = f /\ part = "read" /\ f \in meta
    /\ phase' = PhaseAfter(f)
    /\ UNCHANGED <<part, todo, tables>>

\* A plausible mistake: the step is entered whether or not its flag is set.
BeginAlways(f) ==
    /\ phase = f /\ part = "read"
    /\ part' = "work"
    /\ todo' = CASE f = "xml"    -> stored \cap Reports
                 [] f = "tlsrpt" -> {t \in stored \cap TlsReports : policies[t] = 0}
                 [] f = "bimi"   -> {r \in stored \cap Reports : asserted[r] = 0}
                 [] OTHER        -> {}
    /\ UNCHANGED <<phase, tables>>

\* A plausible mistake: the backfills of child rows take every report.
BeginUnguarded(f) ==
    /\ phase = f /\ part = "read" /\ f \notin meta
    /\ part' = "work"
    /\ todo' = CASE f = "xml"    -> stored \cap Reports
                 [] f = "tlsrpt" -> stored \cap TlsReports
                 [] f = "bimi"   -> stored \cap Reports
                 [] OTHER        -> {}
    /\ UNCHANGED <<phase, tables>>

\* A step begins; a backfill selects the reports it will go through: those with
\* a stored document and, for the child rows, none of them yet.
BeginStep(f) ==
    /\ phase = f /\ part = "read" /\ f \notin meta
    /\ part' = "work"
    /\ todo' = CASE f = "xml"    -> stored \cap Reports
                 [] f = "tlsrpt" -> {t \in stored \cap TlsReports : policies[t] = 0}
                 [] f = "bimi"   -> {r \in stored \cap Reports : asserted[r] = 0}
                 [] OTHER        -> {}
    /\ UNCHANGED <<phase, tables>>

\* SeedManagedDomains: one INSERT OR IGNORE ... SELECT over the reports.
SeedManagedDomains ==
    /\ phase = "seed" /\ part = "work"
    /\ managed' = managed \cup {DomainOf[r] : r \in stored \cap Reports}
    /\ part' = "mark"
    /\ UNCHANGED <<phase, todo, columns, meta, stored, extras, hygiene, asserted, policies, selectors,
                   checks, removed>>

\* One report of BackfillFromXML: a transaction, or nothing for a document that
\* no longer parses.
BackfillFromXML(r) ==
    /\ phase = "xml" /\ part = "work" /\ r \in todo
    /\ todo' = todo \ {r}
    /\ IF r \in Readable
       THEN /\ extras' = extras \cup {r}
            /\ selectors' = UpsertSelectors(selectors, r)
       ELSE UNCHANGED <<extras, selectors>>
    /\ UNCHANGED <<phase, part, columns, meta, stored, hygiene, asserted, policies, managed, checks,
                   removed>>

\* One report of BackfillTLSRPT.
BackfillTLSRPT(t) ==
    /\ phase = "tlsrpt" /\ part = "work" /\ t \in todo
    /\ todo' = todo \ {t}
    /\ policies' = IF t \in Readable THEN [policies EXCEPT ![t] = @ + PoliciesOf[t]]
                                     ELSE policies
    /\ UNCHANGED <<phase, part, columns, meta, stored, extras, hygiene, asserted, selectors, managed,
                   checks, removed>>

\* The one UPDATE that sends checks without records back to the refresher.
RecheckDomains ==
    /\ phase = "recheck" /\ part = "work"
    /\ checks' = [d \in Domains |-> IF checks[d] = "blank" THEN "due" ELSE checks[d]]
    /\ part' = "mark"
    /\ UNCHANGED <<phase, todo, columns, meta, stored, extras, hygiene, asserted, policies, selectors,
                   managed, removed>>

\* One report of BackfillBIMI: the counters are written whether or not the
\* report has assertions.
BackfillBIMI(r) ==
    /\ phase = "bimi" /\ part = "work" /\ r \in todo
    /\ todo' = todo \ {r}
    /\ IF r \in Readable
       THEN /\ hygiene' = hygiene \cup {r}
            /\ asserted' = [asserted EXCEPT ![r] = @ + AssertionsOf[r]]
       ELSE UNCHANGED <<hygiene, asserted>>
    /\ UNCHANGED <<phase, part, columns, meta, stored, extras, policies, selectors, managed, checks,
                   removed>>

\* A backfill has gone through its list.
BackfillEnds(f) ==
    /\ phase = f /\ part = "work" /\ f \in {"xml", "tlsrpt", "bimi"} /\ todo = {}
    /\ part' = "mark"
    /\ UNCHANGED <<phase, todo, tables>>

\* SetMeta after the step, a statement of its own.
SetMeta(f) ==
    /\ phase = f /\ part = "mark"
    /\ meta' = meta \cup {f}
    /\ phase' = PhaseAfter(f) /\ part' = "read"
    /\ UNCHANGED <<todo, columns, stored, extras, hygiene, asserted, policies, selectors,
                   managed, checks, removed>>

-----------------------------------------------------------------------------
(* The serving process                                                     *)

\* SaveReportAt: the report comes with its columns, selectors and assertions.
ImportReport(r) ==
    /\ phase = "serving" /\ r \in (Reports \cap Readable) \ stored
    /\ stored' = stored \cup {r}
    /\ extras' = extras \cup {r}
    /\ hygiene' = hygiene \cup {r}
    /\ asserted' = [asserted EXCEPT ![r] = AssertionsOf[r]]
    /\ selectors' = UpsertSelectors(selectors, r)
    /\ UNCHANGED <<phase, part, todo, columns, meta, policies, managed, checks, removed>>

\* SaveTLSRPTWithMeta: the report comes with its policy rows.
ImportTlsReport(t) ==
    /\ phase = "serving" /\ t \in (TlsReports \cap Readable) \ stored
    /\ stored' = stored \cup {t}
    /\ policies' = [policies EXCEPT ![t] = PoliciesOf[t]]
    /\ UNCHANGED <<phase, part, todo, columns, meta, extras, hygiene, asserted, selectors, managed,
                   checks, removed>>

\* SetSelectorExpected: may create the row of a selector no report has shown (the
\* operator's mark itself is left out).
SetSelectorExpected(k) ==
    /\ phase = "serving"
    /\ selectors[k] = Absent
    /\ selectors' = [selectors EXCEPT ![k] = [first |-> 0, last |-> 0]]
    /\ UNCHANGED <<phase, part, todo, columns, meta, stored, extras, hygiene, asserted, policies,
                   managed, checks, removed>>

AddManagedDomain(d) ==
    /\ phase = "serving"
    /\ managed' = managed \cup {d}
    /\ removed' = removed \ {d}
    /\ UNCHANGED <<phase, part, todo, columns, meta, stored, extras, hygiene, asserted, policies,
                   selectors, checks>>

RemoveManagedDomain(d) ==
    /\ phase = "serving" /\ d \in managed
    /\ managed' = managed \ {d}
    /\ removed' = removed \cup {d}
    /\ UNCHANGED <<phase, part, todo, columns, meta, stored, extras, hygiene, asserted, policies,
                   selectors, checks>>

\* The refresher reads a domain's records; an absent one is stored with an
\* error, so the row is never blank.
UpsertDomainCheck(d) ==
    /\ phase = "serving"
    /\ checks' = [checks EXCEPT ![d] = "read"]
    /\ UNCHANGED <<phase, part, todo, columns, meta, stored, extras, hygiene, asserted, policies,
                   selectors, managed, removed>>

-----------------------------------------------------------------------------

\* A statement of migrate fails (main ends with log.Fatalf), or the process is
\* stopped; the transaction in progress is rolled back.
Stop ==
    /\ phase # "down"
    /\ phase' = "down" /\ part' = "read" /\ todo' = {}
    /\ UNCHANGED tables

MigrateStep ==
    \/ OpenDatabase \/ EnsureColumns
    \/ \E f \in Marks : StepDone(f) \/ BeginStep(f) \/ BackfillEnds(f) \/ SetMeta(f)
    \/ SeedManagedDomains \/ RecheckDomains
    \/ \E r \in Reports : BackfillFromXML(r) \/ BackfillBIMI(r)
    \/ \E t \in TlsReports : BackfillTLSRPT(t)

ServeStep ==
    \/ \E r \in Reports : ImportReport(r)
    \/ \E t \in TlsReports : ImportTlsReport(t)
    \/ \E k \in Keys : SetSelectorExpected(k)
    \/ \E d \in Domains : AddManagedDomain(d) \/ RemoveManagedDomain(d) \/ UpsertDomainCheck(d)

StartNext == MigrateStep \/ ServeStep \/ Stop

StartSpec == StartInit /\ [][StartNext]_startVars

-----------------------------------------------------------------------------

Phases == {"down", "columns", "serving"} \cup Marks

SelectorRow == [first : Nat, last : Nat]

StartTypeOK ==
    /\ phase \in Phases /\ part \in {"read", "work", "mark"}
    /\ todo \in SUBSET Stored
    /\ columns \in SUBSET {Altered[i] : i \in 1 .. 5}
    /\ meta \in SUBSET Marks
    /\ stored \in SUBSET Stored
    /\ extras \in SUBSET Reports /\ hygiene \in SUBSET Reports
    /\ asserted \in [Reports -> Nat] /\ policies \in [TlsReports -> Nat]
    /\ selectors \in [Keys -> SelectorRow \cup {Absent}]
    /\ managed \in SUBSET Domains /\ removed \in SUBSET Domains
    /\ checks \in [Domains -> {"none", "blank", "due", "read"}]

\* However often earlier starts were cut short, and whatever release left the
\* database, a process that serves has everything its reports' documents say in
\* the tables, once: the extension columns, the BIMI counters and assertions, the
\* TLS policies; and no check from before the records were cached passes for one
\* of a domain that publishes nothing (migrate).
ServesBackfilled ==
    phase = "serving" =>
        /\ stored \cap Readable \cap Reports \subseteq extras \cap hygiene
        /\ \A r \in stored \cap Readable \cap Reports : asserted[r] = AssertionsOf[r]
        /\ \A t \in stored \cap Readable \cap TlsReports : policies[t] = PoliciesOf[t]
        /\ \A d \in Domains : checks[d] # "blank"

\* A domain the operator took off the list stays off it through every restart:
\* the list is seeded from the reports once in a database's life
\* (seed_managed_domains_v1).
RemovedStaysRemoved == removed \cap managed = {}

\* The selector inventory shows each selector's first and last report, in
\* whatever order reports were imported, backfilled, or backfilled again, and
\* though the operator may have made the row first (upsertSelectors).
InventoryIsRange ==
    phase = "serving" =>
        \A k \in Keys :
            LET begins == {BeginOf[r] : r \in {x \in stored \cap Readable \cap Reports :
                                                   k \in KeysOf[x]}}
            IN begins # {} => /\ selectors[k] # Absent
                              /\ selectors[k].first = Min(begins)
                              /\ selectors[k].last = Max(begins)
=============================================================================
