# TLA+ verification of DMARC Reporter

DMARC Reporter is one Go process around one SQLite file. It reads DMARC aggregate and
SMTP TLS reports out of mailboxes and uploads, follows what the reported domains publish
in DNS, raises alerts, and shows it all on web pages. This directory holds TLA+ models of
the parts where several things happen at once or fail half way, and of the algorithms and
queries whose results everything else rests on; the TLC configurations that check them on
small instances; and TLAPS proofs of the most important results.

Line references are to `src/internal/` unless a path says otherwise.

1. [The system](#1-the-system)
2. [The modules](#2-the-modules)
3. [What the runs show](#3-what-the-runs-show)
4. [Bounds, and why they are enough](#4-bounds-and-why-they-are-enough)
5. [Fairness](#5-fairness)
6. [What is proved](#6-what-is-proved)
7. [What is only model-checked](#7-what-is-only-model-checked)
8. [Where code and documents disagree](#8-where-code-and-documents-disagree)
9. [What is not modelled](#9-what-is-not-modelled)
10. [Plan](#10-plan)
11. [Running it](#11-running-it)

## 1. The system

`src/main.go` opens the database (`SetMaxOpenConns(1)`: statements and transactions never
overlap, but two goroutines interleave between them), starts three timers (fetch, alert
evaluation, domain-check refresh) and serves HTTP. Everything outside the tables is in
memory and is gone after a restart.

| Component | State it keeps | Operations | What makes it correct |
|---|---|---|---|
| Importer and report tables (`importer`, `database/reports.go`, `tlsrpt.go`, `ingest_events.go`) | report rows under `UNIQUE (org_name, report_id)`, the ingest log | `SaveAttachments`, one transaction per report, then one event | a report is stored once; the log agrees with the tables; a refusal that hides data loss (a reused report-id) is told from a harmless repeat |
| Fetch worker (`ingest/worker.go`) | `running`, account status columns | `TriggerAll`, `runAll` over accounts, rule evaluation at the end | one run at a time; an account's failure stops neither the others nor the run; every import is evaluated |
| IMAP and Graph fetch (`imap/fetch.go`, `graph/fetch.go`) | the remote mailboxes, `imap_seen`, `graph_seen` | scan, download, move, mark as report-free | no report is cached as report-free; what was moved was imported |
| Upload (`handlers/upload.go`) | the request | parse and save file after file, evaluate afterwards | as the importer, against a fetch in progress |
| Alert engine (`alerts/alerts.go`, `database/alerts.go`) | `alerts`, `alerts_sent`, `evalMu` | evaluate, upsert, mark sent, deliver, acknowledge | once per alert and day; nothing new is swallowed; evaluations end |
| Alert rules (`alerts/rules*.go`) | none | queries that return findings | windows that neither overlap nor leave a gap; what fires is what the pages show |
| Enrichment worker and stream (`handlers/enrich_worker.go`, `enrich.go`) | `status`, subscribers, channels | trigger, five jobs, publish, subscribe, clear caches | one run at a time; every viewer's stream ends; a slow viewer stops nobody |
| BIMI and TLS snapshots (`database/bimi_snapshots.go`, `tls_snapshots.go`) | two change logs | upsert by the enrichment run and the refresher | one row per distinct state, in order; the newest row is the truth |
| Domain checks (`database/domain_checks.go`, `handlers/refresh.go`) | `domain_checks` | refresh what is stale | nothing stays stale after a run without an error |
| Accounts (`handlers/accounts.go`, `database/accounts.go`) | `accounts` and the seen caches | create, delete, toggle, test, consent | safe while the account is being read |
| OAuth tokens (`mailauth/mailauth.go`) | a cache in memory | look up, grant, store, invalidate | no superseded credential is used for longer than it must |
| Seed mailboxes (`imap/seed.go`, `graph/seed.go`, `database/bimi_verdicts.go`) | `imap_seen`, `bimi_verdicts` | record verdicts, mark as examined | each verdict once, none skipped |
| Schema and backfill (`database/db.go`, `backfill*.go`) | `app_meta` | steps at start-up | repeatable after a crash |
| Login throttle (`handlers/authlimit.go`) | failure counts per address | allow, record | the limit holds |
| SPF expansion (`spf/resolve.go`) | `spf_cache` | recursive resolution under a lookup budget | exactly the networks the record authorises, or a told truncation |
| Organisational domain (`psl/`) | a memory of TXT answers | suffix list, eight-query tree walk | the walk's rule for every length of name and every failing answer |
| BIMI lookup and validation (`bimi/`) | none | discovery, fetches, certificate and mark checks, revocation | ambiguous, absent and failed are told apart; *valid* only when vouched for |
| TLS policy lookup (`tlspolicy/`) | none | MTA-STS, TLSA and TLS-RPT lookups | a failing server never looks like a changed policy |
| Statistics (`database/stats*.go`) | none | aggregation over the report tables | no view counts a message twice or leaves one out |
| Health score, parsers, export, pages | none | pure computation | agree with their definitions |

How they interact:

```
timer / button ──> fetch worker ──> IMAP, Graph ──> importer ──> tables, ingest log
                        │                              ^
   upload ──────────────┼──────────────────────────────┘
                        v
timer / button ──> alert engine (evalMu) ──> webhook, SMTP
timer ──> refresher ─┐
button ─> enrichment ┴─> snapshots, domain checks ──> rules, pages
              └────────> channels of the viewers' streams
accounts page ──> accounts, token cache <── fetch worker
```

The hard behaviours: a remote mailbox that cannot be rolled back together with the
database; two importers racing; statements of one operation that are no transaction;
acknowledgements falling into an evaluation; the end of a run overlapping the next one's
start; rows and tokens read before a slow call and used after it; a restart between any
two steps. `PROJECT.json` lists every hazard at its line.

## 2. The modules

| Module | Models | Lines of Go it stands for |
|---|---|---|
| `ReportStore` | `SaveAttachments` and the two report tables | `importer/importer.go`, `database/reports.go`, `tlsrpt.go`, `ingest_events.go` |
| `MailIngest` (EXTENDS `ReportStore`) | the fetch run over report accounts, both mail paths, uploads | `ingest/worker.go`, `imap/fetch.go`, `graph/fetch.go`, `handlers/upload.go` |
| `AtMostOnceIngest` | the abstract promise of the whole ingest | (abstract) |
| `AlertEngine` | evaluation, persistence, delivery | `alerts/alerts.go`, `database/alerts.go` |
| `EnrichStream` | enrichment runs, viewers, cache clear | `handlers/enrich_worker.go`, `enrich.go` |
| `SnapshotLog` | the two snapshot logs and their two writers, domain checks | `database/*_snapshots.go`, `handlers/refresh.go`, `bimi.go` |
| `SeedAccounts` | account administration against a seed-mailbox run, token cache | `handlers/accounts.go`, `mailauth/mailauth.go`, `imap/seed.go`, `database/bimi_verdicts.go` |
| `StartupSteps` | opening a database of any release, backfills, seeding | `database/db.go`, `backfill*.go`, `labels.go`, `bimi_reports.go` |
| `LoginThrottle` | failed logins per address | `handlers/authlimit.go` |
| `ServerLife` (EXTENDS both) | the process: migrate, then serve behind the throttle, restart | `main.go` |
| `SpfExpansion` | the SPF expansion and the cache row made of it | `spf/resolve.go`, `handlers/enrich_worker.go` |
| `TreeWalk` | organisational domain | `psl/treewalk.go`, `psl.go` |
| `BimiDiscovery` (EXTENDS `TreeWalk`) | parsing a record set, discovery with the fallback | `bimi/record.go`, `lookup.go` |
| `MarkCheck` | documents of a BIMI record, certificate, revocation | `bimi/validate.go`, `fetch.go`, `indicator.go`, `evidence.go` |
| `TlsPolicy` | TLS-RPT, MTA-STS and TLSA lookups and the rows stored of them | `tlspolicy/tlspolicy.go`, `handlers/enrich_worker.go` |
| `PolicyLookups` (EXTENDS the five) | one lookup of any kind | `handlers/bimi.go`, `enrich_worker.go` |
| `DmarcRows` | aggregate reports as rows, the filter, windows, what changes the tables | `database/stats.go`, `reports.go`, `labels.go` |
| `DmarcViews` → `DmarcPolicy` → `DmarcAuth` → `DmarcReporters` | the queries over them, page by page | `database/stats.go`, `stats_sources.go`, `stats_compliance.go`, `stats_policy.go`, `stats_auth.go`, `stats_reporters.go`, `ipinfo/pattern.go` |
| `AlertRules` | rules X1 to X11 | `alerts/rules.go`, `database/alerts_queries.go` |
| `TlsReports` → `TlsFailures` → `TlsRules` | TLS reports, the queries over policies and failure details, rules X12 to X19 | `database/stats_tls*.go`, `tlsrpt.go`, `alerts/rules_tls.go` |
| `BimiReports` → `BimiStates` → `BimiRules` | the `<bimi>` element of reports and B10 to B20; what a BIMI lookup stores, the lines of the pages, verdicts on seed mail; rules X20 to X30 | `parser/bimi.go`, `database/bimi_reports.go`, `stats_bimi*.go`, `bimi_snapshots.go`, `bimi_verdicts.go`, `handlers/bimi.go`, `bimi_page.go`, `alerts/rules_bimi.go` |
| `Statistics` (EXTENDS `TlsRules` and `BimiRules`) | the three kinds of rows together, and the properties that relate the views | (properties) |
| `*Proofs` | theorems about the module of that name and those it EXTENDS; `WorkersProofs` those about `AlertEngine` and `EnrichStream`, `StatisticsProofs` those about the queries over aggregate reports and X1 to X11, `TrafficProofs` (EXTENDS it) over TLS reports, the `<bimi>` element, lookups and verdicts, and X12 to X30 | |
| `MC*` and `*.cfg` | instances for TLC | |

An arrow means EXTENDS.

### ReportStore and MailIngest

An importer is a call of `SaveAttachments` (`imp[i]`): the fetch run's or an upload's.
`SaveOne` is one parse and one transaction, `RecordOne` the best-effort event after it;
between the two the other importer, or a crash, may come. `FormatOf`, `IdOf` and
`WindowOf` are what the parser makes of a file; `SameReport` is the UNIQUE constraint of
the table of its format. `Outcomes` includes the second read of `classifyDuplicate` and
what happens when that read fails.

`run` is the goroutine of `TriggerAll`: its `pc` follows `runAll` from account to account,
`ImapScan` stands for both phases of `imap.FetchReports` (structures, then attachments; a
message whose download fails is neither moved nor cached), `ImapMove` for the one MOVE
after them, and the `Graph*` actions for the message-by-message loop of
`graph.FetchReports`. `mail` is the server's state and survives a crash. `fresh` and
`evalDue` are what the rules have not yet been evaluated on and the `go alerts.Evaluate`
of an upload. Accounts here are report accounts and their enabled flags do not change
within a behaviour (changes are in `SeedAccounts`); batches are sets, since the order of
files in one batch is not visible to the tables; UIDVALIDITY is in `SeedAccounts`.
`Evaluate` is one step here; `AlertEngine` is its detail.

`MailIngest` refines `AtMostOnceIngest` (`KeepsPromise`): `avail` and `taken` are the
inboxes and the processed folders, `table` the stored files. Several accounts, caches,
retries and transactions map to stutters. The promise is deliberately *at most* once: what
is taken may be lost, see section 8.

### AlertEngine

`holding` is the set of alerts whose rule finds them; it changes freely. `FindRow` and
`WriteRow` are the two statements of `UpsertAlert`, `MarkAlertSent` inserts the
(alert, day) key, `DeliverAlerts` hands what is left to the channels; all under `evalMu`
(`Lock`, `Unlock`). `AcknowledgeAlert` takes no lock. `Hang` is a mail server that never
answers (`smtp.SendMail` has no timeout).

### EnrichStream

A run's goroutine lists a job, does its items and publishes: `Snapshot` copies the
subscriber set under the mutex, `Send` is the non-blocking send outside it. `Finish`
clears `Running` before the terminal event goes out, so the next run may start between
the two. A viewer subscribes, reads the status (`sync` event), forwards. `ClearRequested`,
`ClearLocked` and `DeleteTable` are the check, the rate limit and the deletes of
`HandleEnrichClear`. An address that is skipped because it is no IP is no item.

### SnapshotLog

A series is one followed record. `Stamp`, `ReadCurrent` and `Write` are the three parts
of `UpsertBIMISnapshot`/`UpsertTLSSnapshot` (the two are the same code over two tables).
Content and error together are one value, `saw`. The enrichment run goes through the
stages `bimi`, `checks`, `tls` (its address and SPF jobs write neither table), the
refresher does a record and its check together. BIMI series have both jobs as writers,
TLS series only the first. One selector per domain; document snapshots, the selector
inventory and the other TLS kinds are written by the same steps and are left out.
`told` and `latest` are ghosts: what was observed and stored.

### SeedAccounts

`proc[p].row` is the account as the handler or the worker read it; every later step uses
that copy. A secret is a number, and the cache holds the number of the secret a token was
granted for. `Scan` is select, `GetSeenUIDs` with its purge of other UIDVALIDITY values,
search and header fetch; `Record` is one message; `Mark` the transaction of `MarkUIDsSeen`.
`lost` and `overlap` are ghosts. A message is modelled as carrying one verdict; deduping
is by message and receiver, whatever the account.

### StartupSteps, LoginThrottle and ServerLife

`Open` starts on a database as any earlier release may have left it (`StartInit`) and goes
through the steps of `migrate` in order; each has three parts: read its `app_meta` flag, do
its work, set the flag. A backfill's work is row by row over what it selected (`todo`), so
a crash (`Stop`) may come between any two rows or between the work and its flag. Serving,
the process imports reports, and the operator removes domains, marks selectors and checks.
`removed` is a ghost. The throttle is two sections of one mutex with the password check
between them: `allow` and `record` of several requests interleave freely. A restart
forgets the counts, as the code does.

### The lookups

`SpfExpansion` keeps the calls of `expand` as a stack, so each DNS answer is a step that may
fail; the budget is shared by all of them and the domains on the stack are the cycle check.
`ExpansionExact` compares what comes out with a declarative definition of what the
published records authorise. `TreeWalk` asks one name at a time; the answers that arrived
are remembered as the code remembers them. `BimiDiscovery` parses a record set tag by tag
(a fold over the tags), and climbs to the organisational domain only when the domain itself
publishes nothing. `MarkCheck` follows one BIMI record's two documents through redirects,
the checks in their order, and revocation by OCSP, then CRL; a certificate is the record of
what each check asks of it. `TlsPolicy` asks name server after name server, over TCP when
an answer was cut, and ends in the rows the enrichment run would store. They share no
state, so `PolicyLookups` makes one of them in a behaviour; what they have in common is the
property: an answer that did not arrive is never taken for one that said no.

### The statistics

The state of `DmarcRows` and `TlsReports` is what the queries read: the stored reports,
labels, managed domains, caches, the operator's marks, the day. Actions import a report,
change what the operator may change, and let a day pass. Every query is an operator over
the joined rows (`Where(f)` is the WHERE clause of `StatsFilter`): a group is a set of
joined rows, its measure a sum over it. A join that multiplies rows in SQL multiplies them
here too. What SQL leaves to display (order, limits where a property does not depend on
them, text) is left out; a query that takes the first of several equals may take any, and
its operator returns the set of possible answers.

`BimiStates` adds the rows of the BIMI snapshot log, the selector inventory and the
verdicts on seed mail. A lookup of a domain (`SnapshotBimi`) is one step: the whole of
`snapshotBIMIRecords` and `validateBIMIDocuments`, which store the record, the inventory's
entry and the two documents it leads to (the interleaving of two such jobs is
`SnapshotLog`'s subject). It asks for the selector `default` only, as the code does, since
nothing puts another into the inventory. A published record may come with `validates`
false, which is a server without BIMI_VALIDATE. Dates of certificates are hours while the
windows are days, because `DaysToExpiry` drops the fraction. `RecordSeed` is one seed
message: the topmost header only, the server's time before the Date header.

The properties are in `Statistics`. A breakdown that is right by itself tells nothing new;
`TrafficAccountedFor` relates each to the dashboard of the same filter, `RulesMatchPages`
each alert rule, which has queries of its own, to the page of the rule's window, and
`ReportersTellOnePolicy` the three places that compare policies.

## 3. What the runs show

| Run | Checks | Result |
|---|---|---|
| `mail_faults` | `TypeOK`, `OneRowPerReport`, `LogBackedByRows`, `RefusalsExplained`, `ImapSeenIsReportFree`, `KeepsPromise` | Hold with crashes and every failure kind at every point, but that of the status row, which the proofs cover. |
| `mail_benign` | `SeenIsReportFree`, `MovedReportsImported`, `EvaluatedAfterImport`, `StatusTruthful`, `EventuallyImported` | Hold when only connections and downloads fail; the last under the fairness of section 5. |
| `mail_crash` | `MovedReportsImported` | **Violated** by a crash between move and import. |
| `alerts_faults` | `AtMostOncePerDay`, `InsertNeverClashes` | Hold with failing statements, hangs and crashes. |
| `alerts_live` | `StandingConditionDelivered` | Holds when nothing fails. |
| `alerts_ack_race` | `OpenAlertsDelivered` | **Violated** by an acknowledgement that falls into `UpsertAlert`. |
| `enrich_stream` | `OneRunAtATime`, `NoOrphanUnlessDropped`, `DoneMeansCached`, `RunFinishes` | Hold with failing lists and writes and a slow viewer; what a dropped event or a clear does is excepted by name. |
| `snapshot_log` | `RowsAreChanges`, `CurrentIsLatest`, `ObservationsCounted`, `StageLeavesFresh` | Hold with failing lookups and statements and crashes. |
| `seed_accounts` | `ExaminedAccountedFor`, `OneVerdictPerMessage`, `StaleTokenFromOverlap`, `NewAccountStartsClean` | Hold with failures and crashes. |
| `server_life` | `ServesBackfilled`, `RemovedStaysRemoved`, `InventoryIsRange`, `BlockedDeservedly`, `OvershootBounded` | Hold on databases of every release, with starts cut short at every statement, and with concurrent failed logins. |
| `lookups` | `ExpansionExact`, `WalkExact`, `DiscoveryExact`, `RowsTellTheZone`, `ValidMeansVouched`, `RevocationHonest` | Hold with every answer failing, cut or refused. |
| `statistics` | `TrafficAccountedFor`, `ReportersTellOnePolicy`, `RulesMatchPages` | Hold for every set of the reports, in every order of imports and changes, and after lookups that find, change and lose a record. |

Three of the properties that hold are conditional on purpose, because the code promises no
more:

- `SeenIsReportFree` covers Graph accounts only while no `$value` request comes back
  undecodable: a Graph message whose attachments cannot be extracted once is cached as
  report-free (`graph/fetch.go:178`). For IMAP accounts the unconditional
  `ImapSeenIsReportFree` holds, and is proved.
- `EvaluatedAfterImport` needs that no account fails half way after importing and no
  upload ends early (`handlers/upload.go:109` returns before the evaluation although
  earlier files of the form were imported).
- `StaleTokenFromOverlap` says exactly when a token of an old secret can be cached: a
  process read the account before the change and asked for its token meanwhile. There is
  no guarantee that it cannot happen.

Every property of a passing run has a mutant in `PROJECT.json`: a version of a mapped definition with a
plausible bug (named `...Blindly`, `...Forgotten` and the like, each defined just before
the definition it replaces), under which TLC finds the property violated.

## 4. Bounds, and why they are enough

- **Mail**: two accounts, one per provider, since accounts interact only through the
  run's order and the tables; three messages (with a report, without, on the other
  provider); five files that realise every relation two files can have: the same report,
  the same id with another window, the same id in the other format, one that does not parse. Two
  importers are all there are (one fetch run; a second upload behaves as the first).
  `MaxUploads` is 1 or 2: one upload can race a fetch and a second can repeat the first.
- **Alerts**: two evaluators, since a third only waits longer on the mutex; two alerts,
  interchangeable (symmetry, used with invariants only); two days, since the daily key only
  ever compares with today's. The proofs cover any number of each.
- **Enrichment**: two runs, whose ends and starts overlap; two jobs, one of them cleared;
  a channel of one event, which is full at once (32 in the code; the properties do not
  depend on the number, and a smaller one meets the limit sooner); one viewer, as viewers
  share nothing.
- **Snapshots**: one domain with one series per table; the clock runs for three ticks with
  a TTL of one, enough for a row to be fresh, at the limit, and stale; one statement may
  fail or one crash happen per behaviour (`MaxTrouble`). `MayFind` gives the BIMI record
  two outcomes (published, lookup failed) and the TLS record two (absent, lookup failed).
  An upsert takes less than two ticks, since a tick is at least a second and the
  statements take milliseconds.
- **Seed accounts**: two accounts in sequence or at once (the deleted one and its
  successor), two secrets, one request beside the worker, one message that gets the same
  UID under two UIDVALIDITY values. The proofs cover every number.

- **Server life**: three DMARC reports (two that share a selector but not a date, one whose
  document no longer parses) and one TLS report, so a backfill has a first row, a next one
  and one it must skip; one domain; two concurrent requests against a limit of two, three
  ticks with a window of one. The proofs cover every number.
- **Lookups**: an SPF zone with an include that is reached twice, a loop, a redirect to an
  empty record and a record that exceeds the budget, which is six instead of ten so that it
  is met in a small tree; four queries instead of eight for the walk, with names shorter,
  as long and longer than that; BIMI record sets with no, one and two records in every
  state of a tag; evidence documents that differ in each respect a check asks for. The
  bounds are parameters of the modules and in no other way part of the algorithms.
- **Statistics**: six reports of each kind over a fortnight, by three reporters about two
  domains, one of each dated after now (the reporter's clock is not ours, and nothing refuses
  it), with rows that carry no, one and several signatures, results and reasons, empty
  and special addresses, rows that count no message, thresholds met exactly; one change by the operator; one kind of
  report at a time, since no query reads both (`StatsNext`). Every subset of the reports is
  a state. BIMI lookups come after one report has been stored, one lookup with each of
  three reports that differ in policy and in what they say of BIMI, and with one of them
  (`LookedUp`) any two results of ten in every order, then a third that finds what the first
  did, so a row is confirmed, superseded and comes back. Seed mail comes alone, up to
  `MaxVerdicts` = 3 verdicts before the last message (a pass, a failure after it or in the
  same second, another receiver), or as one message after one lookup. The operator marks one
  old and one new selector (`MarkedSelectors`). The clock starts on day 13, passes one day
  with reports (`LastReported`; the windows differ in what they reach back to) and two with
  lookups, where a certificate is valid, in its last day, and past its end.

## 5. Fairness

- `MailIngest.Fairness`: the worker goroutine, an open upload and a started evaluation are
  scheduled (weak fairness); the timer keeps triggering, which needs `FETCH_INTERVAL` to
  be set (it is off by default; with it off somebody must press the button); and a
  connection, a listing or a download that is tried again and again succeeds at some time
  (strong fairness on each scan and on each message's download). Without the last, a
  server that never answers correctly would refute `EventuallyImported` trivially.
- `AlertEngine.AlertFairness`: the timer keeps firing (`ALERT_EVAL_INTERVAL`, 24 h by
  default), goroutines run, and a waiter for `evalMu` gets it in the end (Go's mutex
  hands over in starvation mode): strong fairness on `Lock`.
- `EnrichStream.EnrichFairness`: the run's goroutine is scheduled. Nothing is assumed of
  viewers: `RunFinishes` holds though a browser never reads.

The other modules state no liveness: their steps are taken by requests and timers that the
modules above already account for, or, as the lookups, end by running out of input.

## 6. What is proved

All for every value of the constants, from the named assumptions of each module
(`FormatsAssumption`, `IngestAssumption`, `AlertAssumption`, `AccountsAssumption`,
`EnrichAssumption`, `SnapAssumption`, `StartupAssumption`, `ThrottleAssumption`,
`SpfAssumption`, `WalkAssumption`, `BimiAssumption`, `TlsAssumption`, `MarkAssumption`,
`LookupAssumption`, `RowsAssumption`, `TlsRowsAssumption`, `FiltersAssumption`,
`EditsAssumption`, `DelaysAssumption`, `RulesAssumption`, `DomainsAssumption`,
`BimiRowsAssumption`, `SeedMailAssumption`, `LookupsAssumption`), which
say what kind of thing a constant is, that the reports of a database and the names of a zone
are finitely many, that report ids are unique, that the parsers leave no negative count
(`parser/xml.go:58`, `tlsrpt.go:472`) and, for UIDs, that two messages of a mailbox never share one
under one UIDVALIDITY. Those of the statistics say besides that settings are whole numbers and
the clock is so far from the epoch that no window of a rule reaches back to it; that a report
begins after the epoch, whose 0 is no bound to a query; that a policy domain of a TLS report is
stored in lower case; and that a lookup of a BIMI record fails, finds nothing or has a text,
with the findings that the code makes errors of as its errors (`bimi/indicator.go:50`,
`svgps.go:44`, `evidence.go:142`). Five theorems have a hypothesis beside them,
named with it below; the instances of `mail_benign` and `lookups` satisfy them.

**MailIngestProofs, the store.** `OneRowPerReport`, `LogBackedByRows` and `RefusalsExplained` are
not inductive: what the log will say is decided when the transaction ends and written
later. `StoreInv` adds that an importer has at most one decision in hand (`OneDecision`),
that a decided import has a row which no event tells of yet (`ImportsPending`), that a
decided refusal is explained already (`RefusalsStand`), and that junk is never stored.
Refusals stay explained because rows are never removed. The lemmas on `SaveOne`,
`RecordOne` and the end of a call say once what each does to a call (`CallShape`: an idle
call holds nothing, one that ended has nothing left to do), and serve the theorems about
the mail ingest.

**MailIngestProofs, the fetch.** `MailImplementsStore`: each step of the fetch worker and the upload
handler is a step of the store or a stutter, so the three theorems carry over to the whole
system without a second proof. `MailSeenReportFree` needs the invariant `HandInv`: what
the run holds between scan and mark as report-free is report-free, what it is about to
move is still in the inbox, and what it has in hand comes from messages that were moved.
`MailKeepsPromise` is the refinement: initial states map to initial states, and each step
to `Deliver`, `Take`, `Import` or a stutter; `ImportsFromMoved` (whatever the fetch's
importer still has to do comes from moved messages) gives `Import` its guard.

Four theorems say what holds while certain faults do not occur. The hypothesis is on the
constant `Faults`, so each names what the code lets slip: with any one of these faults
added to `mail_benign`, TLC finds the property violated (a failing decoding needs a Graph
message with two attachments to lose one of them, which the instance does not have).

| Theorem | While there is no | Because |
|---|---|---|
| `MailSeenExact` | attachment that fails to decode | `FreeCarriesNothing`: what is about to be remembered as examined carries nothing; only the Graph scan judges by what it could decode |
| `MailStatusTruthful` | crash, failing status write | `HoldsAccount`: the run holds an account exactly between `StartAccount` and one of the writes every way out of the loop body makes |
| `MailMovedImported` | crash, failing move, decoding or database statement | `MovedAccounted`: each report of a moved message is in the run's hand, in the importer's batch, or stored; and `DownloadedFirst`: what is moved has been downloaded |
| `MailEvaluated` | crash, failing database statement, refused form, junk in an upload | `FreshOwed`: while a stored report is not evaluated, the run's total, a call's count, the form's count or the started goroutine still owes the evaluation |

**WorkersProofs, the alert engine.** `AlertInv`: whoever is between `Lock` and `Unlock` holds the lock
(`MutualExclusion`); an alert that was read as absent still is (`InsertNeverClashes`: only
an evaluation inserts, there is only one, and acknowledgements neither create nor remove
rows); what was handed over has its key of the day and was handed over once
(`HandedHasKey`); and what an evaluation is about to hand over has its key but was not
handed over that day (`OutIsFresh`). `AlertInsertSafe` and `AlertOncePerDay` follow, for
any number of evaluators, alerts and days, with crashes and failing statements.

**SeedAccountsProofs.** `ExaminedAccountedFor` speaks of the current UIDVALIDITY while a
run marks under the one it selected, so `SeedInv` speaks of all of them, and of the
messages done but not marked. `NewAccountStartsClean` rests on `IdInv`: an id above the
highest ever given out appears in no row, cache or process. It is what AUTOINCREMENT buys
here: without it (the mutant `NewIdReused`) the new account inherits the cached UIDs a
run in progress writes for the deleted one. `StaleTokenFromOverlap` speaks of a token in
the cache; it enters the cache at the end of a request that read the account before the
change, so `StaleOnRecord` says the same of such a request and of a listed account.

**WorkersProofs, the enrichment worker.** `StreamInv`: only the run that was started last may work, and it
does as long as the status says so (`StatusTellsWork`, which gives `OneRunAtATime` in spite
of the early reset of `Running`); a viewer that waits and lost nothing has its last event
in the channel, or some run will still send it (`NobodyForgotten`: `WillTell` follows the
event from the run's work through the copied subscriber set); and what lies behind the
present job is fresh (`BehindIsFresh`), which at the end of the last job is
`DoneMeansCached`.

**SnapshotLogProofs.** The write of an upsert uses a row read before; the invariant has to
say that the row is still the current one. `CursorRight` says it for the series with one
writer, and `ListedStale` why: what is still to be written was stale when the stage was
listed, so every row of it ends before the stamp. From that follow `RowsApart` and
`RowsAreChanges`. `CurrentIsLatest` needs that of any rows one comes first under the
`ORDER BY last_seen DESC, id DESC` (`FirstExists`). `Accounted`, that what is stale for a
stage is on its list or in its hands while nothing failed, gives `StageLeavesFresh`.
`ObservationsCounted` holds of the series with two writers as well, where the row that was
read may no longer be the current one: it still is a row of that series and state, so a
write adds one to the confirmations of exactly one state. They are counted as a set of
pairs (row, how often), which is what makes the sum provable: a write adds one pair.

**ServerLifeProofs.** `StartInv` says for each backfill what the tables hold when it is not
yet entered, when it is in progress and when its flag is set (`XmlInv`, `TlsInv`,
`BimiInv`, `RecheckInv`, `SeedInv`), for a start that may stop anywhere and begin again;
`FlagsInOrder` ties a phase to the flags before it. What makes the repetition harmless is
in the invariants: a document's child rows are all there or none is, and widening a
selector's range by a report it already covers changes nothing (`RangeOver`).
`ThrottleInv` counts the passwords in the air beside the failures on record. For
`BlockedDeservedly`, `Deserved` says of the entry of an address that it counts no more
failures than were recorded since its `first`, and that `first` and the failures are not in
the future: a request counts under the time it came while the failure is recorded later. The
window of the entry begins with its first failure, the one of the promise ends with the last:
of the failures within a window before the request the last one has all the others within a
window before it (`EarnedByLast`), and later failures take nothing from it (`EarnedStays`). As the minimum
of a set is a `CHOOSE`, two lemmas (`LeastExists`, `GreatestExists`) show that finite sets
of numbers have one.

**PolicyLookupsProofs.** The six properties of the lookups, each of which speaks of the end
of a lookup, for every zone, document, suffix list and limit.

- `SpfExpansionExact`. `SpfInv` says of every place of every record that was entered whether
  it has been read (`ReadAt`), from what is left of the calls on the stack: what has been
  read is in the result, the records it leads to are entered or about to be, and the
  places that cost a lookup are as many as `lookups`. When no call is left every place has
  been read, so the records entered are closed under what they lead to and hold the
  reachable ones, which are the least closed set; and the lookups made are the lookups
  needed (`LookupsNeeded` counts the places, `Sites`, of the reachable records). When the limit stops the evaluation, one more place costs a lookup than there is
  budget. Loops and shared includes need no case of their own.
- `TreeWalkExact`. `WalkInv`: the names asked are a prefix of the targets, and an answer
  that declares a boundary is the last. The lemmas on `Targets` say how the names of a
  long domain skip labels.
- `BimiDiscoveryExact`. `BimiInv` carries what the own record set ruled out through the
  walk; lemmas show that the states of a record and of a record set, computed tag by tag,
  are what the definition of a usable record says (`UsableRecord`).
- `TlsRowsTellTheZone`, with the hypothesis `NoHostTwice`: no zone lists an MX host twice.
  The code asks a host once per MX record (`tlspolicy/tlspolicy.go:339`), so a host under
  two preferences may have its TLSA lookup succeed and fail in one run and get two rows.
  `TlsInv` says which rows are there at which lookup, and of each row without an error
  that it tells the zone.
- `MarkVouchedWhenValid` and `MarkRevocationHonest`, from `MarkInv`: which document is
  being fetched determines what has been settled, and a status of revocation other than
  `unchecked` comes from an answer that was verified.

**StatisticsProofs.** The queries keep no state, so the invariant is small (`StatsInv`: what
is stored is of the pool) and the work is in the sums. A `SUM()` is `SumOf`, which the community modules define by taking one member
after the other in an order that a `CHOOSE` fixes. `Over(w, S)` is the sum of the weights `w`
over `S`; that it is the same whichever member comes first (`OverRemove`), and with it that
it splits (`OverSplit`), is monotone (`OverMono`) and that the sums of groups make the sum of
the whole (`OverGroups`), is shown without induction over data: of the subsets of `S` for
which it fails one is smallest, and there it cannot fail. `MessagesGroups` and `FannedGroups`
say it of rows and of the signatures, results and reasons that hang off them (`RowGroups`
and `FanGroups` are their hypotheses), and each view is then one grouping by one key.

- `MessagesAreAccountedFor`: `SameTotal`, `OutcomesAddUp`, `DetailsAgree`, `RawResultsAddUp`
  and `FailuresSplit` for any reports and any filters, which is what `TrafficAccountedFor`
  says of aggregate reports.
- `ReportersAlwaysTellOnePolicy`: the sums of the policy pages; that one effective tuple
  means agreement whoever is taken for the active one; and the change log. A reporter that
  told several policies has a first report that differs from its first one, and the report
  before that one still told the first (`UnsteadyHasChanged`); the days before a change and
  the days from it on share no row (`ChangeWindows`), since `to = at - 1` is a bound. A report
  that claims to begin with the epoch, which the parser does not refuse, would make that 0,
  which is no bound (`stats.go:81`): `RowsAssumption` leaves such reports out, and says so.

Two attempts failed for a good reason and are findings about the model. `TopFailingSources`
is the inventory only without addresses whose rows all count zero messages, which the parser
can leave behind (`parser/xml.go:58` clamps a negative count to 0): the instance now has such
a row. And `GetPctSampling` expects more messages to be spared than failed when a report says
`pct` below zero, which the parser does not refuse (`models/dmarc.go:167-169`), so
`SamplingAgrees` compares the two only for `pct >= 0`. `RowsAssumption` also leaves out
aggregate reports that name no domain, since no filter can ask for them.

The rules X1 to X11 (`DmarcRulesAgree`) read the same tables with queries of their own, so a
theorem about them compares two ways to select rows and two ways to group them.

- The windows of a rule are written as filters of a page: since a time (`SinceWindow`) and
  between two (`BetweenRows`). X1, X2, X10 and X11 are then sums over the same rows as the
  page's, whose query groups them otherwise; a source is new to X1 when the page says so.
- X4 reads the inventory of selectors, which imports widen and the operator marks, and the page
  reads the signatures. That what the inventory calls first seen was seen in a stored report of
  that day is inductive (`RulesInv`, by `InventoryIsOfReports`).
- X6 takes the reporters of two weeks that are not among those of the last days, for
  windows with one bound each; and where the page compares a window with the one before it,
  the two share no report and leave none out between them (`WindowsApart`).

The proof found three things. `ReportLatency` sorted reports by their delay, and among
equal delays a sort of a set takes any order: the model is now of ranks (`Nth`), which is
what a percentile needs and what the code's sort of numbers gives. A negative
`ALERT_KNOWN_DROP` makes X3 fire for sources that did not drop at all (`rules.go:250`), so the
clause about them asks for a setting that is not negative. And a filter that begins on day 1
has no day before it to compare with.

**TrafficProofs.** `TlsInv` says that what is stored is of the pool (`TlsKept`), and the
sums are again groupings (`GroupsAddUp`), now of two kinds: of policy entries, which carry the
sessions, and of failure details, which carry the observations.

- `SessionsAreAccountedFor`: for every set of stored TLS reports, every day and every filter,
  what `TrafficAccountedFor` says of them.
- `SessionsAddUp` rests on an order of reporters by their failure rates, which the code
  compares as quotients and the model by multiplying (`BelowExtremes`): a reporter with at
  least half of the others on either side exists as soon as anything was reported
  (`MedianExists`), so the page has a median exactly when it has sessions.
- `ObservationsAddUp`: incidents are the maximal runs of days with failures. Every such day is
  in exactly one run (`RunAt`) and two runs have a day without failures between them
  (`RunsApart`), so the incidents of a type and a host add up to its observations. What the
  details leave out of the summaries is told by the page (`FailuresAreTold`), session by
  session.

Here too two attempts failed for a good reason. A report whose policy names no domain stores
an empty one, which the filter reads as *any domain*, so `SessionsAddUp` compares the line of a
domain with its dashboard only where there is a domain to ask for. And the clause on
`TLSSenders` took the lists for complete, false as soon as more addresses failed than their
limit lets through, which the instance is too small to show; it now asks for the total only
of a list that is shorter than its limit. The lists of `TLSReceivers` are modelled before the
code cuts them.

The rest of the module is about BIMI, and ends with `TrafficIsAccountedFor`: the whole of
`TrafficAccountedFor`, for any pool of reports, any seed mail and any filters.

- Each view of reported errors, configurations and evaluations is a grouping of the error
  or assertion rows, so totals add up as before (`BimiErrorsAgree`, `ConfigsAgree`, `FreshnessAgrees`); a
  configuration on which evaluators disagree has one that failed.
- What B19 holds against a report is told: the counters of a report are sums over its
  assertions and its errors, by their place in the document, and a counter is zero exactly
  when nothing is broken in any place (`HygieneIsTold`). `AssertionPlaces` and `ErrorPlaces`
  exist for that.
- The lines of the page and the breakdown are of one classification (`ClassesMatch`).
- Verdicts are stored by a loop over the claims of a header, a fold in the model. An
  induction over its length is out of the prover's reach, so that folds exist and are unique
  is shown by a least counterexample (`FoldExists`, `FoldUnique`), and that a property of the
  rows survives each `SaveVerdict` carries over to the loop (`FoldKeeps`).
- `VerdictsKeptSound` is the inductive invariant this part needs: `BimiInv` adds to
  `StatsInv` that finitely many domains are managed, that no two verdicts are of one message
  and receiver, and that each is what a message claimed in its topmost header, of a time that
  is not in the future, and compared with a logo only where one is stored (`SoundRows`). It
  has to speak of rows in general, since the loop passes through lists that no state holds.

Three more attempts failed for a good reason. The property counted an attribute that is given
but empty as missing, where the parser counts what is absent (`parser/bimi.go:57-63`): both
instances, of a selector that is absent and of one that is empty, are now in the pool. The
model of an aggregate row could hold at most three signatures, results or overrides, which no
run had reached; the bound is gone. And `FindingsOf` was written so that TLC and the prover
grouped `UNION` and `\cup` differently.

The last part is about the rules and ends with `RulesAgree`: the whole of `RulesMatchPages`,
for any reports, lookups, seed mail, settings and filters.

- `TlsRulesAgree`, X12 to X19. The two weeks of X12 share no report and leave none out; where
  reporters applied different modes (X15), at least one of them drifts from the published mode,
  whatever it is; a host that X13 fires for has an incident, by the lemmas on runs of days.
- `LookupsKeptInTurn`: X20 to X27 read the rows of the lookups, and what they find rests on
  how these came about. `LookupInv` says of any two rows of a domain that the earlier one ends
  before the later begins and that neighbours differ (`InTurn`), of each row that it tells
  what a lookup found (`RowsFit`), and of the inventory that it lists just the domains of
  which a text was found (`SelectorsFit`).
- X20 to X22 (`RecordRulesAgree`): a change on the page is a pair of neighbours, so each row
  but the first makes one. X23 to X27 (`DocumentRulesAgree`): each rule fires for the
  findings the page shows in its column, and no finding that is an error is left to no rule.
- X28 (`NewErrorsAgree`): new in the window is reported in it and not before. X29
  (`DivergenceAgrees`): evaluators that count different errors of one record. X30
  (`RegressionsAgree`): the last verdict is the greatest by time and id; the rule's own
  ordering, by time alone, adds just the pairs with a pass in the same second.

What did not go through at first: the empty domain, which the filter reads as any domain, and
the host that reporters leave out, which X19 names `(unspecified)`, are excepted from two
clauses. And the list of findings that no rule speaks of was too short: of the mark inside a
document every error is silent, not the one of the instance.

## 7. What is only model-checked

- Liveness (`EventuallyImported`, `StandingConditionDelivered`, `RunFinishes`): TLAPS does
  not treat fairness and ENABLED.
- That the code breaks what its documents say (`mail_crash`, `alerts_ack_race`): a
  counterexample, which is TLC's to find.

Every other property of a passing run is stated by a theorem.

## 8. Where code and documents disagree

Two are runs that TLC refutes, with the trace as its evidence:

1. **Move before import** (`mail_crash`). `README.md:198-199` lists parse and import
   before the move. The code moves first (`imap/fetch.go:173-179`, `graph/fetch.go:267-281`)
   and imports from memory. A crash, a failed MOVE after part of it succeeded, or a
   database error in between loses reports for good; the processed folder is never read.
2. **Acknowledged between two statements** (`alerts_ack_race`). `UpsertAlert` reads the row
   and later sets `acknowledged_at = 0` (`database/alerts.go:150-168`) without looking again,
   while the operator's acknowledgement waits for no evaluation. Delivered on day 0, an alert
   is read as open by an evaluation of day 1, acknowledged, and opened again by the UPDATE;
   since it was read as open nobody is told. `views/alerts.html:57` and
   `views/help_alerts.html:17-18` say that an acknowledged alert re-opens, and is delivered
   again, only when the condition fires after the acknowledgement.

The rest was noticed while modelling and has no run of its own; the models follow the code.

- **Streams and snapshots.** The comment on `finish` guarantees the terminal event to a
  viewer that subscribed first; a viewer 32 events behind does not get it
  (`NoOrphanUnlessDropped` has that exception). `schema.sql` says one snapshot row per
  distinct state; two jobs that snapshot one BIMI domain at once each insert it, so
  `RowsAreChanges` is stated for the series with one writer.
- **Once a day.** That an alert goes out once a day at most is documented (`alerts.go:118-119`,
  `views/alerts.html:57`). What follows from it is not: acknowledged and fired again on the day
  it was sent, an alert is re-opened in silence, and as its row is open from then on, no later
  day tells of it either until it is acknowledged again. `OpenAlertsDelivered` counts the
  delivery of that day and is not violated by this. Nor does any document speak of an alert whose
  process dies, or whose `MarkAlertSent` fails (`alerts.go:121` drops the error), between its row
  and its delivery, or of a mail server that never answers while `evalMu` is held
  (`alerts.go:210`): such alerts are lost or late, and `StandingConditionDelivered` is checked
  without these failures.
- **Lockout.** `README.md:127-128` and `:350` say that an address is locked out for
  `AUTH_FAIL_WINDOW` after `AUTH_FAIL_MAX` failures, `authlimit.go:11-13` that it is blocked
  for the window after them, and the answer's Retry-After is the whole window. The code blocks
  until one window after the *first* of these failures (`authlimit.go:46`): failed at minutes 0
  and 14 with a limit of two and a window of 15, an address may try again at minute 15 and a
  bit, not at 29. `BlockedDeservedly` states the half that holds, that nobody is blocked but
  within a window after failing that often, and not the other, that it stays blocked so long.
- **Reports from the future.** Neither parser looks at the date range (`parser/xml.go:37-42`,
  `tlsrpt.go:121-146`), so a report may begin after now. The dashboard of a window without an
  end counts it; the filled trend ends at now and leaves it out (`stats.go:263-269`); X2 and X10
  stop a second after now (`rules.go:192`, `:446`), while X1, X11 and the reporters
  counted for a domain's score (`alerts_queries.go:23`) have no end. `SameTotal` therefore
  compares the filled trend, and `DmarcRulesMatchPages` X2 and X10, with the dashboard up to
  now.
- **Upload.** A form whose later file is refused returns before the rules are evaluated on
  its earlier ones (`handlers/upload.go:109`; `README.md:28` says after every import). The
  next import or the timer makes up for it.
- **SPF.** `redirect` is followed even when the record has `all`. A failed top-level lookup
  is stored as a checked row without networks, so `GetSpoofVolume` counts the domain's mail
  as not in SPF, while its comment keeps *unresolved* for domains with no cache yet.
- **TLS policy.** `tlspolicy.go:258` sets `NotPublished` when the TXT lookup failed; the
  comment on the field (lines 79-82) keeps it for an answer that said so.
- **BIMI.** A failed walk falls back to the suffix list without a word; the age of an OCSP
  answer is not looked at; a redirect of a CRL or OCSP fetch must be HTTPS though the first
  request may be HTTP.
- **Trend and policy.** `FillTrendGaps` (`stats.go:269`) steps seven days from `from` and
  leaves out the last partial week, so `TrafficAccountedFor` speaks of the filled weekly
  trend only without a `from`. `GetDomainPolicyBreakdown` counts a domain once per
  tied dominant policy. An empty `p` beside `none` gives a change-log entry with an empty
  difference and a disagreement in P2 and X8 although both mean the same policy. The change
  log reads reports that have no rows, P2 does not.
- **Overrides and gaps.** `CountOverrideMessages` counts a row once per reason, so X10 can
  fire on half the messages; the pairs of `GetAlignmentGap` count messages once per
  passing signature.
- **TLS reports.** Result types are stored in the reporter's spelling; hygiene and T4
  lower-case them, while X13, X14, X16, X17, T10, T11 and the type filter compare exact
  lower case. The keys of X14, X17 and of X15's drift leave out the reporter, so two
  reporters make two alerts with one fingerprint (`RulesMatchPages` therefore asks only
  that they have one severity). `TLSNewFailingReceiver.SiblingNodes` is described as "reported
  no failures in the window", and counts every node that ever failed, less one.
  `GetTLSCoverage`'s new and lapsed reporters, X18 and X19's node counts ignore the DKIM
  requirement that the comments of `TLSFilter` and `rules_tls.go:13-16` promise for all.

- **BIMI documents and rules.** `rules_bimi.go:172-173` leaves expired documents to X26,
  but the guard is `DaysToExpiry < 0` and the days are truncated (`evidence.go:168`): in the
  first 24 hours after the end both X25 and X26 fire. X23 to X27 and the page read the latest
  documents whatever the record says now, so a withdrawn record keeps its alerts. The
  queries for current rows (`bimi_snapshots.go:147`, `stats_bimi.go:232`) join on
  `MAX(last_seen)`: two rows of one second are both current. The inventory only ever holds
  `default`: `UpsertBIMISelector` is called for probed selectors and probing asks for what the
  inventory holds, while `SetBIMISelectorExpected` has no caller; so X22, about unexpected
  selectors, cannot see another one.
- **BIMI reports.** X29's key is the selector, so two configurations of one selector share a
  fingerprint. B14 compares a location that is empty in the record with the magic value
  `unpublished` of the reports. B18 counts reports that have rows, B19 all of them. With a
  domain filter, `computeBIMI` shows the breakdown over every managed domain beside the rows
  of one.
- **Seed verdicts.** `FindBIMIVerdictRegressions` joins on the newest second: a pass and a
  failure in it make a regression with no failures since the last pass, where the summary
  takes the higher id. Of several `bimi=` entries in one header of a message with an id, only
  the first is stored per receiver (`ON CONFLICT(message_id, receiver)`).
  `schema.sql:485` calls the verdict's time the message's Date header; the code prefers the
  server's.

## 9. What is not modelled

- Rendering, export, metrics, configuration, audit: they keep no state the other parts
  depend on.
- Decoding of XML, JSON, MIME, archives, certificates and SVG: the models take what a file
  or an answer decodes to as a constant.
- Cryptography (`secrets`, `dkimcheck`): library calls.
- HTTP and protocol details of IMAP, Graph, DNS and the token endpoints: success, failure,
  or the answer. Graph's paging and nextLink are one listing.
- `SyncEnvAccount` (start-up only) and the validation of the account form.
- In the refresher and the check job, the DMARC and MTA-STS records stored beside has_bimi,
  and the case that the list of existing checks cannot be read (everything is then checked).
- What is planned and not there yet: section 10.

## 10. Plan

Done: the ingest with its refinement and the alert engine; the concurrent parts
(`EnrichStream`, `SnapshotLog`, `SeedAccounts`); start-up and throttle; the lookups; the
DMARC, TLS and BIMI statistics with the rules X1 to X30.

Next, in this order:

1. The health score (`scoring/health.go`): monotone in what it counts, within its range.
2. The Graph variant of the seed mailboxes, and `SyncEnvAccount` against accounts added by
   hand.

## 11. Running it

```
tlc -workers 2 -config MailIngestFaults.cfg MCMailIngest.tla
tlapm MailIngestProofs.tla
```

`PROJECT.json` lists the module and configuration of every run and the expected outcome.
The largest runs are `mail_faults`, `mail_benign`, `snapshot_log` and `statistics` (one to
three minutes each); the proofs take over an hour from nothing, most of
it in `PolicyLookupsProofs`, `StatisticsProofs`, `TrafficProofs` and `MailIngestProofs`.
