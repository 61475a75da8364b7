------------------------------ MODULE DmarcRows ------------------------------
(* Aggregate reports as the statistics read them: reports joined with their    *)
(* record rows (DKIM signatures, SPF results and override reasons hang off a   *)
(* row), a filter and its windows, and what an import and the operator change. *)
(* The unit of time is a day.                                                  *)
EXTENDS Integers, Sequences, FiniteSets, FiniteSetsExt, Functions

CONSTANTS
    Pool,        \* the aggregate reports that may be imported
    AnyValue,    \* a StatsFilter field left empty
    LabelledIPs, \* addresses the operator may label
    MarkedSelectors, \* bound: the selectors the operator may mark as expected or not
    SpfOf,       \* domain -> the addresses its SPF record authorises
    MaxEdits,    \* bound: how often the operator or Enrich changes something
    FirstNow,    \* the day the database is created
    LastNow      \* bound: the last day of the clock

VARIABLES
    stored,      \* the reports imported so far
    inventory,   \* selectors: <<domain, selector>> -> [first, last, expected]
    labels,      \* ip_labels.classification by address
    located,     \* addresses whose ip_info names a country
    spfCache,    \* spf_authorized_cache: domains with a checked row
    managed,     \* managed_domains
    edits,
    now

\* A report has an id of its own and finitely many rows, of which the parser leaves
\* no negative count; an empty address is none.  Reports that name no domain, which no
\* filter can ask for, are left out; so are reports of the epoch: a date of 0 is no
\* date, and the day before day 1 would be that.
ASSUME RowsAssumption ==
    /\ IsFiniteSet(Pool)
    /\ FirstNow \in Int /\ FirstNow > 0 /\ LastNow \in Int
    /\ \A r, s \in Pool : r.id = s.id => r = s
    /\ \A r \in Pool :
          /\ r.id \in Int /\ r.domain # AnyValue
          /\ r.begin \in Nat /\ r.begin > 1
          /\ r.tuple.pct \in Int
          /\ IsFiniteSet(r.rows)
          /\ \A x \in r.rows :
                /\ x.ip # AnyValue
                /\ x.count \in Nat /\ x.dkim \in BOOLEAN /\ x.spf \in BOOLEAN
                /\ \A part \in {"sigs", "spfs", "over"} :
                      Len(x[part]) \in Nat /\ DOMAIN x[part] = 1 .. Len(x[part])

\* SetSelectorExpected is given a domain and a selector, UpsertIPLabel an address.
ASSUME EditsAssumption ==
    /\ \A k \in MarkedSelectors : k = <<k[1], k[2]>>
    /\ AnyValue \notin LabelledIPs

rowVars == <<stored, inventory, labels, located, spfCache, managed, edits, now>>

PolicyDomains == {r.domain : r \in Pool}
Addresses == UNION {{x.ip : x \in r.rows} : r \in Pool}
Classifications == {"", "known_good", "forwarder", "unknown", "suspicious"}

-----------------------------------------------------------------------------
(* The joins                                                               *)

JoinOf(R) == UNION {{[rep |-> r, row |-> x] : x \in r.rows} : r \in R}

\* StatsFilter.clauses without the dates; "" and 0 are no constraint.
Scoped(j, f) ==
    /\ f.envelopeFrom \in {AnyValue, j.row.efrom}
    /\ f.domain \in {AnyValue, j.rep.domain}
    /\ f.ip \in {AnyValue, j.row.ip}

InWindow(r, f) ==
    /\ f.from > 0 => r.begin >= f.from
    /\ f.to > 0 => r.begin <= f.to

WhereNoTime(f) == {j \in JoinOf(stored) : Scoped(j, f)}
Where(f) == {j \in WhereNoTime(f) : InWindow(j.rep, f)}

\* Reports read without their rows, which are joined only for a filter on them.
ReportsWhere(f) ==
    IF f.envelopeFrom # AnyValue \/ f.ip # AnyValue
    THEN {j.rep : j \in Where(f)}
    ELSE {r \in stored : f.domain \in {AnyValue, r.domain} /\ InWindow(r, f)}

\* One element per signature, SPF result or override reason of the rows J.
Signatures(J) == UNION {{<<j, i>> : i \in DOMAIN j.row.sigs} : j \in J}
SpfResults(J) == UNION {{<<j, i>> : i \in DOMAIN j.row.spfs} : j \in J}
Overrides(J) == UNION {{<<j, i>> : i \in DOMAIN j.row.over} : j \in J}

-----------------------------------------------------------------------------
(* Sums and groups                                                         *)

\* The sum of a distribution: every SUM() below is one over weights.
SumOf(w) == MapThenSumSet(LAMBDA k : w[k], DOMAIN w)

Messages(J) == SumOf([j \in J |-> j.row.count])
FannedMessages(P) == SumOf([p \in P |-> p[1].row.count])

Passing(J) == {j \in J : j.row.dkim \/ j.row.spf}
Failing(J) == {j \in J : ~j.row.dkim /\ ~j.row.spf}

Totals(J) == [messages |-> Messages(J), passed |-> Messages(Passing(J)),
              failed |-> Messages(Failing(J))]

\* GROUP BY the key of each row, with the totals of each group.
GroupedBy(key) == [k \in Range(key) |-> Totals({j \in DOMAIN key : key[j] = k})]

GroupSum(g) == SumOf([k \in DOMAIN g |-> g[k].messages])

\* ORDER BY messages DESC LIMIT n: which of equals come first is not fixed.
TopSets(g, n) ==
    {T \in SUBSET DOMAIN g :
        /\ Cardinality(T) = IF Cardinality(DOMAIN g) < n THEN Cardinality(DOMAIN g) ELSE n
        /\ \A k \in T, o \in DOMAIN g \ T : g[k].messages >= g[o].messages}

\* The values of a non-empty set of pairs <<value, messages>> that may come first.
Largest(S) == {s[1] : s \in {t \in S : \A u \in S : u[2] <= t[2]}}

-----------------------------------------------------------------------------
(* Windows                                                                 *)

Unbounded == [envelopeFrom |-> AnyValue, domain |-> AnyValue, ip |-> AnyValue,
              from |-> 0, to |-> 0]

WindowEnd(f) == IF f.to > 0 THEN f.to ELSE now

HasPrevious(f) == f.from > 0 /\ WindowEnd(f) > f.from

\* A plausible mistake: the window before ends where this one begins.
PreviousWindowTouching(f) ==
    LET length == WindowEnd(f) - f.from
    IN  [f EXCEPT !.to = f.from,
                  !.from = IF f.from - length < 1 THEN 1 ELSE f.from - length]

PreviousWindow(f) ==
    LET length == WindowEnd(f) - f.from
    IN  [f EXCEPT !.to = f.from - 1,
                  !.from = IF f.from - length < 1 THEN 1 ELSE f.from - length]

\* first_seen inside the window: what IsNew means for sources and selectors.
NewIn(first, f) == f.from > 0 /\ first >= f.from /\ (f.to = 0 \/ first <= f.to)

-----------------------------------------------------------------------------
(* What changes the tables                                                 *)

RowsInit ==
    /\ stored = {}
    /\ inventory = << >>
    /\ labels = [ip \in LabelledIPs |-> ""]
    /\ located = {}
    /\ spfCache = {}
    /\ managed = {}
    /\ edits = 0
    /\ now = FirstNow

Unseen == [first |-> 0, last |-> 0, expected |-> -1]
InventoryRow(k) == IF k \in DOMAIN inventory THEN inventory[k] ELSE Unseen

KeysOf(r) == {<<p[1].row.sigs[p[2]].domain, p[1].row.sigs[p[2]].selector>> :
                  p \in Signatures(JoinOf({r}))}

\* SaveReportAt, which widens the inventory of the selectors the report names.  The
\* date range is the reporter's word: it may begin after now.
ImportReport(r) ==
    LET named == {k \in KeysOf(r) : k[2] # ""}
        widened(k) == [InventoryRow(k) EXCEPT
                          !.first = IF @ = 0 \/ r.begin < @ THEN r.begin ELSE @,
                          !.last = IF r.begin > @ THEN r.begin ELSE @]
    IN  /\ r \notin stored
        /\ stored' = stored \cup {r}
        /\ inventory' = [k \in DOMAIN inventory \cup named |->
                            IF k \in named THEN widened(k) ELSE inventory[k]]
        /\ UNCHANGED <<labels, located, spfCache, managed, edits, now>>

Edit == edits < MaxEdits /\ edits' = edits + 1

\* UpsertIPLabel; an empty label deletes the row.
LabelSource(ip, c) ==
    /\ Edit
    /\ labels[ip] # c
    /\ labels' = [labels EXCEPT ![ip] = c]
    /\ UNCHANGED <<stored, inventory, located, spfCache, managed, now>>

\* SetSelectorExpected creates the row of a selector nobody has seen.
ExpectSelector(k, e) ==
    /\ Edit
    /\ inventory' = [x \in DOMAIN inventory \cup {k} |->
                        IF x = k THEN [InventoryRow(k) EXCEPT !.expected = e]
                        ELSE inventory[x]]
    /\ UNCHANGED <<stored, labels, located, spfCache, managed, now>>

\* The Enrich worker finds a country for an address.
LocateSource(ip) ==
    /\ Edit
    /\ ip \notin located
    /\ located' = located \cup {ip}
    /\ UNCHANGED <<stored, inventory, labels, spfCache, managed, now>>

\* The Enrich worker resolves the SPF record of a domain.
CacheSpf(d) ==
    /\ Edit
    /\ d \notin spfCache
    /\ spfCache' = spfCache \cup {d}
    /\ UNCHANGED <<stored, inventory, labels, located, managed, now>>

\* What Enrich found is dropped, for the next run to look up again.
ClearDNSCache ==
    /\ located' = {}
    /\ spfCache' = {}
    /\ UNCHANGED <<stored, inventory, labels, managed, edits, now>>

\* SeedManagedDomains adds the domains of all reports; RemoveManagedDomain.
ManageDomains ==
    /\ Edit
    /\ \/ managed' = managed \cup {r.domain : r \in stored}
       \/ \E d \in managed : managed' = managed \ {d}
    /\ UNCHANGED <<stored, inventory, labels, located, spfCache, now>>

DayPasses ==
    /\ now < LastNow
    /\ now' = now + 1
    /\ UNCHANGED <<stored, inventory, labels, located, spfCache, managed, edits>>

RowsNext ==
    \/ \E r \in Pool : ImportReport(r)
    \/ \E ip \in LabelledIPs, c \in Classifications : LabelSource(ip, c)
    \/ \E k \in MarkedSelectors, e \in {-1, 0, 1} : ExpectSelector(k, e)
    \/ \E ip \in Addresses : LocateSource(ip)
    \/ \E d \in PolicyDomains : CacheSpf(d)
    \/ ClearDNSCache
    \/ ManageDomains
    \/ DayPasses
=============================================================================
