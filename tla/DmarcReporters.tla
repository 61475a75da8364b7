---------------------------- MODULE DmarcReporters ----------------------------
(* The reporters: inventory (R1), silence (R2), latency (R3), odd windows (R4), *)
(* schema versions (R6), domains nobody manages (R7) and recipients (R8).       *)
EXTENDS DmarcAuth

\* How long after its window a report came is known of one with a date.
ASSUME DelaysAssumption == \A r \in Pool : r.dated => r.delay \in Int

\* The last day of a report's window; windows are given in hours.
EndOf(r) == r.begin + r.hours \div 24

ReporterInventory(f) ==
    LET J == Where(f)
        of(o) == {j.rep : j \in {k \in J : k.rep.org = o}}
    IN  [o \in {j.rep.org : j \in J} |->
            [messages |-> Messages({j \in J : j.rep.org = o}),
             reports |-> Cardinality(of(o)),
             domains |-> Cardinality({r.domain : r \in of(o)}),
             versions |-> {r.version : r \in of(o)},
             first |-> Least({r.begin : r \in of(o)}),
             last |-> Greatest({EndOf(r) : r \in of(o)})]]

\* GetReporterGaps: active within activeDays, nothing that began in gapDays.
ReporterGaps(activeDays, gapDays) ==
    LET last(o) == Greatest({r.begin : r \in {x \in stored : x.org = o}})
    IN  {o \in {r.org : r \in stored} :
            last(o) >= now - activeDays /\ last(o) < now - gapDays}

\* GetReporterPresence: reports per day, for those who sent one in days.
ReporterPresence(days) ==
    LET recent == {r \in stored : r.begin >= now - (days - 1)}
    IN  [o \in {r.org : r \in recent} |->
            [i \in 0 .. days - 1 |->
                Cardinality({r \in recent : r.org = o /\ r.begin = now - (days - 1) + i})]]

\* The n-th of the delays of reports R in ascending order, equal ones included.
Nth(R, n) ==
    CHOOSE v \in {r.delay : r \in R} : /\ Cardinality({r \in R : r.delay < v}) < n
                                      /\ n <= Cardinality({r \in R : r.delay <= v})

\* percentile: nearest rank.
Percentile(R, p) ==
    LET rank == (Cardinality(R) * p * 2 + 100) \div 200
    IN  Nth(R, IF rank < 1 THEN 1 ELSE IF rank > Cardinality(R) THEN Cardinality(R) ELSE rank)

\* GetReportLatency: hours from the end of the window to the mail's date.
ReportLatency(f) ==
    LET dated == {r \in ReportsWhere(f) : r.dated}
        of(o) == {r \in dated : r.org = o}
    IN  [o \in {r.org : r \in dated} |->
            [samples |-> Cardinality(of(o)),
             median |-> Percentile(of(o), 50), p95 |-> Percentile(of(o), 95),
             min |-> Nth(of(o), 1), max |-> Nth(of(o), Cardinality(of(o)))]]

DateRangeAnomalies(f) == {r \in ReportsWhere(f) : r.hours < 23 \/ r.hours > 25}

SchemaDistribution(f) ==
    LET R == ReportsWhere(f)
        key(r) == <<IF r.version = "" THEN "(none)" ELSE r.version,
                    IF r.ns = "" THEN "rfc7489" ELSE "dmarc-2.0">>
    IN  [k \in {key(r) : r \in R} |-> {r.org : r \in {x \in R : key(x) = k}}]

UnmanagedDomains(f) ==
    LET J == {j \in Where(f) : j.rep.domain \notin managed}
    IN  GroupedBy([j \in J |-> j.rep.domain])

\* CountDistinctReporters, over reports with or without rows.
DistinctReporters(d, since) ==
    Cardinality({r.org : r \in {x \in stored : x.begin >= since /\ d \in {AnyValue, x.domain}}})
=============================================================================
