----------------------------- MODULE TlsFailures -----------------------------
(* The metrics over failure details: result types, receivers, senders, reasons, *)
(* the policy host, DANE, address families and incidents.  One session may be   *)
(* in several details, so these count observations and never sessions.          *)
EXTENDS TlsReports

CONSTANTS
    NetworkOf,   \* stored address -> its /24 or /64
    FamilyOf,    \* stored address -> 4 or 6
    WhoisOf      \* stored address -> organisation and ASN, "(not enriched)" without one

\* SUM(failed_session_count), COUNT(*) and the result types of details X.
Observed(X) == [messages |-> SumOf([x \in X |-> x.det.count]), rows |-> Cardinality(X),
                types |-> {x.det.type : x \in X}]
ObservedBy(key) == [k \in Range(key) |-> Observed({x \in DOMAIN key : key[x] = k})]
Count(X) == Observed(X).messages

\* The host of a detail that names none.
Unspecified == <<"(unspecified)">>
HostOf(x) == IF x.det.host = << >> THEN Unspecified ELSE x.det.host

\* T4.
TLSResultGroup(t) ==
    IF LowerCase(t) \in DOMAIN Registered THEN Registered[LowerCase(t)] ELSE "unregistered"

TLSFailureBreakdown(f) ==
    LET shown(x) == IF x.det.type = "" THEN "(unspecified)" ELSE x.det.type
        types == ObservedBy([x \in FailuresIn(f) |-> shown(x)])
        in(g) == {t \in DOMAIN types : TLSResultGroup(t) = g}
    IN  [types |-> types, total |-> GroupSum(types),
         groups |-> [g \in {TLSResultGroup(t) : t \in DOMAIN types} |->
                        [messages |-> SumOf([t \in in(g) |-> types[t].messages])]]]

\* T5: every line of the three lists, of which the code returns the first (LIMIT).
TLSReceivers(f) ==
    LET X == FailuresIn(f)
        named == {x \in X : Receiving(x) # NoAddress}
        odd == {x \in X : x.det.helo # << >> /\ x.det.host # << >> /\ x.det.helo # x.det.host}
        hosts == ObservedBy([x \in X |-> HostOf(x)])
    IN  [byHost |-> hosts,
         distinctIPs |-> [h \in DOMAIN hosts |->
                             Cardinality({Receiving(x) : x \in {y \in named : HostOf(y) = h}})],
         byIP |-> ObservedBy([x \in named |-> <<Receiving(x), HostOf(x)>>]),
         heloMismatches |-> ObservedBy([x \in odd |-> <<x.det.host, x.det.helo>>]),
         unspecifiedIP |-> Count(X \ named)]

\* T6: networks and organisations sum the addresses that are listed.
TLSSenders(f, limit) ==
    LET named == {x \in FailuresIn(f) : Sending(x) # NoAddress}
        all == ObservedBy([x \in named |-> Sending(x)])
        rolled(T, of) ==
            [k \in Range(of) |->
                LET members == {ip \in T : of[ip] = k}
                IN  [messages |-> SumOf([ip \in members |-> all[ip].messages]),
                     ips |-> Cardinality(members)]]
    IN  {[byIP |-> [ip \in T |-> all[ip]],
          byNetwork |-> rolled(T, [ip \in T |-> NetworkOf[ip]]),
          byOrg |-> rolled(T, [ip \in T |-> WhoisOf[ip]]),
          unspecifiedIP |-> Count(FailuresIn(f) \ named)] : T \in TopSets(all, limit)}

\* T7.
TLSReasons(f) ==
    LET given == {x \in FailuresIn(f) : x.det.reason # ""}
    IN  [overall |-> ObservedBy([x \in given |-> x.det.reason]),
         byType |-> ObservedBy([x \in given |-> <<x.det.reason, x.det.type>>]),
         without |-> Count(FailuresIn(f) \ given)]

OfTypes(f, T) == {x \in FailuresIn(f) : x.det.type \in T}

\* T10: the host that serves the policy, not the hosts that receive mail.
TLSEndpointHealth(f) ==
    LET types == {"sts-policy-fetch-error", "sts-webpki-invalid", "sts-policy-invalid"}
    IN  [byType |-> ObservedBy([x \in OfTypes(f, types) |-> x.det.type]),
         byDay |-> ObservedBy([x \in OfTypes(f, types) |-> x.rep.begin])]

\* T11.
TLSDaneHealth(f) ==
    ObservedBy([x \in OfTypes(f, {"tlsa-invalid", "dnssec-invalid", "dane-required"}) |->
                   [type |-> x.det.type, org |-> x.rep.org, domain |-> x.pol.domain,
                    host |-> HostOf(x)]])

\* T14: only failures carry an address.
Family(ip) == IF ip = NoAddress THEN 0 ELSE FamilyOf[ip]
TLSFamilySplit(f) ==
    [sending |-> ObservedBy([x \in FailuresIn(f) |-> Family(Sending(x))]),
     receiving |-> ObservedBy([x \in FailuresIn(f) |-> Family(Receiving(x))])]

\* T15: maximal runs of days on which a type was reported for a host.
TLSIncidents(f) ==
    LET X == {x \in FailuresIn(f) : x.det.type # ""}
        pairs == {<<x.det.type, HostOf(x)>> : x \in X}
        of(k) == {x \in X : <<x.det.type, HostOf(x)>> = k}
        daysOf(k) == {x.rep.begin : x \in of(k)}
        run(D) == {s \in D \X D : /\ s[1] <= s[2]
                                  /\ s[1] .. s[2] \subseteq D
                                  /\ s[1] - 1 \notin D /\ s[2] + 1 \notin D}
    IN  UNION {{[type |-> k[1], host |-> k[2], first |-> s[1], last |-> s[2],
                 days |-> s[2] - s[1] + 1, ongoing |-> s[2] = now,
                 messages |-> Count({x \in of(k) : x.rep.begin \in s[1] .. s[2]})] :
                    s \in run(daysOf(k))} : k \in pairs}
=============================================================================
