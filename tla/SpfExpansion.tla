---------------------------- MODULE SpfExpansion ----------------------------
(***************************************************************************)
(* The expansion of one domain's SPF record into networks                    *)
(* (internal/spf/resolve.go), and the cache row the enrichment run makes of  *)
(* it (resolveSPFEntry, UpsertSPFCache).                                     *)
(*                                                                          *)
(* expand calls itself for include and redirect; its calls are the stack     *)
(* `frames`, outermost first.  Every lookup may fail.  An address is a       *)
(* family and a number, a network an address and a prefix length.            *)
(***************************************************************************)
EXTENDS Integers, Sequences, FiniteSets, SequencesExt, FiniteSetsExt

CONSTANTS
    Names,          \* domains and hosts
    Published,      \* the v=spf1 records at a name, each the sequence of its terms: a
                    \* mechanism, whether it can authorise (+), its domain, its prefix
                    \* lengths (-1 when there is none), the addresses it spells out
    MailHosts,      \* the MX hosts of a name, in order
    Addresses,      \* the addresses of a name
    Width,          \* address bits per family: 32 and 128
    MaxLookups,     \* 10
    Self,           \* %{d}: the domain of the record
    NoName          \* no domain given

Families == DOMAIN Width

SpfTerms == [mech : STRING, pass : BOOLEAN, arg : Names \cup {Self, NoName},
             lengths : [Families -> Int], literal : SUBSET [family : Families, number : Nat]]

ASSUME SpfAssumption ==
    /\ IsFiniteSet(Names) /\ NoName \notin Names /\ Self \notin Names /\ Self # NoName
    /\ MaxLookups \in Nat
    /\ Published \in [Names -> Seq(Seq(SpfTerms))]
    /\ MailHosts \in [Names -> Seq(Names)]

VARIABLES
    origin,     \* the domain that is resolved
    spfAt,      \* "idle", "enter" a record, its "terms", "done", "failed", "stored"
    target,     \* the record to enter
    frames,     \* the calls of expand: domain, terms left, redirect
    found,      \* res.CIDRs
    consulted,  \* seen
    lookups,    \* res.Lookups
    over,       \* res.OverLimit
    faults,     \* res.Errors, by kind
    entry       \* the row of spf_authorized_cache, as a set of none or one

spfVars == <<origin, spfAt, target, frames, found, consulted, lookups, over, faults, entry>>

-----------------------------------------------------------------------------
(* Terms and networks                                                      *)

Masked(a, bits) ==
    LET unit == 2 ^ (Width[a.family] - bits)
    IN [family |-> a.family, base |-> a.number - (a.number % unit), bits |-> bits]

\* addIP: a length that is missing or out of range (parseHostAndLengths) is the full one.
Bits(t, family) == IF t.lengths[family] \in 0 .. Width[family] THEN t.lengths[family]
                                                               ELSE Width[family]

\* ip4 and ip6: an address that parses, without a length or with one in range.
Literals(t) ==
    {Masked(a, Bits(t, a.family)) :
        a \in {x \in t.literal : t.lengths[x.family] \in -1 .. Width[x.family]}}

\* addIP of every address of a host.
NetworksOf(host, t) == {Masked(a, Bits(t, a.family)) : a \in Addresses[host]}

Everything == {[family |-> f, base |-> 0, bits |-> 0] : f \in Families}

\* expandMacroDomain, and the default host of a and mx.
HostOf(t, name) == IF t.arg \in {NoName, Self} THEN name ELSE t.arg

\* The terms that cost a lookup, whatever their qualifier.
Querying == {"a", "mx", "include", "exists", "ptr"}

\* The last redirect= of a record: a later one replaces an earlier one.
RedirectOf(terms, name) ==
    LET i == SelectLastInSeq(terms, LAMBDA t : t.mech = "redirect")
    IN IF i = 0 \/ terms[i].arg = NoName THEN NoName ELSE HostOf(terms[i], name)

SpfInit ==
    /\ origin = NoName /\ spfAt = "idle" /\ target = NoName
    /\ frames = <<>> /\ found = {} /\ consulted = {}
    /\ lookups = 0 /\ over = FALSE /\ faults = {} /\ entry = {}

-----------------------------------------------------------------------------

\* Resolve.
ResolveSpf(d) ==
    /\ spfAt = "idle"
    /\ origin' = d /\ target' = d /\ spfAt' = "enter"
    /\ UNCHANGED <<frames, found, consulted, lookups, over, faults, entry>>

AtTop == consulted = {}

\* expand, up to its loop: a record is entered once; a missing one is a fault
\* below the top, and of several the first is used.
Enter ==
    /\ spfAt = "enter"
    /\ consulted' = consulted \cup {target}
    /\ spfAt' = "terms"
    /\ IF target \in consulted
       THEN UNCHANGED <<frames, faults>>
       ELSE /\ frames' = IF Published[target] = <<>> THEN frames
                         ELSE Append(frames, [name |-> target, rest |-> Published[target][1]])
            /\ faults' = faults
                   \cup (IF Published[target] = <<>> /\ ~AtTop THEN {"none"} ELSE {})
                   \cup (IF Len(Published[target]) > 1 THEN {"many"} ELSE {})
    /\ UNCHANGED <<origin, target, found, lookups, over, entry>>

\* The TXT lookup fails: at the top Resolve fails with it.
EnterFails ==
    /\ spfAt = "enter" /\ target \notin consulted
    /\ spfAt' = IF AtTop THEN "failed" ELSE "terms"
    /\ consulted' = consulted \cup {target}
    /\ faults' = faults \cup {"dns"}
    /\ UNCHANGED <<origin, target, frames, found, lookups, over, entry>>

\* The record being read and its next term.
Current == Last(frames)
HasTerm == spfAt = "terms" /\ frames # <<>> /\ Current.rest # <<>>
Term == Head(Current.rest)
NextTerm == frames' = [frames EXCEPT ![Len(frames)].rest = Tail(@)]

\* A modifier, all, ip4, ip6, or a mechanism that is not known.
PlainTerm ==
    /\ HasTerm /\ Term.mech \notin Querying
    /\ NextTerm
    /\ found' = CASE Term.mech = "all" /\ Term.pass -> found \cup Everything
                  [] Term.mech = "ip" /\ Term.pass -> found \cup Literals(Term)
                  [] OTHER -> found
    /\ faults' = faults \cup (IF \/ Term.mech = "all" /\ Term.pass
                                 \/ Term.mech = "unknown"
                                 \/ Term.mech = "ip" /\ Term.pass /\ Literals(Term) = {}
                              THEN {"remark"} ELSE {})
    /\ UNCHANGED <<origin, spfAt, target, consulted, lookups, over, entry>>

\* countLookup refuses: expand returns, and so does every call above it, since
\* each looks at OverLimit.
LimitReached ==
    /\ HasTerm /\ Term.mech \in Querying /\ lookups >= MaxLookups
    /\ over' = TRUE /\ faults' = faults \cup {"limit"}
    /\ frames' = <<>>
    /\ UNCHANGED <<origin, spfAt, target, found, consulted, lookups, entry>>

\* A plausible mistake: the limit is noticed one lookup late.
CountLookupLate == lookups <= MaxLookups /\ lookups' = lookups + 1

\* countLookup lets this one through.
CountLookup == lookups < MaxLookups /\ lookups' = lookups + 1

\* a: the addresses of the host; a host without any is a failed lookup.
TermA ==
    /\ HasTerm /\ Term.mech = "a" /\ CountLookup /\ NextTerm
    /\ LET host == HostOf(Term, Current.name)
       IN  \/ ~Term.pass /\ UNCHANGED <<found, faults>>
           \/ /\ Term.pass /\ Addresses[host] # {}
              /\ found' = found \cup NetworksOf(host, Term) /\ UNCHANGED faults
           \/ /\ Term.pass
              /\ faults' = faults \cup {"dns"} /\ UNCHANGED found
    /\ UNCHANGED <<origin, spfAt, target, consulted, over, entry>>

\* mx: the addresses of the first MaxLookups hosts; any of the lookups may fail.
TermMX ==
    /\ HasTerm /\ Term.mech = "mx" /\ CountLookup /\ NextTerm
    /\ LET all == MailHosts[HostOf(Term, Current.name)]
           hosts == ToSet(SubSeq(all, 1, Min({Len(all), MaxLookups})))
       IN  \/ /\ Term.pass /\ all # <<>>
              /\ \E failing \in SUBSET hosts :
                    /\ {h \in hosts : Addresses[h] = {}} \subseteq failing
                    /\ found' = found \cup UNION {NetworksOf(h, Term) : h \in hosts \ failing}
                    /\ faults' = faults \cup (IF failing = {} THEN {} ELSE {"dns"})
                                        \cup (IF Len(all) > MaxLookups THEN {"cut"} ELSE {})
           \/ /\ Term.pass
              /\ faults' = faults \cup {"dns"} /\ UNCHANGED found
           \/ /\ ~Term.pass /\ UNCHANGED <<found, faults>>
    /\ UNCHANGED <<origin, spfAt, target, consulted, over, entry>>

\* include: counted in any case, entered when it names a domain and can authorise.
TermInclude ==
    /\ HasTerm /\ Term.mech = "include" /\ CountLookup /\ NextTerm
    /\ IF Term.pass /\ Term.arg # NoName
       THEN target' = HostOf(Term, Current.name) /\ spfAt' = "enter"
       ELSE UNCHANGED <<target, spfAt>>
    /\ faults' = faults \cup (IF Term.arg = NoName THEN {"remark"} ELSE {})
    /\ UNCHANGED <<origin, found, consulted, over, entry>>

\* exists, ptr: counted, and nothing to add.
TermOpaque ==
    /\ HasTerm /\ Term.mech \in {"exists", "ptr"} /\ CountLookup /\ NextTerm
    /\ faults' = faults \cup {"remark"}
    /\ UNCHANGED <<origin, spfAt, target, found, consulted, over, entry>>

\* The terms are read: the redirect, if any, is a lookup and replaces the call.
EndOfRecord ==
    /\ spfAt = "terms" /\ frames # <<>> /\ Current.rest = <<>>
    /\ LET to == RedirectOf(Published[Current.name][1], Current.name)
       IN  IF to = NoName
           THEN frames' = Front(frames) /\ UNCHANGED <<spfAt, target, lookups, over, faults>>
           ELSE IF lookups >= MaxLookups
           THEN /\ over' = TRUE /\ faults' = faults \cup {"limit"} /\ frames' = <<>>
                /\ UNCHANGED <<spfAt, target, lookups>>
           ELSE /\ lookups' = lookups + 1
                /\ target' = to /\ spfAt' = "enter" /\ frames' = Front(frames)
                /\ UNCHANGED <<over, faults>>
    /\ UNCHANGED <<origin, found, consulted, entry>>

\* The outermost call has returned.
ResolveEnds ==
    /\ spfAt = "terms" /\ frames = <<>>
    /\ spfAt' = "done"
    /\ UNCHANGED <<origin, target, frames, found, consulted, lookups, over, faults, entry>>

\* resolveSPFEntry and UpsertSPFCache: a failure is stored as a row without
\* networks, checked now.
StoreEntry ==
    /\ spfAt \in {"done", "failed"}
    /\ entry' = {IF spfAt = "failed"
                 THEN [nets |-> {}, lookups |-> 0, over |-> FALSE, error |-> TRUE]
                 ELSE [nets |-> found, lookups |-> lookups, over |-> over, error |-> faults # {}]}
    /\ spfAt' = "stored"
    /\ UNCHANGED <<origin, target, frames, found, consulted, lookups, over, faults>>

SpfStep ==
    \/ \E d \in Names : ResolveSpf(d)
    \/ Enter \/ EnterFails \/ PlainTerm \/ LimitReached
    \/ TermA \/ TermMX \/ TermInclude \/ TermOpaque
    \/ EndOfRecord \/ ResolveEnds \/ StoreEntry

SpfSpec == SpfInit /\ [][SpfStep]_spfVars

-----------------------------------------------------------------------------
(* What the record authorises, without an order                            *)

TermsAt(n) == IF Published[n] = <<>> THEN {} ELSE ToSet(Published[n][1])

\* The records a record leads to.
Follows(n) ==
    IF Published[n] = <<>> THEN {}
    ELSE {HostOf(t, n) : t \in {x \in TermsAt(n) :
                                    x.mech = "include" /\ x.pass /\ x.arg # NoName}}
             \cup ({RedirectOf(Published[n][1], n)} \ {NoName})

Closed(S) == \A n \in S : Follows(n) \subseteq S

\* The least closed set with d in it.
Reachable(d) == {n \in Names : \A S \in SUBSET Names : d \in S /\ Closed(S) => n \in S}

\* The networks one term authorises, had it all its answers.
Authorises(t, n) ==
    IF ~t.pass THEN {}
    ELSE CASE t.mech = "all" -> Everything
           [] t.mech = "ip"  -> Literals(t)
           [] t.mech = "a"   -> NetworksOf(HostOf(t, n), t)
           [] t.mech = "mx"  -> LET all == MailHosts[HostOf(t, n)]
                                IN UNION {NetworksOf(all[i], t) :
                                              i \in 1 .. Min({Len(all), MaxLookups})}
           [] OTHER -> {}

AuthorisedBy(d) == UNION {UNION {Authorises(t, n) : t \in TermsAt(n)} : n \in Reachable(d)}

\* The places of a record that cost a lookup: its querying terms, and its redirect.
Sites(n) ==
    IF Published[n] = <<>> THEN {}
    ELSE {i \in 1 .. Len(Published[n][1]) : Published[n][1][i].mech \in Querying}
             \cup (IF RedirectOf(Published[n][1], n) = NoName THEN {} ELSE {0})

AllSites(d) == UNION {{<<n, i>> : i \in Sites(n)} : n \in Reachable(d)}

\* The lookups an evaluation without a limit makes.
LookupsNeeded(d) == Cardinality(AllSites(d))

-----------------------------------------------------------------------------

\* Nothing is authorised that no record reachable from the domain authorises,
\* whatever fails; and with every answer and within the limit nothing is missing:
\* loops, shared includes and redirects included.  A row of the cache is the same.
\* The limit stops the evaluations that need more than MaxLookups lookups and no
\* other, though they are counted one by one across nested records (RFC 7208 section
\* 4.6.4, resolve.go:1-10).
ExpansionExact ==
    /\ origin # NoName => found \subseteq AuthorisedBy(origin)
    /\ spfAt = "stored" /\ "dns" \notin faults /\ ~over =>
           \A e \in entry : e.nets = AuthorisedBy(origin)
    /\ spfAt \in {"done", "stored"} /\ "dns" \notin faults =>
           /\ over <=> LookupsNeeded(origin) > MaxLookups
           /\ ~over => lookups = LookupsNeeded(origin)
=============================================================================
