------------------------------ MODULE DmarcAuth ------------------------------
(* The raw authentication results: selectors (A1), result distributions (A2,    *)
(* A4, A5), signing and envelope alignment (A3, A6), the alignment gap (A7) and *)
(* DNS errors (A8).                                                             *)
EXTENDS DmarcPolicy

CONSTANTS OrgDomainOf   \* name -> organisational domain (psl.OrgDomain)

Sig(p) == p[1].row.sigs[p[2]]
Spf(p) == p[1].row.spfs[p[2]]

\* GetSelectorInventory: IsNew comes from the inventory, not from the window.
SelectorStats(f) ==
    LET P == {p \in Signatures(Where(f)) : Sig(p).selector # ""}
        key(p) == <<Sig(p).domain, Sig(p).selector>>
        of(k) == {p \in P : key(p) = k}
    IN  [k \in {key(p) : p \in P} |->
            [total |-> FannedMessages(of(k)),
             passed |-> FannedMessages({p \in of(k) : Sig(p).result = "pass"}),
             failed |-> FannedMessages({p \in of(k) : Sig(p).result # "pass"}),
             first |-> InventoryRow(k).first,
             expected |-> InventoryRow(k).expected,
             isNew |-> NewIn(InventoryRow(k).first, f)]]

\* Distribution of one value of the raw results, weighted by messages.
Distribution(value) ==
    [v \in Range(value) |-> FannedMessages({p \in DOMAIN value : value[p] = v})]

DKIMRawResults(f) ==
    Distribution([p \in Signatures(Where(f)) |->
                     IF Sig(p).result = "" THEN "none" ELSE Sig(p).result])
SPFRawResults(f) ==
    Distribution([p \in SpfResults(Where(f)) |->
                     IF Spf(p).result = "" THEN "none" ELSE Spf(p).result])
SPFScopeSplit(f) ==
    Distribution([p \in SpfResults(Where(f)) |->
                     IF Spf(p).scope = "" THEN "mfrom" ELSE Spf(p).scope])

\* psl.Align: exact, relaxed or neither; an empty name aligns with nothing.
AlignOf(a, h) ==
    IF a = "" \/ h = "" THEN "misaligned"
    ELSE IF a = h THEN "exact"
    ELSE IF OrgDomainOf[a] = OrgDomainOf[h] THEN "relaxed" ELSE "misaligned"

SigningAlignment(f) ==
    LET P == {p \in Signatures(Where(f)) : Sig(p).domain # ""}
        class(c) == {p \in P : AlignOf(Sig(p).domain, p[1].row.hfrom) = c}
        signatures(n) == {j \in Where(f) : Len(j.row.sigs) = n}
    IN  [exact |-> FannedMessages(class("exact")),
         relaxed |-> FannedMessages(class("relaxed")),
         thirdParty |-> FannedMessages(class("misaligned")),
         total |-> FannedMessages(P),
         domains |-> Distribution([p \in class("misaligned") |-> Sig(p).domain]),
         histogram |-> [n \in {Len(j.row.sigs) : j \in Where(f)} |->
                           [records |-> Cardinality(signatures(n)),
                            messages |-> Messages(signatures(n))]]]

\* GetEnvelopeFromAlignment: pairs merged per envelope_from, whose class is that
\* of a header_from it was paired with most.
EnvelopeFromAlignment(f) ==
    LET J == Where(f)
        of(e) == {j \in J : j.row.efrom = e}
        paired(e) == GroupedBy([j \in of(e) |-> j.row.hfrom])
        main(e) == Largest({<<h, paired(e)[h].messages>> : h \in DOMAIN paired(e)})
        class(e, h) == IF e = "" THEN "none"
                       ELSE IF e = "<>" THEN "null_sender" ELSE AlignOf(e, h)
    IN  [e \in {j.row.efrom : j \in J} |->
            [totals |-> Totals(of(e)), classes |-> {class(e, h) : h \in main(e)}]]

-----------------------------------------------------------------------------
(* Alignment gap: authenticated, but not for the header_from               *)

DkimGap(j) == ~j.row.dkim /\ RawPass(j.row.sigs)
SpfGap(j) == ~j.row.spf /\ RawPass(j.row.spfs)

\* A pair counts a row's records once but its messages once per signature.
AlignmentGap(f) ==
    LET J == Where(f)
        gap == {j \in J : DkimGap(j) \/ SpfGap(j)}
        dkim == {p \in Signatures(J) : ~p[1].row.dkim /\ Sig(p).result = "pass"}
        spf == {p \in SpfResults(J) : ~p[1].row.spf /\ Spf(p).result = "pass"}
        pairs(domain) ==
            [k \in {<<domain[p], p[1].row.hfrom>> : p \in DOMAIN domain} |->
                LET Q == {p \in DOMAIN domain : <<domain[p], p[1].row.hfrom>> = k}
                IN  [messages |-> FannedMessages(Q), records |-> Cardinality({p[1] : p \in Q})]]
    IN  [messages |-> Messages(gap), records |-> Cardinality(gap),
         dkim |-> Messages({j \in J : DkimGap(j)}), spf |-> Messages({j \in J : SpfGap(j)}),
         dkimPairs |-> pairs([p \in dkim |-> Sig(p).domain]),
         spfPairs |-> pairs([p \in spf |-> Spf(p).domain])]

DnsErrors == {"temperror", "permerror"}

\* GetDNSErrorRate: both kinds of results, each weighted by the row's messages.
DNSErrorRate(f) ==
    LET S == Signatures(Where(f))
        R == SpfResults(Where(f))
        orgs == {p[1].rep.org : p \in S} \cup {p[1].rep.org : p \in R}
        of(P, o) == {p \in P : p[1].rep.org = o}
    IN  [o \in orgs |->
            [results |-> FannedMessages(of(S, o)) + FannedMessages(of(R, o)),
             errors |-> FannedMessages({p \in of(S, o) : Sig(p).result \in DnsErrors})
                      + FannedMessages({p \in of(R, o) : Spf(p).result \in DnsErrors})]]
=============================================================================
