--------------------------- MODULE MCPolicyLookups ---------------------------
(* A zone with shared, looping, failing and redirected SPF records; names up to *)
(* nine labels; TXT answers with zero to two records; zones with every kind of  *)
(* TLS publication; and documents that differ in one respect or in several.     *)
EXTENDS PolicyLookups

\* SPF: a0 includes a1 twice over a loop; a2 redirects; a3 needs many lookups.
Term0(mech, pass, arg) ==
    [mech |-> mech, pass |-> pass, arg |-> arg,
     lengths |-> [f \in {4, 6} |-> -1], literal |-> {}]
IP(number, bits) ==
    [Term0("ip", TRUE, NoName) EXCEPT
        !.literal = {[family |-> 4, number |-> number]}, !.lengths[4] = bits]

MCNames == {"top", "shared", "loop", "moved", "heavy", "empty", "host"}
MCPublished ==
    [n \in MCNames |->
        CASE n = "top"    -> <<<<Term0("include", TRUE, "shared"), IP(6, 3),
                                Term0("include", FALSE, "heavy"),
                                Term0("include", TRUE, "loop"), Term0("a", TRUE, "host")>>>>
          [] n = "shared" -> <<<<Term0("mx", TRUE, NoName), Term0("include", TRUE, "loop")>>,
                               <<Term0("all", TRUE, NoName)>>>>
          [] n = "loop"   -> <<<<IP(13, 9), Term0("include", TRUE, "shared"),
                                Term0("a", FALSE, Self)>>>>
          [] n = "moved"  -> <<<<Term0("redirect", TRUE, "empty"), Term0("exists", TRUE, "host"),
                                Term0("unknown", TRUE, NoName), Term0("ptr", FALSE, NoName),
                                Term0("redirect", TRUE, "shared")>>>>
          [] n = "heavy"  -> <<<<Term0("all", TRUE, NoName), Term0("a", TRUE, "host"), Term0("mx", TRUE, "shared"),
                                Term0("ptr", TRUE, NoName), Term0("include", TRUE, NoName),
                                Term0("a", TRUE, Self), Term0("exists", TRUE, "host")>>>>
          [] OTHER -> <<>>]
MCMailHosts ==
    [n \in MCNames |-> IF n = "shared" THEN <<"host", "heavy">> ELSE <<>>]
MCAddresses ==
    [n \in MCNames |-> IF n = "host"
        THEN {[family |-> 4, number |-> 5], [family |-> 6, number |-> 3]}
        ELSE IF n = "heavy" THEN {[family |-> 4, number |-> 9]} ELSE {}]
MCWidth == [f \in {4, 6} |-> IF f = 4 THEN 4 ELSE 2]

\* The tree walk: names of 2 to 5 labels with MaxQueries = 4.
Labels == <<"e", "d", "c", "b", "a">>
MCLookupDomains == {SubSeq(Labels, k, 5) : k \in {1, 2, 4}}
MCPublicSuffixes == {<<"a">>, <<"b", "a">>}
MCTxtAnswers == {<<>>, <<"other">>, <<"other", "plain">>, <<"y">>, <<"n">>, <<"plain", "y">>}

\* BIMI records.
Tag(name, value) == [name |-> name, value |-> value]
V == Tag("v", "good")
MCBimiAnswers ==
    {<<>>,
     <<<<Tag("x", "good")>>>>,
     <<<<V, Tag("l", "good"), Tag("a", "empty")>>>>,
     <<<<Tag("l", "good"), V>>, <<V, Tag("l", "empty")>>>>,
     <<<<V, Tag("l", "good")>>, <<V, Tag("l", "good")>>>>,
     <<<<V, Tag("l", "empty"), Tag("l", "good")>>>>,
     <<<<V, Tag("l", "warn"), Tag("avp", "bad"), Tag("lps", "warn"), Tag("x", "good")>>>>,
     <<<<V, Tag("l", "empty"), Tag("a", "bad")>>>>,
     <<<<Tag("v", "longer"), Tag("l", "good")>>>>,
     <<<<V, Tag("malformed", "good"), Tag("a", "good")>>>>}

\* TLS zones.
MCZones ==
    [rpt : {<<>>, <<"other", "rua">>, <<"norua">>, <<"rua", "rua">>, <<"rua", "norua">>},
     sts : BOOLEAN, file : {"none", "http", "bad", "good"},
     mx : {<<>>, <<"mx1", "mx2">>},
     tlsa : {[h \in {"mx1", "mx2"} |-> IF h = "mx1" THEN set ELSE {}] :
                set \in {{}, {"r1"}, {"r1", "r2", "r3"}}},
     udp : {1}]
MCServers == <<"ns1", "ns2">>

\* Documents.
MCUrls ==
    {[https |-> TRUE, host |-> "name", public |-> TRUE],
     [https |-> FALSE, host |-> "address", public |-> TRUE],
     [https |-> TRUE, host |-> "bare", public |-> TRUE],
     [https |-> TRUE, host |-> "name", public |-> FALSE]}
MCLogos ==
    {[content |-> "mark1", packed |-> FALSE, conforming |-> TRUE],
     [content |-> "mark2", packed |-> TRUE, conforming |-> TRUE],
     [content |-> "mark1", packed |-> FALSE, conforming |-> FALSE]}
MarkOf(content, digest, conforming) ==
    [content |-> content, packed |-> TRUE, digest |-> digest,
     conforming |-> conforming, embedded |-> TRUE]
Slots(subject, issuer) == [subject |-> subject, issuer |-> issuer, community |-> {}]
MCMarks ==
    {Slots({MarkOf("mark1", "same", TRUE)}, {MarkOf("mark2", "same", TRUE)}),
     Slots({}, {MarkOf("mark1", "none", TRUE)}),
     Slots({MarkOf("mark1", "differs", TRUE)}, {}),
     Slots({MarkOf("mark1", "unknown", FALSE)}, {}),
     Slots({[MarkOf("mark1", "same", TRUE) EXCEPT !.embedded = FALSE]}, {}),
     Slots({}, {})}
MCRecordDomain == <<"mail", "example", "org">>
San(wild, labels) == [wild |-> wild, labels |-> labels]
MCSans ==
    {{San(FALSE, MCRecordDomain)}, {San(TRUE, <<"example", "org">>)},
     {San(TRUE, <<"org">>), San(FALSE, <<"example", "org">>)}}
MCEvidence ==
    [certs : {0, 1, 2}, window : {"before", "in", "after"}, trusted : BOOLEAN,
     sans : MCSans, marks : MCMarks, revocation : {"ocsp", "crl", "none"}]
=============================================================================
