---------------------------- MODULE MCMailIngest ----------------------------
(***************************************************************************)
(* Instances of MailIngest for TLC: an IMAP account (m1, and the report-free *)
(* m2) and a Graph account (g1).  A TLS report, a second one that reuses its *)
(* id for another window, an uploaded copy of the first, an aggregate report *)
(* with the same id in its own table, and a file that does not parse.        *)
(***************************************************************************)
EXTENDS MailIngest, TLC

CONSTANTS m1, m2, g1

MCMessages == {m1, m2, g1}
MCAccountOf == m1 :> "A" @@ m2 :> "A" @@ g1 :> "B"
MCProviderOf == [A |-> "imap", B |-> "graph"]

\* tls1 and tls2 share an id and differ in their window; copy repeats tls1.
MCAttachments == {"agg", "tls1", "tls2", "copy", "bad"}
MCFormatOf == [agg |-> "dmarc", tls1 |-> "tlsrpt", tls2 |-> "tlsrpt", copy |-> "tlsrpt",
               bad |-> "junk"]
MCIdOf == [agg |-> 1, tls1 |-> 1, tls2 |-> 1, copy |-> 1, bad |-> 2]
MCWindowOf == [agg |-> 1, tls1 |-> 1, tls2 |-> 2, copy |-> 1, bad |-> 1]
\* m1 carries the aggregate report or, where failures are many, the junk file.
MCMessageOf == [agg |-> m1, tls1 |-> m1, tls2 |-> g1, copy |-> None, bad |-> None]
MCMessageOfBad == [MCMessageOf EXCEPT !.agg = None, !.bad = m1]
=============================================================================
