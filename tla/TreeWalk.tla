------------------------------ MODULE TreeWalk ------------------------------
(***************************************************************************)
(* The organisational domain of a name (internal/psl): by the public suffix  *)
(* list, or by the DNS tree walk of RFC 9989 section 4.10, one query at a    *)
(* time, any of which may fail.  A name is the sequence of its labels.       *)
(***************************************************************************)
EXTENDS Integers, Sequences, FiniteSets, SequencesExt, FiniteSetsExt

CONSTANTS
    PublicSuffixes,     \* the suffix list, as names
    MaxQueries,         \* 8
    TxtAnswers,         \* TXT answers: sequences of "other", "plain", "y", "n"
    NoDomain              \* no name

ASSUME WalkAssumption == MaxQueries \in Nat \ {0}

VARIABLES
    start,      \* the name that is resolved
    walkAt,     \* "idle", "walking", "select", "done"
    asked,      \* the names asked so far with their answers
    orgDomain,  \* TreeWalk.OrgDomain
    orgMethod   \* TreeWalk.Method

walkVars == <<start, walkAt, asked, orgDomain, orgMethod>>

LastLabels(name, k) == SubSeq(name, Len(name) - k + 1, Len(name))

\* The labels of the longest public suffix; an unlisted top level is one.
SuffixLength(name) ==
    Max({1} \cup {k \in 1 .. Len(name) : LastLabels(name, k) \in PublicSuffixes})

\* OrgDomain: one label more than the suffix, else the last two labels at most.
OrgDomain(name) ==
    IF SuffixLength(name) < Len(name)
    THEN LastLabels(name, SuffixLength(name) + 1)
    ELSE LastLabels(name, Min({2, Len(name)}))

Align(auth, header) ==
    CASE auth = header -> "exact"
      [] auth # header /\ OrgDomain(auth) = OrgDomain(header) -> "relaxed"
      [] OTHER -> "misaligned"

\* A plausible mistake: a name of MaxQueries labels is not long yet.
TargetsAllAncestors(name) ==
    <<name>> \o [j \in 1 .. Len(name) - 1 |-> LastLabels(name, Len(name) - j)]

\* treeWalkTargets: the name, then its ancestors, at most MaxQueries in all.
Targets(name) ==
    LET longest == IF Len(name) >= MaxQueries THEN MaxQueries - 1 ELSE Len(name) - 1
    IN <<name>> \o [j \in 1 .. longest |-> LastLabels(name, longest - j + 1)]

\* oneLabelBelow.
OneLabelBelow(name, parent) ==
    IF Len(name) <= Len(parent) THEN parent ELSE LastLabels(name, Len(parent) + 1)

\* singleDMARCRecord and the psd tag of the record: none unless exactly one.
Single(answer) ==
    LET records == SelectSeq(answer, LAMBDA kind : kind # "other")
    IN IF Len(records) = 1 THEN records[1] ELSE "none"

\* The queries that were answered with one record, by their place in the walk.
Policy == {i \in 1 .. Len(asked) : Single(asked[i].answer) # "none"}

WalkInit ==
    /\ start = NoDomain /\ walkAt = "idle" /\ asked = <<>>
    /\ orgDomain = NoDomain /\ orgMethod = "none"

Resolved(name, method) ==
    /\ orgDomain' = name /\ orgMethod' = method /\ walkAt' = "done"

\* OrgDomainFor: only "treewalk" walks.
OrgDomainFor(name, discovery) ==
    /\ walkAt = "idle"
    /\ start' = name
    /\ IF discovery = "treewalk"
       THEN walkAt' = "walking" /\ UNCHANGED <<orgDomain, orgMethod>>
       ELSE Resolved(OrgDomain(name), "psl")
    /\ UNCHANGED asked

\* A query of the walk answers; a psd tag, or the last target, ends the loop.
QueryAnswers ==
    /\ walkAt = "walking"
    /\ \E answer \in TxtAnswers :
          /\ asked' = Append(asked, [name |-> Targets(start)[Len(asked) + 1], answer |-> answer])
          /\ walkAt' = IF Single(answer) \in {"y", "n"} \/ Len(asked) + 1 = Len(Targets(start))
                       THEN "select" ELSE "walking"
    /\ UNCHANGED <<start, orgDomain, orgMethod>>

\* A query fails: the suffix list decides.
QueryFails ==
    /\ walkAt = "walking"
    /\ Resolved(OrgDomain(start), "psl")
    /\ UNCHANGED <<start, asked>>

Decides(q) == Single(q.answer) = "n" \/ (Single(q.answer) = "y" /\ q.name # start)

\* The selection of section 4.10.2 among the names with a record, longest first.
Select ==
    /\ walkAt = "select"
    /\ LET deciding == {i \in Policy : Decides(asked[i])}
           first == asked[Min(deciding)]
       IN \/ Policy = {} /\ Resolved(OrgDomain(start), "psl")
          \/ /\ Policy # {} /\ deciding = {}
             /\ Resolved(asked[Max(Policy)].name, "treewalk")
          \/ /\ deciding # {}
             /\ Resolved(IF Single(first.answer) = "n" THEN first.name
                         ELSE OneLabelBelow(start, first.name), "treewalk")
    /\ UNCHANGED <<start, asked>>

WalkStep == QueryAnswers \/ QueryFails \/ Select

-----------------------------------------------------------------------------

AskedNames == {q.name : q \in ToSet(asked)}
Ancestors(name) == {LastLabels(name, k) : k \in 1 .. Len(name)}

\* The organisational domain is the boundary its owner declared: the name with
\* psd=n; one label below a proper ancestor with psd=y; else the shortest name with
\* a record.  It is an ancestor of the start or the start.  A walk asks at most
\* MaxQueries names, and unless a declaration ended it, it has asked the start and
\* every ancestor of fewer than MaxQueries labels (psl/treewalk.go:48-57).
WalkExact ==
    walkAt = "done" =>
        /\ orgDomain \in Ancestors(start)
        /\ Len(asked) <= MaxQueries
        /\ orgMethod = "treewalk" =>
              LET records == {asked[i] : i \in Policy}
                  stops == {q \in records : Single(q.answer) \in {"y", "n"}}
                  declared == {q \in stops : Single(q.answer) = "n" \/ q.name # start}
              IN /\ Cardinality(stops) <= 1
                 /\ stops = {} => AskedNames = {start} \cup
                                     {s \in Ancestors(start) : Len(s) < MaxQueries}
                 /\ \A q \in declared :
                       IF Single(q.answer) = "n" THEN orgDomain = q.name
                       ELSE Len(orgDomain) = Len(q.name) + 1
                 /\ declared = {} =>
                       /\ \E q \in records : q.name = orgDomain
                       /\ \A q \in records : Len(orgDomain) <= Len(q.name)
=============================================================================
