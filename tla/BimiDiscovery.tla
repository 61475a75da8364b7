---------------------------- MODULE BimiDiscovery ----------------------------
(***************************************************************************)
(* The lookup of a BIMI assertion record (internal/bimi/record.go and        *)
(* lookup.go): the domain, then its organisational domain.  A TXT record is  *)
(* the sequence of its tags, a tag its name and what its value is worth:     *)
(* "empty", "good", "warn" or "bad"; without "=" it is "malformed".          *)
(***************************************************************************)
EXTENDS TreeWalk, Folds

CONSTANT BimiAnswers    \* TXT answers: sequences of records

BimiTags == [name : STRING, value : {"empty", "good", "warn", "bad", "longer"}]

ASSUME BimiAssumption == BimiAnswers \subseteq Seq(Seq(BimiTags))

VARIABLES
    bimiAt,     \* "idle", "own", "walk", "parent", "done"
    ownSet,     \* the answer of the domain, and of its organisational domain
    orgSet,
    bimi        \* Result: state, where it was found

bimiVars == <<bimiAt, ownSet, orgSet, bimi>>

-----------------------------------------------------------------------------
(* One record                                                              *)

\* hasBIMIVersion: begins with v=BIMI1, whatever follows a blank.
HasBimiVersion(rec) ==
    rec # <<>> /\ Head(rec).name = "v" /\ Head(rec).value \in {"good", "longer"}

\* The severity of a tag by itself (checkURI, parseLPS, the switch of Parse).
Severity(tag) ==
    CASE tag.name = "malformed" -> "error"
      [] tag.name = "v" -> IF tag.value = "good" THEN "none" ELSE "error"
      [] tag.name \in {"l", "a"} -> IF tag.value = "bad" THEN "error"
                                    ELSE IF tag.value = "warn" THEN "warning" ELSE "none"
      [] tag.name = "lps" -> IF tag.value \in {"bad", "warn"} THEN "warning" ELSE "none"
      [] tag.name = "avp" -> IF tag.value = "good" THEN "none" ELSE "warning"
      [] OTHER -> "info"

\* The value of the last tag of a name: a later one overwrites.
ValueOf(rec, name) ==
    LET i == SelectLastInSeq(rec, LAMBDA t : t.name = name)
    IN IF i = 0 THEN "absent" ELSE rec[i].value

\* A plausible mistake: a tag given twice goes unnoticed.
ProblemsOfTags(rec) ==
    {Severity(t) : t \in ToSet(rec)}
        \cup (IF ValueOf(rec, "l") = "absent" THEN {"error"} ELSE {})

\* Parse: the severities of the problems, tag by tag, and of the whole.
Problems(rec) ==
    {Severity(t) : t \in ToSet(rec)}
        \cup {"error" : i \in {j \in 1 .. Len(rec) : rec[j].name # "malformed" /\
                                  \E k \in 1 .. j - 1 : rec[k].name = rec[j].name}}
        \cup {"error" : i \in {j \in 2 .. Len(rec) : rec[j].name = "v"}}
        \cup (IF ValueOf(rec, "v") \in {"absent", "empty"} THEN {"error"} ELSE {})
        \cup (IF ValueOf(rec, "l") = "absent" THEN {"error"} ELSE {})

Declined(rec) == ValueOf(rec, "l") = "empty" /\ ValueOf(rec, "a") \in {"absent", "empty"}

StateOf(rec) == IF "error" \in Problems(rec) THEN "invalid"
                ELSE IF Declined(rec) THEN "declined" ELSE "published"

\* ParseRRset and State: exactly one candidate is a record, several are none.
Candidates(answer) == {i \in 1 .. Len(answer) : HasBimiVersion(answer[i])}
RecordIn(answer) == answer[CHOOSE i \in Candidates(answer) : TRUE]
RRsetState(answer) ==
    CASE Cardinality(Candidates(answer)) = 0 -> "absent"
      [] Cardinality(Candidates(answer)) = 1 -> StateOf(RecordIn(answer))
      [] OTHER -> "invalid"

-----------------------------------------------------------------------------
(* Lookup                                                                  *)

NoAnswer == <<>>
NoResult == [state |-> "none", foundAt |-> NoDomain]

BimiInit ==
    /\ WalkInit
    /\ bimiAt = "idle" /\ ownSet = NoAnswer /\ orgSet = NoAnswer /\ bimi = NoResult

BeginLookup(domain) ==
    /\ bimiAt = "idle" /\ walkAt = "idle"
    /\ start' = domain /\ bimiAt' = "own"
    /\ UNCHANGED <<walkAt, asked, orgDomain, orgMethod, ownSet, orgSet, bimi>>

\* A query of _bimi fails, of the domain or of its organisational domain.
BimiQueryFails ==
    /\ bimiAt \in {"own", "parent"}
    /\ bimi' = [state |-> "error", foundAt |-> NoDomain] /\ bimiAt' = "done"
    /\ UNCHANGED <<ownSet, orgSet>> /\ UNCHANGED walkVars

\* A plausible mistake: only one candidate ends the discovery.
OwnAnswersAmbiguous ==
    /\ bimiAt = "own"
    /\ \E answer \in BimiAnswers :
          /\ ownSet' = answer
          /\ IF Cardinality(Candidates(answer)) = 1
             THEN /\ bimi' = [state |-> RRsetState(answer), foundAt |-> start]
                  /\ bimiAt' = "done" /\ UNCHANGED walkVars
             ELSE /\ \E discovery \in {"psl", "treewalk"} : OrgDomainFor(start, discovery)
                  /\ bimiAt' = "walk" /\ UNCHANGED bimi
    /\ UNCHANGED orgSet

\* The domain answers: any candidate ends the discovery; else the walk begins.
OwnAnswers ==
    /\ bimiAt = "own"
    /\ \E answer \in BimiAnswers :
          /\ ownSet' = answer
          /\ IF Candidates(answer) # {}
             THEN /\ bimi' = [state |-> RRsetState(answer), foundAt |-> start]
                  /\ bimiAt' = "done" /\ UNCHANGED walkVars
             ELSE /\ \E discovery \in {"psl", "treewalk"} : OrgDomainFor(start, discovery)
                  /\ bimiAt' = "walk" /\ UNCHANGED bimi
    /\ UNCHANGED orgSet

\* The organisational domain is known; the domain itself is not asked twice.
WalkReturns ==
    /\ bimiAt = "walk" /\ walkAt = "done"
    /\ IF orgDomain = start
       THEN bimi' = [state |-> "absent", foundAt |-> NoDomain] /\ bimiAt' = "done"
       ELSE bimiAt' = "parent" /\ UNCHANGED bimi
    /\ UNCHANGED <<ownSet, orgSet>> /\ UNCHANGED walkVars

ParentAnswers ==
    /\ bimiAt = "parent"
    /\ \E answer \in BimiAnswers :
          /\ orgSet' = answer
          /\ bimi' = [state |-> RRsetState(answer),
                      foundAt |-> IF Candidates(answer) # {} THEN orgDomain ELSE NoDomain]
    /\ bimiAt' = "done"
    /\ UNCHANGED ownSet /\ UNCHANGED walkVars

WalkOn == WalkStep /\ bimiAt = "walk" /\ UNCHANGED bimiVars

LookupStep ==
    BimiQueryFails \/ OwnAnswers \/ WalkReturns \/ ParentAnswers \/ WalkOn

-----------------------------------------------------------------------------

\* An evaluator may use the record: it is alone, its version comes first and is
\* given once, no tag is given twice, it has a location, and no address is bad.
Usable(answer) ==
    /\ Cardinality(Candidates(answer)) = 1
    /\ LET rec == RecordIn(answer)
           named(n) == {i \in 1 .. Len(rec) : rec[i].name = n}
       IN /\ rec[1] = [name |-> "v", value |-> "good"]
          /\ \A t \in ToSet(rec) : t.name # "malformed" /\ Cardinality(named(t.name)) = 1
          /\ \E t \in ToSet(rec) : t.name = "l"
          /\ \A t \in ToSet(rec) : t.name \in {"l", "a"} => t.value # "bad"
          /\ \E t \in ToSet(rec) : t.name \in {"l", "a"} /\ t.value # "empty"

\* What the lookup reports is what the zone says, the nearer name first: a domain is
\* called absent only when it and its organisational domain answered without a
\* candidate, several candidates end the discovery where they are, a record is called
\* published only when an evaluator may use it, and a failure claims nothing.
DiscoveryExact ==
    bimiAt = "done" =>
        /\ bimi.foundAt = start <=> bimi.state # "error" /\ Candidates(ownSet) # {}
        /\ bimi.state = "absent" => Candidates(ownSet) = {} /\ Candidates(orgSet) = {}
        /\ bimi.state = "published" <=>
              Usable(IF bimi.foundAt = start THEN ownSet ELSE orgSet)
        /\ bimi.foundAt \notin {start, NoDomain} =>
              Candidates(ownSet) = {} /\ bimi.foundAt = orgDomain
=============================================================================
