----------------------------- MODULE DmarcPolicy -----------------------------
(* The published policy as the reporters saw it: effective tuples, agreement    *)
(* (P1, P2), the change log (P3), subdomains (P4) and sampling (P5).  A tuple   *)
(* has "absent" for an sp that was not there and NoPct for a missing pct.       *)
EXTENDS DmarcViews

CONSTANTS
    NoPct,       \* pct was not in the report
    Subdomains   \* <<header_from, domain>> where the first is below the second

-----------------------------------------------------------------------------
(* PolicyTuple.Effective                                                   *)

Effective(t) ==
    [p |-> t.p,
     sp |-> IF t.sp \in {"absent", ""} THEN t.p ELSE t.sp,
     adkim |-> IF t.adkim = "" THEN "r" ELSE t.adkim,
     aspf |-> IF t.aspf = "" THEN "r" ELSE t.aspf,
     pct |-> IF t.pct = NoPct THEN 100 ELSE t.pct]

\* EffectiveTuple.Diff, which writes an empty policy as "none".
Diff(a, b) ==
    LET shown(e) == [e EXCEPT !.p = IF @ = "" THEN "none" ELSE @,
                              !.sp = IF @ = "" THEN "none" ELSE @]
    IN  {<<x, shown(a)[x], shown(b)[x]>> : x \in {y \in DOMAIN a : shown(a)[y] # shown(b)[y]}}

-----------------------------------------------------------------------------
(* Agreement                                                               *)

\* GetPolicyConsistency: one line per effective tuple of the reports in scope.
PolicyConsistency(f) ==
    LET J == Where(f)
        of(e) == {j \in J : Effective(j.rep.tuple) = e}
    IN  [e \in {Effective(j.rep.tuple) : j \in J} |->
            [messages |-> Messages(of(e)),
             reporters |-> {j.rep.org : j \in of(e)},
             reports |-> Cardinality({j.rep.id : j \in of(e)}),
             variants |-> Cardinality({j.rep.tuple : j \in of(e)})]]

\* ORDER BY messages DESC, reports DESC: the tuples that may come first.
Leading(J) ==
    LET T == {j.rep.tuple : j \in J}
        of(t) == {j \in J : j.rep.tuple = t}
        reports(t) == Cardinality({j.rep.id : j \in of(t)})
    IN  {t \in T : \A u \in T : \/ Messages(of(u)) < Messages(of(t))
                                \/ /\ Messages(of(u)) = Messages(of(t))
                                   /\ reports(u) <= reports(t)}

\* GetActivePolicyTuple: what it may return for rows J that are not empty.
ActivePolicyTuples(J) ==
    LET orgs == {j.rep.org : j \in J}
        own(o) == Leading({j \in J : j.rep.org = o})
        views == {v \in [orgs -> UNION {own(o) : o \in orgs}] : \A o \in orgs : v[o] \in own(o)}
        agree(t, v) == \A o \in orgs : Effective(v[o]) = Effective(t)
    IN  UNION {{[tuple |-> t, consistent |-> agree(t, v)] : v \in views} : t \in Leading(J)}

-----------------------------------------------------------------------------
(* Change log                                                              *)

Earlier(a, b) == a.begin < b.begin \/ (a.begin = b.begin /\ a.id < b.id)

\* A plausible mistake: the report before may be another reporter's.
BeforeByAnyone(r) ==
    LET B == {x \in stored : x.domain = r.domain /\ Earlier(x, r)}
    IN  {x \in B : \A y \in B : y = x \/ Earlier(y, x)}

\* The reporter's report before r, if it has one.
Before(r) ==
    LET B == {x \in stored : x.org = r.org /\ x.domain = r.domain /\ Earlier(x, r)}
    IN  {x \in B : \A y \in B : y = x \/ Earlier(y, x)}

ChangesOf(d) ==
    {c \in stored \X stored : /\ c[2].domain = d
                              /\ c[1] \in Before(c[2])
                              /\ Effective(c[1].tuple) # Effective(c[2].tuple)}

\* Seven days before the day of the change, seven from that day on.
DaysBefore(d, at) == [Unbounded EXCEPT !.domain = d, !.from = at - 7, !.to = at - 1]
DaysAfter(d, at) == [Unbounded EXCEPT !.domain = d, !.from = at, !.to = at + 6]

\* Changes that several reporters saw on one day are one entry.
PolicyChangeLog(d) ==
    LET key(c) == <<c[2].begin, Diff(Effective(c[1].tuple), Effective(c[2].tuple))>>
        C == ChangesOf(d)
    IN  {[at |-> k[1], diff |-> k[2], changes |-> {c \in C : key(c) = k},
          before |-> Totals(Where(DaysBefore(d, k[1]))),
          after |-> Totals(Where(DaysAfter(d, k[1])))] : k \in {key(c) : c \in C}}

-----------------------------------------------------------------------------
(* Subdomains and sampling                                                 *)

\* GetSubdomainTraffic: who governs is decided by volume, ties for sp.
SubdomainTraffic(f) ==
    LET J == {j \in Where(f) : <<j.row.hfrom, j.rep.domain>> \in Subdomains}
        of(k) == {j \in J : <<j.row.hfrom, j.rep.domain>> = k}
        withSp(k) == Messages({j \in of(k) : j.rep.tuple.sp # "absent"})
    IN  [k \in {<<j.row.hfrom, j.rep.domain>> : j \in J} |->
            [totals |-> Totals(of(k)),
             governedBy |-> IF withSp(k) * 2 >= Messages(of(k)) THEN "sp" ELSE "p"]]

\* GetPctSampling for one tuple that may be the dominant one.
PctSampling(f, t) ==
    LET J == Where(f)
        failing == Messages(Failing(J))
        sampled == {p \in Overrides(J) : p[1].row.over[p[2]] = "sampled_out"}
        applies == t.pct # NoPct /\ t.pct < 100
    IN  [applies |-> applies,
         failing |-> IF applies THEN failing ELSE 0,
         expected |-> IF applies THEN failing * (100 - t.pct) ELSE 0,
         observed |-> IF applies THEN FannedMessages(sampled) ELSE 0]
=============================================================================
