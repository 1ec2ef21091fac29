----------------------------- MODULE AnalysisReport -----------------------------
(***************************************************************************)
(* What an analysis may claim: internal/engine/analysis_evidence.go, is a  *)
(* quotation to be found in the bytes a read returned; and                 *)
(* analysis_contract.go, which findings of a report hold. Texts are names; *)
(* a quotation is made of the bytes of module ReadFile.                    *)
(*                                                                         *)
(* An evidence is [id, agent, file, version, q, read, source]: the bytes   *)
(* "source" that a read of a version returned, with its receipt. A finding *)
(* is [id, kind, cites, deps, scope]: "cites" a set of [ev, first, last,   *)
(* quote], "deps" the findings it depends on, in the order given.          *)
(***************************************************************************)
EXTENDS ReadFile, Integers

CONSTANTS
    MaxFindings,      \* findings of a report: 64
    MaxUnverified     \* items of its list of what is left to verify: 192

ASSUME ReportAssumption == {MaxFindings, MaxUnverified} \subseteq Nat \ {0}

\* What a model may write: lines that no file has, findings of any kind.
Cite    == [ev : Nat, first : Int, last : Int, quote : Seq(Byte)]
Finding == [id : STRING, kind : STRING, cites : SUBSET Cite, deps : Seq(STRING), scope : STRING]
Report  == [findings : Seq(Finding), unverified : Seq(STRING), dropped : Nat,
            overview : Seq(STRING), processed : SUBSET Nat, summaries : SUBSET Nat]

NoReport == [findings |-> <<>>, unverified |-> <<>>, dropped |-> 0, overview |-> <<>>,
             processed |-> {}, summaries |-> {}]

-----------------------------------------------------------------------------
(* Quotations.                                                             *)

\* analysisQuoteLines: the lines of the bytes from..to of a read.
analysisQuoteLines(source, first, from, to) ==
    LET top == first + Newlines(Slice(source, 0, from)) IN
    [first |-> top,
     last  |-> top + Newlines(Slice(source, from, to))
                   - (IF to > from /\ source[to] = "n" THEN 1 ELSE 0)]

\* Where a quotation stands within the lines it names.
Matches(c, e) ==
    {i \in 0..(Len(e.source) - Len(c.quote)) :
        /\ Slice(e.source, i, i + Len(c.quote)) = c.quote
        /\ LET l == analysisQuoteLines(e.source, e.read.first, i, i + Len(c.quote))
           IN c.first <= l.first /\ l.last <= c.last}

\* The lines are some the read returned, the quotation is not blank and stands
\* there once.
ValidateAnalysisCitation(c, e) ==
    /\ e.read.first >= 1 /\ e.read.first <= c.first /\ c.first <= c.last /\ c.last <= e.read.last
    /\ ToSet(c.quote) \ {"n"} # {}
    /\ Cardinality(Matches(c, e)) = 1

\* The lines are those of the place found.
Placed(c, e) ==
    LET i == CHOOSE i \in Matches(c, e) : TRUE
        l == analysisQuoteLines(e.source, e.read.first, i, i + Len(c.quote))
    IN [c EXCEPT !.first = l.first, !.last = l.last]

-----------------------------------------------------------------------------
(* Reports.                                                                *)

IdsOf(r) == {r.findings[k].id : k \in DOMAIN r.findings}
FindingOf(r, id) == r.findings[CHOOSE k \in DOMAIN r.findings : r.findings[k].id = id]

\* checkAnalysisStructure.
checkAnalysisStructure(r) ==
    /\ Len(r.findings) <= MaxFindings /\ Cardinality(IdsOf(r)) = Len(r.findings)
    /\ Len(r.unverified) <= MaxUnverified

\* A note: no text at all, one that is no report, or a report.
Noting == [kind : {"none", "garbled", "report"}, report : Report]
Note(kind, report) == [kind |-> kind, report |-> report]
NoNote  == Note("none", NoReport)
Garbled == Note("garbled", NoReport)

ParseAnalysisReport(note) == note.kind = "report" /\ checkAnalysisStructure(note.report)

\* appendAnalysisUnverified: what finds no place is only counted.
appendAnalysisUnverified(r, text) ==
    IF Len(r.unverified) >= MaxUnverified THEN [r EXCEPT !.dropped = @ + 1]
    ELSE [r EXCEPT !.unverified = Append(@, text)]

\* One text after another; if "once", those that are not in the list by then.
Listed(r, texts, once) ==
    LET behind[k \in 0..Len(texts)] ==
            IF k = 0 THEN r
            ELSE IF once /\ texts[k] \in ToSet(behind[k - 1].unverified) THEN behind[k - 1]
            ELSE appendAnalysisUnverified(behind[k - 1], texts[k])
    IN behind[Len(texts)]

\* The members of a sequence at these places, in their order.
Chosen(s, places) ==
    LET behind[k \in 0..Len(s)] ==
            IF k = 0 THEN <<>>
            ELSE IF k \in places THEN Append(behind[k - 1], s[k]) ELSE behind[k - 1]
    IN behind[Len(s)]

\* The names of the findings at these places.
IdsAt(r, places) == LET fs == Chosen(r.findings, places) IN [k \in DOMAIN fs |-> fs[k].id]

EvidenceOf(id, usable) == {e \in usable : e.id = id}

\* What a finding says of itself.
Sound(f, usable) ==
    /\ f.kind \in {"fact", "inference", "recommendation"}
    /\ f.cites = {} => f.kind # "fact" /\ f.deps # <<>>
    /\ \A c \in f.cites : \E e \in EvidenceOf(c.ev, usable) : ValidateAnalysisCitation(c, e)

\* The findings that hold: those that are sound and can be put behind all they
\* depend on. This is what check comes to.
Holding(r, usable) ==
    LET ids   == IdsOf(r)
        sound == {id \in ids : Sound(FindingOf(r, id), usable)}
        upTo[k \in 0..Len(r.findings)] ==
            IF k = 0 THEN {}
            ELSE {id \in sound : ToSet(FindingOf(r, id).deps) \subseteq upTo[k - 1]}
    IN upTo[Len(r.findings)]

\* What a report comes to of which these findings hold: others are left to be
\* verified, as is an overview of one; a read counts as processed if it is at
\* hand and a finding that holds cites it or there is a summary of it.
Reduced(r, usable, good) ==
    LET holds   == {k \in DOMAIN r.findings : r.findings[k].id \in good}
        place(f) == [f EXCEPT !.cites = {Placed(c, CHOOSE e \in EvidenceOf(c.ev, usable) : TRUE) : c \in @}]
        kept    == Chosen(r.findings, holds)
        found   == [k \in DOMAIN kept |-> place(kept[k])]
        named   == {k \in DOMAIN r.overview : \A j \in 1..(k - 1) : r.overview[j] # r.overview[k]}
        stands  == {k \in named : r.overview[k] \in good}
        failed  == Listed(r, IdsAt(r, DOMAIN r.findings \ holds), FALSE)
        listed  == Listed(failed, Chosen(r.overview, named \ stands), FALSE)
        used    == UNION {{c.ev : c \in found[k].cites} : k \in DOMAIN found}
        handled == {id \in r.processed : EvidenceOf(id, usable) # {} /\ id \in used \union r.summaries}
    IN [listed EXCEPT !.findings = found, !.overview = Chosen(r.overview, stands),
                      !.processed = handled, !.summaries = r.summaries \intersect handled]

ValidateAnalysisReport(r, usable) == Reduced(r, usable, Holding(r, usable))

\* Is there a finding other than a recommendation?
HasCore(r) == \E k \in DOMAIN r.findings : r.findings[k].kind # "recommendation"

\* A finding takes the place of an older one of its name.
Replaced(old, new) ==
    LET newer(k) == {j \in DOMAIN new : new[j].id = old[k].id}
        added    == {j \in DOMAIN new : \A k \in DOMAIN old : old[k].id # new[j].id}
    IN [k \in DOMAIN old |-> IF newer(k) = {} THEN old[k] ELSE new[CHOOSE j \in newer(k) : TRUE]]
       \o Chosen(new, added)

\* Mutant: what was left to verify is forgotten.
mergeForgets(old, new) == [new EXCEPT !.findings = Replaced(old.findings, new.findings)]

\* What was left to verify stays.
mergeAnalysisReports(old, new) ==
    [Listed([new EXCEPT !.findings = Replaced(old.findings, new.findings)], old.unverified, TRUE)
        EXCEPT !.dropped = @ + old.dropped]
=============================================================================
