-------------------------------- MODULE Context --------------------------------
(***************************************************************************)
(* internal/context: session.go, which of the messages of a conversation   *)
(* are the working memory, and compactor.go, how a request is made to fit. *)
(* A message has a size and, when it carries the output of a read, the     *)
(* number of the action; its text is not modelled, only whether it is      *)
(* still whole.                                                            *)
(***************************************************************************)
EXTENDS Naturals, Sequences, FiniteSets, SequencesExt, FiniteSetsExt

CONSTANTS
    WindowLimit,     \* 20 messages
    MaxBacktrack,    \* 3 messages
    RetainLast,      \* RetainLastMsgs
    MaxSize,         \* MaxChars: what a request may hold
    FoldAbove,       \* 200 bytes: longer ones are folded when old
    CutAbove,        \* 1000 bytes: longer outputs lose their middle
    Folded, Cut      \* sizes of what is left

ASSUME ContextAssumption ==
    /\ {WindowLimit, RetainLast, MaxSize, FoldAbove, CutAbove, Folded, Cut} \subseteq Nat \ {0}
    /\ MaxBacktrack \in Nat

\* "of" is the call a result answers (0: none), "calls" those an answer makes.
Message == [role : {"system", "user", "assistant"}, calls : SUBSET Nat, of : Nat,
            size : Nat, act : Nat, form : {"whole", "folded", "cut", "notice"}]

Text(role, size) ==
    [role |-> role, calls |-> {}, of |-> 0, size |-> size, act |-> 0, form |-> "whole"]
syntheticContextNotice == [Text("user", 1) EXCEPT !.form = "notice"]

Plain(m) == m.role = "user" /\ m.of = 0

\* GetWorkingMemory: the last messages. The window opens at a plain message of
\* the user a few messages back; without one there, results whose call is cut
\* off are left out and a notice goes first.
GetWorkingMemory(h) ==
    LET start  == Len(h) - WindowLimit + 1
        anchor == Max({1} \union {i \in 1..start : Plain(h[i])})
        head   == Min({i \in start..Len(h) : h[i].of = 0} \union {Len(h) + 1})
        rest   == SubSeq(h, head, Len(h))
    IN IF start <= 1 THEN h
       ELSE IF start - anchor <= MaxBacktrack THEN SubSeq(h, anchor, Len(h))
       ELSE IF rest # <<>> /\ Plain(rest[1]) THEN rest
       ELSE <<syntheticContextNotice>> \o rest

\* The results that follow message i and answer its calls.
Answered(ms, i) == {j \in (i + 1)..(i + Cardinality(ms[i].calls)) : j \in DOMAIN ms /\ ms[j].of \in ms[i].calls}

\* messageGroups fails unless every call is answered at once and no result is
\* without its call.
Paired(ms) ==
    /\ \A i \in DOMAIN ms : {ms[j].of : j \in Answered(ms, i)} = ms[i].calls
    /\ \A j \in DOMAIN ms : ms[j].of # 0 => \E i \in DOMAIN ms : j \in Answered(ms, i)

\* The first message of the group message i belongs to.
Group(ms, i) == IF ms[i].of = 0 THEN i ELSE CHOOSE k \in DOMAIN ms : i \in Answered(ms, k)

Size(ms) == FoldLeft(LAMBDA sum, m : sum + m.size, 0, ms)
InBudget(ms) == Size(ms) <= MaxSize

withPrefix(ms) ==
    LET i == Min({i \in DOMAIN ms : ms[i].role # "system"} \union {Len(ms) + 1})
    IN IF i > Len(ms) \/ Plain(ms[i]) THEN ms
       ELSE SubSeq(ms, 1, i - 1) \o <<syntheticContextNotice>> \o SubSeq(ms, i, Len(ms))

\* mask: old messages are folded, long results cut.
mask(ms) ==
    LET old(i) == i <= Len(ms) - RetainLast /\ ms[i].size > FoldAbove
        fold(m) == [m EXCEPT !.size = Folded, !.form = "folded"]
    IN [i \in DOMAIN ms |->
           CASE old(i) /\ (ms[i].of # 0 \/ ms[i].role = "assistant") -> fold(ms[i])
             [] ms[i].of # 0 /\ ~old(i) /\ ms[i].size > CutAbove ->
                    [ms[i] EXCEPT !.size = Cut, !.form = "cut"]
             [] OTHER -> ms[i]]

\* How many of a set of positions come no later than i, and the k-th of them.
Place(S, i) == Cardinality({j \in S : j <= i})
Nth(S, k) == CHOOSE i \in S : Place(S, i) = k

\* Mutant: the newest message of the user may go, too.
DroppableAll(ms) == {i \in DOMAIN ms : ms[i].of = 0 /\ ms[i].role # "system"}

\* What may be dropped: the groups but for the system's message and the newest
\* one of the user.
Droppable(ms) ==
    LET heads  == {i \in DOMAIN ms : ms[i].of = 0}
        newest == Max({0} \union {i \in heads : Plain(ms[i])})
    IN {i \in heads : i # newest /\ ms[i].role # "system"}

\* The n oldest of them are.
Dropped(ms, n) ==
    LET may  == Droppable(ms)
        gone == {i \in may : Place(may, i) <= n}
        left == {i \in DOMAIN ms : Group(ms, i) \notin gone}
    IN [k \in 1..Cardinality(left) |-> ms[Nth(left, k)]]

\* CompactWithin: the messages as they are, masked, or the groups that fit; <<>>
\* is its error.
CompactWithin(ms) ==
    LET masked == mask(ms)
        enough == {n \in 0..Cardinality(Droppable(ms)) : InBudget(withPrefix(Dropped(masked, n)))}
    IN IF ~Paired(ms) THEN <<>>
       ELSE IF InBudget(withPrefix(ms)) THEN withPrefix(ms)
       ELSE IF enough # {} THEN withPrefix(Dropped(masked, Min(enough)))
       ELSE <<>>

=============================================================================
