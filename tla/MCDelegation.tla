----------------------------- MODULE MCDelegation -----------------------------
(* A small instance of Delegation: the reports sub-agents write.            *)
EXTENDS Delegation, TLC

CONSTANTS f1, f2

Task(delegation, models, tools) == [delegation |-> delegation, models |-> models, tools |-> tools]

\* Without a discovery to make first, a shorter task goes as far.
MCSpecs == {Task("auto", 5, 5), Task("on", 3, 2), Task("off", 2, 2)}

Cites(f, v, whole, on) == [file |-> f, version |-> v, whole |-> whole, on |-> on]

\* No range asked for, the first file, or both.
MCWants == {{}, {f1}, {f1, f2}}

\* Two findings that rest on each other, in a line (the second is about the
\* whole range) and in a circle.
MCClaims ==
    {<<Cites(f1, 0, FALSE, {}), Cites(f2, 0, TRUE, {1})>>,
     <<Cites(f1, 0, FALSE, {2}), Cites(f1, 1, FALSE, {1})>>}

Names == Permutations(Child)
=============================================================================
