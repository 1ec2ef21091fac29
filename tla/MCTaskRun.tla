------------------------------- MODULE MCTaskRun -------------------------------
(* Small instances of TaskRun: what an invocation of the engine may allow.  *)
EXTENDS TaskRun, PlanOrder, TLC

\* Room for one action of the model and one of the verifier.
Plain == {[turns |-> 2, models |-> 2, tools |-> 2]}
\* A tool limit, and a later invocation that raises it.
Growing == {[turns |-> 2, models |-> 2, tools |-> 1], [turns |-> 3, models |-> 4, tools |-> 2]}

\* The contents of the workspace are interchangeable.
Contents == Permutations(Version)
-----------------------------------------------------------------------------
(* The order of plans (PlanOrder), on small ones.                          *)

Depends == {<<>>, <<"q">>, <<"r">>, <<"s">>, <<"r", "p">>}
Plans(names) ==
    {[i \in DOMAIN names |-> [id |-> names[i], on |-> on[i], done |-> FALSE]] :
        on \in [DOMAIN names -> Depends]}
SmallPlans == Plans(<<"p", "q", "r">>) \union Plans(<<"q", "r", "q">>) \union Plans(<<"p">>) \union {<<>>}
Sound == {steps \in SmallPlans : checkPlan(steps)}

\* A plan is accepted if and only if its steps have names of their own and can
\* be put in order (checkPlan).
ASSUME AcceptedIsOrdered ==
    \A steps \in SmallPlans :
        checkPlan(steps) <=> steps # <<>> /\ IsInjective([i \in DOMAIN steps |-> steps[i].id]) /\ HasOrder(steps)

\* A plan that was accepted, worked off as far as you like and then patched by
\* whatever is accepted, is never stuck, and keeps what has been done.
Upto(steps, n) ==
    LET done[k \in 0..n] == IF k = 0 THEN steps ELSE WorkedOn(done[k - 1])
    IN done[n]
ASSUME PatchedIsNeverStuck ==
    \A steps \in Sound :
        /\ NeverStuck(steps)
        /\ \A n \in 0..2, reply \in Plans(<<"s", "p">>) \union Plans(<<"r">>) :
               LET mended == Proposed(Upto(steps, n), reply)
               IN checkPlan(mended) =>
                      NeverStuck(mended) /\ ToSet(Frozen(Upto(steps, n))) \subseteq ToSet(mended)
=============================================================================
