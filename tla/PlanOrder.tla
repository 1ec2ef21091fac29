-------------------------------- MODULE PlanOrder --------------------------------
(***************************************************************************)
(* The order of a plan's steps: internal/engine/plan.go.  Module TaskRun   *)
(* leaves the order open; here are checkPlan, which accepts a plan, is     *)
(* asked again of every patch and of the plan a resumed run finds, and     *)
(* readyStep, whose -1 runTask takes for the end of the plan.              *)
(*                                                                         *)
(* A plan is a sequence of [id, on, done]: a step's name, the names it     *)
(* depends on in the order given, and whether it has been done.            *)
(***************************************************************************)
EXTENDS Naturals, Sequences, SequencesExt, FiniteSets

MaxSteps == 20

Ids(steps) == {steps[i].id : i \in DOMAIN steps}
StepOf(steps, id) == steps[CHOOSE i \in DOMAIN steps : steps[i].id = id]

\* visit: from a step to what it depends on, before it is finished itself.
\* "st" is what the search knows: steps it is in, steps it has left, whether it
\* has failed.
RECURSIVE visit(_, _, _)
visit(steps, st, id) ==
    LET deps == FoldLeft(LAMBDA s, d : visit(steps, s, d),
                         [st EXCEPT !.open = @ \union {id}], StepOf(steps, id).on)
    IN CASE ~st.ok \/ id \in st.closed -> st
         [] id \in st.open \/ id \notin Ids(steps) -> [st EXCEPT !.ok = FALSE]
         [] OTHER -> [deps EXCEPT !.closed = @ \union {id}, !.open = @ \ {id}]

\* checkPlan: at most so many steps, no name twice, no unknown one, no circle.
checkPlan(steps) ==
    /\ Len(steps) \in 1..MaxSteps
    /\ Cardinality(Ids(steps)) = Len(steps)
    /\ FoldLeft(LAMBDA st, step : visit(steps, st, step.id),
                [open |-> {}, closed |-> {}, ok |-> TRUE], steps).ok

\* readyStep: the first step that is not done and depends on none such; 0 for
\* the -1 of the code.
Ready(steps) ==
    {i \in DOMAIN steps :
        /\ ~steps[i].done
        /\ \A d \in ToSet(steps[i].on) : d \in Ids(steps) /\ StepOf(steps, d).done}
readyStep(steps) == IF Ready(steps) = {} THEN 0 ELSE CHOOSE i \in Ready(steps) : \A j \in Ready(steps) : i <= j

\* A turn of the loop of runTask, when the step's conversation ends well.
WorkedOn(steps) == IF readyStep(steps) = 0 THEN steps ELSE [steps EXCEPT ![readyStep(steps)].done = TRUE]

\* proposePlan: steps that are done stay in front of those the model proposes,
\* none of which counts as done whatever it says.
Frozen(steps) == SelectSeq(steps, LAMBDA s : s.done)
Proposed(steps, reply) == Frozen(steps) \o [i \in DOMAIN reply |-> [reply[i] EXCEPT !.done = FALSE]]

-----------------------------------------------------------------------------
(* What runTask relies on.                                                 *)

\* There is an order in which every step comes after what it depends on.
HasOrder(steps) ==
    \E order \in [DOMAIN steps -> 1..Len(steps)] :
        \A i \in DOMAIN steps : \A d \in ToSet(steps[i].on) :
            \E j \in DOMAIN steps : steps[j].id = d /\ order[j] < order[i]

\* However a plan is worked off from here, the loop finds no step only when all
\* are done: -1 never hides a plan that is stuck (loop.go:387).
RECURSIVE NeverStuck(_)
NeverStuck(steps) ==
    IF readyStep(steps) = 0 THEN \A i \in DOMAIN steps : steps[i].done
    ELSE NeverStuck(WorkedOn(steps))
=============================================================================
