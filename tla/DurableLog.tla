------------------------------ MODULE DurableLog ------------------------------
(***************************************************************************)
(* What the task store promises the engine, without files, locks or        *)
(* crashes: a log of events whose acknowledged part never shrinks, never   *)
(* changes and is always readable back.  An event that was submitted but   *)
(* not acknowledged may or may not survive; whoever reads the log after a  *)
(* failure finds the acknowledged events first.                            *)
(***************************************************************************)
EXTENDS Naturals, Sequences

CONSTANT Event      \* everything that can be a line of the log

VARIABLES
    log,            \* what a reader of the log would find now
    acked           \* the events whose submission was reported as successful

vars == <<log, acked>>

Init == log = <<>> /\ acked = <<>>

\* An event reaches the log; nobody has been told so yet.
Submit == /\ Len(log') = Len(log) + 1
          /\ log'[Len(log')] \in Event
          /\ log' = Append(log, log'[Len(log')])
          /\ UNCHANGED acked

\* Everything in the log becomes acknowledged.
Acknowledge == acked' = log /\ UNCHANGED log

\* A failure takes back unacknowledged events, the last ones first.
Lose == /\ \E n \in Len(acked)..Len(log) : log' = SubSeq(log, 1, n)
        /\ UNCHANGED acked

Next == Submit \/ Acknowledge \/ Lose

Spec == Init /\ [][Next]_vars
=============================================================================
