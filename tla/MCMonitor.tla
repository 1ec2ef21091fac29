------------------------------- MODULE MCMonitor -------------------------------
(***************************************************************************)
(* The courses of events TLC looks at: one run of the task with a page     *)
(* that is open all the time, or one or two runs whose index nobody looks  *)
(* at, each with what goes wrong in it.                                    *)
(***************************************************************************)
EXTENDS Monitor

unseen(n, trouble, changes, reports) ==
  [attempts |-> n, faults |-> trouble, watched |-> FALSE,
   changes |-> changes, requests |-> 0, reports |-> reports]
watched(trouble, changes, most) ==
  [attempts |-> 1, faults |-> trouble, watched |-> TRUE,
   changes |-> changes, requests |-> most, reports |-> {"analysis"}]

MCCourses ==
  {unseen(2, {"crash"}, 2, {"none", "analysis"}), unseen(2, {"lost"}, 2, {"analysis"}),
   unseen(2, {"restore"}, 2, {"analysis"}), unseen(2, {"remove"}, 2, {"partial"}),
   unseen(1, {"crash", "silence"}, 3, {"partial"}),
   watched({"drop"}, 3, 1), watched({}, 2, 2)}
=============================================================================
