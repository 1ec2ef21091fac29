------------------------------ MODULE MCFeishuBot ------------------------------
(* Two chats bound to one directory: an owner and an approver, three tasks, *)
(* a cancel and three approvals.                                            *)
EXTENDS FeishuBot
CONSTANTS c1, c2, d, owner, boss, t1, t2, t3, x1, v1, v2, v3

MCWorkDir   == [c \in Chats |-> d]
MCApprovers == [c \in Chats |-> {boss}]
MCChatOf    == [e \in Events |-> IF e \in {t3, v3} THEN c2 ELSE c1]
MCSender    == [e \in Events |-> IF e \in Verdicts THEN boss ELSE owner]
================================================================================
