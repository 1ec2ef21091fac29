SPECIFICATION FairSpec
CONSTANTS
    c1 = c1 c2 = c2 d = d owner = owner boss = boss
    t1 = t1 t2 = t2 t3 = t3 x1 = x1 v1 = v1 v2 = v2 v3 = v3
    Kinds = {"command"} NoTask = NoTask Free = Free
    Chats = {c1, c2} Dirs = {d} Users = {owner, boss}
    Tasks = {t1, t2, t3} Cancels = {x1} Verdicts = {}
    WorkDir <- MCWorkDir Approvers <- MCApprovers ChatOf <- MCChatOf Sender <- MCSender
    MaxQueued = 2 MaxAsks = 1 MaxVersion = 0 MaxStarts = 2
INVARIANTS OnceInOrder OneRunPerDirectory CancelHitsOne
PROPERTIES StoppedNeverBegins EveryTaskAnswered CloseReturns
CHECK_DEADLOCK FALSE
