SPECIFICATION FairSpec
CONSTANTS
    General = General
    Unlimited = Unlimited
    NoMsg = NoMsg
    NoReply = NoReply
    g1 = g1
    g2 = g2
    d1 = d1
    PoolOf <- MCPoolOf
    QueueSize <- MCQueueSize
    LogTypes = {"a", "c"}
    Dedicated = {}
    Workers = {g1, g2}
    RuleCount <- MCRuleCount
    DelayedCapacity = 1
    Budgets = {}
    SourceBudget = Unlimited
    Generators = {"dg"}
    Blocking = {"dg"}
    PostRequests = {}
    GetRequests = {"get"}
    StorageFails = TRUE
    MaxId = 2
PROPERTY ShutdownTerminates
PROPERTY GetIsAnswered

\* main returns at the end; a state in which anyone is stuck before that
\* refutes ShutdownTerminates.
CHECK_DEADLOCK FALSE
