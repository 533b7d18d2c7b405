\* A POST, interval jobs and rules with an unlimited budget that log back feed
\* a general and a dedicated pool; a shutdown may start at any moment.
SPECIFICATION Spec
CONSTANTS
    General = General
    Unlimited = Unlimited
    NoMsg = NoMsg
    NoReply = NoReply
    g1 = g1
    g2 = g2
    d1 = d1
    PoolOf <- MCPoolOf
    QueueSize <- MCQueueSize
    LogTypes = {"a", "b"}
    Dedicated = {"b"}
    Workers = {g1, d1}
    RuleCount <- MCRuleCount
    DelayedCapacity = 1
    Budgets = {0}
    SourceBudget = Unlimited
    Generators = {"interval"}
    Blocking = {}
    PostRequests = {"post1"}
    GetRequests = {}
    StorageFails = FALSE
    MaxId = 3

INVARIANT NoMessageLost
INVARIANT GracefulShutdown
INVARIANT DrainIsBounded
PROPERTY ReceivedOnce
INVARIANT TypeOK
