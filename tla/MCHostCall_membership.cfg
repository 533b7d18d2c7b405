SPECIFICATION Spec
CONSTANTS
    t1 = t1
    t2 = t2
    Threads = {t1, t2}
    Deployments <- MembershipDeployments
    Configured <- MCConfigured
    Nodes = 3
    MaxRetries = 3
    MaxPages = 2
    None = None
INVARIANTS MembershipIsKnown
