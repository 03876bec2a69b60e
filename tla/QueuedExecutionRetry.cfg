SPECIFICATION FairSpec
CONSTANTS
    e1 = e1
    e2 = e2
    agent = agent
    Envelopes = {e1, e2}
    Nobody = Nobody
    Agent <- MCAgent
    MaxQueueSize = 2
    MaxTickets = 2
    MaxActive = 1
    MaxQueued = 2
    MaxConcurrency = 5
    MaxRetries = 3
    MaxRecoveryRetries = 1
    Loop = loop
    Batches = {batch}
    MaxTrouble = 0
PROPERTIES
    RetryHappens
CHECK_DEADLOCK FALSE
