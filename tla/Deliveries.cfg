\* A matched job beside changing settings: a worker that is interrupted and restarted,
\* webhooks that fail, and browsers that come, subscribe, stall and go.
SPECIFICATION FairSpec
CONSTANTS
    m1 = m1
    w1 = w1
    b1 = b1
    Events <- MCEvents
    Subject <- MCSubject
    Score <- MCScore
    LastChannel = 2
    LastRule = 3
    NoRule = NoRule
    Workers = {w1}
    Config <- MCConfig
    RuleEdits <- MCRuleEdits
    MaxEdits = 1
    Clients = {b1}
    Broadcasters <- MCBroadcasters
    Topic <- MCTopic
    Subscriptions <- MCSubscriptions
    Capacity = 1
    Deployments <- MCDeployments
INVARIANTS
    TypeOK
    SteadyChannelsAreServed
    SilencedChannelsStaySilent
    NoSendOnClosedQueue
PROPERTIES
    EventsAreAcknowledged
    SlowClientsDelayNobody
    BrokenClientsLeave
