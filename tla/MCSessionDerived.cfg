CONSTANTS
    ed1 = ed1
    ed2 = ed2
    rsa1 = rsa1
    llamero = llamero
    other = other
    clients = clients
    Pairs = {ed1, ed2, rsa1}
    KeyType <- KeyTypes
    NoKey = NoKey
    NoPath = NoPath
    Missing = Missing
    Issuers = {llamero, other}
    Audiences = {clients}
    Configs <- AllConfigs
    NoServer = NoServer
    TicksPerSecond = 2
    Lifetimes = {1}
    MaxTime = 4
    MaxTokens = 1
SPECIFICATION Spec
INVARIANT DerivesPublicKey
