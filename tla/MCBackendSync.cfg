CONSTANTS
    Ids = {1, 2}
    NoAddress = NoAddress
    NoStatus = NoStatus
    Server = Server
    Blank = Blank
    a1 = a1
    a2 = a2
    w1 = w1
    Addresses = {a1, a2}
    Models = {}
    Workers = {w1}
    Configs <- Reconfigurations
SPECIFICATION FairSpec
INVARIANTS TypeOK HealthIsObserved RegistryIsConfig ConfiguredRegistered
PROPERTIES RemovedOnlyIfUnconfigured ImplementsRegistry WorkEnds
