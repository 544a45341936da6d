CONSTANTS
    Ids = {1, 2}
    Addresses = {a}
    Models = {m}
    NoAddress = NoAddress
    NoStatus = NoStatus
    NoRoute = NoRoute
    NoWant = NoWant
    Clients = {c1}
SPECIFICATION FairSpec
INVARIANTS TypeOK RoutedToObserved PrefersModel UnavailableOnlyIfUnhealthy LookupFindsRegistered
PROPERTIES ListingEnds
