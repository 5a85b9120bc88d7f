CONSTANTS
    host = host
    destination = destination
    Poller = {p1, p2}
    Key <- MCKey
    SourceKey <- MCSourceKey
    DestinationKey <- MCDestinationKey
    Cap <- MCCap
    Spacing <- MCSpacing
    Ttl = 2
    MaxMultiplier = 2
    Token = {1, 2, 3}
    MaxFaults = 1
SPECIFICATION FairSpec
INVARIANTS
    LeasedPollsAreCapped
PROPERTIES
    LeasesKeepTheirDistance
    PermitsAreGiven
