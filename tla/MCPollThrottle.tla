--------------------------- MODULE MCPollThrottle ---------------------------
EXTENDS PollThrottle

CONSTANTS host, destination

MCKey == {host, destination}
MCSourceKey == [t \in Poller |-> host]
MCDestinationKey == [t \in Poller |-> destination]
MCCap == [k \in MCKey |-> 1]
MCSpacing == [k \in MCKey |-> 1]

=============================================================================
