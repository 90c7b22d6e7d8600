\* Instance for MCAuthSessions; the README says what the run shows.
CONSTANTS
    claude = claude
    click1 = click1
    server = server
    MaxAccounts = 2
    Slots = {claude}
    MaxSessions = 2
    Clicks = {click1}
    Broker = server
    MaxLeaves = 1

SPECIFICATION FairSpec
CHECK_DEADLOCK FALSE
INVARIANT OneOpenSession
INVARIANT ConnectedIsBacked
PROPERTY DisconnectStands
PROPERTY SignInsEnd
