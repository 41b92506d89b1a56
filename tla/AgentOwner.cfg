SPECIFICATION FairSpec
CONSTANTS
    Agents <- MCAgents
    Clients = {"c1"}
    MaxTokens = 2
    MaxOwners = 4
    MaxEdits = 2
    MaxFaults = 1
INVARIANTS DrainWaitsForQueued NoStaleToken
PROPERTIES ImplementsSoleOwner SettlesOnDisk
