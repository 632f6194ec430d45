SPECIFICATION FairSpec
CONSTANTS
    Users = {u1, u2}
    Nodes = {n1, n2}
    Forces = {}
    Channel = channel
    Linked = FALSE
    Subscribed = {u1, u2}
    Subscribing = {}
    Mentioned = {}
    Members = {u1, u2}
    Kinds = {"card"}
    MaxRuns = 2
    Writers = 1
    MaxChanges = 3
    MaxStamp = 5
PROPERTY EveryChangeIsTold
CHECK_DEADLOCK FALSE
