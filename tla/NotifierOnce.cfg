SPECIFICATION Spec
CONSTANTS
    Users = {u1, u2}
    Nodes = {n1}
    Forces = {f1}
    Channel = channel
    Linked = TRUE
    Subscribed = {u1}
    Subscribing = {u2}
    Mentioned = {u1}
    Members = {u1, u2}
    Kinds = {"card"}
    MaxRuns = 1
    Writers = 1
    MaxChanges = 3
    MaxStamp = 6
INVARIANTS
    NoRepeat
CHECK_DEADLOCK FALSE
