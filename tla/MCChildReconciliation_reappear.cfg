\* A child's spec disappears and comes back.
SPECIFICATION FairSpec
CONSTANTS
    bridge = bridge
    writer = writer
    Names <- MCOneName
    MaxChanges = 2
    MaxRestarts = 0
    MaxFaults = 0
PROPERTIES
    WantedChildrenRun
