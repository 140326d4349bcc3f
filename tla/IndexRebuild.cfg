\* Two rebuilds, which may overlap, one row change and one failing call;
\* pushes and deletions of the last row, at any version, on any number of threads.
\* A behaviour ends when both rebuilds have ended and no change or push is left.
SPECIFICATION FairSpec
CONSTANTS
    MaxRebuilds = 2
    MaxId = 3
    Size = 2
    MaxInt = 4
    Strategies = {"page", "minmax", "larger"}
    Tables = {{}, {1, 2, 3}}
    MaxSecond = 2
    MaxWrites = 1
    Pushable = {3}
    MaxPushes = 2
    MaxFaults = 1
INVARIANTS TypeOK SettledIsServed AliasServes SettlesOnOneIndex
PROPERTIES RebuildEnds
CHECK_DEADLOCK FALSE
