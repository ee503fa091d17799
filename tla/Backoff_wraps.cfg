\* More failures in a row than 64 bits have room for.
SPECIFICATION Spec
CONSTANTS
    Second = 1000
    MaxDelays = {0, 300, 1000, 1500, 8000, 30000, 60000, 900000}
    MaxFailures = 60
    Doublings = 13
INVARIANTS
    AlwaysWaits
