\* Two flushes over one event, and nothing fails.
CONSTANTS
    Flushes = {f1, f2}
    MaxEvents = 1
    MaxFaults = 0
SPECIFICATION Spec
INVARIANTS LandsOnce
