SPECIFICATION Spec
CONSTANTS
    Held = {"left"}
    Wheels <- MCWheels
    Deltas <- MCDeltas
    MaxSteps = 2
    MaxEvents = 3
    MaxLinks = 2
INVARIANTS
    ButtonsForwarded
CHECK_DEADLOCK FALSE
