SPECIFICATION Spec
CHECK_DEADLOCK FALSE
CONSTANTS
    Payments <- Three
    Instructions <- SomeInstructions
    LogLines <- SomeLines
    None = None
INVARIANT TypeOK
INVARIANT JobMatchesEvents
INVARIANT StrictJobIsInstructed
INVARIANT DeliveryIsFound
INVARIANT FirstDeliveryWins
