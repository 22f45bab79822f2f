SPECIFICATION FairSpec
CONSTANTS
    Containers = {rabbitmq, selenium}
    Services = {database}
    MaxStarts = 2
    MaxRefusals = 1
    SleepSuffices = TRUE
INVARIANTS
    PanicsOnlyWhileStarting
    NoContainerLeft
PROPERTIES
    ServicesFindTheirContainers
    CancelledGenerationEnds
    ServiceCrashStopsContainers
CHECK_DEADLOCK FALSE
