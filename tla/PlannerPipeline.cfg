SPECIFICATION PipelineFairSpec
CONSTANTS
    MaxSweepEpoch = 3
    MaxRequests = 5
PROPERTIES
    PlanForward
    SweepServed
