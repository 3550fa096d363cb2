CONSTANTS
    N = 2
    Pins <- MCPins
    Queues <- MCQueues
    Timers <- MCTimers
    Instants <- MCInstants
    Script <- MCScript
    LoopAt <- MCLoopAt

SPECIFICATION FairSpec
PROPERTY EveryTaskRuns
