CONSTANTS
    Buttons <- MCButtons
    TouchPoints <- MCTouchPoints
    FrontPixels <- MCFrontPixels
    PendingSizes <- MCPendingSizes
    SampleBytes = 4
    MaxDepth = 1
SPECIFICATION Spec
INVARIANT AudioReportIsFresh
