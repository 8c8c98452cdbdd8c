CONSTANTS
    Buttons <- MCButtons
    TouchPoints <- MCTouchPoints
    FrontPixels <- MCFrontPixels
    PendingSizes <- MCPendingSizes
    SampleBytes = 4
    MaxDepth = 2
SPECIFICATION Spec
PROPERTY ReentryLogged
