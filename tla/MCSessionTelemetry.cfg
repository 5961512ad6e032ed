CONSTANTS
    Sessions <- MCSessions
SPECIFICATION TelemetrySpec
INVARIANT CompletedAtClose
CHECK_DEADLOCK FALSE
