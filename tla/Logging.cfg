\* Both builds, one logging thread beside those that set the switch and --v.
SPECIFICATION Spec
CONSTANTS
    Thread = {t1}
    Severities = {"FATAL", "DFATAL", "2"}
    Condition <- MCCondition
    Level <- MCLevel
INVARIANTS
    SwitchGatesDLogs
    GuardMirrorsLog
CHECK_DEADLOCK FALSE
