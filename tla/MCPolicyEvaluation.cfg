CONSTANTS
    Policies <- MCPolicies
    Subjects <- MCSubjects
    Resources <- MCResources
    Actions <- MCActions
    Day <- MCDay
    MaxMinutes = 1
SPECIFICATION EvaluationSpec
INVARIANTS
    DecidesTheMeaning
    DecidedWithinTheWalk
    HoursAreTheWindow
CHECK_DEADLOCK FALSE
