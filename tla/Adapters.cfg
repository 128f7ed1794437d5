CONSTANTS
    MaxCalls = 2
    Scenarios = {"accounts", "topics", "messages", "files"}
SPECIFICATION Spec
INVARIANTS SameAnswers RetryCompletes CopiesAgree LogMatchesMessages
PROPERTY Erased
CHECK_DEADLOCK FALSE
