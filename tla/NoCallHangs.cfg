CONSTANTS
    MaxCalls = 2
    MaxElicits = 2
    ElicitBase = 1000000
    ChanCap = 1
    PipeCap = 1
    Methods = {"ping"}
    UserAnswers = {"accept", "decline"}
SPECIFICATION Spec
PROPERTIES NoCallHangs
CHECK_DEADLOCK FALSE
