CONSTANTS
    MaxCalls = 1
    MaxElicits = 2
    ElicitBase = 1000000
    ChanCap = 1
    PipeCap = 1
    Methods = {"create_purchase_order"}
    UserAnswers = {"accept", "decline"}
SPECIFICATION Spec
PROPERTIES DropEndsServer
CHECK_DEADLOCK FALSE
