CONSTANTS
    MaxCalls = 2
    MaxElicits = 4
    ElicitBase = 1
    ChanCap = 1
    PipeCap = 1
    Methods = {"initialize", "maintain_customer_master", "release_transport"}
    UserAnswers = {"mismatch", "decline"}
SPECIFICATION Spec
INVARIANTS TypeOK ReplyIsOwn ConfirmedOnlyByUser ToldIsAudited ExactlyOneInFlight
PROPERTIES RegisteredCallReturns ImplementsToolCalls
CHECK_DEADLOCK FALSE
