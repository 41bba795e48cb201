SPECIFICATION Spec
CONSTANTS
    q1 = q1
    q2 = q2
    visa = visa
    card = card
    cash = cash
    Quotes = {q1, q2}
    Payments = {visa, card, cash}
    Cash = {cash}
    Total = 3
    Amount <- MCAmount
    Rank <- MCRank
    Scenarios = {"succeeded", "failed", "processing_then_succeeded", "unknown_then_succeeded",
                 "unknown_persistent"}
    MaxShifts = 2
    MaxOthers = 1
    MaxAttempts = 2
PROPERTIES
    CompletedStaysCompleted
CHECK_DEADLOCK FALSE
