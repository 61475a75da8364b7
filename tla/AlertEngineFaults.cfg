\* Statements fail, the mail server hangs, the process dies.
SPECIFICATION AlertSpec
CONSTANTS
    a1 = a1
    a2 = a2
    e1 = e1
    e2 = e2
    None = None
    Timer = e1
    Alerts <- MCAlerts
    Evaluators <- MCEvaluators
    LastDay = 1
    DeliveryEnabled = TRUE
    AlertFaults = {"db", "crash", "hang"}
SYMMETRY MCSymmetry
INVARIANTS
    AtMostOncePerDay
    InsertNeverClashes
