\* Nothing fails: what is delivered in the end.
SPECIFICATION AlertFairSpec
CONSTANTS
    a1 = a1
    a2 = a2
    e1 = e1
    e2 = e2
    None = None
    Timer = e1
    Alerts <- MCOneAlert
    Evaluators <- MCEvaluators
    LastDay = 1
    DeliveryEnabled = TRUE
    AlertFaults = {}
PROPERTIES
    StandingConditionDelivered
