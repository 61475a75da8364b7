\* Nothing fails; the operator acknowledges at any point, also between the two
\* statements of UpsertAlert.
SPECIFICATION AlertSpec
CONSTANTS
    a1 = a1
    a2 = a2
    e1 = e1
    e2 = e2
    None = None
    Timer = e1
    Alerts <- MCOneAlert
    Evaluators <- MCEvaluators
    LastDay = 1
    DeliveryEnabled = TRUE
    AlertFaults = {}
INVARIANT
    OpenAlertsDelivered
