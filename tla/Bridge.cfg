\* One request, one notification, one stranger; AWS calls fail, a request comes twice, the bridge crashes and stops.
CONSTANTS
    Requests = {r1}
    Notices = {n1}
    Strangers = {x1}
    NoCall = NoCall
    MaxWait = 2
    LambdaTimeout = 3
    Visibility = 2
    Retention = 3
    AnswerTTL = 2
    Doubles = {r1}
    Faults = {"aws", "crash", "stop"}
SPECIFICATION FairSpec
INVARIANTS RerunUnheard NoCallDropped
PROPERTIES LostCallEnds EventuallyClean
