\* A message, another content under its id, and another message; one Stop.
SPECIFICATION Spec
CONSTANTS
    r1 = r1  r2 = r2  r3 = r3
    d1 = d1  d2 = d2
    t1 = t1  t2 = t2
    p1 = p1  p2 = p2
    i1 = i1
    NoInst = NoInst  NoTurn = NoTurn  NoReq = NoReq
    Requests = {r1, r2, r3}
    Turns = {r1, r2, r3}
    Dispatches = {d1, d2}
    Threads = {t1}
    Prints = {p1, p2}
    Instances = {i1}
    dispatchOf <- RetryDispatch
    threadOf <- OneThread
    printOf <- RivalPrint
    instOf <- InferredInstance
    hubInstOf <- OneInstance
    AutoSave = TRUE
    MaxCrashes = 0
    MaxStops = 1
INVARIANTS
    TurnHoldsToken
    NoStrandedDispatch
    AnswerIsOwn
CHECK_DEADLOCK FALSE
