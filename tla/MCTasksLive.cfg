SPECIFICATION Spec
CONSTANTS
    push1 = push1
    push2 = push2
    m1 = m1
    m2 = m2
    r1 = r1
    r2 = r2
    Caller = {}
    Pusher = {push1}
    Asker = {ask1}
    Release = {r1, r2}
    Manual = {m1}
    None = None
    Cap = 1
    MaxFaults = 1
PROPERTIES
    Answered
    SignalServed
