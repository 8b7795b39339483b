\* Two places, three senders and two receivers.
SPECIFICATION Spec
CONSTANTS
    r1 = r1
    r2 = r2
    w = w
    d1 = d1
    d2 = d2
    a = a
    b = b
    NoItem = NoItem
    Item = {a, b}
    Task <- MCTask
    May <- MCMay
    uxLength = 2
INVARIANTS TypeOK NoLostWakeup
PROPERTY ImplementsQueue
