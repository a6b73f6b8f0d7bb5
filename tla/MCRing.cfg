SPECIFICATION Spec
CONSTANTS
    e1 = e1  f1 = f1  f2 = f2  b1 = b1  c1 = c1  c2 = c2  n1 = n1
    Emitters = {e1}
    Finishers = {f1, f2}
    Blockers = {b1}
    Waiters = {c1, c2}
    Watchers = {n1}
    Capacity = 2
    Casts <- TwoCasts
INVARIANTS TypeOK NoStrandedConsumer
PROPERTIES QueuedIsConsumed MandatoryLands
