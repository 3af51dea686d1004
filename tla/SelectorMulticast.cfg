\* Does a multicast reach every instance of its task?
CONSTANTS
    Tasks = {t1, t2}
    Insts = {i1, i2, i3}
    NoInst = NoInst
    Garbage = {0}
SPECIFICATION Spec
PROPERTY MulticastReachesAll
