CONSTANTS
    m0 = m0  h0 = h0  m1 = m1  h1 = h1  n = n
    Threads = {m0, h0, m1, h1}
    Handlers = {h0, h1}
    Closers = {m0, m1}
    Core <- MCCore
    None = n
SPECIFICATION FairSpec
INVARIANTS OneUser OpenHolds NameIsOwners
PROPERTY LockIsFreed
