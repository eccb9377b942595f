CONSTANTS
    m0 = m0  h0 = h0  m1 = m1  h1 = h1  p = p
    a = a  b = b  c = c  z = z
    Threads = {m0, h0, m1, p}
    Boot = m0
    Handlers = {h0}
    Probe = {p}
    Core <- MCCore
    Roles <- MCRoles
    Size = 3
    Bytes = {a, b, c, z}
    Records <- MCRecords
    Asks = {2}
    Zero = z
SPECIFICATION Spec
INVARIANTS StaysInside
PROPERTIES FifoSpec RoomStands
