SPECIFICATION Spec
CONSTANTS
  loop = loop
  w1 = w1
  w2 = w2
  c1 = c1
  c2 = c2
  c3 = c3
  c4 = c4
  a = a
  b = b
  noAddr = noAddr
  noConn = noConn
  Writers = {w1}
  Loop = loop
  Conns = {c1, c2, c3, c4}
  Addrs = {a, b}
  NoAddr = noAddr
  NoConn = noConn
  MaxDnsChanges = 1
  MaxFaults = 1
  MaxWrites = 0
INVARIANT ClosedForGood
CHECK_DEADLOCK FALSE
