CONSTANTS
  p1 = p1
  p2 = p2
  c1 = c1
  c2 = c2
  d1 = d1
  d2 = d2
  Process = {p1}
  Content = {c1, c2}
  Digest = {d1, d2}
  DigestOf <- MCDigestOf
  Offered <- AnyOffered
  Absent = Absent
  Partial = Partial
  Faults = {"crash"}
SPECIFICATION StoreSpec
INVARIANT QuietStoreHashesToName
