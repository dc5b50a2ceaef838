CONSTANTS
  p1 = p1
  p2 = p2
  p3 = p3
  c1 = c1
  c2 = c2
  c3 = c3
  d1 = d1
  d2 = d2
  d3 = d3
  Process = {p1, p2}
  Content = {c1, c2}
  Digest = {d1, d2, d3}
  DigestOf <- MCDigestOf
  SizeOf <- MCSizeOf
  Footer <- MCFooter
  Offered <- HonestOffered
  NameOf <- MCNameOf
  ManifestOf <- CrossedManifest
  Absent = Absent
  Partial = Partial
  Faults <- CommonFaults
  MaxTrouble = 2
SPECIFICATION FetchFairSpec
PROPERTY EventuallyReady
CHECK_DEADLOCK FALSE
PROPERTY KeepsPromise
