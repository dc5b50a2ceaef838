CONSTANTS
  p1 = p1
  p2 = p2
  p3 = p3
  s1 = s1
  s2 = s2
  c1 = c1
  c2 = c2
  c3 = c3
  d1 = d1
  d2 = d2
  d3 = d3
  Process = {p1, p2, p3}
  Content = {c1, c2, c3}
  Digest = {d1, d2, d3}
  DigestOf <- MCDigestOf
  SizeOf <- MCSizeOf
  Footer <- MCFooter
  Offered <- MixedOffered
  NameOf <- MCNameOf
  ManifestOf <- ScaledManifest
  Omits <- SomeOmits
  Scratch = {s1, s2}
  ScratchOf <- OwnScratch
  OsOf <- NotThird
  Versions = {"same", "other", "none"}
  Absent = Absent
  Partial = Partial
  Faults <- CommonFaults
  MaxTrouble = 1
SPECIFICATION GenerateSpec
INVARIANT DoneMeansHeld
INVARIANT TakesNothingOld
INVARIANT AbsentMeansUnwritten
CHECK_DEADLOCK FALSE
