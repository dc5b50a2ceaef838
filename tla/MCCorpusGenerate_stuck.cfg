CONSTANTS
  p1 = p1
  p2 = p2
  p3 = p3
  s1 = s1
  s2 = s2
  c1 = c1
  c2 = c2
  c3 = c3
  d1 = d1
  d2 = d2
  d3 = d3
  Process = {p1, p2}
  Content = {c1, c2, c3}
  Digest = {d1, d2, d3}
  DigestOf <- MCDigestOf
  SizeOf <- MCSizeOf
  Footer <- MCFooter
  Offered <- HonestOffered
  NameOf <- MCNameOf
  ManifestOf <- ScaledManifest
  Omits <- NoOmits
  Scratch = {s1, s2}
  ScratchOf <- OwnScratch
  OsOf <- Everywhere
  Versions = {"same"}
  Absent = Absent
  Partial = Partial
  Faults = {}
  MaxTrouble = 0
SPECIFICATION GenerateFairSpec
PROPERTY EventuallyDone
CHECK_DEADLOCK FALSE
