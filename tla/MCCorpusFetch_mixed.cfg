CONSTANTS
  p1 = p1
  p2 = p2
  p3 = p3
  c1 = c1
  c2 = c2
  c3 = c3
  d1 = d1
  d2 = d2
  d3 = d3
  Process = {p1, p2, p3}
  Content = {c1, c2, c3}
  Digest = {d1, d2, d3}
  DigestOf <- MCDigestOf
  SizeOf <- MCSizeOf
  Footer <- RaggedFooter
  Offered <- MixedOffered
  NameOf <- MCNameOf
  ManifestOf <- MixedManifest
  Absent = Absent
  Partial = Partial
  Faults = {"create", "write"}
  MaxTrouble = 3
SPECIFICATION FetchSpec
INVARIANT PassedHonestEntriesHeld
INVARIANT ReachedIsPinned
INVARIANT RefusedLeavesNothing
INVARIANT MismatchIsPending
INVARIANT NoStrayTemporaries
CHECK_DEADLOCK FALSE
