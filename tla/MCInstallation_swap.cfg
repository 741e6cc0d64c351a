SPECIFICATION Spec
CONSTANTS
  p1 = p1
  p2 = p2
  bundled = bundled
  custom = custom
  m1 = m1
  m2 = m2
  Proc = {p1, p2}
  Version <- TwoVersions
  Ext = {bundled, custom}
  Bundled = bundled
  Manifests <- TwoManifests
  None = None
  MaxOps = 3
PROPERTY NoSwapUnderDaemon
CHECK_DEADLOCK FALSE
