SPECIFICATION Spec
CONSTANTS
  p1 = p1  p2 = p2  n1 = n1  n2 = n2
  Plugin = {p1, p2}
  Name = {n1, n2}
  Version = {v1, v2}
  Variant = {"", "chromium"}
  Pod = {h1, h2}
  Call = {c1, c2}
  FirstPlugins <- MCFirstPlugins
  NoPlugin = NoPlugin
  Nothing = Nothing
  MaxOps = 3
PROPERTY VariantsKept
CHECK_DEADLOCK FALSE
