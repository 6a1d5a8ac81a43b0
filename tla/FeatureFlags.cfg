SPECIFICATION Spec
CONSTANTS
  Plugin = {1, 2}
  Name <- MCName
  Cohort = {k1, k2}
  Template <- MCTemplate
  Imported <- MCImported
  Call = {c1, c2}
  MaxOps = 3
INVARIANTS AdminStateKept ImportsTakeEffect 
 
SYMMETRY Symmetry
CHECK_DEADLOCK FALSE
