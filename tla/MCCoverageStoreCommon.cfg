CONSTANTS
  t1 = t1
  t2 = t2
  t3 = t3
  Test = {t1, t2, t3}
  File = {f, g}
  Line = {1, 2}
  Raws <- MCRaws
  MaxKills = 0
SPECIFICATION Spec
INVARIANT OnlyCommonRemoved
