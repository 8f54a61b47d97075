CONSTANTS
  k1 = k1
  k2 = k2
  t1 = t1
  t2 = t2
  h1 = h1
  h2 = h2
  Absent = Absent
  Keys = {k1, k2}
  Types = {t1, t2}
  Hashes = {h1, h2}
  Snapshots <- MCSnapshots
SPECIFICATION Spec
INVARIANT
  RowsMatchSnapshot
