CONSTANTS
  n1 = n1
  n2 = n2
  Absent = Absent
  Names = {n1, n2}
  Contents <- TheContents
  Segments <- TheSegments
  Fold <- TheFold
  DocIds = {"0001"}
  Paths = {"guide", "../x"}
  Valid = {"guide"}
  MaxId = 3
  MaxChanges = 2
SPECIFICATION Spec
INVARIANTS TypeOK MissWasTrue AnswerWasServed RepoListIsStable SearchIsScoped
