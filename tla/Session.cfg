CONSTANTS
  Providers = {github, okta}
  Subjects = {u1}
  Requests = {q1, q2}
  Sids = {s1, s2}
  None = None
  Anonymous = Anonymous
  SessionTTL = 720
  MaxDeploy = 1
SPECIFICATION Spec
INVARIANTS TypeOK LogoutIsFinal UnauthorizedIsDeserved AdmittedAsOwner SessionHasUser
