SPECIFICATION Spec
CONSTANTS
  r1 = r1
  r2 = r2
  l1 = l1
  l2 = l2
  app = app
  db = db
  web = web
  o1 = o1
  o2 = o2
  o3 = o3
  None = None
  AppOf <- MCAppOf
  Relations = {r1, r2}
  Listers = {l1}
  RemoteApps = {db}
  Objects = {o1, o2, o3}
  SkipFailedDeletion = FALSE
PROPERTY CreateReportsOffer
