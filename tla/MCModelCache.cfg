SPECIFICATION CacheSpec
CONSTANTS
  u1 = u1
  u2 = u2
  u3 = u3
  n1 = n1
  n2 = n2
  h1 = h1
  h2 = h2
  Nobody = Nobody
  NoModel = NoModel
  Handlers = {h1, h2}
  UUIDs = {u1, u2, u3}
  Names = {n1, n2}
  NameOf <- MCNameOf
INVARIANTS
  CacheTypeOK
  KnownModelsCached
  RemovedModelsUncached
PROPERTIES
  PriorModelsFound
  ReplacementFound
  HandlersFinish
