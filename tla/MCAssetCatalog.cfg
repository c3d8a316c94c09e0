SPECIFICATION CatalogSpec
CONSTANTS
  s1 = s1  s2 = s2  s3 = s3
  n1 = n1  n2 = n2
  r1 = r1  r2 = r2
  None = None
  Ids = {1, 2, 3, 4}
  Names = {s1, s2, n1, n2}
  Requests = {r1, r2}
  Payloads <- ThePayloads
  Catalogs <- TheCatalogs
  MaxRequests = 3
  MaxRuns = 2
INVARIANTS
  CatalogTypeOK
  ClassFitsType
  DryRunIsTrue
PROPERTY
  MappingsStay
SYMMETRY Interchangeable
CHECK_DEADLOCK FALSE
