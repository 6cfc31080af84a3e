\* Two callers over two weather windows of two tenants, versions 1 to 3, one lost answer.
SPECIFICATION Spec
CONSTANTS
  Entity <- WeatherWindow
  Ids = {i1, i2}
  Tenants = {t1, t2}
  Callers = {c1, c2}
  None = None
  MaxVersion = 3
  MaxDisruptions = 1
SYMMETRY Symmetry
INVARIANTS
  TypeOK
  VersionNamesContent
PROPERTIES
  NoLostUpdate
