SPECIFICATION Spec
CONSTANTS
  Providers = {eth, polygon, xdc}
  Ids = {0, 1, 2, 3, 4}
  NoProvider = none
INVARIANTS LookupsAgree ListIsExact
PROPERTIES IsDirectory
