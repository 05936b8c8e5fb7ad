CONSTANTS
  N = 2
  MaxByte = 1
  Values = {0, 1, 3}
  Constants = {0, 3}
  Columns = {c, d}
  MaxQueries = 2
  MaxOpens = 2
SPECIFICATION Spec
CHECK_DEADLOCK FALSE
INVARIANT TypeOK
 
 
INVARIANT SafeClient
SYMMETRY Exchange
CONSTRAINT FewValues
