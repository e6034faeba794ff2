SPECIFICATION Spec
CONSTANTS
  t1 = t1
  t2 = t2
  a = a
  k = k
  l = l
  Thread = {t1, t2}
  Column = {a, k, l}
  TableOf <- MCTableOf
  Plain = {k}
  Link <- MCLink
  Schemas <- MCSchemas
  Choices <- MCChoices
  Requests = {"question", "values", "set", "declare", "delete"}
  MaxEngines = 3
SYMMETRY Threads
INVARIANTS
  KeysNeverShared
