SPECIFICATION Spec
CONSTANTS
  Thread = thread
  Gens = {g}
  Funcs = {f}
  Scopes = {1, 2}
  ScopesOf <- MCNested
  Finally = {1}
  Parent <- MCParent
  Excs = {e1, e2}
  None = None
  MaxStack = 4
SYMMETRY MCSymmetry
INVARIANTS
  ChainFollowsCalls
  RecordsMatchSource
  ReferencesBalance
PROPERTY ImplementsHandledStack
