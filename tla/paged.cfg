CONSTANTS
  Refs = {1, 2, 3, 4}
  NilRef = 0
  Orders = {o1, o2}
  Dead = Dead
  Hints = {1}
  PageSize = 2
  NoPage = NoPage
SPECIFICATION AllSpec
INVARIANTS StoresAgree HandlesOnce PagesWorked
PROPERTIES ImplementsMap
