SPECIFICATION Spec
CONSTANTS
  MaxOrder = 4
  Context = {t1, t2}
  PerTable = 4
  MemoryMaps <- MCMaps
  Sections <- MCSections
  TemplateTables <- MCTemplateTables
  HeapPages = 1
  Memory = 16
  Entries = 6
  PoolStart = 18
  PoolPages = 2
  RequestAt = {0, 21}
  RequestSize = {1, 3}
INVARIANTS
  NodesSummariseLeaves
  SearchIsComplete
  ReservedPagesStay
PROPERTIES
  
  ImplementsPageAllocator
