CONSTANTS
  MAX_GENERATION <- MCMaxGeneration
  MaxSlots <- MCMaxSlots
  MaxAllocations <- MCMaxAllocations
SPECIFICATION Spec
INVARIANTS
  TypeOK
  NoAlias
  FreeListExact
  LenExact
\* Every slot may be retired and every allocation of the bound spent.
CHECK_DEADLOCK FALSE
