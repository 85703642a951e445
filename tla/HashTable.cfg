SPECIFICATION Spec
CONSTANTS
  a1 = a1
  a2 = a2
  a3 = a3
  b1 = b1
  b2 = b2
  NULL = NULL
  Addr <- ThreeAddresses
  Blocks <- TwoBlocks
  Keys <- SomeKeys
  TableSize = 2
INVARIANTS TypeOK ListsSound ElementsCounted WalkComplete
PROPERTY DictionarySpec
