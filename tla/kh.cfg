SPECIFICATION Spec
CONSTANTS
  HeapMax = 11
  HeapInitial = 4
  PageUnits = 2
  Sizes = {1, 2, 4}
  Calls = {"kmalloc", "kmalloc_a", "kfree", "krealloc"}
CHECK_DEADLOCK FALSE
INVARIANTS Tiling FreeListExact NeverWild
PROPERTIES AllocatorSpec
