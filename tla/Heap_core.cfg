CONSTANTS
 HDR = 1
 PAGE = 6
 Top = 25
 Sizes = {2, 4}
SPECIFICATION Spec
CHECK_DEADLOCK FALSE
INVARIANTS SegmentsDisjoint ListInAddressOrder Coalesced TwoExpansionsSuffice
PROPERTIES HeapImplements
