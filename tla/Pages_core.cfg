CONSTANTS a = a  b = b
 Client <- TwoClients
 Pages = 2
 UsedSpace = 1
 RunLengths = {1, 2}
 MaxRuns = 2
SPECIFICATION FramesSpec
CHECK_DEADLOCK FALSE
INVARIANTS NoFalseExhaustion
PROPERTIES FramesImplement
SYMMETRY Alike
