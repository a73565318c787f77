\* Every key argument, and every way the random generator may answer.
SPECIFICATION Spec
CONSTANT Base = 3
CONSTANT Digits = {1, 2, 3, 4}
CONSTANT Value <- MCValue
CONSTANT Printed <- MCPrinted
CONSTANT KeyRoom = 2
CONSTANT DefaultSize = 2
CONSTANT Texts <- MCTexts
CONSTANT RandomByte = {0, 5}
CONSTANT NoKey = NoKey
CONSTANT Others = {8}
CONSTANT MaxText = 6
INVARIANT TypeOK
INVARIANT RandomIsWhole
INVARIANT KeyReopens
PROPERTY EventuallyEnds
