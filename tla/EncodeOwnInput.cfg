\* A single encode, of a file that has the extension encode gives.
SPECIFICATION Spec
CONSTANT Procs <- MCProcs
CONSTANT Earlier <- MCEarlier
CONSTANT Scenes <- MCOwnInput
CONSTANT NoCommand = NoCommand
CONSTANT NoKey = NoKey
CONSTANT Parts <- MCParts
CONSTANT NameRoom = 4
CONSTANT StreamRoom = 1
CONSTANT Passes = 2
PROPERTY InputSurvives
