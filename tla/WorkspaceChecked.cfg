\* Two commands at once over the files of one stem, and over those of two.
SPECIFICATION Spec
CONSTANT Procs <- MCProcs
CONSTANT Earlier <- MCEarlier
CONSTANT Scenes <- MCScenes
CONSTANT NoKey = NoKey
CONSTANT Parts <- MCParts
CONSTANT NoCommand = NoCommand
CONSTANT NameRoom = 4
CONSTANT StreamRoom = 1
CONSTANT Passes = 2
INVARIANT TypeOK
INVARIANT VerifiedIsOneRun
INVARIANT OnlyKinInterfere
PROPERTY AloneDelivers
PROPERTY WipedIfGivenUp
PROPERTY EventuallyEnds
