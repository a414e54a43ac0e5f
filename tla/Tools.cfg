SPECIFICATION ToolsSpec
CONSTANTS
    Cards <- MCCards
    KeyNames <- MCKeyNames
    TypedChars = {"a", "b", "A", "-", ":", " "}
    MaxQuery = 5
    MinLength = 5
    MaxLength = 6
    DefaultLength = 5
    Width = 4
    MaxShuffled = 5
    ImportVaults = {v1, v2}
    NoVault = NoVault
    MaxRows = 2
    MaxFileRows = 3
    MaxImports = 2
INVARIANTS SearchFinds GeneratorIsFair ImportIsWhole
CHECK_DEADLOCK FALSE
