SPECIFICATION PrefixSpec
CONSTANTS
  MaxBlocks = 3
  InitialBlocks = 2
  GrowBy = 1
  None = None
  Request = {r1, r2}
  Token = {"a", "b"}
  Image = {"none", "cat"}
  NoImage = "none"
  MaxTrouble = 1
  Models = {FALSE}
  Prompts <- MCPrompts
  Hash <- MCHash
SYMMETRY Symmetry
INVARIANT ServedOwnPrompt
