SPECIFICATION BlindSpec
SYMMETRY Symmetry
CONSTANTS
  Groups = {g, h}
  NoToken = NoToken
  Revealed = Revealed
  MaxResults = 3
  MaxTokens = 2
  MaxScores = 2
  MaxBoots = 2
INVARIANTS BlindIsAttested
