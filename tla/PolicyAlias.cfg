CONSTANTS
  Key <- MCKey
  Self = "me"
  KeyForm = {"hex"}
  Zone = {"zone"}
  Word = {"word"}
  Published <- MCPublished
  Name <- MCName
  Tag <- MCTag
  ModeText <- MCModeText
  Alias = {"zone", "word"}
  Tracked = {"me", "k1"}
  MaxRules = 2
  None = None
SPECIFICATION Spec
INVARIANT AliasIsAccepted
