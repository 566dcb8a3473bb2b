CONSTANTS
  Key <- MCKey
  Self = "me"
  KeyForm = {"hex"}
  Zone = {"zone"}
  Word = {"word"}
  Published <- MCPublished
  Name <- MCName
  Tag <- MCTag
  ModeText <- MCModeText
  Alias = {"zone", "word"}
  Tracked = {"k1"}
  MaxRules = 2
  None = None
SPECIFICATION Spec
INVARIANT TypeOK
INVARIANT NoRuleIgnored
INVARIANT AskedIsInForce
INVARIANT RemovedIsGone
INVARIANT OnlyWhatWasAsked
INVARIANT PullsFollowTheRecord
