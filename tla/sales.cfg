SPECIFICATION Spec
CONSTANTS
  Rates = {21000000}
  Markups = {150, 900}
  Default = 150
  Unset = Unset
  MaxOverrides = 2
  Life = 1
  Forever = Forever
  Writers = {w1}
  Requests = {r1}
  Kinds = {"ONE_WAY"}
  Ttl = 1
  MaxHold = 1
INVARIANTS TypeOK ActiveTogetherOverlapped FaresAreFresh
PROPERTIES OnlyAdminsChangeMarkup MixedNeedsTwoChanges ChargedIsShown EstimatesAgree SearchEnds
CHECK_DEADLOCK FALSE
