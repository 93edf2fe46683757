SPECIFICATION PricingSpec
CONSTANTS
  Cent = 4
  PctUnit = 1
  MaxGross = 60
  Percents = {0, 1, 5, 12, 16, 17, 25, 50, 100}
  Admins = {a1, a2}
  Transfers = {t1}
  Starts = {0, 2}
  Grace = 1
  MaxClock = 2
  MaxApplied = 3
  Setters = {a1, a2}
  Converters = {k1}
  big = big
  small = small
  mine = mine
  Members = {u1}
  MemberRoles = {"RESIDENT", "VISITOR"}
  FoundingMembers = {}
  Promotions = {big, small, mine}
  Bonus <- MCBonus
  Eligibility <- MCEligibility
  EligibleUsers <- MCEligibleUsers
  Starting <- MCStarting
  Ending <- MCEnding
  NoPromotion = NoPromotion
  LastInstant = 2
  MaxTime = 3
  MaxRates = 3
SYMMETRY AdminSymmetry
INVARIANTS
  PricingInv
  BonusIsDue
PROPERTIES
  FreeOnlyBeforeStart
  ReplacedStaysReplaced
  LookUpsFindRates
  ImplementsRateBoard
CHECK_DEADLOCK FALSE
