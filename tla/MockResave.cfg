SPECIFICATION Spec
CONSTANTS
  Null = Null
  Invalid = Invalid
  TestItems <- MCTestItems
  Offers <- MCOffers
  MaxCommands = 4
  Foreign = {"d7"}
INVARIANTS StoredMockCanBeSavedAgain
