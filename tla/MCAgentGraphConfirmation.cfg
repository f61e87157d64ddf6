SPECIFICATION Spec
CHECK_DEADLOCK FALSE
CONSTANTS
  None = None
  i1 = i1
  i2 = i2
  Items = {i1, i2}
  Cases <- MCCases
  RequiredReasons = {"POLICY_RETURN_REQUIRED", "RETURN_REQUIRED_FOR_INSPECTION"}
  MaxConsents = 2
INVARIANTS
  ConfirmationIsOpen
