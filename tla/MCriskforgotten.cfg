SPECIFICATION Spec
CONSTANTS
  Kinds = {"MARGIN_CALL", "CONDITIONAL_ORDER_TRIGGER_REJECT"}
  MaxChanges = 2
  MaxDrops = 0
INVARIANTS
  RiskAnswered
