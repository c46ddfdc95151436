CONSTANTS
  Pages = {"pairing", "dashboard", "rules", "history", "job"}
  Closable = {"help", "copy", "rule_scope", "manual_rule"}
  Requests = {1, 2}
  HubSize = 1
  MaxAge = 1
  MaxTyped = 2
  Filters = {{}, {1}}
SPECIFICATION Spec
CONSTRAINT Explored
INVARIANTS TypeOK StaleListWakes
PROPERTIES DecidesWhatIsShown TypedAheadDecidesNothing
