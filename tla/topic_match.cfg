SPECIFICATION Spec
CONSTANTS
  Star = "*"
  Hash = "#"
  NoKey = ""
  Segment = {"a", "b", "*", "#"}
  MaxLen = 3
  BindingKeys <- MCBindingKeys
  RoutingKeys <- MCRoutingKeys
CHECK_DEADLOCK FALSE
INVARIANT MatchCorrect
