SPECIFICATION Spec
CONSTANTS
  Widgets = {w1}
  Intervals = {4}
  Pages = {"none", "cpu"}
  SECOND = 4
  LateService = TRUE
  MaxBacklog = 1
INVARIANT RefsBalanced
