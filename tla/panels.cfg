SPECIFICATION Spec
CONSTANTS
  Widgets = {w1, w2}
  Intervals = {2, 4}
  Pages = {"none", "cpu", "network"}
  SECOND = 4
  LateService = FALSE
  MaxBacklog = 1
INVARIANTS TypeOK SamplerIsTold IntervalIsFastest RefsBalanced
PROPERTIES FocusIsShown DemandReached
