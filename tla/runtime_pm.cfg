SPECIFICATION Spec
CONSTANTS
  Delay = 20
  WINDOW = 5
  MARGIN = 10
  READ_LAG = 2
  KERNEL_LAG = 2
INVARIANTS TypeOK CooldownSuffices
PROPERTIES FallsAsleep
