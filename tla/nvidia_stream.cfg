SPECIFICATION Spec
CONSTANTS
  Cards = {c1, c2}
  Delay = 10
  WINDOW = 4
  MARGIN = 8
  KERNEL_LAG = 1
  CallTimes = {1, 3}
PROPERTY StreamLasts
