SPECIFICATION PullFair
CONSTANTS
  Pulls = {p1}
  Models = {m1, m2}
  Layers = {a, b}
  LayerSize = 1
  Deadline = 1
  Cooldown = 1
  MaxServes = 1
PROPERTY PullsEnd
CHECK_DEADLOCK FALSE
