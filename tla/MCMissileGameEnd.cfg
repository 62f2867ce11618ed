SPECIFICATION Spec
CONSTANTS
  Cells = {c1, c2}
  Null = Null
  Explosion = 2
  AimedAt = {1, 2}
  MaxFlight = 0
  MaxEnemies = 2
  MaxShots = 0
INVARIANTS EndsWhenAllDead
