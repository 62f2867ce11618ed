SPECIFICATION MissileSpec
CONSTANTS
  Cells = {c1, c2, c3}
  Null = Null
  Explosion = 2
  AimedAt = {2}
  MaxFlight = 1
  MaxEnemies = 2
  MaxShots = 1
  Columns <- AllColumns
  Speeds <- SlowAndFast
INVARIANTS ListSound SafeWhilePlaying EnemiesAccounted StatusCurrent CrosshairsAgree OnScreen
PROPERTIES BurnOut Explodes
