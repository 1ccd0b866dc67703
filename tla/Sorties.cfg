CONSTANTS
  Fleets = {f1}
  EnemyPos = {p1, p2}
  BossPos = {pb}
  BoxPos = {px}
  FreePos = {pf}
  EnemyExp = {e}
  AmbushExp = {a}
  BossExp = {b}
  BoxEffects = {"drop", "enemy"}
  Waves <- TwoWaves
  BossRefresh = 2
  ProgressBoss = 100
  Stars <- ThreeStars
  DropsPerKill = 1
  NoRow = NoRow
  MaxSorties = 2
  MaxBattles = 4
  MaxAmbushes = 1
  MaxFaults = 1
SPECIFICATION Spec
INVARIANT SpoilsAreFoughtFor
INVARIANT OneEnemyPerBattle
INVARIANT SortieCanEnd
INVARIANT ClearStarNeedsBoss
SYMMETRY AnyPlace
CHECK_DEADLOCK FALSE
