SPECIFICATION AdvancedSpec
CONSTANTS
  Plain = {o1}
  Ocos = {c1}
  Brackets = {b1}
  Trails = {t1}
  TrailSpecs <- MCTrailSpecs
  Prices = {2, 3, 4}
  Quantity = 2
  MaxReported <- MCMaxReported
INVARIANTS
  OcoRecordMatchesLegs
  OneExitIsLeft
PROPERTIES
  TrailingStopNeverLoosens
CHECK_DEADLOCK FALSE
