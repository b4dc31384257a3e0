CONSTANTS
  Circle = 8
  Margin = 3
  MaxMotion = 2
  ClockMod = 8
  MinLoopTime = 2
  WarmUp = 4
  MaxBusy = 3
  MaxAngle = 9
  NameLimit = 3
  MaxBoots = 5
SPECIFICATION SketchSpec
INVARIANTS
  OneBootPerFile
PROPERTIES
  MotionTracked
  CyclesApart
CHECK_DEADLOCK FALSE
