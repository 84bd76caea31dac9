SPECIFICATION Spec
CONSTANTS
  Frames = 3
  Layers = 3
INVARIANT VisibilityHonored
CHECK_DEADLOCK FALSE
