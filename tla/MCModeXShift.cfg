SPECIFICATION Spec
CONSTANTS
  SCROLL_X_WIDTH = 2
  SCROLL_Y_DIM = 2
  Extra = 2
  MEM_FENCE_WIDTH = 4
  Files <- SomeFiles
  Kept = 2
  MAX_PHOTO_WIDTH = 1024
  MAX_PHOTO_HEIGHT = 1024
  Objects <- SomeObjects
  Speeds = {1, 3}
INVARIANTS ColoursRight
