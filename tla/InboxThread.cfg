CONSTANTS
  Size = 3
  MaxArrivals = 6
  MayOverflow = FALSE
  Threaded = TRUE
SPECIFICATION Spec
PROPERTY ReadsInOrder
CHECK_DEADLOCK FALSE
