CONSTANTS
  Size = 3
  MaxArrivals = 10
  MayOverflow = TRUE
  Threaded = FALSE
SPECIFICATION Spec
PROPERTY ReadsInOrder
CHECK_DEADLOCK FALSE
