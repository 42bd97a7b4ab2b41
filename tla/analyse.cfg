SPECIFICATION Spec
CONSTANTS
  Base <- Parcel
  Neighbourhoods <- Hoods
  Drawings <- Rings
  Tolerances = {1, 2}
  MaxApplied = 3
INVARIANTS
  NoSliverAtCorners
  CornersSettle
  TroubleReported
CHECK_DEADLOCK FALSE
