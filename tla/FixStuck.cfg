SPECIFICATION FixSpec
CONSTANTS
  ResendBufferSize = 2
  AutoResendOnGap = TRUE
  MaxFills = 4
  MaxVenueAdmin = 0
  MaxOrders = 0
  MaxConnects = 1
PROPERTIES GapIsRequested
