CONSTANTS
  Handles = {h1, h2}
  AgpsCapable = TRUE
  UseEmergencyPdn = FALSE
  BadApn = TRUE
  MaxInFlight = 3
SPECIFICATION FairSpec
INVARIANTS ConnectionHasUser WaitingIsOwed FrameworkAgrees ModemAgrees
PROPERTIES CallsAnswered
