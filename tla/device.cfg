SPECIFICATION DeviceSpec
CONSTANTS
  LED_MEDIUM_BLINKS = 3
  LED_FAST_BLINKS = 8
  Modes <- MCModes
  Configs <- MCConfigs
  Offers <- MCOffers
INVARIANTS
  LedFollows
  DarkWhenDone
  OutputMeansPower
  SinkCapsSound
PROPERTIES
  ListingTrue
