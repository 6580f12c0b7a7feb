SPECIFICATION FairSpec
CONSTANTS
  Host = {h1}
  Relayed = Relayed
  Me = Me
  Nobody = Nobody
  Hasty = FALSE
INVARIANTS AdvertisesOwn DiskFollows InputsMeetControls
PROPERTY FindsAndForgets
CHECK_DEADLOCK FALSE
