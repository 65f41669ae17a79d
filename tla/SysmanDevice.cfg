\* One device, detached and attached any number of times, and replaced once.
SPECIFICATION FairSpec
CONSTANTS
  Devices = {d1}
  NoDevice = NoDevice
  MaxIncarnation = 2
INVARIANTS
  ScrapeCoherent
  AttachRecovers
  NoSamplesOfEarlierDevice
PROPERTY AttachAndShutdownServed
