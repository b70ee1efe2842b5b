SPECIFICATION ConnectionSpec
CONSTANTS
  Codecs = {"tcp", "session"}
  HeaderBytes = 2
  Base = 4
  Limit = 4
  SendLimit = 5
  Payloads <- MCPayloads
  Bad = 2
  MaxFrames = 4
  Interval = 3
  MaxMissed = 2
  PollEvery = 2
  RoundTrip = 2
  MaxNow = 16
INVARIANTS FramesArrive NoFalseDeath DeadInTime
PROPERTY ErrorIsFinal
