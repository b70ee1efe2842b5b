SPECIFICATION Spec
CONSTANTS
  InitialCredit = 3
  MaxCredit = 2
  Batch = 2
  Servers <- WrapOrResume
  Readings = {"last skipped", "first served"}
  MaxEvents = 5
  MaxBreaks = 3
INVARIANT LossesReported
