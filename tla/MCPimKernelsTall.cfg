SPECIFICATION Spec
CONSTANTS
  NumGrf = 2
  NumChan = 2
  NumBg = 2
  BanksPerBg = 4
  Jobs <- TallJobs
  Units <- AllUnits
  TmpSlots = 16
INVARIANT GemmExact
