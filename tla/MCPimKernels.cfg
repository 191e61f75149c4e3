SPECIFICATION Spec
CONSTANTS
  NumGrf = 2
  NumChan = 2
  NumBg = 2
  BanksPerBg = 4
  Jobs <- AllJobs
  Units <- AllUnits
  TmpSlots = 16
INVARIANTS TypeOK EltResult GemmResult InStep Restored LayoutRight
