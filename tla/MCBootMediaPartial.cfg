CONSTANTS
  Absent = Absent
  Partial = Partial
  Zeroed = Zeroed
  NoPath = NoPath
  InjectDests <- MCInjectDests
  Injects <- MCInjects
  DonorLayouts <- MCDonorLayouts
  VfatFiles <- MCVfatFiles
  Ldlinux = TRUE
  ConfEspImage = FALSE
SPECIFICATION Spec
PROPERTY MediaNoPartialOutput
