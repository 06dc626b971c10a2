\* fetch called with force_raw=True, as its signature allows.
CONSTANTS
  Absent = Absent
  Hrefs <- MCHrefs
  VerifiedHrefs <- MCVerifiedHrefs
  PermittedImageFormats <- MCPermitted
  Contents <- MCContents
  ConvOutputs <- MCConvOutputs
  DeepInspection = TRUE
  ZstdDecompression = TRUE
  FileChecksum = TRUE
  FetchForceRaw = {FALSE, TRUE}

SPECIFICATION Spec
INVARIANT FetchAtomic
