\* Deep inspection disabled: image_to_raw detects the format of `path`, not of the staged file.
CONSTANTS
  Absent = Absent
  Hrefs <- MCHrefs
  VerifiedHrefs <- MCVerifiedHrefs
  PermittedImageFormats <- MCPermitted
  Contents <- MCContents
  ConvOutputs <- MCConvOutputs
  DeepInspection = FALSE
  ZstdDecompression = TRUE
  FileChecksum = TRUE
  FetchForceRaw = {FALSE}

SPECIFICATION Spec
PROPERTY ToRawContract
