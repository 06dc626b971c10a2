\* zstd decompression failing after a download.
CONSTANTS
  Absent = Absent
  Hrefs <- MCHrefs
  VerifiedHrefs <- MCVerifiedHrefs
  PermittedImageFormats <- MCPermitted
  Contents <- MCContents
  ConvOutputs <- MCConvOutputs
  DeepInspection = TRUE
  ZstdDecompression = TRUE
  FileChecksum = TRUE
  FetchForceRaw = {FALSE}

SPECIFICATION Spec
INVARIANT ZstdRestore
