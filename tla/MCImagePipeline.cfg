\* The image cache's use of the pipeline with deep inspection on:
\* fetch without force_raw, then image_to_raw on the staged file.
CONSTANTS
  Absent = Absent
  Hrefs <- MCHrefs
  VerifiedHrefs <- MCVerifiedHrefs
  PermittedImageFormats <- MCPermitted
  Contents <- MCContents
  ConvOutputs <- MCConvOutputs
  DeepInspection = TRUE
  ZstdDecompression = TRUE
  FileChecksum = TRUE
  FetchForceRaw = {FALSE}

SPECIFICATION Spec
INVARIANT ConvertedCleanedUp
INVARIANT FetchAtomic
INVARIANT FetchDelivers
PROPERTY ToRawContract
PROPERTY ImplementsImageStore
