SPECIFICATION ASpec
CONSTANTS
  vllm = vllm
  diffusers = diffusers
  demucs = demucs
  f1 = f1
  f2 = f2
  Model = {vllm, diffusers, demucs}
  File = {f1, f2}
  Files <- FilesOfFamily
  None = None
  Quota = 2
  MaxFaults = 2
  MaxCrashes = 1
  Shape <- ShapeOf
  OutputLimit = 2
INVARIANTS
  ATypeOK
  MarkerMeansComplete
  AnswersAreReadable
  BootstrapMeansMissing
  OutputIsReal
  ManifestIsDurable
  VerdictNamesTheEnd
PROPERTIES
  QuotaKept
  EvictsLeastRecent
  KeepsContract
