SPECIFICATION Spec
CONSTANTS
  Interval = 8000
  Tolerance = 250
  NoScene = "none"
  RRF_K = 60
  MaxRank = 3
  Unit = 2382660
  Bucket = 8000
  Sources <- MCSources
  SceneTypes = {"chatting", "gaming"}
  Video = 1
  Transcript <- MCTranscript
  AudioAnswers <- MCAudioAnswers
  Clips <- MCClips
  Cases <- MCCases
  PerPath = 2
  Window = 15000
INVARIANTS FramesFollowTheVideo SceneIsTheLastLabel HitsOpen HitsAreTheBestMoments
  FusionHonoursAgreement CoverageCountsWindows MetricsAreOrdered
PROPERTY SearchableStaysSearchable
