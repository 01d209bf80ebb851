SPECIFICATION TrainingSpec
\* a training function returns, or the firmware stops
CHECK_DEADLOCK FALSE
CONSTANTS
  Lanes = {0, 1}
  NUM_RANKS = 2
  QRTR_CLK = 32
  FULL_CLK = 128
  MaxDelay = 1023
  Word = 4096
  Waves <- MCWaves
  Level <- MCLevel
  Starts = {158, 640}
  SAMPLE_DLY = 26
  SAMPLE_SIZE = 2
  Jitter = 2
  SplitWaves <- MCSplitWaves
  JoinedWaves <- MCJoinedWaves
  First <- MCFirst
  PULSES = 4
  Clocks <- MCClocks
  Wclk = {158}
  CoarseOutcomes <- MCCoarse
  Home <- MCHome
  Eyes <- MCEyes
  EyeOutcomes <- MCEyeOutcomes
  RDQS_MAX = 23
  VREF_MAX = 23
  MIN_RDQS_EYE = 4
  MIN_VREF_EYE = 4
  Windows <- MCWindows
  WindowOutcomes <- MCWindowOutcomes
  Wdqs = {158, 40}
INVARIANTS
  TrainingTypeOK
  EdgeBracketed
  NearestEdge
  StopsOnlyWithoutSignal
  StrobesPlaced
  SharedDelaysSuit
  ModeMatches
  SidesNeverMeet
  CentresPass
PROPERTIES
  TrainingEnds
