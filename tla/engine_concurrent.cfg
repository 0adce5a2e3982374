SPECIFICATION Spec
CONSTANTS
  gw = gw
  host = host
  NoAsset = NoAsset
  NoProvider = NoProvider
  Assets <- TwoAssets
  DependsOn <- HostBehindGateway
  Position <- InOrder
  Handlers = {h1, h2}
  Providers = {"proxmox", "https"}
  Checks = {"node", "web"}
  CheckAsset <- OneCheckEach
  CheckProvider <- OwnProvider
  CheckPosition <- OwnOrder
  Observations <- FineOrDown
  FailureObservations = 2
  RecoveryObservations = 1
  Windowed = {gw}
  LateObservations = TRUE
  AbandonedRequests = FALSE
  MaxDisruptions = 2
INVARIANTS AssetsDependOnRoot AlertsTellOneStory
PROPERTIES HistoryOnlyGrows
SYMMETRY InterchangeableHandlers
