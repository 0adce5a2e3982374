SPECIFICATION Spec
CONSTANTS
  gw = gw
  host = host
  NoAsset = NoAsset
  NoProvider = NoProvider
  Assets <- TwoAssets
  DependsOn <- HostBehindGateway
  Position <- InOrder
  Handlers = {h1, h2}
  Providers = {"proxmox", "https"}
  Checks = {"node", "web"}
  CheckAsset <- OneCheckEach
  CheckProvider <- OwnProvider
  CheckPosition <- OwnOrder
  Observations <- FineOrTwoFaults
  FailureObservations = 1
  RecoveryObservations = 1
  Windowed = {}
  LateObservations = FALSE
  AbandonedRequests = FALSE
  MaxDisruptions = 2
INVARIANT OneActivePerRoot
