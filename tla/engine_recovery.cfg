SPECIFICATION FairSpec
CONSTANTS
  gw = gw
  host = host
  NoAsset = NoAsset
  NoProvider = NoProvider
  Assets <- TwoAssets
  DependsOn <- HostBehindGateway
  Position <- InOrder
  Handlers = {h1, h2}
  Providers = {"proxmox", "https"}
  Checks = {"node", "guest", "web"}
  CheckAsset <- AssetOfCheck
  CheckProvider <- ProviderOfCheck
  CheckPosition <- CheckOrder
  Observations <- FineOrDown
  FailureObservations = 1
  RecoveryObservations = 2
  Windowed = {}
  LateObservations = FALSE
  AbandonedRequests = FALSE
  MaxDisruptions = 2
PROPERTIES RecoveredAssetsResolve ConfirmedFaultIsTracked
