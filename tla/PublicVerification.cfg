CONSTANTS
  primary = primary
  replica1 = replica1
  replica2 = replica2
  Accounts = {server, issuer}
  Deployer = server
  Hashes = {h0, h1}
  ZeroHash = h0
  Cids = {h1}
  Reasons = {q1}
  Unset = Unset
  MaxTime = 2
  Files = {h1}
  Nodes = {primary, replica1, replica2}
  Primary = primary
  Replicas <- MCReplicas
  Gateways = {primary}
  OwnHeader = {}
  ReplicaRequired = TRUE
  None = None
  FinalHash = h1
  Pdfs <- MCPdfs
SPECIFICATION Spec
INVARIANTS ValidIsProven PagesAgree UploadSurvivesLoss
PROPERTY LedgerAppendOnly
