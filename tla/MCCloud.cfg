SPECIFICATION MCSpec
CONSTANTS
  Parts = {"snapshots", "spend", "incidents", "pushes", "nonces", "actors", "telemetry", "evidence"}
  r1 = r1
  r2 = r2
  r3 = r3
  NoName = NoName
  c1 = c1
  c2 = c2
  Runs = {r1, r2}
  Amounts = {1}
  Partial = Partial
  Absent = Absent
  MaxMutations = 3
  MaxFailures = 1
  MaxCrashes = 1
  Missing = Missing
  Handlers = {h1, h2}
  Threshold = 2
  Batch = 2
  Writable = FALSE
  MaxRecords = 4
  MaxStarts = 2
  Keys <- OrgKeys
  Tokens <- SignIns
  Jwks <- PublicKeys
  Issuer = "idp"
  Audience = "cloud"
  AdminRole = "admin"
  Leeway = 1
  Devices = {"d1", "d2"}
  Codes = {c1, c2}
  PairTtl = 1
  MaxSkew = 1
  NonceCap = 2
  MaxRequests = 3
  MaxAudit = 4
  MaxNow = 4
  Decisions = {"killed", "dlp_blocked", "allow", "made_up"}
  Kinds = {"spend_spike", "sustained_loop"}
  Intact = FALSE
  MaxEvents = 2
  MaxChain = 1
INVARIANTS SnapshotSound RollupsExact IncidentsJustified OperatorsEntitled RecordsKept EvidenceHonest
PROPERTY AlertsSurvive
CHECK_DEADLOCK FALSE
