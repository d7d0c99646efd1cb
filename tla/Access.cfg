SPECIFICATION Spec
CONSTANTS
  r1 = r1
  r2 = r2
  s1 = s1
  a1 = a1
  a2 = a2
  c1 = c1
  c2 = c2
  c3 = c3
  owner = owner
  staff = staff
  i1 = i1
  i2 = i2
  t1 = t1
  t2 = t2
  Requests = {r1, r2}
  Payloads = {1, 2}
  Served <- MCServed
  Callers <- MCCallers
  Transport = "cookie"
  Tokens = {s1}
  Purposes <- MCPurposes
  RequestFaults = 1
  Processes = {a1, a2}
  StoreSettings <- MCStoreSettings
  Buckets = {"users.invite"}
  WindowLimit = 1
  LimitFaults = 1
  Calls = {c1, c2, c3}
  LoginMaxAttempts = 2
  RequireVerification = TRUE
  MaxPassword = 3
  People = {owner, staff}
  Invitations = {i1}
  MemberCalls = {t1, t2}
  Founder = owner
  Elsewhere = {staff}
CHECK_DEADLOCK FALSE
INVARIANTS
  EffectsHappenOnce
  ProductionLimitHolds
  LoginsHold
  LeaversKeepNothing
PROPERTIES
  StoredReplyStays
  OwnersStay
  NothingStaysShut
