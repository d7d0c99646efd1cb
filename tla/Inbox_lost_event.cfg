SPECIFICATION Spec
CONSTANTS
  a1 = a1
  a2 = a2
  a3 = a3
  f1 = f1
  f2 = f2
  d1 = d1
  x1 = x1
  x2 = x2
  p1 = p1
  p2 = p2
  t1 = t1
  t2 = t2
  o1 = o1
  o2 = o2
  m1 = m1
  k1 = k1
  k2 = k2
  BankAccounts = {a1, a2, a3}
  Fingerprint <- MCFingerprint
  DefaultCalls = {t1, t2}
  DocumentRows = {d1}
  Contents = {x1, x2}
  Large = {x2}
  Uploads = {t1, t2}
  Persons = {p1, p2}
  Percents = {60, 50}
  Editors = {t1, t2}
  MaxCases = 2
  MaxVersion = 7
  Orgs = {o1}
  Merchant = o1
  Accounts <- MCAccounts
  Currencies = {"USD"}
  Methods = {"CARD"}
  SupportedPlanes <- MCPlanes
  Evidence <- MCEvidence
  Capabilities = {"authorize"}
  CredentialPlanes <- MCCredentials
  Priorities = {100}
  RouteCalls = {t1, t2}
  MaxRoutes = 2
  MaxOut = 1
  Events <- MCEvents
  Payments = {m1}
  Deliveries = {t1, t2}
  MaxSent = 3
  AdapterCodes = {"sandbox", "stripe", "paytabs", "bop"}
  Authorizations = {"session", "submission"}
  MaxChanges = 1
  Calls = {t1, t2}
  RefundKeys = {k1}
  NoKey = k2
  Captured = 2
  Amounts = {1, 2}
  MaxRefunds = 2
  MaxEvents = 1
  Rails = {"sandbox", "stripe", "paytabs"}
CHECK_DEADLOCK FALSE
INVARIANT DuplicatesWereApplied
