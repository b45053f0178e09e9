SPECIFICATION Spec
CONSTANTS
  root = root
  ops = ops
  m1 = m1
  m2 = m2
  Names = {root, ops, m1, m2}
  Founders = {root, ops}
  Mailbox <- MailboxOf
  Emails = {e1, e2}
  Subjects = {g1, g2}
  Changes <- ChangesOf
  AllowRegistration = TRUE
  Requests = {r1, r2}
  MaxCalls = 3
  Nothing = Nothing
  Address <- AddressOf
  Ttl = 2
  MaxSession = 2
  Attempts = 2
  Window = 2
  CacheSeconds = 3
  Verifiers = {v1, v2}
  MaxKey = 2
  MaxNow = 6
  Nodes = {n1, n2}
  Invitations = {i1, i2}
  Nonces = {c1, c2}
  NonceTtl = 1
  NodeTtl = 4
  Margin = 3
  Timeout = 1
  MaxStarts = 2
  MaxClock = 5
  None = None
INVARIANTS CredentialsAreCurrent IdentityHolds
PROPERTIES AdminsRemain
CHECK_DEADLOCK FALSE
