\* The instance of InstanceDepend.cfg: a member of the tenant without the database of
\* the configuration runs a migration.
CONSTANTS
  a = a  b = b  user1 = user1  user2 = user2  q1 = q1  q2 = q2  t0 = t0  t1 = t1
  Nodes = {r, a, b}
  Root = r
  Instants = {1, 2, 3}
  MaxFirings = 3
  MaxLines = 2
  NoNode = NoNode
  Users = {user1, user2}
  Names = {1, 2}
  Emails = {1, 2}
  Passwords = {1, 2}
  Strong = {1, 2}
  RootName = 1
  RootEmail = 1
  RootPassword = 1
  Members = {m}
  Tenants = {t0, t1}
  Admins = {m}
  DefaultTenant = t0
  DbOf <- TwoDatabases
  NodeRows = {node1}
  Sources = {source1}
  Ods = ods
  Empty = ""
  Procs = {p1, p2, p3}
  Days = {1}
  NodeIds = {root, other}
  DailyRoot = root
  MaxAttempts = 4
  Reqs = {q1, q2}
  None = None
SPECIFICATION RequestSpec
INVARIANTS MigratesInTenant
SYMMETRY Symm
CHECK_DEADLOCK FALSE
