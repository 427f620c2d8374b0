\* Two clients that create, delete and read connections of three endpoints at
\* the same time; the backend may restart anywhere.
SPECIFICATION ConnectionsSpec
CONSTANTS
  v1 = v1  v2 = v2  x1 = x1  s1 = s1  s2 = s2
  Clients = {c1, c2}
  VMwareEndpoints = {v1, v2}
  ProxmoxEndpoints = {x1}
  Ids = {1, 2, 3}
  Slug <- EachItsOwn
  Passwords = {s1, s2}
  Accepts <- TwoOfTheFirst
  MaxEntries = 3
  NoPassword = NoPassword
  NoEndpoint = NoEndpoint
  NoId = NoId
INVARIANTS
  ConnectionsInv
  RegisteredOncePerClient
  ContactsAreAccepted
SYMMETRY ClientsAreAlike
