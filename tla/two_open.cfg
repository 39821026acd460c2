SPECIFICATION Spec
CONSTANTS
  i1 = i1
  guest = guest
  user = user
  admin = admin
  None = None
  Clients = {c1}
  Conversations = {v1, v2}
  Messages <- MCMessages
  Instances = {i1}
  HomeOf <- MCHome
  Buffer = 1
  Sessions = {s1, s2}
  Users = {user, admin}
  Admins = {admin}
  Guests = {guest}
  IdentityOf <- MCIdentity
  MaxRequests = 3
  MaxCrashes = 1
SYMMETRY Interchangeable
INVARIANT
  OneOpenConversation
CHECK_DEADLOCK FALSE
