SPECIFICATION Spec
CONSTANTS
  dev = dev
  bossMail = bossMail
  Requests = {p1, p2, p3}
  Accounts = {u0, u1, u2}
  People = {boss, twin, dev}
  Emails = {bossMail, oldMail, newMail}
  AddressesOf <- MCAddressesOf
  RoleField = {"", "owner", "user", "admin"}
  Root = u0
  RootEmail = bossMail
  AutoProvision = TRUE
  None = None
SYMMETRY Symmetry
INVARIANTS
  TypeOK
  OneAccountPerPerson
  SessionsFitAddress
  DisabledStayOut
CHECK_DEADLOCK FALSE
