SPECIFICATION Spec
CONSTANTS
  Requests = {r1, r2, r3}
  Users = {alice, bob}
  Owner = alice
  Root = root
  Key = key
  Invite = invite
  a1 = a1
  a2 = a2
  b1 = b1
  hostA = hostA
  hostB = hostB
  Urls <- MCUrls
  HostOf <- MCHostOf
  Usable <- MCUsable
  None = None
SYMMETRY Symmetry
CHECK_DEADLOCK FALSE
INVARIANTS TypeOK SpentOnce CredentialsMatchHost HandlesAgree GrantsStand CeremonyHasSession ResetEndsSessions
PROPERTIES NewestVerifies
