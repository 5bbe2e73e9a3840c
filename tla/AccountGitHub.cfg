\* Three webhooks about two accounts and one repository, one of them handled
\* twice, while a user links an installation and watches the repository.
SPECIFICATION FairSpec
CONSTANTS
  i1 = i1  i2 = i2  r1 = r1  u1 = u1
  Installation = {i1, i2}
  Repo = {r1}
  User = {u1}
  Watched = {"deleted"}
  MaxMessages = 3
  MaxFaults = 1
  None = None
CHECK_DEADLOCK FALSE
INVARIANTS TypeOK MirrorUnlessDisturbed GhostIsOnRecord SpentStateLinks
PROPERTIES WebhooksSettle
