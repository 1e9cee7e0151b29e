SPECIFICATION FairSpec
CONSTANTS
  Segments = {avatars, documents}
  Documents = documents
  Buckets = {staging, public}
  PublicRead = {public}
  Unset = Unset
  Clients = {c1, c2}
  Users = {u1, u2}
  NoToken = NoToken
  BadToken = BadToken
INVARIANTS DocumentsStayPrivate ListedIsServed ServesOnlyAnswered EventsReachTheirUser
PROPERTIES Settles
