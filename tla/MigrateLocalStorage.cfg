SPECIFICATION FairSpec
CONSTANTS
  Keys = {a1, a2}
  Avatars = {a1, a2}
  Users = {u1}
  Runs = {m1}
  None = None
  External = External
  MaxChanges = 2
  MaxFaults = 1
INVARIANTS AvatarsResolve DoneMeansCopied
PROPERTIES OwnAvatarKept EventuallyRepointed
CHECK_DEADLOCK FALSE
