SPECIFICATION Spec
CONSTANTS
  Accounts = {1, 2, 3}
  Posts <- TwoPosts
  Mentionable = {3}
  Voters = {3}
  Irredeemables = {}
  Pairs <- OnePair
  Rebloggers = {3}
  Moderators = {1}
  Reader = 1
  Limit = 1
  MaxCrashes = 2
  MaxNotifs = 2
INVARIANTS OnceEach CachedIsTold WalkComplete
