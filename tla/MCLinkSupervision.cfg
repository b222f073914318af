\* Two modes; every call that can fail may fail at any time.
SPECIFICATION FairSpec
CONSTANTS
  Modes = {fast, slow}
  Failures = {"mutex", "interrupt", "state", "bus"}
INVARIANTS
  NeverDeaf
  FollowsWhenSettled
PROPERTIES
  FollowsInTheEnd
