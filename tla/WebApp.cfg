SPECIFICATION WebSpec
CONSTANTS
  Keys = {"k1", "k2"}
  MaxIds = 2
  MaxCalls = 4
  Ids = {1, 2}
  Matching = {2}
  PageSize = 1
  MaxFetches <- MCMaxFetches
  Mems = {"a", "b"}
  Scopes = {"private", "shared"}
  MaxAsks = 5
  MaxElsewhere = 1
  Words = {"w1", "w2", "w3"}
  MaxEdits = 3
  Recalled = {"m1", "m2"}
  MaxProofs = 3
  MaxLocks = 2
  Projects = {"p1"}
  Wishes = {"w"}
  MaxSent = 5
INVARIANTS SomebodySignedIn PasswordKept ListSettled DeletedWasShown DetailTrue SavedKeepsTags ShownOnlyProved PrefsSettled TwiceOnlyMisled
CHECK_DEADLOCK FALSE
