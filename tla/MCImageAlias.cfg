SPECIFICATION ImageSpec
CONSTANTS
  Resolvers = {"a", "b", "c", "o"}
  OfflineOnes = {"o"}
  Tops = {"t1", "t2", "t3"}
  FirstTop = "t1"
  Index = {"t1", "t2"}
  Foreign = {"t3"}
  MaxEvents = 2
INVARIANT ImageIsTheTags
CHECK_DEADLOCK FALSE
