SPECIFICATION CompileSpec
CONSTANTS
  DepthLimit = 3
  MaxDepth = 20
  MaxJsonDepth = 3
  MaxTokens = 6
  Alphabets = {{"x", "1", "!", "<", "==", "&&", "||", "(", ")", "unknown"}, {"x", "join(", "case(", ",", ")", "[", "]", ".p", "||"}, {"x", "1", "[*]", ".*", ".p", "always(", "nosuch(", ")", "("}}
  Jobs <- MCJobs
  Roots <- MCRoots
  RunRoots <- MCRunRoots
  NeedIds <- MCNeedIds
  Effects <- MCEffects
INVARIANTS
  
  ParserIsExact
  GraphIsExact
  
  LegsFollowTheRule
  EventFollowsFilters
  ActionsAreExact
  InputsAreExact
CHECK_DEADLOCK FALSE
