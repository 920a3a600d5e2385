SPECIFICATION Spec
CONSTANTS
  Calls = {"a1", "a2", "a3", "a4"}
  Prepared = {"p1", "p2", "p3"}
  PreparedOf <- MCPreparedOf
  SessionOf <- MCSessionOf
  NoSession = "none"
  MaxTurns = 2
CHECK_DEADLOCK FALSE
INVARIANTS TablesAgree OneBindingPerSession SpokenIsPosted
