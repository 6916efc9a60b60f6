CONSTANTS
  Requests = {r1, r2}
  Server = Server
  Programs = {"test_cgi", "test_cgi_zero", "shell_cgi", "not_executable"}
  Cap = 1
  MaxFds = 7
  MaxBody = 2
SPECIFICATION Spec
INVARIANTS TypeOK CodeTellsOutcome NoPhantomBody FdsAccounted
PROPERTIES AllFinish
CHECK_DEADLOCK FALSE
