SPECIFICATION Spec
CONSTANTS
  a1 = a1
  a2 = a2
  a3 = a3
  junk = junk
  v1 = v1
  v2 = v2
  None = None
  Ips = {a1, a2, a3}
  Lowered <- MCLowered
  Files <- MCFiles
  EnvValues = {"unset", "blank", "bad", a3}
  HostForms = {"host", "host:port", "user@host"}
  Hosts <- MCHosts
  RequestHeaders <- MCRequestHeaders
  ResponseHeaders <- MCResponseHeaders
  Client = client
INVARIANTS
  TypeOK
  RoutedToItsCdn
  ListFollowsThePins
  HeadersFitTheHop
CHECK_DEADLOCK FALSE
