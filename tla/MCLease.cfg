SPECIFICATION ClientSpec
CONSTANTS
  Operations = {o1}
  Others = {n1}
  Servers = {s1, s2, s3}
  Strangers = {x1}
  PidOf <- ReusedPid
  None = None
  o1 = o1
  o2 = o2
  n1 = n1
  s1 = s1
  s2 = s2
  s3 = s3
  x1 = x1
  pid1 = pid1
  pid2 = pid2
INVARIANTS
  NoSilentLeak
  CredentialStaysPinned
CHECK_DEADLOCK FALSE
