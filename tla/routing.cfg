\* Two processes and three jobs, on GitHub, on GitLab, or on a host without a client.
SPECIFICATION Spec
CONSTANTS
  Processes = {p1, p2}
  Hosts = {github, gitlab, azure}
  Default = github
  Configured = {gitlab}
  Jobs = {j1, j2, j3}
  None = None
  MaxThrows = 1
  MaxRestarts = 1
INVARIANTS EveryHostIsServed
CHECK_DEADLOCK FALSE
