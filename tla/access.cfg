\* Two clients, with and without OverridePasword; deaths at any step; each call to
\* the store fails at most once, the launch of core-ui until failures come to an end.
\* Five passwords: one is always fresh.
CONSTANTS
  c1 = c1  c2 = c2
  p1 = p1  p2 = p2  p3 = p3  p4 = p4  p5 = p5
  Client = {c1, c2}
  Password = {p1, p2, p3, p4, p5}
  Override = Override
  Options = {TRUE, FALSE}
  Faults = {"load", "save", "launch"}
  None = None
SPECIFICATION FairSpec
INVARIANTS
  TypeOK
  PasswordLasts
  QrCodeOpens
PROPERTIES
  PasswordKept
  ScannedGetsIn
