\* Three front ends brought up by init or init2 in a dynamic build, two of them in
\* a static build.
SPECIFICATION FairSpec
CONSTANTS
  aes = aes
  sm4 = sm4
  sm3 = sm3
  xts = xts
  gcm = gcm
  cipher = cipher
  digest = digest
  aead = aead
  Null = Null
  Users = {cipher, digest, aead}
  Drivers = {aes, sm4, sm3, xts, gcm}
  Available = {aes, sm4, xts, gcm}
  Switched = {xts}
  Name <- NameOf
  Class <- ClassOf
  Lib <- LibOf
  Wants <- ClassWanted
  Asks <- AskSec
  Own <- SecLib
  Programs <- OtherPrograms
  AlgCap = 2
  MaxNodes = 6
INVARIANTS  ListExact RefcntIsUsers
PROPERTIES DiscoveryEnds
\* In a static build both threads may have stopped at a freed node.
CHECK_DEADLOCK FALSE
