\* wd_cipher_init asks for hisi_sec2 while another cipher driver is loaded.
SPECIFICATION FairSpec
CONSTANTS
  aes = aes
  sm4 = sm4
  sm3 = sm3
  xts = xts
  gcm = gcm
  cipher = cipher
  digest = digest
  aead = aead
  Null = Null
  Users = {cipher, digest}
  Drivers = {aes, xts}
  Available = {aes, xts}
  Switched = {xts}
  Name <- NameOf
  Class <- ClassOf
  Lib <- LibOf
  Wants <- ClassWanted
  Asks <- AskSec
  Own <- SecLib
  Programs <- MixedPrograms
  AlgCap = 2
  MaxNodes = 5
PROPERTIES DiscoveryEnds
CHECK_DEADLOCK FALSE
