SPECIFICATION MCSpec
CONSTANTS
  Worlds = {"skey"}
  Pickers = {t1}
  Order <- Single
  CacheMax = 2
  Threshold = 1
  FullDepth = 4
  Interval = 2
  Wrap = 16
  Holders = {h1, h2}
  Pools = {p1, p2}
  Bits = 5
  Word = 4
  RealBlocks = 6
  Unit = 2
  Sizes = {1, 3, 5}
  Nums = {1, 3}
  MaxCreate = 3
  NoOne = NoOne
  Users = {u1, u2, u3}
  Layouts <- Reserved
  BlkSize = 2
  Stride = 3
  Wanted = 3
  MaxRun = 3
  MaxSkip = 1
  Width = 16
  StoreBuf = 3
  SmallOut = 2
  MaxSrc = 3
  MaxDst = 4
  MaxMade = 5
  MaxOut = 6
SYMMETRY Alike
INVARIANTS FullMeansBusy
