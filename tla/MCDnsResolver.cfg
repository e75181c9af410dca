SPECIFICATION FairSpec
CONSTANTS
  Names = {n1, n2, n3}
  Ips = {ip1, ip2}
  NoName = NoName
  NoIp = NoIp
  MaxDepth = 2
INVARIANTS ResolvesRight CacheIsRight
PROPERTIES ResolutionEnds
