SPECIFICATION CacheSpec
CONSTANTS
  Clients <- MCClients
  Pods <- MCPods
  Configs <- MCConfigs
  TTL = 1
  LocalTTL = 2
  Timeout = 1
  MaxWrites = 2
  MaxFaults = 1
  AccessTokenTTL = 3
  RefreshTokenTTL = 4
  Leeway = 1
  sessionActiveCacheTTL = 2
INVARIANT LocalPromise
