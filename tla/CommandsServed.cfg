SPECIFICATION CommandsSpec
CHECK_DEADLOCK FALSE
CONSTANTS
  Default <- SmallDefault
  maxCachePolicies = 2
  maxCachePolicyPrefixBytes = 2
  maxCachePolicyTotalPrefixBytes = 3
  maxProxyCommandBytes = 14
  maxProxyCommandArgs = 6
  maxProxyMGetKeys = 3
  Text <- ThreeKeys
  RawBytes <- TwoBytesEach
  Words <- ShortWords
  ArgLists <- SomeArgs
  Files <- SomeFiles
  Envs <- SomeEnvs
INVARIANTS
  CopiesFollowCommands
  LongestPrefixDecides
  WidestMGetServed
