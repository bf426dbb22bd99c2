CONSTANTS
  put = put
  get = get
  zero = zero
  storage = storage
  cache = cache
  small = small
  big = big
  wide = wide
  huge = huge
  None = None
  Services <- TwoServices
  MethodsOf <- TheirMethods
  RequestId <- Ids
  Data <- Bodies
  Size <- Length
  Hash <- Xxhash
  Packable <- PackedBy
  MinCompression <- Threshold
  MaxFlatbuffers <- Limit
  Statuses <- TwoStatuses
  OutChains <- Compressors
  InChains <- Decompressors
SPECIFICATION Spec
INVARIANTS
  StatusIsNotImposed
CHECK_DEADLOCK FALSE
