SPECIFICATION MCSpec
CONSTANTS
  U64Max = 3000
  Markets <- MCMarkets
  V3States <- MCV3States
  Amounts = {1, 2, 5, 9, 30, 200}
  MaxSwaps = 2
  Q = 512
  MinTick <- MCMinTick
  MaxTick = 4
  SqrtPrice <- MCSqrtPrice
  FeeUnit = 1000
  FeeCap = 100
  Damping = 20000000
  StepBudget = 4
  ArraySize = 3
  ClmmPools <- MCClmmPools
  Whirlpools <- MCWhirlpools
  DlmmPools <- MCDlmmPools
  WalkAmounts = {1, 3, 8, 20, 60}
  MaxWalks = 2
  TickArraySize = 3
  WhirlpoolArrays = 2
  SearchAsks <- MCSearchAsks
  SearchSlippage = 1000
  Requests <- MCRequests
  Wallets <- MCWallets
  Rates = {1, 3}
  Slippage = 2500
  RealReserve = 12
  PoolTakes <- MCPoolTakes
  MaxTrades = 2
  MintFee <- MCMintFee
  CurveFees <- MCCurveFees
  Usdc = "U"
  FullSupply = 300
  Wsol = "W"
  RouteHops = 3
  PathLimit = 3
  FrontierLimit = 6
  ProbeShare = 4
  Rent = 2
  RouteWorlds <- MCWorlds
  RouteAsks <- MCAsks
  RouteWallets <- MCRouteWallets
  Moving = {1, 6}
  MaxSlots = 1
  FeeWidth = 60
  ShareRates = {300000, 1000000}
  FirstPool <- MCFirstPool
  Accrual = 3
  LongestAge = 1
  MaxFeeSlots = 2
  MaxWrites = 2
INVARIANTS
  QuotesHold
  WalksHold
  ArraysSuffice
  TradeDoesWhatWasAsked
  AccountsInOrder
  RoutesHold
  CollectionPaysAsSaid
PROPERTIES
  PoolNeverLoses
  EveryWalkEnds
