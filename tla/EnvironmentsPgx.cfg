CONSTANTS
  CleanerSize <- SmallCleaner
  ConnectorSize <- SmallConnector
  WarehouseSize <- SmallWarehouse
  ForagingSize <- SmallForaging
  JobShopSize <- SmallJobShop
  FleetSize <- SmallFleet
  MarlConfigs <- SmallMarlConfigs
  Games = {"TicTacToe", "ConnectFour", "Hex", "Othello", "Go2", "Go3", "Chess", "AnimalShogi",
           "KuhnPoker", "LeducHoldem"}
SPECIFICATION Spec
INVARIANTS MasksFollowRules PositionsStaySound OutcomesFollowRules
PROPERTY MovesFollowRules
