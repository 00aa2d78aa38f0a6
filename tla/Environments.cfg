CONSTANTS
  CleanerSize <- SmallCleaner
  ConnectorSize <- SmallConnector
  WarehouseSize <- SmallWarehouse
  ForagingSize <- SmallForaging
  JobShopSize <- SmallJobShop
  FleetSize <- SmallFleet
  MarlConfigs <- SmallMarlConfigs
  Games = {"Game2048", "Big2048", "Sokoban", "Snake", "Minesweeper", "SlidingTile", "Tetris",
           "RubiksCube", "GraphColoring", "Routing", "Cleaner", "Connector", "RobotWarehouse",
           "Foraging", "JobShop", "Fleet", "MiniGrid", "BabyAI", "BabyAIDone", "MarlGrid",
           "Atari"}
SPECIFICATION Spec
INVARIANTS BoardsStayWhole AgentsKeepApart
PROPERTY StepsFollowRules
