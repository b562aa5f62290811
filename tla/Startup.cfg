\* All machines, command lines and documents of MCStartup
CONSTANTS
  Machines <- SmallMachines
  CommandLines <- SmallCommandLines
  Documents <- SmallDocuments
  Keys <- SmallKeys
  Default <- Defaults
SPECIFICATION Spec
INVARIANTS
  MatrixIsProduct
  KeysAccounted
  NearRunsNear
  FarRunsFar
