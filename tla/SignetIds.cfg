SPECIFICATION Spec
CONSTANTS
  MaxLife = 2  MaxId = 4  MaxInt = 3  
  Worker = {jetstream, http}
SYMMETRY Symmetry
INVARIANTS TypeOK IdsGoOn WrongSignetOnlyAfterLoss
CHECK_DEADLOCK FALSE
