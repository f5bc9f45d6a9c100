CONSTANT Sources = {15}
SPECIFICATION IrqSpec
PROPERTY TickIsCounted
CHECK_DEADLOCK FALSE
