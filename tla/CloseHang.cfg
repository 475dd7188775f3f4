SPECIFICATION ConnSpec
CONSTANT EnablePing = FALSE
PROPERTY CloseReturns
CHECK_DEADLOCK FALSE
