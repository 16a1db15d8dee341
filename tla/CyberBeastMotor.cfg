SPECIFICATION Spec
CONSTANTS
  c1 = c1
  c2 = c2
  Callers = {c1, c2}
  Setups <- Threads
  MaxMishaps = 1
  MaxWire = 2
  MaxStart = 2
  MaxStuck = 2
  MaxRequests = 3
  MaxRestarts = 1
  MaxAsks = 2
 
PROPERTIES OkMeansExchanged OneMishapIsRecovered EveryCallReturns
