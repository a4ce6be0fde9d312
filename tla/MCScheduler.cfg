\* Two slots over every table of these registrations, runcounts of two bits, six ticks
\* landing anywhere in the dispatch passes.
CONSTANTS
  NSlot = 2
  RunMod = 4
  Registrations <- Registered
  MaxTicks = 6
  Concurrent = TRUE
SPECIFICATION FairSpec
INVARIANTS NoEventLost OnCadence OneShotOnce
PROPERTY DueRuns
