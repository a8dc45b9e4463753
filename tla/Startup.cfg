SPECIFICATION StartupSpec
CONSTANTS
  Instances = {i1, i2, i3}
  Users = 4
  Self = i1
  Requests = {r1}
INVARIANTS SeedTypeOK OneSeeder SeededInOrder LinkTypeOK
PROPERTIES AbandonedForGood EveryUserSeeded StopsCalling ComesBack ServesAnyway
