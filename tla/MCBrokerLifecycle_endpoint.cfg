SPECIFICATION FairSpec
CONSTANTS
  Clients = {c1, c2}
  Ghost = Ghost
  Nobody = Nobody
  Worlds = {TRUE, FALSE}
CHECK_DEADLOCK FALSE
INVARIANTS
  EndpointInv
PROPERTIES
  ImplementsSingleton
  StartersServed
