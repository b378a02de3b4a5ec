CONSTANTS
  alice = alice
  bob = bob
  phone = phone
  laptop = laptop
  kiosk = kiosk
  k1 = k1
  k2 = k2
  k3 = k3
  home = home
  NoSession = NoSession
  Clients <- MCClients
  EntityOf <- MCEntityOf
  AgentOf <- MCAgentOf
  Calls <- MCCalls
  IPs <- MCHome
  Ports <- MCPorts
  Roaming <- MCRoaming
  Failures <- MCNone

SPECIFICATION Spec

SYMMETRY MCSymmetry

PROPERTY SameIPAccepted
