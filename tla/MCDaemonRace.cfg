SPECIFICATION Spec
CONSTANTS
  Node <- FunnelNode
  Adj <- FunnelAdj
  Sybil <- SybilTwoFive
  Flows <- OneToFive
  Routing = "scored"
  TTL = 3
  Redundancy = 2
  LinkRetries = 0
  Receipts = TRUE
  Faults = {"packet_loss", "receipt_loss", "corrupt"}
  Timely = FALSE
  MaxPackets = 1
INVARIANT TypeOK
INVARIANT PathShape
INVARIANT ConfirmedChain
INVARIANT VerdictAccounting
INVARIANT DeliveredExactlyOnce
PROPERTY ImplementsContract
INVARIANT ExposureExact
