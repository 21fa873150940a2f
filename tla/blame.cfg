\* Parties of two, three and four nodes; key generation, and a batch of two signatures.
CONSTANTS
  p1 = p1
  p2 = p2
  q1 = q1
  q2 = q2
  q3 = q3
  Parties <- MCParties
  Batch <- MCBatch
  Faulty = {p1}
  Local = Local
  None = None
SPECIFICATION Spec
SYMMETRY PeerSymmetry
INVARIANT BlamedIsBehind
INVARIANT SilentIsBlamed
CHECK_DEADLOCK FALSE
