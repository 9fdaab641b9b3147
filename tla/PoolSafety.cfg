\* Three callers contend for two slots, one retry, NTLM.
CONSTANTS
  Callers = {c1, c2, c3}
  Transports = {t1, t2}
  Conns = {k1, k2}
  MaxRetries = 1
  Auth = "ntlm"
  None = None
SPECIFICATION SafetySpec
SYMMETRY Symmetry
INVARIANTS SlotsConserved HandshakesNotInterleaved ConnectionsKeptApart
PROPERTY ImplementsSemaphore
