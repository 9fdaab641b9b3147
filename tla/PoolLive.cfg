\* Three callers, one slot: starvation and lost slots would show.
CONSTANTS
  Callers = {c1, c2, c3}
  Transports = {t1}
  Conns = {k1}
  MaxRetries = 1
  Auth = "ntlm"
  None = None
SPECIFICATION Spec
PROPERTY CallsReturn
