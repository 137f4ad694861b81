SPECIFICATION Spec
CONSTANTS
  A = A
  B = B
  C = C
  Especies <- MCEspecies
  Casos <- MCCasosSobra
  QUANTUM = 1
  ALPHA = 50
  ESTIMACION_INICIAL = 5
INVARIANT NoSobraEspecie
CHECK_DEADLOCK FALSE
