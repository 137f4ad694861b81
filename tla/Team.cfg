SPECIFICATION FairSpec
CONSTANTS
  A = A
  B = B
  C = C
  Especies <- MCEspecies
  Casos <- MCCasos
  QUANTUM = 1
  ALPHA = 50
  ESTIMACION_INICIAL = 5
INVARIANTS TypeOK NadieVarado ObjetivosNoPerdidos NadaSePierde ParejaEntera 
PROPERTIES IntercambioSirve Termina Reconecta
CHECK_DEADLOCK FALSE
