SPECIFICATION Spec
CONSTANTS
  TAMANO_MEMORIA = 16
  TAMANO_MINIMO_PARTICION = 4
  Configuraciones <- PrimeraFIFO
  Potencias <- Potencias16
  TamanosMensaje <- Tamanos16
  MaxMensajes = 4
  MaxEnvios = 0
INVARIANTS HayVictima
