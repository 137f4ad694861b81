SPECIFICATION Spec
CONSTANTS
  Hilos = {h1, h2, h3}
  Pedidos <- NewYCatch
  Respuestas <- SoloAppeared
  CuentaAntes <- SoloCatch
  Nadie = Nadie
INVARIANTS NadaRetenido AlguienAvanza
