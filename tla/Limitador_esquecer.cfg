SPECIFICATION Spec
CONSTANTS
  i1 = i1
  i2 = i2
  i3 = i3
  p1 = p1
  p2 = p2
  p3 = p3
  Ocioso = Ocioso
  Pedidos = {p1, p2}
  Ips = {i1, i2}
  Ficha = 2
  Teto = 4
  MaxClientes = 1
  MaxRelogio = 3
PROPERTY EsquecerNaoMudaNada
