SPECIFICATION Spec
CONSTANTS
  Panes = {1, 2}
  Bindings = {f1, unbound}
  NoBinding = NoBinding
  MaxChanges = 4
PROPERTIES PanesShowBindings MemoryIsBounded
