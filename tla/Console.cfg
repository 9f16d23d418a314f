SPECIFICATION Spec
CONSTANTS
  Clients = {c1, c2}
  Workers = {w1}
  Slots = 1
  Page = 2
  MaxEvents = 4
INVARIANTS StreamContinuous
PROPERTIES EventsArrive SlotsComeBack
