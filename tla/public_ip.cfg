SPECIFICATION Spec
CONSTANTS
  Addresses = {"home", "hotel"}
  MaxBacklog = 3
INVARIANTS TypeOK RequestOnItsWay
PROPERTIES Answered AddressConverges
