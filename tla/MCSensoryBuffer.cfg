\* Room for 2 of up to 4 messages, and a clock that can expire a message twice over.
CONSTANTS
  Capacity = 2
  Ttl = 2
  MaxTime = 6
  MaxAdds = 4
SPECIFICATION Spec
INVARIANTS
  TypeOK
  ItemsAreLive
