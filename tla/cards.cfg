SPECIFICATION Spec
CONSTANT Deals <- MCDeals
INVARIANTS  OrderDecides SpecialIsBest TriplesAgree
