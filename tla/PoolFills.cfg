SPECIFICATION PoolSpec
CONSTANTS
 Pools={p1}
 ReservationIds={r1,r2,r3}
 AddressCount=4
 Allocators={c1}
CHECK_DEADLOCK FALSE
PROPERTIES PoolFills
