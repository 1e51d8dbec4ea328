---------------------------- MODULE MCIntervalTree ----------------------------
EXTENDS IntervalTree

Source(type, size, pc_, mutex) == [type |-> type, size |-> size, pc |-> pc_, mutex |-> mutex]
At(addrs, src) == {[addr |-> x, src |-> src] : x \in addrs}

(* A loop that writes elements of two bytes, a read of two elements at     *)
(* once, a protected read of one byte of an element and an atomic write.   *)
MCAccesses ==
  At({0, 2, 4}, Source("unsafe_write", 2, 1, {}))
  \cup At({0}, Source("unsafe_read", 4, 2, {}))
  \cup At({2}, Source("unsafe_read", 1, 3, {1}))
  \cup At({2}, Source("atomic_write", 2, 4, {1}))

MCMaxLoad == <<3, 2, 1>>
=============================================================================
