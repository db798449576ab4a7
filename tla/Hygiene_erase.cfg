\* The documented erasure of keys from the heap.
SPECIFICATION Spec
INVARIANT KeysAreErased
