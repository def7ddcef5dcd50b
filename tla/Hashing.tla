------------------------------ MODULE Hashing -------------------------------
(* What the hash map, the hash set and the void hash table are given.       *)
CONSTANTS
  Keys,             \* the keys the program stores, the elements of the set
  Values,           \* the values: for the map indices, so natural numbers
  Hash,             \* hash_function, as a function of the key
  InitialCapacity,  \* the capacity of a new map, 16 in the source
  SizeofSizeT       \* sizeof(size_t), 8 in the build
=============================================================================
