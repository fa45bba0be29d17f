---- MODULE MCHashTable ----
EXTENDS HashTable, TLC
CONSTANTS key_a, key_b, key_c
MCHash == (key_a :> 3) @@ (key_b :> 3) @@ (key_c :> 99)
MCClasses == <<3, 15>>
====
