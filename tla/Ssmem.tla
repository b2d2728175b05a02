------------------------------- MODULE Ssmem -------------------------------
(***************************************************************************)
(* The allocator of the benchmarks' objects (ssmem, a library), as its     *)
(* header describes it (include/ssmem.h): a call of ssmem_alloc or of      *)
(* ssmem_free says that its thread has dropped what it read before, and an *)
(* object is handed out again when all have said so since it was freed.    *)
(***************************************************************************)
EXTENDS Integers

CONSTANTS Threads,
          Objects    \* bound: the memory

VARIABLES used,     \* objects that have been handed out and not freed
          readers,  \* readers[o]: threads that may read o, freed, yet
          content   \* content[o]: the key that was last written to o

memory == <<used, readers, content>>

Null == 0           \* no object, and no key

MemoryInit ==
  /\ used = {}
  /\ readers = [o \in Objects |-> {}]
  /\ content = [o \in Objects |-> Null]

Available == {o \in Objects \ used : readers[o] = {}}
Dropped(t, r) == [o \in Objects |-> r[o] \ {t}]

(* The thread writes the key k to its new object.                          *)
Alloc(t, o, k) ==
  /\ o \in Available
  /\ used' = used \cup {o}
  /\ readers' = Dropped(t, readers)
  /\ content' = [content EXCEPT ![o] = k]

Free(t, o) ==
  /\ used' = used \ {o}
  /\ readers' = Dropped(t, [readers EXCEPT ![o] = Threads])
  /\ UNCHANGED content

(* ssmem_free(old) if there is an old object, then ssmem_alloc.            *)
Exchange(t, old, o, k) ==
  /\ o \in Available
  /\ used' = (used \ {old}) \cup {o}
  /\ readers' = Dropped(t, [u \in Objects |-> IF u = old THEN Threads
                                                         ELSE readers[u]])
  /\ content' = [content EXCEPT ![o] = k]
=============================================================================
