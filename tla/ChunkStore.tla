----------------------------- MODULE ChunkStore -----------------------------
(***************************************************************************)
(* What a splitter promises about the chunks it is given, without a single *)
(* chunk index.                                                            *)
(*                                                                         *)
(* Splitting a message produces an ordered list of chunks (the records of  *)
(* the file) and numbered entries, each of which says "this chunk belongs  *)
(* at that place of the message".  Adding a chunk fixes its entry for      *)
(* good: whatever is added later, and wherever it is inserted, the entry   *)
(* keeps naming the same chunk.  A number may be skipped: that of an entry *)
(* that could not be finished.  The base chunk, the message itself, is the *)
(* chunk the merge starts from.                                            *)
(*                                                                         *)
(* CppSplitter and PySplitter implement this with positions in a list that *)
(* move when a chunk is inserted before them; each is checked to refine    *)
(* this module under the mapping its own comment gives.                    *)
(***************************************************************************)
EXTENDS Naturals, Sequences, SequencesExt

CONSTANTS
    Chunk,      \* the chunks a splitter can be handed
    Base,       \* the chunk that is the user's message itself
    Tag,        \* places in the message
    EntryId,    \* the numbers of the entries
    None        \* no chunk

VARIABLES
    store,      \* the chunks in file order
    entries,    \* what belongs where: a function from numbers of entries
    base,       \* the chunk the merge starts from: Base, or None
    returned    \* Split has returned the two lists to a caller

storeVars == <<store, entries, base, returned>>

Init == /\ store \in {<<>>, <<Base>>}
        /\ entries = <<>>
        /\ base = IF store = <<>> THEN None ELSE Base
        /\ returned = FALSE

\* The message becomes the first chunk: only while there is no other chunk.
SetBase == /\ store = <<>>
           /\ store' = <<Base>>
           /\ base' = Base
           /\ UNCHANGED <<entries, returned>>

\* A chunk is inserted somewhere and its entry goes behind the other entries.
Add(t, c) == /\ \E i \in 1..(Len(store) + 1) : store' = InsertAt(store, i, c)
             /\ \E n \in EntryId :
                   /\ \A k \in DOMAIN entries : k < n
                   /\ entries' = [k \in DOMAIN entries \union {n} |->
                                    IF k = n THEN [tag |-> t, chunk |-> c] ELSE entries[k]]
             /\ UNCHANGED <<base, returned>>

\* The two lists are handed out.  They are the splitter's own: what is added
\* afterwards is seen through them.
Return == /\ ~returned
          /\ returned' = TRUE
          /\ UNCHANGED <<store, entries, base>>

Next == \/ SetBase
        \/ \E t \in Tag, c \in Chunk : Add(t, c)
        \/ Return

Spec == Init /\ [][Next]_storeVars
=============================================================================
