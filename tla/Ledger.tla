------------------------------- MODULE Ledger -------------------------------
(***************************************************************************)
(* What a book promises to the broker, the trader and the connections      *)
(* (src/src/common/book.h): a list of entries that grows at its end, where *)
(* an entry is replaced under its own id and no other entry changes.       *)
(***************************************************************************)
EXTENDS Naturals, Sequences

CONSTANT Values

VARIABLE entries    \* the entry with id i is entries[i + 1]

Init == entries = <<>>

AddEntry(v) == entries' = Append(entries, v)

UpdateEntry(id, v) ==
    /\ id + 1 \in DOMAIN entries
    /\ entries' = [entries EXCEPT ![id + 1] = v]

Next ==
    \E v \in Values :
        AddEntry(v) \/ \E i \in DOMAIN entries : UpdateEntry(i - 1, v)

Spec == Init /\ [][Next]_entries
=============================================================================
