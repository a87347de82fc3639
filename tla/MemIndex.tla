----------------------------- MODULE MemIndex -----------------------------
(***************************************************************************)
(* The in-memory index of the demuxer (src/uflv/gstmemindex.c on top of    *)
(* src/uflv/gstindex.c).  The index is the sequence of its associations in *)
(* the order they were added: memindex->associations holds them newest     *)
(* first, and each format has a balanced tree of them by value.  An entry  *)
(* maps a time to a byte position and is or is not a key unit.  There is   *)
(* one writer, the demuxer, so that the ids all agree.                     *)
(*                                                                         *)
(* A tree holds one node per value.  Adding a second entry with the value  *)
(* of a node replaces what the node stands for but not the key it is found *)
(* by, so that an exact hit gives the newest entry of a value and a near   *)
(* one the oldest.                                                         *)
(***************************************************************************)
EXTENDS Integers, Sequences, FiniteSetsExt

Formats == {"time", "pos"}
Entries == [time : Nat, pos : Nat, key : BOOLEAN]

\* An entry's number stands for the pointer to it; there is no entry 0.
NULL == 0

\* Entries are added one after the other.
gst_mem_index_add_associations(index, entries) == index \o entries

Holders(index, format, value) ==
  {i \in DOMAIN index : index[i][format] = value}

Values(index, format) == {index[i][format] : i \in DOMAIN index}

Oldest(index, format, value) == Min(Holders(index, format, value))

\* g_tree_search with mem_index_search.
Search(index, method, format, value) ==
  LET lower == {v \in Values(index, format) : v < value}
      higher == {v \in Values(index, format) : v > value}
  IN IF value \in Values(index, format) THEN Max(Holders(index, format, value))
     ELSE IF method = "BEFORE" /\ lower # {} THEN Oldest(index, format, Max(lower))
     ELSE IF method = "AFTER" /\ higher # {} THEN Oldest(index, format, Min(higher))
     ELSE NULL

\* From an entry that is no key unit the list is walked, to older entries for
\* BEFORE and to newer ones for AFTER.  A walk that meets no key unit leaves
\* the last entry it looked at.
Walk(index, method, i) ==
  LET keys == {j \in DOMAIN index : index[j].key}
      older == {j \in keys : j <= i}
      newer == {j \in keys : j >= i}
  IN IF method = "BEFORE"
     THEN IF older # {} THEN Max(older) ELSE 1
     ELSE IF newer # {} THEN Min(newer) ELSE Len(index)

\* flags is TRUE for GST_ASSOCIATION_FLAG_KEY_UNIT, FALSE for none.
gst_mem_index_get_assoc_entry(index, method, flags, format, value) ==
  LET entry == Search(index, method, format, value) IN
  IF entry = NULL \/ ~flags \/ index[entry].key THEN entry
  ELSE IF method = "EXACT" THEN NULL
  ELSE Walk(index, method, entry)

===========================================================================
