---------------------------- MODULE HistoryStacks ----------------------------
(***************************************************************************)
(* The two stacks of an editing session and how store_history bounds them  *)
(* (editor_session.cpp).  An entry is any record with a byte estimate in   *)
(* its field cost.                                                         *)
(***************************************************************************)
EXTENDS Integers, SequencesExt

CONSTANTS
  MaxHistoryEntries,   (* SessionOptions::max_history_entries                  *)
  MaxHistoryBytes      (* SessionOptions::max_history_bytes                    *)

ASSUME HistoryLimitsAssumption ==
  MaxHistoryEntries \in Nat /\ MaxHistoryBytes \in Nat

VARIABLES undo_history, redo_history

Bytes(history) ==
  LET total[n \in 0 .. Len(history)] ==
        IF n = 0 THEN 0 ELSE total[n - 1] + history[n].cost
  IN  total[Len(history)]

(* Mutant: only the number of entries is bounded, not their bytes. *)
CountedEntriesOnly(history) == Len(history) <= MaxHistoryEntries

WithinLimits(history) ==
  /\ Len(history) <= MaxHistoryEntries
  /\ Bytes(history) <= MaxHistoryBytes

(* Entries are erased from the front until the rest fits or one is left:   *)
(* k is the first position from which it does.                             *)
TrimPoint(history, k) ==
  LET rest(j) == SubSeq(history, j, Len(history))
  IN  /\ k = Len(history) \/ WithinLimits(rest(k))
      /\ \A j \in 1 .. k - 1 : ~WithinLimits(rest(j))

(* Mutant: the newest entries make room for the new one, not the oldest. *)
StoreHistoryDroppingNewest(entry) ==
  /\ MaxHistoryEntries # 0
  /\ entry.cost <= MaxHistoryBytes
  /\ \E k \in 0 .. Len(undo_history) :
       LET next(n) == Append(SubSeq(undo_history, 1, n), entry)
       IN  /\ k = 0 \/ WithinLimits(next(k))
           /\ \A n \in k + 1 .. Len(undo_history) : ~WithinLimits(next(n))
           /\ undo_history' = next(k)
  /\ redo_history' = <<>>

(* store_history: an entry that can never fit is refused, and the command  *)
(* with it; otherwise the oldest entries make room and redo is dropped.    *)
StoreHistory(entry) ==
  /\ MaxHistoryEntries # 0
  /\ entry.cost <= MaxHistoryBytes
  /\ LET next == Append(undo_history, entry)
     IN  \E k \in 1 .. Len(next) :
           /\ TrimPoint(next, k)
           /\ undo_history' = SubSeq(next, k, Len(next))
  /\ redo_history' = <<>>
=============================================================================
