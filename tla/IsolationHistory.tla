-------------------------- MODULE IsolationHistory --------------------------
(***************************************************************************)
(* The input node's record of which of the last updates were isolated      *)
(* (isolation_history_queue and isolation_count of src/input_node.cpp).    *)
(* The source keeps it to choose between two ways of processing a batch;   *)
(* the choice is switched off, so nothing reads the record now.            *)
(***************************************************************************)
EXTENDS Integers, Sequences, FiniteSets

CONSTANT BatchSize

VARIABLES
  history,   \* isolation_history_queue
  count      \* isolation_count

vars == <<history, count>>

HistorySize == 2 * BatchSize

Isolations(s) == Cardinality({i \in DOMAIN s : s[i]})

Init ==
  /\ history = [i \in 1 .. HistorySize |-> TRUE]
  /\ count = HistorySize

\* A batch in which the greedy pass found its first isolated update: the
\* accepted updates before it, then the refreshed ones from it on, each of
\* them isolated or not.  A batch without isolated updates records nothing.
ProcessBatch(accepted, refreshed) ==
  LET new == [i \in 1 .. accepted |-> TRUE] \o refreshed
      popped == SubSeq(history, 1, Len(new))
  IN  /\ history' = SubSeq(history \o new, Len(new) + 1, HistorySize + Len(new))
      /\ count' = count - Isolations(popped) + Isolations(refreshed)

Next ==
  \E accepted \in 0 .. BatchSize - 1 :
    \E n \in 1 .. BatchSize - accepted :
      \E refreshed \in [1 .. n -> BOOLEAN] :
        refreshed[1] /\ ProcessBatch(accepted, refreshed)

Spec == Init /\ [][Next]_vars

\* isolation_count is the number of isolated updates among the last ones, which
\* the rule "less than 1/10 of the last updates are isolated" compares.
CountsIsolations == count = Isolations(history)
=============================================================================
