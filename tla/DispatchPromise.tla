-------------------------- MODULE DispatchPromise --------------------------
(***************************************************************************)
(* What the dispatcher promises about an issue, with nothing of how: at    *)
(* any time at most one dispatch holds it; the holder either lets go of it *)
(* untouched or settles it with one final result; a result is reported     *)
(* only once it is final, and only once.  TrackerDispatch implements this  *)
(* under every fault it models.                                            *)
(***************************************************************************)
EXTENDS Naturals

CONSTANTS Issues, Rows, NoRow

VARIABLES holder,  \* [Issues -> Rows or NoRow]
          result,  \* [Rows -> {"none", "done", "failed"}]
          told     \* [Rows -> Nat], reports made of the row's end

Init ==
  /\ holder = [i \in Issues |-> NoRow]
  /\ result = [r \in Rows |-> "none"]
  /\ told = [r \in Rows |-> 0]

Take(i, r) ==
  /\ holder[i] = NoRow
  /\ result[r] = "none" /\ \A j \in Issues : holder[j] # r
  /\ holder' = [holder EXCEPT ![i] = r]
  /\ UNCHANGED <<result, told>>

LetGo(i) ==
  /\ holder[i] # NoRow
  /\ holder' = [holder EXCEPT ![i] = NoRow]
  /\ UNCHANGED <<result, told>>

Settle(i, res) ==
  /\ holder[i] # NoRow
  /\ told[holder[i]] = 0
  /\ holder' = [holder EXCEPT ![i] = NoRow]
  /\ result' = [result EXCEPT ![holder[i]] = res]
  /\ \/ told' = [told EXCEPT ![holder[i]] = 1]
     \/ UNCHANGED told

Report(r) ==
  /\ result[r] # "none" /\ told[r] = 0
  /\ told' = [told EXCEPT ![r] = 1]
  /\ UNCHANGED <<holder, result>>

Next == \/ \E i \in Issues : \/ \E r \in Rows : Take(i, r)
                             \/ LetGo(i)
                             \/ \E res \in {"done", "failed"} : Settle(i, res)
        \/ \E r \in Rows : Report(r)

Spec == Init /\ [][Next]_<<holder, result, told>>
============================================================================
