---- MODULE MCThreadPool ----
(* ThreadPool for TLC: two clients, whose tasks add tasks.                  *)
EXTENDS ThreadPool, TLC
CONSTANTS c1, c2, r1, r2, a, b, a1, a2, d, e, f

AllTasks == {r1, r2, a, b, a1, a2, d, e, f}
Tree == [k \in AllTasks |->
           CASE k = r1 -> <<a, b>> [] k = a -> <<a1, a2>> [] k = a1 -> <<f>>
             [] k = r2 -> <<d>> [] k = d -> <<e>>
             [] OTHER -> <<>>]
Programs == c1 :> r1 @@ c2 :> r2
OneByOne == {r2, a1}   \* wait for their tasks by id
Leaves   == {a}        \* does not wait for a1 and a2
====
