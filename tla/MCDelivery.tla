----------------------------- MODULE MCDelivery -----------------------------
(***************************************************************************)
(* A small instance of Delivery.  Request both rewrites a and b, dry is    *)
(* its dry run, full the same write under the full profile with an issued  *)
(* transaction, solo rewrites b again from what both left there, twin      *)
(* changes b twice, the first time to what it already holds.               *)
(***************************************************************************)
EXTENDS Delivery, TLC

MCPath == {"a", "b"}
MCContent == {"a1", "a2", "b1", "b2", "b3", "draft", "crlf"}
MCRequest == {"both", "dry", "full", "solo", "twin"}
Both == <<[path |-> "a", expected |-> "a1", result |-> "a2"],
          [path |-> "b", expected |-> "b1", result |-> "b2"]>>
MCChanges == [r \in MCRequest |->
    CASE r = "solo" -> <<[path |-> "b", expected |-> "b2", result |-> "b3"]>>
      [] r = "twin" -> <<[path |-> "b", expected |-> "b1", result |-> "b1"],
                         [path |-> "b", expected |-> "b1", result |-> "b3"]>>
      [] OTHER -> Both]
MCKey == [r \in MCRequest |-> r]
MCWrite == [r \in MCRequest |-> r # "dry"]
MCFull == [r \in MCRequest |-> r = "full"]
MCTransaction == [r \in MCRequest |-> IF r = "full" THEN "issued" ELSE "none"]
MCInitialFiles == [p \in MCPath |-> IF p = "a" THEN "a1" ELSE "b1"]
MCEdits == {<<"a", "draft">>, <<"b", "draft">>, <<"b", "b1">>, <<"b", Gone>>}
Workers == Permutations(Worker)
=============================================================================
