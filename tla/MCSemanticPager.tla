-------------------------- MODULE MCSemanticPager --------------------------
(***************************************************************************)
(* A small instance of SemanticPager: two pages that fit one by one, and   *)
(* together only as long as the first has not grown.                       *)
(***************************************************************************)
EXTENDS SemanticPager

MCContent == {"old", "new"}
MCSize == [c \in MCContent |-> IF c = "old" THEN 1 ELSE 2]
MCInitialSource == [k \in Key |-> "old"]
MCRequests == {<<"get", None>>, <<"get", "old">>, <<"get", "new">>,
               <<"lease", None>>, <<"prefetch", None>>}
MCEdits == {<<CHOOSE k \in Key : TRUE, "new">>}
=============================================================================
