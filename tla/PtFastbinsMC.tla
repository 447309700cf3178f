----------------------------- MODULE PtFastbinsMC -----------------------------
EXTENDS PtFastbins

CONSTANTS s1, s2, s3, l1

(* Three chunks of the smallest size, one of the next. *)
MCIndex == [x \in Chunks |-> IF x = l1 THEN 1 ELSE 0]

(* None, one or two chunks in the first bin. *)
MCStarts == {[i \in Bins |-> IF i = 0 THEN list ELSE <<>>] : list \in {<<>>, <<s1>>, <<s1, s2>>}}
===============================================================================
