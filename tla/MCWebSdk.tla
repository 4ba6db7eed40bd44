------------------------------ MODULE MCWebSdk ------------------------------
(* Model-checking instance of WebSdk: a small and a large image, so that the  *)
(* source buffer grows, three calls in two reading orders, and one error of   *)
(* the worker, which lets an answer come after its request was given up.      *)
EXTENDS WebSdk

MCImages == {"small", "large"}
MCByteLength == [image \in MCImages |-> IF image = "small" THEN 3 ELSE 12]
MCReadingOrders == {0, 1}
MCDefaultOrder == 0
MCMaxCalls == 3
MCMaxErrors == 1
==============================================================================
