------------------------ MODULE MCWebAuthentication ------------------------
(* An instance of the authentication small enough for TLC.                 *)
EXTENDS WebAuthentication

CNonces == {"n1", "n2"}
CDigestOf == [n \in CNonces |-> IF n = "n1" THEN "d1" ELSE "d2"]
=============================================================================
