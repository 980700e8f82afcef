-------------------------- MODULE MCThrottledRead --------------------------
(***************************************************************************)
(* Two reads that share one slot, two URLs of one host and two of others,  *)
(* for ThrottledRead.                                                      *)
(***************************************************************************)
EXTENDS ThrottledRead

CONSTANTS r1, r2

MCReads == {r1, r2}
MCAttempts == [r \in MCReads |-> IF r = r1 THEN 3 ELSE 2]
MCUrls == {"http://a", "https://a/x", "https://10.1.1.1/", "https://b"}
MCHost ==
  [u \in MCUrls |-> CASE u \in {"http://a", "https://a/x"} -> "a" [] u = "https://b" -> "b" [] OTHER -> "10.1.1.1"]
MCWellformed == MCUrls \ {"https://10.1.1.1/"}
MCLiteral == {"https://10.1.1.1/"}

=============================================================================
