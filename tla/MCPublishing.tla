---------------------------- MODULE MCPublishing ----------------------------
(***************************************************************************)
(* Two callers, two keys, and the requests that differ for Publishing.     *)
(***************************************************************************)
EXTENDS Publishing

CONSTANTS c1, c2

MCCallers == {c1, c2}
MCUsers == {"owner", "other"}
MCKeys == {"old", "new"}
MCCatalogs == {"projects/a"}
MCStatuses == {307, 401}

Token(user, key, claims, named) == [user |-> user, key |-> key, claims |-> claims, named |-> named]
Good     == Token("owner", "old", TRUE, TRUE)
Newer    == Token("owner", "new", TRUE, FALSE)
Foreign  == Token("other", "old", TRUE, TRUE)
Expired  == Token("owner", "old", FALSE, TRUE)
MCTokens == {Good, Newer, Foreign, Expired}

Post(op, body, token, refresh) ==
  [op |-> op, body |-> body, token |-> token, refresh |-> refresh, catalog |-> "projects/a",
   job |-> None, limit |-> None, cursor |-> None]
Get(op, token, job, limit, cursor) ==
  [op |-> op, body |-> "valid", token |-> token, refresh |-> FALSE, catalog |-> None,
   job |-> job, limit |-> limit, cursor |-> cursor]

MCRequests ==
  {Post("publish", "malformed", Good, FALSE), Post("publish", "invalid", Good, FALSE),
   Post("publish", "valid", Good, TRUE),
   Post("remove", "valid", Newer, TRUE), Post("publish", "valid", Foreign, TRUE),
   Post("publish", "valid", Expired, TRUE), Post("publish", "valid", None, TRUE),
   Get("list", Good, None, 1, None), Get("list", Newer, None, 1, None),
   Get("summary", Good, 2, 1, None), Get("summary", Good, 1, 1, 0),
   Get("detail", Good, 1, 1, None), Get("raw", Newer, 1, 3, 1),
   Get("raw", Good, 1, 4, None)}

=============================================================================
