----------------------------- MODULE MCHttpGet -----------------------------
(* Instances of HttpGet for TLC: two hosts (numbers 10 and 20), one of them *)
(* allowed a private address by name, and a credential for a part of each.  *)
EXTENDS HttpGet
Urls        == {<<10, 1>>, <<20, 1>>, <<20>>}
NormalUrls  == Urls \ {<<20>>}
Credentials == {<<10>>, <<10, 1>>}
Servers(host) == IF host = 10 THEN {1, 2} ELSE {1}
=============================================================================
