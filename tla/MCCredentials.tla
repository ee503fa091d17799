----------------------------- MODULE MCCredentials -----------------------------
(***************************************************************************)
(* The files a first start may find: none, one edited by hand with or      *)
(* without an older token, and one with a regular expression in single     *)
(* quotes.                                                                 *)
(***************************************************************************)
EXTENDS Credentials

PlainFiles == {Blank("missing"), Blank("edited"), File("saved", 1, "plain")}
RegexFiles == {File("saved", None, "escaped")}
AnyFiles == PlainFiles \cup RegexFiles
===============================================================================
