------------------------------ MODULE MCFreedb ------------------------------
(***************************************************************************)
(* Freedb for TLC: a program that sends items of every kind, well and ill  *)
(* formed, and a session of freedb-cli.  The second request of the program *)
(* takes client->pos past CompactAt; the lines of the session stay below.  *)
(***************************************************************************)
EXTENDS Freedb

Ints == [type |-> "integer", word |-> NoBytes]
Arrays == [type |-> "array", word |-> NoBytes]
Errors(w) == [type |-> "error", word |-> w]

(* A set with an array for its value, a get whose name is sent as an error,*)
(* wrong arguments, an integer and nothing for a name, and no array at all.*)
(* The session sends the set and the get that are well formed.             *)
AppItems ==
  {Array(<<String("set"), String("a"), Arrays>>),
   Array(<<Errors("get"), String("a")>>),
   Array(<<String("get"), Ints>>),
   Array(<<Ints, String("a")>>), Array(<<>>), Scalar}

MCLengths == [u \in Users |-> IF u \in Clis THEN {1} ELSE {2}]
CliLines == {<<"set", "a", "b">>, <<"get", "a">>, <<>>}
ServerOps == {"set", "get"}
=============================================================================
