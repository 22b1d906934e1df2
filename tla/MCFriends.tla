------------------------------- MODULE MCFriends -------------------------------
(* Finite instances of Friends for TLC.                                      *)
EXTENDS Friends, TLC

CONSTANTS a, b, s1, s2, s3

MCUsers == {a, b}
MCAdmins == {a}

(* Two connections of a, who is an administrator and may hide in one of them *)
(* and one of b.                                                             *)
Login(s, u, hidden) == [session |-> s, user |-> u, hidden |-> hidden]
ThreeLogins == {Login(s1, a, FALSE), Login(s2, a, FALSE), Login(s2, a, TRUE), Login(s3, b, FALSE)}
ThreeSessions == {s1, s2, s3}
ThreeAsk ==
    {<<s1, c>> : c \in Commands \cup {"delete"}}
    \cup {<<s2, "remove">>, <<s2, "delete">>, <<s3, "add">>, <<s3, "block">>}

(* Two connections of anybody.                                               *)
TwoSessions == {s1, s2}
TwoLogins == {Login(s, u, hidden) : s \in TwoSessions, u \in MCUsers, hidden \in BOOLEAN}
TwoAsk == TwoSessions \X Commands
================================================================================
