------------------------------ MODULE MCScoreBoard ------------------------------
(* Finite instances of ScoreBoard for TLC.                                     *)
EXTENDS ScoreBoard, TLC

CONSTANTS s1, s2, s3

P(user, chara) == [user |-> user, chara |-> chara]
TwoPlayers == {P(1, 0), P(2, 0)}
MCSessions == {s1, s2, s3}
MCAccount == [s \in MCSessions |-> IF s = s3 THEN 2 ELSE 1]
MCPlays == {<<1, 1>>, <<2, 1>>, <<2, 2>>}
Twins == Permutations({s1, s2})
Normal(n) == [limit |-> n, force |-> FALSE, ascending |-> FALSE]
Timed(n) == [limit |-> n, force |-> TRUE, ascending |-> TRUE]
MCConfigs == {Normal(2), Timed(1)}
================================================================================
