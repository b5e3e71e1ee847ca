------------------------------ MODULE MCKemOps ------------------------------
(***************************************************************************)
(* Three algorithms of one ML-KEM parameter set: two curves whose points   *)
(* have the same size, and RSA.  Keys: a pair of each, all sharing their   *)
(* ML-KEM component, another pair of the first algorithm, the public half  *)
(* of the first pair, one imported under the first algorithm's name on the *)
(* second's curve, and one with no component yet.                          *)
(***************************************************************************)
EXTENDS KemOps

MCAlgs == {"p256", "bp256", "rsa"}
MCAlgInfo == [a \in MCAlgs |-> [mlkem |-> "ml-kem", classic |-> a]]
MCRsa == {"rsa"}
MCSize == [t \in MCAlgs \union {"ml-kem"} |-> IF t = "ml-kem" THEN 17
                                              ELSE IF t = "rsa" THEN 4 ELSE 1]

Key(name, type, mlkem, classic, private) ==
    [name |-> name, mlkemType |-> "ml-kem", classicType |-> type,
     mlkem |-> mlkem, classic |-> classic, private |-> private]

MCKeyInfo ==
    [first  |-> Key("p256", "p256", "m1", "t1", TRUE),
     public |-> Key("p256", "p256", "m1", "t1", FALSE),
     second |-> Key("p256", "p256", "m1", "t2", TRUE),
     other  |-> Key("bp256", "bp256", "m1", "t3", TRUE),
     rsa1   |-> Key("rsa", "rsa", "m1", "t4", TRUE),
     rsa2   |-> Key("rsa", "rsa", "m2", "t5", TRUE),
     lax    |-> Key("p256", "bp256", "m1", "t3", TRUE),
     empty  |-> Key(NULL, NULL, NULL, NULL, FALSE)]

MCKeys == DOMAIN MCKeyInfo

=============================================================================
