------------------------------ MODULE MCLuciUci ------------------------------
EXTENDS LuciUci

CONSTANTS s1, s2, a

Order == <<s1, s2>>
Package == [s \in Sid |-> IF s = s1 THEN [o \in Opt |-> a]
                          ELSE IF s = s2 THEN NoOptions ELSE Nil]
=============================================================================
