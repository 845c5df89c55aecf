---- MODULE MCDialMode ----
(* DialMode for TLC: three boxes and the code "10".                         *)
EXTENDS DialMode
AllReached == {Controls}
Finger(b)  == {<<(SquareSize + SquareMargin) * b + SquareMargin + SquareSize \div 2, 20>>}
Arm        == Finger(0) \cup Finger(2)
Hands      == {{}, {Finger(0)}, {Finger(1)}, {Finger(0), Finger(1)}, {Arm}}
OneZero    == <<1, 0>>
====
