--------------------------- MODULE MCConnectRouting ---------------------------
EXTENDS ConnectRouting, TLC

CONSTANTS a, b, x, y

Verify(role) == [verify |-> role, mode |-> "off"]
Limitless(m) == [verify |-> "none", mode |-> m]
Pairs == {<<Verify("reader"), Verify("writer")>>,
          <<Limitless("immediate"), Limitless("lazy")>>,
          <<Limitless("immediate"), Verify("none")>>}

MCSetups ==
    {[c \in {a, b} |-> IF c = a THEN pair[1] ELSE pair[2]] : pair \in Pairs}

Row(weight, row) == [weight |-> weight, row |-> row]
MCRouterLists ==
    {1 :> Row(2, 1) @@ 2 :> Row(1, 2), 1 :> Row(2, 2) @@ 2 :> Row(1, 1),
     1 :> Row(1, 1) @@ 2 :> Row(1, 2) @@ 3 :> Row(2, 3)}
===============================================================================
